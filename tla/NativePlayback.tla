--------------------------- MODULE NativePlayback ---------------------------
(***************************************************************************)
(* A song played by the DSP's own codec (native_playback.c).  The decoder, *)
(* in the main loop, appends a piece of PCM data to a list; the TX         *)
(* interrupt takes a frame from the first pieces, sends silence for what   *)
(* is missing, and asks for the next decoding when little is left.  What   *)
(* Mp3Stream says of the decoder is here the length of what it puts out.   *)
(***************************************************************************)
EXTENDS DmaTasks

CONSTANTS NeededLength,     \* NATIVE_PLAYBACK_SINGLE_FRAME
          DecoderThd,       \* NATIVE_PLAYBACK_DECODER_THD
          Lengths,          \* bound: of a decoded piece
          Positions         \* bound: positions of the song are counted modulo this

ASSUME PlaybackAssumption ==
  /\ NeededLength \in Nat \ {0} /\ DecoderThd \in Nat /\ Positions \in Nat \ {0}
  /\ Lengths \subseteq Nat \ {0}
  /\ IsFiniteSet(Elements) /\ Elements = 1 .. Cardinality(Elements)

VARIABLES
  pcm_data_list, pcm_data, pcm_size_in_list, native_playback_started,
  decoded,      \* position in the song of the next byte of the decoder
  played,       \* position of the next byte of the speaker
  fed           \* the list was full once, and no decoding since came back empty

playbackVars == <<pcm_data_list, pcm_data, pcm_size_in_list, native_playback_started,
                  decoded, played, fed>>

NoData == [from |-> 0, offset |-> 0, length |-> 0]

Unused == {n \in Elements : pcm_data[n] = NoData}

PlaybackInit ==
  /\ pcm_data_list = [first |-> NULL, last |-> NULL, next |-> [n \in Elements |-> NULL]]
  /\ pcm_data = [n \in Elements |-> NoData]
  /\ pcm_size_in_list = 0
  /\ native_playback_started = 0
  /\ decoded = 0 /\ played = 0 /\ fed = FALSE

-----------------------------------------------------------------------------
(* One turn of the interrupt's loop, on a record of what it works on.  A   *)
(* freed piece's memory is as good as new.                                 *)
OffsetStays(p) ==    \* mutant: the piece that is left forgets what was taken of it
  LET n    == co_list_pick(p.list)
      last == p.data[n].length - p.data[n].offset
  IN IF last > p.needed
     THEN [p EXCEPT !.size = @ - p.needed, !.needed = 0]
     ELSE [p EXCEPT !.list = [co_list_pop_front(@) EXCEPT !.next[n] = NULL],
                    !.data[n] = NoData, !.size = @ - last, !.needed = @ - last]
TakeFromFirst(p) ==
  LET n    == co_list_pick(p.list)
      last == p.data[n].length - p.data[n].offset
  IN IF last > p.needed
     THEN [p EXCEPT !.data[n].offset = @ + p.needed, !.size = @ - p.needed, !.needed = 0]
     ELSE [p EXCEPT !.list = [co_list_pop_front(@) EXCEPT !.next[n] = NULL],
                    !.data[n] = NoData, !.size = @ - last, !.needed = @ - last]

(* The loop: at most NeededLength turns, as each takes a byte or more.     *)
Turn[k \in 0 .. NeededLength] ==
  IF k = 0
  THEN [list |-> pcm_data_list, data |-> pcm_data,
        size |-> pcm_size_in_list, needed |-> NeededLength]
  ELSE LET p == Turn[k - 1] IN
       IF co_list_is_empty(p.list) \/ p.needed = 0 THEN p ELSE TakeFromFirst(p)

AfterTaking == Turn[NeededLength]

AsksWhenEmpty(size) == size < NeededLength    \* mutant: asks when it is too late
AsksForMore(size) == size < DecoderThd

native_playback_ipc_tx ==
  LET p == AfterTaking IN
  /\ pending' = pending \ {"tx"}
  /\ pcm_data_list' = p.list
  /\ pcm_data' = p.data
  /\ pcm_size_in_list' = p.size
  /\ played' = (played + NeededLength - p.needed) % Positions
  /\ IF AsksForMore(p.size) THEN task_msg_insert("MP3_DECODER_DO_DECODE")
     ELSE UNCHANGED task_list
  /\ UNCHANGED <<running, handler, enabled, native_playback_started, decoded, fed>>

PlaybackInterrupt == Interrupt("tx", "native_playback_ipc_tx") /\ native_playback_ipc_tx

-----------------------------------------------------------------------------
(* The first step of a decoding takes its raw data; the song may have none *)
(* to give.                                                                *)
DecodesNothing ==
  /\ Step("MP3_DECODER_DO_DECODE", "start")
  /\ Done
  /\ fed' = FALSE
  /\ UNCHANGED <<task_list, handler, enabled, pending, pcm_data_list, pcm_data,
                 pcm_size_in_list, native_playback_started, decoded, played>>

(* native_playback_recv_frame appends what was decoded, with the           *)
(* interrupts disabled.                                                    *)
native_playback_recv_frame(n, length) ==
  /\ pcm_data' = [pcm_data EXCEPT ![n] = [from |-> decoded, offset |-> 0, length |-> length]]
  /\ pcm_data_list' = co_list_push_back(pcm_data_list, n)
  /\ pcm_size_in_list' = pcm_size_in_list + length
  /\ decoded' = (decoded + length) % Positions
  /\ fed' = (fed \/ pcm_size_in_list' >= DecoderThd)
  /\ UNCHANGED <<native_playback_started, played>>

(* Bound: the memory of the pieces is used in turn.                        *)
Malloc == IF co_list_is_empty(pcm_data_list) THEN 1
          ELSE (pcm_data_list.last % Cardinality(Elements)) + 1

Decodes ==
  /\ Step("MP3_DECODER_DO_DECODE", "start")
  /\ native_playback_started = 1
  /\ Malloc \in Unused
  /\ \E length \in Lengths :
       native_playback_recv_frame(Malloc, length)
  /\ Done
  /\ UNCHANGED <<task_list, handler, enabled, pending>>

-----------------------------------------------------------------------------
(* MP3_DECODER_INIT of a song for the DSP's own codec: mp3_decoder_init    *)
(* with native_playback_init.                                              *)
TxIsNotEnabled ==    \* mutant: the interrupt is left disabled
  /\ Step("MP3_DECODER_INIT", "start")
  /\ Done
  /\ pcm_data_list' = co_list_init(pcm_data_list)
  /\ ipc_dma_init(NULL, "native_playback_ipc_tx")
  /\ native_playback_started' = 1
  /\ decoded' = 0 /\ played' = 0 /\ fed' = FALSE
  /\ UNCHANGED <<task_list, pending, enabled, pcm_data, pcm_size_in_list>>
native_playback_init ==
  /\ Step("MP3_DECODER_INIT", "start")
  /\ Done
  /\ pcm_data_list' = co_list_init(pcm_data_list)
  /\ ipc_dma_init(NULL, "native_playback_ipc_tx")
  /\ enabled' = enabled \cup {"tx"}
  /\ native_playback_started' = 1
  /\ decoded' = 0 /\ played' = 0 /\ fed' = FALSE
  /\ UNCHANGED <<task_list, pending, pcm_data, pcm_size_in_list>>

(* DECODER_PREPARE_FOR_NEXT: mp3_decoder_destroy ends the decoder, then    *)
(* native_playback_destroy disables the interrupt and frees the list.      *)
DestroyBegins ==
  /\ Step("DECODER_PREPARE_FOR_NEXT", "start")
  /\ Goto("destroy")
  /\ native_playback_started' = 0
  /\ fed' = FALSE
  /\ UNCHANGED <<task_list, handler, enabled, pending, pcm_data_list, pcm_data,
                 pcm_size_in_list, decoded, played>>

TxStaysEnabled ==    \* mutant: the interrupt goes on
  /\ Step("DECODER_PREPARE_FOR_NEXT", "destroy")
  /\ Done
  /\ pcm_data_list' = [first |-> NULL, last |-> NULL, next |-> [n \in Elements |-> NULL]]
  /\ pcm_data' = [n \in Elements |-> NoData]
  /\ pcm_size_in_list' = 0
  /\ decoded' = 0 /\ played' = 0
  /\ UNCHANGED <<task_list, handler, enabled, pending, native_playback_started, fed>>
native_playback_destroy ==
  /\ Step("DECODER_PREPARE_FOR_NEXT", "destroy")
  /\ Done
  /\ enabled' = enabled \ {"tx"}
  /\ pcm_data_list' = [first |-> NULL, last |-> NULL, next |-> [n \in Elements |-> NULL]]
  /\ pcm_data' = [n \in Elements |-> NoData]
  /\ pcm_size_in_list' = 0
  /\ decoded' = 0 /\ played' = 0
  /\ UNCHANGED <<task_list, handler, pending, native_playback_started, fed>>

-----------------------------------------------------------------------------
(* The AT command 'A' waits for a while with the interrupts off and serves *)
(* the TX interrupt itself.                                                *)
PollBegins ==
  /\ Step("RECEIVE_AT_COMMAND", "start")
  /\ Goto("poll")
  /\ UNCHANGED <<task_list, handler, enabled, pending>>
  /\ UNCHANGED playbackVars

native_playback_ipc_check_irq ==
  /\ Step("RECEIVE_AT_COMMAND", "poll")
  /\ native_playback_started = 1
  /\ "tx" \in pending
  /\ native_playback_ipc_tx

PollEnds ==
  /\ Step("RECEIVE_AT_COMMAND", "poll")
  /\ Done
  /\ UNCHANGED <<task_list, handler, enabled, pending>>
  /\ UNCHANGED playbackVars

-----------------------------------------------------------------------------
(* The pieces that the first k steps of a walk through the list find.      *)
Found[k \in 0 .. Cardinality(Elements)] ==
  IF k = 0 THEN <<>>
  ELSE LET before == Found[k - 1]
           next   == IF before = <<>> THEN pcm_data_list.first
                     ELSE pcm_data_list.next[before[Len(before)]]
       IN IF next = NULL THEN before ELSE Append(before, next)

Walk == Found[Cardinality(Elements)]

(* What the speaker is to get, byte by byte.                               *)
Bytes == UNION {{n} \X (pcm_data[n].offset .. pcm_data[n].length - 1) : n \in Elements}

(* What the speaker is to get follows on what it got, piece by piece, up   *)
(* to what the decoder last put out, and pcm_size_in_list is how much that *)
(* is: no byte is lost, doubled or out of order between the interrupt and  *)
(* the main loop.                                                          *)
PcmInOrder ==
  LET s == Walk
      Begin(k) == (pcm_data[s[k]].from + pcm_data[s[k]].offset) % Positions
      End(k)   == IF k = 0 THEN played
                  ELSE (pcm_data[s[k]].from + pcm_data[s[k]].length) % Positions
  IN /\ Represents(pcm_data_list, s)
     /\ \A k \in 1 .. Len(s) : Begin(k) = End(k - 1)
     /\ End(Len(s)) = decoded
     /\ pcm_size_in_list = Cardinality(Bytes)
     /\ Unused = {n \in Elements : \A k \in 1 .. Len(s) : s[k] # n}

(* Once the list was full, the speaker gets no silence in the song unless  *)
(* the decoder had no data: THD is no less than what is played while the   *)
(* main loop is MaxDecodings messages behind.                              *)
NoSilenceInTheSong ==
  fed /\ "tx" \in pending => pcm_size_in_list >= NeededLength

(* Each message that asks for a decoding was posted when little was left,  *)
(* and their number alone bounds the memory the song takes.                *)
PcmIsBounded ==
  \A longest \in Lengths : (\A l \in Lengths : l <= longest) =>
    pcm_size_in_list + longest * Behind("MP3_DECODER_DO_DECODE")
       < DecoderThd + longest * MaxDecodings

(* The list holds the song's bytes in order, and not too many of them.     *)
PcmInv == PcmInOrder /\ PcmIsBounded
=============================================================================
