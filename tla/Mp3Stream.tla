----------------------------- MODULE Mp3Stream -----------------------------
(***************************************************************************)
(* The streaming of a song: the MCU sends raw mp3 frames on request, the   *)
(* DSP decodes them, encodes them as SBC and sends SBC frames on request.  *)
(*                                                                         *)
(*   mp3_decoder.c   the ring of raw data, the requests for more, the      *)
(*                   state of the decoder                                  *)
(*   sbc_encoder.c   the list of encoded frames                            *)
(*   main.c, tasks.c the messages from interrupt to main loop              *)
(*                                                                         *)
(* The handlers of the MCU's messages run in the IPC interrupt, between    *)
(* any two steps of the main loop; a step of the main loop is a handler's  *)
(* code up to the next point where an interrupt makes a difference.  The   *)
(* IPC driver is used as Ipc.tla shows it works: messages to the MCU       *)
(* arrive once, later.  The mp3 and SBC libraries are external.            *)
(***************************************************************************)
EXTENDS Naturals, Sequences, FiniteSets

CONSTANTS
  MP3_DECODER_BUFFER_SIZE,      \* bytes in the ring
  MP3_DECODER_REQUEST_DATA_THD, \* bytes to consume before a new request
  MP3_DECODER_BUFFERING_LIMIT,  \* bytes to receive before decoding starts
  Unit,                         \* 256, the unit of IPC_MSG_RAW_BUFFER_SPACE
  ui_inp_size,                  \* input buffer of the mp3 library
  SBC_A2DP_SUB_FRAME_COUNT,     \* SBC frames sent at a time
  MaxFrame,                     \* greatest raw frame that the MCU sends
  MaxOutput,                    \* most SBC frames that one decoding makes
  SongLength,                   \* bytes in a song
  EarlyAnswer                   \* may the MCU answer before init has ended?

ASSUME SizeAssumption ==
  /\ MP3_DECODER_BUFFER_SIZE \in Nat /\ Unit \in Nat \ {0}
  /\ MP3_DECODER_BUFFER_SIZE % Unit = 0 /\ MP3_DECODER_BUFFER_SIZE >= 2 * Unit
  /\ MP3_DECODER_REQUEST_DATA_THD \in Nat \ {0}
  /\ ui_inp_size \in Nat \ {0}
  /\ SBC_A2DP_SUB_FRAME_COUNT \in Nat \ {0}
  /\ MaxFrame \in Nat \ {0} /\ MaxOutput \in Nat
  /\ EarlyAnswer \in BOOLEAN

(* What a request leaves in the ring is enough to reach the threshold of   *)
(* the next one, and the first request to start decoding.                  *)
ASSUME ThresholdAssumption ==
  /\ MP3_DECODER_REQUEST_DATA_THD + ui_inp_size + 2 * Unit <= MP3_DECODER_BUFFER_SIZE + 1
  /\ MP3_DECODER_BUFFERING_LIMIT \in 1 .. MP3_DECODER_BUFFER_SIZE - Unit
  /\ SongLength \in Nat /\ SongLength >= MP3_DECODER_BUFFERING_LIMIT

VARIABLES
  task_list,          \* messages from the interrupts to the main loop
  pc,                 \* where the main loop is
  buffer,             \* mp3_decoder_buffer # NULL
  input_index, output_index,
  total_input,        \* up to MP3_DECODER_BUFFERING_LIMIT
  dynamic_consumed,   \* up to MP3_DECODER_REQUEST_DATA_THD
  all_request_data_received,
  request_data_size,
  decoder_state,
  i_buff_size, i_bytes_consumed,  \* the library's input buffer
  ui_init_done,
  apply_unit,         \* the local of the request for more
  frame_count,        \* sbc_encoder_encoded_frame_count
  sbc_encoder_ready,
  space,              \* units in the RAW_BUFFER_SPACE messages on their way
  mcu,                \* what the MCU does
  credit,             \* bytes that the MCU has been asked for
  left,               \* bytes of the song that the MCU still has
  stored              \* bytes written to the ring and not read (history)

ring   == <<input_index, output_index, stored>>
demand == <<dynamic_consumed, all_request_data_received, request_data_size>>
codec  == <<i_buff_size, i_bytes_consumed, ui_init_done>>
sbc    == <<frame_count, sbc_encoder_ready>>
peer   == <<mcu, credit, left>>
vars   == <<task_list, pc, buffer, ring, total_input, demand, decoder_state,
            codec, apply_unit, sbc, space, peer>>

States == {"IDLE", "BUFFERING", "INITIATING", "DECODING"}
Tasks  == {"MP3_DECODER_INIT", "MP3_DECODER_DO_DECODE",
           "MCU_NEED_MORE_SBC_DATA", "DECODER_PREPARE_FOR_NEXT"}

-----------------------------------------------------------------------------
Lesser(a, b) == IF a < b THEN a ELSE b

Queued(id) == \E i \in 1 .. Len(task_list) : task_list[i] = id
Posted(id) == Append(task_list, id)

(* The next message for the main loop, task_msg_get of task_schedule. *)
Handles(id) == pc = "idle" /\ task_list # <<>> /\ Head(task_list) = id

(* Bytes in the ring as its indices tell: equal indices mean none. *)
Used == IF output_index > input_index
          THEN input_index + MP3_DECODER_BUFFER_SIZE - output_index
          ELSE input_index - output_index

(* An index of the ring moved on by length bytes. *)
Advance(index, length) == (index + length) % MP3_DECODER_BUFFER_SIZE

(* Bytes that the MCU has been asked for and has not sent. *)
Owed == credit + space * Unit

-----------------------------------------------------------------------------
(* mp3_decoder_init *)

NewRing == buffer' = TRUE

(* Up to the request: a new ring, everything reset. *)
InitReset ==
  /\ Handles("MP3_DECODER_INIT")
  /\ task_list' = Tail(task_list)
  /\ NewRing
  /\ input_index' = 0 /\ output_index' = 0 /\ stored' = 0
  /\ dynamic_consumed' = 0 /\ total_input' = 0
  /\ decoder_state' = "IDLE"
  /\ ui_init_done' = FALSE
  /\ pc' = "init_send"
  /\ UNCHANGED <<all_request_data_received, request_data_size, i_buff_size,
                 i_bytes_consumed, apply_unit, sbc, space, peer>>

(* The request for a ring full of data but for one unit ... *)
InitSend ==
  /\ pc = "init_send"
  /\ apply_unit' = MP3_DECODER_BUFFER_SIZE \div Unit - 1
  /\ space' = space + apply_unit'
  /\ pc' = "init_account"
  /\ UNCHANGED <<task_list, buffer, ring, total_input, demand, decoder_state,
                 codec, sbc, peer>>

(* ... and only then the record of what was asked for. *)
InitAccount ==
  /\ pc = "init_account"
  /\ all_request_data_received' = FALSE
  /\ request_data_size' = apply_unit * Unit
  /\ pc' = "idle"
  /\ UNCHANGED <<task_list, buffer, ring, total_input, dynamic_consumed,
                 decoder_state, codec, apply_unit, sbc, space, peer>>

-----------------------------------------------------------------------------
(* mp3_decoder_do_decoder_handler *)

(* No ring full enough yet: wait for the interrupt to ask again. *)
DecodeTooEarly ==
  /\ Handles("MP3_DECODER_DO_DECODE")
  /\ decoder_state \in {"IDLE", "BUFFERING"}
  /\ total_input < MP3_DECODER_BUFFERING_LIMIT
  /\ task_list' = Tail(task_list)
  /\ decoder_state' = "BUFFERING"
  /\ UNCHANGED <<pc, buffer, ring, total_input, demand, codec, apply_unit, sbc,
                 space, peer>>

(* mp3_decoder_engine_init: the library's input buffer starts empty. *)
DecodeFirst ==
  /\ Handles("MP3_DECODER_DO_DECODE")
  /\ decoder_state \in {"IDLE", "BUFFERING"}
  /\ total_input >= MP3_DECODER_BUFFERING_LIMIT
  /\ task_list' = Tail(task_list)
  /\ decoder_state' = "INITIATING"
  /\ i_buff_size' = ui_inp_size /\ i_bytes_consumed' = ui_inp_size
  /\ pc' = "fetch"
  /\ UNCHANGED <<buffer, ring, total_input, demand, ui_init_done, apply_unit,
                 sbc, space, peer>>

DecodeNext ==
  /\ Handles("MP3_DECODER_DO_DECODE")
  /\ decoder_state \in {"INITIATING", "DECODING"}
  /\ task_list' = Tail(task_list)
  /\ pc' = "fetch"
  /\ UNCHANGED <<buffer, ring, total_input, demand, decoder_state, codec,
                 apply_unit, sbc, space, peer>>

(* xa_mp3_dec_get_data, with interrupts disabled: move what fits from the  *)
(* ring to the library's input buffer, behind what it has not consumed.    *)
Fetch ==
  LET kept == i_buff_size - i_bytes_consumed
      read == Lesser(Used, ui_inp_size - kept)
      idle == decoder_state = "DECODING" /\ i_bytes_consumed = 0 /\ read = 0
  IN
  /\ pc = "fetch"
  /\ output_index' = Advance(output_index, read)
  /\ stored' = IF read <= stored THEN stored - read ELSE 0
  /\ i_buff_size' = kept + read
  /\ i_bytes_consumed' = 0
  /\ pc' = IF idle THEN "idle" ELSE "execute"
  /\ UNCHANGED <<task_list, buffer, input_index, total_input, demand,
                 decoder_state, ui_init_done, apply_unit, sbc, space, peer>>

(* What the library may consume: something, when its buffer is full. *)
Consumption == (IF i_buff_size = ui_inp_size THEN 1 ELSE 0) .. i_buff_size

Consume(n) ==
  /\ i_bytes_consumed' = n
  /\ dynamic_consumed' = Lesser(dynamic_consumed + n, MP3_DECODER_REQUEST_DATA_THD)
  /\ pc' = "request"
  /\ UNCHANGED <<task_list, buffer, ring, total_input, all_request_data_received,
                 request_data_size, decoder_state, i_buff_size, apply_unit, space, peer>>

(* mp3_decoder_engine_start: the library may or may not find its header;   *)
(* once it has, the SBC encoder starts.                                    *)
ExecuteStart ==
  /\ pc = "execute" /\ decoder_state = "INITIATING"
  /\ \E n \in Consumption : Consume(n)
  /\ \/ ui_init_done' = TRUE /\ sbc_encoder_ready' = TRUE /\ frame_count' = 0
     \/ ui_init_done' = FALSE /\ UNCHANGED sbc

(* mp3_decoder_engine_decode: the PCM data made goes to the SBC encoder. *)
ExecuteDecode ==
  /\ pc = "execute" /\ decoder_state = "DECODING"
  /\ \E n \in Consumption : Consume(n)
  /\ \E made \in 0 .. MaxOutput : frame_count' = frame_count + made
  /\ UNCHANGED <<ui_init_done, sbc_encoder_ready>>

(* The end of mp3_decoder_do_decoder_handler: the first decoding follows   *)
(* the start at once, a failed start is tried again.                       *)
HandlerEnd ==
  \/ /\ decoder_state = "DECODING"
     /\ pc' = "idle"
     /\ UNCHANGED <<task_list, decoder_state>>
  \/ /\ decoder_state = "INITIATING" /\ ui_init_done
     /\ decoder_state' = "DECODING"
     /\ pc' = "fetch"
     /\ UNCHANGED task_list
  \/ /\ decoder_state = "INITIATING" /\ ~ui_init_done
     /\ task_list' = Posted("MP3_DECODER_DO_DECODE")
     /\ pc' = "idle"
     /\ UNCHANGED decoder_state

MayRequestLater == \* mutant: > for >=, of a counter that stops at the threshold
  /\ all_request_data_received
  /\ dynamic_consumed > MP3_DECODER_REQUEST_DATA_THD
MayRequest ==
  /\ all_request_data_received
  /\ dynamic_consumed >= MP3_DECODER_REQUEST_DATA_THD

(* The units of free space, less one; no ring is fuller than that. *)
AllFreeUnits == \* mutant: the one unit not kept free
  (MP3_DECODER_BUFFER_SIZE - Used) \div Unit
FreeUnits == (MP3_DECODER_BUFFER_SIZE - Used) \div Unit - 1

(* The request for more: first the record of what is asked for ... *)
Request ==
  /\ pc = "request"
  /\ MayRequest /\ FreeUnits # 0
  /\ apply_unit' = FreeUnits
  /\ all_request_data_received' = FALSE
  /\ request_data_size' = FreeUnits * Unit
  /\ dynamic_consumed' = 0
  /\ pc' = "send"
  /\ UNCHANGED <<task_list, buffer, ring, total_input, decoder_state, codec, sbc,
                 space, peer>>

(* ... then the message. *)
RequestSend ==
  /\ pc = "send"
  /\ space' = space + apply_unit
  /\ HandlerEnd
  /\ UNCHANGED <<buffer, ring, total_input, demand, codec, apply_unit, sbc, peer>>

NoRequest ==
  /\ pc = "request"
  /\ ~(MayRequest /\ FreeUnits # 0)
  /\ HandlerEnd
  /\ UNCHANGED <<buffer, ring, total_input, demand, codec, apply_unit, sbc, space, peer>>

-----------------------------------------------------------------------------
(* sbc_encoder_recv_frame_req *)

(* The list after the MCU's request; the answer is on its way ... *)
NeedMore(count) ==
  /\ Handles("MCU_NEED_MORE_SBC_DATA") /\ sbc_encoder_ready
  /\ task_list' = Tail(task_list)
  /\ frame_count' = count
  /\ pc' = "answered"
  /\ UNCHANGED <<buffer, ring, total_input, demand, decoder_state, codec,
                 apply_unit, sbc_encoder_ready, space, peer>>

NeedMoreSent ==
  NeedMore(frame_count - Lesser(frame_count, SBC_A2DP_SUB_FRAME_COUNT))

(* No IPC channel for the frames: they stay, the MCU gets no answer. *)
NeedMoreNoChannel == NeedMore(frame_count)

ShortOrEnough(count) == count <= SBC_A2DP_SUB_FRAME_COUNT \* mutant: <= for <
Short(count) == count < SBC_A2DP_SUB_FRAME_COUNT

(* ... and only then a decoding if the list is short: the MCU, which has   *)
(* its answer, may have asked again in between.                            *)
NeedMoreEnds ==
  /\ pc = "answered"
  /\ task_list' = IF sbc_encoder_ready /\ Short(frame_count)
                    THEN Posted("MP3_DECODER_DO_DECODE") ELSE task_list
  /\ pc' = "idle"
  /\ UNCHANGED <<buffer, ring, total_input, demand, decoder_state, codec,
                 apply_unit, sbc, space, peer>>

NeedMoreNotReady ==
  /\ Handles("MCU_NEED_MORE_SBC_DATA") /\ ~sbc_encoder_ready
  /\ task_list' = Tail(task_list)
  /\ UNCHANGED <<pc, buffer, ring, total_input, demand, decoder_state, codec,
                 apply_unit, sbc, space, peer>>

-----------------------------------------------------------------------------
(* decoder_prepare_for_next_handler: mp3_decoder_destroy, which frees the  *)
(* ring and stops the SBC encoder, then IPC_SUB_MSG_DECODER_PREP_READY.    *)
PrepareForNext ==
  /\ Handles("DECODER_PREPARE_FOR_NEXT")
  /\ task_list' = Tail(task_list)
  /\ buffer' = FALSE
  /\ dynamic_consumed' = 0 /\ total_input' = 0
  /\ decoder_state' = "IDLE"
  /\ all_request_data_received' = FALSE
  /\ frame_count' = 0 /\ sbc_encoder_ready' = FALSE
  /\ mcu' = "ready"
  /\ UNCHANGED <<pc, ring, request_data_size, codec, apply_unit, space, credit, left>>

-----------------------------------------------------------------------------
(* The MCU, and the interrupt that handles its messages *)

(* IPC_SUB_MSG_DECODER_START *)
McuStart ==
  /\ mcu = "stopped" /\ space = 0
  /\ mcu' = "playing" /\ credit' = 0 /\ left' = SongLength
  /\ task_list' = Posted("MP3_DECODER_INIT")
  /\ UNCHANGED <<pc, buffer, ring, total_input, demand, decoder_state, codec,
                 apply_unit, sbc, space>>

(* The MCU reads IPC_MSG_RAW_BUFFER_SPACE. *)
McuSpace ==
  /\ space > 0
  /\ space' = 0
  /\ credit' = IF mcu = "playing" THEN credit + space * Unit ELSE 0
  /\ UNCHANGED <<task_list, pc, buffer, ring, total_input, demand, decoder_state,
                 codec, apply_unit, sbc, mcu, left>>

(* What is still to come of a request after a frame. *)
OutstandingUntilTheLast(length) == \* mutant: the last frame is not counted
  IF request_data_size > length THEN request_data_size - length ELSE request_data_size
Outstanding(length) ==
  IF request_data_size >= length THEN request_data_size - length ELSE 0

(* The frame that fills the ring to the limit starts the decoder. *)
KickWhenMore(total) == \* mutant: > for >=, of a counter that stops at the limit
  decoder_state = "IDLE" /\ total > MP3_DECODER_BUFFERING_LIMIT
Kick(total) == decoder_state = "IDLE" /\ total >= MP3_DECODER_BUFFERING_LIMIT

(* mp3_decoder_recv_frame: what was asked for, how much has come, the copy *)
(* to the ring, and the first decoding.                                    *)
mp3_decoder_recv_frame(length) ==
  /\ request_data_size' = Outstanding(length)
  /\ all_request_data_received' = (all_request_data_received \/ request_data_size' = 0)
  /\ total_input' = Lesser(total_input + length, MP3_DECODER_BUFFERING_LIMIT)
  /\ input_index' = Advance(input_index, length)
  /\ stored' = stored + length
  /\ \/ /\ Kick(total_input')
        /\ decoder_state' = "BUFFERING"
        /\ task_list' = Posted("MP3_DECODER_DO_DECODE")
     \/ /\ ~Kick(total_input')
        /\ UNCHANGED <<decoder_state, task_list>>
  /\ UNCHANGED <<pc, buffer, output_index, dynamic_consumed, codec, apply_unit,
                 sbc, space>>

(* IPC_MSG_RAW_FRAME *)
McuFrame(length) ==
  /\ mcu = "playing" /\ length <= credit /\ length <= left
  /\ EarlyAnswer \/ pc # "init_account"
  /\ credit' = credit - length /\ left' = left - length
  /\ mp3_decoder_recv_frame(length)
  /\ UNCHANGED mcu

(* IPC_SUB_MSG_NEED_MORE_SBC: one at a time. *)
McuNeedMore ==
  /\ mcu = "playing" /\ ~Queued("MCU_NEED_MORE_SBC_DATA")
  /\ task_list' = Posted("MCU_NEED_MORE_SBC_DATA")
  /\ UNCHANGED <<pc, buffer, ring, total_input, demand, decoder_state, codec,
                 apply_unit, sbc, space, peer>>

(* IPC_SUB_MSG_DECODER_PREP_NEXT: the MCU sends nothing more of the song. *)
McuStop ==
  /\ mcu = "playing"
  /\ mcu' = "stopping" /\ credit' = 0 /\ left' = 0
  /\ task_list' = Posted("DECODER_PREPARE_FOR_NEXT")
  /\ UNCHANGED <<pc, buffer, ring, total_input, demand, decoder_state, codec,
                 apply_unit, sbc, space>>

(* The MCU reads IPC_SUB_MSG_DECODER_PREP_READY. *)
McuReady ==
  /\ mcu = "ready"
  /\ mcu' = "stopped"
  /\ UNCHANGED <<task_list, pc, buffer, ring, total_input, demand, decoder_state,
                 codec, apply_unit, sbc, space, credit, left>>

-----------------------------------------------------------------------------
Init ==
  /\ task_list = <<>> /\ pc = "idle"
  /\ buffer = FALSE
  /\ input_index = 0 /\ output_index = 0 /\ stored = 0
  /\ total_input = 0 /\ dynamic_consumed = 0
  /\ all_request_data_received = FALSE /\ request_data_size = 0
  /\ decoder_state = "IDLE"
  /\ i_buff_size = 0 /\ i_bytes_consumed = 0 /\ ui_init_done = FALSE
  /\ apply_unit = 0
  /\ frame_count = 0 /\ sbc_encoder_ready = FALSE
  /\ space = 0
  /\ mcu = "stopped" /\ credit = 0 /\ left = 0

mp3_decoder_init == InitReset \/ InitSend \/ InitAccount
mp3_decoder_do_decoder_handler ==
  \/ DecodeTooEarly \/ DecodeFirst \/ DecodeNext
  \/ Fetch \/ ExecuteStart \/ ExecuteDecode \/ Request \/ RequestSend \/ NoRequest
sbc_encoder_recv_frame_req ==
  NeedMoreSent \/ NeedMoreNoChannel \/ NeedMoreEnds \/ NeedMoreNotReady

MainLoop == \/ mp3_decoder_init
            \/ mp3_decoder_do_decoder_handler
            \/ sbc_encoder_recv_frame_req
            \/ PrepareForNext
McuSends == \E length \in 1 .. MaxFrame : McuFrame(length)
Mcu == McuStart \/ McuSpace \/ McuSends \/ McuNeedMore \/ McuStop \/ McuReady

Next == MainLoop \/ Mcu

SafeSpec == Init /\ [][Next]_vars

(***************************************************************************)
(* The main loop runs; the MCU reads what it is sent, sends what it is     *)
(* asked for while it has it, and keeps asking for SBC frames; it need     *)
(* not start or stop a song.  Whenever SBC frames are asked for again and  *)
(* again, sooner or later an IPC channel is free to send them (see         *)
(* Ipc!DeliveredEventually).                                               *)
(***************************************************************************)
Fairness ==
  /\ WF_vars(MainLoop) /\ SF_vars(NeedMoreSent)
  /\ WF_vars(McuSpace) /\ WF_vars(McuSends) /\ WF_vars(McuNeedMore) /\ WF_vars(McuReady)

Spec == SafeSpec /\ Fairness

-----------------------------------------------------------------------------
(* Properties *)

TypeOK ==
  /\ task_list \in Seq(Tasks)
  /\ pc \in {"idle", "init_send", "init_account", "fetch", "execute", "request", "send",
             "answered"}
  /\ buffer \in BOOLEAN
  /\ {input_index, output_index} \subseteq 0 .. MP3_DECODER_BUFFER_SIZE - 1
  /\ total_input \in 0 .. MP3_DECODER_BUFFERING_LIMIT
  /\ dynamic_consumed \in 0 .. MP3_DECODER_REQUEST_DATA_THD
  /\ all_request_data_received \in BOOLEAN
  /\ {request_data_size, credit, stored} \subseteq 0 .. MP3_DECODER_BUFFER_SIZE
  /\ decoder_state \in States
  /\ {i_buff_size, i_bytes_consumed} \subseteq 0 .. ui_inp_size
  /\ i_bytes_consumed <= i_buff_size
  /\ ui_init_done \in BOOLEAN /\ sbc_encoder_ready \in BOOLEAN
  /\ {apply_unit, space} \subseteq 0 .. MP3_DECODER_BUFFER_SIZE \div Unit
  /\ frame_count \in Nat
  /\ mcu \in {"stopped", "playing", "stopping", "ready"}
  /\ left \in 0 .. SongLength

(* A song is on: the MCU has started it and mp3_decoder_init has ended. *)
Initialised == /\ mcu = "playing" /\ ~Queued("MP3_DECODER_INIT")
               /\ pc \notin {"init_send", "init_account"}

(* What is asked for: with the MCU, on its way, or about to be sent. *)
Asked == Owed + (IF pc = "send" THEN apply_unit * Unit ELSE 0)

(* The ring holds what has been written and not read, as its two indices   *)
(* say: it is never so full that the indices meet again, and what is asked *)
(* for leaves one unit free.                                               *)
RingNeverOverflows ==
  /\ stored = Used
  /\ stored + Asked <= MP3_DECODER_BUFFER_SIZE - Unit

(* "check whether all request data have been received": the record of what *)
(* is still to come is right, or the next request is never sent.           *)
AllRequestDataReceived ==
  Initialised => /\ request_data_size = Asked
                 /\ all_request_data_received <=> Asked = 0

(* Frames come only while there is a ring to copy them to: the MCU is not  *)
(* asked before mp3_decoder_init has a ring, nor sends after destroy; and   *)
(* the decoder reads a ring only while there is one.                       *)
RingForFrames ==
  (mcu = "playing" /\ Owed > 0) \/ pc \in {"fetch", "execute", "request"} => buffer

(* A song that has filled the ring to the limit is being decoded or about  *)
(* to be: the one message that starts it is neither lost nor eaten by a    *)
(* message left from the song before.                                      *)
DecodingStarts ==
  Initialised =>
    /\ decoder_state = "IDLE" => total_input < MP3_DECODER_BUFFERING_LIMIT
    /\ decoder_state \in {"BUFFERING", "INITIATING"} =>
         \/ Queued("MP3_DECODER_DO_DECODE")
         \/ pc \in {"fetch", "execute", "request", "send"}

(* The variables keep their types, there is a ring when one is used, and a *)
(* song starts that can.                                                   *)
StreamInv == TypeOK /\ RingForFrames /\ DecodingStarts

(* Neither the message list nor the list of encoded frames grows without   *)
(* bound, however often the MCU asks and even if it asks again before the  *)
(* decoding for its last request has been posted: two decodings may then   *)
(* wait, the second asked for while the list was still short.              *)
NoFlood ==
  /\ Cardinality({i \in 1 .. Len(task_list) : task_list[i] = "MP3_DECODER_DO_DECODE"}) <= 2
  /\ frame_count < SBC_A2DP_SUB_FRAME_COUNT + 2 * MaxOutput

(* "send IPC_MSG_RAW_BUFFER_SPACE to request more data after               *)
(* MP3_DECODER_REQUEST_DATA_THD bytes have been consumed": once all of the *)
(* last request has come, a song that has more to send is asked for it.    *)
MoreIsRequested ==
  (/\ Initialised /\ left > 0 /\ Asked = 0
   /\ dynamic_consumed >= MP3_DECODER_REQUEST_DATA_THD)
    ~> Asked > 0 \/ mcu # "playing"

(* A song plays to its end unless it is stopped: the MCU has sent all of   *)
(* it and the ring is empty.                                               *)
SongPlays == mcu = "playing" ~> (left = 0 /\ stored = 0) \/ mcu # "playing"
=============================================================================
