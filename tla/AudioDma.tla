------------------------------ MODULE AudioDma ------------------------------
(***************************************************************************)
(* The voice call and the native playback together, on the same two        *)
(* interrupts and the same main loop, with an MCU that starts and ends     *)
(* calls and songs by the messages of ipc_rx_user_handler (main.c) and a   *)
(* terminal that sends the AT command 'A'.                                 *)
(***************************************************************************)
EXTENDS VoiceCall, NativePlayback

VARIABLE mcu    \* what the MCU is doing

vars == <<dmaVars, env, late, playbackVars, mcu>>

Init == DmaInit /\ env = NULL /\ late = 0 /\ PlaybackInit /\ mcu = "idle"

-----------------------------------------------------------------------------
(* The MCU ends a song, and waits for DECODER_PREP_READY, before it starts *)
(* a call, and ends the call before the next song.  Nothing answers the    *)
(* starting and ending of a call, and the MCU may say either twice.        *)
McuStartsSong == mcu = "idle" /\ mcu' = "song" /\ Post("MP3_DECODER_INIT")

McuEndsSong == mcu = "song" /\ mcu' = "ending" /\ Post("DECODER_PREPARE_FOR_NEXT")

McuStartsCall == mcu \in {"idle", "call"} /\ mcu' = "call" /\ Post("AUDIO_ALGO_CREATE")

McuEndsCall == mcu \in {"idle", "call"} /\ mcu' = "idle" /\ Post("AUDIO_ALGO_DESTROY")

AtCommand == Post("RECEIVE_AT_COMMAND") /\ UNCHANGED mcu

ipc_rx_user_handler ==
  /\ McuStartsSong \/ McuEndsSong \/ McuStartsCall \/ McuEndsCall
  /\ UNCHANGED <<env, late, playbackVars>>

(* decoder_prepare_for_next_handler tells the MCU when all is freed.       *)
PrepareForNext == native_playback_destroy /\ mcu' = "idle" /\ UNCHANGED <<env, late>>

Interrupts ==
  \/ VoiceInterrupts /\ UNCHANGED <<playbackVars, mcu>>
  \/ PlaybackInterrupt /\ UNCHANGED <<env, late, mcu>>

Take == TaskSchedule /\ UNCHANGED <<env, late, playbackVars, mcu>>

Handlers ==
  \/ VoiceHandlers /\ UNCHANGED <<playbackVars, mcu>>
  \/ (DecodesNothing \/ Decodes \/ native_playback_init \/ DestroyBegins
      \/ PollBegins \/ native_playback_ipc_check_irq \/ PollEnds) /\ UNCHANGED <<env, late, mcu>>
  \/ PrepareForNext

DmaFrame == Frame /\ UNCHANGED <<env, late, playbackVars, mcu>>

(* After an exception nothing goes on.                                     *)
DspIsLost == running.at = "lost" /\ UNCHANGED vars

Next ==
  \/ Interrupts
  \/ Take
  \/ Handlers
  \/ DmaFrame
  \/ ipc_rx_user_handler
  \/ AtCommand /\ UNCHANGED <<env, late, playbackVars>>
  \/ DspIsLost

TakeOther == Take /\ Head(task_list) # "AUDIO_IPC_DMA_RX"

(* Interrupts are served, the main loop runs and the DMA goes on.  SF:     *)
(* a main loop that again and again finds another message than a frame's   *)
(* at the head of its list takes it some time.                             *)
Fairness ==
  /\ SF_vars(Interrupts)
  /\ WF_vars(Take)
  /\ WF_vars(Handlers /\ running' # running)
  /\ WF_vars(DmaFrame)
  /\ SF_vars(TakeOther)

SafeSpec == Init /\ [][Next]_vars

Spec == SafeSpec /\ Fairness

-----------------------------------------------------------------------------
TypeOK ==
  /\ task_list \in Seq(FromDma \cup FromOutside)
  /\ running \in [id : FromDma \cup FromOutside \cup {"none"},
                  at : {"get", "start", "launch", "repair", "echo", "destroy", "poll", "lost"},
                  left : 0 .. 2]
  /\ handler.rx \in {NULL, "audio_algorithm_ipc_rx"}
  /\ handler.tx \in {NULL, "audio_algorithm_ipc_tx", "native_playback_ipc_tx"}
  /\ enabled \subseteq Dma /\ pending \subseteq Dma
  /\ env # NULL => env \in Envs
  /\ late \in 0 .. MaxFrames
  /\ pcm_data_list \in Lists
  /\ pcm_data \in [Elements -> [from : 0 .. Positions - 1, offset : Nat, length : Nat]]
  /\ pcm_size_in_list \in Nat /\ native_playback_started \in {0, 1}
  /\ decoded \in 0 .. Positions - 1 /\ played \in 0 .. Positions - 1 /\ fed \in BOOLEAN
  /\ mcu \in {"idle", "song", "ending", "call"}

(* The variables keep their types, and the messages of the frames are      *)
(* those of the call that runs, or came too late for the one that ends.    *)
AudioInv == TypeOK /\ EachFrameHasItsLaunch /\ OnlyLateFramesAreLeft

(* A call and a song never run together, and each has the interrupts it    *)
(* needs with its own handlers; without either none comes through.  The    *)
(* two share the TX interrupt, and the end of each switches it off.        *)
TheRightHandlers ==
  /\ env # NULL =>
       /\ native_playback_started = 0
       /\ enabled = Dma
       /\ handler = [rx |-> "audio_algorithm_ipc_rx", tx |-> "audio_algorithm_ipc_tx"]
  /\ native_playback_started = 1 =>
       enabled = {"tx"} /\ handler.tx = "native_playback_ipc_tx"
  /\ env = NULL /\ native_playback_started = 0 =>
       enabled = {} \/ Step("DECODER_PREPARE_FOR_NEXT", "destroy")

Waits(id) == \E i \in 1 .. Len(task_list) : task_list[i] = id

(* A call that the MCU has ended is released, as long as the main loop has *)
(* handled all frames again and again: each frame's message goes before    *)
(* all others.                                                             *)
CallIsReleased ==
  []<>(Behind("AUDIO_IPC_DMA_RX") = 0)
     => (Waits("AUDIO_ALGO_DESTROY") ~> env = NULL)

(* A song with little left in the list gets another decoding: only the     *)
(* interrupt asks for one.                                                 *)
SongGoesOn ==
  native_playback_started = 1 /\ pcm_size_in_list < DecoderThd
     ~> running.id = "MP3_DECODER_DO_DECODE" \/ native_playback_started = 0
=============================================================================
