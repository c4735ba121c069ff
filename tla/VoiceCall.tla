----------------------------- MODULE VoiceCall -----------------------------
(***************************************************************************)
(* The voice processing of a call (audio_algorithm.c).  With each DMA      *)
(* frame the RX interrupt puts two frames of far voice into plc_buffer and *)
(* two of the microphone into local_in_buffer and posts a message; the TX  *)
(* interrupt sends two frames of plc_buffer to the speaker and two of      *)
(* aec_out_buffer to the far end; the message's handler, between them in   *)
(* the main loop, repairs the far voice and takes the echo out of the      *)
(* near.  Each buffer is a ring; only its offsets are modelled, in units   *)
(* of ten samples.                                                         *)
(***************************************************************************)
EXTENDS DmaTasks

CONSTANTS FRAME, AEC_SIZE, AEC_FRAMES, PLC_FRAMES, SHIFT, SETTLE

AEC_OFFSET == AEC_SIZE + FRAME

PLC_MAX == PLC_FRAMES * FRAME      \* also of the local ring

OUT_MAX == AEC_FRAMES * AEC_SIZE

Envs == [plc_insert : 0 .. PLC_MAX - 1, plc_write : 0 .. PLC_MAX - 1,
         plc_read : 0 .. PLC_MAX - 1, plc_aec : 0 .. PLC_MAX - 1,
         local_write : 0 .. PLC_MAX - 1, local_read : 0 .. PLC_MAX - 1,
         out_write : 0 .. OUT_MAX - 1, out_read : 0 .. OUT_MAX - 1,
         settle : 0 .. SETTLE, launches : 0 .. MaxFrames]

ASSUME RingSizes ==
  /\ {FRAME, AEC_SIZE, AEC_FRAMES, PLC_FRAMES, SETTLE} \subseteq Nat \ {0}
  /\ AEC_FRAMES >= 3
  /\ SHIFT \in 0 .. PLC_MAX - 8 * FRAME
  /\ AEC_SIZE <= PLC_MAX /\ OUT_MAX % FRAME = 0
  /\ NULL \notin Envs

VARIABLES
  env,    \* audio_algorithm_env: NULL or the offsets and counters
  late    \* history: the frames' messages posted since AUDIO_ALGO_DESTROY was taken

-----------------------------------------------------------------------------
NextFrame(offset, max) == IF offset + FRAME >= max THEN 0 ELSE offset + FRAME

(* A window that reaches the end of the ring goes on at its start.         *)
NextWindow(offset, size, max) ==
  IF max - offset >= size THEN IF offset + size >= max THEN 0 ELSE offset + size
  ELSE size - (max - offset)

audio_algorithm_init ==
  [plc_insert |-> 0, plc_write |-> 0,
   plc_read |-> PLC_MAX - 8 * FRAME, plc_aec |-> PLC_MAX - 8 * FRAME - SHIFT,
   local_write |-> 0, local_read |-> 0,
   out_write |-> 0, out_read |-> (AEC_FRAMES - 3) * AEC_SIZE,
   settle |-> SETTLE, launches |-> 0]

audio_algorithm_recv_data(e) ==
  [e EXCEPT !.local_write = NextFrame(@, PLC_MAX), !.plc_insert = NextFrame(@, PLC_MAX)]

audio_algorithm_send_data(e) ==
  [e EXCEPT !.plc_read = NextFrame(@, PLC_MAX), !.out_read = NextWindow(@, FRAME, OUT_MAX)]

-----------------------------------------------------------------------------
(* The RX interrupt.  The first SETTLE of them only count.                 *)
RxAppends ==    \* mutant: the message goes to the end of the list
  /\ Interrupt("rx", "audio_algorithm_ipc_rx")
  /\ pending' = pending \ {"rx"}
  /\ IF env = NULL \/ env.settle > 1
     THEN /\ env' = IF env = NULL THEN env ELSE [env EXCEPT !.settle = @ - 1]
          /\ UNCHANGED <<task_list, late>>
     ELSE /\ env' = [audio_algorithm_recv_data(audio_algorithm_recv_data(env))
                       EXCEPT !.settle = 0, !.launches = @ + 1]
          /\ task_msg_insert("AUDIO_IPC_DMA_RX")
          /\ late' = IF running.id = "AUDIO_ALGO_DESTROY" THEN late + 1 ELSE late
  /\ UNCHANGED <<running, handler, enabled>>
audio_algorithm_ipc_rx ==
  /\ Interrupt("rx", "audio_algorithm_ipc_rx")
  /\ pending' = pending \ {"rx"}
  /\ IF env = NULL \/ env.settle > 1
     THEN /\ env' = IF env = NULL THEN env ELSE [env EXCEPT !.settle = @ - 1]
          /\ UNCHANGED <<task_list, late>>
     ELSE /\ env' = [audio_algorithm_recv_data(audio_algorithm_recv_data(env))
                       EXCEPT !.settle = 0, !.launches = @ + 1]
          /\ task_msg_insert_front("AUDIO_IPC_DMA_RX")
          /\ late' = IF running.id = "AUDIO_ALGO_DESTROY" THEN late + 1 ELSE late
  /\ UNCHANGED <<running, handler, enabled>>

(* The TX interrupt, with audio_algorithm_ipc_tx_handler.                  *)
audio_algorithm_ipc_tx ==
  /\ Interrupt("tx", "audio_algorithm_ipc_tx")
  /\ pending' = pending \ {"tx"}
  /\ env' = IF env = NULL \/ env.settle # 0 THEN env
            ELSE audio_algorithm_send_data(audio_algorithm_send_data(env))
  /\ UNCHANGED <<late, task_list, running, handler, enabled>>

-----------------------------------------------------------------------------
(* The RX message's handler counts it off with the interrupts disabled.    *)
(* It does not look whether there is an environment.  Without one it reads *)
(* and writes through a NULL pointer, at an address where the DSP has no   *)
(* memory: either nothing comes of it, and audio_alg_launch, which looks,  *)
(* returns at once, or the access ends in an exception, and all is lost.   *)
audio_algorithm_ipc_rx_handler ==
  /\ Step("AUDIO_IPC_DMA_RX", "start")
  /\ \/ /\ env # NULL
        /\ env' = [env EXCEPT !.launches = IF @ # 0 THEN @ - 1 ELSE @]
        /\ Goto("launch")
        /\ UNCHANGED late
     \/ /\ env = NULL /\ UNCHANGED env
        /\ \/ Done /\ late' = late - 1
           \/ Goto("lost") /\ UNCHANGED late
  /\ UNCHANGED <<task_list, handler, enabled, pending>>

(* audio_alg_launch moves the write offset first, then it repairs the      *)
(* frame that the offset has left.                                         *)
LaunchRepair ==
  /\ Step("AUDIO_IPC_DMA_RX", "launch")
  /\ env' = [env EXCEPT !.plc_write = NextFrame(@, PLC_MAX)]
  /\ Goto("repair")
  /\ UNCHANGED <<late, task_list, handler, enabled, pending>>

(* The end of a run of audio_alg_launch; the handler makes two.            *)
LaunchReturns ==
  IF running.left = 1 THEN Done
  ELSE running' = [running EXCEPT !.at = "launch", !.left = @ - 1]

(* When the microphone has filled a window, the handler copies it and the  *)
(* window of the far voice that it may hold an echo of.                    *)
WindowIsReady ==
  (env.local_write + PLC_MAX - env.local_read) % PLC_MAX >= AEC_OFFSET

LaunchTakesOneWindow ==    \* mutant: the far voice is not taken
  /\ Step("AUDIO_IPC_DMA_RX", "repair")
  /\ IF WindowIsReady
     THEN /\ env' = [env EXCEPT !.local_read = NextWindow(@, AEC_SIZE, PLC_MAX)]
          /\ Goto("echo")
     ELSE LaunchReturns /\ UNCHANGED env
  /\ UNCHANGED <<late, task_list, handler, enabled, pending>>
LaunchTakesWindows ==
  /\ Step("AUDIO_IPC_DMA_RX", "repair")
  /\ IF WindowIsReady
     THEN /\ env' = [env EXCEPT !.plc_aec = NextWindow(@, AEC_SIZE, PLC_MAX),
                                !.local_read = NextWindow(@, AEC_SIZE, PLC_MAX)]
          /\ Goto("echo")
     ELSE LaunchReturns /\ UNCHANGED env
  /\ UNCHANGED <<late, task_list, handler, enabled, pending>>

(* Noise, gain and echo are done; the window goes to the far end's ring.   *)
LaunchPutsWindow ==
  /\ Step("AUDIO_IPC_DMA_RX", "echo")
  /\ env' = [env EXCEPT !.out_write =
               IF @ + AEC_SIZE >= OUT_MAX THEN 0 ELSE @ + AEC_SIZE]
  /\ LaunchReturns
  /\ UNCHANGED <<late, task_list, handler, enabled, pending>>

-----------------------------------------------------------------------------
(* audio_init, the handler of AUDIO_ALGO_CREATE.                           *)
audio_init ==
  /\ Step("AUDIO_ALGO_CREATE", "start")
  /\ Done
  /\ IF env # NULL THEN UNCHANGED <<env, handler, enabled>>
     ELSE /\ env' = audio_algorithm_init
          /\ ipc_dma_init("audio_algorithm_ipc_rx", "audio_algorithm_ipc_tx")
          /\ enabled' = Dma
  /\ UNCHANGED <<late, task_list, pending>>

ReleaseKeepsEnv ==    \* mutant: the environment is still there when it is freed
  /\ Step("AUDIO_ALGO_DESTROY", "start")
  /\ Done
  /\ enabled' = {}
  /\ pending' = {}
  /\ UNCHANGED <<late, task_list, handler, env>>
audio_algorithm_release ==
  /\ Step("AUDIO_ALGO_DESTROY", "start")
  /\ Done
  /\ enabled' = {}
  /\ pending' = {}
  /\ env' = NULL
  /\ UNCHANGED <<late, task_list, handler>>

VoiceInterrupts == audio_algorithm_ipc_rx \/ audio_algorithm_ipc_tx

VoiceHandlers ==
  \/ audio_init
  \/ audio_algorithm_release
  \/ audio_algorithm_ipc_rx_handler
  \/ LaunchRepair
  \/ LaunchTakesWindows
  \/ LaunchPutsWindow

-----------------------------------------------------------------------------
(* How far b is behind a in the ring.                                      *)
Lag(a, b) == (a - b) % PLC_MAX

(* The four offsets of plc_buffer stay in order, with room between for     *)
(* what is under way: the interrupt writes over frames that no one needs   *)
(* any more, the speaker gets no frame that is not repaired yet or just    *)
(* under repair, and the echo canceller gets only frames that are          *)
(* repaired (the comment on the first offsets and the one in               *)
(* audio_alg_launch on read and write).                                    *)
PlcOffsetsInOrder ==
  env # NULL =>
    LET unrepaired == Lag(env.plc_insert, env.plc_write)
                      + (IF running.at = "repair" THEN FRAME ELSE 0)
        unheard    == Lag(env.plc_insert, env.plc_read)
        unused     == Lag(env.plc_insert, env.plc_aec)
    IN /\ unrepaired <= unheard
       /\ unheard <= unused
       /\ unused + 2 * FRAME <= PLC_MAX
       /\ WindowIsReady => unrepaired + AEC_SIZE <= unused

(* Each frame that came in has a run of audio_alg_launch to come, none of  *)
(* another call's messages among them, and launch_algo_msg_count counts    *)
(* the messages that wait.                                                 *)
EachFrameHasItsLaunch ==
  env # NULL =>
    LET under_way == IF running.id # "AUDIO_IPC_DMA_RX" THEN 0
                     ELSE IF running.at \in {"start", "launch"} THEN running.left
                     ELSE running.left - 1
        taken == IF Step("AUDIO_IPC_DMA_RX", "start") THEN 1 ELSE 0
    IN /\ Lag(env.plc_insert, env.plc_write)
            = FRAME * (2 * Count("AUDIO_IPC_DMA_RX") + under_way)
       /\ env.launches = Count("AUDIO_IPC_DMA_RX") + taken

(* The far voice given to the echo canceller is always the same time       *)
(* before the near voice that is given with it.                            *)
EchoIsAligned ==
  env # NULL =>
    Lag(env.plc_insert, env.plc_aec) = 8 * FRAME + SHIFT
                                       + Lag(env.local_write, env.local_read)

(* The far end is sent only windows that are finished, and none is written *)
(* over before it is sent.                                                 *)
UplinkInOrder ==
  env # NULL =>
    LET unsent == (env.out_write - env.out_read) % OUT_MAX IN
    /\ unsent >= 2 * FRAME
    /\ unsent + AEC_SIZE <= OUT_MAX

(* The rings of the call are in order, and in step with each other.        *)
CallInv == PlcOffsetsInOrder /\ UplinkInOrder /\ EchoIsAligned

(* A frame's message that was posted before AUDIO_ALGO_DESTROY was taken   *)
(* is handled with the environment of its call: the handler is without one *)
(* only for what the interrupt has posted since, before it was disabled,   *)
(* and none of that is left when the next call begins.  The other handlers *)
(* do not meet it.                                                         *)
OnlyLateFramesAreLeft ==
  IF env # NULL THEN running.id # "AUDIO_ALGO_DESTROY" => late = 0
  ELSE /\ Behind("AUDIO_IPC_DMA_RX") = late
       /\ late > 0 => running = Idle \/ running.id = "AUDIO_IPC_DMA_RX"
=============================================================================
