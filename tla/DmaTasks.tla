------------------------------ MODULE DmaTasks ------------------------------
(***************************************************************************)
(* What the users of the audio DMA share: the list of task messages with   *)
(* the main loop that takes them one after the other (tasks.c), and the    *)
(* two DMA interrupts (ipc.c), whose handlers run between any two steps of *)
(* the main loop unless it has switched the interrupts off.                *)
(***************************************************************************)
EXTENDS CoList, FiniteSets

CONSTANTS MaxFrames, MaxDecodings,   \* bounds: what the interrupts have asked for
          MaxTasks                   \* bound: messages that wait when one comes from outside

Codes == {"audio_algorithm_ipc_rx", "audio_algorithm_ipc_tx", "native_playback_ipc_tx"}

ASSUME TaskBounds ==
  /\ {MaxFrames, MaxDecodings} \subseteq Nat \ {0} /\ MaxTasks \in Nat
  /\ NULL \notin Codes

VARIABLES
  task_list,    \* ids of the messages that wait; CoListProofs: a co_list is a sequence
  running,      \* the message whose handler runs, at which step of it
  handler,      \* the handlers given to ipc_dma_init, which switch the hardware on too
  enabled,      \* the interrupts that _xtos_interrupt_enable lets through
  pending       \* the interrupts the DMA has raised

dmaVars == <<task_list, running, handler, enabled, pending>>

Dma == {"rx", "tx"}

(* The messages that the DMA interrupts post.                              *)
FromDma == {"AUDIO_IPC_DMA_RX", "MP3_DECODER_DO_DECODE"}

(* The messages that come from outside: from the MCU and from the UART.    *)
FromOutside == {"AUDIO_ALGO_CREATE", "AUDIO_ALGO_DESTROY", "MP3_DECODER_INIT",
                "DECODER_PREPARE_FOR_NEXT", "RECEIVE_AT_COMMAND"}

Idle == [id |-> "none", at |-> "get", left |-> 0]

task_msg_insert(id) == task_list' = Append(task_list, id)

task_msg_insert_front(id) == task_list' = <<id>> \o task_list

Count(id) == Cardinality({i \in 1 .. Len(task_list) : task_list[i] = id})

(* The messages of a kind that are not handled to the end.                 *)
Behind(id) == Count(id) + (IF running.id = id THEN 1 ELSE 0)

ipc_dma_init(rx, tx) ==
  handler' = [rx |-> IF rx = NULL THEN handler.rx ELSE rx,
              tx |-> IF tx = NULL THEN handler.tx ELSE tx]

Step(id, at) == running.id = id /\ running.at = at

Goto(at) == running' = [running EXCEPT !.at = at]

Done == running' = Idle

(* A handler of the main loop has the interrupts off only while it polls   *)
(* for them; and a DSP that is lost in an exception takes none.            *)
Interruptible == running.at \notin {"poll", "lost"}

(* The interrupt of a direction runs this handler now.                     *)
Interrupt(dma, code) ==
  /\ dma \in pending \cap enabled
  /\ handler[dma] = code
  /\ Interruptible

DmaInit ==
  /\ task_list = <<>>
  /\ running = Idle
  /\ handler = [d \in Dma |-> NULL]
  /\ enabled = {}
  /\ pending = {}

-----------------------------------------------------------------------------
(* task_schedule takes the first message; its handler starts with the next *)
(* step of the main loop, so that an interrupt may come between.           *)
TaskSchedule ==
  /\ running = Idle
  /\ task_list # <<>>
  /\ running' = [id |-> Head(task_list), at |-> "start", left |-> 2]
  /\ task_list' = Tail(task_list)
  /\ UNCHANGED <<handler, enabled, pending>>

(* A message of the MCU or of the UART, posted by their interrupts.        *)
Post(id) ==
  /\ Len(task_list) < MaxTasks
  /\ Interruptible
  /\ task_msg_insert(id)
  /\ UNCHANGED <<running, handler, enabled, pending>>

(* The DMA has moved a frame in each direction: it raises the interrupts   *)
(* of the directions that were ever switched on, whether or not the core   *)
(* takes them.  What was raised is served before the next frame, and the   *)
(* main loop is never further behind than the two bounds.                  *)
Frame ==
  /\ pending \cap enabled = {}
  /\ Behind("AUDIO_IPC_DMA_RX") < MaxFrames
  /\ Behind("MP3_DECODER_DO_DECODE") < MaxDecodings
  /\ pending' = {d \in Dma : handler[d] # NULL}
  /\ pending' # pending
  /\ UNCHANGED <<task_list, running, handler, enabled>>
=============================================================================
