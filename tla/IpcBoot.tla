------------------------------ MODULE IpcBoot ------------------------------
(***************************************************************************)
(* The start of the user image (app_ipc.c, main.c and app_entry): the base *)
(* image says that it is ready, the MCU loads the user code piece by piece *)
(* and has it entered, and the user code says when it takes messages.  The *)
(* driver is the part of Ipc that is used here: there is no list of        *)
(* waiting messages yet, a channel that is asked for has to be there.      *)
(***************************************************************************)
EXTENDS Integers, FiniteSets, FiniteSetsExt

CONSTANTS IPC_CHANNELS, IPC_WITH_LOAD_CHANNELS,
          Pieces        \* how many LOAD_CODE messages carry the user code

ASSUME LoaderAssumption ==
  /\ {IPC_CHANNELS, IPC_WITH_LOAD_CHANNELS, Pieces} \subseteq Nat \ {0}
  /\ IPC_WITH_LOAD_CHANNELS <= IPC_CHANNELS

NO_CHANNEL == -1     \* 0xff

VARIABLES
  stage,               \* where the main program is
  channel,             \* of app_ipc_ready
  available_buffer,    \* the free channels
  msg_out, msg_in,     \* messages in the registers, "none" when the tag is 0
  buffer_in,           \* the exchange buffers the MCU writes
  status,              \* completed and arrived, by channel
  isr,                 \* what the interrupt has still to do
  memory,              \* the pieces that are in their place
  user_func_entry, user_ipc_rx,
  dropped,             \* a message was lost before the user code could take it
  mcu                  \* what the MCU has sent and what it was told

ipcVars == <<stage, channel, available_buffer, msg_out, msg_in, buffer_in, status, isr,
             memory, user_func_entry, user_ipc_rx, dropped, mcu>>

Channels == 0 .. IPC_CHANNELS - 1

LoadChannels == 0 .. IPC_WITH_LOAD_CHANNELS - 1

Nothing == [out |-> {}, in |-> {}, clear |-> {}]

InIsr == isr # Nothing

IpcInit ==
  /\ stage = "boot" /\ channel = NO_CHANNEL
  /\ available_buffer = {}
  /\ msg_out = [c \in Channels |-> "none"] /\ msg_in = [c \in Channels |-> "none"]
  /\ buffer_in = [c \in LoadChannels |-> 0]
  /\ status = [out |-> {}, in |-> {}] /\ isr = Nothing
  /\ memory = {} /\ user_func_entry = "NULL" /\ user_ipc_rx = "NULL" /\ dropped = FALSE
  /\ mcu = [sent |-> 0, done |-> 0, knows |-> "nothing"]

-----------------------------------------------------------------------------
AllChannels == Channels

(* The highest free channel; these messages have no payload.               *)
ipc_alloc_channel == IF available_buffer = {} THEN NO_CHANNEL ELSE Max(available_buffer)

ipc_insert_msg(c, msg) == msg_out' = [msg_out EXCEPT ![c] = msg]

(* app_ipc_init and app_ipc_ready: the interrupt is on from the first step.*)
app_ipc_init ==
  /\ stage = "boot" /\ stage' = "alloc"
  /\ available_buffer' = AllChannels
  /\ UNCHANGED <<channel, msg_out, msg_in, buffer_in, status, isr, memory, user_func_entry,
                 user_ipc_rx, dropped, mcu>>

ReadyAlloc ==
  /\ ~InIsr /\ stage = "alloc" /\ stage' = "insert"
  /\ channel' = ipc_alloc_channel
  /\ available_buffer' = available_buffer \ {channel'}
  /\ UNCHANGED <<msg_out, msg_in, buffer_in, status, isr, memory, user_func_entry,
                 user_ipc_rx, dropped, mcu>>

ReadyInsert ==
  /\ ~InIsr /\ stage = "insert" /\ stage' = "wait"
  /\ ipc_insert_msg(channel, "DSP_READY")
  /\ UNCHANGED <<channel, available_buffer, msg_in, buffer_in, status, isr, memory,
                 user_func_entry, user_ipc_rx, dropped, mcu>>

(* main enters the user code once the interrupt has set user_func_entry;   *)
(* app_entry then goes through its initialisation.  Its message would wait *)
(* in the driver's list (Ipc) if there were no channel.                    *)
ReadyFirst(s) ==    \* mutant: the MCU is told before the user code can take messages
  CASE s = "wait" -> "ready" [] s = "ready" -> "init_memory"
    [] s = "init_memory" -> "set_handler" [] s = "set_handler" -> "task_init"
    [] s = "task_init" -> "schedule"
NextStage(s) ==
  CASE s = "wait" -> "init_memory" [] s = "init_memory" -> "set_handler"
    [] s = "set_handler" -> "task_init" [] s = "task_init" -> "ready"
    [] s = "ready" -> "schedule"

app_entry ==
  /\ ~InIsr /\ stage \in {"wait", "init_memory", "set_handler", "task_init", "ready"}
  /\ stage = "wait" => user_func_entry # "NULL"
  /\ stage' = NextStage(stage)
  /\ user_ipc_rx' = IF stage = "set_handler" THEN "ipc_rx_user_handler" ELSE user_ipc_rx
  /\ IF stage = "ready"
     THEN /\ ipc_alloc_channel # NO_CHANNEL
          /\ ipc_insert_msg(ipc_alloc_channel, "DSP_USER_CODE_READY")
          /\ available_buffer' = available_buffer \ {ipc_alloc_channel}
     ELSE UNCHANGED <<msg_out, available_buffer>>
  /\ UNCHANGED <<channel, msg_in, buffer_in, status, isr, memory, user_func_entry, dropped, mcu>>

-----------------------------------------------------------------------------
(* ipc_isr: the completed channels first, then what arrived.               *)
IsrEnter ==
  /\ stage \notin {"boot", "lost"} /\ ~InIsr /\ status.out \cup status.in # {}
  /\ isr' = [out |-> status.out, in |-> status.in, clear |-> {}]
  /\ status' = [out |-> {}, in |-> {}]
  /\ UNCHANGED <<stage, channel, available_buffer, msg_out, msg_in, buffer_in, memory,
                 user_func_entry, user_ipc_rx, dropped, mcu>>

CallbackFrees == {}    \* mutant: the callback is to free the channel, and there is none
Freed == isr.out

IsrOut ==
  /\ isr.out # {} /\ isr' = [isr EXCEPT !.out = {}]
  /\ available_buffer' = available_buffer \cup Freed
  /\ UNCHANGED <<stage, channel, msg_out, msg_in, buffer_in, status, memory,
                 user_func_entry, user_ipc_rx, dropped, mcu>>

(* app_ipc_rx.  A LOAD_CODE is copied to its place and answered, in        *)
(* whatever channel is free: without one the index is 0xff.                *)
Copied(c) == {buffer_in[c]}

LoadCode(c) ==
  /\ memory' = memory \cup Copied(c)
  /\ IF ipc_alloc_channel = NO_CHANNEL
     THEN stage' = "lost" /\ UNCHANGED <<msg_out, available_buffer>>
     ELSE /\ ipc_insert_msg(ipc_alloc_channel, "LOAD_CODE_DONE")
          /\ available_buffer' = available_buffer \ {ipc_alloc_channel}
          /\ UNCHANGED stage
  /\ UNCHANGED <<user_func_entry, dropped>>

ExecUserCode ==
  /\ user_func_entry' = "app_entry"
  /\ UNCHANGED <<memory, stage, msg_out, available_buffer, dropped>>

(* A handler that posts a task before task_init loses it; without a        *)
(* handler the message is cleared all the same.                            *)
UserMessage ==
  /\ dropped' = (dropped \/ user_ipc_rx = "NULL" \/ stage = "task_init")
  /\ UNCHANGED <<memory, stage, msg_out, available_buffer, user_func_entry>>

IsrIn ==
  /\ isr.out = {} /\ isr.clear = {} /\ isr.in # {} /\ stage # "lost"
  /\ LET c == Min(isr.in) IN
     /\ \/ msg_in[c] = "LOAD_CODE" /\ LoadCode(c)
        \/ msg_in[c] = "EXEC_USER_CODE" /\ ExecUserCode
        \/ msg_in[c] = "USER" /\ UserMessage
     /\ isr' = [isr EXCEPT !.clear = {c}]
  /\ UNCHANGED <<channel, msg_in, buffer_in, status, user_ipc_rx, mcu>>

ipc_clear_msg == msg_in' = [c \in Channels |-> IF c \in isr.clear THEN "none" ELSE msg_in[c]]

IsrClear ==
  /\ isr.clear # {} /\ stage # "lost"
  /\ ipc_clear_msg
  /\ isr' = [isr EXCEPT !.in = @ \ isr.clear, !.clear = {}]
  /\ UNCHANGED <<stage, channel, available_buffer, msg_out, buffer_in, status, memory,
                 user_func_entry, user_ipc_rx, dropped, mcu>>

-----------------------------------------------------------------------------
(* The MCU reads a message, which completes it.  It loads after DSP_READY, *)
(* with no more pieces on their way than there are buffers, enters the     *)
(* user code when all pieces are done, and talks to it when it is ready.   *)
McuReads(c) ==
  /\ msg_out[c] # "none"
  /\ msg_out' = [msg_out EXCEPT ![c] = "none"]
  /\ status' = [status EXCEPT !.out = @ \cup {c}]
  /\ mcu' = IF msg_out[c] = "LOAD_CODE_DONE" THEN [mcu EXCEPT !.done = @ + 1]
            ELSE [mcu EXCEPT !.knows = msg_out[c]]
  /\ UNCHANGED <<stage, channel, available_buffer, msg_in, buffer_in, isr, memory,
                 user_func_entry, user_ipc_rx, dropped>>

McuPosts(c, msg) ==
  /\ msg_in[c] = "none"
  /\ msg_in' = [msg_in EXCEPT ![c] = msg]
  /\ status' = [status EXCEPT !.in = @ \cup {c}]
  /\ UNCHANGED <<stage, channel, available_buffer, msg_out, isr, memory,
                 user_func_entry, user_ipc_rx, dropped>>

McuLoads(c) ==
  /\ mcu.knows = "DSP_READY" /\ mcu.sent < Pieces
  /\ mcu.sent - mcu.done < IPC_WITH_LOAD_CHANNELS
  /\ McuPosts(c, "LOAD_CODE")
  /\ buffer_in' = [buffer_in EXCEPT ![c] = mcu.sent + 1]
  /\ mcu' = [mcu EXCEPT !.sent = @ + 1]

McuExecs(c) ==
  /\ mcu.knows = "DSP_READY" /\ mcu.done = Pieces
  /\ McuPosts(c, "EXEC_USER_CODE")
  /\ mcu' = [mcu EXCEPT !.knows = "entered"]
  /\ UNCHANGED buffer_in

McuTalks(c) ==
  /\ mcu.knows = "DSP_USER_CODE_READY"
  /\ McuPosts(c, "USER")
  /\ UNCHANGED <<buffer_in, mcu>>

Main == app_ipc_init \/ ReadyAlloc \/ ReadyInsert \/ app_entry

Isr == IsrEnter \/ IsrOut \/ IsrIn \/ IsrClear

Mcu == \/ \E c \in Channels : McuReads(c)
       \/ \E c \in LoadChannels : McuLoads(c) \/ McuExecs(c)

Talks == \E c \in Channels : McuTalks(c)

-----------------------------------------------------------------------------
LoaderTypeOK ==
  /\ stage \in {"boot", "alloc", "insert", "wait", "init_memory", "set_handler", "task_init",
                "ready", "schedule", "lost"}
  /\ channel \in Channels \cup {NO_CHANNEL} /\ available_buffer \subseteq Channels
  /\ msg_out \in [Channels -> {"none", "DSP_READY", "LOAD_CODE_DONE", "DSP_USER_CODE_READY"}]
  /\ msg_in \in [Channels -> {"none", "LOAD_CODE", "EXEC_USER_CODE", "USER"}]
  /\ status \in [out : SUBSET Channels, in : SUBSET Channels]
  /\ isr \in [out : SUBSET Channels, in : SUBSET Channels, clear : SUBSET Channels]
  /\ memory \subseteq 1 .. Pieces
  /\ mcu.sent \in 0 .. Pieces /\ mcu.done \in 0 .. mcu.sent

(* The base image has a channel for each of its answers, although it does  *)
(* not look whether it got one: the MCU's buffers bound what it can ask.   *)
ChannelForEachAnswer == stage # "lost" /\ (stage = "ready" => available_buffer # {})

(* The user code is entered with every piece in its place, whichever       *)
(* channels the pieces came by.                                            *)
CodeIsWhole == stage \notin {"boot", "alloc", "insert", "wait"} => memory = 1 .. Pieces

(* "inform MCU that DSP is ready": from then on no message finds the user  *)
(* code without its handler or its task list.                              *)
NothingDropped == ~dropped

(* The variables keep their types, and the user code starts with all of    *)
(* its code and of its messages.                                           *)
UserCodeInv == LoaderTypeOK /\ CodeIsWhole /\ NothingDropped
=============================================================================
