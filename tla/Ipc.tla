-------------------------------- MODULE Ipc --------------------------------
(***************************************************************************)
(* The inter-processor mailbox driver of the DSP,                          *)
(* fr5080_basic_xip/src/drivers/ipc/ipc.c, together with the interrupt     *)
(* dispatch of app_ipc.c, one client that allocates a channel by hand      *)
(* (sbc_encoder_recv_frame_req) and the MCU on the other side.             *)
(*                                                                         *)
(* Three actors interleave: the main loop of the DSP, the IPC interrupt    *)
(* (which pre-empts the main loop, never the reverse) and the MCU, a       *)
(* second core that runs at any time.  A region between GLOBAL_INT_DISABLE *)
(* and GLOBAL_INT_RESTORE is one step.                                     *)
(***************************************************************************)
EXTENDS Naturals, Sequences

CONSTANTS
  IPC_CHANNELS,            \* number of channels
  IPC_WITH_LOAD_CHANNELS,  \* channels 0 .. this-1 own a payload buffer
  ipc_buffer_offset,       \* first cell of each payload buffer
  Cells,                   \* the cells of the exchange memory
  Messages,                \* the messages the DSP sends
  Length,                  \* payload cells of each message, 0: no payload
  Direct,                  \* the messages sent through a hand-made channel
  RxChannels,              \* the incoming channels that the MCU uses
  None                     \* NULL, or a register whose tag is 0

NO_CHANNEL   == 255
Channels     == 0 .. IPC_CHANNELS - 1
LoadChannels == 0 .. IPC_WITH_LOAD_CHANNELS - 1

(* available_buffer is a uint8_t bitmap: at most 8 channels. *)
ASSUME ChannelAssumption ==
  /\ IPC_CHANNELS \in 1 .. 8
  /\ IPC_WITH_LOAD_CHANNELS \in 2 .. IPC_CHANNELS
  /\ RxChannels \subseteq Nat

ASSUME MessageAssumption ==
  /\ Messages # {}
  /\ None \notin Messages
  /\ Length \in [Messages -> Nat]
  /\ Direct \subseteq {m \in Messages : Length[m] > 0}

ASSUME BufferAssumption ==
  /\ Cells \subseteq Nat
  /\ ipc_buffer_offset \in [LoadChannels -> Nat]

VARIABLES
  available_buffer,  \* ipc_env.available_buffer: the free channels
  tx_callback,       \* ipc_env.tx_callback: whose callback is registered
  ipc_msg_list,      \* messages waiting for a channel
  msg_out,           \* message in each outgoing register, None when tag = 0
  buffer,            \* the message each cell of the exchange memory holds
  msg_in,            \* tag of each incoming register
  status_out,        \* MSGOUTxx_STATUS bits of ipc->ctr
  status_in,         \* MSGINxx_STATUS bits of ipc->ctr
  isr_out, isr_in,   \* bits of the ISR's local `status` not handled yet
  channel,           \* local of sbc_encoder_recv_frame_req
  event              \* last thing seen outside the driver (history)

driver == <<available_buffer, tx_callback, ipc_msg_list, msg_out, buffer>>
inputs == <<msg_in, status_in, isr_in>>
vars == <<available_buffer, tx_callback, ipc_msg_list, msg_out, buffer,
          msg_in, status_out, status_in, isr_out, isr_in, channel, event>>

-----------------------------------------------------------------------------
(* Derived state *)

InIsr    == isr_out \cup isr_in # {}
InFlight == {c \in Channels : msg_out[c] # None}
Finished == status_out \cup isr_out      \* read by the MCU, not yet freed

Waiting(m) == \E i \in 1 .. Len(ipc_msg_list) : ipc_msg_list[i] = m
Carried(m) == \E c \in Channels : tx_callback[c] = m
Idle(m)    == ~Waiting(m) /\ ~Carried(m)

(* The cells that message m fills when channel c carries it. *)
Extent(c, m) ==
  {k \in Cells : /\ ipc_buffer_offset[c] <= k
                 /\ k < ipc_buffer_offset[c] + Length[m]}

(* What the MCU reads from channel c: the message if every cell of its     *)
(* payload is still there, None when another payload has been written over *)
(* some of them.                                                           *)
Content(c) ==
  IF Length[msg_out[c]] = 0 \/ \A k \in Extent(c, msg_out[c]) : buffer[k] = msg_out[c]
    THEN msg_out[c] ELSE None

-----------------------------------------------------------------------------
(* The driver's functions *)

(* The channels on which ipc_alloc_channel looks for room. *)
Fitting(length) == IF length = 0 THEN Channels ELSE LoadChannels

(* ipc_alloc_channel: the highest free channel that fits, or 0xff. *)
ipc_alloc_channel(length, free) ==
  IF free \cap Fitting(length) = {}
    THEN NO_CHANNEL
    ELSE CHOOSE c \in free \cap Fitting(length) :
           \A d \in free \cap Fitting(length) : d <= c

(* Mutant: the payload always goes to the first buffer. *)
insert_in_first_buffer(c, m) ==
  /\ msg_out' = [msg_out EXCEPT ![c] = m]
  /\ buffer' = [k \in Cells |-> IF k \in Extent(0, m) THEN m ELSE buffer[k]]

(* Copy the payload of m to the buffer of c and set the register's tag. *)
ipc_insert_msg(c, m) ==
  /\ msg_out' = [msg_out EXCEPT ![c] = m]
  /\ buffer' = IF Length[m] = 0 THEN buffer
               ELSE [k \in Cells |-> IF k \in Extent(c, m) THEN m ELSE buffer[k]]

(* ipc_msg_send and ipc_msg_with_payload_send: take a channel or queue. *)
ipc_msg_send(m) ==
  LET c == ipc_alloc_channel(Length[m], available_buffer) IN
  \/ /\ c # NO_CHANNEL
     /\ available_buffer' = available_buffer \ {c}
     /\ tx_callback' = [tx_callback EXCEPT ![c] = m]
     /\ ipc_insert_msg(c, m)
     /\ UNCHANGED ipc_msg_list
  \/ /\ c = NO_CHANNEL
     /\ ipc_msg_list' = Append(ipc_msg_list, m)
     /\ UNCHANGED <<available_buffer, tx_callback, msg_out, buffer>>

(* The channel that ipc_msg_sent allocates for the head of the list. *)
NextChannel(free) == ipc_alloc_channel(Length[Head(ipc_msg_list)], free)

(* Whether the head of the list can leave when these channels are free. *)
HeadLeaves(free) == ipc_msg_list # <<>> /\ NextChannel(free) # NO_CHANNEL

(* Mutants of a completion: the list is not looked at; ... *)
free_only(c) ==
  /\ available_buffer' = available_buffer \cup {c}
  /\ tx_callback' = [tx_callback EXCEPT ![c] = None]
  /\ UNCHANGED <<ipc_msg_list, msg_out, buffer>>

(* ... the list is looked at, with these left to be said of the bitmap,    *)
(* the list and the callback of c; ...                                     *)
leave(c, bitmap, list, callback) ==
  LET d == NextChannel(available_buffer \cup {c}) IN
  /\ HeadLeaves(available_buffer \cup {c})
  /\ available_buffer' = bitmap
  /\ ipc_msg_list' = list
  /\ tx_callback' = [tx_callback EXCEPT ![c] = callback, ![d] = Head(ipc_msg_list)]
  /\ ipc_insert_msg(d, Head(ipc_msg_list))

stays(c, list, callback) ==
  /\ ~HeadLeaves(available_buffer \cup {c})
  /\ available_buffer' = available_buffer \cup {c}
  /\ ipc_msg_list' = list
  /\ tx_callback' = [tx_callback EXCEPT ![c] = callback]
  /\ UNCHANGED <<msg_out, buffer>>

Untaken(c) == (available_buffer \cup {c}) \ {NextChannel(available_buffer \cup {c})}

(* ... the callback frees c again, as callbacks did before the 2020.12.28  *)
(* release; ...                                                            *)
free_again_in_callback(c) ==
  \/ leave(c, Untaken(c) \cup {c}, Tail(ipc_msg_list), None)
  \/ stays(c, ipc_msg_list, None)

(* ... the callback of c is left registered; ... *)
keep_callback(c) ==
  \/ leave(c, Untaken(c), Tail(ipc_msg_list), tx_callback[c])
  \/ stays(c, ipc_msg_list, tx_callback[c])

(* ... the head that leaves is not popped; ... *)
keep_head(c) == leave(c, Untaken(c), ipc_msg_list, None) \/ stays(c, ipc_msg_list, None)

(* ... the head is popped before a channel is looked for. *)
pop_first(c) ==
  \/ leave(c, Untaken(c), Tail(ipc_msg_list), None)
  \/ stays(c, IF ipc_msg_list = <<>> THEN <<>> ELSE Tail(ipc_msg_list), None)

(* One completion of ipc_isr: ipc_free_channel(c), then ipc_msg_sent, which *)
(* gives the head of the list, and only the head, a chance to leave.        *)
ipc_free_and_next(c) ==
  LET free == available_buffer \cup {c} IN
  \/ /\ HeadLeaves(free)
     /\ available_buffer' = free \ {NextChannel(free)}
     /\ ipc_msg_list' = Tail(ipc_msg_list)
     /\ tx_callback' = [tx_callback EXCEPT ![c] = None,
                              ![NextChannel(free)] = Head(ipc_msg_list)]
     /\ ipc_insert_msg(NextChannel(free), Head(ipc_msg_list))
  \/ /\ ~HeadLeaves(free)
     /\ available_buffer' = free
     /\ tx_callback' = [tx_callback EXCEPT ![c] = None]
     /\ UNCHANGED <<ipc_msg_list, msg_out, buffer>>

-----------------------------------------------------------------------------
(* The main loop *)

(* A handler of the main loop sends a message. *)
Send(m) ==
  /\ ~InIsr /\ channel = NO_CHANNEL
  /\ m \notin Direct /\ Idle(m)
  /\ ipc_msg_send(m)
  /\ UNCHANGED <<inputs, status_out, isr_out, channel, event>>

(* sbc_encoder_recv_frame_req: allocate; with no channel it does nothing. *)
DirectAlloc ==
  /\ ~InIsr /\ channel = NO_CHANNEL /\ Direct # {}
  /\ channel' = ipc_alloc_channel(1, available_buffer)
  /\ channel' # NO_CHANNEL
  /\ available_buffer' = available_buffer \ {channel'}
  /\ UNCHANGED <<tx_callback, ipc_msg_list, msg_out, buffer, inputs,
                 status_out, isr_out, event>>

(* sbc_encoder_recv_frame_req: there are frames, fill the buffer and send. *)
DirectInsert(m) ==
  /\ ~InIsr /\ channel # NO_CHANNEL
  /\ Idle(m)
  /\ tx_callback' = [tx_callback EXCEPT ![channel] = m]
  /\ ipc_insert_msg(channel, m)
  /\ channel' = NO_CHANNEL
  /\ UNCHANGED <<available_buffer, ipc_msg_list, inputs,
                 status_out, isr_out, event>>

(* sbc_encoder_recv_frame_req: no frame to send, ipc_free_channel. *)
DirectFree ==
  /\ ~InIsr /\ channel # NO_CHANNEL
  /\ available_buffer' = available_buffer \cup {channel}
  /\ tx_callback' = [tx_callback EXCEPT ![channel] = None]
  /\ channel' = NO_CHANNEL
  /\ UNCHANGED <<ipc_msg_list, msg_out, buffer, inputs,
                 status_out, isr_out, event>>

-----------------------------------------------------------------------------
(* The interrupt *)

(* Mutant: the status is not written back before the messages are handled. *)
IsrEnterWithoutClear ==
  /\ ~InIsr /\ status_out \cup status_in # {}
  /\ isr_out' = status_out /\ status_out' = {}
  /\ isr_in'  = status_in
  /\ UNCHANGED <<driver, status_in, msg_in, channel, event>>

(* ipc_isr reads the status register and writes it back to clear it. *)
IsrEnter ==
  /\ ~InIsr /\ status_out \cup status_in # {}
  /\ isr_out' = status_out /\ status_out' = {}
  /\ isr_in'  = status_in  /\ status_in'  = {}
  /\ UNCHANGED <<driver, msg_in, channel, event>>

(* The next completion, lowest channel first, and its callback. *)
IsrOut(c) ==
  /\ c \in isr_out /\ \A d \in isr_out : c <= d
  /\ isr_out' = isr_out \ {c}
  /\ ipc_free_and_next(c)
  /\ event' = <<"completed", tx_callback[c]>>
  /\ UNCHANGED <<inputs, status_out, channel>>

(* Mutant: app_ipc_rx returns without ipc_clear_msg. *)
IsrInWithoutClear(c) ==
  /\ isr_out = {}
  /\ c \in isr_in /\ \A d \in isr_in : c <= d
  /\ isr_in' = isr_in \ {c}
  /\ UNCHANGED <<driver, msg_in, status_out, status_in, isr_out, channel, event>>

(* The next incoming message, after the completions: app_ipc_rx calls the  *)
(* user handler, which may answer, and clears the tag.                     *)
IsrIn(c) ==
  /\ isr_out = {}
  /\ c \in isr_in /\ \A d \in isr_in : c <= d
  /\ isr_in' = isr_in \ {c}
  /\ msg_in' = [msg_in EXCEPT ![c] = FALSE]
  /\ \/ UNCHANGED driver
     \/ \E m \in Messages \ Direct : Idle(m) /\ ipc_msg_send(m)
  /\ UNCHANGED <<status_out, status_in, isr_out, channel, event>>

-----------------------------------------------------------------------------
(* The MCU *)

(* The MCU reads an outgoing message and clears its tag. *)
McuReceive(c) ==
  /\ msg_out[c] # None
  /\ event' = <<"received", Content(c)>>
  /\ msg_out' = [msg_out EXCEPT ![c] = None]
  /\ status_out' = status_out \cup {c}
  /\ UNCHANGED <<available_buffer, tx_callback, ipc_msg_list, buffer, inputs,
                 isr_out, channel>>

(* The MCU posts a message on a channel that it may use. *)
McuPost(c) ==
  /\ ~msg_in[c]
  /\ msg_in' = [msg_in EXCEPT ![c] = TRUE]
  /\ status_in' = status_in \cup {c}
  /\ UNCHANGED <<driver, status_out, isr_out, isr_in, channel, event>>

-----------------------------------------------------------------------------
Init ==
  /\ available_buffer = Channels
  /\ tx_callback = [c \in Channels |-> None]
  /\ ipc_msg_list = <<>>
  /\ msg_out = [c \in Channels |-> None]
  /\ buffer = [k \in Cells |-> None]
  /\ msg_in = [c \in RxChannels |-> FALSE]
  /\ status_out = {} /\ status_in = {}
  /\ isr_out = {} /\ isr_in = {}
  /\ channel = NO_CHANNEL
  /\ \E m \in Messages : event = <<"none", m>>

MainLoop  == \/ \E m \in Messages : Send(m)
             \/ DirectAlloc
             \/ \E m \in Direct : DirectInsert(m)
             \/ DirectFree
Interrupt == \/ IsrEnter
             \/ \E c \in Channels : IsrOut(c)
             \/ \E c \in RxChannels : IsrIn(c)
Mcu       == \/ \E c \in Channels : McuReceive(c)
             \/ \E c \in RxChannels : McuPost(c)

Next == MainLoop \/ Interrupt \/ Mcu

SafeSpec == Init /\ [][Next]_vars

(***************************************************************************)
(* The interrupt is taken and runs to its end, and the MCU reads every     *)
(* message it is given.  The main loop owes nothing: it need not send, and *)
(* a storm of interrupts may keep it from ever giving up the channel that  *)
(* it holds.                                                               *)
(***************************************************************************)
Fairness ==
  /\ WF_vars(Interrupt)
  /\ \A c \in Channels : WF_vars(McuReceive(c))

Spec == SafeSpec /\ Fairness

-----------------------------------------------------------------------------
(* Properties *)

(* Type invariant of the driver, its registers and its clients. *)
TypeOK ==
  /\ available_buffer \subseteq Channels
  /\ tx_callback \in [Channels -> Messages \cup {None}]
  /\ ipc_msg_list \in Seq(Messages)
  /\ msg_out \in [Channels -> Messages \cup {None}]
  /\ buffer \in [Cells -> Messages \cup {None}]
  /\ msg_in \in [RxChannels -> BOOLEAN]
  /\ status_out \subseteq Channels /\ status_in \subseteq RxChannels
  /\ isr_out \subseteq Channels /\ isr_in \subseteq RxChannels
  /\ channel \in LoadChannels \cup {NO_CHANNEL}
  /\ event \in {"none", "received", "completed"} \X (Messages \cup {None})

(* Every outgoing channel is, at every moment, exactly one of: free, held  *)
(* by the main loop between ipc_alloc_channel and ipc_insert_msg, in       *)
(* flight, or read by the MCU and waiting for ipc_isr to free it.  Two of  *)
(* them at once is a channel given away twice, none of them is a leak.     *)
ChannelOwnership ==
  /\ available_buffer \cap InFlight = {}
  /\ available_buffer \cap Finished = {}
  /\ InFlight \cap Finished = {}
  /\ status_out \cap isr_out = {}
  /\ channel \notin available_buffer \cup InFlight \cup Finished
  /\ Channels \subseteq available_buffer \cup InFlight \cup Finished \cup {channel}

(* A callback is registered from ipc_insert_msg until ipc_isr frees the    *)
(* channel, and while the message is in flight it is the callback of that  *)
(* message; a payload travels only on a channel that owns a buffer.        *)
CallbackOwnership ==
  /\ \A c \in Channels : tx_callback[c] # None <=> c \in InFlight \cup Finished
  /\ \A c \in InFlight : tx_callback[c] = msg_out[c]
  /\ \A c \in InFlight : c \in Fitting(Length[msg_out[c]])

(* A message waits in ipc_msg_list only while some channel is in flight or *)
(* waits for ipc_isr, so that a completion will come and look at the list: *)
(* ipc_free_channel called by a client never does.                         *)
NothingStranded ==
  ipc_msg_list # <<>> => InFlight \cup Finished # {}

(* What the MCU will read from a tagged register is the message that was   *)
(* written for it: its payload is not overwritten while it is in flight.   *)
PayloadIntact == \A c \in InFlight : Content(c) = msg_out[c]

(* Any payload in one buffer ends before the other buffer begins.  The     *)
(* driver relies on its callers for this: nothing in ipc.c checks it.      *)
PayloadsFit ==
  \A c, d \in LoadChannels : c # d =>
     \/ \A m \in Messages : ipc_buffer_offset[c] + Length[m] <= ipc_buffer_offset[d]
     \/ \A m \in Messages : ipc_buffer_offset[d] + Length[m] <= ipc_buffer_offset[c]

(* The tag of an incoming register and its interrupt agree: a message of   *)
(* the MCU is never forgotten (tag set, no interrupt to come) and never    *)
(* handled twice (an interrupt to come for a cleared tag).                 *)
NoLostInterrupt ==
  /\ status_in \cap isr_in = {}
  /\ \A c \in RxChannels : msg_in[c] <=> c \in status_in \cup isr_in

(* A message is in one place: the list holds it once, or one channel       *)
(* carries it, so that it can neither be sent twice nor get lost.          *)
OnePlace ==
  /\ \A i, j \in 1 .. Len(ipc_msg_list) :
       ipc_msg_list[i] = ipc_msg_list[j] => i = j
  /\ \A c, d \in Channels :
       tx_callback[c] = tx_callback[d] /\ tx_callback[c] # None => c = d
  /\ \A m \in Messages : ~(Waiting(m) /\ Carried(m))

(* The variables keep their types, and each message its one place.         *)
DriverInv == TypeOK /\ OnePlace

(* The DSP never writes a register whose tag the MCU has not cleared. *)
NoOverwrite ==
  [][\A c \in InFlight : msg_out'[c] \in {msg_out[c], None}]_vars

(* The MCU is never kept waiting for the DSP to read its message. *)
RequestsServed == \A c \in RxChannels : msg_in[c] ~> ~msg_in[c]

-----------------------------------------------------------------------------
(* Refinement of the mailbox *)

(* A message with the caller is idle; waiting or in flight, it is sent;    *)
(* once its tag is cleared it is received, until its channel is freed.     *)
Stage(m) ==
  IF Waiting(m) \/ \E c \in Channels : tx_callback[c] = m /\ msg_out[c] # None
    THEN "sent"
    ELSE IF Carried(m) THEN "received" ELSE "idle"

Mailbox == INSTANCE IpcMailbox
             WITH state <- [m \in Messages |-> Stage(m)], event <- event

(* Every message given to the driver is read by the MCU once and unaltered *)
(* and its callback then runs once, whatever the order of the interrupts,  *)
(* the retries from the list and the use of channels by hand.              *)
DeliveredExactlyOnce == Mailbox!SafeSpec

(* And it does happen: no message is left in the list or in a channel. *)
DeliveredEventually == Mailbox!Spec
=============================================================================
