----------------------------- MODULE IpcMailbox -----------------------------
(***************************************************************************)
(* What the ipc driver promises to the code that sends messages through    *)
(* it: a message handed to the driver is read by the MCU exactly once and  *)
(* unaltered, after that the completion callback of that message runs      *)
(* exactly once, and nothing else is ever delivered.  No order between     *)
(* different messages is promised.                                         *)
(*                                                                         *)
(* Ipc.tla implements this specification (Ipc!Mailbox).                    *)
(***************************************************************************)
CONSTANT Messages       \* the messages that the DSP sends

VARIABLES
  state,   \* where each message is: with the caller, accepted, or read
  event    \* the last thing seen outside the driver: <<what, message>>

vars == <<state, event>>

Stages == {"idle", "sent", "received"}
Events == {"none", "received", "completed"} \X Messages

Init ==
  /\ state = [m \in Messages |-> "idle"]
  /\ \E m \in Messages : event = <<"none", m>>

(* The driver accepts a message that is not on its way already. *)
Accept(m) ==
  /\ state[m] = "idle"
  /\ state' = [state EXCEPT ![m] = "sent"]
  /\ UNCHANGED event

(* The MCU reads the message. *)
Receive(m) ==
  /\ state[m] = "sent"
  /\ state' = [state EXCEPT ![m] = "received"]
  /\ event' = <<"received", m>>

(* The callback of the message runs; the caller may send it again. *)
Complete(m) ==
  /\ state[m] = "received"
  /\ state' = [state EXCEPT ![m] = "idle"]
  /\ event' = <<"completed", m>>

Next == \E m \in Messages : Accept(m) \/ Receive(m) \/ Complete(m)

SafeSpec == Init /\ [][Next]_vars

Spec ==
  /\ SafeSpec
  /\ \A m \in Messages : WF_vars(Receive(m)) /\ WF_vars(Complete(m))
=============================================================================
