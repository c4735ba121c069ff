-------------------------------- MODULE Boot --------------------------------
(***************************************************************************)
(* The start of the DSP from reset to the user code (main.c): first the    *)
(* boot loader over UART, then, if it lets go, the loader over IPC.        *)
(***************************************************************************)
EXTENDS UartBoot, IpcBoot

vars == <<uartVars, protected, ipcVars>>

Init == UartInit /\ IpcInit

Uart(A) == A /\ UNCHANGED <<protected, ipcVars>>

(* main comes to app_ipc_init when app_boot_host_comm returns.             *)
Ipc(A) == at = "app" /\ A /\ UNCHANGED <<uartVars, protected>>

Next ==
  \/ Uart(Dsp)
  \/ Uart(HostAnswers) \/ Uart(HostAsks) \/ Uart(HostSends) \/ Uart(HostReads)
  \/ Ipc(Main) \/ Ipc(Isr) \/ Ipc(Mcu) \/ Ipc(Talks)

(* The DSP runs, its interrupt is taken; the tool finishes a request it    *)
(* has begun, and reads; the MCU does what it has to until the user code   *)
(* runs.  Neither has to speak first.                                      *)
Fairness ==
  /\ WF_vars(Uart(Dsp)) /\ WF_vars(Uart(HostSends)) /\ WF_vars(Uart(HostReads))
  /\ WF_vars(Ipc(Main)) /\ WF_vars(Ipc(Isr)) /\ WF_vars(Ipc(Mcu))

SafeSpec == Init /\ [][Next]_vars

Spec == SafeSpec /\ Fairness

(* Every start reaches the user code, whatever the host sends and however  *)
(* late, unless it overruns the answer's buffer or keeps its session.      *)
StartCompletes ==
  [](at # "lost") /\ []<>(at \notin InSession) => <>(stage = "schedule")
=============================================================================
