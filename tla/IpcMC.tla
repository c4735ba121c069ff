------------------------------- MODULE IpcMC -------------------------------
(* Instances of Ipc for TLC.  A cell stands for 256 bytes. *)
EXTENDS Ipc, TLC

CONSTANTS p1, p2, p3, n1, n2, d1

(* IPC_DSP_WRITE_OPT_BUFFER0 and 1 are 0x200 bytes, two cells, apart. *)
OptBuffers == 0 :> 0 @@ 1 :> 2

(* Payloads of at most 512 bytes. *)
ShortPayloads == [m \in Messages |-> IF m \in {n1, n2} THEN 0
                                     ELSE IF m = p1 THEN 1 ELSE 2]

(* Payloads of up to 1023 bytes, which the header file allows. *)
LongPayloads == [m \in Messages |-> IF m \in {n1, n2} THEN 0
                                    ELSE IF m = p1 THEN 4 ELSE 2]
=============================================================================
