----------------------------- MODULE Allocator -----------------------------
(***************************************************************************)
(* What pvPortMalloc and vPortFree promise: memory of the size asked for,  *)
(* inside the heap, that nobody else has; and it stays with its owner, and *)
(* of that size, until the owner gives it back.  An allocation may fail.   *)
(*                                                                         *)
(* Heap4.tla implements this specification (Heap4!Promise).                *)
(***************************************************************************)
EXTENDS Integers

CONSTANTS
  Memory,   \* the bytes of the heap
  Sizes     \* the sizes that are asked for

VARIABLE owned   \* the size of each piece of memory that has an owner

Bytes(at, size) == at .. at + size - 1

Init == owned = [at \in {} |-> 0]

Allocate(at, size) ==
  /\ Bytes(at, size) \subseteq Memory
  /\ \A other \in DOMAIN owned : Bytes(other, owned[other]) \cap Bytes(at, size) = {}
  /\ owned' = [p \in DOMAIN owned \cup {at} |-> IF p = at THEN size ELSE owned[p]]

Release(at) == owned' = [p \in DOMAIN owned \ {at} |-> owned[p]]

Next == \/ \E at \in Memory, size \in Sizes : Allocate(at, size)
        \/ \E at \in DOMAIN owned : Release(at)

Spec == Init /\ [][Next]_owned
=============================================================================
