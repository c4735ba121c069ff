------------------------------- MODULE Heap4 -------------------------------
(***************************************************************************)
(* The heap of the user image (heap_4.c): first fit in a list of the free  *)
(* blocks, which is kept in the order of their addresses so that a block   *)
(* that is given back is joined with its neighbours.                       *)
(*                                                                         *)
(* The main loop and the interrupts share it.  pvPortMalloc is a critical  *)
(* section; vPortFree looks at the block, and marks it as free, before     *)
(* its critical section, so that an interrupt may come in between.         *)
(*                                                                         *)
(* Addresses count units of portBYTE_ALIGNMENT; a unit has Unit bytes, and *)
(* the structure in front of a block takes one of them.  A structure is    *)
(* there as long as its address is in the domain of pxNextFreeBlock.       *)
(***************************************************************************)
EXTENDS Integers, FiniteSets

CONSTANTS
  Unit,        \* portBYTE_ALIGNMENT
  HeapEnd,     \* the address of *pxEnd
  MinimumBlock,\* heapMINIMUM_BLOCK_SIZE, in units
  Sizes,       \* the sizes that are asked for, in bytes
  NULL

xStart == 0    \* not in the heap, and in front of every address in it
First  == 1

ASSUME HeapAssumption ==
  /\ Unit \in Nat \ {0} /\ HeapEnd \in Nat /\ First < HeapEnd
  /\ MinimumBlock \in Nat \ {0} /\ Sizes \subseteq Nat /\ NULL \notin Int

VARIABLES
  pxEnd,                \* NULL before the first allocation
  pxNextFreeBlock,      \* of each structure
  xBlockSize,           \* of each structure, in units, without the top bit
  xBlockAllocatedBit,   \* the blocks with the top bit set
  xFreeBytesRemaining,  \* in units
  pxLink,               \* the block that the main loop is about to insert
  asked                 \* the size asked for, of each allocated block (history)

vars == <<pxEnd, pxNextFreeBlock, xBlockSize, xBlockAllocatedBit,
          xFreeBytesRemaining, pxLink, asked>>

-----------------------------------------------------------------------------
(* The blocks; next and size stand for what pvPortMalloc works on. *)

FreeBlocks(next) == {b \in DOMAIN next \ {xStart} : next[b] # NULL}

(* prvHeapInit *)
InitialNext == [b \in {xStart, First, HeapEnd} |->
                  IF b = xStart THEN First ELSE IF b = First THEN HeapEnd ELSE NULL]
InitialSize == [b \in {xStart, First, HeapEnd} |-> IF b = First THEN HeapEnd - First ELSE 0]

(* Where the walk through the list stops: in front of the block. *)
Iterator(next, block) ==
  CHOOSE b \in FreeBlocks(next) \cup {xStart} : b < block /\ next[b] >= block

(* prvInsertBlockIntoFreeList: what it makes of a block, of the one in     *)
(* front of it and of the one behind it.                                   *)
NeverJoined(b, size, other) == FALSE   \* mutant: no coalescing
Adjoins(b, size, other)     == b + size = other

Inserted(next, size, block) ==
  LET i      == Iterator(next, block)
      behind == next[i]
      front  == Adjoins(i, size[i], block)
      b      == IF front THEN i ELSE block
      length == IF front THEN size[i] + size[block] ELSE size[block]
      back   == Adjoins(b, length, behind) /\ behind # HeapEnd
      blocks == DOMAIN next \ ((IF front THEN {block} ELSE {}) \cup (IF back THEN {behind} ELSE {}))
  IN [next |-> [x \in blocks |-> CASE x = b /\ back  -> next[behind]
                                   [] x = b /\ ~back -> behind
                                   [] x = i /\ x # b -> b
                                   [] OTHER          -> next[x]],
      size |-> [x \in blocks |-> IF x # b THEN size[x]
                                   ELSE length + (IF back THEN size[behind] ELSE 0)]]

(* The units that a request needs, with the structure, rounded up. *)
WithoutStructure(bytes) == (bytes + Unit - 1) \div Unit   \* mutant
Wanted(bytes)           == 1 + ((bytes + Unit - 1) \div Unit)

(* The first block of the list that is large enough. *)
Fits(next, size, wanted) ==
  {b \in FreeBlocks(next) :
     size[b] >= wanted /\ \A c \in FreeBlocks(next) : c < b => size[c] < wanted}

SplitAlways(left) == TRUE          \* mutant: a block without any unit is made
Split(left) == left > MinimumBlock

(* The heap without the block, the rest of it given back if it is large    *)
(* enough.                                                                 *)
Taken(next, size, block, wanted) ==
  LET out  == [b \in DOMAIN next |-> IF next[b] = block THEN next[block]
                                     ELSE IF b = block THEN NULL ELSE next[b]]
      rest == block + wanted
      left == size[block] - wanted
  IN IF Split(left)
       THEN Inserted([b \in DOMAIN out \cup {rest} |-> IF b = rest THEN NULL ELSE out[b]],
                     [b \in DOMAIN out \cup {rest} |->
                        IF b = rest THEN left ELSE IF b = block THEN wanted ELSE size[b]],
                     rest)
       ELSE [next |-> out, size |-> size]

-----------------------------------------------------------------------------
(* The two functions *)

Next0 == IF pxEnd = NULL THEN InitialNext ELSE pxNextFreeBlock
Size0 == IF pxEnd = NULL THEN InitialSize ELSE xBlockSize
Free0 == IF pxEnd = NULL THEN HeapEnd - First ELSE xFreeBytesRemaining

Spent(size, left, block)      == left[block]

Candidates(bytes) ==
  IF bytes = 0 \/ Wanted(bytes) > Free0 THEN {} ELSE Fits(Next0, Size0, Wanted(bytes))

(* pvPortMalloc, in the main loop or in an interrupt *)
Malloc(bytes) ==
  \E block \in Candidates(bytes) :
    LET heap == Taken(Next0, Size0, block, Wanted(bytes)) IN
    /\ pxEnd' = HeapEnd
    /\ pxNextFreeBlock' = heap.next
    /\ xBlockSize' = heap.size
    /\ xFreeBytesRemaining' = Free0 - Spent(Size0, heap.size, block)
    /\ xBlockAllocatedBit' = xBlockAllocatedBit \cup {block}
    /\ asked' = [b \in DOMAIN asked \cup {block} |-> IF b = block THEN bytes ELSE asked[b]]
    /\ UNCHANGED pxLink

MallocFails(bytes) ==
  /\ Candidates(bytes) = {}
  /\ pxEnd' = HeapEnd
  /\ pxNextFreeBlock' = Next0 /\ xBlockSize' = Size0 /\ xFreeBytesRemaining' = Free0
  /\ UNCHANGED <<xBlockAllocatedBit, pxLink, asked>>

Insert(block) ==
  LET heap == Inserted(pxNextFreeBlock, xBlockSize, block) IN
  /\ pxNextFreeBlock' = heap.next
  /\ xBlockSize' = heap.size
  /\ xFreeBytesRemaining' = xFreeBytesRemaining + xBlockSize[block]

(* An owner gives its block back. *)
Unmark(block) ==
  /\ block \in xBlockAllocatedBit /\ pxNextFreeBlock[block] = NULL
  /\ xBlockAllocatedBit' = xBlockAllocatedBit \ {block}
  /\ asked' = [b \in DOMAIN asked \ {block} |-> asked[b]]

(* vPortFree in the main loop, before its critical section and in it *)
FreeBegin(block) ==
  /\ pxLink = NULL /\ Unmark(block) /\ pxLink' = block
  /\ UNCHANGED <<pxEnd, pxNextFreeBlock, xBlockSize, xFreeBytesRemaining>>

FreeEnd ==
  /\ pxLink # NULL /\ Insert(pxLink) /\ pxLink' = NULL
  /\ UNCHANGED <<pxEnd, xBlockAllocatedBit, asked>>

(* vPortFree in an interrupt *)
IsrFree(block) ==
  /\ Unmark(block) /\ Insert(block)
  /\ UNCHANGED <<pxEnd, pxLink>>

Init ==
  /\ pxEnd = NULL
  /\ pxNextFreeBlock = [b \in {} |-> NULL] /\ xBlockSize = [b \in {} |-> 0]
  /\ xBlockAllocatedBit = {}
  /\ xFreeBytesRemaining = 0
  /\ pxLink = NULL
  /\ asked = [b \in {} |-> 0]

Next ==
  \/ \E bytes \in Sizes : Malloc(bytes) \/ MallocFails(bytes)
  \/ \E block \in xBlockAllocatedBit : FreeBegin(block) \/ IsrFree(block)
  \/ FreeEnd

Spec == Init /\ [][Next]_vars

-----------------------------------------------------------------------------
(* Properties *)

Ready  == pxEnd # NULL
Free   == FreeBlocks(pxNextFreeBlock)
Blocks == DOMAIN pxNextFreeBlock \ {xStart, HeapEnd}
Units(b) == b .. b + xBlockSize[b] - 1
FreeUnits == UNION {Units(b) : b \in Free}

TypeOK ==
  /\ pxEnd \in {NULL, HeapEnd}
  /\ DOMAIN pxNextFreeBlock \subseteq xStart .. HeapEnd
  /\ pxNextFreeBlock \in [DOMAIN pxNextFreeBlock -> (First .. HeapEnd) \cup {NULL}]
  /\ xBlockSize \in [DOMAIN pxNextFreeBlock -> 0 .. HeapEnd - First]
  /\ xBlockAllocatedBit \subseteq Blocks
  /\ xFreeBytesRemaining \in 0 .. HeapEnd - First
  /\ pxLink \in Blocks \cup {NULL}
  /\ asked \in [xBlockAllocatedBit -> Sizes]

(* The links go from xStart through all free blocks in the order of their  *)
(* addresses to pxEnd: none is lost from the list, and none is in it twice. *)
ListInOrder ==
  Ready => \A b \in Free \cup {xStart} :
    /\ pxNextFreeBlock[b] \in Free \cup {HeapEnd}
    /\ b < pxNextFreeBlock[b]
    /\ \A c \in Free : c <= b \/ pxNextFreeBlock[b] <= c

(* Every unit of the heap is in exactly one block, and every block is in   *)
(* the list, or has an owner, or is being given back.                      *)
NothingLeaks ==
  Ready => /\ UNION {Units(b) : b \in Blocks} = First .. HeapEnd - 1
           /\ \A b, c \in Blocks : b # c => Units(b) \cap Units(c) = {}
           /\ Blocks = Free \cup xBlockAllocatedBit \cup ({pxLink} \ {NULL})
           /\ Free \cap xBlockAllocatedBit = {}

(* xPortGetFreeHeapSize tells the truth. *)
FreeBytesAreFree ==
  Ready => xFreeBytesRemaining = Cardinality(FreeUnits)

(* The heap's structures are in order, and account for all of its memory.  *)
HeapInv == TypeOK /\ ListInOrder /\ NothingLeaks /\ FreeBytesAreFree

(* An allocation fails only if there is no gap of the size it needs: free  *)
(* memory never lies in pieces next to each other.                         *)
Gap(at, length) == (at .. at + length - 1) \subseteq FreeUnits

FailsOnlyWithoutGap ==
  Ready => \A bytes \in Sizes \ {0} :
    Candidates(bytes) = {} => \A at \in First .. HeapEnd - 1 : ~Gap(at, Wanted(bytes))

(* What a caller gets: the bytes behind the structure. *)
Pointer(b) == (b + 1) * Unit
Owned == [p \in {Pointer(b) : b \in xBlockAllocatedBit} |-> asked[(p \div Unit) - 1]]

Promise == INSTANCE Allocator WITH Memory <- Unit .. HeapEnd * Unit - 1, owned <- Owned

(* The heap keeps the allocator's promise. *)
KeepsPromise == Promise!Spec
=============================================================================
