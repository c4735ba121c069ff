----------------------------- MODULE HeapProofs -----------------------------
(***************************************************************************)
(* Theorems about the heap (Heap4.tla), for every size of it, of its unit  *)
(* and of the pieces that are asked for.                                   *)
(***************************************************************************)
EXTENDS Heap4, FiniteSetTheorems, TLAPS

(* The inductive invariant, as predicates of the links and the sizes that  *)
(* a call works on.  The list is in order (Ordered), the blocks lie one    *)
(* behind the other and leave nothing out (Partition), and no two free     *)
(* blocks touch (Apart, but for those named): without this last an         *)
(* insertion that looks at its two neighbours would not be enough.         *)
Held(next) == DOMAIN next \ {xStart, HeapEnd}

Shape(next, size) ==
  /\ {xStart, HeapEnd} \subseteq DOMAIN next /\ DOMAIN next \subseteq xStart .. HeapEnd
  /\ next \in [DOMAIN next -> (First .. HeapEnd) \cup {NULL}]
  /\ size \in [DOMAIN next -> 0 .. HeapEnd - First]
  /\ size[xStart] = 0 /\ next[HeapEnd] = NULL

Ordered(next) ==
  \A b \in FreeBlocks(next) \cup {xStart} :
    /\ next[b] \in FreeBlocks(next) \cup {HeapEnd}
    /\ b < next[b]
    /\ \A c \in FreeBlocks(next) : c <= b \/ next[b] <= c

Partition(next, size) ==
  /\ \A b \in Held(next) : size[b] >= 1 /\ b + size[b] <= HeapEnd
  /\ \A b, c \in Held(next) : b < c => b + size[b] <= c
  /\ \A u \in First .. HeapEnd - 1 : \E b \in Held(next) : b <= u /\ u < b + size[b]

Apart(next, size, but) ==
  \A b \in FreeBlocks(next) \ but : next[b] = HeapEnd \/ b + size[b] < next[b]

Whole(next, size, but) ==
  Shape(next, size) /\ Ordered(next) /\ Partition(next, size) /\ Apart(next, size, but)

(* The units of the free blocks. *)
Span(next, size) ==
  {u \in First .. HeapEnd - 1 : \E b \in FreeBlocks(next) : b <= u /\ u < b + size[b]}

(* The blocks that are not in the list: they have an owner, or are about   *)
(* to be inserted.                                                         *)
Loose(next) == {b \in Held(next) : next[b] = NULL}

Owners(next, allocated, link) ==
  Loose(next) = allocated \cup ({link} \ {NULL}) /\ link \notin allocated

Blank ==
  /\ pxNextFreeBlock = [b \in {} |-> NULL] /\ xBlockSize = [b \in {} |-> 0]
  /\ xFreeBytesRemaining = 0 /\ xBlockAllocatedBit = {} /\ pxLink = NULL

IInv ==
  /\ pxEnd \in {NULL, HeapEnd}
  /\ pxEnd = NULL => Blank
  /\ pxEnd # NULL =>
       /\ Whole(pxNextFreeBlock, xBlockSize, {})
       /\ Owners(pxNextFreeBlock, xBlockAllocatedBit, pxLink)
       /\ xFreeBytesRemaining = Cardinality(Span(pxNextFreeBlock, xBlockSize))
  /\ asked \in [xBlockAllocatedBit -> Sizes]
  /\ \A b \in xBlockAllocatedBit : asked[b] > 0 /\ Wanted(asked[b]) <= xBlockSize[b]

-----------------------------------------------------------------------------
(* Numbers and finite sets. *)
LEMMA Least ==
  ASSUME NEW S \in SUBSET Nat, S # {}
  PROVE  \E x \in S : \A y \in S : x <= y
<1> DEFINE Below(x) == {y \in S : y < x}
           T == {Below(x) : x \in S}
<1>0. \A x \in S : x \in Nat
  OBVIOUS
<1>b. \A x : Below(x) \subseteq S /\ \A y : y \in Below(x) <=> y \in S /\ y < x
  OBVIOUS
<1> HIDE DEF Below
<1>1. T \subseteq FiniteSubsetsOf(S) /\ T # {}
  <2>1. \A x \in S : Below(x) \in FiniteSubsetsOf(S)
    <3> SUFFICES ASSUME NEW x \in S PROVE Below(x) \in FiniteSubsetsOf(S)
      OBVIOUS
    <3>1. Below(x) \in SUBSET (0 .. x) /\ Below(x) \in SUBSET S
      <4>0. x \in Nat /\ \A y \in S : y < x => y \in 0 .. x
        BY <1>0
      <4>1. \A y \in Below(x) : y \in 0 .. x
        BY <1>b, <4>0
      <4>. QED BY <1>b, <4>1
    <3>2. IsFiniteSet(0 .. x)
      BY <1>0, FS_Interval
    <3>3. IsFiniteSet(Below(x))
      BY <3>1, <3>2, FS_Subset
    <3>. QED BY <3>1, <3>3 DEF FiniteSubsetsOf
  <2>. QED BY <2>1
<1> HIDE DEF T
<1>2. PICK U \in T : \A V \in T : ~(<<V, U>> \in StrictSubsetOrdering(S))
  BY <1>1, FS_StrictSubsetOrderingWellFounded, WFMin
<1>3. PICK x \in S : U = Below(x)
  BY DEF T
<1>4. ASSUME NEW y \in S, y < x PROVE FALSE
  <2>1. /\ Below(y) \subseteq Below(x) /\ y \in Below(x) /\ y \notin Below(y)
        /\ Below(y) \in SUBSET S /\ Below(x) \in SUBSET S
    <3>1. x \in Nat /\ y \in Nat /\ \A z \in S : z < y => z < x
      BY <1>0, <1>4
    <3>2. ~(y < y)
      BY <3>1
    <3>. QED BY <1>b, <1>4, <3>1, <3>2
  <2>2. Below(y) \in T
    BY DEF T
  <2> HIDE DEF T
  <2>3. <<Below(y), Below(x)>> \in StrictSubsetOrdering(S)
    BY <2>1 DEF StrictSubsetOrdering
  <2>. QED BY <1>2, <1>3, <2>2, <2>3
<1>. QED BY <1>4

LEMMA Greatest ==
  ASSUME NEW n \in Nat, NEW S \in SUBSET (0 .. n), S # {}
  PROVE  \E x \in S : \A y \in S : y <= x
<1> DEFINE T == {n - x : x \in S}
<1>0. \A x \in S : x \in 0 .. n /\ n - x \in Nat
  OBVIOUS
<1>1. T \in SUBSET Nat /\ T # {}
  BY <1>0
<1>2. \E t \in T : \A y \in T : t <= y
  <2> HIDE DEF T
  <2>. QED BY <1>1, Least
<1>3. PICK x \in S : \A y \in T : n - x <= y
  BY <1>2
<1>4. \A y \in S : n - y \in T
  OBVIOUS
<1> HIDE DEF T
<1>5. \A y \in S : n - x <= n - y
  BY <1>3, <1>4
<1>6. \A y \in S : y <= x
  BY <1>0, <1>5
<1>. QED BY <1>6

LEMMA Constants ==
  /\ xStart = 0 /\ First = 1 /\ HeapEnd \in Nat /\ 1 < HeapEnd /\ NULL \notin Int
  /\ Unit \in Nat \ {0} /\ MinimumBlock \in Nat \ {0} /\ Sizes \subseteq Nat
BY HeapAssumption DEF xStart, First

LEMMA IntervalSize ==
  ASSUME NEW a \in Nat, NEW n \in Nat
  PROVE  IsFiniteSet(a .. a + n - 1) /\ Cardinality(a .. a + n - 1) = n
<1>1. IsFiniteSet(a .. a + n - 1)
  BY FS_Interval
<1>2. Cardinality(a .. a + n - 1) = IF a > a + n - 1 THEN 0 ELSE a + n - 1 - a + 1
  BY FS_Interval
<1>. QED BY <1>1, <1>2

(* What Shape says of a single block. *)
LEMMA Basics ==
  ASSUME NEW next, NEW size, Shape(next, size)
  PROVE  /\ \A b \in DOMAIN next : b \in Nat /\ b <= HeapEnd /\ size[b] \in Nat
         /\ \A b \in DOMAIN next : next[b] # NULL => next[b] \in Nat /\ next[b] <= HeapEnd
         /\ \A b \in FreeBlocks(next) : b \in Held(next) /\ next[b] # NULL
         /\ \A b \in Held(next) : b \in DOMAIN next /\ 1 <= b /\ b < HeapEnd
         /\ \A b \in Held(next) : b \notin FreeBlocks(next) => next[b] = NULL
         /\ xStart \in DOMAIN next /\ xStart \notin FreeBlocks(next)
<1>1. \A b \in DOMAIN next : b \in Nat /\ b <= HeapEnd /\ size[b] \in Nat
  BY Constants DEF Shape
<1>2. \A b \in DOMAIN next : next[b] # NULL => next[b] \in Nat /\ next[b] <= HeapEnd
  BY Constants DEF Shape
<1>3. \A b \in FreeBlocks(next) : b \in Held(next) /\ next[b] # NULL
  BY DEF Shape, FreeBlocks, Held
<1>4. \A b \in Held(next) : b \in DOMAIN next /\ 1 <= b /\ b < HeapEnd
  BY <1>1, Constants DEF Held
<1>. QED BY <1>1, <1>2, <1>3, <1>4 DEF Shape, FreeBlocks, Held

(* The walk stops in front of a block that is not in the list. *)
LEMMA IteratorIs ==
  ASSUME NEW next, NEW size, Shape(next, size), Ordered(next),
         NEW block \in 1 .. HeapEnd - 1, block \notin FreeBlocks(next)
  PROVE  /\ Iterator(next, block) \in FreeBlocks(next) \cup {xStart}
         /\ Iterator(next, block) < block /\ block < next[Iterator(next, block)]
<1> DEFINE L == FreeBlocks(next) \cup {xStart}
           S == {b \in L : b < block}
<1>1. \A b \in L : b \in DOMAIN next /\ b \in 0 .. HeapEnd
  BY Basics DEF Ordered
<1>2. xStart \in S /\ S \in SUBSET (0 .. HeapEnd)
  BY <1>1, Constants
<1>3. PICK i \in S : \A b \in S : b <= i
  <2> HIDE DEF S
  <2>. QED BY <1>2, Constants, Greatest
<1>4. next[i] \in FreeBlocks(next) \cup {HeapEnd} /\ i < next[i] /\ i \in L /\ i < block
  BY DEF Ordered
<1>5. next[i] > block
  <2>1. CASE next[i] = HeapEnd
    BY <2>1, Constants
  <2>2. CASE next[i] \in FreeBlocks(next)
    <3>1. next[i] \in Nat /\ i \in Nat /\ next[i] # block
      BY <1>1, <1>4, <2>2
    <3>2. ~(next[i] < block)
      BY <1>3, <1>4, <2>2, <3>1
    <3>. QED BY <3>1, <3>2
  <2>. QED BY <1>4, <2>1, <2>2
<1>6. \E b \in L : b < block /\ next[b] >= block
  <2>1. next[i] \in Int
    BY <1>1, <1>4, Constants
  <2>. QED BY <1>4, <1>5, <2>1
<1> DEFINE b == Iterator(next, block)
<1>7. b \in L /\ b < block /\ next[b] >= block
  BY <1>6 DEF Iterator
<1> HIDE DEF b
<1>8. next[b] # block
  BY <1>7, Constants DEF Ordered
<1>9. next[b] \in Int
  BY <1>1, <1>7, Constants DEF Ordered
<1>. QED BY <1>7, <1>8, <1>9 DEF b

-----------------------------------------------------------------------------
(* A block is linked behind i, and the block at a is joined with the next  *)
(* one: prvInsertBlockIntoFreeList is these, one after the other.          *)
Link(next, i, block) ==
  [x \in DOMAIN next |-> IF x = block THEN next[i] ELSE IF x = i THEN block ELSE next[x]]

JoinNext(next, a) ==
  [x \in DOMAIN next \ {next[a]} |-> IF x = a THEN next[next[a]] ELSE next[x]]

JoinSize(next, size, a) ==
  [x \in DOMAIN next \ {next[a]} |-> IF x = a THEN size[a] + size[next[a]] ELSE size[x]]

Area(size, block) == block .. block + size[block] - 1

LEMMA LinkKeeps ==
  ASSUME NEW next, NEW size, Whole(next, size, {}), NEW block \in Held(next), next[block] = NULL
  PROVE  LET i == Iterator(next, block)
             n == Link(next, i, block)
         IN /\ Whole(n, size, {i, block})
            /\ FreeBlocks(n) = FreeBlocks(next) \cup {block} /\ DOMAIN n = DOMAIN next
            /\ n[i] = block /\ n[block] = next[i] /\ i # block
            /\ i \in FreeBlocks(next) \cup {xStart}
            /\ \A x \in DOMAIN next : x # i /\ x # block => n[x] = next[x]
<1> DEFINE i == Iterator(next, block)
           n == Link(next, i, block)
<1>1. Shape(next, size) /\ Ordered(next) /\ Partition(next, size) /\ Apart(next, size, {})
  BY DEF Whole
<1>2. block \in DOMAIN next /\ block \in 1 .. HeapEnd - 1 /\ block \notin FreeBlocks(next)
  BY <1>1, Basics, Constants DEF FreeBlocks
<1>3. i \in FreeBlocks(next) \cup {xStart} /\ i < block /\ block < next[i]
  BY <1>1, <1>2, IteratorIs
<1> HIDE DEF i
<1>4. i \in DOMAIN next /\ i \in Nat /\ i # block /\ i # HeapEnd
  <2>1. i \in DOMAIN next /\ i \in Nat
    BY <1>1, <1>3, Basics
  <2>. QED BY <1>2, <1>3, <2>1
<1>5. /\ DOMAIN n = DOMAIN next /\ n[i] = block /\ n[block] = next[i]
      /\ \A x \in DOMAIN next : x # i /\ x # block => n[x] = next[x]
  BY <1>2, <1>4 DEF Link
<1> HIDE DEF n
<1>6. next[i] \in FreeBlocks(next) \cup {HeapEnd} /\ next[i] # NULL /\ next[i] \in First .. HeapEnd
  <2>1. next[i] \in FreeBlocks(next) \cup {HeapEnd}
    BY <1>1, <1>3 DEF Ordered
  <2>. QED BY <1>1, <2>1, Basics, Constants
<1>7. FreeBlocks(n) = FreeBlocks(next) \cup {block}
  <2>1. \A x \in DOMAIN n : n[x] # NULL <=> next[x] # NULL \/ x = block
    <3>1. next[i] # NULL /\ block # NULL
      BY <1>2, <1>6, Constants
    <3>. QED BY <1>5, <1>6, <3>1
  <2>2. block # xStart
    BY <1>2, Constants
  <2>. QED BY <1>2, <1>5, <2>1, <2>2 DEF FreeBlocks
<1>8. Shape(n, size)
  <2>1. \A x \in DOMAIN n : n[x] \in (First .. HeapEnd) \cup {NULL}
    BY <1>1, <1>2, <1>5, <1>6, Constants DEF Shape
  <2>2. n = [x \in DOMAIN n |-> n[x]]
    BY DEF n, Link
  <2>3. n \in [DOMAIN n -> (First .. HeapEnd) \cup {NULL}]
    BY <2>1, <2>2
  <2>4. n[HeapEnd] = NULL
    BY <1>1, <1>2, <1>4, <1>5, Constants DEF Shape
  <2>. QED BY <1>1, <1>5, <2>3, <2>4 DEF Shape
<1>9. Ordered(n)
  <2>1. \A c \in FreeBlocks(next) : c \in Nat /\ (c <= i \/ next[i] <= c)
    BY <1>1, <1>3, Basics DEF Ordered
  <2>2. i \in Nat /\ block \in Nat /\ next[i] \in Nat /\ i < block /\ block < next[i]
    BY <1>2, <1>3, <1>4, <1>6, Constants
  <2> SUFFICES ASSUME NEW b \in FreeBlocks(n) \cup {xStart}
               PROVE  /\ n[b] \in FreeBlocks(n) \cup {HeapEnd} /\ b < n[b]
                      /\ \A c \in FreeBlocks(n) : c <= b \/ n[b] <= c
    BY DEF Ordered
  <2>3. CASE b = i
    <3>1. \A c \in FreeBlocks(next) : c <= i \/ block <= c
      BY <2>1, <2>2
    <3>. QED BY <1>5, <1>7, <2>2, <2>3, <3>1
  <2>4. CASE b = block
    <3>1. \A c \in FreeBlocks(next) : c <= block \/ next[i] <= c
      BY <2>1, <2>2
    <3>. QED BY <1>5, <1>6, <1>7, <2>2, <2>4, <3>1
  <2>5. CASE b # i /\ b # block
    <3>1. b \in FreeBlocks(next) \cup {xStart} /\ b \in DOMAIN next
      BY <1>1, <1>7, <2>5, Basics
    <3>2. /\ n[b] = next[b] /\ next[b] \in FreeBlocks(next) \cup {HeapEnd} /\ b < next[b]
          /\ \A c \in FreeBlocks(next) : c <= b \/ next[b] <= c
      BY <1>1, <1>5, <2>5, <3>1 DEF Ordered
    <3>3. block <= b \/ next[b] <= block
      <4>1. b \in Nat /\ next[b] \in Nat
        BY <1>1, <3>1, <3>2, Basics, Constants
      <4>2. b <= i \/ next[i] <= b
        BY <2>1, <2>2, <3>1, Constants
      <4>3. CASE next[i] <= b
        BY <2>2, <4>1, <4>3
      <4>4. CASE b < i
        <5>1. i \in FreeBlocks(next)
          BY <1>3, <4>1, <4>4, Constants
        <5>2. next[b] <= i
          BY <2>2, <3>2, <4>1, <4>4, <5>1
        <5>. QED BY <2>2, <4>1, <5>2
      <4>. QED BY <2>2, <2>5, <4>1, <4>2, <4>3, <4>4
    <3>4. \A c \in FreeBlocks(n) : c <= b \/ n[b] <= c
      <4>1. b \in Nat /\ next[b] \in Nat
        BY <1>1, <3>1, <3>2, Basics, Constants
      <4>2. block <= b \/ next[b] <= block
        BY <3>3
      <4>. QED BY <1>7, <3>2, <4>1, <4>2
    <3>. QED BY <1>7, <3>2, <3>4
  <2>. QED BY <2>3, <2>4, <2>5
<1>10. Partition(n, size)
  BY <1>1, <1>5 DEF Partition, Held
<1>11. Apart(n, size, {i, block})
  <2> SUFFICES ASSUME NEW b \in FreeBlocks(n) \ {i, block}
               PROVE  n[b] = HeapEnd \/ b + size[b] < n[b]
    BY DEF Apart
  <2>1. b \in FreeBlocks(next) /\ b \in DOMAIN next /\ b # i /\ b # block
    BY <1>1, <1>7, Basics
  <2>. QED BY <1>1, <1>5, <2>1 DEF Apart
<1>. QED BY <1>3, <1>4, <1>5, <1>7, <1>8, <1>9, <1>10, <1>11 DEF i, n, Whole

Joining(next, size, but, a, n, s) ==
  /\ Whole(next, size, but)
  /\ a \in FreeBlocks(next) /\ next[a] # HeapEnd /\ a + size[a] = next[a]
  /\ n = JoinNext(next, a) /\ s = JoinSize(next, size, a)

Joined(next, size, but, a, n, s) ==
  /\ Whole(n, s, IF next[a] \in but THEN but ELSE but \ {a})
  /\ FreeBlocks(n) = FreeBlocks(next) \ {next[a]} /\ next[a] \in FreeBlocks(next)
  /\ DOMAIN n = DOMAIN next \ {next[a]} /\ DOMAIN s = DOMAIN n
  /\ n[a] = next[next[a]] /\ s[a] = size[a] + size[next[a]]
  /\ \A x \in DOMAIN n : x # a => n[x] = next[x] /\ s[x] = size[x]
  /\ Span(n, s) = Span(next, size)

LEMMA JoinKeeps ==
  ASSUME NEW next, NEW size, NEW but, NEW a, NEW n, NEW s, Joining(next, size, but, a, n, s)
  PROVE  Joined(next, size, but, a, n, s)
<1> DEFINE d == next[a]
<1>0. /\ Whole(next, size, but)
      /\ a \in FreeBlocks(next) /\ next[a] # HeapEnd /\ a + size[a] = next[a]
      /\ n = JoinNext(next, a) /\ s = JoinSize(next, size, a)
  BY DEF Joining
<1> USE <1>0
<1>1. Shape(next, size) /\ Ordered(next) /\ Partition(next, size) /\ Apart(next, size, but)
  BY <1>0 DEF Whole
<1>2. d \in FreeBlocks(next) /\ a < d
  BY <1>1 DEF Ordered
<1>3. /\ DOMAIN n = DOMAIN next \ {d} /\ DOMAIN s = DOMAIN n /\ a \in DOMAIN n
      /\ n[a] = next[d] /\ s[a] = size[a] + size[d]
      /\ \A x \in DOMAIN n : x # a => n[x] = next[x] /\ s[x] = size[x]
  <2>1. a \in DOMAIN next /\ a # d
    BY <1>1, <1>2, Basics
  <2>. QED BY <2>1 DEF JoinNext, JoinSize
<1>4. n = [x \in DOMAIN n |-> n[x]] /\ s = [x \in DOMAIN n |-> s[x]]
  BY DEF JoinNext, JoinSize
<1>5. /\ a \in Held(next) /\ d \in Held(next) /\ a \in Nat /\ d \in Nat
      /\ size[a] \in Nat /\ size[d] \in Nat /\ size[a] >= 1 /\ size[d] >= 1
      /\ d + size[d] <= HeapEnd /\ a < d /\ a + size[a] = d /\ d < HeapEnd /\ 1 <= a
  BY <1>1, <1>2, Basics DEF Partition
<1> HIDE DEF d
<1>6. /\ next[d] \in FreeBlocks(next) \cup {HeapEnd} /\ d < next[d]
      /\ next[d] \in First .. HeapEnd /\ next[d] # NULL
  <2>1. next[d] \in FreeBlocks(next) \cup {HeapEnd} /\ d < next[d]
    BY <1>1, <1>2 DEF Ordered
  <2>. QED BY <1>1, <2>1, Basics, Constants
<1>7. FreeBlocks(n) = FreeBlocks(next) \ {d}
  <2>1. \A x \in DOMAIN n : n[x] # NULL <=> next[x] # NULL
    BY <1>1, <1>3, <1>6, Basics
  <2>. QED BY <1>3, <2>1 DEF FreeBlocks
<1>8. Held(n) = Held(next) \ {d}
  BY <1>3 DEF Held
<1>9. Shape(n, s)
  <2>1. d # xStart /\ d # HeapEnd /\ a # xStart /\ a # HeapEnd
    BY <1>5, Constants
  <2>2. \A x \in DOMAIN n : n[x] \in (First .. HeapEnd) \cup {NULL}
    BY <1>1, <1>3, <1>6 DEF Shape
  <2>3. \A x \in DOMAIN n : s[x] \in 0 .. HeapEnd - First
    <3>1. size[a] + size[d] \in 0 .. HeapEnd - First
      BY <1>5, Constants
    <3>. QED BY <1>1, <1>3, <3>1 DEF Shape
  <2>4. n \in [DOMAIN n -> (First .. HeapEnd) \cup {NULL}] /\ s \in [DOMAIN n -> 0 .. HeapEnd - First]
    BY <1>4, <2>2, <2>3
  <2>5. {xStart, HeapEnd} \subseteq DOMAIN n /\ DOMAIN n \subseteq xStart .. HeapEnd
    BY <1>1, <1>3, <2>1 DEF Shape
  <2>6. s[xStart] = 0 /\ n[HeapEnd] = NULL
    BY <1>1, <1>3, <2>1, <2>5 DEF Shape
  <2>. QED BY <2>4, <2>5, <2>6 DEF Shape
<1>10. Ordered(n)
  <2> SUFFICES ASSUME NEW b \in FreeBlocks(n) \cup {xStart}
               PROVE  /\ n[b] \in FreeBlocks(n) \cup {HeapEnd} /\ b < n[b]
                      /\ \A c \in FreeBlocks(n) : c <= b \/ n[b] <= c
    BY DEF Ordered
  <2>1. b \in FreeBlocks(next) \cup {xStart} /\ b # d /\ b \in DOMAIN n /\ b \in Nat
    BY <1>1, <1>3, <1>5, <1>7, Basics, Constants
  <2>2. CASE b = a
    <3>1. \A c \in FreeBlocks(next) : c \in Nat /\ (c <= a \/ d <= c) /\ (c <= d \/ next[d] <= c)
      BY <1>1, <1>2, Basics DEF Ordered, d
    <3>2. \A c \in FreeBlocks(next) \ {d} : c <= a \/ next[d] <= c
      BY <1>5, <3>1
    <3>. QED BY <1>3, <1>5, <1>6, <1>7, <2>2, <3>2
  <2>3. CASE b # a
    <3>1. /\ n[b] = next[b] /\ next[b] \in FreeBlocks(next) \cup {HeapEnd} /\ b < next[b]
          /\ \A c \in FreeBlocks(next) : c <= b \/ next[b] <= c
      BY <1>1, <1>3, <2>1, <2>3 DEF Ordered
    <3>2. next[b] # d
      <4>1. ASSUME next[b] = d PROVE FALSE
        <5>1. a <= b
          BY <1>5, <3>1, <4>1
        <5>2. b <= a \/ d <= b
          <6>1. b = xStart \/ b \in FreeBlocks(next)
            BY <2>1
          <6>2. b \in FreeBlocks(next) => b <= a \/ d <= b
            BY <1>1 DEF Ordered, d
          <6>. QED BY <1>5, <6>1, <6>2, Constants
        <5>. QED BY <1>5, <2>1, <2>3, <3>1, <4>1, <5>1, <5>2
      <4>. QED BY <4>1
    <3>. QED BY <1>7, <3>1, <3>2
  <2>. QED BY <2>2, <2>3
<1>11. Partition(n, s)
  <2>1. \A b \in Held(next) : b \in Nat /\ size[b] \in Nat /\ size[b] >= 1 /\ b + size[b] <= HeapEnd
    BY <1>1, Basics DEF Partition
  <2>2. \A b, c \in Held(next) : b < c => b + size[b] <= c
    BY <1>1 DEF Partition
  <2>3. /\ \A b \in Held(n) : b \in Held(next) /\ b # d
        /\ \A b \in Held(n) : b # a => s[b] = size[b]
    BY <1>3, <1>8 DEF Held
  <2>4. s[a] >= 1 /\ a + s[a] <= HeapEnd /\ a + s[a] = d + size[d]
    BY <1>3, <1>5
  <2>5. \A b \in Held(n) : s[b] >= 1 /\ b + s[b] <= HeapEnd
    BY <2>1, <2>3, <2>4
  <2>6. ASSUME NEW b \in Held(n), NEW c \in Held(n), b < c PROVE b + s[b] <= c
    <3>1. CASE b # a
      BY <2>2, <2>3, <2>6, <3>1
    <3>2. CASE b = a
      <4>1. a + size[a] <= c /\ c # d /\ c \in Nat
        BY <2>1, <2>2, <2>3, <2>6, <3>2
      <4>2. d < c
        BY <1>5, <4>1
      <4>. QED BY <1>5, <2>2, <2>3, <2>4, <3>2, <4>2
    <3>. QED BY <3>1, <3>2
  <2>7. ASSUME NEW u \in First .. HeapEnd - 1
        PROVE  \E b \in Held(n) : b <= u /\ u < b + s[b]
    <3>1. PICK b \in Held(next) : b <= u /\ u < b + size[b]
      BY <1>1 DEF Partition
    <3>2. u \in Nat
      BY Constants
    <3>3. CASE b = d
      BY <1>5, <1>8, <2>4, <3>1, <3>2, <3>3
    <3>4. CASE b = a
      BY <1>3, <1>5, <1>8, <3>1, <3>2, <3>4
    <3>5. CASE b # d /\ b # a
      BY <1>8, <2>3, <3>1, <3>5
    <3>. QED BY <3>3, <3>4, <3>5
  <2>. QED BY <2>5, <2>6, <2>7 DEF Partition
<1>12. Apart(n, s, IF d \in but THEN but ELSE but \ {a})
  <2> SUFFICES ASSUME NEW b \in FreeBlocks(n) \ (IF d \in but THEN but ELSE but \ {a})
               PROVE  n[b] = HeapEnd \/ b + s[b] < n[b]
    BY DEF Apart
  <2>1. b \in FreeBlocks(next) /\ b # d /\ b \in DOMAIN n
    BY <1>1, <1>3, <1>7, Basics
  <2>2. CASE b # a
    <3>1. b \notin but
      BY <2>2
    <3>. QED BY <1>1, <1>3, <2>1, <2>2, <3>1 DEF Apart
  <2>3. CASE b = a /\ d \notin but
    <3>1. next[d] = HeapEnd \/ d + size[d] < next[d]
      BY <1>1, <1>2, <2>3 DEF Apart
    <3>2. a + (size[a] + size[d]) = d + size[d]
      BY <1>5
    <3>. QED BY <1>3, <2>3, <3>1, <3>2
  <2>4. CASE b = a /\ d \in but
    <3>1. a \notin but
      BY <2>4
    <3>2. next[a] = HeapEnd \/ a + size[a] < next[a]
      BY <1>1, <3>1 DEF Apart
    <3>. QED BY <1>5, <3>2 DEF d
  <2>. QED BY <2>2, <2>3, <2>4
<1>13. Span(n, s) = Span(next, size)
  <2>1. \A b \in FreeBlocks(n) : b # a => s[b] = size[b]
    BY <1>3, <1>7, <1>9, Basics
  <2>2. ASSUME NEW u \in First .. HeapEnd - 1
        PROVE  (\E b \in FreeBlocks(n) : b <= u /\ u < b + s[b])
               <=> (\E b \in FreeBlocks(next) : b <= u /\ u < b + size[b])
    <3>1. u \in Nat
      BY Constants
    <3>2. (a <= u /\ u < a + s[a]) <=> (a <= u /\ u < a + size[a]) \/ (d <= u /\ u < d + size[d])
      BY <1>3, <1>5, <3>1
    <3>3. a \in FreeBlocks(n) /\ \A b : b \in FreeBlocks(n) <=> b \in FreeBlocks(next) /\ b # d
      BY <1>5, <1>7
    <3>. QED BY <1>2, <2>1, <3>2, <3>3
  <2>. QED BY <2>2 DEF Span
<1>. QED BY <1>2, <1>3, <1>7, <1>9, <1>10, <1>11, <1>12, <1>13 DEF d, Whole, Joined

(* What is left apart once a block that has no next neighbour is named. *)
LEMMA ApartAt ==
  ASSUME NEW next, NEW size, NEW but, NEW b \in FreeBlocks(next), Whole(next, size, but \cup {b}),
         next[b] = HeapEnd \/ b + size[b] # next[b]
  PROVE  Whole(next, size, but)
<1>1. Shape(next, size) /\ Ordered(next) /\ Partition(next, size) /\ Apart(next, size, but \cup {b})
  BY DEF Whole
<1>2. next[b] = HeapEnd \/ b + size[b] < next[b]
  <2>1. SUFFICES ASSUME next[b] # HeapEnd PROVE b + size[b] < next[b]
    OBVIOUS
  <2>2. next[b] \in FreeBlocks(next) /\ b < next[b]
    BY <1>1, <2>1 DEF Ordered
  <2>3. b + size[b] <= next[b]
    BY <1>1, <2>2, Basics DEF Partition
  <2>4. b \in Nat /\ size[b] \in Nat /\ next[b] \in Nat
    BY <1>1, <2>2, Basics
  <2>. QED BY <2>1, <2>3, <2>4
<1>3. Apart(next, size, but)
  BY <1>1, <1>2 DEF Apart
<1>. QED BY <1>1, <1>3 DEF Whole

LEMMA InsertedKeeps ==
  ASSUME NEW next, NEW size, Whole(next, size, {}), NEW block \in Held(next), next[block] = NULL,
         NEW r, r = Inserted(next, size, block)
  PROVE  /\ Whole(r.next, r.size, {})
         /\ DOMAIN r.next \subseteq DOMAIN next
         /\ Span(r.next, r.size) = Span(next, size) \cup Area(size, block)
         /\ Loose(r.next) = Loose(next) \ {block}
         /\ \A x \in Loose(r.next) : r.size[x] = size[x]
<1> DEFINE i == Iterator(next, block)
           behind == next[i]
           front == Adjoins(i, size[i], block)
           b == IF front THEN i ELSE block
           length == IF front THEN size[i] + size[block] ELSE size[block]
           back == Adjoins(b, length, behind) /\ behind # HeapEnd
           n == Link(next, i, block)
           n1 == IF front THEN JoinNext(n, i) ELSE n
           s1 == IF front THEN JoinSize(n, size, i) ELSE size
           n2 == IF back THEN JoinNext(n1, b) ELSE n1
           s2 == IF back THEN JoinSize(n1, s1, b) ELSE s1
<1>1. Shape(next, size) /\ Ordered(next) /\ Partition(next, size)
  BY DEF Whole
<1>2. /\ Whole(n, size, {i, block})
      /\ FreeBlocks(n) = FreeBlocks(next) \cup {block} /\ DOMAIN n = DOMAIN next
      /\ n[i] = block /\ n[block] = behind /\ i # block
      /\ i \in FreeBlocks(next) \cup {xStart}
      /\ \A x \in DOMAIN next : x # i /\ x # block => n[x] = next[x]
  BY LinkKeeps
<1>3. /\ block \in DOMAIN next /\ 1 <= block /\ block < HeapEnd /\ block \in Nat
      /\ i \in DOMAIN next /\ i \in Nat /\ i # HeapEnd /\ size[block] \in Nat /\ size[i] \in Nat
  BY <1>1, <1>2, Basics, Constants
<1>4. behind # i /\ behind # block /\ behind \in FreeBlocks(next) \cup {HeapEnd}
  <2>1. /\ behind \in FreeBlocks(next) \cup {HeapEnd} /\ i < behind
    BY <1>1, <1>2 DEF Ordered
  <2>2. block \notin FreeBlocks(next)
    BY DEF FreeBlocks
  <2>. QED BY <1>3, <2>1, <2>2
<1>5. front => i \in FreeBlocks(n) /\ i + size[i] = n[i] /\ n[i] # HeapEnd
  <2>1. i = xStart => size[i] = 0 /\ i = 0
    BY <1>1, Constants DEF Shape
  <2>. QED BY <1>2, <1>3, <2>1 DEF Adjoins
<1>6. r = [next |-> [x \in DOMAIN next \ ((IF front THEN {block} ELSE {})
                                         \cup (IF back THEN {behind} ELSE {})) |->
                       CASE x = b /\ back  -> next[behind]
                         [] x = b /\ ~back -> behind
                         [] x = i /\ x # b -> b
                         [] OTHER          -> next[x]],
           size |-> [x \in DOMAIN next \ ((IF front THEN {block} ELSE {})
                                         \cup (IF back THEN {behind} ELSE {})) |->
                       IF x # b THEN size[x] ELSE length + (IF back THEN size[behind] ELSE 0)]]
  BY DEF Inserted
<1> HIDE DEF n
<1>7. /\ Whole(n1, s1, {b}) /\ b \in FreeBlocks(n1) /\ n1[b] = behind /\ s1[b] = length
      /\ DOMAIN n1 = DOMAIN next \ (IF front THEN {block} ELSE {}) /\ DOMAIN s1 = DOMAIN n1
      /\ \A x \in DOMAIN n1 : x # b => s1[x] = size[x]
      /\ \A x \in DOMAIN n1 : x # b /\ x # i => n1[x] = next[x]
      /\ ~front => n1[i] = block
      /\ Span(n1, s1) = Span(n, size)
      /\ behind # HeapEnd => behind \in FreeBlocks(n1)
  <2>1. CASE front
    <3>1. /\ Whole(n1, s1, {i, block}) /\ FreeBlocks(n1) = FreeBlocks(n) \ {block}
          /\ DOMAIN n1 = DOMAIN n \ {block} /\ DOMAIN s1 = DOMAIN n1
          /\ n1[i] = n[block] /\ s1[i] = size[i] + size[block]
          /\ \A x \in DOMAIN n1 : x # i => n1[x] = n[x] /\ s1[x] = size[x]
          /\ Span(n1, s1) = Span(n, size)
      <4>1. n1 = JoinNext(n, i) /\ s1 = JoinSize(n, size, i) /\ i \in FreeBlocks(n)
            /\ n[i] # HeapEnd /\ i + size[i] = n[i] /\ Whole(n, size, {i, block})
            /\ n[i] = block
        BY <1>2, <1>5, <2>1
      <4>2. Joining(n, size, {i, block}, i, n1, s1)
        BY <4>1 DEF Joining
      <4>3. Joined(n, size, {i, block}, i, n1, s1)
        BY ONLY <4>2, JoinKeeps
      <4> HIDE DEF n1, s1, i
      <4>. QED BY <4>1, <4>3 DEF Joined
    <3>2. Whole(n1, s1, {i})
      BY <3>1 DEF Whole, Apart
    <3>3. i \in FreeBlocks(n1)
      BY <1>2, <1>5, <2>1, <3>1
    <3> HIDE DEF n1, s1, front
    <3>. QED BY <1>2, <1>4, <2>1, <3>1, <3>2, <3>3
  <2>2. CASE ~front
    <3>1. Whole(n, size, {block})
      <4>1. CASE i \in FreeBlocks(n)
        <5>1. i + size[i] # n[i]
          BY <1>2, <2>2 DEF Adjoins
        <5>2. {i, block} = {block} \cup {i}
          OBVIOUS
        <5>. QED BY <1>2, <4>1, <5>1, <5>2, ApartAt
      <4>2. CASE i \notin FreeBlocks(n)
        BY <1>2, <4>2 DEF Whole, Apart
      <4>. QED BY <4>1, <4>2
    <3>2. DOMAIN size = DOMAIN next
      BY <1>1 DEF Shape
    <3>. QED BY <1>2, <1>4, <2>2, <3>1, <3>2
  <2>. QED BY <2>1, <2>2
<1> HIDE DEF n1, s1
<1>8. back => behind \in DOMAIN n1 /\ behind # b /\ n1[behind] = next[behind] /\ s1[behind] = size[behind]
  <2>1. SUFFICES ASSUME back PROVE behind \in DOMAIN n1
    BY <1>4, <1>7
  <2>. QED BY <1>7, <2>1 DEF FreeBlocks
<1>9. /\ Whole(n2, s2, {}) /\ Span(n2, s2) = Span(n, size)
      /\ DOMAIN n2 = DOMAIN n1 \ (IF back THEN {behind} ELSE {}) /\ DOMAIN s2 = DOMAIN n2
      /\ n2[b] = IF back THEN next[behind] ELSE behind
      /\ s2[b] = length + (IF back THEN size[behind] ELSE 0)
      /\ \A x \in DOMAIN n2 : x # b => n2[x] = n1[x] /\ s2[x] = s1[x]
      /\ b \in DOMAIN n2 /\ n2[b] # NULL
  <2>0. length \in Nat /\ b \in DOMAIN n1
    BY <1>3, <1>7 DEF FreeBlocks
  <2>1. CASE back
    <3>1. n1[b] # HeapEnd /\ b + s1[b] = n1[b]
      BY <1>7, <2>1 DEF Adjoins
    <3>2. /\ Whole(n2, s2, IF n1[b] \in {b} THEN {b} ELSE {b} \ {b})
          /\ FreeBlocks(n2) = FreeBlocks(n1) \ {behind} /\ DOMAIN n2 = DOMAIN n1 \ {behind}
          /\ DOMAIN s2 = DOMAIN n2
          /\ n2[b] = n1[behind] /\ s2[b] = s1[b] + s1[behind]
          /\ \A x \in DOMAIN n2 : x # b => n2[x] = n1[x] /\ s2[x] = s1[x]
          /\ Span(n2, s2) = Span(n1, s1)
      <4>1. /\ n2 = JoinNext(n1, b) /\ s2 = JoinSize(n1, s1, b) /\ b \in FreeBlocks(n1)
            /\ n1[b] # HeapEnd /\ b + s1[b] = n1[b] /\ Whole(n1, s1, {b}) /\ n1[b] = behind
        BY <1>7, <2>1, <3>1
      <4>2. Joining(n1, s1, {b}, b, n2, s2)
        BY <4>1 DEF Joining
      <4>3. Joined(n1, s1, {b}, b, n2, s2)
        BY ONLY <4>2, JoinKeeps
      <4> HIDE DEF n2, s2, b, behind
      <4>. QED BY <4>1, <4>3 DEF Joined
    <3>3. Whole(n2, s2, {})
      <4>1. (IF n1[b] \in {b} THEN {b} ELSE {b} \ {b}) = {}
        BY <1>7, <1>8, <2>1
      <4>. QED BY <3>2, <4>1
    <3>4. b \in FreeBlocks(n2)
      BY <1>7, <1>8, <2>1, <3>2
    <3> HIDE DEF n2, s2, back, b, length
    <3>. QED BY <1>7, <1>8, <2>0, <2>1, <3>2, <3>3, <3>4 DEF FreeBlocks
  <2>2. CASE ~back
    <3>1. n1[b] = HeapEnd \/ b + s1[b] # n1[b]
      BY <1>7, <2>2 DEF Adjoins
    <3>2. Whole(n1, s1, {})
      <4>1. {b} = {} \cup {b}
        OBVIOUS
      <4>. QED BY <1>7, <3>1, <4>1, ApartAt
    <3>3. n2 = n1 /\ s2 = s1
      BY <2>2
    <3>4. length + 0 = length
      BY <2>0
    <3> HIDE DEF n2, s2, back, b, length
    <3>. QED BY <1>7, <2>0, <2>2, <3>2, <3>3, <3>4 DEF FreeBlocks
  <2>. QED BY <2>1, <2>2
<1>10. n2 = [x \in DOMAIN n2 |-> n2[x]] /\ s2 = [x \in DOMAIN n2 |-> s2[x]]
  BY <1>9 DEF Whole, Shape
<1> HIDE DEF n2, s2, front, back, b, length
<1>11. DOMAIN n2 = DOMAIN next \ ((IF front THEN {block} ELSE {}) \cup (IF back THEN {behind} ELSE {}))
  BY <1>7, <1>9
<1>12. r.next = n2
  <2>1. \A x \in DOMAIN n2 : n2[x] = CASE x = b /\ back  -> next[behind]
                                       [] x = b /\ ~back -> behind
                                       [] x = i /\ x # b -> b
                                       [] OTHER          -> next[x]
    <3> SUFFICES ASSUME NEW x \in DOMAIN n2
                 PROVE  n2[x] = CASE x = b /\ back  -> next[behind]
                                  [] x = b /\ ~back -> behind
                                  [] x = i /\ x # b -> b
                                  [] OTHER          -> next[x]
      OBVIOUS
    <3>1. x \in DOMAIN n1
      BY <1>9
    <3>2. CASE x = b
      BY <1>9, <3>2
    <3>3. CASE x # b /\ x # i
      BY <1>7, <1>9, <3>1, <3>3
    <3>4. CASE x # b /\ x = i
      <4>1. ~front /\ b = block
        BY <3>4 DEF b
      <4>. QED BY <1>7, <1>9, <3>1, <3>4, <4>1
    <3>. QED BY <3>2, <3>3, <3>4
  <2>2. r.next = [x \in DOMAIN n2 |-> CASE x = b /\ back  -> next[behind]
                                        [] x = b /\ ~back -> behind
                                        [] x = i /\ x # b -> b
                                        [] OTHER          -> next[x]]
    BY <1>6, <1>11
  <2>. QED BY <1>10, <2>1, <2>2
<1>13. r.size = s2
  <2>1. \A x \in DOMAIN n2 : s2[x] = IF x # b THEN size[x] ELSE length + (IF back THEN size[behind] ELSE 0)
    BY <1>7, <1>9
  <2>2. r.size = [x \in DOMAIN n2 |-> IF x # b THEN size[x]
                                      ELSE length + (IF back THEN size[behind] ELSE 0)]
    BY <1>6, <1>11
  <2>. QED BY <1>10, <2>1, <2>2
<1>14. Span(n2, s2) = Span(next, size) \cup Area(size, block)
  <2>1. \A u \in First .. HeapEnd - 1 : u \in Nat
    BY Constants
  <2>2. block + size[block] <= HeapEnd
    BY <1>1 DEF Partition
  <2>3. Area(size, block) \subseteq First .. HeapEnd - 1
    BY <1>3, <2>2, Constants DEF Area
  <2>4. \A u \in First .. HeapEnd - 1 : u \in Area(size, block) <=> block <= u /\ u < block + size[block]
    BY <1>3, <2>1 DEF Area
  <2>. QED BY <1>2, <1>9, <2>3, <2>4 DEF Span
<1>15. ASSUME NEW x \in Held(next), next[x] = NULL, x # block
       PROVE  x \in Held(n2) /\ n2[x] = NULL /\ s2[x] = size[x]
  <2>1. x # i /\ x # behind
    BY <1>1, <1>2, <1>4, <1>15, Basics DEF Held
  <2>2. x \in DOMAIN n2 /\ x # b
    BY <1>11, <1>15, <2>1 DEF Held, b
  <2>. QED BY <1>7, <1>9, <1>15, <2>1, <2>2 DEF Held
<1>16. ASSUME NEW x \in Held(n2), n2[x] = NULL
       PROVE  next[x] = NULL /\ x # block
  <2>1. x \in DOMAIN n2 /\ x \in DOMAIN n1 /\ x # b
    BY <1>9, <1>16 DEF Held
  <2>2. x # i
    BY <1>3, <1>7, <1>9, <1>16, <2>1, Constants DEF b
  <2>3. x # block
    BY <1>7, <2>1 DEF b
  <2>. QED BY <1>7, <1>9, <1>16, <2>1, <2>2, <2>3
<1>17. DOMAIN n2 \subseteq DOMAIN next
  BY <1>11
<1>18. Loose(n2) = Loose(next) \ {block} /\ \A x \in Loose(n2) : s2[x] = size[x]
  <2>1. ASSUME NEW x \in Loose(n2)
        PROVE  x \in Loose(next) /\ x # block /\ s2[x] = size[x]
    <3>1. x \in Held(n2) /\ n2[x] = NULL /\ x \in Held(next)
      BY <1>17 DEF Loose, Held
    <3>. QED BY <1>15, <1>16, <3>1 DEF Loose
  <2>2. ASSUME NEW x \in Loose(next), x # block PROVE x \in Loose(n2)
    BY <1>15, <2>2 DEF Loose
  <2>. QED BY <2>1, <2>2
<1>. QED BY <1>9, <1>12, <1>13, <1>14, <1>17, <1>18

(* A block is taken out of the list. *)
Unlink(next, block) ==
  [b \in DOMAIN next |-> IF next[b] = block THEN next[block]
                         ELSE IF b = block THEN NULL ELSE next[b]]

LEMMA UnlinkKeeps ==
  ASSUME NEW next, NEW size, Whole(next, size, {}), NEW block \in FreeBlocks(next),
         NEW out, out = Unlink(next, block)
  PROVE  /\ Whole(out, size, {})
         /\ FreeBlocks(out) = FreeBlocks(next) \ {block} /\ DOMAIN out = DOMAIN next
         /\ out[block] = NULL /\ \A x \in Held(next) : next[x] = NULL => out[x] = NULL
         /\ Span(next, size) = Span(out, size) \cup Area(size, block)
         /\ Span(out, size) \cap Area(size, block) = {}
<1>1. Shape(next, size) /\ Ordered(next) /\ Partition(next, size) /\ Apart(next, size, {})
  BY DEF Whole
<1>2. /\ block \in Held(next) /\ block \in DOMAIN next /\ block \in Nat /\ size[block] \in Nat
      /\ next[block] \in FreeBlocks(next) \cup {HeapEnd} /\ block < next[block]
      /\ next[block] # NULL /\ next[block] \in First .. HeapEnd /\ next[block] \in Nat
      /\ 1 <= block /\ block < HeapEnd
  <2>1. next[block] \in FreeBlocks(next) \cup {HeapEnd} /\ block < next[block]
    BY <1>1 DEF Ordered
  <2>2. block \in Held(next) /\ block \in DOMAIN next /\ next[block] # NULL
    BY <1>1, Basics
  <2>3. next[block] \in First .. HeapEnd
    BY <1>1, <2>2 DEF Shape
  <2>. QED BY <1>1, <2>1, <2>2, <2>3, Basics, Constants
<1>3. /\ DOMAIN out = DOMAIN next /\ out[block] = NULL
      /\ \A b \in DOMAIN next : next[b] = block => out[b] = next[block]
      /\ \A b \in DOMAIN next : next[b] # block /\ b # block => out[b] = next[b]
  BY <1>2 DEF Unlink
<1>4. out = [b \in DOMAIN out |-> out[b]]
  BY DEF Unlink
<1>5. FreeBlocks(out) = FreeBlocks(next) \ {block}
  <2>1. \A b \in DOMAIN out : out[b] # NULL <=> next[b] # NULL /\ b # block
    <3> SUFFICES ASSUME NEW b \in DOMAIN out
                 PROVE  out[b] # NULL <=> next[b] # NULL /\ b # block
      OBVIOUS
    <3>1. CASE next[b] = block
      <4>1. b # block /\ block # NULL
        BY <1>2, <3>1, Constants
      <4>. QED BY <1>2, <1>3, <3>1, <4>1
    <3>2. CASE next[b] # block
      BY <1>2, <1>3, <3>2
    <3>. QED BY <3>1, <3>2
  <2>. QED BY <1>3, <2>1 DEF FreeBlocks
<1>6. Shape(out, size)
  <2>1. \A b \in DOMAIN out : out[b] \in (First .. HeapEnd) \cup {NULL}
    <3> SUFFICES ASSUME NEW b \in DOMAIN out PROVE out[b] \in (First .. HeapEnd) \cup {NULL}
      OBVIOUS
    <3>1. next[b] \in (First .. HeapEnd) \cup {NULL}
      BY <1>1, <1>3 DEF Shape
    <3>. QED BY <1>2, <1>3, <3>1
  <2>2. out \in [DOMAIN out -> (First .. HeapEnd) \cup {NULL}]
    BY <1>4, <2>1
  <2>3. out[HeapEnd] = NULL
    <3>1. next[HeapEnd] = NULL /\ HeapEnd \in DOMAIN next /\ HeapEnd # block
      BY <1>1, <1>2 DEF Shape
    <3>2. block # NULL
      BY <1>2, Constants
    <3>. QED BY <1>3, <3>1, <3>2
  <2>. QED BY <1>1, <1>3, <2>2, <2>3 DEF Shape
<1>7. Ordered(out)
  <2> SUFFICES ASSUME NEW b \in FreeBlocks(out) \cup {xStart}
               PROVE  /\ out[b] \in FreeBlocks(out) \cup {HeapEnd} /\ b < out[b]
                      /\ \A c \in FreeBlocks(out) : c <= b \/ out[b] <= c
    BY DEF Ordered
  <2>1. b \in FreeBlocks(next) \cup {xStart} /\ b # block /\ b \in DOMAIN next /\ b \in Nat
    BY <1>1, <1>2, <1>5, Basics, Constants
  <2>2. /\ next[b] \in FreeBlocks(next) \cup {HeapEnd} /\ b < next[b]
        /\ \A c \in FreeBlocks(next) : c <= b \/ next[b] <= c
    BY <1>1, <2>1 DEF Ordered
  <2>3. CASE next[b] = block
    <3>1. \A c \in FreeBlocks(next) : c \in Nat /\ (c <= block \/ next[block] <= c)
      BY <1>1, Basics DEF Ordered
    <3>2. \A c \in FreeBlocks(out) : c <= b \/ next[block] <= c
      BY <1>2, <1>5, <2>1, <2>2, <2>3, <3>1
    <3>3. next[block] \in FreeBlocks(out) \cup {HeapEnd}
      BY <1>2, <1>5
    <3>4. b < next[block]
      BY <1>2, <2>1, <2>2, <2>3
    <3>. QED BY <1>3, <2>1, <2>3, <3>2, <3>3, <3>4
  <2>4. CASE next[b] # block
    BY <1>3, <1>5, <2>1, <2>2, <2>4
  <2>. QED BY <2>3, <2>4
<1>8. Partition(out, size)
  BY <1>1, <1>3 DEF Partition, Held
<1>9. Apart(out, size, {})
  <2> SUFFICES ASSUME NEW b \in FreeBlocks(out)
               PROVE  out[b] = HeapEnd \/ b + size[b] < out[b]
    BY DEF Apart
  <2>1. b \in FreeBlocks(next) /\ b # block /\ b \in DOMAIN next /\ b \in Nat /\ size[b] \in Nat
    BY <1>1, <1>5, Basics
  <2>2. next[b] = HeapEnd \/ b + size[b] < next[b]
    BY <1>1, <2>1 DEF Apart
  <2>. QED BY <1>2, <1>3, <2>1, <2>2
<1>10. block + size[block] <= HeapEnd
  BY <1>1, <1>2 DEF Partition
<1>11. \A u \in First .. HeapEnd - 1 : u \in Nat
  BY Constants
<1>12. \A u : u \in Area(size, block) <=>
              u \in First .. HeapEnd - 1 /\ block <= u /\ u < block + size[block]
  BY <1>2, <1>10, Constants DEF Area
<1>13. Span(next, size) = Span(out, size) \cup Area(size, block)
  <2>1. \A u : u \in Span(next, size) <=> u \in Span(out, size) \/ u \in Area(size, block)
    BY <1>5, <1>12 DEF Span
  <2>. QED BY <2>1
<1>14. Span(out, size) \cap Area(size, block) = {}
  <2>1. SUFFICES ASSUME NEW u \in First .. HeapEnd - 1, NEW b \in FreeBlocks(out),
                        b <= u, u < b + size[b], block <= u, u < block + size[block]
                 PROVE  FALSE
    BY <1>12 DEF Span
  <2>2. b \in Held(next) /\ b # block /\ b \in Nat /\ size[b] \in Nat /\ u \in Nat
    BY <1>1, <1>5, <1>11, Basics
  <2>3. /\ b < block => b + size[b] <= block
        /\ block < b => block + size[block] <= b
    BY <1>1, <1>2, <2>2 DEF Partition
  <2>. QED BY <1>2, <2>1, <2>2, <2>3
<1>15. \A x \in Held(next) : next[x] = NULL => out[x] = NULL
  <2>1. block # NULL
    BY <1>2, Constants
  <2>. QED BY <1>3, <2>1 DEF Held
<1>. QED BY <1>3, <1>5, <1>6, <1>7, <1>8, <1>9, <1>13, <1>14, <1>15 DEF Whole

(* A block without a place in the list is cut in two. *)
CutNext(next, rest) == [b \in DOMAIN next \cup {rest} |-> IF b = rest THEN NULL ELSE next[b]]

CutSize(next, size, block, wanted, rest) ==
  [b \in DOMAIN next \cup {rest} |->
     IF b = rest THEN size[block] - wanted ELSE IF b = block THEN wanted ELSE size[b]]

LEMMA CutKeeps ==
  ASSUME NEW next, NEW size, Whole(next, size, {}),
         NEW block \in Held(next), next[block] = NULL,
         NEW wanted \in Nat \ {0}, wanted < size[block],
         NEW rest, rest = block + wanted, NEW n, n = CutNext(next, rest),
         NEW s, s = CutSize(next, size, block, wanted, rest)
  PROVE  /\ Whole(n, s, {})
         /\ FreeBlocks(n) = FreeBlocks(next) /\ rest \in Held(n) /\ rest \notin Held(next)
         /\ Held(n) = Held(next) \cup {rest} /\ rest # block
         /\ n[rest] = NULL /\ s[rest] = size[block] - wanted /\ s[block] = wanted
         /\ \A x \in Held(next) : n[x] = next[x]
         /\ \A x \in Held(next) : x # block => s[x] = size[x]
         /\ Span(n, s) = Span(next, size)
<1>1. Shape(next, size) /\ Ordered(next) /\ Partition(next, size) /\ Apart(next, size, {})
  BY DEF Whole
<1>2. /\ block \in DOMAIN next /\ block \in Nat /\ 1 <= block /\ block < HeapEnd
      /\ size[block] \in Nat /\ block + size[block] <= HeapEnd
  BY <1>1, Basics DEF Partition
<1>3. rest \in Nat /\ block < rest /\ rest < block + size[block] /\ rest < HeapEnd /\ 1 < rest
  BY <1>2, Constants
<1>4. rest \notin DOMAIN next
  <2>1. ASSUME rest \in Held(next) PROVE FALSE
    BY <1>1, <1>2, <1>3, <2>1 DEF Partition
  <2>. QED BY <1>3, <2>1, Constants DEF Held
<1>5. /\ DOMAIN n = DOMAIN next \cup {rest} /\ DOMAIN s = DOMAIN n
      /\ n[rest] = NULL /\ s[rest] = size[block] - wanted /\ s[block] = wanted
      /\ \A x \in DOMAIN next : n[x] = next[x]
      /\ \A x \in DOMAIN next : x # block => s[x] = size[x]
  BY <1>2, <1>4 DEF CutNext, CutSize
<1>6. n = [x \in DOMAIN n |-> n[x]] /\ s = [x \in DOMAIN n |-> s[x]]
  BY DEF CutNext, CutSize
<1>7. Held(n) = Held(next) \cup {rest} /\ rest \notin Held(next)
  BY <1>3, <1>4, <1>5, Constants DEF Held
<1>8. FreeBlocks(n) = FreeBlocks(next)
  BY <1>4, <1>5 DEF FreeBlocks
<1>9. Shape(n, s)
  <2>1. \A x \in DOMAIN n : n[x] \in (First .. HeapEnd) \cup {NULL}
    BY <1>1, <1>5 DEF Shape
  <2>2. \A x \in DOMAIN n : s[x] \in 0 .. HeapEnd - First
    <3>1. wanted \in 0 .. HeapEnd - First /\ size[block] - wanted \in 0 .. HeapEnd - First
      BY <1>2, Constants
    <3>. QED BY <1>1, <1>5, <3>1 DEF Shape
  <2>3. n \in [DOMAIN n -> (First .. HeapEnd) \cup {NULL}] /\ s \in [DOMAIN n -> 0 .. HeapEnd - First]
    BY <1>6, <2>1, <2>2
  <2>4. {xStart, HeapEnd} \subseteq DOMAIN n /\ DOMAIN n \subseteq xStart .. HeapEnd
    BY <1>1, <1>3, <1>5, Constants DEF Shape
  <2>5. xStart # block /\ xStart \in DOMAIN next /\ HeapEnd \in DOMAIN next
    BY <1>1, <1>2, Constants DEF Shape
  <2>6. s[xStart] = 0 /\ n[HeapEnd] = NULL
    BY <1>1, <1>5, <2>5 DEF Shape
  <2>. QED BY <2>3, <2>4, <2>6 DEF Shape
<1>10. \A b \in FreeBlocks(next) \cup {xStart} : n[b] = next[b]
  BY <1>1, <1>5, Basics
<1>11. Ordered(n)
  BY <1>1, <1>8, <1>10 DEF Ordered
<1>12. \A b \in FreeBlocks(next) : b # block /\ s[b] = size[b]
  <2>1. block \notin FreeBlocks(next)
    BY DEF FreeBlocks
  <2>. QED BY <1>1, <1>5, <2>1, Basics
<1>13. Apart(n, s, {})
  BY <1>1, <1>8, <1>10, <1>12 DEF Apart
<1>14. Partition(n, s)
  <2>1. \A b \in Held(next) : b \in Nat /\ size[b] \in Nat /\ size[b] >= 1 /\ b + size[b] <= HeapEnd
    BY <1>1, Basics DEF Partition
  <2>2. \A b, c \in Held(next) : b < c => b + size[b] <= c
    BY <1>1 DEF Partition
  <2>3. \A b \in Held(next) : b \in DOMAIN next
    BY DEF Held
  <2>4. \A b \in Held(next) : b # block => s[b] = size[b]
    BY <1>5, <2>3
  <2>5. s[rest] = size[block] - wanted /\ s[block] = wanted
    BY <1>5
  <2>6. rest + s[rest] = block + size[block] /\ s[rest] >= 1 /\ block + s[block] = rest
    BY <1>2, <2>5
  <2>7. \A b \in Held(n) : s[b] >= 1 /\ b + s[b] <= HeapEnd
    <3> SUFFICES ASSUME NEW b \in Held(n) PROVE s[b] >= 1 /\ b + s[b] <= HeapEnd
      OBVIOUS
    <3>1. CASE b = rest
      BY <1>2, <2>6, <3>1
    <3>2. CASE b = block
      BY <1>3, <2>5, <2>6, <3>2, Constants
    <3>3. CASE b # rest /\ b # block
      BY <1>7, <2>1, <2>4, <3>3
    <3>. QED BY <3>1, <3>2, <3>3
  <2>8. ASSUME NEW b \in Held(n), NEW c \in Held(n), b < c PROVE b + s[b] <= c
    <3>1. CASE b = rest
      <4>1. c \in Held(next) /\ block < c /\ c \in Nat
        BY <1>2, <1>3, <1>7, <2>1, <2>8, <3>1
      <4>2. block + size[block] <= c
        BY <2>2, <4>1
      <4>. QED BY <2>6, <3>1, <4>2
    <3>2. CASE b = block
      <4>1. CASE c = rest
        BY <1>3, <2>6, <3>2, <4>1
      <4>2. CASE c # rest
        <5>1. c \in Held(next) /\ block + size[block] <= c /\ c \in Nat
          BY <1>7, <2>1, <2>2, <2>8, <3>2, <4>2
        <5>. QED BY <1>2, <1>3, <2>6, <3>2, <5>1
      <4>. QED BY <4>1, <4>2
    <3>3. CASE b # rest /\ b # block
      <4>1. b \in Held(next) /\ s[b] = size[b] /\ b \in Nat /\ size[b] \in Nat
        BY <1>7, <2>1, <2>4, <3>3
      <4>2. CASE c = rest
        <5>1. block < b => block + size[block] <= b
          BY <2>2, <4>1
        <5>2. b < block
          BY <1>2, <1>3, <2>8, <3>3, <4>1, <4>2, <5>1
        <5>3. b + size[b] <= block
          BY <2>2, <4>1, <5>2
        <5>. QED BY <1>2, <1>3, <4>1, <4>2, <5>3
      <4>3. CASE c # rest
        BY <1>7, <2>2, <2>8, <4>1, <4>3
      <4>. QED BY <4>2, <4>3
    <3>. QED BY <3>1, <3>2, <3>3
  <2>9. ASSUME NEW u \in First .. HeapEnd - 1
        PROVE  \E b \in Held(n) : b <= u /\ u < b + s[b]
    <3>1. PICK b \in Held(next) : b <= u /\ u < b + size[b]
      BY <1>1 DEF Partition
    <3>2. u \in Nat
      BY Constants
    <3>3. CASE b = block /\ u < rest
      BY <1>7, <2>6, <3>1, <3>3
    <3>4. CASE b = block /\ ~(u < rest)
      <4>1. rest <= u /\ u < rest + s[rest]
        BY <1>3, <2>6, <3>1, <3>2, <3>4
      <4>. QED BY <1>7, <4>1
    <3>5. CASE b # block
      BY <1>7, <2>4, <3>1, <3>5
    <3>. QED BY <3>3, <3>4, <3>5
  <2>. QED BY <2>7, <2>8, <2>9 DEF Partition
<1>15. Span(n, s) = Span(next, size)
  BY <1>8, <1>12 DEF Span
<1>16. \A x \in Held(next) : x \in DOMAIN next
  BY DEF Held
<1>. QED BY <1>3, <1>5, <1>7, <1>8, <1>9, <1>11, <1>13, <1>14, <1>15, <1>16 DEF Whole

LEMMA TakenKeeps ==
  ASSUME NEW next, NEW size, Whole(next, size, {}), NEW block \in FreeBlocks(next),
         NEW wanted \in Nat \ {0}, wanted <= size[block],
         NEW r, r = Taken(next, size, block, wanted)
  PROVE  /\ Whole(r.next, r.size, {})
         /\ block \in Held(r.next) /\ r.next[block] = NULL /\ wanted <= r.size[block]
         /\ Span(next, size) = Span(r.next, r.size) \cup Area(r.size, block)
         /\ Span(r.next, r.size) \cap Area(r.size, block) = {}
         /\ Loose(r.next) = Loose(next) \cup {block}
         /\ \A x \in Loose(next) : r.size[x] = size[x]
<1> DEFINE out == Unlink(next, block)
           rest == block + wanted
           left == size[block] - wanted
           n == CutNext(out, rest)
           s == CutSize(out, size, block, wanted, rest)
<1>1. r = IF Split(left) THEN Inserted(n, s, rest) ELSE [next |-> out, size |-> size]
  BY DEF Taken, Unlink, CutNext, CutSize
<1>2. Shape(next, size)
  BY DEF Whole
<1>3. /\ block \in Held(next) /\ block \in DOMAIN next /\ next[block] # NULL
      /\ size[block] \in Nat /\ block \in Nat
  BY <1>2, Basics
<1>4. /\ Whole(out, size, {})
      /\ FreeBlocks(out) = FreeBlocks(next) \ {block} /\ DOMAIN out = DOMAIN next
      /\ out[block] = NULL /\ \A x \in Held(next) : next[x] = NULL => out[x] = NULL
      /\ Span(next, size) = Span(out, size) \cup Area(size, block)
      /\ Span(out, size) \cap Area(size, block) = {}
  BY UnlinkKeeps
<1> HIDE DEF out
<1>5. Held(out) = Held(next)
  BY <1>4 DEF Held
<1>6. Loose(out) = Loose(next) \cup {block} /\ block \notin Loose(next)
  <2>1. \A x \in Held(next) : x # block => (out[x] = NULL <=> next[x] = NULL)
    BY <1>4 DEF FreeBlocks, Held
  <2>. QED BY <1>3, <1>4, <1>5, <2>1 DEF Loose
<1>7. CASE ~Split(left)
  <2>1. r.next = out /\ r.size = size
    BY <1>1, <1>7
  <2>. QED BY <1>3, <1>4, <1>5, <1>6, <2>1
<1>8. CASE Split(left)
  <2>1. wanted < size[block]
    BY <1>3, <1>8, Constants DEF Split
  <2>2. /\ Whole(n, s, {})
        /\ FreeBlocks(n) = FreeBlocks(out) /\ rest \in Held(n) /\ rest \notin Held(out)
        /\ Held(n) = Held(out) \cup {rest} /\ rest # block
        /\ n[rest] = NULL /\ s[rest] = size[block] - wanted /\ s[block] = wanted
        /\ \A x \in Held(out) : n[x] = out[x]
        /\ \A x \in Held(out) : x # block => s[x] = size[x]
        /\ Span(n, s) = Span(out, size)
    BY <1>3, <1>4, <1>5, <2>1, CutKeeps
  <2> HIDE DEF n, s
  <2>3. /\ Whole(r.next, r.size, {})
        /\ Span(r.next, r.size) = Span(n, s) \cup Area(s, rest)
        /\ Loose(r.next) = Loose(n) \ {rest}
        /\ \A x \in Loose(r.next) : r.size[x] = s[x]
    <3>1. r = Inserted(n, s, rest)
      BY <1>1, <1>8
    <3>. QED BY <2>2, <3>1, InsertedKeeps
  <2>4. Loose(n) = Loose(out) \cup {rest} /\ rest \notin Loose(out)
    BY <2>2 DEF Loose
  <2>5. Loose(r.next) = Loose(next) \cup {block}
    BY <1>6, <2>3, <2>4
  <2>6. /\ r.size[block] = wanted /\ block \in Held(r.next) /\ r.next[block] = NULL
        /\ \A x \in Loose(next) : r.size[x] = size[x]
    <3>1. \A x \in Loose(next) : x # block /\ x \in Held(out)
      BY <1>5, <1>6 DEF Loose
    <3>. QED BY <2>2, <2>3, <2>5, <3>1 DEF Loose
  <2>7. Area(size, block) = Area(s, rest) \cup Area(r.size, block)
        /\ Area(s, rest) \cap Area(r.size, block) = {}
    <3>1. \A u : u \in Area(size, block) <=> u \in Int /\ block <= u /\ u < block + size[block]
      BY <1>3 DEF Area
    <3>2. \A u : u \in Area(s, rest) <=> u \in Int /\ rest <= u /\ u < block + size[block]
      BY <1>3, <2>2 DEF Area
    <3>3. \A u : u \in Area(r.size, block) <=> u \in Int /\ block <= u /\ u < rest
      BY <1>3, <2>6 DEF Area
    <3>4. rest \in Nat /\ block < rest /\ rest < block + size[block]
      BY <1>3, <2>1
    <3> HIDE DEF rest
    <3>5. \A u : u \in Area(size, block) <=> u \in Area(s, rest) \/ u \in Area(r.size, block)
      BY <1>3, <3>1, <3>2, <3>3, <3>4
    <3>6. \A u : ~(u \in Area(s, rest) /\ u \in Area(r.size, block))
      BY <3>2, <3>3, <3>4
    <3>. QED BY <3>5, <3>6
  <2>8. /\ Span(next, size) = Span(r.next, r.size) \cup Area(r.size, block)
        /\ Span(r.next, r.size) \cap Area(r.size, block) = {}
    BY <1>4, <2>2, <2>3, <2>7
  <2>9. wanted <= r.size[block]
    BY <2>6
  <2>. QED BY <2>3, <2>5, <2>6, <2>8, <2>9
<1>. QED BY <1>7, <1>8

-----------------------------------------------------------------------------
(* The invariant is inductive. *)

(* prvHeapInit makes a heap of a single block. *)
LEMMA BlankHeap ==
  ASSUME IInv
  PROVE  /\ Whole(Next0, Size0, {}) /\ Owners(Next0, xBlockAllocatedBit, pxLink)
         /\ Free0 = Cardinality(Span(Next0, Size0))
         /\ \A b \in xBlockAllocatedBit : asked[b] > 0 /\ Wanted(asked[b]) <= Size0[b]
<1>1. CASE pxEnd # NULL
  BY <1>1 DEF IInv, Next0, Size0, Free0
<1>2. CASE pxEnd = NULL
  <2> DEFINE n == InitialNext
             s == InitialSize
  <2>1. Next0 = n /\ Size0 = s /\ Free0 = HeapEnd - 1 /\ xBlockAllocatedBit = {} /\ pxLink = NULL
    BY <1>2, Constants DEF IInv, Blank, Next0, Size0, Free0
  <2>2. /\ DOMAIN n = {0, 1, HeapEnd} /\ DOMAIN s = {0, 1, HeapEnd}
        /\ n[0] = 1 /\ n[1] = HeapEnd /\ n[HeapEnd] = NULL
        /\ s[0] = 0 /\ s[1] = HeapEnd - 1 /\ s[HeapEnd] = 0
    BY Constants DEF InitialNext, InitialSize
  <2>3. /\ n = [x \in DOMAIN n |-> n[x]] /\ s = [x \in DOMAIN n |-> s[x]]
    BY <2>2 DEF InitialNext, InitialSize
  <2> HIDE DEF n, s
  <2>4. 0 # NULL /\ 1 # NULL /\ HeapEnd # NULL /\ HeapEnd # 0 /\ HeapEnd # 1
    BY Constants
  <2>5. FreeBlocks(n) = {1} /\ Held(n) = {1}
    BY <2>2, <2>4, Constants DEF FreeBlocks, Held
  <2>6. Shape(n, s)
    <3>1. \A x \in DOMAIN n : n[x] \in (First .. HeapEnd) \cup {NULL} /\ s[x] \in 0 .. HeapEnd - First
      BY <2>2, Constants
    <3>2. n \in [DOMAIN n -> (First .. HeapEnd) \cup {NULL}] /\ s \in [DOMAIN n -> 0 .. HeapEnd - First]
      BY <2>3, <3>1
    <3>. QED BY <2>2, <3>2, Constants DEF Shape
  <2>7. Ordered(n)
    BY <2>2, <2>5, Constants DEF Ordered
  <2>8. Partition(n, s) /\ Apart(n, s, {})
    BY <2>2, <2>5, Constants DEF Partition, Apart
  <2>9. Span(n, s) = 1 .. 1 + (HeapEnd - 1) - 1
    BY <2>2, <2>5, Constants DEF Span
  <2>10. Cardinality(Span(n, s)) = HeapEnd - 1
    <3>1. HeapEnd - 1 \in Nat /\ 1 \in Nat
      BY Constants
    <3>. QED BY ONLY <2>9, <3>1, IntervalSize
  <2>11. Owners(n, {}, NULL)
    BY <2>2, <2>4, <2>5 DEF Owners, Loose
  <2>. QED BY <2>1, <2>6, <2>7, <2>8, <2>10, <2>11 DEF Whole
<1>. QED BY <1>1, <1>2

LEMMA SpanIsFinite ==
  ASSUME NEW next, NEW size
  PROVE  IsFiniteSet(Span(next, size)) /\ Cardinality(Span(next, size)) \in Nat
         /\ Cardinality(Span(next, size)) <= HeapEnd - First
<1>1. IsFiniteSet(1 .. 1 + (HeapEnd - 1) - 1) /\ Cardinality(1 .. 1 + (HeapEnd - 1) - 1) = HeapEnd - 1
  <2>1. HeapEnd - 1 \in Nat /\ 1 \in Nat
    BY Constants
  <2>. QED BY ONLY <2>1, IntervalSize
<1>2. 1 .. 1 + (HeapEnd - 1) - 1 = First .. HeapEnd - 1
  BY Constants
<1>3. Span(next, size) \subseteq First .. HeapEnd - 1
  BY DEF Span
<1>4. /\ IsFiniteSet(Span(next, size))
      /\ Cardinality(Span(next, size)) <= Cardinality(First .. HeapEnd - 1)
  BY <1>1, <1>2, <1>3, FS_Subset
<1>. QED BY <1>1, <1>2, <1>4, Constants, FS_CardinalityType

(* What a union of two disjoint parts has. *)
LEMMA Parts ==
  ASSUME NEW S, NEW T, NEW U, IsFiniteSet(S), IsFiniteSet(T), U = S \cup T, S \cap T = {}
  PROVE  Cardinality(U) = Cardinality(S) + Cardinality(T)
<1>1. Cardinality(S \cup T) = Cardinality(S) + Cardinality(T) - Cardinality(S \cap T)
  BY FS_Union
<1>2. Cardinality(S \cap T) = 0
  BY FS_EmptySet
<1>3. Cardinality(S) \in Nat /\ Cardinality(T) \in Nat
  BY FS_CardinalityType
<1>. QED BY <1>1, <1>2, <1>3

LEMMA AreaSize ==
  ASSUME NEW next, NEW size, Shape(next, size), NEW block \in Held(next)
  PROVE  IsFiniteSet(Area(size, block)) /\ Cardinality(Area(size, block)) = size[block]
<1>1. block \in Nat /\ size[block] \in Nat
  BY Basics
<1>. QED BY ONLY <1>1, IntervalSize DEF Area

(* The units of a block that is not in the list are not free. *)
LEMMA LooseIsNotFree ==
  ASSUME NEW next, NEW size, Whole(next, size, {}), NEW block \in Loose(next)
  PROVE  Span(next, size) \cap Area(size, block) = {}
<1>1. Shape(next, size) /\ Partition(next, size)
  BY DEF Whole
<1>2. block \in Held(next) /\ block \in Nat /\ size[block] \in Nat /\ block \notin FreeBlocks(next)
  BY <1>1, Basics DEF Loose
<1>3. SUFFICES ASSUME NEW u \in First .. HeapEnd - 1, NEW b \in FreeBlocks(next),
                      b <= u, u < b + size[b], u \in Area(size, block)
               PROVE  FALSE
  BY DEF Span
<1>4. u \in Nat /\ block <= u /\ u < block + size[block]
  BY <1>2, <1>3, Constants DEF Area
<1>5. b \in Held(next) /\ b # block /\ b \in Nat /\ size[b] \in Nat
  BY <1>1, <1>2, Basics
<1>6. (b < block => b + size[b] <= block) /\ (block < b => block + size[block] <= b)
  BY <1>1, <1>2, <1>5 DEF Partition
<1>. QED BY <1>2, <1>3, <1>4, <1>5, <1>6

LEMMA Division ==
  ASSUME NEW a \in Nat, NEW u \in Nat \ {0}
  PROVE  a \div u \in Nat
OBVIOUS

LEMMA WantedType ==
  ASSUME NEW bytes \in Nat
  PROVE  Wanted(bytes) \in Nat \ {0}
<1>1. bytes + Unit - 1 \in Nat /\ Unit \in Nat \ {0}
  BY Constants
<1>2. (bytes + Unit - 1) \div Unit \in Nat
  BY ONLY <1>1, Division
<1> DEFINE units == (bytes + Unit - 1) \div Unit
<1> HIDE DEF units
<1>3. 1 + units \in Nat \ {0}
  BY <1>2 DEF units
<1>. QED BY <1>3 DEF units, Wanted

(* What is in Candidates is in the list, and large enough. *)
LEMMA CandidatesAre ==
  ASSUME NEW bytes \in Sizes, NEW block \in Candidates(bytes)
  PROVE  /\ bytes \in Nat /\ bytes > 0 /\ Wanted(bytes) \in Nat \ {0}
         /\ block \in FreeBlocks(Next0) /\ Wanted(bytes) <= Size0[block]
         /\ \A c \in FreeBlocks(Next0) : c < block => Size0[c] < Wanted(bytes)
<1>1. bytes \in Nat
  BY Constants
<1>2. Wanted(bytes) \in Nat \ {0}
  BY <1>1, WantedType
<1>3. bytes # 0 /\ block \in Fits(Next0, Size0, Wanted(bytes))
  BY DEF Candidates
<1>4. /\ block \in FreeBlocks(Next0) /\ Size0[block] >= Wanted(bytes)
      /\ \A c \in FreeBlocks(Next0) : c < block => Size0[c] < Wanted(bytes)
  BY <1>3 DEF Fits
<1>. QED BY <1>1, <1>2, <1>3, <1>4

LEMMA MallocKeeps ==
  ASSUME IInv, NEW bytes \in Sizes, Malloc(bytes)
  PROVE  IInv'
<1>1. PICK block \in Candidates(bytes) :
        LET heap == Taken(Next0, Size0, block, Wanted(bytes)) IN
        /\ pxEnd' = HeapEnd
        /\ pxNextFreeBlock' = heap.next
        /\ xBlockSize' = heap.size
        /\ xFreeBytesRemaining' = Free0 - Spent(Size0, heap.size, block)
        /\ xBlockAllocatedBit' = xBlockAllocatedBit \cup {block}
        /\ asked' = [b \in DOMAIN asked \cup {block} |-> IF b = block THEN bytes ELSE asked[b]]
        /\ UNCHANGED pxLink
  BY DEF Malloc
<1> DEFINE n == Next0
           s == Size0
           r == Taken(n, s, block, Wanted(bytes))
<1>2. /\ Whole(n, s, {}) /\ Owners(n, xBlockAllocatedBit, pxLink) /\ Free0 = Cardinality(Span(n, s))
      /\ \A b \in xBlockAllocatedBit : asked[b] > 0 /\ Wanted(asked[b]) <= s[b]
  BY BlankHeap
<1>3. /\ bytes \in Nat /\ bytes > 0 /\ Wanted(bytes) \in Nat \ {0}
      /\ block \in FreeBlocks(n) /\ Wanted(bytes) <= s[block]
  BY CandidatesAre
<1>4. /\ pxEnd' = HeapEnd /\ pxNextFreeBlock' = r.next /\ xBlockSize' = r.size
      /\ xFreeBytesRemaining' = Free0 - r.size[block]
      /\ xBlockAllocatedBit' = xBlockAllocatedBit \cup {block} /\ pxLink' = pxLink
      /\ asked' = [b \in DOMAIN asked \cup {block} |-> IF b = block THEN bytes ELSE asked[b]]
  BY <1>1 DEF Spent
<1> HIDE DEF n, s
<1>5. /\ Whole(r.next, r.size, {})
      /\ block \in Held(r.next) /\ r.next[block] = NULL /\ Wanted(bytes) <= r.size[block]
      /\ Span(n, s) = Span(r.next, r.size) \cup Area(r.size, block)
      /\ Span(r.next, r.size) \cap Area(r.size, block) = {}
      /\ Loose(r.next) = Loose(n) \cup {block}
      /\ \A x \in Loose(n) : r.size[x] = s[x]
  BY <1>2, <1>3, TakenKeeps
<1> HIDE DEF r
<1>6. Owners(r.next, xBlockAllocatedBit \cup {block}, pxLink)
  <2>1. pxLink # block
    <3>1. block # NULL /\ n[block] # NULL
      BY <1>2, <1>3, Basics, Constants DEF Whole
    <3>. QED BY <1>2, <3>1 DEF Owners, Loose
  <2>. QED BY <1>2, <1>5, <2>1 DEF Owners
<1>7. Free0 - r.size[block] = Cardinality(Span(r.next, r.size))
  <2>1. IsFiniteSet(Area(r.size, block)) /\ Cardinality(Area(r.size, block)) = r.size[block]
    BY <1>5, AreaSize DEF Whole
  <2>2. IsFiniteSet(Span(r.next, r.size)) /\ Cardinality(Span(r.next, r.size)) \in Nat
    BY SpanIsFinite
  <2>3. Cardinality(Span(n, s)) = Cardinality(Span(r.next, r.size)) + Cardinality(Area(r.size, block))
    BY <1>5, <2>1, <2>2, Parts
  <2>4. r.size[block] \in Nat
    BY <2>1, FS_CardinalityType
  <2>. QED BY <1>2, <2>1, <2>2, <2>3, <2>4
<1>8. /\ asked' \in [xBlockAllocatedBit' -> Sizes]
      /\ \A b \in xBlockAllocatedBit' : asked'[b] > 0 /\ Wanted(asked'[b]) <= xBlockSize'[b]
  <2>1. asked \in [xBlockAllocatedBit -> Sizes] /\ DOMAIN asked = xBlockAllocatedBit
    BY DEF IInv
  <2>2. \A b \in xBlockAllocatedBit : b \in Loose(n) /\ b # block
    <3>1. block \notin Loose(n)
      BY <1>3 DEF FreeBlocks, Loose
    <3>. QED BY <1>2, <3>1 DEF Owners
  <2>3. asked'[block] = bytes /\ \A b \in xBlockAllocatedBit : asked'[b] = asked[b]
    BY <1>4, <2>1, <2>2
  <2>4. asked' \in [xBlockAllocatedBit' -> Sizes]
    BY <1>4, <2>1
  <2>. QED BY <1>2, <1>3, <1>4, <1>5, <2>2, <2>3, <2>4
<1>9. HeapEnd # NULL
  BY Constants
<1>. QED BY <1>4, <1>5, <1>6, <1>7, <1>8, <1>9 DEF IInv

LEMMA MallocFailsKeeps ==
  ASSUME IInv, NEW bytes \in Sizes, MallocFails(bytes)
  PROVE  IInv'
<1>1. /\ Whole(Next0, Size0, {}) /\ Owners(Next0, xBlockAllocatedBit, pxLink)
      /\ Free0 = Cardinality(Span(Next0, Size0))
      /\ \A b \in xBlockAllocatedBit : asked[b] > 0 /\ Wanted(asked[b]) <= Size0[b]
  BY BlankHeap
<1>2. /\ pxEnd' = HeapEnd /\ pxNextFreeBlock' = Next0 /\ xBlockSize' = Size0
      /\ xFreeBytesRemaining' = Free0 /\ xBlockAllocatedBit' = xBlockAllocatedBit
      /\ pxLink' = pxLink /\ asked' = asked
  BY DEF MallocFails
<1>3. asked \in [xBlockAllocatedBit -> Sizes] /\ HeapEnd # NULL
  BY Constants DEF IInv
<1>. QED BY <1>1, <1>2, <1>3 DEF IInv

(* A block that is not in the list is put into it. *)
LEMMA InsertKeeps ==
  ASSUME IInv, pxEnd # NULL, NEW block \in Loose(pxNextFreeBlock), Insert(block)
  PROVE  /\ Whole(pxNextFreeBlock', xBlockSize', {})
         /\ xFreeBytesRemaining' = Cardinality(Span(pxNextFreeBlock', xBlockSize'))
         /\ Loose(pxNextFreeBlock') = Loose(pxNextFreeBlock) \ {block}
         /\ \A x \in Loose(pxNextFreeBlock') : xBlockSize'[x] = xBlockSize[x]
<1> DEFINE n == pxNextFreeBlock
           s == xBlockSize
           r == Inserted(n, s, block)
<1>1. Whole(n, s, {}) /\ xFreeBytesRemaining = Cardinality(Span(n, s))
  BY DEF IInv
<1>2. /\ pxNextFreeBlock' = r.next /\ xBlockSize' = r.size
      /\ xFreeBytesRemaining' = xFreeBytesRemaining + s[block]
  BY DEF Insert
<1>3. block \in Held(n) /\ n[block] = NULL
  BY DEF Loose
<1> HIDE DEF n, s
<1>4. /\ Whole(r.next, r.size, {})
      /\ Span(r.next, r.size) = Span(n, s) \cup Area(s, block)
      /\ Loose(r.next) = Loose(n) \ {block}
      /\ \A x \in Loose(r.next) : r.size[x] = s[x]
  BY <1>1, <1>3, InsertedKeeps
<1> HIDE DEF r
<1>5. xFreeBytesRemaining + s[block] = Cardinality(Span(r.next, r.size))
  <2>1. IsFiniteSet(Area(s, block)) /\ Cardinality(Area(s, block)) = s[block]
    BY <1>1, <1>3, AreaSize DEF Whole
  <2>2. IsFiniteSet(Span(n, s))
    BY SpanIsFinite
  <2>3. Span(n, s) \cap Area(s, block) = {}
    BY <1>1, LooseIsNotFree DEF n
  <2>4. Cardinality(Span(r.next, r.size)) = Cardinality(Span(n, s)) + Cardinality(Area(s, block))
    BY <1>4, <2>1, <2>2, <2>3, Parts
  <2>. QED BY <1>1, <2>1, <2>4
<1>. QED BY <1>2, <1>4, <1>5 DEF n, s

(* A block with an owner is one of the heap, outside of the list. *)
LEMMA OwnedIsLoose ==
  ASSUME IInv, NEW block \in xBlockAllocatedBit
  PROVE  pxEnd # NULL /\ block \in Loose(pxNextFreeBlock) /\ block # pxLink
<1>1. pxEnd # NULL
  BY DEF IInv, Blank
<1>. QED BY <1>1 DEF IInv, Owners

LEMMA FreeBeginKeeps ==
  ASSUME IInv, NEW block \in xBlockAllocatedBit, FreeBegin(block)
  PROVE  IInv'
<1>1. /\ pxLink = NULL /\ pxLink' = block
      /\ xBlockAllocatedBit' = xBlockAllocatedBit \ {block}
      /\ asked' = [b \in DOMAIN asked \ {block} |-> asked[b]]
      /\ UNCHANGED <<pxEnd, pxNextFreeBlock, xBlockSize, xFreeBytesRemaining>>
  BY DEF FreeBegin, Unmark
<1>2. pxEnd # NULL /\ block \in Loose(pxNextFreeBlock)
  BY OwnedIsLoose
<1>3. Owners(pxNextFreeBlock, xBlockAllocatedBit \ {block}, block)
  <2>1. block # NULL
    <3>1. block \in DOMAIN pxNextFreeBlock /\ Shape(pxNextFreeBlock, xBlockSize)
      BY <1>2 DEF Loose, Held, IInv, Whole
    <3>. QED BY <3>1, Basics, Constants
  <2>2. Loose(pxNextFreeBlock) = xBlockAllocatedBit
    BY <1>1, <1>2 DEF IInv, Owners
  <2>. QED BY <2>1, <2>2 DEF Owners
<1>4. /\ asked \in [xBlockAllocatedBit -> Sizes]
      /\ \A b \in xBlockAllocatedBit : asked[b] > 0 /\ Wanted(asked[b]) <= xBlockSize[b]
  BY DEF IInv
<1>5. /\ asked' \in [xBlockAllocatedBit' -> Sizes]
      /\ \A b \in xBlockAllocatedBit' : asked'[b] = asked[b] /\ b \in xBlockAllocatedBit
  BY <1>1, <1>4
<1>6. /\ pxEnd \in {NULL, HeapEnd} /\ Whole(pxNextFreeBlock, xBlockSize, {})
      /\ xFreeBytesRemaining = Cardinality(Span(pxNextFreeBlock, xBlockSize))
  BY <1>2 DEF IInv
<1>7. \A b \in xBlockAllocatedBit' : asked'[b] > 0 /\ Wanted(asked'[b]) <= xBlockSize'[b]
  BY <1>1, <1>4, <1>5
<1>. QED BY <1>1, <1>2, <1>3, <1>5, <1>6, <1>7 DEF IInv

LEMMA FreeEndKeeps ==
  ASSUME IInv, FreeEnd
  PROVE  IInv'
<1>1. /\ pxLink # NULL /\ Insert(pxLink) /\ pxLink' = NULL
      /\ UNCHANGED <<pxEnd, xBlockAllocatedBit, asked>>
  BY DEF FreeEnd
<1>2. pxEnd # NULL
  BY <1>1 DEF IInv, Blank
<1>3. /\ Owners(pxNextFreeBlock, xBlockAllocatedBit, pxLink)
      /\ asked \in [xBlockAllocatedBit -> Sizes] /\ pxEnd \in {NULL, HeapEnd}
      /\ \A b \in xBlockAllocatedBit : asked[b] > 0 /\ Wanted(asked[b]) <= xBlockSize[b]
  BY <1>2 DEF IInv
<1>4. pxLink \in Loose(pxNextFreeBlock)
  BY <1>1, <1>3 DEF Owners
<1>5. /\ Whole(pxNextFreeBlock', xBlockSize', {})
      /\ xFreeBytesRemaining' = Cardinality(Span(pxNextFreeBlock', xBlockSize'))
      /\ Loose(pxNextFreeBlock') = Loose(pxNextFreeBlock) \ {pxLink}
      /\ \A x \in Loose(pxNextFreeBlock') : xBlockSize'[x] = xBlockSize[x]
  BY <1>1, <1>2, <1>4, InsertKeeps
<1>6. NULL \notin xBlockAllocatedBit
  <2>1. NULL \notin DOMAIN pxNextFreeBlock
    BY <1>2, Basics, Constants DEF IInv, Whole
  <2>. QED BY <1>3, <2>1 DEF Owners, Loose, Held
<1>7. /\ Loose(pxNextFreeBlock') = xBlockAllocatedBit
      /\ Owners(pxNextFreeBlock', xBlockAllocatedBit, NULL)
  BY <1>3, <1>5, <1>6 DEF Owners
<1>8. \A b \in xBlockAllocatedBit : asked[b] > 0 /\ Wanted(asked[b]) <= xBlockSize'[b]
  BY <1>3, <1>5, <1>7
<1>. QED BY <1>1, <1>2, <1>3, <1>5, <1>7, <1>8 DEF IInv

LEMMA IsrFreeKeeps ==
  ASSUME IInv, NEW block \in xBlockAllocatedBit, IsrFree(block)
  PROVE  IInv'
<1>1. /\ Insert(block) /\ pxEnd' = pxEnd /\ pxLink' = pxLink
      /\ xBlockAllocatedBit' = xBlockAllocatedBit \ {block}
      /\ asked' = [b \in DOMAIN asked \ {block} |-> asked[b]]
  BY DEF IsrFree, Unmark
<1>2. pxEnd # NULL /\ block \in Loose(pxNextFreeBlock) /\ block # pxLink
  BY OwnedIsLoose
<1>3. /\ Owners(pxNextFreeBlock, xBlockAllocatedBit, pxLink)
      /\ asked \in [xBlockAllocatedBit -> Sizes] /\ pxEnd \in {NULL, HeapEnd}
      /\ \A b \in xBlockAllocatedBit : asked[b] > 0 /\ Wanted(asked[b]) <= xBlockSize[b]
  BY <1>2 DEF IInv
<1>4. /\ Whole(pxNextFreeBlock', xBlockSize', {})
      /\ xFreeBytesRemaining' = Cardinality(Span(pxNextFreeBlock', xBlockSize'))
      /\ Loose(pxNextFreeBlock') = Loose(pxNextFreeBlock) \ {block}
      /\ \A x \in Loose(pxNextFreeBlock') : xBlockSize'[x] = xBlockSize[x]
  BY <1>1, <1>2, InsertKeeps
<1>5. Owners(pxNextFreeBlock', xBlockAllocatedBit \ {block}, pxLink)
  BY <1>2, <1>3, <1>4 DEF Owners
<1>6. /\ asked' \in [xBlockAllocatedBit' -> Sizes]
      /\ \A b \in xBlockAllocatedBit' : asked'[b] = asked[b] /\ b \in xBlockAllocatedBit
  BY <1>1, <1>3
<1>7. \A b \in xBlockAllocatedBit' : b \in Loose(pxNextFreeBlock')
  BY <1>1, <1>5 DEF Owners
<1>8. \A b \in xBlockAllocatedBit' : asked'[b] > 0 /\ Wanted(asked'[b]) <= xBlockSize'[b]
  BY <1>3, <1>4, <1>6, <1>7
<1>. QED BY <1>1, <1>2, <1>3, <1>4, <1>5, <1>6, <1>8 DEF IInv

LEMMA InitIsSound == Init => IInv
<1> SUFFICES ASSUME Init PROVE IInv
  OBVIOUS
<1>1. asked \in [xBlockAllocatedBit -> Sizes] /\ xBlockAllocatedBit = {}
  BY DEF Init
<1>2. pxEnd = NULL /\ Blank
  BY DEF Init, Blank
<1>. QED BY <1>1, <1>2 DEF IInv

LEMMA StepIsSound == IInv /\ [Next]_vars => IInv'
<1> SUFFICES ASSUME IInv, [Next]_vars PROVE IInv'
  OBVIOUS
<1>1. CASE \E bytes \in Sizes : Malloc(bytes)
  BY <1>1, MallocKeeps
<1>2. CASE \E bytes \in Sizes : MallocFails(bytes)
  BY <1>2, MallocFailsKeeps
<1>3. CASE \E block \in xBlockAllocatedBit : FreeBegin(block)
  BY <1>3, FreeBeginKeeps
<1>4. CASE \E block \in xBlockAllocatedBit : IsrFree(block)
  BY <1>4, IsrFreeKeeps
<1>5. CASE FreeEnd
  BY <1>5, FreeEndKeeps
<1>6. CASE UNCHANGED vars
  BY <1>6 DEF IInv, Blank, vars
<1>. QED BY <1>1, <1>2, <1>3, <1>4, <1>5, <1>6 DEF Next

LEMMA InductiveInvariant == Spec => []IInv
BY InitIsSound, StepIsSound, PTL DEF Spec

-----------------------------------------------------------------------------
(* What the invariant says of the heap. *)

LEMMA FreeUnitsAre ==
  ASSUME IInv, pxEnd # NULL
  PROVE  FreeUnits = Span(pxNextFreeBlock, xBlockSize)
<1>1. Shape(pxNextFreeBlock, xBlockSize) /\ Partition(pxNextFreeBlock, xBlockSize)
  BY DEF IInv, Whole
<1>2. \A b \in Free : /\ b \in Nat /\ xBlockSize[b] \in Nat /\ 1 <= b
                      /\ b + xBlockSize[b] <= HeapEnd
  BY <1>1, Basics DEF Free, Partition
<1>3. \A u : \A b \in Free : u \in Units(b) <=> /\ u \in First .. HeapEnd - 1
                                               /\ b <= u /\ u < b + xBlockSize[b]
  BY <1>2, Constants DEF Units
<1>4. \A u : u \in FreeUnits <=> \E b \in Free : u \in Units(b)
  BY DEF FreeUnits
<1>5. \A u : u \in FreeUnits <=> u \in Span(pxNextFreeBlock, xBlockSize)
  BY <1>3, <1>4 DEF Span, Free
<1>. QED BY <1>5

LEMMA SoundTypes ==
  ASSUME IInv
  PROVE  TypeOK
<1>1. /\ pxEnd \in {NULL, HeapEnd} /\ asked \in [xBlockAllocatedBit -> Sizes]
  BY DEF IInv
<1>2. CASE pxEnd = NULL
  <2>1. Blank
    BY <1>2 DEF IInv
  <2>2. /\ DOMAIN pxNextFreeBlock = {} /\ xBlockAllocatedBit = {} /\ pxLink = NULL
        /\ xFreeBytesRemaining = 0
        /\ pxNextFreeBlock \in [{} -> (First .. HeapEnd) \cup {NULL}]
        /\ xBlockSize \in [{} -> 0 .. HeapEnd - First]
    BY <2>1 DEF Blank
  <2>. QED BY <1>1, <2>2, Constants DEF TypeOK
<1>3. CASE pxEnd # NULL
  <2>1. /\ Shape(pxNextFreeBlock, xBlockSize) /\ Owners(pxNextFreeBlock, xBlockAllocatedBit, pxLink)
        /\ xFreeBytesRemaining = Cardinality(Span(pxNextFreeBlock, xBlockSize))
    BY <1>3 DEF IInv, Whole
  <2>2. xFreeBytesRemaining \in 0 .. HeapEnd - First
    BY <2>1, SpanIsFinite, Constants
  <2>3. xBlockAllocatedBit \subseteq Blocks /\ pxLink \in Blocks \cup {NULL}
    BY <2>1 DEF Owners, Loose, Held, Blocks
  <2>. QED BY <1>1, <2>1, <2>2, <2>3 DEF Shape, TypeOK
<1>. QED BY <1>2, <1>3

LEMMA SoundList ==
  ASSUME IInv
  PROVE  ListInOrder
<1>1. pxEnd # NULL => Ordered(pxNextFreeBlock)
  BY DEF IInv, Whole
<1>. QED BY <1>1 DEF Ordered, ListInOrder, Ready, Free

LEMMA SoundBlocks ==
  ASSUME IInv
  PROVE  NothingLeaks
<1> SUFFICES ASSUME pxEnd # NULL
             PROVE  /\ UNION {Units(b) : b \in Blocks} = First .. HeapEnd - 1
                    /\ \A b, c \in Blocks : b # c => Units(b) \cap Units(c) = {}
                    /\ Blocks = Free \cup xBlockAllocatedBit \cup ({pxLink} \ {NULL})
                    /\ Free \cap xBlockAllocatedBit = {}
  BY DEF NothingLeaks, Ready
<1>1. /\ Shape(pxNextFreeBlock, xBlockSize) /\ Partition(pxNextFreeBlock, xBlockSize)
      /\ Owners(pxNextFreeBlock, xBlockAllocatedBit, pxLink)
  BY DEF IInv, Whole
<1>2. \A b \in Blocks : /\ b \in Nat /\ xBlockSize[b] \in Nat /\ 1 <= b
                        /\ b + xBlockSize[b] <= HeapEnd
  BY <1>1, Basics DEF Blocks, Held, Partition
<1>3. \A u : \A b \in Blocks : u \in Units(b) <=> /\ u \in First .. HeapEnd - 1
                                                 /\ b <= u /\ u < b + xBlockSize[b]
  BY <1>2, Constants DEF Units
<1>4. UNION {Units(b) : b \in Blocks} = First .. HeapEnd - 1
  <2>1. \A u : u \in First .. HeapEnd - 1 <=> \E b \in Blocks : u \in Units(b)
    BY <1>1, <1>3 DEF Partition, Blocks, Held
  <2>. QED BY <2>1
<1>5. ASSUME NEW b \in Blocks, NEW c \in Blocks, b # c PROVE Units(b) \cap Units(c) = {}
  <2>1. (b < c => b + xBlockSize[b] <= c) /\ (c < b => c + xBlockSize[c] <= b)
    BY <1>1 DEF Partition, Blocks, Held
  <2>2. b \in Nat /\ c \in Nat /\ xBlockSize[b] \in Nat /\ xBlockSize[c] \in Nat
    BY <1>2
  <2>3. SUFFICES ASSUME NEW u, u \in Units(b), u \in Units(c) PROVE FALSE
    OBVIOUS
  <2>4. u \in Int /\ b <= u /\ u < b + xBlockSize[b] /\ c <= u /\ u < c + xBlockSize[c]
    BY <2>2, <2>3 DEF Units
  <2>. QED BY <1>5, <2>1, <2>2, <2>4
<1>6. Blocks = Free \cup Loose(pxNextFreeBlock)
  BY <1>1, Basics DEF Blocks, Free, Loose, Held
<1>7. Free \cap Loose(pxNextFreeBlock) = {}
  BY DEF Free, FreeBlocks, Loose
<1>. QED BY <1>1, <1>4, <1>5, <1>6, <1>7 DEF Owners

LEMMA SoundCount ==
  ASSUME IInv
  PROVE  FreeBytesAreFree
<1> SUFFICES ASSUME pxEnd # NULL PROVE xFreeBytesRemaining = Cardinality(FreeUnits)
  BY DEF FreeBytesAreFree, Ready
<1>. QED BY FreeUnitsAre DEF IInv

(* The heap's structures are in order and account for all of its memory,   *)
(* and the number of free bytes is true, in every state that can be        *)
(* reached (pvPortMalloc, vPortFree, prvInsertBlockIntoFreeList).          *)
THEOREM HeapIsSound == Spec => []HeapInv
<1>1. IInv => HeapInv
  BY SoundTypes, SoundList, SoundBlocks, SoundCount DEF HeapInv
<1>. QED BY <1>1, InductiveInvariant, PTL

-----------------------------------------------------------------------------
(* An allocation fails only for want of a gap. *)

(* Where a gap begins there is a free block as large as the gap: the units *)
(* behind a smaller one would be those of a free block that touches it.    *)
LEMMA GapIsInABlock ==
  ASSUME NEW next, NEW size, Whole(next, size, {}), NEW wanted \in Nat \ {0},
         NEW at \in First .. HeapEnd - 1, at .. at + wanted - 1 \subseteq Span(next, size)
  PROVE  \E b \in FreeBlocks(next) : size[b] >= wanted
<1>1. Shape(next, size) /\ Ordered(next) /\ Partition(next, size) /\ Apart(next, size, {})
  BY DEF Whole
<1>2. at \in Nat
  BY Constants
<1>3. \A u \in Nat : at <= u /\ u < at + wanted =>
        \E b \in FreeBlocks(next) : b <= u /\ u < b + size[b]
  <2>1. \A u \in Nat : at <= u /\ u < at + wanted => u \in at .. at + wanted - 1
    BY <1>2
  <2>. QED BY <2>1 DEF Span
<1>4. PICK b \in FreeBlocks(next) : b <= at /\ at < b + size[b]
  <2>1. at < at + wanted /\ at <= at
    BY <1>2
  <2>. QED BY <1>2, <1>3, <2>1
<1>5. b \in Nat /\ size[b] \in Nat /\ b \in Held(next) /\ next[b] # NULL /\ next[b] \in Nat
  BY <1>1, Basics
<1>6. ASSUME size[b] < wanted PROVE FALSE
  <2>1. PICK c \in FreeBlocks(next) : c <= b + size[b] /\ b + size[b] < c + size[c]
    <3>1. b + size[b] \in Nat /\ at <= b + size[b] /\ b + size[b] < at + wanted
      BY <1>2, <1>4, <1>5, <1>6
    <3>. QED BY <1>3, <3>1
  <2>2. c \in Nat /\ size[c] \in Nat /\ c \in Held(next) /\ c < HeapEnd
    BY <1>1, Basics
  <2>3. (b < c => b + size[b] <= c) /\ (c < b => c + size[c] <= b)
    BY <1>1, <1>5, <2>2 DEF Partition
  <2>4. b < c /\ c = b + size[b]
    <3>1. c # b
      BY <1>5, <2>1
    <3>2. ~(c < b)
      BY <1>5, <2>1, <2>2, <2>3
    <3>. QED BY <1>5, <2>1, <2>2, <2>3, <3>1, <3>2
  <2>5. next[b] <= c
    <3>1. c <= b \/ next[b] <= c
      BY <1>1 DEF Ordered
    <3>. QED BY <1>5, <2>2, <2>4, <3>1
  <2>6. next[b] = HeapEnd \/ b + size[b] < next[b]
    BY <1>1 DEF Apart
  <2>. QED BY <1>5, <2>2, <2>4, <2>5, <2>6, Constants
<1>. QED BY <1>5, <1>6

(* A caller is turned away only if no gap of free memory is large enough:  *)
(* what pvPortMalloc finds in its list is all there is, since free blocks  *)
(* next to each other are one.                                             *)
THEOREM FailsForWantOfAGap == Spec => []FailsOnlyWithoutGap
<1>1. IInv => FailsOnlyWithoutGap
  <2> SUFFICES ASSUME IInv, pxEnd # NULL, NEW bytes \in Sizes \ {0}, Candidates(bytes) = {},
                      NEW at \in First .. HeapEnd - 1, Gap(at, Wanted(bytes))
               PROVE  FALSE
    BY DEF FailsOnlyWithoutGap, Ready
  <2> DEFINE next == pxNextFreeBlock
             size == xBlockSize
             w == Wanted(bytes)
  <2>1. Next0 = next /\ Size0 = size /\ Free0 = xFreeBytesRemaining
    BY DEF Next0, Size0, Free0
  <2>2. /\ Whole(next, size, {}) /\ xFreeBytesRemaining = Cardinality(Span(next, size))
    BY DEF IInv
  <2>3. w \in Nat \ {0} /\ at \in Nat
    BY WantedType, Constants
  <2>4. at .. at + w - 1 \subseteq Span(next, size)
    BY FreeUnitsAre DEF Gap
  <2>5. w > xFreeBytesRemaining \/ Fits(next, size, w) = {}
    BY <2>1 DEF Candidates
  <2> HIDE DEF next, size, w
  <2>6. CASE w > xFreeBytesRemaining
    <3>1. IsFiniteSet(at .. at + w - 1) /\ Cardinality(at .. at + w - 1) = w
      BY ONLY <2>3, IntervalSize
    <3>2. IsFiniteSet(Span(next, size)) /\ Cardinality(Span(next, size)) \in Nat
      BY SpanIsFinite
    <3>3. Cardinality(at .. at + w - 1) <= Cardinality(Span(next, size))
      BY <2>4, <3>2, FS_Subset
    <3>. QED BY <2>2, <2>3, <2>6, <3>1, <3>2, <3>3
  <2>7. CASE Fits(next, size, w) = {}
    <3> DEFINE S == {b \in FreeBlocks(next) : size[b] >= w}
    <3>1. S # {}
      BY <2>2, <2>3, <2>4, GapIsInABlock
    <3>2. \A b \in FreeBlocks(next) : b \in Nat /\ size[b] \in Nat
      BY <2>2, Basics DEF Whole
    <3>3. \A b \in S : b \in Nat
      BY <3>2
    <3>4. PICK b \in S : \A c \in S : b <= c
      <4> HIDE DEF S
      <4>1. S \in SUBSET Nat
        BY <3>3
      <4>. QED BY <3>1, <4>1, Least
    <3>5. \A c \in FreeBlocks(next) : c < b => size[c] < w
      <4> SUFFICES ASSUME NEW c \in FreeBlocks(next), c < b, ~(size[c] < w) PROVE FALSE
        OBVIOUS
      <4>1. c \in Nat /\ b \in Nat /\ size[c] \in Nat
        BY <3>2
      <4>2. c \in S
        BY <2>3, <4>1
      <4>. QED BY <3>4, <4>1, <4>2
    <3>. QED BY <2>7, <3>4, <3>5 DEF Fits
  <2>. QED BY <2>5, <2>6, <2>7
<1>. QED BY <1>1, InductiveInvariant, PTL

-----------------------------------------------------------------------------
(* The heap implements the allocator. *)

LEMMA Quotient ==
  ASSUME NEW a \in Nat, NEW u \in Nat \ {0}
  PROVE  (a * u) \div u = a
<1> DEFINE q == (a * u) \div u
<1>1. a * u \in Nat
  OBVIOUS
<1>2. q \in Nat /\ q * u <= a * u /\ a * u < (q + 1) * u
  BY <1>1
<1> HIDE DEF q
<1>3. ~(q < a)
  <2>1. SUFFICES ASSUME q + 1 <= a PROVE (q + 1) * u <= a * u
    BY <1>1, <1>2
  <2>. QED BY <1>2, <2>1
<1>4. ~(a < q)
  <2>1. SUFFICES ASSUME a + 1 <= q PROVE (a + 1) * u <= q * u /\ (a + 1) * u = a * u + u
    BY <1>1, <1>2
  <2>. QED BY <1>2, <2>1
<1>5. q = a
  BY <1>2, <1>3, <1>4
<1>. QED BY <1>5 DEF q

LEMMA RoundedUp ==
  ASSUME NEW n \in Nat, NEW u \in Nat \ {0}
  PROVE  n <= ((n + u - 1) \div u) * u
<1> DEFINE m == n + u - 1
           q == m \div u
<1>1. m \in Nat
  OBVIOUS
<1> HIDE DEF m
<1>2. q \in Nat /\ m < q * u + u
  BY <1>1
<1> HIDE DEF q
<1>3. q * u \in Nat
  BY <1>2
<1> DEFINE p == q * u
<1> HIDE DEF p
<1>4. n <= p
  BY <1>1, <1>2, <1>3 DEF m, p
<1>. QED BY <1>4 DEF p, q, m

LEMMA Scaled ==
  ASSUME NEW a \in Nat, NEW b \in Nat, NEW u \in Nat \ {0}, a <= b
  PROVE  a * u \in Nat /\ b * u \in Nat /\ a * u <= b * u
OBVIOUS

LEMMA Distributed ==
  ASSUME NEW a \in Nat, NEW b \in Nat, NEW u \in Nat
  PROVE  (a + b) * u = a * u + b * u
OBVIOUS

(* The bytes that the owner of a block gets lie behind its structure, and  *)
(* inside the block.                                                       *)
LEMMA BytesInBlock ==
  ASSUME NEW b \in Nat, NEW length \in Nat, NEW bytes \in Nat, 0 < bytes, Wanted(bytes) <= length
  PROVE  /\ Pointer(b) \in Nat /\ b * Unit + Unit = Pointer(b) /\ b * Unit \in Nat
         /\ (b + length) * Unit \in Nat /\ Pointer(b) + bytes <= (b + length) * Unit
<1>1. Unit \in Nat \ {0}
  BY Constants
<1> DEFINE q == (bytes + Unit - 1) \div Unit
<1>2. bytes + Unit - 1 \in Nat /\ q \in Nat
  <2>1. bytes + Unit - 1 \in Nat
    BY <1>1
  <2>. QED BY ONLY <1>1, <2>1, Division
<1>3. bytes <= q * Unit
  BY ONLY <1>1, RoundedUp
<1>4. Wanted(bytes) = 1 + q
  BY DEF Wanted
<1> HIDE DEF q
<1>5. b + 1 \in Nat /\ b + 1 + q \in Nat /\ b + length \in Nat /\ b + 1 + q <= b + length
  BY <1>2, <1>4
<1>6. /\ (b + 1 + q) * Unit <= (b + length) * Unit
      /\ (b + 1 + q) * Unit \in Nat /\ (b + length) * Unit \in Nat
  BY ONLY <1>1, <1>5, Scaled
<1>7. (b + 1 + q) * Unit = (b + 1) * Unit + q * Unit
  BY ONLY <1>1, <1>2, <1>5, Distributed
<1>8. (b + 1) * Unit = b * Unit + 1 * Unit /\ 1 * Unit = Unit
  <2>1. 1 \in Nat /\ Unit \in Nat
    BY <1>1
  <2>2. (b + 1) * Unit = b * Unit + 1 * Unit
    BY ONLY <2>1, Distributed
  <2>3. 1 * Unit = Unit
    BY <2>1
  <2>. QED BY <2>2, <2>3
<1>9. q * Unit \in Nat /\ b * Unit \in Nat /\ (b + 1) * Unit \in Nat
  BY <1>1, <1>2, <1>5
<1> DEFINE x == q * Unit
           y == (b + 1) * Unit
           z == (b + length) * Unit
           v == b * Unit
<1>10. bytes <= x /\ y + x <= z /\ y = v + Unit /\ x \in Nat /\ y \in Nat /\ z \in Nat /\ v \in Nat
  BY <1>3, <1>6, <1>7, <1>8, <1>9
<1> HIDE DEF x, y, z, v
<1>11. y + bytes <= z /\ v + Unit = y
  BY <1>10
<1>. QED BY <1>10, <1>11 DEF x, y, z, v, Pointer

(* The bytes of two blocks, one behind the other. *)
LEMMA BytesApart ==
  ASSUME NEW b \in Nat, NEW length \in Nat, NEW bytes \in Nat, 0 < bytes, Wanted(bytes) <= length,
         NEW c \in Nat, NEW more \in Nat, b + length <= c
  PROVE  Promise!Bytes(Pointer(b), bytes) \cap Promise!Bytes(Pointer(c), more) = {}
<1>1. Pointer(b) \in Nat /\ Pointer(b) + bytes <= (b + length) * Unit /\ (b + length) * Unit \in Nat
  BY BytesInBlock
<1>2. (b + length) * Unit <= Pointer(c) /\ Pointer(c) \in Nat
  <2>1. Unit \in Nat \ {0} /\ b + length \in Nat /\ c + 1 \in Nat /\ b + length <= c + 1
    BY Constants
  <2>. QED BY ONLY <2>1, Scaled DEF Pointer
<1> DEFINE x == Pointer(b)
           y == Pointer(c)
<1>3. x \in Nat /\ y \in Nat /\ x + bytes <= y
  BY <1>1, <1>2
<1> HIDE DEF x, y
<1>4. (x .. x + bytes - 1) \cap (y .. y + more - 1) = {}
  BY <1>3
<1>. QED BY <1>4 DEF x, y, Promise!Bytes

LEMMA PointersDiffer ==
  ASSUME NEW b \in Nat, NEW c \in Nat
  PROVE  /\ (Pointer(b) \div Unit) - 1 = b
         /\ Pointer(b) = Pointer(c) => b = c
<1>1. Unit \in Nat \ {0} /\ b + 1 \in Nat /\ c + 1 \in Nat
  BY Constants
<1>2. Pointer(b) \div Unit = b + 1
  BY ONLY <1>1, Quotient DEF Pointer
<1>3. Pointer(c) \div Unit = c + 1
  BY ONLY <1>1, Quotient DEF Pointer
<1>. QED BY <1>2, <1>3

(* Owned, of the blocks and the sizes that were asked for. *)
Owning(blocks, sizes) == [p \in {Pointer(b) : b \in blocks} |-> sizes[(p \div Unit) - 1]]

LEMMA OwningIs ==
  ASSUME NEW blocks \in SUBSET Nat, NEW sizes
  PROVE  /\ DOMAIN Owning(blocks, sizes) = {Pointer(b) : b \in blocks}
         /\ \A b \in blocks : Owning(blocks, sizes)[Pointer(b)] = sizes[b]
         /\ Owning(blocks, sizes) = [p \in {Pointer(b) : b \in blocks} |-> Owning(blocks, sizes)[p]]
<1>1. \A b \in blocks : b \in Nat
  OBVIOUS
<1>2. \A b \in blocks : (Pointer(b) \div Unit) - 1 = b
  BY <1>1, PointersDiffer
<1>. QED BY <1>2 DEF Owning

LEMMA OwnedNow ==
  ASSUME xBlockAllocatedBit \in SUBSET Nat
  PROVE  /\ DOMAIN Owned = {Pointer(b) : b \in xBlockAllocatedBit}
         /\ \A b \in xBlockAllocatedBit : Owned[Pointer(b)] = asked[b]
<1>1. Owned = Owning(xBlockAllocatedBit, asked)
  BY DEF Owned, Owning
<1>. QED BY <1>1, OwningIs

LEMMA OwnedNext ==
  ASSUME xBlockAllocatedBit' \in SUBSET Nat
  PROVE  /\ DOMAIN Owned' = {Pointer(b) : b \in xBlockAllocatedBit'}
         /\ \A b \in xBlockAllocatedBit' : Owned'[Pointer(b)] = asked'[b]
         /\ Owned' = [p \in {Pointer(b) : b \in xBlockAllocatedBit'} |-> Owned'[p]]
<1>1. Owned' = Owning(xBlockAllocatedBit', asked')
  BY DEF Owned, Owning
<1>. QED BY <1>1, OwningIs

(* What the invariant says of an owner's block, in this state and the next. *)
OwnersBlock(b, next, size, bytes) ==
  /\ b \in Held(next) /\ b \in Nat /\ size[b] \in Nat /\ b + size[b] <= HeapEnd
  /\ bytes \in Nat /\ 0 < bytes /\ Wanted(bytes) <= size[b]

LEMMA OwnersBlocks ==
  ASSUME NEW next, NEW size, NEW allocated, NEW link, NEW sizes,
         Whole(next, size, {}), Owners(next, allocated, link), sizes \in [allocated -> Sizes],
         \A b \in allocated : sizes[b] > 0 /\ Wanted(sizes[b]) <= size[b]
  PROVE  /\ \A b \in allocated : OwnersBlock(b, next, size, sizes[b])
         /\ allocated \in SUBSET Nat
<1>1. Shape(next, size) /\ Partition(next, size)
  BY DEF Whole
<1>2. \A b \in allocated : b \in Held(next) /\ b \in Nat /\ size[b] \in Nat
  BY <1>1, Basics DEF Owners, Loose
<1>3. \A b \in allocated : b + size[b] <= HeapEnd
  BY <1>1, <1>2 DEF Partition
<1>4. \A b \in allocated : sizes[b] \in Nat
  BY Constants
<1>. QED BY <1>2, <1>3, <1>4 DEF OwnersBlock

LEMMA OwnersNow ==
  ASSUME IInv
  PROVE  /\ \A b \in xBlockAllocatedBit :
              OwnersBlock(b, pxNextFreeBlock, xBlockSize, asked[b])
         /\ xBlockAllocatedBit \in SUBSET Nat
<1>1. CASE pxEnd = NULL
  BY <1>1 DEF IInv, Blank
<1>2. CASE pxEnd # NULL
  BY <1>2, OwnersBlocks DEF IInv
<1>. QED BY <1>1, <1>2

LEMMA OwnersNext ==
  ASSUME IInv'
  PROVE  /\ \A b \in xBlockAllocatedBit' :
              OwnersBlock(b, pxNextFreeBlock', xBlockSize', asked'[b])
         /\ xBlockAllocatedBit' \in SUBSET Nat
<1>1. CASE pxEnd' = NULL
  BY <1>1 DEF IInv, Blank
<1>2. CASE pxEnd' # NULL
  BY <1>2, OwnersBlocks DEF IInv
<1>. QED BY <1>1, <1>2

LEMMA MallocAllocates ==
  ASSUME IInv, IInv', NEW bytes \in Sizes, Malloc(bytes)
  PROVE  \E at \in Unit .. HeapEnd * Unit - 1 : Promise!Allocate(at, bytes)
<1>1. PICK block \in Candidates(bytes) :
        /\ xBlockAllocatedBit' = xBlockAllocatedBit \cup {block}
        /\ asked' = [b \in DOMAIN asked \cup {block} |-> IF b = block THEN bytes ELSE asked[b]]
  BY DEF Malloc
<1> DEFINE old == xBlockAllocatedBit
           new == xBlockAllocatedBit'
           next == pxNextFreeBlock'
           size == xBlockSize'
           sizes == asked'
           at == Pointer(block)
<1>2. /\ old \in SUBSET Nat /\ new \in SUBSET Nat /\ new = old \cup {block}
      /\ \A b \in new : OwnersBlock(b, next, size, sizes[b])
  BY <1>1, OwnersNow, OwnersNext
<1>3. Partition(next, size)
  <2>1. pxEnd' # NULL
    BY <1>1 DEF IInv, Blank
  <2>. QED BY <2>1 DEF IInv, Whole
<1>4. block \notin old /\ sizes[block] = bytes /\ \A b \in old : sizes[b] = asked[b] /\ b # block
  <2>1. block \in FreeBlocks(Next0)
    BY CandidatesAre
  <2>2. Owners(Next0, xBlockAllocatedBit, pxLink)
    BY BlankHeap
  <2>3. block \notin old
    BY <2>1, <2>2 DEF FreeBlocks, Owners, Loose
  <2>4. DOMAIN asked = old
    BY DEF IInv
  <2>. QED BY <1>1, <2>3, <2>4
<1>5. /\ DOMAIN Owned = {Pointer(b) : b \in old} /\ \A b \in old : Owned[Pointer(b)] = asked[b]
      /\ DOMAIN Owned' = {Pointer(b) : b \in new} /\ \A b \in new : Owned'[Pointer(b)] = sizes[b]
      /\ Owned' = [p \in {Pointer(b) : b \in new} |-> Owned'[p]]
  BY <1>2, OwnedNow, OwnedNext
<1>6. OwnersBlock(block, next, size, bytes)
  BY <1>2, <1>4
<1> HIDE DEF old, new, next, size, sizes, at
<1>7. /\ Promise!Bytes(at, bytes) \subseteq Unit .. HeapEnd * Unit - 1
      /\ at \in Unit .. HeapEnd * Unit - 1
  <2>1. /\ block \in Nat /\ size[block] \in Nat /\ block + size[block] <= HeapEnd
        /\ bytes \in Nat /\ 0 < bytes /\ Wanted(bytes) <= size[block]
    BY <1>6 DEF OwnersBlock
  <2>2. /\ at \in Nat /\ block * Unit + Unit = at /\ block * Unit \in Nat
        /\ (block + size[block]) * Unit \in Nat /\ at + bytes <= (block + size[block]) * Unit
    BY <2>1, BytesInBlock DEF at
  <2>3. (block + size[block]) * Unit <= HeapEnd * Unit /\ HeapEnd * Unit \in Nat
    <3>1. block + size[block] \in Nat /\ HeapEnd \in Nat /\ Unit \in Nat \ {0}
      BY <2>1, Constants
    <3>. QED BY ONLY <2>1, <3>1, Scaled
  <2> DEFINE x == block * Unit
             y == (block + size[block]) * Unit
             z == HeapEnd * Unit
  <2>4. /\ x \in Nat /\ x + Unit = at /\ at + bytes <= y /\ y <= z /\ y \in Nat /\ z \in Nat
        /\ at \in Nat /\ bytes \in Nat /\ 0 < bytes /\ Unit \in Nat
    BY <2>1, <2>2, <2>3, Constants
  <2> HIDE DEF x, y, z
  <2>5. (at .. at + bytes - 1) \subseteq Unit .. z - 1 /\ at \in Unit .. z - 1
    BY <2>4
  <2>. QED BY <2>5 DEF z, Promise!Bytes
<1>8. \A other \in DOMAIN Owned : Promise!Bytes(other, Owned[other]) \cap Promise!Bytes(at, bytes) = {}
  <2> SUFFICES ASSUME NEW b \in old
               PROVE  Promise!Bytes(Pointer(b), asked[b]) \cap Promise!Bytes(at, bytes) = {}
    BY <1>5
  <2>1. OwnersBlock(b, next, size, asked[b]) /\ b # block
    BY <1>2, <1>4
  <2>2. /\ b \in Held(next) /\ block \in Held(next) /\ b \in Nat /\ block \in Nat
        /\ size[b] \in Nat /\ size[block] \in Nat
    BY <1>6, <2>1 DEF OwnersBlock
  <2>3. b + size[b] <= block \/ block + size[block] <= b
    BY <1>3, <2>1, <2>2 DEF Partition
  <2>4. CASE b + size[b] <= block
    BY <1>6, <2>1, <2>4, BytesApart DEF OwnersBlock, at
  <2>5. CASE block + size[block] <= b
    <3>1. Promise!Bytes(at, bytes) \cap Promise!Bytes(Pointer(b), asked[b]) = {}
      BY <1>6, <2>1, <2>5, BytesApart DEF OwnersBlock, at
    <3>. QED BY <3>1
  <2>. QED BY <2>3, <2>4, <2>5
<1>9. Owned' = [p \in DOMAIN Owned \cup {at} |-> IF p = at THEN bytes ELSE Owned[p]]
  <2>1. DOMAIN Owned' = DOMAIN Owned \cup {at} /\ \A p \in DOMAIN Owned' : \E b \in new : p = Pointer(b)
    BY <1>2, <1>5 DEF at
  <2>2. \A b \in old : Pointer(b) # at
    <3>1. block \in Nat /\ \A b \in old : b \in Nat
      BY <1>2, <1>6 DEF OwnersBlock
    <3>. QED BY <1>4, <3>1, PointersDiffer DEF at
  <2>3. \A b \in new : Owned'[Pointer(b)] = IF Pointer(b) = at THEN bytes ELSE Owned[Pointer(b)]
    BY <1>2, <1>4, <1>5, <2>2 DEF at
  <2>4. \A p \in DOMAIN Owned \cup {at} : Owned'[p] = IF p = at THEN bytes ELSE Owned[p]
    BY <2>1, <2>3
  <2>5. Owned' = [p \in DOMAIN Owned' |-> Owned'[p]]
    BY <1>5
  <2>. QED BY <2>1, <2>4, <2>5
<1>. QED BY <1>7, <1>8, <1>9 DEF Promise!Allocate

LEMMA UnmarkReleases ==
  ASSUME IInv, NEW block \in xBlockAllocatedBit, Unmark(block)
  PROVE  Pointer(block) \in DOMAIN Owned /\ Promise!Release(Pointer(block))
<1>1. /\ xBlockAllocatedBit' = xBlockAllocatedBit \ {block}
      /\ asked' = [b \in DOMAIN asked \ {block} |-> asked[b]]
  BY DEF Unmark
<1> DEFINE old == xBlockAllocatedBit
           new == xBlockAllocatedBit'
           sizes == asked'
           at == Pointer(block)
<1>2. old \in SUBSET Nat /\ new \in SUBSET Nat /\ new = old \ {block}
  BY <1>1, OwnersNow
<1>3. \A b \in new : sizes[b] = asked[b]
  <2>1. DOMAIN asked = old
    BY DEF IInv
  <2>. QED BY <1>1, <2>1
<1>4. /\ DOMAIN Owned = {Pointer(b) : b \in old} /\ \A b \in old : Owned[Pointer(b)] = asked[b]
      /\ DOMAIN Owned' = {Pointer(b) : b \in new} /\ \A b \in new : Owned'[Pointer(b)] = sizes[b]
      /\ Owned' = [p \in {Pointer(b) : b \in new} |-> Owned'[p]]
  BY <1>2, OwnedNow, OwnedNext
<1> HIDE DEF old, new, sizes, at
<1>6. \A b \in new : Pointer(b) # at
  <2>1. block \in Nat /\ \A b \in new : b \in Nat /\ b # block
    BY <1>2 DEF old
  <2>. QED BY <2>1, PointersDiffer DEF at
<1>7. DOMAIN Owned' = DOMAIN Owned \ {at}
  BY <1>2, <1>4, <1>6 DEF at
<1>8. \A p \in DOMAIN Owned \ {at} : Owned'[p] = Owned[p]
  BY <1>2, <1>3, <1>4, <1>7
<1>9. Owned' = [p \in DOMAIN Owned' |-> Owned'[p]]
  BY <1>4
<1>10. Owned' = [p \in DOMAIN Owned \ {at} |-> Owned[p]]
  BY <1>7, <1>8, <1>9
<1>11. at \in DOMAIN Owned
  BY <1>4 DEF at, old
<1>. QED BY <1>10, <1>11 DEF at, Promise!Release

(* The heap keeps the allocator's promise: whatever the links are, and     *)
(* wherever an interrupt comes in, each owner's bytes are of the size that *)
(* was asked for, inside the heap and nobody else's, until it frees them.  *)
THEOREM HeapImplementsAllocator == Spec => KeepsPromise
<1>1. Init => Promise!Init
  <2> SUFFICES ASSUME Init PROVE Promise!Init
    OBVIOUS
  <2>1. xBlockAllocatedBit = {}
    BY DEF Init
  <2>. QED BY <2>1 DEF Owned, Promise!Init
<1>2. IInv /\ IInv' /\ [Next]_vars => [Promise!Next]_Owned
  <2> SUFFICES ASSUME IInv, IInv', [Next]_vars PROVE Promise!Next \/ Owned' = Owned
    OBVIOUS
  <2>1. ASSUME NEW bytes \in Sizes, Malloc(bytes) PROVE Promise!Next
    BY <2>1, MallocAllocates DEF Promise!Next
  <2>2. ASSUME NEW block \in xBlockAllocatedBit, Unmark(block) PROVE Promise!Next
    BY <2>2, UnmarkReleases DEF Promise!Next
  <2>3. ASSUME xBlockAllocatedBit' = xBlockAllocatedBit, asked' = asked PROVE Owned' = Owned
    BY <2>3 DEF Owned
  <2>4. CASE \E bytes \in Sizes : MallocFails(bytes)
    BY <2>3, <2>4 DEF MallocFails
  <2>5. CASE \E block \in xBlockAllocatedBit : FreeBegin(block) \/ IsrFree(block)
    BY <2>2, <2>5 DEF FreeBegin, IsrFree
  <2>6. CASE FreeEnd
    BY <2>3, <2>6 DEF FreeEnd
  <2>7. CASE UNCHANGED vars
    BY <2>3, <2>7 DEF vars
  <2>. QED BY <2>1, <2>4, <2>5, <2>6, <2>7 DEF Next
<1>. QED BY <1>1, <1>2, InductiveInvariant, PTL DEF Spec, KeepsPromise, Promise!Spec
=============================================================================
