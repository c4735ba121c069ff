---------------------------- MODULE TimerProofs ----------------------------
(***************************************************************************)
(* Theorems about the software timers (TaskTimer.tla), for any number of   *)
(* timers and any periods.                                                 *)
(***************************************************************************)
EXTENDS TaskTimer, FiniteSetTheorems, FunctionTheorems, TLAPS

(* The links make a chain of n timers: s gives them in the order in which  *)
(* the walk comes to them.  They are the initialised ones, each once.      *)
Chain(n, s, head, links, all) ==
  /\ s \in [1 .. n -> Timers]
  /\ \A i, j \in 1 .. n : s[i] = s[j] => i = j
  /\ head = IF n = 0 THEN NULL ELSE s[1]
  /\ \A i \in 1 .. n : links[s[i]] = IF i = n THEN NULL ELSE s[i + 1]
  /\ all = {s[i] : i \in 1 .. n}

Chained ==
  \E n \in 0 .. Cardinality(Timers) : \E s \in [1 .. n -> Timers] :
    Chain(n, s, timer_list, next, initialised)

(* The inductive invariant. *)
IInv == TypeOK /\ InTime /\ Chained

-----------------------------------------------------------------------------
(* Numbers and sequences. *)

LEMMA Many == Cardinality(Timers) \in Nat /\ IsFiniteSet(Timers)
BY TimerAssumption, FS_CardinalityType

(* An injective enumeration has no more elements than there are timers. *)
LEMMA ChainBound ==
  ASSUME NEW n \in Nat, NEW s \in [1 .. n -> Timers],
         \A i, j \in 1 .. n : s[i] = s[j] => i = j
  PROVE  n <= Cardinality(Timers)
<1>1. s \in Injection(1 .. n, Timers)
  BY DEF Injection, IsInjective
<1>2. Cardinality(1 .. n) <= Cardinality(Timers)
  BY <1>1, Many, FS_Injection
<1>3. Cardinality(1 .. n) = n
  BY FS_Interval
<1>. QED BY <1>2, <1>3

(* Every set of numbers that is not empty has a least. *)
LEMMA Least ==
  ASSUME NEW S \in SUBSET Nat, S # {}
  PROVE  \E x \in S : \A y \in S : x <= y
<1> DEFINE Below(x) == {y \in S : y < x}
           T == {Below(x) : x \in S}
<1>0. \A x \in S : x \in Nat
  OBVIOUS
<1>b. \A x : Below(x) \subseteq S /\ \A y : y \in Below(x) <=> y \in S /\ y < x
  OBVIOUS
<1> HIDE DEF Below
<1>1. T \subseteq FiniteSubsetsOf(S) /\ T # {}
  <2>1. \A x \in S : Below(x) \in FiniteSubsetsOf(S)
    <3> SUFFICES ASSUME NEW x \in S PROVE Below(x) \in FiniteSubsetsOf(S)
      OBVIOUS
    <3>1. Below(x) \in SUBSET (0 .. x) /\ Below(x) \in SUBSET S
      <4>0. x \in Nat /\ \A y \in S : y < x => y \in 0 .. x
        BY <1>0
      <4>1. \A y \in Below(x) : y \in 0 .. x
        BY <1>b, <4>0
      <4>. QED BY <1>b, <4>1
    <3>2. IsFiniteSet(0 .. x)
      BY <1>0, FS_Interval
    <3>3. IsFiniteSet(Below(x))
      BY <3>1, <3>2, FS_Subset
    <3>. QED BY <3>1, <3>3 DEF FiniteSubsetsOf
  <2>. QED BY <2>1
<1> HIDE DEF T
<1>2. PICK U \in T : \A V \in T : ~(<<V, U>> \in StrictSubsetOrdering(S))
  BY <1>1, FS_StrictSubsetOrderingWellFounded, WFMin
<1>3. PICK x \in S : U = Below(x)
  BY DEF T
<1>4. ASSUME NEW y \in S, y < x PROVE FALSE
  <2>1. /\ Below(y) \subseteq Below(x) /\ y \in Below(x) /\ y \notin Below(y)
        /\ Below(y) \in SUBSET S /\ Below(x) \in SUBSET S
    <3>1. x \in Nat /\ y \in Nat /\ \A z \in S : z < y => z < x
      BY <1>0, <1>4
    <3>2. ~(y < y)
      BY <3>1
    <3>. QED BY <1>b, <1>4, <3>1, <3>2
  <2>2. Below(y) \in T
    BY DEF T
  <2> HIDE DEF T
  <2>3. <<Below(y), Below(x)>> \in StrictSubsetOrdering(S)
    BY <2>1 DEF StrictSubsetOrdering
  <2>. QED BY <1>2, <1>3, <2>2, <2>3
<1>. QED BY <1>4

-----------------------------------------------------------------------------
(* The walk. *)

(* Element is what its definition says of it: the chain's own elements     *)
(* satisfy the recursion, and what satisfies it is unique.                 *)
LEMMA ElementIs ==
  ASSUME NEW n \in Nat, NEW s, Chain(n, s, timer_list, next, initialised)
  PROVE  /\ n <= Cardinality(Timers)
         /\ Element = [i \in 0 .. Cardinality(Timers) |-> IF i < n THEN s[i + 1] ELSE NULL]
<1> DEFINE N == Cardinality(Timers)
           e == [i \in 0 .. N |-> IF i < n THEN s[i + 1] ELSE NULL]
           Recursion(f) == f = [i \in 0 .. N |->
                                  IF i = 0 THEN timer_list
                                  ELSE IF f[i - 1] = NULL THEN NULL ELSE next[f[i - 1]]]
<1>1. /\ s \in [1 .. n -> Timers]
      /\ \A i, j \in 1 .. n : s[i] = s[j] => i = j
      /\ timer_list = IF n = 0 THEN NULL ELSE s[1]
      /\ \A i \in 1 .. n : next[s[i]] = IF i = n THEN NULL ELSE s[i + 1]
  BY DEF Chain
<1>2. N \in Nat /\ n <= N
  BY <1>1, ChainBound, Many
<1> HIDE DEF N
<1>3. \A i \in 0 .. N : e[i] = IF i < n THEN s[i + 1] ELSE NULL
  OBVIOUS
<1> HIDE DEF e
<1>4. \A i \in 0 .. N : e[i] = IF i = 0 THEN timer_list
                               ELSE IF e[i - 1] = NULL THEN NULL ELSE next[e[i - 1]]
  <2> SUFFICES ASSUME NEW i \in 0 .. N
               PROVE  e[i] = IF i = 0 THEN timer_list
                             ELSE IF e[i - 1] = NULL THEN NULL ELSE next[e[i - 1]]
    OBVIOUS
  <2>1. CASE i = 0
    BY <1>1, <1>2, <1>3, <2>1
  <2>2. CASE i # 0
    <3>1. i - 1 \in 0 .. N /\ i \in Nat /\ (i - 1) + 1 = i
      BY <1>2, <2>2
    <3>2. e[i - 1] = IF i - 1 < n THEN s[i] ELSE NULL
      BY <1>3, <3>1
    <3>3. e[i] = IF i < n THEN s[i + 1] ELSE NULL
      BY <1>3
    <3>4. CASE i <= n
      <4>1. i \in 1 .. n /\ i - 1 < n /\ s[i] \in Timers
        BY <1>1, <2>2, <3>1, <3>4
      <4>2. next[s[i]] = IF i < n THEN s[i + 1] ELSE NULL
        BY <1>1, <3>1, <3>4, <4>1
      <4>3. s[i] # NULL
        BY <4>1, TimerAssumption
      <4>. QED BY <2>2, <3>2, <3>3, <4>1, <4>2, <4>3
    <3>5. CASE ~(i <= n)
      <4>1. ~(i - 1 < n) /\ ~(i < n)
        BY <3>1, <3>5
      <4>. QED BY <2>2, <3>2, <3>3, <4>1
    <3>. QED BY <3>4, <3>5
  <2>. QED BY <2>1, <2>2
<1>5. Recursion(e)
  <2>1. e = [i \in 0 .. N |-> e[i]]
    BY DEF e
  <2>. QED BY <1>4, <2>1
<1>6. Recursion(Element)
  <2>1. Element = CHOOSE f : Recursion(f)
    BY DEF Element, N
  <2> HIDE DEF Recursion
  <2>. QED BY <1>5, <2>1
<1>7. \A i \in 0 .. N : Element[i] = e[i]
  <2> DEFINE S == {i \in 0 .. N : Element[i] # e[i]}
  <2> SUFFICES ASSUME S # {} PROVE FALSE
    OBVIOUS
  <2>1. PICK m \in S : \A i \in S : m <= i
    <3>1. S \in SUBSET Nat
      OBVIOUS
    <3> HIDE DEF S
    <3>. QED BY <3>1, Least
  <2>2. m # 0
    BY <1>2, <1>4, <1>6, <2>1
  <2>3. m - 1 \in 0 .. N /\ m - 1 < m
    BY <1>2, <2>2
  <2>4. Element[m - 1] = e[m - 1]
    BY <1>2, <2>1, <2>3
  <2>5. Element[m] = IF Element[m - 1] = NULL THEN NULL ELSE next[Element[m - 1]]
    BY <1>6, <2>2
  <2>. QED BY <1>4, <2>2, <2>4, <2>5
<1>8. Element = e
  <2>1. Element = [i \in 0 .. N |-> Element[i]] /\ e = [i \in 0 .. N |-> e[i]]
    BY <1>5, <1>6
  <2> HIDE DEF Recursion
  <2>. QED BY <1>7, <2>1
<1>. QED BY <1>2, <1>8 DEF e, N

LEMMA ListIs ==
  ASSUME NEW n \in Nat, NEW s, Chain(n, s, timer_list, next, initialised)
  PROVE  /\ Length = n /\ List = s
         /\ Element[Cardinality(Timers)] = NULL
         /\ \A t : is_timer_in_list(t) <=> t \in initialised
<1> DEFINE N == Cardinality(Timers)
<1>1. /\ n <= N /\ N \in Nat
      /\ Element = [i \in 0 .. N |-> IF i < n THEN s[i + 1] ELSE NULL]
  BY ElementIs, Many
<1>2. /\ s \in [1 .. n -> Timers] /\ initialised = {s[i] : i \in 1 .. n}
  BY DEF Chain
<1> HIDE DEF N
<1>3. \A i \in 0 .. N : Element[i] = IF i < n THEN s[i + 1] ELSE NULL
  BY <1>1
<1>4. DOMAIN Element = 0 .. N
  BY <1>1
<1>5. \A i \in 0 .. N : Element[i] # NULL <=> i < n
  <2>1. ASSUME NEW i \in 0 .. N, i < n PROVE s[i + 1] # NULL
    <3>1. i + 1 \in 1 .. n
      BY <1>1, <2>1
    <3>. QED BY <1>2, <3>1, TimerAssumption
  <2>. QED BY <1>3, <2>1
<1>6. Length = n
  <2>1. {i \in DOMAIN Element : Element[i] # NULL} = 0 .. n - 1
    <3>1. \A i : i \in 0 .. N /\ i < n <=> i \in 0 .. n - 1
      BY <1>1
    <3>. QED BY <1>4, <1>5, <3>1
  <2>2. Cardinality(0 .. n - 1) = n
    <3>1. 0 \in Int /\ n - 1 \in Int
      OBVIOUS
    <3>2. Cardinality(0 .. n - 1) = IF 0 > n - 1 THEN 0 ELSE n - 1 - 0 + 1
      BY <3>1, FS_Interval
    <3>. QED BY <3>2
  <2>. QED BY <2>1, <2>2 DEF Length
<1>7. List = s
  <2>1. \A i \in 1 .. n : Element[i - 1] = s[i]
    <3>1. \A i \in 1 .. n : i - 1 \in 0 .. N /\ i - 1 < n /\ (i - 1) + 1 = i
      BY <1>1
    <3>. QED BY <1>3, <3>1
  <2>2. s = [i \in 1 .. n |-> s[i]]
    BY <1>2
  <2>. QED BY <1>6, <2>1, <2>2 DEF List
<1>8. Element[N] = NULL
  BY <1>1, <1>3
<1>. QED BY <1>2, <1>6, <1>7, <1>8 DEF is_timer_in_list, N

(* A timer is linked in front of the chain. *)
LEMMA ChainGrows ==
  ASSUME NEW n \in Nat, NEW s, NEW head, NEW links \in [Timers -> Messages], NEW all,
         Chain(n, s, head, links, all), NEW t \in Timers, t \notin all
  PROVE  Chain(n + 1, [k \in 1 .. n + 1 |-> IF k = 1 THEN t ELSE s[k - 1]],
               t, [links EXCEPT ![t] = head], all \cup {t})
<1> DEFINE r == [k \in 1 .. n + 1 |-> IF k = 1 THEN t ELSE s[k - 1]]
           to == [links EXCEPT ![t] = head]
<1>1. /\ s \in [1 .. n -> Timers]
      /\ \A i, j \in 1 .. n : s[i] = s[j] => i = j
      /\ head = IF n = 0 THEN NULL ELSE s[1]
      /\ \A i \in 1 .. n : links[s[i]] = IF i = n THEN NULL ELSE s[i + 1]
      /\ all = {s[i] : i \in 1 .. n}
  BY DEF Chain
<1>2. r[1] = t /\ \A k \in 2 .. n + 1 : r[k] = s[k - 1] /\ k - 1 \in 1 .. n
  OBVIOUS
<1>3. \A k \in 1 .. n + 1 : k = 1 \/ k \in 2 .. n + 1
  OBVIOUS
<1>4. \A i \in 1 .. n : s[i] \in Timers /\ s[i] # t
  BY <1>1
<1>5. r \in [1 .. n + 1 -> Timers]
  BY <1>1
<1> HIDE DEF r
<1>6. \A i, j \in 1 .. n + 1 : r[i] = r[j] => i = j
  <2> SUFFICES ASSUME NEW i \in 1 .. n + 1, NEW j \in 1 .. n + 1, r[i] = r[j] PROVE i = j
    OBVIOUS
  <2>1. CASE i = 1
    BY <1>2, <1>3, <1>4, <2>1
  <2>2. CASE i # 1 /\ j = 1
    BY <1>2, <1>3, <1>4, <2>2
  <2>3. CASE i # 1 /\ j # 1
    <3>1. i - 1 = j - 1
      BY <1>1, <1>2, <1>3, <2>3
    <3>. QED BY <3>1
  <2>. QED BY <2>1, <2>2, <2>3
<1>7. to[t] = head /\ \A u \in Timers : u # t => to[u] = links[u]
  OBVIOUS
<1> HIDE DEF to
<1>8. \A i \in 1 .. n + 1 : to[r[i]] = IF i = n + 1 THEN NULL ELSE r[i + 1]
  <2> SUFFICES ASSUME NEW i \in 1 .. n + 1
               PROVE  to[r[i]] = IF i = n + 1 THEN NULL ELSE r[i + 1]
    OBVIOUS
  <2>1. CASE i = 1
    <3>1. CASE n = 0
      BY <1>1, <1>2, <1>7, <2>1, <3>1
    <3>2. CASE n # 0
      <4>1. i + 1 \in 2 .. n + 1 /\ i # n + 1 /\ (i + 1) - 1 = 1
        BY <2>1, <3>2
      <4>. QED BY <1>1, <1>2, <1>7, <2>1, <3>2, <4>1
    <3>. QED BY <3>1, <3>2
  <2>2. CASE i # 1
    <3>1. r[i] = s[i - 1] /\ i - 1 \in 1 .. n
      BY <1>2, <1>3, <2>2
    <3>2. to[r[i]] = IF i - 1 = n THEN NULL ELSE s[(i - 1) + 1]
      BY <1>1, <1>4, <1>7, <3>1
    <3>3. i # n + 1 => i + 1 \in 2 .. n + 1 /\ (i + 1) - 1 = i
      BY <2>2
    <3>. QED BY <1>2, <3>1, <3>2, <3>3
  <2>. QED BY <2>1, <2>2
<1>9. all \cup {t} = {r[i] : i \in 1 .. n + 1}
  <2>1. \A i \in 1 .. n : i + 1 \in 2 .. n + 1 /\ (i + 1) - 1 = i /\ i + 1 \in 1 .. n + 1
    OBVIOUS
  <2>2. 1 \in 1 .. n + 1
    OBVIOUS
  <2>3. t = r[1] /\ \A i \in 1 .. n : s[i] = r[i + 1]
    BY <1>2, <2>1
  <2>4. \A i \in 1 .. n + 1 : r[i] \in all \cup {t}
    BY <1>1, <1>2, <1>3
  <2>5. \A u \in all : \E i \in 1 .. n + 1 : u = r[i]
    BY <1>1, <2>1, <2>3
  <2>6. \A u \in all \cup {t} : \E i \in 1 .. n + 1 : u = r[i]
    BY <2>2, <2>3, <2>5
  <2>. QED BY <2>4, <2>6
<1>10. t = IF n + 1 = 0 THEN NULL ELSE r[1]
  BY <1>2
<1>. QED BY <1>5, <1>6, <1>8, <1>9, <1>10 DEF Chain, r, to

(* A timer is taken out of the chain: the one in front of it is linked to  *)
(* the one behind it.                                                      *)
LEMMA ChainShrinks ==
  ASSUME NEW n \in Nat, NEW s, NEW head, NEW links \in [Timers -> Messages], NEW all,
         Chain(n, s, head, links, all), NEW m \in 1 .. n,
         NEW first, NEW to,
         IF m = 1 THEN first = links[head] /\ to = links
                  ELSE to = [links EXCEPT ![s[m - 1]] = links[s[m]]] /\ first = head
  PROVE  Chain(n - 1, [k \in 1 .. n - 1 |-> IF k < m THEN s[k] ELSE s[k + 1]],
               first, to, all \ {s[m]})
<1> DEFINE r == [k \in 1 .. n - 1 |-> IF k < m THEN s[k] ELSE s[k + 1]]
<1>1. /\ s \in [1 .. n -> Timers]
      /\ \A i, j \in 1 .. n : s[i] = s[j] => i = j
      /\ head = IF n = 0 THEN NULL ELSE s[1]
      /\ \A i \in 1 .. n : links[s[i]] = IF i = n THEN NULL ELSE s[i + 1]
      /\ all = {s[i] : i \in 1 .. n}
  BY DEF Chain
<1>2. \A k \in 1 .. n - 1 : /\ k \in 1 .. n /\ k + 1 \in 1 .. n
                            /\ r[k] = IF k < m THEN s[k] ELSE s[k + 1]
  OBVIOUS
<1>3. r \in [1 .. n - 1 -> Timers]
  BY <1>1
<1> HIDE DEF r
<1>4. \A i, j \in 1 .. n - 1 : r[i] = r[j] => i = j
  <2> SUFFICES ASSUME NEW i \in 1 .. n - 1, NEW j \in 1 .. n - 1, r[i] = r[j] PROVE i = j
    OBVIOUS
  <2>1. CASE i < m /\ j < m
    BY <1>1, <1>2, <2>1
  <2>2. CASE i < m /\ ~(j < m)
    BY <1>1, <1>2, <2>2
  <2>3. CASE ~(i < m) /\ j < m
    BY <1>1, <1>2, <2>3
  <2>4. CASE ~(i < m) /\ ~(j < m)
    BY <1>1, <1>2, <2>4
  <2>. QED BY <2>1, <2>2, <2>3, <2>4
<1>5. all \ {s[m]} = {r[i] : i \in 1 .. n - 1}
  <2>1. \A i \in 1 .. n - 1 : r[i] \in all /\ r[i] # s[m]
    <3> SUFFICES ASSUME NEW i \in 1 .. n - 1 PROVE r[i] \in all /\ r[i] # s[m]
      OBVIOUS
    <3>1. CASE i < m
      BY <1>1, <1>2, <3>1
    <3>2. CASE ~(i < m)
      BY <1>1, <1>2, <3>2
    <3>. QED BY <3>1, <3>2
  <2>2. ASSUME NEW i \in 1 .. n, s[i] # s[m] PROVE \E k \in 1 .. n - 1 : s[i] = r[k]
    <3>1. CASE i < m
      <4>1. i \in 1 .. n - 1
        BY <3>1
      <4>. QED BY <1>2, <3>1, <4>1
    <3>2. CASE m < i
      <4>1. i - 1 \in 1 .. n - 1 /\ ~(i - 1 < m) /\ (i - 1) + 1 = i
        BY <3>2
      <4>. QED BY <1>2, <4>1
    <3>3. i # m
      BY <2>2
    <3>. QED BY <3>1, <3>2, <3>3
  <2>3. \A u : u \in all \ {s[m]} <=> \E i \in 1 .. n - 1 : u = r[i]
    BY <1>1, <2>1, <2>2
  <2>. QED BY <2>3
<1>6. first = IF n - 1 = 0 THEN NULL ELSE r[1]
  <2>1. CASE m = 1
    <3>1. first = IF n = 1 THEN NULL ELSE s[2]
      BY <1>1, <2>1
    <3>2. n # 1 => r[1] = s[2]
      BY <1>2, <2>1
    <3>. QED BY <3>1, <3>2
  <2>2. CASE m # 1
    <3>1. first = s[1] /\ n # 1
      BY <1>1, <2>2
    <3>2. r[1] = s[1]
      BY <1>2, <2>2, <3>1
    <3>. QED BY <3>1, <3>2
  <2>. QED BY <2>1, <2>2
<1>7. \A i \in 1 .. n - 1 : to[r[i]] = IF i = n - 1 THEN NULL ELSE r[i + 1]
  <2> SUFFICES ASSUME NEW i \in 1 .. n - 1
               PROVE  to[r[i]] = IF i = n - 1 THEN NULL ELSE r[i + 1]
    OBVIOUS
  <2>1. i # n - 1 => /\ i + 1 \in 1 .. n - 1
                     /\ r[i + 1] = IF i + 1 < m THEN s[i + 1] ELSE s[i + 1 + 1]
    BY <1>2
  <2>2. links[s[i]] = s[i + 1]
    BY <1>1, <1>2
  <2>3. links[s[i + 1]] = IF i + 1 = n THEN NULL ELSE s[i + 1 + 1]
    BY <1>1, <1>2
  <2>4. CASE i + 1 = m
    <3>1. m # 1 /\ m - 1 = i /\ i < m /\ i + 1 = m
      BY <2>4
    <3>2. to[s[i]] = links[s[m]]
      BY <1>1, <1>2, <3>1
    <3>3. to[r[i]] = links[s[i + 1]]
      BY <1>2, <3>1, <3>2
    <3>. QED BY <2>1, <2>3, <2>4, <3>3
  <2>5. CASE i + 1 # m
    <3>1. \A k \in 1 .. n : m # 1 => (k # m - 1 => to[s[k]] = links[s[k]])
      <4> SUFFICES ASSUME NEW k \in 1 .. n, m # 1, k # m - 1 PROVE to[s[k]] = links[s[k]]
        OBVIOUS
      <4>1. m - 1 \in 1 .. n
        OBVIOUS
      <4>2. s[k] # s[m - 1] /\ s[k] \in Timers
        BY <1>1, <4>1
      <4>. QED BY <4>2
    <3>2. \A k \in 1 .. n : k # m - 1 => to[s[k]] = links[s[k]]
      BY <3>1
    <3>3. CASE i < m
      <4>1. i # m - 1 /\ i + 1 < m
        BY <2>5, <3>3
      <4>2. to[r[i]] = s[i + 1] /\ i # n - 1
        BY <1>2, <2>2, <3>2, <3>3, <4>1
      <4>. QED BY <2>1, <4>1, <4>2
    <3>4. CASE ~(i < m)
      <4>1. i + 1 # m - 1 /\ ~(i + 1 < m)
        BY <3>4
      <4>2. to[r[i]] = links[s[i + 1]]
        BY <1>2, <3>2, <3>4, <4>1
      <4>. QED BY <2>1, <2>3, <4>1, <4>2
    <3>. QED BY <3>3, <3>4
  <2>. QED BY <2>4, <2>5
<1>. QED BY <1>3, <1>4, <1>5, <1>6, <1>7 DEF Chain, r

-----------------------------------------------------------------------------
(* The messages. *)

Times(q, t) == Cardinality({i \in DOMAIN q : q[i] = t})

LEMMA TimesType ==
  ASSUME NEW q \in Seq(Timers), NEW t
  PROVE  IsFiniteSet({i \in DOMAIN q : q[i] = t}) /\ Times(q, t) \in Nat
<1>1. IsFiniteSet(1 .. Len(q)) /\ DOMAIN q = 1 .. Len(q)
  BY FS_Interval
<1>2. IsFiniteSet({i \in DOMAIN q : q[i] = t})
  BY <1>1, FS_Subset
<1>. QED BY <1>2, FS_CardinalityType DEF Times

LEMMA TimesAppend ==
  ASSUME NEW q \in Seq(Timers), NEW x \in Timers, NEW t
  PROVE  /\ Append(q, x) \in Seq(Timers)
         /\ Times(Append(q, x), t) = Times(q, t) + (IF x = t THEN 1 ELSE 0)
<1> DEFINE A == {i \in DOMAIN q : q[i] = t}
           r == Append(q, x)
           B == {i \in DOMAIN r : r[i] = t}
           n == Len(q)
<1>1. /\ r \in Seq(Timers) /\ DOMAIN r = 1 .. n + 1 /\ r[n + 1] = x /\ n \in Nat
      /\ DOMAIN q = 1 .. n /\ \A i \in 1 .. n : r[i] = q[i]
  OBVIOUS
<1>2. IsFiniteSet(A) /\ Times(q, t) = Cardinality(A) /\ Times(q, t) \in Nat
  BY TimesType DEF Times
<1>3. n + 1 \notin A
  BY <1>1
<1>4. B = IF x = t THEN A \cup {n + 1} ELSE A
  <2>1. \A i : i \in 1 .. n + 1 <=> i \in 1 .. n \/ i = n + 1
    BY <1>1
  <2>2. n + 1 \notin 1 .. n
    BY <1>1
  <2>. QED BY <1>1, <2>1, <2>2
<1>0. Times(r, t) = Cardinality(B)
  BY DEF Times
<1> HIDE DEF A, B, r, n
<1>5. CASE x = t
  <2>1. Cardinality(A \cup {n + 1}) = Cardinality(A) + 1
    BY <1>2, <1>3, FS_AddElement
  <2>. QED BY <1>0, <1>1, <1>2, <1>4, <1>5, <2>1 DEF r
<1>6. CASE x # t
  BY <1>0, <1>1, <1>2, <1>4, <1>6 DEF r
<1>. QED BY <1>5, <1>6

LEMMA TimesTail ==
  ASSUME NEW q \in Seq(Timers), q # <<>>, NEW t
  PROVE  Times(Tail(q), t) <= Times(q, t)
<1> DEFINE r == Tail(q)
           A == {i \in DOMAIN r : r[i] = t}
           B == {i \in DOMAIN q : q[i] = t}
           f == [i \in A |-> i + 1]
<1>1. /\ Len(q) \in Nat /\ DOMAIN q = 1 .. Len(q) /\ DOMAIN r = 1 .. Len(q) - 1
      /\ \A i \in 1 .. Len(q) - 1 : r[i] = q[i + 1] /\ i + 1 \in 1 .. Len(q)
  OBVIOUS
<1> HIDE DEF r
<1>2. f \in [A -> B] /\ \A i, j \in A : f[i] = f[j] => i = j
  <2>1. \A i \in A : i \in Int /\ i + 1 \in B
    BY <1>1
  <2> HIDE DEF A, B
  <2>. QED BY <2>1
<1> HIDE DEF f
<1>3. f \in Injection(A, B)
  <2> HIDE DEF A, B
  <2>. QED BY <1>2 DEF Injection, IsInjective
<1>4. IsFiniteSet(B)
  BY TimesType
<1> HIDE DEF A, B
<1>5. Cardinality(A) <= Cardinality(B)
  BY <1>3, <1>4, FS_Injection
<1>. QED BY <1>5 DEF A, B, r, Times

(* The interrupt's walk posts each message once: what the recursion of     *)
(* Posted says, for the list as it is.                                     *)
PostedBy(f, m, s) ==
  f = [i \in 0 .. m |-> IF i = 0 THEN task_list
                        ELSE IF Expires(s[i]) THEN Append(f[i - 1], s[i]) ELSE f[i - 1]]

LEMMA PostedExists ==
  ASSUME NEW n \in Nat, NEW s
  PROVE  \E f : PostedBy(f, n, s)
<1> DEFINE S == {m \in Nat : ~\E f : PostedBy(f, m, s)}
<1> SUFFICES ASSUME S # {} PROVE FALSE
  OBVIOUS
<1>1. PICK m \in S : \A k \in S : m <= k
  <2>1. S \in SUBSET Nat
    OBVIOUS
  <2> HIDE DEF S
  <2>. QED BY <2>1, Least
<1>2. m # 0
  <2>1. PostedBy([i \in 0 .. 0 |-> task_list], 0, s)
    BY DEF PostedBy
  <2>. QED BY <1>1, <2>1
<1>3. m - 1 \in Nat /\ m \in Nat /\ ~(m <= m - 1)
  BY <1>1, <1>2
<1>4. PICK f : PostedBy(f, m - 1, s)
  BY <1>1, <1>3
<1> DEFINE last == IF Expires(s[m]) THEN Append(f[m - 1], s[m]) ELSE f[m - 1]
           g == [i \in 0 .. m |-> IF i = m THEN last ELSE f[i]]
<1>5. \A i \in 0 .. m - 1 : f[i] = IF i = 0 THEN task_list
                                   ELSE IF Expires(s[i]) THEN Append(f[i - 1], s[i]) ELSE f[i - 1]
  BY <1>4 DEF PostedBy
<1>6. g[m] = last /\ \A i \in 0 .. m - 1 : g[i] = f[i]
  BY <1>3
<1>7. \A i \in 0 .. m : g[i] = IF i = 0 THEN task_list
                               ELSE IF Expires(s[i]) THEN Append(g[i - 1], s[i]) ELSE g[i - 1]
  <2> SUFFICES ASSUME NEW i \in 0 .. m
               PROVE  g[i] = IF i = 0 THEN task_list
                             ELSE IF Expires(s[i]) THEN Append(g[i - 1], s[i]) ELSE g[i - 1]
    OBVIOUS
  <2> HIDE DEF g
  <2>1. CASE i = m
    <3>1. m - 1 \in 0 .. m - 1
      BY <1>3
    <3>. QED BY <1>2, <1>6, <2>1, <3>1
  <2>2. CASE i # m
    <3>1. i \in 0 .. m - 1 /\ (i # 0 => i - 1 \in 0 .. m - 1)
      BY <1>3, <2>2
    <3> HIDE DEF last
    <3>. QED BY <1>5, <1>6, <3>1
  <2>. QED BY <2>1, <2>2
<1>8. PostedBy(g, m, s)
  <2>1. g = [i \in 0 .. m |-> g[i]]
    OBVIOUS
  <2> HIDE DEF g
  <2>. QED BY <1>7, <2>1 DEF PostedBy
<1>. QED BY <1>1, <1>8

LEMMA PostedIs ==
  ASSUME NEW n \in Nat, NEW s, Chain(n, s, timer_list, next, initialised)
  PROVE  PostedBy(Posted, n, s)
<1>1. Length = n /\ List = s
  BY ListIs
<1>2. Posted = CHOOSE f : PostedBy(f, n, s)
  BY <1>1 DEF Posted, PostedBy
<1>3. \E f : PostedBy(f, n, s)
  BY PostedExists
<1>. QED BY <1>2, <1>3

(* One message for each initialised timer whose period is over, and none   *)
(* for the others.                                                         *)
LEMMA PostedTimes ==
  ASSUME NEW n \in Nat, NEW s, Chain(n, s, timer_list, next, initialised),
         task_list \in Seq(Timers)
  PROVE  /\ Posted[Length] \in Seq(Timers)
         /\ \A t : Times(Posted[Length], t) =
                     Times(task_list, t) + (IF t \in initialised /\ Expires(t) THEN 1 ELSE 0)
<1> DEFINE Due(m, t) == \E i \in 1 .. m : s[i] = t /\ Expires(t)
           Right(m) == /\ Posted[m] \in Seq(Timers)
                       /\ \A t : Times(Posted[m], t) =
                                   Times(task_list, t) + (IF Due(m, t) THEN 1 ELSE 0)
           S == {m \in 0 .. n : ~Right(m)}
<1>1. /\ Length = n /\ s \in [1 .. n -> Timers] /\ initialised = {s[i] : i \in 1 .. n}
      /\ \A i, j \in 1 .. n : s[i] = s[j] => i = j
  BY ListIs DEF Chain
<1>2. \A i \in 0 .. n : Posted[i] = IF i = 0 THEN task_list
                                    ELSE IF Expires(s[i]) THEN Append(Posted[i - 1], s[i])
                                    ELSE Posted[i - 1]
  <2>1. PostedBy(Posted, n, s)
    BY PostedIs
  <2> HIDE DEF Posted
  <2>. QED BY <2>1 DEF PostedBy
<1>3. \A t : Times(task_list, t) \in Nat
  BY TimesType
<1>4. \A m \in 0 .. n : Right(m)
  <2> SUFFICES ASSUME S # {} PROVE FALSE
    OBVIOUS
  <2>1. PICK m \in S : \A k \in S : m <= k
    <3>1. S \in SUBSET Nat
      OBVIOUS
    <3> HIDE DEF S
    <3>. QED BY <3>1, Least
  <2>2. m \in 0 .. n /\ ~Right(m)
    OBVIOUS
  <2>3. m # 0
    <3>1. ASSUME m = 0 PROVE Right(m)
      <4>1. Posted[m] = task_list /\ \A t : ~Due(m, t)
        BY <1>2, <2>2, <3>1
      <4>. QED BY <1>3, <4>1
    <3>. QED BY <2>2, <3>1
  <2>4. m - 1 \in 0 .. n /\ m \in 1 .. n /\ ~(m <= m - 1)
    BY <2>2, <2>3
  <2>5. Right(m - 1)
    BY <2>1, <2>4
  <2>6. Posted[m] = IF Expires(s[m]) THEN Append(Posted[m - 1], s[m]) ELSE Posted[m - 1]
    BY <1>2, <2>3, <2>4
  <2>7. \A t : Due(m, t) <=> Due(m - 1, t) \/ (t = s[m] /\ Expires(t))
    <3>1. \A i : i \in 1 .. m <=> i \in 1 .. m - 1 \/ i = m
      BY <2>4
    <3>. QED BY <3>1
  <2>8. ~Due(m - 1, s[m])
    <3>1. \A i \in 1 .. m - 1 : i \in 1 .. n /\ i # m
      BY <2>4
    <3>. QED BY <1>1, <2>4, <3>1
  <2>9. s[m] \in Timers
    BY <1>1, <2>4
  <2> DEFINE q == Posted[m - 1]
  <2>10. q \in Seq(Timers) /\ \A t : Times(q, t) = Times(task_list, t) + (IF Due(m - 1, t) THEN 1 ELSE 0)
    BY <2>5
  <2>11. CASE Expires(s[m])
    <3>1. Posted[m] = Append(q, s[m])
      BY <2>6, <2>11
    <3> HIDE DEF q, Due
    <3>2. /\ Append(q, s[m]) \in Seq(Timers)
          /\ \A t : Times(Append(q, s[m]), t) = Times(q, t) + (IF s[m] = t THEN 1 ELSE 0)
      BY <2>9, <2>10, TimesAppend
    <3>3. ASSUME NEW t
          PROVE  Times(Posted[m], t) = Times(task_list, t) + (IF Due(m, t) THEN 1 ELSE 0)
      <4>1. CASE t = s[m]
        BY <1>3, <2>7, <2>8, <2>10, <2>11, <3>1, <3>2, <4>1
      <4>2. CASE t # s[m]
        <5>1. Due(m, t) <=> Due(m - 1, t)
          BY <2>7, <4>2
        <5>2. Times(q, t) \in Nat /\ Times(q, t) + 0 = Times(q, t)
          <6>1. Times(q, t) \in Nat
            BY ONLY <2>10, TimesType
          <6>. QED BY ONLY <6>1
        <5>. QED BY <2>10, <3>1, <3>2, <4>2, <5>1, <5>2
      <4>. QED BY <4>1, <4>2
    <3>. QED BY <2>2, <3>1, <3>2, <3>3 DEF Due
  <2>12. CASE ~Expires(s[m])
    <3>1. \A t : Due(m, t) <=> Due(m - 1, t)
      BY <2>7, <2>12
    <3>. QED BY <2>2, <2>6, <2>10, <2>12, <3>1
  <2>. QED BY <2>11, <2>12
<1>5. Right(n)
  BY <1>4
<1>6. \A t : Due(n, t) <=> t \in initialised /\ Expires(t)
  BY <1>1
<1>. QED BY <1>1, <1>5, <1>6

-----------------------------------------------------------------------------
(* The invariant is inductive. *)

LEMMA LessIs ==
  ASSUME NEW p \in 0 .. Width - 1
  PROVE  Less(p) \in 0 .. Width - 1 /\ (p > 0 => Less(p) = p - 1)
<1>1. Width \in Nat /\ Width > 1
  BY TimerAssumption
<1>2. (p - 1) % Width \in 0 .. Width - 1
  BY <1>1
<1>3. p > 0 => (p - 1) % Width = p - 1
  BY <1>1
<1>. QED BY <1>2, <1>3 DEF Less

LEMMA Fields ==
  ASSUME IInv
  PROVE  /\ timer_list \in Messages /\ next \in [Timers -> Messages]
         /\ initial_period \in [Timers -> 0 .. Width - 1]
         /\ last_period \in [Timers -> 0 .. Width - 1]
         /\ running \in [Timers -> BOOLEAN] /\ repeat \in [Timers -> BOOLEAN]
         /\ task_list \in Seq(Timers) /\ msg \in Messages
         /\ initialised \subseteq Timers /\ elapsed \in [Timers -> 0 .. Width - 1]
         /\ \A t \in initialised : running[t] =>
              elapsed[t] < initial_period[t] /\ last_period[t] + elapsed[t] = initial_period[t]
         /\ \E n \in Nat : \E s : Chain(n, s, timer_list, next, initialised)
BY Many DEF IInv, TypeOK, InTime, Chained

LEMMA Listed ==
  ASSUME IInv
  PROVE  \A t : is_timer_in_list(t) <=> t \in initialised
BY Fields, ListIs

(* A chain of timers is one that TLC finds, too. *)
LEMMA ChainedNext ==
  ASSUME NEW n \in Nat, NEW s, Chain(n, s, timer_list', next', initialised')
  PROVE  Chained'
<1>1. s \in [1 .. n -> Timers] /\ n <= Cardinality(Timers)
  BY ChainBound DEF Chain
<1>2. n \in 0 .. Cardinality(Timers)
  BY <1>1, Many
<1>. QED BY <1>1, <1>2 DEF Chained

LEMMA InitKeeps ==
  ASSUME IInv, NEW t \in Timers, os_timer_init(t)
  PROVE  IInv'
<1>1. /\ t \notin initialised
      /\ running' = [running EXCEPT ![t] = FALSE]
      /\ next' = [next EXCEPT ![t] = timer_list]
      /\ timer_list' = t
      /\ initialised' = initialised \cup {t}
      /\ UNCHANGED <<initial_period, last_period, repeat, tasks, elapsed>>
  BY Listed DEF os_timer_init, Linked
<1>2. PICK n \in Nat : \E s : Chain(n, s, timer_list, next, initialised)
  BY Fields
<1>3. Chained'
  <2>1. PICK s : Chain(n, s, timer_list, next, initialised)
    BY <1>2
  <2>2. next \in [Timers -> Messages]
    BY Fields
  <2>3. Chain(n + 1, [k \in 1 .. n + 1 |-> IF k = 1 THEN t ELSE s[k - 1]],
              t, [next EXCEPT ![t] = timer_list], initialised \cup {t})
    BY <1>1, <2>1, <2>2, ChainGrows
  <2> DEFINE r == [k \in 1 .. n + 1 |-> IF k = 1 THEN t ELSE s[k - 1]]
             l == n + 1
  <2>4. l \in Nat /\ Chain(l, r, timer_list', next', initialised')
    BY <1>1, <2>3
  <2> HIDE DEF r, l
  <2>. QED BY <2>4, ChainedNext
<1>4. TypeOK'
  BY <1>1, Fields DEF TypeOK, tasks, Messages
<1>5. InTime'
  BY <1>1, Fields DEF InTime
<1>. QED BY <1>3, <1>4, <1>5 DEF IInv

LEMMA DestroyKeeps ==
  ASSUME IInv, NEW t \in Timers, os_timer_destroy(t)
  PROVE  IInv'
<1>1. /\ t \in initialised /\ Unlink(t)
      /\ initialised' = initialised \ {t}
      /\ UNCHANGED <<initial_period, last_period, running, repeat, tasks, elapsed>>
  BY Listed DEF os_timer_destroy
<1>2. PICK n \in Nat : \E s : Chain(n, s, timer_list, next, initialised)
  BY Fields
<1>3. PICK s : Chain(n, s, timer_list, next, initialised)
  BY <1>2
<1>4. Length = n /\ List = s
  BY <1>3, ListIs
<1>5. s \in [1 .. n -> Timers] /\ next \in [Timers -> Messages] /\ timer_list \in Messages
  BY <1>3, Fields DEF Chain
<1> DEFINE m == CHOOSE k \in 1 .. n : s[k] = t
<1>6. m \in 1 .. n /\ s[m] = t
  <2>1. \E k \in 1 .. n : s[k] = t
    BY <1>1, <1>3 DEF Chain
  <2>. QED BY <2>1
<1>7. IF m = 1 THEN timer_list' = next[timer_list] /\ next' = next
               ELSE next' = [next EXCEPT ![s[m - 1]] = next[s[m]]] /\ timer_list' = timer_list
  BY <1>1, <1>4, <1>6 DEF Unlink
<1> HIDE DEF m
<1>8. Chain(n - 1, [k \in 1 .. n - 1 |-> IF k < m THEN s[k] ELSE s[k + 1]],
            timer_list', next', initialised \ {s[m]})
  BY <1>3, <1>5, <1>6, <1>7, ChainShrinks
<1>9. n - 1 \in Nat
  BY <1>6
<1>10. Chained'
  BY <1>1, <1>6, <1>8, <1>9, ChainedNext
<1>11. timer_list' \in Messages /\ next' \in [Timers -> Messages]
  <2>1. CASE m = 1
    <3>1. timer_list = s[1] /\ s[1] \in Timers
      BY <1>3, <1>5, <1>6, <2>1 DEF Chain
    <3>. QED BY <1>5, <1>7, <2>1, <3>1
  <2>2. CASE m # 1
    <3>1. s[m] \in Timers
      BY <1>5, <1>6
    <3>. QED BY <1>5, <1>7, <2>2, <3>1
  <2>. QED BY <2>1, <2>2
<1>12. TypeOK'
  BY <1>1, <1>11, Fields DEF TypeOK, tasks, Messages
<1>13. InTime'
  BY <1>1, Fields DEF InTime
<1>. QED BY <1>10, <1>12, <1>13 DEF IInv

LEMMA SameChain ==
  ASSUME IInv, UNCHANGED <<timer_list, next, initialised>>
  PROVE  Chained'
BY DEF IInv, Chained

LEMMA StartKeeps ==
  ASSUME IInv, NEW t \in Timers, NEW period \in Periods, NEW again \in BOOLEAN,
         os_timer_start(t, period, again)
  PROVE  IInv'
<1>1. /\ initial_period' = [initial_period EXCEPT ![t] = AtLeastOne(period)]
      /\ last_period' = [last_period EXCEPT ![t] = AtLeastOne(period)]
      /\ repeat' = [repeat EXCEPT ![t] = again]
      /\ running' = [running EXCEPT ![t] = TRUE]
      /\ elapsed' = [elapsed EXCEPT ![t] = 0]
      /\ UNCHANGED <<timer_list, next, tasks, initialised>>
  BY DEF os_timer_start
<1>2. AtLeastOne(period) \in 0 .. Width - 1 /\ AtLeastOne(period) > 0 /\ 0 \in 0 .. Width - 1
  BY TimerAssumption DEF AtLeastOne
<1>3. Chained'
  BY <1>1, SameChain
<1>4. TypeOK'
  BY <1>1, <1>2, Fields DEF TypeOK, tasks, Messages
<1>5. InTime'
  <2> SUFFICES ASSUME NEW u \in initialised, running'[u]
               PROVE  /\ elapsed'[u] < initial_period'[u]
                      /\ last_period'[u] + elapsed'[u] = initial_period'[u]
    BY <1>1 DEF InTime
  <2>1. u \in Timers
    BY Fields
  <2>2. CASE u = t
    <3>1. elapsed'[u] = 0 /\ initial_period'[u] = AtLeastOne(period) /\ last_period'[u] = AtLeastOne(period)
      BY <1>1, <2>1, <2>2, Fields
    <3>. QED BY <1>2, <3>1
  <2>3. CASE u # t
    <3>1. /\ elapsed'[u] = elapsed[u] /\ initial_period'[u] = initial_period[u]
          /\ last_period'[u] = last_period[u] /\ running[u]
      BY <1>1, <2>1, <2>3, Fields
    <3>. QED BY <3>1, Fields
  <2>. QED BY <2>2, <2>3
<1>. QED BY <1>3, <1>4, <1>5 DEF IInv

LEMMA StopKeeps ==
  ASSUME IInv, NEW t \in Timers, os_timer_stop(t)
  PROVE  IInv'
<1>1. /\ running' = [running EXCEPT ![t] = FALSE]
      /\ UNCHANGED <<timer_list, next, initial_period, last_period, repeat, tasks, history>>
  BY DEF os_timer_stop
<1>2. Chained'
  BY <1>1, SameChain DEF history
<1>3. TypeOK'
  BY <1>1, Fields DEF TypeOK, tasks, history, Messages
<1>4. InTime'
  BY <1>1, Fields DEF InTime, history
<1>. QED BY <1>2, <1>3, <1>4 DEF IInv

(* What a tick does to a timer. *)
LEMMA TickIs ==
  ASSUME IInv, os_timer_check_list
  PROVE  /\ \A t \in Timers : last_period'[t] =
              IF t \notin initialised \/ ~running[t] THEN last_period[t]
              ELSE IF Expires(t) /\ repeat[t] THEN initial_period[t] ELSE Less(last_period[t])
         /\ \A t \in Timers : running'[t] = (running[t] /\ (t \in initialised /\ Expires(t) => repeat[t]))
         /\ \A t \in Timers : elapsed'[t] =
              IF t \notin initialised \/ ~running[t] THEN elapsed[t]
              ELSE IF elapsed[t] + 1 = initial_period[t] THEN 0 ELSE elapsed[t] + 1
         /\ last_period' = [t \in Timers |-> last_period'[t]]
         /\ running' = [t \in Timers |-> running'[t]]
         /\ elapsed' = [t \in Timers |-> elapsed'[t]]
         /\ task_list' = Posted[Length]
         /\ UNCHANGED <<timer_list, next, initial_period, repeat, msg, initialised>>
         /\ \A t \in Timers : t \in initialised /\ running[t] =>
              /\ Less(last_period[t]) = last_period[t] - 1
              /\ Expires(t) <=> elapsed[t] + 1 = initial_period[t]
<1> DEFINE listed == {t \in Timers : is_timer_in_list(t)}
<1>1. \A t \in Timers : t \in listed <=> t \in initialised
  BY Listed
<1>2. /\ last_period' = [t \in Timers |->
           IF t \notin listed \/ ~running[t] THEN last_period[t]
           ELSE IF Expires(t) /\ RunsOn(t) THEN initial_period[t] ELSE Less(last_period[t])]
      /\ running' = [t \in Timers |->
           running[t] /\ (t \in listed /\ Expires(t) => RunsOn(t))]
      /\ task_list' = Posted[Length]
      /\ elapsed' = [t \in Timers |->
           IF t \notin initialised \/ ~running[t] THEN elapsed[t]
           ELSE IF elapsed[t] + 1 = initial_period[t] THEN 0 ELSE elapsed[t] + 1]
      /\ UNCHANGED <<timer_list, next, initial_period, repeat, msg, initialised>>
  BY DEF os_timer_check_list
<1> HIDE DEF listed
<1>3. \A t \in Timers : RunsOn(t) = repeat[t]
  BY DEF RunsOn
<1>4. ASSUME NEW t \in Timers, t \in initialised, running[t]
      PROVE  /\ Less(last_period[t]) = last_period[t] - 1
             /\ Expires(t) <=> elapsed[t] + 1 = initial_period[t]
  <2>1. /\ elapsed[t] < initial_period[t] /\ last_period[t] + elapsed[t] = initial_period[t]
        /\ last_period[t] \in 0 .. Width - 1 /\ elapsed[t] \in 0 .. Width - 1
        /\ initial_period[t] \in 0 .. Width - 1
    BY <1>4, Fields
  <2>2. last_period[t] > 0
    BY <2>1
  <2>3. Less(last_period[t]) = last_period[t] - 1
    BY <2>1, <2>2, LessIs
  <2>. QED BY <1>4, <2>1, <2>3 DEF Expires
<1>5. \A t \in Timers : last_period'[t] =
        IF t \notin initialised \/ ~running[t] THEN last_period[t]
        ELSE IF Expires(t) /\ repeat[t] THEN initial_period[t] ELSE Less(last_period[t])
  BY <1>1, <1>2, <1>3
<1>6. \A t \in Timers : running'[t] = (running[t] /\ (t \in initialised /\ Expires(t) => repeat[t]))
  BY <1>1, <1>2, <1>3
<1>7. \A t \in Timers : elapsed'[t] =
        IF t \notin initialised \/ ~running[t] THEN elapsed[t]
        ELSE IF elapsed[t] + 1 = initial_period[t] THEN 0 ELSE elapsed[t] + 1
  BY <1>2
<1>8. /\ last_period' = [t \in Timers |-> last_period'[t]]
      /\ running' = [t \in Timers |-> running'[t]]
      /\ elapsed' = [t \in Timers |-> elapsed'[t]]
  BY <1>2
<1>. QED BY <1>2, <1>4, <1>5, <1>6, <1>7, <1>8

LEMMA TickKeeps ==
  ASSUME IInv, os_timer_check_list
  PROVE  IInv'
<1>1. Chained'
  BY TickIs, SameChain
<1>2. \A t \in Timers : /\ last_period[t] \in 0 .. Width - 1 /\ initial_period[t] \in 0 .. Width - 1
                        /\ elapsed[t] \in 0 .. Width - 1 /\ running[t] \in BOOLEAN
                        /\ Less(last_period[t]) \in 0 .. Width - 1
  BY Fields, LessIs
<1>3. last_period' \in [Timers -> 0 .. Width - 1]
  <2>1. \A t \in Timers : last_period'[t] \in 0 .. Width - 1
    BY <1>2, TickIs
  <2>. QED BY <2>1, TickIs
<1>4. running' \in [Timers -> BOOLEAN]
  <2>1. \A t \in Timers : running'[t] \in BOOLEAN
    BY TickIs
  <2>. QED BY <2>1, TickIs
<1>5. elapsed' \in [Timers -> 0 .. Width - 1]
  <2>1. ASSUME NEW t \in Timers PROVE elapsed'[t] \in 0 .. Width - 1
    <3>1. CASE t \notin initialised \/ ~running[t]
      BY <1>2, <3>1, TickIs
    <3>2. CASE t \in initialised /\ running[t]
      <4>1. elapsed[t] < initial_period[t]
        BY <3>2, Fields
      <4>2. elapsed'[t] = IF elapsed[t] + 1 = initial_period[t] THEN 0 ELSE elapsed[t] + 1
        BY <3>2, TickIs
      <4>. QED BY <1>2, <4>1, <4>2, TimerAssumption
    <3>. QED BY <3>1, <3>2
  <2>. QED BY <2>1, TickIs
<1>6. task_list' \in Seq(Timers)
  BY Fields, TickIs, PostedTimes
<1>7. TypeOK'
  BY <1>3, <1>4, <1>5, <1>6, Fields, TickIs DEF TypeOK, Messages
<1>8. InTime'
  <2> SUFFICES ASSUME NEW t \in initialised, running'[t]
               PROVE  /\ elapsed'[t] < initial_period[t]
                      /\ last_period'[t] + elapsed'[t] = initial_period[t]
    BY TickIs DEF InTime
  <2>1. t \in Timers /\ running[t] /\ (Expires(t) => repeat[t])
    BY Fields, TickIs
  <2>2. elapsed[t] < initial_period[t] /\ last_period[t] + elapsed[t] = initial_period[t]
    BY <2>1, Fields
  <2>3. Less(last_period[t]) = last_period[t] - 1 /\ (Expires(t) <=> elapsed[t] + 1 = initial_period[t])
    BY <2>1, TickIs
  <2>4. last_period'[t] = IF Expires(t) THEN initial_period[t] ELSE last_period[t] - 1
    BY <2>1, <2>3, TickIs
  <2>5. elapsed'[t] = IF Expires(t) THEN 0 ELSE elapsed[t] + 1
    BY <2>1, <2>3, TickIs
  <2>. QED BY <1>2, <2>1, <2>2, <2>3, <2>4, <2>5
<1>. QED BY <1>1, <1>7, <1>8 DEF IInv

LEMMA TaskKeeps ==
  ASSUME IInv, task_schedule
  PROVE  IInv'
<1>1. /\ UNCHANGED <<timers, history>> /\ task_list' \in Seq(Timers) /\ msg' \in Messages
  <2>1. CASE task_msg_get
    <3>1. /\ task_list # <<>> /\ task_list \in Seq(Timers)
          /\ msg' = Head(task_list) /\ task_list' = Tail(task_list)
          /\ UNCHANGED <<timers, history>>
      BY <2>1, Fields DEF task_msg_get
    <3>. QED BY <3>1 DEF Messages
  <2>2. CASE os_timer_trigger_handler
    BY <2>2, Fields DEF os_timer_trigger_handler, Messages
  <2>. QED BY <2>1, <2>2 DEF task_schedule
<1>2. Chained'
  BY <1>1, SameChain DEF timers, history
<1>3. TypeOK'
  BY <1>1, Fields DEF TypeOK, timers, history
<1>4. InTime'
  BY <1>1, Fields DEF InTime, timers, history
<1>. QED BY <1>2, <1>3, <1>4 DEF IInv

LEMMA InitInvariant == Init => IInv
<1> SUFFICES ASSUME Init PROVE IInv
  OBVIOUS
<1>1. 0 \in 0 .. Width - 1 /\ Width \in Nat
  BY TimerAssumption
<1>2. TypeOK
  BY <1>1 DEF Init, TypeOK, Messages
<1>3. InTime
  BY DEF Init, InTime
<1>4. Chained
  <2> DEFINE s == [i \in 1 .. 0 |-> NULL]
  <2>1. s \in [1 .. 0 -> Timers] /\ 0 \in 0 .. Cardinality(Timers)
    BY Many
  <2>2. Chain(0, s, NULL, next, {})
    BY <2>1 DEF Chain
  <2>3. timer_list = NULL /\ initialised = {}
    BY DEF Init
  <2> HIDE DEF s
  <2>. QED BY <2>1, <2>2, <2>3 DEF Chained
<1>. QED BY <1>2, <1>3, <1>4 DEF IInv

LEMMA NextInvariant == IInv /\ [Next]_vars => IInv'
<1> SUFFICES ASSUME IInv, [Next]_vars PROVE IInv'
  OBVIOUS
<1>1. ASSUME NEW t \in Timers, User(t) PROVE IInv'
  BY <1>1, InitKeeps, DestroyKeeps, StartKeeps, StopKeeps DEF User
<1>2. CASE os_timer_check_list
  BY <1>2, TickKeeps
<1>3. CASE task_schedule
  BY <1>3, TaskKeeps
<1>4. CASE UNCHANGED vars
  BY <1>4 DEF IInv, TypeOK, InTime, Chained, vars, timers, tasks, history
<1>. QED BY <1>1, <1>2, <1>3, <1>4 DEF Next

LEMMA Invariant == SafeSpec => []IInv
BY InitInvariant, NextInvariant, PTL DEF SafeSpec

-----------------------------------------------------------------------------
(* The theorems. *)

(* The interrupt's walk ends, and comes to every timer that has been       *)
(* initialised and not destroyed, once: os_timer_init and os_timer_destroy *)
(* lose no timer, and link none twice.                                     *)
THEOREM WalkIsComplete == SafeSpec => []ListIsComplete
<1>1. IInv => ListIsComplete
  <2> SUFFICES ASSUME IInv PROVE ListIsComplete
    OBVIOUS
  <2>1. PICK n \in Nat : \E s : Chain(n, s, timer_list, next, initialised)
    BY Fields
  <2>2. PICK s : Chain(n, s, timer_list, next, initialised)
    BY <2>1
  <2>3. Length = n /\ List = s /\ Element[Cardinality(Timers)] = NULL
    BY <2>2, ListIs
  <2>. QED BY <2>2, <2>3 DEF ListIsComplete, Chain
<1>. QED BY <1>1, Invariant, PTL

(* A running timer has as many ticks to go as its period has left          *)
(* (os_timer_start, os_timer_check_list).                                  *)
THEOREM TimersAreInTime == SafeSpec => []TimerInv
<1>1. IInv => TimerInv
  BY DEF IInv, TimerInv
<1>. QED BY <1>1, Invariant, PTL

(* A timer whose period is over gets one message, and nothing else does    *)
(* (os_timer_check_list, task_msg_get).                                    *)
THEOREM OneMessageEach == SafeSpec => OneMessagePerPeriod
<1> DEFINE Over(t) == /\ t \in initialised /\ running[t]
                      /\ elapsed[t] + 1 = initial_period[t] /\ os_timer_check_list
           Step == \A t \in Timers : /\ Over(t) => Count(t)' = Count(t) + 1 /\ running'[t] = repeat[t]
                                     /\ Count(t)' > Count(t) => Over(t)
<1>1. IInv /\ [Next]_vars => [Step]_vars
  <2> SUFFICES ASSUME IInv, [Next]_vars, NEW t \in Timers
               PROVE  /\ Over(t) => Count(t)' = Count(t) + 1 /\ running'[t] = repeat[t]
                      /\ Count(t)' > Count(t) => Over(t)
    OBVIOUS
  <2>0. Count(t) = Times(task_list, t) /\ Count(t)' = Times(task_list', t)
    BY DEF Count, Times
  <2>1. Times(task_list, t) \in Nat /\ task_list \in Seq(Timers)
    BY Fields, TimesType
  <2>2. CASE os_timer_check_list
    <3>1. Times(task_list', t) =
            Times(task_list, t) + (IF t \in initialised /\ Expires(t) THEN 1 ELSE 0)
      BY <2>1, <2>2, Fields, TickIs, PostedTimes
    <3>2. Expires(t) => running[t]
      BY DEF Expires
    <3>3. t \in initialised /\ Expires(t)
          <=> t \in initialised /\ running[t] /\ elapsed[t] + 1 = initial_period[t]
      BY <2>2, <3>2, TickIs
    <3>4. t \in initialised /\ Expires(t) => running'[t] = repeat[t]
      <4>1. running'[t] = (running[t] /\ (t \in initialised /\ Expires(t) => repeat[t]))
        BY <2>2, TickIs
      <4>2. running \in [Timers -> BOOLEAN] /\ repeat \in [Timers -> BOOLEAN]
        BY Fields
      <4>3. running[t] \in BOOLEAN /\ repeat[t] \in BOOLEAN
        BY <4>2
      <4>. QED BY ONLY <3>2, <4>1, <4>3
    <3>5. Over(t) <=> t \in initialised /\ Expires(t)
      BY <2>2, <3>3
    <3>. HIDE DEF Over
    <3>6. ASSUME Over(t) PROVE Count(t)' = Count(t) + 1 /\ running'[t] = repeat[t]
      <4>1. Times(task_list', t) = Times(task_list, t) + 1
        BY <3>1, <3>5, <3>6
      <4>. QED BY <2>0, <3>4, <3>5, <3>6, <4>1
    <3>7. ASSUME ~Over(t) PROVE ~(Count(t)' > Count(t))
      <4>1. Times(task_list', t) = Times(task_list, t) + 0
        BY <3>1, <3>5, <3>7
      <4>2. Times(task_list', t) = Times(task_list, t)
        BY ONLY <2>1, <4>1
      <4>3. \A m \in Nat : ~(m > m)
        OBVIOUS
      <4>. QED BY <2>0, <2>1, <4>2, <4>3
    <3>. QED BY <3>6, <3>7
  <2>3. CASE ~os_timer_check_list
    <3>1. Times(task_list', t) <= Times(task_list, t)
      <4>1. CASE task_msg_get
        <5>1. task_list # <<>> /\ task_list' = Tail(task_list)
          BY <4>1 DEF task_msg_get
        <5>. QED BY <2>1, <5>1, TimesTail
      <4>2. CASE UNCHANGED task_list
        BY <2>1, <4>2
      <4>3. task_msg_get \/ UNCHANGED task_list
        BY <2>3 DEF Next, vars, tasks, User, os_timer_init, os_timer_destroy, os_timer_start,
                    os_timer_stop, task_schedule, os_timer_trigger_handler
      <4>. QED BY <4>1, <4>2, <4>3
    <3>2. Times(task_list', t) \in Nat
      <4>1. IInv'
        BY NextInvariant
      <4>2. task_list' \in Seq(Timers)
        BY <4>1 DEF IInv, TypeOK
      <4>. QED BY <4>2, TimesType
    <3>. QED BY <2>0, <2>1, <2>3, <3>1, <3>2
  <2>. QED BY <2>2, <2>3
<1>. QED BY <1>1, Invariant, PTL DEF SafeSpec, OneMessagePerPeriod
=============================================================================
