---------------------------- MODULE CoListProofs ----------------------------
(***************************************************************************)
(* Each operation of the list does to the sequence it stands for what its  *)
(* comment in co_list.h says, whatever the elements are.                   *)
(***************************************************************************)
EXTENDS CoList, TLAPS

(* The first element of a list is the only thing that tells an empty one.  *)
LEMMA EmptyIffNull ==
  ASSUME NEW list, NEW s, Represents(list, s)
  PROVE  co_list_is_empty(list) <=> s = <<>>
<1>1. CASE s = <<>>
  BY <1>1 DEF Represents, co_list_is_empty
<1>2. CASE s # <<>>
  <2>1. list.first = s[1] /\ s[1] \in Elements
    BY <1>2 DEF Represents
  <2>. QED BY <2>1, <1>2, ElementAssumption DEF co_list_is_empty
<1>. QED BY <1>1, <1>2

(* co_list_init empties the list, whatever its pointers held before.       *)
THEOREM InitEmpties ==
  ASSUME NEW list \in Lists
  PROVE  Represents(co_list_init(list), <<>>)
<1> DEFINE emptied == co_list_init(list)
<1>1. emptied.first = NULL /\ emptied.last = NULL
  BY DEF co_list_init, Lists
<1>2. emptied \in Lists
  BY DEF co_list_init, Lists, Links
<1>3. << >> \in Seq(Elements) /\ Len(<< >>) = 0
  OBVIOUS
<1>4. \A i, j \in 1 .. Len(<< >>) : (<< >>)[i] = (<< >>)[j] => i = j
  BY <1>3
<1> HIDE DEF emptied
<1>5. Represents(emptied, << >>)
  BY <1>1, <1>2, <1>3, <1>4 DEF Represents
<1>. QED BY <1>5 DEF emptied

(* co_list_push_back appends.                                              *)
THEOREM PushBackAppends ==
  ASSUME NEW list, NEW s, Represents(list, s),
         NEW e \in Elements, \A i \in 1 .. Len(s) : s[i] # e
  PROVE  Represents(co_list_push_back(list, e), Append(s, e))
<1> DEFINE pushed == co_list_push_back(list, e)
           t == Append(s, e)
<1>1. list \in Lists /\ s \in Seq(Elements) /\ Len(s) \in Nat
  BY DEF Represents
<1>2. /\ t \in Seq(Elements) /\ t # <<>> /\ Len(t) = Len(s) + 1 /\ t[Len(t)] = e
      /\ \A i \in 1 .. Len(s) : t[i] = s[i]
  BY <1>1
<1>3. \A i, j \in 1 .. Len(t) : t[i] = t[j] => i = j
  <2>1. \A i, j \in 1 .. Len(s) : s[i] = s[j] => i = j
    BY DEF Represents
  <2>. QED BY <1>1, <1>2, <2>1
<1>4. CASE s = <<>>
  <2>1. list.first = NULL /\ Len(s) = 0
    BY <1>4 DEF Represents
  <2>2. pushed = [first |-> e, last |-> e, next |-> [list.next EXCEPT ![e] = NULL]]
    BY <2>1 DEF co_list_push_back, co_list_is_empty
  <2>3. pushed \in Lists /\ pushed.next[e] = NULL
    BY <1>1, <2>2 DEF Lists, Links
  <2>. QED BY <1>2, <1>3, <2>1, <2>2, <2>3 DEF Represents
<1>5. CASE s # <<>>
  <2>1. /\ list.first = s[1] /\ list.last = s[Len(s)]
        /\ \A i \in 1 .. Len(s) - 1 : list.next[s[i]] = s[i + 1]
        /\ \A i, j \in 1 .. Len(s) : s[i] = s[j] => i = j
        /\ Len(s) >= 1 /\ list.last \in Elements
    BY <1>1, <1>5 DEF Represents
  <2>2. ~ co_list_is_empty(list)
    BY <1>5, EmptyIffNull
  <2>3. pushed = [first |-> list.first, last |-> e,
                  next |-> [list.next EXCEPT ![list.last] = e, ![e] = NULL]]
    BY <2>2 DEF co_list_push_back
  <2>4. pushed \in Lists /\ pushed.next[e] = NULL /\ pushed.first = t[1] /\ pushed.last = t[Len(t)]
    BY <1>1, <1>2, <2>1, <2>3 DEF Lists, Links
  <2>5. ASSUME NEW i \in 1 .. Len(t) - 1
        PROVE  pushed.next[t[i]] = t[i + 1]
    <3>1. i \in 1 .. Len(s) /\ t[i] = s[i] /\ s[i] # e /\ s[i] \in Elements
      BY <1>1, <1>2
    <3>2. CASE i = Len(s)
      <4>1. t[i] = list.last /\ t[i + 1] = e
        BY <1>2, <2>1, <3>1, <3>2
      <4>. QED BY <1>1, <2>1, <2>3, <3>1, <4>1 DEF Lists
    <3>3. CASE i # Len(s)
      <4>1. i \in 1 .. Len(s) - 1 /\ i + 1 \in 1 .. Len(s) /\ Len(s) \in 1 .. Len(s)
        BY <1>1, <2>1, <3>1, <3>3
      <4>2. list.next[s[i]] = s[i + 1] /\ t[i + 1] = s[i + 1] /\ s[i] # list.last
        BY <1>2, <2>1, <3>1, <3>3, <4>1
      <4>3. pushed.next[s[i]] = list.next[s[i]]
        BY <1>1, <2>3, <3>1, <4>2 DEF Lists
      <4>. QED BY <3>1, <4>2, <4>3
    <3>. QED BY <3>2, <3>3
  <2>. QED BY <1>2, <1>3, <2>4, <2>5 DEF Represents
<1>. QED BY <1>4, <1>5

(* co_list_push_front puts the element before all others.                  *)
THEOREM PushFrontPrepends ==
  ASSUME NEW list, NEW s, Represents(list, s),
         NEW e \in Elements, \A i \in 1 .. Len(s) : s[i] # e
  PROVE  Represents(co_list_push_front(list, e), <<e>> \o s)
<1> DEFINE pushed == co_list_push_front(list, e)
           t == <<e>> \o s
<1>1. list \in Lists /\ s \in Seq(Elements) /\ Len(s) \in Nat
  BY DEF Represents
<1>2. /\ t \in Seq(Elements) /\ t # <<>> /\ Len(t) = Len(s) + 1 /\ t[1] = e
      /\ \A i \in 2 .. Len(t) : t[i] = s[i - 1]
  BY <1>1
<1>3. \A i, j \in 1 .. Len(t) : t[i] = t[j] => i = j
  <2>1. \A i, j \in 1 .. Len(s) : s[i] = s[j] => i = j
    BY DEF Represents
  <2>2. ASSUME NEW i \in 1 .. Len(t), NEW j \in 1 .. Len(t), t[i] = t[j]
        PROVE  i = j
    <3>1. CASE i = 1 /\ j = 1
      BY <3>1
    <3>2. CASE i = 1 /\ j # 1
      BY <1>1, <1>2, <2>2, <3>2
    <3>3. CASE i # 1 /\ j = 1
      BY <1>1, <1>2, <2>2, <3>3
    <3>4. CASE i # 1 /\ j # 1
      <4>1. i - 1 \in 1 .. Len(s) /\ j - 1 \in 1 .. Len(s) /\ s[i - 1] = s[j - 1]
        BY <1>1, <1>2, <2>2, <3>4
      <4>2. i - 1 = j - 1
        BY <2>1, <4>1
      <4>. QED BY <4>2
    <3>. QED BY <3>1, <3>2, <3>3, <3>4
  <2>. QED BY <2>2
<1>4. pushed.first = e /\ pushed.next = [list.next EXCEPT ![e] = list.first]
  BY DEF co_list_push_front
<1>5. pushed \in Lists /\ pushed.next[e] = list.first
  BY <1>1, <1>4 DEF Lists, Links, co_list_push_front
<1>6. CASE s = <<>>
  <2>1. list.first = NULL /\ Len(s) = 0 /\ co_list_is_empty(list)
    BY <1>6 DEF Represents, co_list_is_empty
  <2>2. pushed.last = e
    BY <2>1 DEF co_list_push_front
  <2>. QED BY <1>2, <1>3, <1>4, <1>5, <2>1, <2>2 DEF Represents
<1>7. CASE s # <<>>
  <2>1. /\ list.first = s[1] /\ list.last = s[Len(s)] /\ list.next[s[Len(s)]] = NULL
        /\ \A i \in 1 .. Len(s) - 1 : list.next[s[i]] = s[i + 1]
        /\ Len(s) >= 1
    BY <1>1, <1>7 DEF Represents
  <2>2. pushed.last = list.last
    BY <1>7, EmptyIffNull DEF co_list_push_front
  <2>3. \A x \in Elements : x # e => pushed.next[x] = list.next[x]
    BY <1>1, <1>4 DEF Lists
  <2>4. t[Len(t)] = s[Len(s)] /\ s[Len(s)] \in Elements /\ s[Len(s)] # e
    BY <1>1, <1>2, <2>1
  <2>5. ASSUME NEW i \in 1 .. Len(t) - 1
        PROVE  pushed.next[t[i]] = t[i + 1]
    <3>1. CASE i = 1
      BY <1>1, <1>2, <1>5, <2>1, <3>1
    <3>2. CASE i # 1
      <4>1. i - 1 \in 1 .. Len(s) - 1 /\ i \in 2 .. Len(t) /\ i + 1 \in 2 .. Len(t)
        BY <1>1, <1>2, <3>2
      <4>2. /\ t[i] = s[i - 1] /\ t[i + 1] = s[(i + 1) - 1]
            /\ s[i - 1] \in Elements /\ s[i - 1] # e
            /\ list.next[s[i - 1]] = s[(i - 1) + 1]
        BY <1>1, <1>2, <2>1, <4>1
      <4>3. (i - 1) + 1 = (i + 1) - 1
        OBVIOUS
      <4>. QED BY <2>3, <4>2, <4>3
    <3>. QED BY <3>1, <3>2
  <2>6. pushed.last = t[Len(t)] /\ pushed.next[t[Len(t)]] = NULL /\ pushed.first = t[1]
    BY <1>2, <1>4, <2>1, <2>2, <2>3, <2>4
  <2>. QED BY <1>2, <1>3, <1>5, <2>5, <2>6 DEF Represents
<1>. QED BY <1>6, <1>7

(* co_list_pop_front takes the first element, which co_list_pick shows,    *)
(* and leaves the rest.                                                    *)
THEOREM PopFrontTakesTheHead ==
  ASSUME NEW list, NEW s, Represents(list, s), s # <<>>
  PROVE  co_list_pick(list) = Head(s) /\ Represents(co_list_pop_front(list), Tail(s))
<1> DEFINE popped == co_list_pop_front(list)
           t == Tail(s)
<1>1. /\ list \in Lists /\ s \in Seq(Elements) /\ Len(s) \in Nat /\ Len(s) >= 1
      /\ list.first = s[1] /\ list.last = s[Len(s)] /\ list.next[s[Len(s)]] = NULL
      /\ \A i \in 1 .. Len(s) - 1 : list.next[s[i]] = s[i + 1]
      /\ \A i, j \in 1 .. Len(s) : s[i] = s[j] => i = j
  BY DEF Represents
<1>2. /\ t \in Seq(Elements) /\ Len(t) = Len(s) - 1
      /\ \A i \in 1 .. Len(t) : t[i] = s[i + 1]
  BY <1>1
<1>3. \A i, j \in 1 .. Len(t) : t[i] = t[j] => i = j
  <2>1. ASSUME NEW i \in 1 .. Len(t), NEW j \in 1 .. Len(t), t[i] = t[j]
        PROVE  i = j
    <3>1. i + 1 \in 1 .. Len(s) /\ j + 1 \in 1 .. Len(s) /\ s[i + 1] = s[j + 1]
      BY <1>1, <1>2, <2>1
    <3>2. i + 1 = j + 1
      BY <1>1, <3>1
    <3>. QED BY <3>2
  <2>. QED BY <2>1
<1>4. ~ co_list_is_empty(list)
  BY EmptyIffNull
<1>5. /\ popped.first = list.next[s[1]] /\ popped.next = list.next
      /\ popped.last = IF list.next[s[1]] = NULL THEN NULL ELSE list.last
  BY <1>1, <1>4 DEF co_list_pop_front
<1>6. popped \in Lists
  <2>1. s[1] \in Elements
    BY <1>1
  <2>2. list.next[s[1]] \in Links
    BY <1>1, <2>1 DEF Lists
  <2>. QED BY <1>1, <1>4, <2>2 DEF Lists, Links, co_list_pop_front
<1> HIDE DEF popped, t
<1>7. ASSUME Len(s) = 1
      PROVE  Represents(popped, t)
  <2>1. t = <<>>
    BY <1>2, <1>7
  <2>2. popped.first = NULL /\ popped.last = NULL
    BY <1>1, <1>5, <1>7
  <2>3. Represents(popped, t)
    BY <1>3, <1>6, <2>1, <2>2, <1>2 DEF Represents
  <2>. QED BY <2>3
<1>8. ASSUME Len(s) > 1
      PROVE  Represents(popped, t)
  <2>1. t # <<>> /\ popped.first = s[2] /\ t[1] = s[2] /\ s[2] \in Elements
    <3>1. 1 \in 1 .. Len(s) - 1 /\ 2 \in 1 .. Len(s) /\ 1 \in 1 .. Len(t) /\ 1 + 1 = 2
      BY <1>1, <1>2, <1>8
    <3>2. list.next[s[1]] = s[2] /\ t[1] = s[2]
      BY <1>1, <1>2, <3>1
    <3>3. s[2] \in Elements
      BY <1>1, <3>1
    <3>4. t # <<>>
      BY <1>2, <3>1
    <3>. QED BY <1>5, <3>2, <3>3, <3>4
  <2>2. popped.last = list.last
    BY <1>1, <1>5, <2>1, ElementAssumption
  <2>3. t[Len(t)] = s[Len(s)]
    BY <1>1, <1>2, <1>8
  <2>4. ASSUME NEW i \in 1 .. Len(t) - 1
        PROVE  popped.next[t[i]] = t[i + 1]
    <3>1. i + 1 \in 1 .. Len(s) - 1 /\ t[i] = s[i + 1] /\ t[i + 1] = s[(i + 1) + 1]
      BY <1>1, <1>2
    <3>2. list.next[s[i + 1]] = s[(i + 1) + 1]
      BY <1>1, <3>1
    <3>. QED BY <1>5, <3>1, <3>2
  <2>5. Represents(popped, t)
    BY <1>1, <1>2, <1>3, <1>5, <1>6, <2>1, <2>2, <2>3, <2>4 DEF Represents
  <2>. QED BY <2>5
<1>9. co_list_pick(list) = Head(s)
  BY <1>1 DEF co_list_pick
<1>10. Len(s) = 1 \/ Len(s) > 1
  <2>1. Len(s) \in Nat /\ Len(s) >= 1
    BY <1>1
  <2>. QED BY <2>1
<1>. QED BY <1>7, <1>8, <1>9, <1>10 DEF popped, t
=============================================================================
