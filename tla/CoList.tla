------------------------------- MODULE CoList -------------------------------
(***************************************************************************)
(* The singly linked list of co_list.c, on which the message lists, the    *)
(* IPC driver's waiting messages and the PCM data of the native playback   *)
(* are kept.  A list is its two pointers and the links of all the elements *)
(* there are; Represents says which sequence it stands for.                *)
(***************************************************************************)
EXTENDS Integers, Sequences

CONSTANTS Elements, NULL

ASSUME ElementAssumption == NULL \notin Elements

Links == Elements \cup {NULL}

Lists == [first : Links, last : Links, next : [Elements -> Links]]

co_list_init(list) == [list EXCEPT !.first = NULL, !.last = NULL]

co_list_is_empty(list) == list.first = NULL

co_list_pick(list) == list.first

co_list_push_back(list, e) ==
  [first |-> IF co_list_is_empty(list) THEN e ELSE list.first,
   last  |-> e,
   next  |-> IF co_list_is_empty(list) THEN [list.next EXCEPT ![e] = NULL]
             ELSE [list.next EXCEPT ![list.last] = e, ![e] = NULL]]

co_list_push_front(list, e) ==
  [first |-> e,
   last  |-> IF co_list_is_empty(list) THEN e ELSE list.last,
   next  |-> [list.next EXCEPT ![e] = list.first]]

(* The list without its first element, which the function returns.         *)
co_list_pop_front(list) ==
  IF co_list_is_empty(list) THEN list
  ELSE LET second == list.next[list.first] IN
       [list EXCEPT !.first = second,
                    !.last  = IF second = NULL THEN NULL ELSE list.last]

-----------------------------------------------------------------------------
(* The sequence s, without repetition, is what a walk through list finds,  *)
(* and last points to its end.                                             *)
Represents(list, s) ==
  /\ list \in Lists
  /\ s \in Seq(Elements)
  /\ \A i, j \in 1 .. Len(s) : s[i] = s[j] => i = j
  /\ IF s = <<>> THEN list.first = NULL /\ list.last = NULL
     ELSE /\ list.first = s[1]
          /\ list.last = s[Len(s)]
          /\ list.next[s[Len(s)]] = NULL
          /\ \A i \in 1 .. Len(s) - 1 : list.next[s[i]] = s[i + 1]
=============================================================================
