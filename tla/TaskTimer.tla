----------------------------- MODULE TaskTimer -----------------------------
(***************************************************************************)
(* The software timers (os_timer.c) and the loop that calls them back      *)
(* (tasks.c).                                                              *)
(*                                                                         *)
(* The timers that have been initialised are linked in a list.  Once a     *)
(* millisecond an interrupt goes through it, counts the running ones down, *)
(* and posts a message for each that has come to zero; the main loop takes *)
(* the message and calls back.  Whoever uses the timers may do so in the   *)
(* main loop or in an interrupt, between any two steps.                    *)
(***************************************************************************)
EXTENDS Integers, Sequences, FiniteSets

CONSTANTS
  Timers,        \* the timers' structures
  Periods,       \* the periods asked for, in OS_TIMER_PRECISION
  Width,         \* 2^32: last_period is a uint32_t
  MaxMessages,   \* bound of the model: the interrupt waits when as many are queued
  NULL

ASSUME TimerAssumption ==
  /\ IsFiniteSet(Timers) /\ NULL \notin Timers
  /\ Width \in Nat \ {0, 1} /\ Periods \subseteq 0 .. Width - 1
  /\ MaxMessages \in Nat

VARIABLES
  timer_list,      \* the first timer
  next,            \* the links
  initial_period, last_period, running,
  repeat,          \* is type OS_TIMER_TYPE_REPEAT?
  task_list,       \* the messages OS_TIMER_TRIGGER, by their timer
  msg,             \* the message that the main loop handles
  initialised,     \* history: initialised and not destroyed
  elapsed          \* history: ticks since the start or the last expiry

timers  == <<timer_list, next, initial_period, last_period, running, repeat>>
tasks   == <<task_list, msg>>
history == <<initialised, elapsed>>
vars == <<timers, tasks, history>>

-----------------------------------------------------------------------------
(* The list *)

(* The element that is reached by i links; no list is longer than Timers. *)
Element[i \in 0 .. Cardinality(Timers)] ==
  IF i = 0 THEN timer_list
  ELSE IF Element[i - 1] = NULL THEN NULL ELSE next[Element[i - 1]]

Length == Cardinality({i \in DOMAIN Element : Element[i] # NULL})
List   == [i \in 1 .. Length |-> Element[i - 1]]

is_timer_in_list(t) == \E i \in 1 .. Length : List[i] = t

(* os_timer_init *)
InListAlways(t) == FALSE    \* mutant: a second initialisation links it again
Linked(t) == is_timer_in_list(t)

os_timer_init(t) ==
  /\ ~Linked(t)
  /\ running' = [running EXCEPT ![t] = FALSE]
  /\ next' = [next EXCEPT ![t] = timer_list]
  /\ timer_list' = t
  /\ initialised' = initialised \cup {t}
  /\ UNCHANGED <<initial_period, last_period, repeat, tasks, elapsed>>

(* os_timer_destroy *)
UnlinkFirst(t) == UNCHANGED timer_list /\ next' = [next EXCEPT ![t] = NULL]  \* mutant
Unlink(t) ==
  LET i == CHOOSE k \in 1 .. Length : List[k] = t IN
  IF i = 1 THEN timer_list' = next[timer_list] /\ UNCHANGED next
           ELSE next' = [next EXCEPT ![List[i - 1]] = next[t]] /\ UNCHANGED timer_list

os_timer_destroy(t) ==
  /\ is_timer_in_list(t)
  /\ Unlink(t)
  /\ initialised' = initialised \ {t}
  /\ UNCHANGED <<initial_period, last_period, running, repeat, tasks, elapsed>>

-----------------------------------------------------------------------------
(* Start and stop *)

AsAsked(period)    == period     \* mutant: zero is not looked at
AtLeastOne(period) == IF period = 0 THEN 1 ELSE period

os_timer_start(t, period, again) ==
  /\ is_timer_in_list(t)
  /\ initial_period' = [initial_period EXCEPT ![t] = AtLeastOne(period)]
  /\ last_period' = [last_period EXCEPT ![t] = AtLeastOne(period)]
  /\ repeat' = [repeat EXCEPT ![t] = again]
  /\ running' = [running EXCEPT ![t] = TRUE]
  /\ elapsed' = [elapsed EXCEPT ![t] = 0]
  /\ UNCHANGED <<timer_list, next, tasks, initialised>>

os_timer_stop(t) ==
  /\ running' = [running EXCEPT ![t] = FALSE]
  /\ UNCHANGED <<timer_list, next, initial_period, last_period, repeat, tasks, history>>

-----------------------------------------------------------------------------
(* The interrupt *)

Less(period) == (period - 1) % Width

Expires(t) == running[t] /\ Less(last_period[t]) = 0

KeepRunning(t)  == TRUE        \* mutant: a single timer goes on
RunsOn(t) == repeat[t]

(* The messages, once the walk has passed i timers. *)
Posted[i \in 0 .. Length] ==
  IF i = 0 THEN task_list
  ELSE IF Expires(List[i]) THEN Append(Posted[i - 1], List[i]) ELSE Posted[i - 1]

os_timer_check_list ==
  LET listed == {t \in Timers : is_timer_in_list(t)} IN
  /\ Len(task_list) < MaxMessages
  /\ last_period' = [t \in Timers |->
       IF t \notin listed \/ ~running[t] THEN last_period[t]
       ELSE IF Expires(t) /\ RunsOn(t) THEN initial_period[t] ELSE Less(last_period[t])]
  /\ running' = [t \in Timers |->
       running[t] /\ (t \in listed /\ Expires(t) => RunsOn(t))]
  /\ task_list' = Posted[Length]
  /\ elapsed' = [t \in Timers |->
       IF t \notin initialised \/ ~running[t] THEN elapsed[t]
       ELSE IF elapsed[t] + 1 = initial_period[t] THEN 0 ELSE elapsed[t] + 1]
  /\ UNCHANGED <<timer_list, next, initial_period, repeat, msg, initialised>>

-----------------------------------------------------------------------------
(* task_schedule: take a message, call os_timer_trigger_handler, free it *)

task_msg_get ==
  /\ msg = NULL /\ task_list # <<>>
  /\ msg' = Head(task_list) /\ task_list' = Tail(task_list)
  /\ UNCHANGED <<timers, history>>

os_timer_trigger_handler ==
  /\ msg # NULL
  /\ msg' = NULL
  /\ UNCHANGED <<timers, task_list, history>>

-----------------------------------------------------------------------------
Init ==
  /\ timer_list = NULL
  /\ next = [t \in Timers |-> NULL]
  /\ initial_period = [t \in Timers |-> 0] /\ last_period = [t \in Timers |-> 0]
  /\ running = [t \in Timers |-> FALSE] /\ repeat = [t \in Timers |-> FALSE]
  /\ task_list = <<>> /\ msg = NULL
  /\ initialised = {} /\ elapsed = [t \in Timers |-> 0]

User(t) ==
  \/ os_timer_init(t) \/ os_timer_destroy(t) \/ os_timer_stop(t)
  \/ \E period \in Periods, again \in BOOLEAN : os_timer_start(t, period, again)

task_schedule == task_msg_get \/ os_timer_trigger_handler

Next == (\E t \in Timers : User(t)) \/ os_timer_check_list \/ task_schedule

SafeSpec == Init /\ [][Next]_vars

(* The hardware ticks, and the main loop runs; nobody has to use a timer. *)
Spec == SafeSpec /\ WF_vars(os_timer_check_list) /\ WF_vars(task_schedule)

-----------------------------------------------------------------------------
(* Properties *)

Messages == Timers \cup {NULL}

TypeOK ==
  /\ timer_list \in Messages /\ next \in [Timers -> Messages]
  /\ initial_period \in [Timers -> 0 .. Width - 1]
  /\ last_period \in [Timers -> 0 .. Width - 1]
  /\ running \in [Timers -> BOOLEAN] /\ repeat \in [Timers -> BOOLEAN]
  /\ task_list \in Seq(Timers) /\ msg \in Messages
  /\ initialised \subseteq Timers /\ elapsed \in [Timers -> 0 .. Width - 1]

(* The links reach every timer that has been initialised and not been      *)
(* destroyed, each of them once, and then end: the interrupt's walk, with  *)
(* all other interrupts disabled, comes to an end and misses no timer.     *)
ListIsComplete ==
  /\ Element[Cardinality(Timers)] = NULL
  /\ {List[i] : i \in 1 .. Length} = initialised
  /\ \A i, j \in 1 .. Length : List[i] = List[j] => i = j

(* A running timer has as many ticks to go as its period has left, however *)
(* often it has been started, stopped, destroyed or initialised again.     *)
InTime ==
  \A t \in initialised : running[t] =>
    elapsed[t] < initial_period[t] /\ last_period[t] + elapsed[t] = initial_period[t]

(* The variables keep their types, and running timers are in time.         *)
TimerInv == TypeOK /\ InTime

(* A message is posted for a timer when it runs and its period is over,    *)
(* and at no other time; only a repeating timer runs on after that.        *)
Count(t) == Cardinality({i \in DOMAIN task_list : task_list[i] = t})

OneMessagePerPeriod ==
  [][\A t \in Timers :
       LET over == /\ t \in initialised /\ running[t]
                   /\ elapsed[t] + 1 = initial_period[t] /\ os_timer_check_list
       IN /\ over => Count(t)' = Count(t) + 1 /\ running'[t] = repeat[t]
          /\ Count(t)' > Count(t) => over]_vars

(* A running timer is called back, unless it is stopped or destroyed       *)
(* before its message is posted, or started again forever.                 *)
StartedAgain(t) == running[t] /\ \E p \in Periods, again \in BOOLEAN : os_timer_start(t, p, again)

CalledBack ==
  \A t \in Timers :
    \/ t \in initialised /\ running[t] ~>
         \/ msg = t
         \/ Count(t) = 0 /\ (t \notin initialised \/ ~running[t])
    \/ []<><<StartedAgain(t)>>_vars
=============================================================================
