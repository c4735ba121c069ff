---------------------------- MODULE AudioProofs ----------------------------
(***************************************************************************)
(* Theorems about the voice call and the native playback on their common   *)
(* interrupts and main loop (AudioDma.tla), for every size of the rings,   *)
(* of a frame and of the pieces of a song.                                 *)
(***************************************************************************)
EXTENDS AudioDma, CoListProofs, FiniteSetTheorems, FunctionTheorems

RX == "AUDIO_IPC_DMA_RX"
DECODE == "MP3_DECODER_DO_DECODE"
INIT == "MP3_DECODER_INIT"
PREPARE == "DECODER_PREPARE_FOR_NEXT"
CREATE == "AUDIO_ALGO_CREATE"
DESTROY == "AUDIO_ALGO_DESTROY"
AT_COMMAND == "RECEIVE_AT_COMMAND"

Ids == FromDma \cup FromOutside

(* The inductive invariant.  First the messages: at which steps a handler  *)
(* can be; those of the frames are in front; an interrupt that has been    *)
(* raised still has room for its message; a call that is gone has left no  *)
(* handler in the middle; and late counts the messages that wait without   *)
(* a call, or that came while its release was under way.                   *)
AtStep ==
  \/ running = Idle
  \/ \E id \in Ids : running = [id |-> id, at |-> "start", left |-> 2]
  \/ \E at \in {"launch", "repair", "echo"}, left \in {1, 2} :
       running = [id |-> RX, at |-> at, left |-> left]
  \/ running = [id |-> PREPARE, at |-> "destroy", left |-> 2]
  \/ running = [id |-> AT_COMMAND, at |-> "poll", left |-> 2]
  \/ running = [id |-> RX, at |-> "lost", left |-> 2]

FramesFirst ==
  \A i, j \in 1 .. Len(task_list) : i < j /\ task_list[j] = RX => task_list[i] = RX

Room ==
  /\ Behind(RX) <= MaxFrames
  /\ Behind(DECODE) <= MaxDecodings
  /\ "rx" \in pending => Behind(RX) < MaxFrames
  /\ "tx" \in pending => Behind(DECODE) < MaxDecodings

Left ==
  IF env # NULL THEN running.at # "lost"
  ELSE /\ running.id = RX => running.at \in {"start", "lost"}
       /\ Count(RX) > 0 => running = Idle \/ running.id = RX

Counted ==
  IF env # NULL /\ running.id # DESTROY THEN late = 0 ELSE Behind(RX) = late

Tasks ==
  /\ task_list \in Seq(Ids) /\ enabled \subseteq Dma /\ pending \subseteq Dma
  /\ AtStep /\ FramesFirst /\ Room

(* What the handlers still have to do for the MCU: the message that is     *)
(* being taken, and those in the list behind it.                           *)
Messages == [i \in 0 .. Len(task_list) |->
               IF i # 0 THEN task_list[i] ELSE IF running.at = "start" THEN running.id ELSE "none"]

CallIds == {CREATE, DESTROY}
SongIds == {INIT, PREPARE}
Quiet(m, ids) == \A i \in DOMAIN m : m[i] \notin ids
Once(m, id) == \A i, j \in DOMAIN m : m[i] = id /\ m[j] = id => i = j
Before(m, ids, id) == \A i, j \in DOMAIN m : m[i] \in ids /\ m[j] = id => i < j
Ended(m) == \A i \in DOMAIN m : m[i] = CREATE => \E j \in DOMAIN m : i < j /\ m[j] = DESTROY

(* A song is to come (its INIT waits, behind what is left of a call),      *)
(* plays, or is at its end.                                                *)
Freeing == Step(PREPARE, "destroy")
ToCome == /\ native_playback_started = 0 /\ ~Freeing
          /\ ~Quiet(Messages, {INIT}) /\ Once(Messages, INIT) /\ Before(Messages, CallIds, INIT)
Plays  == /\ native_playback_started = 1 /\ ~Freeing
          /\ Quiet(Messages, CallIds) /\ Quiet(Messages, {INIT})
Ends   == /\ native_playback_started = 0 /\ Freeing
          /\ Quiet(Messages, CallIds) /\ Quiet(Messages, SongIds)

Song ==
  /\ mcu \in {"idle", "call"} =>
       native_playback_started = 0 /\ ~Freeing /\ Quiet(Messages, SongIds)
  /\ mcu = "song" => (ToCome \/ Plays) /\ Quiet(Messages, {PREPARE})
  /\ mcu = "ending" => \/ /\ ToCome \/ Plays
                          /\ ~Quiet(Messages, {PREPARE}) /\ Once(Messages, PREPARE)
                          /\ Before(Messages, {INIT}, PREPARE)
                       \/ Ends

(* Unless the MCU wants a call, the last that the handlers hear of one is  *)
(* that it ends.                                                           *)
Call == mcu # "call" => (env # NULL => ~Quiet(Messages, {DESTROY})) /\ Ended(Messages)

Lines ==
  /\ handler.rx \in {NULL, "audio_algorithm_ipc_rx"}
  /\ handler.tx \in {NULL, "audio_algorithm_ipc_tx", "native_playback_ipc_tx"}
  /\ env # NULL => /\ enabled = Dma
                   /\ handler = [rx |-> "audio_algorithm_ipc_rx", tx |-> "audio_algorithm_ipc_tx"]
  /\ native_playback_started = 1 \/ Freeing =>
       enabled = {"tx"} /\ handler.tx = "native_playback_ipc_tx"
  /\ env = NULL /\ native_playback_started = 0 /\ ~Freeing => enabled = {}

Roles ==
  /\ mcu \in {"idle", "song", "ending", "call"} /\ native_playback_started \in {0, 1}
  /\ Song /\ Call /\ Lines

(* The rings of a call.  The interrupts move in whole frames, the echo     *)
(* canceller in whole windows.  ToRun counts the runs of audio_alg_launch  *)
(* to come, ToRepair those of them that have not moved the write offset,   *)
(* and UnderEcho is the window that is taken and not yet put.              *)
WholeFrames(x) == \E k \in 0 .. PLC_FRAMES - 1 : x = k * FRAME
WholeWindows(x) == \E k \in 0 .. AEC_FRAMES - 1 : x = k * AEC_SIZE

ToRun == 2 * Count(RX) + (IF running.id = RX THEN running.left ELSE 0)
ToRepair == IF running.id = RX /\ running.at \in {"repair", "echo"} THEN ToRun - 1 ELSE ToRun
UnderEcho == IF running.at = "echo" THEN AEC_SIZE ELSE 0

Unrepaired == Lag(env.plc_insert, env.plc_write)
Unheard    == Lag(env.plc_insert, env.plc_read)
Unechoed    == Lag(env.plc_insert, env.plc_aec)
Near       == Lag(env.local_write, env.local_read)
Unsent     == (env.out_write - env.out_read) % OUT_MAX

Rings ==
  env # NULL =>
    /\ env \in Envs
    /\ WholeFrames(env.plc_insert) /\ WholeFrames(env.plc_write) /\ WholeFrames(env.plc_read)
    /\ WholeFrames(env.local_write) /\ WholeWindows(env.out_write)
    /\ env.launches = Count(RX) + (IF Step(RX, "start") THEN 1 ELSE 0)
    /\ env.settle # 0 => ToRun = 0

(* What lags behind what: first the repair, for a ring that holds what the *)
(* main loop may be behind, then the rest, for one with room to spare.     *)
(* The interrupts of a frame come in any order, a difference of two.       *)
Repair == env # NULL => Unrepaired = FRAME * ToRepair

InStep ==
  env # NULL =>
    /\ Unechoed = 8 * FRAME + SHIFT + Near
    /\ Near + UnderEcho <= AEC_OFFSET - 1 + FRAME * ToRun
    /\ Unsent + Near + UnderEcho + 8 * FRAME = 3 * AEC_SIZE + Unheard
    /\ env.settle # 0 => Unheard = 8 * FRAME
    /\ env.settle = 0 => LET rx == "rx" \in pending
                             tx == "tx" \in pending
                         IN /\ Unheard >= IF rx /\ ~tx THEN 6 * FRAME
                                          ELSE IF tx /\ ~rx THEN 10 * FRAME ELSE 8 * FRAME
                            /\ Unheard <= IF rx /\ ~tx THEN 8 * FRAME
                                          ELSE IF tx /\ ~rx THEN 12 * FRAME ELSE 10 * FRAME

(* The song: the pieces s of the list are its bytes in order. *)
Pcm == [from : 0 .. Positions - 1, offset : Nat, length : Nat]
Begins(data, n) == (data[n].from + data[n].offset) % Positions
Finishes(data, n) == (data[n].from + data[n].length) % Positions
BytesOf(data) == UNION {{n} \X (data[n].offset .. data[n].length - 1) : n \in Elements}

Pieces(list, data, s, from, to) ==
  /\ Represents(list, s)
  /\ data \in [Elements -> Pcm]
  /\ \A k \in 1 .. Len(s) : /\ data[s[k]].offset < data[s[k]].length
                            /\ Begins(data, s[k]) = IF k = 1 THEN from ELSE Finishes(data, s[k - 1])
  /\ to = IF s = <<>> THEN from ELSE Finishes(data, s[Len(s)])
  /\ \A n \in Elements : data[n] = NoData <=> \A k \in 1 .. Len(s) : s[k] # n

Fills(list, data, size, from, to) ==
  /\ from \in 0 .. Positions - 1 /\ to \in 0 .. Positions - 1
  /\ \E s \in Seq(Elements) : Pieces(list, data, s, from, to)
  /\ IsFiniteSet(BytesOf(data)) /\ size = Cardinality(BytesOf(data))

Feeding ==
  /\ Fills(pcm_data_list, pcm_data, pcm_size_in_list, played, decoded) /\ fed \in BOOLEAN
  /\ native_playback_started = 0 /\ ~Freeing => co_list_is_empty(pcm_data_list)

(* A message for each time that little was left.                           *)
Fed ==
  fed => /\ native_playback_started = 1
         /\ pcm_size_in_list + NeededLength * Behind(DECODE) >= DecoderThd
-----------------------------------------------------------------------------
(* Counting messages. *)

USE DEF RX, DECODE, INIT, PREPARE, CREATE, DESTROY, AT_COMMAND

Times(q, id) == Cardinality({i \in 1 .. Len(q) : q[i] = id})

LEMMA TimesType ==
  ASSUME NEW q \in Seq(Ids), NEW id
  PROVE  /\ Times(q, id) \in Nat /\ IsFiniteSet({i \in 1 .. Len(q) : q[i] = id})
         /\ Times(q, id) > 0 <=> \E i \in 1 .. Len(q) : q[i] = id
<1> DEFINE A == {i \in 1 .. Len(q) : q[i] = id}
<1>1. IsFiniteSet(1 .. Len(q))
  BY FS_Interval
<1>2. IsFiniteSet(A)
  BY <1>1, FS_Subset
<1>3. A # {} <=> \E i \in 1 .. Len(q) : q[i] = id
  OBVIOUS
<1>4. Times(q, id) = Cardinality(A)
  BY DEF Times
<1> HIDE DEF A
<1>5. Cardinality(A) \in Nat /\ (Cardinality(A) = 0 <=> A = {})
  BY <1>2, FS_CardinalityType, FS_EmptySet
<1>. QED BY <1>2, <1>3, <1>4, <1>5 DEF A

LEMMA TimesAppend ==
  ASSUME NEW q \in Seq(Ids), NEW x \in Ids
  PROVE  /\ Append(q, x) \in Seq(Ids)
         /\ \A id : Times(Append(q, x), id) = Times(q, id) + (IF x = id THEN 1 ELSE 0)
<1> SUFFICES ASSUME NEW id
             PROVE  /\ Append(q, x) \in Seq(Ids)
                    /\ Times(Append(q, x), id) = Times(q, id) + (IF x = id THEN 1 ELSE 0)
  OBVIOUS
<1> DEFINE n == Len(q)
           r == Append(q, x)
           A == {i \in 1 .. n : q[i] = id}
           B == {i \in 1 .. Len(r) : r[i] = id}
<1>1. /\ r \in Seq(Ids) /\ Len(r) = n + 1 /\ r[n + 1] = x /\ n \in Nat
      /\ \A i \in 1 .. n : r[i] = q[i]
  OBVIOUS
<1>2. IsFiniteSet(A) /\ Times(q, id) = Cardinality(A) /\ Times(q, id) \in Nat
  BY TimesType DEF Times
<1>3. n + 1 \notin A
  BY <1>1
<1>4. B = IF x = id THEN A \cup {n + 1} ELSE A
  <2>1. \A i : i \in 1 .. n + 1 <=> i \in 1 .. n \/ i = n + 1
    BY <1>1
  <2>2. n + 1 \notin 1 .. n
    BY <1>1
  <2>. QED BY <1>1, <2>1, <2>2
<1>0. Times(r, id) = Cardinality(B)
  BY DEF Times
<1> HIDE DEF A, B, r, n
<1>5. CASE x = id
  <2>1. Cardinality(A \cup {n + 1}) = Cardinality(A) + 1
    BY <1>2, <1>3, FS_AddElement
  <2>. QED BY <1>0, <1>1, <1>2, <1>4, <1>5, <2>1 DEF r
<1>6. CASE x # id
  BY <1>0, <1>1, <1>2, <1>4, <1>6 DEF r
<1>. QED BY <1>5, <1>6

(* What is in front moves all the others up by one. *)
LEMMA FrontIs ==
  ASSUME NEW q \in Seq(Ids), NEW x \in Ids
  PROVE  /\ <<x>> \o q \in Seq(Ids) /\ Len(<<x>> \o q) = Len(q) + 1 /\ (<<x>> \o q)[1] = x
         /\ \A i \in 1 .. Len(q) : (<<x>> \o q)[i + 1] = q[i]
OBVIOUS

LEMMA TimesFront ==
  ASSUME NEW q \in Seq(Ids), NEW r \in Seq(Ids), NEW x \in Ids, Len(r) = Len(q) + 1, r[1] = x,
         \A i \in 1 .. Len(q) : r[i + 1] = q[i]
  PROVE  \A id : Times(r, id) = Times(q, id) + (IF x = id THEN 1 ELSE 0)
<1> SUFFICES ASSUME NEW id
             PROVE  Times(r, id) = Times(q, id) + (IF x = id THEN 1 ELSE 0)
  OBVIOUS
<1> DEFINE n == Len(q)
           A == {i \in 1 .. n : q[i] = id}
           B == {i \in 1 .. n + 1 : r[i] = id}
           C == {i + 1 : i \in A}
           f == [i \in A |-> i + 1]
<1>1. n \in Nat /\ \A i \in A : i \in Nat /\ i >= 1
  OBVIOUS
<1>2. IsFiniteSet(A) /\ Times(q, id) = Cardinality(A) /\ Times(q, id) \in Nat
  BY TimesType DEF Times
<1>3. Times(r, id) = Cardinality(B)
  BY DEF Times
<1>4. B = IF x = id THEN C \cup {1} ELSE C
  <2>1. \A j : j \in 1 .. n + 1 <=> j = 1 \/ (j \in Int /\ j - 1 \in 1 .. n)
    BY <1>1
  <2>2. \A j \in Int : j - 1 \in 1 .. n => r[j] = q[j - 1]
    BY <1>1
  <2>3. \A j : j \in C <=> j \in Int /\ j - 1 \in A
    <3>1. \A j \in Int : j = (j - 1) + 1
      OBVIOUS
    <3>. QED BY <1>1, <3>1
  <2>4. \A j : j \in C <=> j \in Int /\ j - 1 \in 1 .. n /\ r[j] = id
    <3>1. \A j \in Int : j - 1 \in A <=> j - 1 \in 1 .. n /\ q[j - 1] = id
      OBVIOUS
    <3> HIDE DEF A, C
    <3>. QED BY <2>2, <2>3, <3>1
  <2>5. \A j : j \in B <=> j \in 1 .. n + 1 /\ r[j] = id
    OBVIOUS
  <2>6. 1 \notin C
    BY <2>4
  <2> HIDE DEF B, C, n
  <2>7. CASE x = id
    <3>1. \A j : j \in B <=> j \in C \/ j = 1
      BY <2>1, <2>4, <2>5, <2>7
    <3>. QED BY <2>7, <3>1
  <2>8. CASE x # id
    <3>1. \A j : j \in B <=> j \in C
      BY <2>1, <2>4, <2>5, <2>6, <2>8
    <3>. QED BY <2>8, <3>1
  <2>. QED BY <2>7, <2>8
<1>5. IsFiniteSet(C) /\ Cardinality(C) = Cardinality(A)
  <2>1. f \in [A -> C] /\ (\A i, j \in A : f[i] = f[j] => i = j) /\ \A c \in C : \E i \in A : f[i] = c
    <3> HIDE DEF A
    <3>. QED BY <1>1
  <2>2. f \in Bijection(A, C)
    <3> HIDE DEF A, C, f
    <3>. QED BY <2>1 DEF Bijection, Injection, IsInjective, Surjection
  <2> HIDE DEF A, C, f
  <2>3. ExistsBijection(A, C)
    BY <2>2 DEF ExistsBijection
  <2>. QED BY <1>2, <2>3, FS_Bijection
<1>6. 1 \notin C
  <2> HIDE DEF A
  <2>. QED BY <1>1
<1> HIDE DEF A, B, C
<1>7. CASE x = id
  <2>1. Cardinality(C \cup {1}) = Cardinality(C) + 1
    BY <1>5, <1>6, FS_AddElement
  <2>. QED BY <1>2, <1>3, <1>4, <1>5, <1>7, <2>1
<1>8. CASE x # id
  BY <1>2, <1>3, <1>4, <1>5, <1>8
<1>. QED BY <1>7, <1>8

LEMMA TailIs ==
  ASSUME NEW q \in Seq(Ids), q # <<>>
  PROVE  /\ Tail(q) \in Seq(Ids) /\ Len(q) = Len(Tail(q)) + 1 /\ Head(q) = q[1] /\ q[1] \in Ids
         /\ \A i \in 1 .. Len(Tail(q)) : q[i + 1] = Tail(q)[i]
         /\ \A id : Times(q, id) = Times(Tail(q), id) + (IF q[1] = id THEN 1 ELSE 0)
<1> DEFINE r == Tail(q)
<1>1. /\ r \in Seq(Ids) /\ Len(q) = Len(r) + 1 /\ Head(q) = q[1] /\ q[1] \in Ids
      /\ \A i \in 1 .. Len(r) : q[i + 1] = r[i]
  OBVIOUS
<1> HIDE DEF r
<1>2. \A id : Times(q, id) = Times(r, id) + (IF q[1] = id THEN 1 ELSE 0)
  BY <1>1, TimesFront
<1>. QED BY <1>1, <1>2 DEF r

(* What is in front of everything fills the first places. *)
LEMMA TheFirst ==
  ASSUME NEW q \in Seq(Ids), NEW id,
         \A i, j \in 1 .. Len(q) : i < j /\ q[j] = id => q[i] = id
  PROVE  \A i \in 1 .. Times(q, id) : i \in 1 .. Len(q) /\ q[i] = id
<1> DEFINE n == Len(q)
           A == {i \in 1 .. n : q[i] = id}
<1>1. n \in Nat /\ Times(q, id) = Cardinality(A) /\ Times(q, id) \in Nat
  <2>1. Times(q, id) \in Nat
    BY TimesType
  <2>. QED BY <2>1 DEF Times
<1> SUFFICES ASSUME NEW i \in 1 .. Times(q, id), ~(i \in 1 .. n /\ q[i] = id) PROVE FALSE
  OBVIOUS
<1>2. i \in Nat /\ i >= 1 /\ i <= Cardinality(A)
  BY <1>1
<1>3. A \subseteq 1 .. i - 1
  <2> SUFFICES ASSUME NEW j \in A, ~(j <= i - 1) PROVE FALSE
    BY <1>2
  <2>1. j \in 1 .. n /\ q[j] = id /\ i <= j
    BY <1>2
  <2>2. i \in 1 .. n
    BY <1>1, <1>2, <2>1
  <2>. QED BY <1>2, <2>1, <2>2
<1>4. IsFiniteSet(1 .. i - 1) /\ Cardinality(1 .. i - 1) = i - 1
  <2>1. 1 \in Int /\ i - 1 \in Int /\ (1 > i - 1 => i - 1 = 0) /\ i - 1 - 1 + 1 = i - 1
    BY <1>2
  <2>2. IsFiniteSet(1 .. i - 1) /\ Cardinality(1 .. i - 1) = IF 1 > i - 1 THEN 0 ELSE i - 1 - 1 + 1
    BY <2>1, FS_Interval
  <2>. QED BY <2>1, <2>2
<1> HIDE DEF A
<1>5. Cardinality(A) <= i - 1
  <2> DEFINE m == i - 1
             I == 1 .. m
  <2>1. IsFiniteSet(I) /\ Cardinality(I) = m /\ A \in SUBSET I
    BY <1>3, <1>4
  <2> HIDE DEF m, I
  <2>2. Cardinality(A) <= Cardinality(I)
    BY ONLY <2>1, FS_Subset
  <2>. QED BY <2>1, <2>2 DEF m
<1>. QED BY <1>1, <1>2, <1>5

-----------------------------------------------------------------------------
(* What a step does to the messages, to the main loop and to the DMA.      *)
FramePosted == /\ "rx" \in pending /\ pending' = pending \ {"rx"}
               /\ task_list' = <<RX>> \o task_list /\ UNCHANGED running
DecodeAsked == /\ "tx" \in pending /\ pending' = pending \ {"tx"}
               /\ task_list' = Append(task_list, DECODE) /\ UNCHANGED running
Outside     == \E id \in FromOutside : task_list' = Append(task_list, id) /\ UNCHANGED <<running, pending>>
Moves       == /\ running # Idle /\ AtStep' /\ running'.id \in {running.id, "none"} /\ running'.at # "start"
               /\ UNCHANGED task_list /\ pending' \subseteq pending
Served      == UNCHANGED <<task_list, running>> /\ pending' \subseteq pending

Kind == FramePosted \/ DecodeAsked \/ Outside \/ TaskSchedule \/ Moves \/ Served \/ Frame

LEMMA AllIds ==
  /\ Ids = {RX, DECODE, INIT, PREPARE, CREATE, DESTROY, AT_COMMAND}
  /\ Dma = {"rx", "tx"}
BY DEF Ids, FromDma, FromOutside, Dma

(* The steps of the main loop. *)
LEMMA StepIs ==
  ASSUME AtStep
  PROVE  /\ running \in [id : Ids \cup {"none"}, left : 0 .. 2,
                         at : {"get", "start", "launch", "repair", "echo", "destroy", "poll", "lost"}]
         /\ running = Idle <=> running.at = "get"
         /\ running.id = "none" => running = Idle
         /\ running.at = "start" => running = [id |-> running.id, at |-> "start", left |-> 2]
         /\ running.at \in {"launch", "repair", "echo"} => running.id = RX /\ running.left \in {1, 2}
         /\ running.at = "poll" => running.id = AT_COMMAND
         /\ running.at = "destroy" => running.id = PREPARE
         /\ running.at = "lost" => running = [id |-> RX, at |-> "lost", left |-> 2]
BY AllIds DEF AtStep, Idle

LEMMA DoneMoves ==
  ASSUME AtStep, running # Idle, Done, UNCHANGED task_list, pending' \subseteq pending
  PROVE  Moves
BY DEF Done, Moves, AtStep, Idle

LEMMA GotoMoves ==
  ASSUME AtStep, NEW at, Goto(at), UNCHANGED task_list, pending' \subseteq pending,
         \/ running.id = RX /\ at \in {"launch", "repair", "echo"}
         \/ Step(PREPARE, "start") /\ at = "destroy"
         \/ Step(AT_COMMAND, "start") /\ at = "poll"
         \/ Step(RX, "start") /\ at = "lost"
  PROVE  Moves
<1>1. running' = [running EXCEPT !.at = at] /\ running # Idle
  BY DEF Goto, Step, Idle
<1>2. running' = [id |-> running.id, at |-> at, left |-> running.left]
  BY <1>1, StepIs
<1>3. CASE running.id = RX /\ at \in {"launch", "repair", "echo"}
  <2>1. running.left \in {1, 2}
    BY <1>1, <1>3 DEF AtStep, Idle
  <2>2. AtStep'
    BY <1>2, <1>3, <2>1 DEF AtStep
  <2>. QED BY <1>1, <1>2, <1>3, <2>2 DEF Moves
<1>4. CASE \/ Step(PREPARE, "start") /\ at = "destroy"
           \/ Step(AT_COMMAND, "start") /\ at = "poll"
           \/ Step(RX, "start") /\ at = "lost"
  <2>1. running.left = 2
    BY <1>1, <1>4, StepIs DEF Step
  <2>2. AtStep'
    BY <1>2, <1>4, <2>1 DEF AtStep, Step
  <2>. QED BY <1>1, <1>2, <1>4, <2>2 DEF Moves
<1>5. \/ running.id = RX /\ at \in {"launch", "repair", "echo"}
      \/ Step(PREPARE, "start") /\ at = "destroy"
      \/ Step(AT_COMMAND, "start") /\ at = "poll"
      \/ Step(RX, "start") /\ at = "lost"
  OBVIOUS
<1>. QED BY ONLY <1>3, <1>4, <1>5

LEMMA LaunchMoves ==
  ASSUME AtStep, running.at \in {"repair", "echo"}, LaunchReturns, UNCHANGED <<task_list, pending>>
  PROVE  /\ Moves
         /\ running.left = 1 => running' = Idle
         /\ running.left = 2 => running' = [id |-> RX, at |-> "launch", left |-> 1]
<1>1. running.id = RX /\ running.left \in {1, 2} /\ running # Idle
  BY StepIs DEF Idle
<1>2. running.left = 2 => running' = [id |-> RX, at |-> "launch", left |-> 1]
  <2> SUFFICES ASSUME running.left = 2 PROVE running' = [id |-> RX, at |-> "launch", left |-> 1]
    OBVIOUS
  <2>1. running' = [running EXCEPT !.at = "launch", !.left = running.left - 1]
    BY DEF LaunchReturns
  <2>2. running' = [id |-> running.id, at |-> "launch", left |-> running.left - 1]
    BY <2>1, StepIs
  <2>. QED BY <1>1, <2>2
<1>. QED BY <1>1, <1>2, DoneMoves DEF LaunchReturns, Done, Moves, AtStep, Idle

LEMMA VoiceKind ==
  ASSUME Tasks, VoiceInterrupts \/ VoiceHandlers
  PROVE  Kind /\ enabled' \subseteq Dma
<1>0. AtStep /\ enabled \subseteq Dma /\ Dma \subseteq Dma
  BY DEF Tasks
<1>1. CASE audio_algorithm_ipc_rx
  BY <1>0, <1>1 DEF audio_algorithm_ipc_rx, Interrupt, Kind, FramePosted, Served, task_msg_insert_front
<1>2. CASE audio_algorithm_ipc_tx
  BY <1>0, <1>2 DEF audio_algorithm_ipc_tx, Interrupt, Kind, Served
<1>3. CASE audio_init
  BY <1>0, <1>3, DoneMoves DEF audio_init, Step, Kind, Idle
<1>4. CASE audio_algorithm_release
  BY <1>0, <1>4, DoneMoves DEF audio_algorithm_release, Step, Kind, Idle
<1>5. CASE audio_algorithm_ipc_rx_handler
  <2>1. Step(RX, "start") /\ running # Idle /\ UNCHANGED <<task_list, pending, enabled>>
    BY <1>5 DEF audio_algorithm_ipc_rx_handler, Step, Idle
  <2>2. CASE Done
    BY <1>0, <2>1, <2>2, DoneMoves DEF Kind
  <2>3. CASE Goto("launch")
    BY <1>0, <2>1, <2>3, GotoMoves DEF Kind, Step
  <2>4. CASE Goto("lost")
    BY <1>0, <2>1, <2>4, GotoMoves DEF Kind, Step
  <2>. QED BY <1>5, <2>2, <2>3, <2>4, <2>1, <1>0 DEF audio_algorithm_ipc_rx_handler
<1>6. CASE LaunchRepair
  BY <1>0, <1>6, GotoMoves DEF LaunchRepair, Step, Kind
<1>7. CASE LaunchTakesWindows
  <2>1. Step(RX, "repair") /\ UNCHANGED <<task_list, pending, enabled>>
    BY <1>7 DEF LaunchTakesWindows
  <2>2. CASE Goto("echo")
    BY <1>0, <2>1, <2>2, GotoMoves DEF Step, Kind
  <2>3. CASE LaunchReturns
    BY <1>0, <2>1, <2>3, LaunchMoves DEF Step, Kind
  <2>. QED BY <1>7, <2>1, <2>2, <2>3, <1>0 DEF LaunchTakesWindows
<1>8. CASE LaunchPutsWindow
  BY <1>0, <1>8, LaunchMoves DEF LaunchPutsWindow, Step, Kind
<1>. QED BY <1>1, <1>2, <1>3, <1>4, <1>5, <1>6, <1>7, <1>8 DEF VoiceInterrupts, VoiceHandlers

LEMMA TxKind ==
  ASSUME native_playback_ipc_tx, "tx" \in pending
  PROVE  /\ DecodeAsked \/ Served
         /\ UNCHANGED <<running, enabled>> /\ pending' = pending \ {"tx"}
BY DEF native_playback_ipc_tx, task_msg_insert, DecodeAsked, Served

LEMMA PlaybackKind ==
  ASSUME Tasks,
         \/ PlaybackInterrupt \/ DecodesNothing \/ Decodes \/ native_playback_init \/ DestroyBegins
         \/ native_playback_destroy \/ PollBegins \/ native_playback_ipc_check_irq \/ PollEnds
  PROVE  Kind /\ enabled' \subseteq Dma
<1>0. AtStep /\ enabled \subseteq Dma /\ "tx" \in Dma
  BY DEF Tasks, Dma
<1>1. CASE PlaybackInterrupt
  BY <1>0, <1>1, TxKind DEF PlaybackInterrupt, Interrupt, Kind
<1>2. CASE DecodesNothing
  BY <1>0, <1>2, DoneMoves DEF DecodesNothing, Step, Kind, Idle
<1>3. CASE Decodes
  BY <1>0, <1>3, DoneMoves DEF Decodes, Step, Kind, Idle
<1>4. CASE native_playback_init
  BY <1>0, <1>4, DoneMoves DEF native_playback_init, Step, Kind, Idle
<1>5. CASE DestroyBegins
  BY <1>0, <1>5, GotoMoves DEF DestroyBegins, Step, Kind
<1>6. CASE native_playback_destroy
  BY <1>0, <1>6, DoneMoves DEF native_playback_destroy, Step, Kind, Idle
<1>7. CASE PollBegins
  BY <1>0, <1>7, GotoMoves DEF PollBegins, Step, Kind
<1>8. CASE native_playback_ipc_check_irq
  BY <1>0, <1>8, TxKind DEF native_playback_ipc_check_irq, Kind
<1>9. CASE PollEnds
  BY <1>0, <1>9, DoneMoves DEF PollEnds, Step, Kind, Idle
<1>. QED BY <1>1, <1>2, <1>3, <1>4, <1>5, <1>6, <1>7, <1>8, <1>9

LEMMA Kinds ==
  ASSUME Tasks, [Next]_vars
  PROVE  Kind /\ enabled' \subseteq Dma
<1>0. enabled \subseteq Dma
  BY DEF Tasks
<1>1. CASE Interrupts
  BY <1>1, VoiceKind, PlaybackKind DEF Interrupts
<1>2. CASE Take
  BY <1>0, <1>2 DEF Take, Kind, TaskSchedule
<1>3. CASE Handlers
  BY <1>3, VoiceKind, PlaybackKind DEF Handlers, PrepareForNext
<1>4. CASE DmaFrame
  BY <1>0, <1>4 DEF DmaFrame, Kind, Frame
<1>5. ASSUME NEW id \in FromOutside, Post(id) PROVE Kind /\ enabled' \subseteq Dma
  BY <1>0, <1>5 DEF Post, task_msg_insert, Kind, Outside
<1>6. CASE ipc_rx_user_handler \/ AtCommand
  BY <1>5, <1>6 DEF ipc_rx_user_handler, McuStartsSong, McuEndsSong, McuStartsCall, McuEndsCall,
                    AtCommand, FromOutside
<1>7. CASE UNCHANGED vars
  BY <1>0, <1>7 DEF vars, dmaVars, Kind, Served
<1>. QED BY <1>1, <1>2, <1>3, <1>4, <1>6, <1>7 DEF Next, DspIsLost

LEMMA CountIs ==
  /\ \A id : Count(id) = Times(task_list, id) /\ Count(id)' = Times(task_list', id)
  /\ \A id : Behind(id) = Times(task_list, id) + (IF running.id = id THEN 1 ELSE 0)
  /\ \A id : Behind(id)' = Times(task_list', id) + (IF running'.id = id THEN 1 ELSE 0)
BY DEF Count, Times, Behind

LEMMA Bounds ==
  /\ MaxFrames \in Nat /\ MaxFrames >= 1 /\ MaxDecodings \in Nat /\ MaxDecodings >= 1
  /\ MaxTasks \in Nat
BY TaskBounds

(* How the list changes. *)
LEMMA PostedFrame ==
  ASSUME Tasks, FramePosted
  PROVE  /\ task_list' \in Seq(Ids) /\ Len(task_list') = Len(task_list) + 1 /\ task_list'[1] = RX
         /\ \A i \in 1 .. Len(task_list) : task_list'[i + 1] = task_list[i]
         /\ \A id : /\ Times(task_list, id) \in Nat
                    /\ Times(task_list', id) = Times(task_list, id) + (IF id = RX THEN 1 ELSE 0)
<1>1. task_list \in Seq(Ids) /\ RX \in Ids /\ task_list' = <<RX>> \o task_list
  BY AllIds DEF Tasks, FramePosted
<1>2. /\ task_list' \in Seq(Ids) /\ Len(task_list') = Len(task_list) + 1 /\ task_list'[1] = RX
      /\ \A i \in 1 .. Len(task_list) : task_list'[i + 1] = task_list[i]
  BY <1>1, FrontIs
<1>3. \A id : Times(task_list', id) = Times(task_list, id) + (IF RX = id THEN 1 ELSE 0)
  BY <1>1, <1>2, TimesFront
<1>. QED BY <1>1, <1>2, <1>3, TimesType

LEMMA Appended ==
  ASSUME Tasks, NEW x \in Ids, task_list' = Append(task_list, x)
  PROVE  /\ task_list' \in Seq(Ids) /\ Len(task_list') = Len(task_list) + 1
         /\ task_list'[Len(task_list) + 1] = x
         /\ \A i \in 1 .. Len(task_list) : task_list'[i] = task_list[i]
         /\ \A id : /\ Times(task_list, id) \in Nat
                    /\ Times(task_list', id) = Times(task_list, id) + (IF id = x THEN 1 ELSE 0)
<1>1. task_list \in Seq(Ids)
  BY DEF Tasks
<1>2. \A id : Times(task_list', id) = Times(task_list, id) + (IF x = id THEN 1 ELSE 0)
  BY <1>1, TimesAppend
<1>3. \A id : Times(task_list, id) \in Nat
  BY <1>1, TimesType
<1>4. /\ task_list' \in Seq(Ids) /\ Len(task_list') = Len(task_list) + 1
      /\ task_list'[Len(task_list) + 1] = x
      /\ \A i \in 1 .. Len(task_list) : task_list'[i] = task_list[i]
  BY <1>1
<1>. QED BY <1>2, <1>3, <1>4

LEMMA Taken ==
  ASSUME Tasks, TaskSchedule
  PROVE  /\ task_list' \in Seq(Ids) /\ Len(task_list) = Len(task_list') + 1
         /\ \A i \in 1 .. Len(task_list') : task_list[i + 1] = task_list'[i]
         /\ running' = [id |-> task_list[1], at |-> "start", left |-> 2] /\ task_list[1] \in Ids
         /\ \A id : /\ Times(task_list', id) \in Nat
                    /\ Times(task_list, id) = Times(task_list', id) + (IF running'.id = id THEN 1 ELSE 0)
         /\ running = Idle
<1>1. /\ task_list \in Seq(Ids) /\ task_list # <<>> /\ task_list' = Tail(task_list) /\ running = Idle
      /\ running' = [id |-> Head(task_list), at |-> "start", left |-> 2]
  BY DEF Tasks, TaskSchedule
<1>2. /\ task_list' \in Seq(Ids) /\ Len(task_list) = Len(task_list') + 1
      /\ Head(task_list) = task_list[1] /\ task_list[1] \in Ids
      /\ \A i \in 1 .. Len(task_list') : task_list[i + 1] = task_list'[i]
      /\ \A id : Times(task_list, id) = Times(task_list', id) + (IF task_list[1] = id THEN 1 ELSE 0)
  BY <1>1, TailIs
<1>3. \A id : Times(task_list', id) \in Nat
  BY <1>2, TimesType
<1>4. running' = [id |-> task_list[1], at |-> "start", left |-> 2]
  BY <1>1, <1>2
<1>5. running'.id = task_list[1]
  BY <1>4
<1>. QED BY <1>1, <1>2, <1>3, <1>4, <1>5

(* Tasks is preserved. *)
LEMMA FramePostedTasks ==
  ASSUME Tasks, FramePosted, enabled' \subseteq Dma
  PROVE  Tasks'
<1>1. FramesFirst /\ Room /\ AtStep /\ pending \subseteq Dma
  BY DEF Tasks
<1>2. FramesFirst'
  <2> SUFFICES ASSUME NEW i \in 1 .. Len(task_list'), NEW j \in 1 .. Len(task_list'), i < j,
                      task_list'[j] = RX
               PROVE  task_list'[i] = RX
    BY DEF FramesFirst
  <2>0. task_list \in Seq(Ids) /\ Len(task_list) \in Nat
    BY DEF Tasks
  <2>1. CASE i = 1
    BY <2>1, PostedFrame
  <2>2. CASE i # 1
    <3>1. i - 1 \in 1 .. Len(task_list) /\ j - 1 \in 1 .. Len(task_list) /\ i - 1 < j - 1
          /\ (i - 1) + 1 = i /\ (j - 1) + 1 = j
      BY <2>0, <2>2, PostedFrame
    <3>2. task_list'[i] = task_list[i - 1] /\ task_list'[j] = task_list[j - 1]
      BY <3>1, PostedFrame
    <3>. QED BY <1>1, <3>1, <3>2 DEF FramesFirst
  <2>. QED BY <2>1, <2>2
<1>3. Room'
  <2>1. /\ "rx" \in pending /\ pending' = pending \ {"rx"} /\ running' = running
    BY DEF FramePosted
  <2>2. /\ Times(task_list', RX) = Times(task_list, RX) + 1 /\ Times(task_list, RX) \in Nat
        /\ Times(task_list', DECODE) = Times(task_list, DECODE)
    BY PostedFrame
  <2>. QED BY <1>1, <2>1, <2>2, CountIs, Bounds DEF Room
<1>4. AtStep'
  BY <1>1 DEF AtStep, FramePosted
<1>. QED BY <1>1, <1>2, <1>3, <1>4, PostedFrame DEF Tasks, FramePosted

LEMMA AppendedTasks ==
  ASSUME Tasks, NEW x \in Ids \ {RX}, task_list' = Append(task_list, x), UNCHANGED running,
         pending' \subseteq pending, enabled' \subseteq Dma,
         x = DECODE => "tx" \in pending /\ "tx" \notin pending'
  PROVE  Tasks'
<1>1. FramesFirst /\ Room /\ AtStep /\ pending \subseteq Dma /\ Len(task_list) \in Nat
  BY DEF Tasks
<1>2. FramesFirst'
  <2> SUFFICES ASSUME NEW i \in 1 .. Len(task_list'), NEW j \in 1 .. Len(task_list'), i < j,
                      task_list'[j] = RX
               PROVE  task_list'[i] = RX
    BY DEF FramesFirst
  <2>1. j # Len(task_list) + 1
    BY Appended
  <2>2. i \in 1 .. Len(task_list) /\ j \in 1 .. Len(task_list)
    BY <1>1, <2>1, Appended
  <2>3. task_list'[i] = task_list[i] /\ task_list'[j] = task_list[j]
    BY <2>2, Appended
  <2>. QED BY <1>1, <2>2, <2>3 DEF FramesFirst
<1>3. Room'
  <2>1. /\ Times(task_list', RX) = Times(task_list, RX)
        /\ Times(task_list', DECODE) = Times(task_list, DECODE) + (IF x = DECODE THEN 1 ELSE 0)
        /\ Times(task_list, RX) \in Nat /\ Times(task_list, DECODE) \in Nat
    BY Appended
  <2>. QED BY <1>1, <2>1, CountIs, Bounds DEF Room
<1>4. AtStep'
  BY <1>1 DEF AtStep
<1>. QED BY <1>1, <1>2, <1>3, <1>4, Appended DEF Tasks

LEMMA TakenTasks ==
  ASSUME Tasks, TaskSchedule, enabled' \subseteq Dma
  PROVE  Tasks'
<1>1. FramesFirst /\ Room /\ AtStep /\ pending \subseteq Dma /\ pending' = pending
  BY DEF Tasks, TaskSchedule
<1>2. FramesFirst'
  <2> SUFFICES ASSUME NEW i \in 1 .. Len(task_list'), NEW j \in 1 .. Len(task_list'), i < j,
                      task_list'[j] = RX
               PROVE  task_list'[i] = RX
    BY DEF FramesFirst
  <2>0. task_list' \in Seq(Ids) /\ Len(task_list') \in Nat
    BY Taken
  <2>1. i + 1 \in 1 .. Len(task_list) /\ j + 1 \in 1 .. Len(task_list) /\ i + 1 < j + 1
    BY <2>0, Taken
  <2>2. task_list'[i] = task_list[i + 1] /\ task_list'[j] = task_list[j + 1]
    BY Taken
  <2>. QED BY <1>1, <2>1, <2>2 DEF FramesFirst
<1>3. Room'
  <2>1. \A id \in {RX, DECODE} :
          /\ Times(task_list', id) \in Nat
          /\ Times(task_list, id) = Times(task_list', id) + (IF running'.id = id THEN 1 ELSE 0)
          /\ running.id # id
    BY Taken DEF Idle
  <2>2. \A id \in {RX, DECODE} : Behind(id)' = Behind(id)
    BY <2>1, CountIs
  <2>. QED BY <1>1, <2>2 DEF Room
<1>4. AtStep'
  BY Taken DEF AtStep
<1>. QED BY <1>1, <1>2, <1>3, <1>4, Taken DEF Tasks

LEMMA MovesTasks ==
  ASSUME Tasks, Moves \/ Served, enabled' \subseteq Dma
  PROVE  Tasks'
<1>1. /\ FramesFirst /\ Room /\ AtStep /\ pending \subseteq Dma /\ task_list \in Seq(Ids)
      /\ task_list' = task_list /\ pending' \subseteq pending
  BY DEF Tasks, Moves, Served
<1>2. AtStep' /\ running'.id \in {running.id, "none"}
  BY <1>1 DEF Moves, Served, AtStep
<1>3. Room'
  <2>1. \A id \in {RX, DECODE} : Times(task_list', id) \in Nat /\ Times(task_list, id) = Times(task_list', id)
    BY <1>1, TimesType
  <2>2. \A id \in {RX, DECODE} : Behind(id)' <= Behind(id) /\ Behind(id)' \in Nat /\ Behind(id) \in Nat
    BY <1>2, <2>1, CountIs
  <2>3. ("rx" \in pending' => "rx" \in pending) /\ ("tx" \in pending' => "tx" \in pending)
    BY <1>1
  <2>4. /\ Behind(RX)' <= Behind(RX) /\ Behind(RX)' \in Nat /\ Behind(RX) \in Nat
        /\ Behind(DECODE)' <= Behind(DECODE) /\ Behind(DECODE)' \in Nat /\ Behind(DECODE) \in Nat
    BY <2>2
  <2>5. /\ Behind(RX) <= MaxFrames /\ ("rx" \in pending => Behind(RX) < MaxFrames)
        /\ Behind(DECODE) <= MaxDecodings /\ ("tx" \in pending => Behind(DECODE) < MaxDecodings)
    BY <1>1 DEF Room
  <2>6. \A a, b, m \in Nat : a <= b => (b <= m => a <= m) /\ (b < m => a < m)
    OBVIOUS
  <2>7. /\ Behind(RX)' <= MaxFrames /\ ("rx" \in pending' => Behind(RX)' < MaxFrames)
        /\ Behind(DECODE)' <= MaxDecodings /\ ("tx" \in pending' => Behind(DECODE)' < MaxDecodings)
    BY <2>3, <2>4, <2>5, <2>6, Bounds
  <2>. QED BY <2>7 DEF Room
<1>. QED BY <1>1, <1>2, <1>3 DEF Tasks, FramesFirst

LEMMA FrameTasks ==
  ASSUME Tasks, Frame
  PROVE  Tasks'
<1>1. /\ FramesFirst /\ Room /\ AtStep /\ task_list \in Seq(Ids) /\ pending' \subseteq Dma
      /\ UNCHANGED <<task_list, running, enabled>>
      /\ Behind(RX) < MaxFrames /\ Behind(DECODE) < MaxDecodings
  BY DEF Tasks, Frame
<1>2. \A id : Behind(id)' = Behind(id)
  BY <1>1, CountIs
<1>3. Room'
  BY <1>1, <1>2 DEF Room
<1>. QED BY <1>1, <1>3 DEF Tasks, FramesFirst, AtStep

LEMMA TasksNext ==
  ASSUME Tasks, [Next]_vars
  PROVE  Tasks'
<1>1. Kind /\ enabled' \subseteq Dma
  BY Kinds
<1>2. CASE FramePosted
  BY <1>1, <1>2, FramePostedTasks
<1>3. CASE DecodeAsked
  BY <1>1, <1>3, AllIds, AppendedTasks DEF DecodeAsked
<1>4. CASE Outside
  BY <1>1, <1>4, AllIds, AppendedTasks DEF Outside, FromOutside
<1>. QED BY <1>1, <1>2, <1>3, <1>4, TakenTasks, MovesTasks, FrameTasks DEF Kind

-----------------------------------------------------------------------------
(* The arithmetic of the rings. *)

LEMMA Times0 ==
  ASSUME NEW a \in Nat, NEW b \in Nat
  PROVE  a * b \in Nat /\ (a >= 1 /\ b >= 1 => a * b >= 1 /\ a * b >= a /\ a * b >= b)
<1>1. a * b \in Nat
  OBVIOUS
<1>2. ASSUME a >= 1, b >= 1 PROVE a * b >= 1 /\ a * b >= a /\ a * b >= b
  <2>1. PICK c \in Nat : a = c + 1
    BY <1>2
  <2>2. PICK d \in Nat : b = d + 1
    BY <1>2
  <2>3. (c + 1) * (d + 1) = c * d + c + d + 1 /\ c * d \in Nat
    OBVIOUS
  <2>. QED BY <2>1, <2>2, <2>3
<1>. QED BY <1>1, <1>2

LEMMA Sizes ==
  /\ FRAME \in Nat /\ FRAME >= 1 /\ AEC_SIZE \in Nat /\ AEC_SIZE >= 1
  /\ AEC_FRAMES \in Nat /\ AEC_FRAMES >= 3 /\ PLC_FRAMES \in Nat /\ PLC_FRAMES >= 1
  /\ SETTLE \in Nat /\ SETTLE >= 1
  /\ PLC_MAX \in Nat /\ PLC_MAX = PLC_FRAMES * FRAME /\ PLC_MAX >= 8 * FRAME + SHIFT
  /\ SHIFT \in Nat /\ AEC_SIZE <= PLC_MAX /\ FRAME <= PLC_MAX
  /\ OUT_MAX \in Nat /\ OUT_MAX = AEC_FRAMES * AEC_SIZE /\ FRAME <= OUT_MAX /\ AEC_SIZE <= OUT_MAX
<1>1. /\ FRAME \in Nat /\ FRAME >= 1 /\ AEC_SIZE \in Nat /\ AEC_SIZE >= 1
      /\ AEC_FRAMES \in Nat /\ AEC_FRAMES >= 3 /\ PLC_FRAMES \in Nat /\ PLC_FRAMES >= 1
      /\ SETTLE \in Nat /\ SETTLE >= 1 /\ AEC_SIZE <= PLC_MAX
      /\ SHIFT \in 0 .. PLC_MAX - 8 * FRAME /\ OUT_MAX % FRAME = 0
  BY RingSizes
<1>2. PLC_FRAMES * FRAME \in Nat /\ PLC_FRAMES * FRAME >= FRAME
  BY <1>1, Times0
<1>3. PLC_MAX \in Nat /\ PLC_MAX = PLC_FRAMES * FRAME /\ PLC_MAX >= FRAME
  BY <1>2 DEF PLC_MAX
<1>4. AEC_FRAMES * AEC_SIZE \in Nat /\ AEC_FRAMES * AEC_SIZE >= AEC_SIZE
  BY <1>1, Times0
<1>5. OUT_MAX \in Nat /\ OUT_MAX = AEC_FRAMES * AEC_SIZE /\ OUT_MAX >= AEC_SIZE
  BY <1>4 DEF OUT_MAX
<1>6. FRAME <= OUT_MAX
  <2> DEFINE m == OUT_MAX
  <2>1. m \in Nat /\ m >= 1 /\ m % FRAME = 0
    BY <1>1, <1>5
  <2> HIDE DEF m
  <2>2. ASSUME m < FRAME PROVE FALSE
    <3>1. m % FRAME = m
      BY <1>1, <2>1, <2>2
    <3>. QED BY <2>1, <3>1
  <2>3. FRAME <= m
    BY <1>1, <2>1, <2>2
  <2>. QED BY <2>3 DEF m
<1>7. SHIFT \in Nat /\ PLC_MAX >= 8 * FRAME + SHIFT
  BY <1>1, <1>3
<1>. QED BY <1>1, <1>3, <1>5, <1>6, <1>7

(* An offset that is moved on by k in a ring of m. *)
Forward(a, k, m) == IF a + k >= m THEN a + k - m ELSE a + k

LEMMA ForwardIn ==
  ASSUME NEW m \in Nat, NEW a \in 0 .. m - 1, NEW k \in 0 .. m
  PROVE  Forward(a, k, m) \in 0 .. m - 1
BY DEF Forward

LEMMA Difference ==
  ASSUME NEW m \in Nat, NEW a \in 0 .. m - 1, NEW b \in 0 .. m - 1
  PROVE  /\ (a - b) % m = IF a >= b THEN a - b ELSE a - b + m
         /\ (a - b) % m \in 0 .. m - 1
<1>1. CASE a >= b
  <2>1. a - b \in 0 .. m - 1
    BY <1>1
  <2>2. (a - b) % m = a - b
    BY <2>1
  <2>. QED BY <1>1, <2>1, <2>2
<1>2. CASE ~(a >= b)
  <2>1. a - b + m \in 0 .. m - 1
    BY <1>2
  <2>2. (a - b) % m = (a - b + m) % m
    OBVIOUS
  <2>. QED BY <1>2, <2>1, <2>2
<1>. QED BY <1>1, <1>2

LEMMA Ahead ==
  ASSUME NEW m \in Nat, NEW a \in 0 .. m - 1, NEW b \in 0 .. m - 1, NEW k \in 0 .. m,
         ((a - b) % m) + k < m
  PROVE  (Forward(a, k, m) - b) % m = ((a - b) % m) + k
<1> DEFINE c == Forward(a, k, m)
           d == (a - b) % m
           e == (c - b) % m
<1>1. c \in 0 .. m - 1 /\ c = IF a + k >= m THEN a + k - m ELSE a + k
  BY ForwardIn DEF Forward
<1> HIDE DEF c
<1>2. d = IF a >= b THEN a - b ELSE a - b + m
  BY Difference
<1>3. e = IF c >= b THEN c - b ELSE c - b + m
  BY <1>1, Difference
<1>4. d + k < m
  OBVIOUS
<1> HIDE DEF d, e
<1>5. e = d + k
  BY <1>1, <1>2, <1>3, <1>4
<1>. QED BY <1>5 DEF c, d, e

LEMMA Behindhand ==
  ASSUME NEW m \in Nat, NEW a \in 0 .. m - 1, NEW b \in 0 .. m - 1, NEW k \in 0 .. m,
         (a - b) % m >= k
  PROVE  (a - Forward(b, k, m)) % m = ((a - b) % m) - k
<1> DEFINE c == Forward(b, k, m)
           d == (a - b) % m
           e == (a - c) % m
<1>1. c \in 0 .. m - 1 /\ c = IF b + k >= m THEN b + k - m ELSE b + k
  BY ForwardIn DEF Forward
<1> HIDE DEF c
<1>2. d = IF a >= b THEN a - b ELSE a - b + m
  BY Difference
<1>3. e = IF a >= c THEN a - c ELSE a - c + m
  BY <1>1, Difference
<1>4. d >= k
  OBVIOUS
<1> HIDE DEF d, e
<1>5. e = d - k
  BY <1>1, <1>2, <1>3, <1>4
<1>. QED BY <1>5 DEF c, d, e

(* The code's ways to move an offset are all this one. *)
LEMMA WholeStep ==
  ASSUME NEW n \in Nat, NEW f \in Nat, f >= 1, NEW k \in 0 .. n - 1
  PROVE  /\ k * f \in 0 .. n * f - 1
         /\ k * f + f <= n * f
         /\ k * f + f = n * f => k = n - 1
         /\ k + 1 < n => (k + 1) * f = k * f + f
<1>1. PICK d \in Nat : n = k + 1 + d
  <2>1. n - k - 1 \in Nat /\ n = k + 1 + (n - k - 1)
    OBVIOUS
  <2>. QED BY <2>1
<1>2. k \in Nat /\ k * f \in Nat /\ d * f \in Nat /\ (d >= 1 => d * f >= 1)
  BY Times0
<1>3. n * f = k * f + f + d * f /\ (k + 1) * f = k * f + f
  BY <1>1, <1>2
<1>. QED BY <1>1, <1>2, <1>3

LEMMA NextFrameIs ==
  ASSUME NEW x, WholeFrames(x)
  PROVE  /\ x \in 0 .. PLC_MAX - 1
         /\ NextFrame(x, PLC_MAX) = Forward(x, FRAME, PLC_MAX)
         /\ WholeFrames(NextFrame(x, PLC_MAX))
<1>1. PICK k \in 0 .. PLC_FRAMES - 1 : x = k * FRAME
  BY DEF WholeFrames
<1>2. /\ FRAME \in Nat /\ FRAME >= 1 /\ PLC_FRAMES \in Nat /\ PLC_FRAMES >= 1
      /\ PLC_MAX = PLC_FRAMES * FRAME /\ PLC_MAX \in Nat
  BY Sizes
<1>3. /\ x \in 0 .. PLC_MAX - 1 /\ x + FRAME <= PLC_MAX
      /\ x + FRAME = PLC_MAX => k = PLC_FRAMES - 1
      /\ k + 1 < PLC_FRAMES => (k + 1) * FRAME = x + FRAME
  BY <1>1, <1>2, WholeStep
<1>4. NextFrame(x, PLC_MAX) = Forward(x, FRAME, PLC_MAX)
  BY <1>2, <1>3 DEF NextFrame, Forward
<1>5. CASE x + FRAME >= PLC_MAX
  <2>1. NextFrame(x, PLC_MAX) = 0 /\ 0 \in 0 .. PLC_FRAMES - 1 /\ 0 = 0 * FRAME
    BY <1>2, <1>5 DEF NextFrame
  <2>. QED BY <1>3, <1>4, <2>1 DEF WholeFrames
<1>6. CASE ~(x + FRAME >= PLC_MAX)
  <2>1. NextFrame(x, PLC_MAX) = x + FRAME
    BY <1>6 DEF NextFrame
  <2>2. k + 1 < PLC_FRAMES
    <3>1. ASSUME k = PLC_FRAMES - 1 PROVE FALSE
      <4>1. PLC_FRAMES * FRAME = x + FRAME
        BY <1>1, <1>2, <3>1
      <4>. QED BY <1>2, <1>3, <1>6, <4>1
    <3>. QED BY <1>2, <3>1
  <2>3. k + 1 \in 0 .. PLC_FRAMES - 1 /\ (k + 1) * FRAME = x + FRAME
    BY <1>2, <1>3, <2>2
  <2>. QED BY <1>3, <1>4, <2>1, <2>3 DEF WholeFrames
<1>. QED BY <1>5, <1>6

LEMMA PutWindowIs ==
  ASSUME NEW x, WholeWindows(x)
  PROVE  /\ x \in 0 .. OUT_MAX - 1
         /\ (IF x + AEC_SIZE >= OUT_MAX THEN 0 ELSE x + AEC_SIZE) = Forward(x, AEC_SIZE, OUT_MAX)
         /\ WholeWindows(Forward(x, AEC_SIZE, OUT_MAX))
<1>1. PICK k \in 0 .. AEC_FRAMES - 1 : x = k * AEC_SIZE
  BY DEF WholeWindows
<1>2. /\ AEC_SIZE \in Nat /\ AEC_SIZE >= 1 /\ AEC_FRAMES \in Nat /\ AEC_FRAMES >= 1
      /\ OUT_MAX = AEC_FRAMES * AEC_SIZE /\ OUT_MAX \in Nat
  BY Sizes
<1>3. /\ x \in 0 .. OUT_MAX - 1 /\ x + AEC_SIZE <= OUT_MAX
      /\ x + AEC_SIZE = OUT_MAX => k = AEC_FRAMES - 1
      /\ k + 1 < AEC_FRAMES => (k + 1) * AEC_SIZE = x + AEC_SIZE
  BY <1>1, <1>2, WholeStep
<1>4. (IF x + AEC_SIZE >= OUT_MAX THEN 0 ELSE x + AEC_SIZE) = Forward(x, AEC_SIZE, OUT_MAX)
  BY <1>2, <1>3 DEF Forward
<1>5. CASE x + AEC_SIZE >= OUT_MAX
  <2>1. Forward(x, AEC_SIZE, OUT_MAX) = 0 /\ 0 \in 0 .. AEC_FRAMES - 1 /\ 0 = 0 * AEC_SIZE
    BY <1>2, <1>3, <1>5 DEF Forward
  <2>. QED BY <1>3, <1>4, <2>1 DEF WholeWindows
<1>6. CASE ~(x + AEC_SIZE >= OUT_MAX)
  <2>1. Forward(x, AEC_SIZE, OUT_MAX) = x + AEC_SIZE
    BY <1>6 DEF Forward
  <2>2. k + 1 < AEC_FRAMES
    <3>1. ASSUME k = AEC_FRAMES - 1 PROVE FALSE
      <4>1. AEC_FRAMES * AEC_SIZE = x + AEC_SIZE
        BY <1>1, <1>2, <3>1
      <4>. QED BY <1>2, <1>3, <1>6, <4>1
    <3>. QED BY <1>2, <3>1
  <2>3. k + 1 \in 0 .. AEC_FRAMES - 1 /\ (k + 1) * AEC_SIZE = x + AEC_SIZE
    BY <1>2, <1>3, <2>2
  <2>. QED BY <1>3, <1>4, <2>1, <2>3 DEF WholeWindows
<1>. QED BY <1>5, <1>6

LEMMA NextWindowIs ==
  ASSUME NEW m \in Nat, NEW x \in 0 .. m - 1, NEW k \in 1 .. m
  PROVE  NextWindow(x, k, m) = Forward(x, k, m) /\ Forward(x, k, m) \in 0 .. m - 1
BY ForwardIn DEF NextWindow, Forward

-----------------------------------------------------------------------------
(* What a step does to the environment of the call, field by field. *)

Wide == [plc_insert : Int, plc_write : Int, plc_read : Int, plc_aec : Int,
         local_write : Int, local_read : Int, out_write : Int, out_read : Int,
         settle : Int, launches : Int]

Is(e, insert, write, read, aec, lwrite, lread, owrite, oread, settle, launches) ==
  /\ e \in Wide
  /\ e.plc_insert = insert /\ e.plc_write = write /\ e.plc_read = read /\ e.plc_aec = aec
  /\ e.local_write = lwrite /\ e.local_read = lread /\ e.out_write = owrite /\ e.out_read = oread
  /\ e.settle = settle /\ e.launches = launches

LEMMA EnvsAreWide == Envs \subseteq Wide
BY DEF Envs, Wide

LEMMA WideIs ==
  ASSUME NEW e \in Wide
  PROVE  /\ e.plc_insert \in Int /\ e.plc_write \in Int /\ e.plc_read \in Int /\ e.plc_aec \in Int
         /\ e.local_write \in Int /\ e.local_read \in Int /\ e.out_write \in Int /\ e.out_read \in Int
         /\ e.settle \in Int /\ e.launches \in Int
BY DEF Wide

LEMMA IsInEnvs ==
  ASSUME NEW e \in Wide
  PROVE  e \in Envs <=>
           /\ {e.plc_insert, e.plc_write, e.plc_read, e.plc_aec} \subseteq 0 .. PLC_MAX - 1
           /\ {e.local_write, e.local_read} \subseteq 0 .. PLC_MAX - 1
           /\ {e.out_write, e.out_read} \subseteq 0 .. OUT_MAX - 1
           /\ e.settle \in 0 .. SETTLE /\ e.launches \in 0 .. MaxFrames
BY DEF Wide, Envs

LEMMA SettleIs ==
  ASSUME NEW e \in Wide, NEW f \in Int, NEW r, r = [e EXCEPT !.settle = f]
  PROVE  Is(r, e.plc_insert, e.plc_write, e.plc_read, e.plc_aec, e.local_write,
            e.local_read, e.out_write, e.out_read, f, e.launches)
BY DEF Wide, Is

LEMMA LaunchesIs ==
  ASSUME NEW e \in Wide, NEW f \in Int, NEW r, r = [e EXCEPT !.launches = f]
  PROVE  Is(r, e.plc_insert, e.plc_write, e.plc_read, e.plc_aec, e.local_write,
            e.local_read, e.out_write, e.out_read, e.settle, f)
BY DEF Wide, Is

LEMMA PlcWriteIs ==
  ASSUME NEW e \in Wide, NEW f \in Int, NEW r, r = [e EXCEPT !.plc_write = f]
  PROVE  Is(r, e.plc_insert, f, e.plc_read, e.plc_aec, e.local_write, e.local_read,
            e.out_write, e.out_read, e.settle, e.launches)
BY DEF Wide, Is

LEMMA OutWriteIs ==
  ASSUME NEW e \in Wide, NEW f \in Int, NEW r, r = [e EXCEPT !.out_write = f]
  PROVE  Is(r, e.plc_insert, e.plc_write, e.plc_read, e.plc_aec, e.local_write,
            e.local_read, f, e.out_read, e.settle, e.launches)
BY DEF Wide, Is

LEMMA ReadsAre ==
  ASSUME NEW e \in Wide, NEW f \in Int, NEW g \in Int, NEW r, r = [e EXCEPT !.plc_aec = f, !.local_read = g]
  PROVE  Is(r, e.plc_insert, e.plc_write, e.plc_read, f, e.local_write, g, e.out_write,
            e.out_read, e.settle, e.launches)
BY DEF Wide, Is

LEMMA InputsAre ==
  ASSUME NEW e \in Wide, NEW f \in Int, NEW g \in Int, NEW r, r = [e EXCEPT !.local_write = f, !.plc_insert = g]
  PROVE  Is(r, g, e.plc_write, e.plc_read, e.plc_aec, f, e.local_read, e.out_write,
            e.out_read, e.settle, e.launches)
BY DEF Wide, Is

LEMMA OutputsAre ==
  ASSUME NEW e \in Wide, NEW f \in Int, NEW g \in Int, NEW r, r = [e EXCEPT !.plc_read = f, !.out_read = g]
  PROVE  Is(r, e.plc_insert, e.plc_write, f, e.plc_aec, e.local_write, e.local_read,
            e.out_write, g, e.settle, e.launches)
BY DEF Wide, Is

LEMMA CountersAre ==
  ASSUME NEW e \in Wide, NEW f \in Int, NEW g \in Int, NEW r, r = [e EXCEPT !.settle = f, !.launches = g]
  PROVE  Is(r, e.plc_insert, e.plc_write, e.plc_read, e.plc_aec, e.local_write,
            e.local_read, e.out_write, e.out_read, f, g)
BY DEF Wide, Is

LEMMA NextFrameInt == ASSUME NEW x \in Int PROVE NextFrame(x, PLC_MAX) \in Int
BY Sizes DEF NextFrame

LEMMA NextWindowInt ==
  ASSUME NEW x \in Int, NEW k \in Int, NEW m \in Int
  PROVE  NextWindow(x, k, m) \in Int
BY DEF NextWindow

LEMMA RecvIs ==
  ASSUME NEW e \in Wide
  PROVE  Is(audio_algorithm_recv_data(e), NextFrame(e.plc_insert, PLC_MAX), e.plc_write,
            e.plc_read, e.plc_aec, NextFrame(e.local_write, PLC_MAX), e.local_read,
            e.out_write, e.out_read, e.settle, e.launches)
<1> DEFINE r == audio_algorithm_recv_data(e)
           f == NextFrame(e.local_write, PLC_MAX)
           g == NextFrame(e.plc_insert, PLC_MAX)
<1>1. f \in Int /\ g \in Int
  BY NextFrameInt, WideIs
<1>2. r = [e EXCEPT !.local_write = f, !.plc_insert = g]
  BY DEF audio_algorithm_recv_data
<1> HIDE DEF r, f, g
<1>3. Is(r, g, e.plc_write, e.plc_read, e.plc_aec, f, e.local_read, e.out_write,
         e.out_read, e.settle, e.launches)
  BY <1>1, <1>2, InputsAre
<1>. QED BY <1>3 DEF r, f, g

LEMMA SendIs ==
  ASSUME NEW e \in Wide
  PROVE  Is(audio_algorithm_send_data(e), e.plc_insert, e.plc_write,
            NextFrame(e.plc_read, PLC_MAX), e.plc_aec, e.local_write, e.local_read,
            e.out_write, NextWindow(e.out_read, FRAME, OUT_MAX), e.settle, e.launches)
<1> DEFINE r == audio_algorithm_send_data(e)
           f == NextFrame(e.plc_read, PLC_MAX)
           g == NextWindow(e.out_read, FRAME, OUT_MAX)
<1>0. FRAME \in Int /\ OUT_MAX \in Int
  BY Sizes
<1>1. f \in Int /\ g \in Int
  BY <1>0, NextFrameInt, NextWindowInt, WideIs
<1>2. r = [e EXCEPT !.plc_read = f, !.out_read = g]
  BY DEF audio_algorithm_send_data
<1> HIDE DEF r, f, g
<1>3. Is(r, e.plc_insert, e.plc_write, f, e.plc_aec, e.local_write, e.local_read,
         e.out_write, g, e.settle, e.launches)
  BY <1>1, <1>2, OutputsAre
<1>. QED BY <1>3 DEF r, f, g

(* The interrupts move two frames. *)
LEMMA FrameIn ==
  ASSUME env \in Envs,
         env' = [audio_algorithm_recv_data(audio_algorithm_recv_data(env))
                   EXCEPT !.settle = 0, !.launches = @ + 1]
  PROVE  Is(env', NextFrame(NextFrame(env.plc_insert, PLC_MAX), PLC_MAX), env.plc_write,
            env.plc_read, env.plc_aec,
            NextFrame(NextFrame(env.local_write, PLC_MAX), PLC_MAX), env.local_read,
            env.out_write, env.out_read, 0, env.launches + 1)
<1> DEFINE e == audio_algorithm_recv_data(env)
           f == audio_algorithm_recv_data(e)
<1>1. env \in Wide
  BY EnvsAreWide
<1>2. Is(e, NextFrame(env.plc_insert, PLC_MAX), env.plc_write, env.plc_read, env.plc_aec,
         NextFrame(env.local_write, PLC_MAX), env.local_read, env.out_write, env.out_read,
         env.settle, env.launches)
  BY <1>1, RecvIs
<1>3. Is(f, NextFrame(e.plc_insert, PLC_MAX), e.plc_write, e.plc_read, e.plc_aec,
         NextFrame(e.local_write, PLC_MAX), e.local_read, e.out_write, e.out_read,
         e.settle, e.launches)
  <2>1. e \in Wide
    BY <1>2 DEF Is
  <2>. QED BY <2>1, RecvIs
<1>4. env' = [f EXCEPT !.settle = 0, !.launches = f.launches + 1]
  OBVIOUS
<1> HIDE DEF e, f
<1>5. f \in Wide /\ f.launches + 1 \in Int /\ 0 \in Int
  BY <1>3, WideIs DEF Is
<1>6. Is(env', f.plc_insert, f.plc_write, f.plc_read, f.plc_aec, f.local_write,
         f.local_read, f.out_write, f.out_read, 0, f.launches + 1)
  BY <1>4, <1>5, CountersAre
<1>. QED BY <1>2, <1>3, <1>6 DEF Is

LEMMA FrameOut ==
  ASSUME env \in Envs, env' = audio_algorithm_send_data(audio_algorithm_send_data(env))
  PROVE  Is(env', env.plc_insert, env.plc_write,
            NextFrame(NextFrame(env.plc_read, PLC_MAX), PLC_MAX), env.plc_aec,
            env.local_write, env.local_read, env.out_write,
            NextWindow(NextWindow(env.out_read, FRAME, OUT_MAX), FRAME, OUT_MAX),
            env.settle, env.launches)
<1> DEFINE e == audio_algorithm_send_data(env)
<1>1. env \in Wide
  BY EnvsAreWide
<1>2. Is(e, env.plc_insert, env.plc_write, NextFrame(env.plc_read, PLC_MAX), env.plc_aec,
         env.local_write, env.local_read, env.out_write,
         NextWindow(env.out_read, FRAME, OUT_MAX), env.settle, env.launches)
  BY <1>1, SendIs
<1>3. env' = audio_algorithm_send_data(e)
  OBVIOUS
<1> HIDE DEF e
<1>4. Is(env', e.plc_insert, e.plc_write, NextFrame(e.plc_read, PLC_MAX), e.plc_aec,
         e.local_write, e.local_read, e.out_write, NextWindow(e.out_read, FRAME, OUT_MAX),
         e.settle, e.launches)
  <2>1. e \in Wide
    BY <1>2 DEF Is
  <2>. QED BY <1>3, <2>1, SendIs
<1>. QED BY <1>2, <1>4 DEF Is

(* The steps of a call. *)
LEMMA RxIs ==
  ASSUME env \in Envs, env # NULL, audio_algorithm_ipc_rx
  PROVE  /\ "rx" \in pending /\ pending' = pending \ {"rx"} /\ UNCHANGED running
         /\ env.settle > 1 =>
            /\ UNCHANGED task_list
            /\ Is(env', env.plc_insert, env.plc_write, env.plc_read, env.plc_aec,
               env.local_write, env.local_read, env.out_write, env.out_read,
               env.settle - 1, env.launches)
         /\ ~(env.settle > 1) =>
            /\ FramePosted
            /\ Is(env', NextFrame(NextFrame(env.plc_insert, PLC_MAX), PLC_MAX), env.plc_write,
               env.plc_read, env.plc_aec,
               NextFrame(NextFrame(env.local_write, PLC_MAX), PLC_MAX), env.local_read,
               env.out_write, env.out_read, 0, env.launches + 1)
<1>1. /\ "rx" \in pending /\ pending' = pending \ {"rx"} /\ UNCHANGED running
      /\ env \in Wide /\ env.settle - 1 \in Int
  BY EnvsAreWide, WideIs DEF audio_algorithm_ipc_rx, Interrupt
<1>2. CASE env.settle > 1
  <2>1. env' = [env EXCEPT !.settle = env.settle - 1] /\ UNCHANGED task_list
    BY <1>2 DEF audio_algorithm_ipc_rx
  <2>2. Is(env', env.plc_insert, env.plc_write, env.plc_read, env.plc_aec, env.local_write,
           env.local_read, env.out_write, env.out_read, env.settle - 1, env.launches)
    BY <1>1, <2>1, SettleIs
  <2>. QED BY <1>1, <1>2, <2>1, <2>2
<1>3. CASE ~(env.settle > 1)
  <2>1. /\ env' = [audio_algorithm_recv_data(audio_algorithm_recv_data(env))
                     EXCEPT !.settle = 0, !.launches = @ + 1]
        /\ FramePosted
    BY <1>1, <1>3 DEF audio_algorithm_ipc_rx, FramePosted, task_msg_insert_front
  <2>2. Is(env', NextFrame(NextFrame(env.plc_insert, PLC_MAX), PLC_MAX), env.plc_write,
           env.plc_read, env.plc_aec,
           NextFrame(NextFrame(env.local_write, PLC_MAX), PLC_MAX), env.local_read,
           env.out_write, env.out_read, 0, env.launches + 1)
    BY <2>1, FrameIn
  <2>. QED BY <1>1, <1>3, <2>1, <2>2
<1>. QED BY <1>2, <1>3

LEMMA TxIs ==
  ASSUME env \in Envs, env # NULL, audio_algorithm_ipc_tx
  PROVE  /\ "tx" \in pending /\ pending' = pending \ {"tx"} /\ UNCHANGED <<task_list, running>>
         /\ env.settle # 0 => UNCHANGED env
         /\ env.settle = 0 =>
            Is(env', env.plc_insert, env.plc_write,
               NextFrame(NextFrame(env.plc_read, PLC_MAX), PLC_MAX), env.plc_aec,
               env.local_write, env.local_read, env.out_write,
               NextWindow(NextWindow(env.out_read, FRAME, OUT_MAX), FRAME, OUT_MAX),
               env.settle, env.launches)
<1>1. CASE env.settle # 0
  BY <1>1 DEF audio_algorithm_ipc_tx, Interrupt
<1>2. CASE env.settle = 0
  <2>1. env' = audio_algorithm_send_data(audio_algorithm_send_data(env))
    BY <1>2 DEF audio_algorithm_ipc_tx
  <2>. QED BY <1>2, <2>1, FrameOut DEF audio_algorithm_ipc_tx, Interrupt
<1>. QED BY <1>1, <1>2

LEMMA StartIs ==
  ASSUME env \in Envs, env # NULL, audio_algorithm_ipc_rx_handler
  PROVE  /\ Step(RX, "start") /\ running' = [running EXCEPT !.at = "launch"]
         /\ UNCHANGED <<task_list, pending>>
         /\ Is(env', env.plc_insert, env.plc_write, env.plc_read, env.plc_aec,
               env.local_write, env.local_read, env.out_write, env.out_read, env.settle,
               IF env.launches # 0 THEN env.launches - 1 ELSE env.launches)
<1> DEFINE c == IF env.launches # 0 THEN env.launches - 1 ELSE env.launches
<1>1. env \in Wide /\ c \in Int
  BY EnvsAreWide, WideIs
<1>2. env' = [env EXCEPT !.launches = c]
  BY DEF audio_algorithm_ipc_rx_handler
<1> HIDE DEF c
<1>3. Is(env', env.plc_insert, env.plc_write, env.plc_read, env.plc_aec, env.local_write,
         env.local_read, env.out_write, env.out_read, env.settle, c)
  BY <1>1, <1>2, LaunchesIs
<1>. QED BY <1>3 DEF c, audio_algorithm_ipc_rx_handler, Goto

LEMMA RepairIs ==
  ASSUME env \in Envs, LaunchRepair
  PROVE  /\ Step(RX, "launch") /\ running' = [running EXCEPT !.at = "repair"]
         /\ UNCHANGED <<task_list, pending>>
         /\ Is(env', env.plc_insert, NextFrame(env.plc_write, PLC_MAX), env.plc_read,
               env.plc_aec, env.local_write, env.local_read, env.out_write, env.out_read,
               env.settle, env.launches)
<1> DEFINE w == NextFrame(env.plc_write, PLC_MAX)
<1>1. env \in Wide /\ w \in Int
  BY EnvsAreWide, WideIs, NextFrameInt
<1>2. env' = [env EXCEPT !.plc_write = w]
  BY DEF LaunchRepair
<1> HIDE DEF w
<1>3. Is(env', env.plc_insert, w, env.plc_read, env.plc_aec, env.local_write,
         env.local_read, env.out_write, env.out_read, env.settle, env.launches)
  BY <1>1, <1>2, PlcWriteIs
<1>. QED BY <1>3 DEF w, LaunchRepair, Goto

LEMMA TakeIs ==
  ASSUME env \in Envs, LaunchTakesWindows
  PROVE  /\ Step(RX, "repair") /\ UNCHANGED <<task_list, pending>>
         /\ ~WindowIsReady => LaunchReturns /\ UNCHANGED env
         /\ WindowIsReady =>
            /\ running' = [running EXCEPT !.at = "echo"]
            /\ Is(env', env.plc_insert, env.plc_write, env.plc_read,
                  NextWindow(env.plc_aec, AEC_SIZE, PLC_MAX), env.local_write,
                  NextWindow(env.local_read, AEC_SIZE, PLC_MAX), env.out_write,
                  env.out_read, env.settle, env.launches)
<1> DEFINE v == NextWindow(env.plc_aec, AEC_SIZE, PLC_MAX)
           w == NextWindow(env.local_read, AEC_SIZE, PLC_MAX)
<1>1. env \in Wide /\ v \in Int /\ w \in Int
  <2>1. env \in Wide /\ env.plc_aec \in Int /\ env.local_read \in Int
        /\ AEC_SIZE \in Int /\ PLC_MAX \in Int
    BY EnvsAreWide, WideIs, Sizes
  <2>. QED BY <2>1, NextWindowInt
<1>2. CASE WindowIsReady
  <2>1. env' = [env EXCEPT !.plc_aec = v, !.local_read = w]
    BY <1>2 DEF LaunchTakesWindows
  <2> HIDE DEF v, w
  <2>2. Is(env', env.plc_insert, env.plc_write, env.plc_read, v, env.local_write, w,
           env.out_write, env.out_read, env.settle, env.launches)
    BY <1>1, <2>1, ReadsAre
  <2>. QED BY <1>2, <2>2 DEF v, w, LaunchTakesWindows, Goto
<1>3. CASE ~WindowIsReady
  BY <1>3 DEF LaunchTakesWindows
<1>. QED BY <1>2, <1>3

LEMMA PutIs ==
  ASSUME env \in Envs, WholeWindows(env.out_write), LaunchPutsWindow
  PROVE  /\ Step(RX, "echo") /\ LaunchReturns /\ UNCHANGED <<task_list, pending>>
         /\ Is(env', env.plc_insert, env.plc_write, env.plc_read, env.plc_aec,
               env.local_write, env.local_read, Forward(env.out_write, AEC_SIZE, OUT_MAX),
               env.out_read, env.settle, env.launches)
<1> DEFINE v == IF env.out_write + AEC_SIZE >= OUT_MAX THEN 0 ELSE env.out_write + AEC_SIZE
<1>1. v = Forward(env.out_write, AEC_SIZE, OUT_MAX)
  BY PutWindowIs
<1>2. env \in Wide /\ v \in Int
  BY EnvsAreWide, WideIs, Sizes
<1>3. env' = [env EXCEPT !.out_write = v]
  BY DEF LaunchPutsWindow
<1> HIDE DEF v
<1>4. Is(env', env.plc_insert, env.plc_write, env.plc_read, env.plc_aec, env.local_write,
         env.local_read, v, env.out_read, env.settle, env.launches)
  BY <1>2, <1>3, OutWriteIs
<1>. QED BY <1>1, <1>4 DEF LaunchPutsWindow

Other == DecodeAsked \/ Outside \/ TaskSchedule \/ (Moves /\ running.id # RX) \/ Served \/ Frame

Elsewhere ==
  /\ UNCHANGED env
  /\ Other
  /\ running.id = DESTROY => UNCHANGED running
  /\ \/ UNCHANGED pending
     \/ Frame /\ UNCHANGED handler
     \/ native_playback_started = 1 \/ handler.tx = "native_playback_ipc_tx"

LEMMA CallSteps ==
  ASSUME Tasks, env # NULL, [Next]_vars
  PROVE  \/ audio_algorithm_ipc_rx \/ audio_algorithm_ipc_tx \/ audio_algorithm_ipc_rx_handler
         \/ LaunchRepair \/ LaunchTakesWindows \/ LaunchPutsWindow \/ audio_algorithm_release
         \/ Elsewhere
<1>0. AtStep /\ enabled \subseteq Dma
  BY DEF Tasks
<1>1. CASE PlaybackInterrupt /\ UNCHANGED env
  <2>1. native_playback_ipc_tx /\ "tx" \in pending /\ handler.tx = "native_playback_ipc_tx"
    BY <1>1 DEF PlaybackInterrupt, Interrupt
  <2>. QED BY <1>1, <2>1, TxKind DEF Elsewhere, Other
<1>2. CASE Take
  BY <1>2 DEF Take, TaskSchedule, Elsewhere, Other, Idle
<1>3. CASE /\ \/ DecodesNothing \/ Decodes \/ native_playback_init \/ native_playback_destroy
              \/ PollEnds \/ audio_init
           /\ UNCHANGED env
  <2>1. /\ Done /\ running.id \notin {RX, DESTROY} /\ running # Idle
        /\ UNCHANGED <<task_list, pending>>
    BY <1>3 DEF DecodesNothing, Decodes, native_playback_init, native_playback_destroy, PollEnds,
                audio_init, Step, Idle
  <2>. QED BY <1>0, <1>3, <2>1, DoneMoves DEF Elsewhere, Other
<1>4. CASE (DestroyBegins \/ PollBegins) /\ UNCHANGED env
  <2>1. CASE DestroyBegins
    BY <1>0, <1>4, <2>1, GotoMoves DEF DestroyBegins, Step, Elsewhere, Other
  <2>2. CASE PollBegins
    BY <1>0, <1>4, <2>2, GotoMoves DEF PollBegins, Step, Elsewhere, Other
  <2>. QED BY <1>4, <2>1, <2>2
<1>5. CASE native_playback_ipc_check_irq /\ UNCHANGED env
  <2>1. native_playback_ipc_tx /\ "tx" \in pending /\ native_playback_started = 1
    BY <1>5 DEF native_playback_ipc_check_irq
  <2>. QED BY <1>5, <2>1, TxKind DEF Elsewhere, Other
<1>6. CASE DmaFrame
  BY <1>6 DEF DmaFrame, Frame, Elsewhere, Other
<1>7. ASSUME NEW id \in FromOutside, Post(id), UNCHANGED env PROVE Elsewhere
  BY <1>7 DEF Post, task_msg_insert, Outside, Elsewhere, Other
<1>8. CASE ipc_rx_user_handler \/ (AtCommand /\ UNCHANGED <<env, playbackVars>>)
  BY <1>7, <1>8 DEF ipc_rx_user_handler, McuStartsSong, McuEndsSong, McuStartsCall, McuEndsCall,
                    AtCommand, FromOutside
<1>9. CASE UNCHANGED vars
  BY <1>9 DEF vars, dmaVars, Served, Elsewhere, Other
<1>10. CASE Interrupts
  BY <1>1, <1>10 DEF Interrupts, VoiceInterrupts
<1>11. audio_init => UNCHANGED env
  BY DEF audio_init
<1>12. CASE VoiceHandlers
  BY <1>3, <1>11, <1>12 DEF VoiceHandlers
<1>13. CASE native_playback_destroy /\ UNCHANGED env
  BY <1>3, <1>13
<1>14. CASE Handlers
  <2>1. \/ VoiceHandlers
        \/ (DecodesNothing \/ Decodes \/ native_playback_init \/ DestroyBegins
            \/ PollBegins \/ native_playback_ipc_check_irq \/ PollEnds) /\ UNCHANGED env
        \/ native_playback_destroy /\ UNCHANGED env
    BY <1>14 DEF Handlers, PrepareForNext
  <2>. QED BY <1>3, <1>4, <1>5, <1>12, <1>13, <2>1
<1>15. \/ Interrupts \/ Take \/ Handlers \/ DmaFrame \/ ipc_rx_user_handler
       \/ (AtCommand /\ UNCHANGED <<env, playbackVars>>) \/ UNCHANGED vars
  BY DEF Next, DspIsLost
<1>. QED BY ONLY <1>2, <1>6, <1>8, <1>9, <1>10, <1>14, <1>15

(* The counts of the runs to come. *)
LEMMA ToRunIs ==
  ASSUME Tasks
  PROVE  /\ Count(RX) \in Nat /\ ToRun \in Nat /\ ToRepair \in Nat /\ UnderEcho \in Nat
         /\ running.left \in 0 .. 2
         /\ running.id = RX => running.left \in {1, 2} /\ running.at \in {"start", "launch", "repair", "echo", "lost"}
         /\ ToRun = 2 * Count(RX) + (IF running.id = RX THEN running.left ELSE 0)
         /\ ToRun <= 2 * Behind(RX) /\ Behind(RX) <= MaxFrames /\ ToRun <= 2 * MaxFrames
         /\ Behind(RX) \in Nat /\ MaxFrames \in Nat
<1>1. AtStep /\ task_list \in Seq(Ids) /\ Behind(RX) <= MaxFrames /\ MaxFrames \in Nat
  BY Bounds DEF Tasks, Room
<1>2. Count(RX) \in Nat /\ Behind(RX) = Count(RX) + (IF running.id = RX THEN 1 ELSE 0)
  BY <1>1, CountIs, TimesType
<1>3. /\ running.left \in 0 .. 2
      /\ running.id = RX => running.left \in {1, 2} /\ running.at \in {"start", "launch", "repair", "echo", "lost"}
  BY <1>1 DEF AtStep, Idle
<1>. QED BY <1>1, <1>2, <1>3, Sizes DEF ToRun, ToRepair, UnderEcho

LEMMA ElsewhereRuns ==
  ASSUME Tasks, Elsewhere
  PROVE  /\ ToRun' = ToRun /\ ToRepair' = ToRepair /\ UnderEcho' = UnderEcho
         /\ Count(RX)' + (IF Step(RX, "start")' THEN 1 ELSE 0)
              = Count(RX) + (IF Step(RX, "start") THEN 1 ELSE 0)
<1>0. AtStep /\ Count(RX) = Times(task_list, RX) /\ Count(RX)' = Times(task_list', RX)
  BY CountIs DEF Tasks
<1>1. CASE UNCHANGED <<task_list, running>>
  BY <1>0, <1>1 DEF ToRun, ToRepair, UnderEcho, Step
<1>2. ASSUME NEW x \in Ids \ {RX}, task_list' = Append(task_list, x), UNCHANGED running
      PROVE  Count(RX)' = Count(RX)
  BY <1>0, <1>2, Appended
<1>3. CASE Moves /\ running.id # RX
  <2>1. UNCHANGED task_list /\ running.id # RX /\ running'.id # RX /\ Count(RX)' = Count(RX)
    BY <1>0, <1>3 DEF Moves
  <2>2. running.at # "echo" /\ running'.at # "echo"
    BY <1>0, <1>3, <2>1 DEF Moves, AtStep, Idle
  <2>. QED BY <2>1, <2>2 DEF ToRun, ToRepair, UnderEcho, Step
<1>4. CASE DecodeAsked \/ Outside
  <2>1. Count(RX)' = Count(RX) /\ UNCHANGED running
    BY <1>2, <1>4, AllIds DEF DecodeAsked, Outside, FromOutside
  <2>. QED BY <2>1 DEF ToRun, ToRepair, UnderEcho, Step
<1>5. CASE TaskSchedule
  <2>1. /\ running = Idle /\ running' = [id |-> running'.id, at |-> "start", left |-> 2]
        /\ Count(RX)' \in Nat /\ Count(RX) = Count(RX)' + (IF running'.id = RX THEN 1 ELSE 0)
    BY <1>0, <1>5, Taken
  <2>2. /\ running.id # RX /\ running.at # "echo"
        /\ running'.at = "start" /\ running'.left = 2
    BY <2>1 DEF Idle
  <2>. QED BY <2>1, <2>2 DEF ToRun, ToRepair, UnderEcho, Step
<1>. QED BY <1>1, <1>3, <1>4, <1>5 DEF Elsewhere, Other, Served, Frame

LEMMA PostedRuns ==
  ASSUME Tasks, FramePosted
  PROVE  /\ ToRun' = ToRun + 2 /\ ToRepair' = ToRepair + 2 /\ UnderEcho' = UnderEcho
         /\ Count(RX)' = Count(RX) + 1 /\ (Step(RX, "start")' <=> Step(RX, "start"))
<1>1. /\ Count(RX)' = Count(RX) + 1 /\ Count(RX) \in Nat /\ running' = running
  BY PostedFrame, CountIs DEF FramePosted
<1>2. running.id = RX => running.left \in {1, 2}
  BY ToRunIs
<1>. QED BY <1>1, <1>2 DEF ToRun, ToRepair, UnderEcho, Step

LEMMA LaunchRuns ==
  ASSUME Tasks, running.id = RX, UNCHANGED task_list,
         NEW at \in {"launch", "repair", "echo"}, running' = [running EXCEPT !.at = at]
  PROVE  /\ ToRun' = ToRun /\ Count(RX)' = Count(RX) /\ ~Step(RX, "start")'
         /\ ToRepair' = IF at = "launch" THEN ToRun ELSE ToRun - 1
         /\ UnderEcho' = IF at = "echo" THEN AEC_SIZE ELSE 0
<1>1. Count(RX)' = Count(RX) /\ Count(RX) \in Nat
  BY ToRunIs, CountIs
<1>2. running' = [id |-> RX, at |-> at, left |-> running.left]
  BY StepIs DEF Tasks
<1>. QED BY <1>1, <1>2 DEF ToRun, ToRepair, UnderEcho, Step

LEMMA ReturnRuns ==
  ASSUME Tasks, running.at \in {"repair", "echo"}, LaunchReturns, UNCHANGED <<task_list, pending>>
  PROVE  /\ running.id = RX /\ ToRun' = ToRun - 1 /\ Count(RX)' = Count(RX) /\ ~Step(RX, "start")'
         /\ ToRepair' = ToRepair /\ UnderEcho' = 0
<1>1. /\ Count(RX)' = Count(RX) /\ Count(RX) \in Nat /\ running.id = RX /\ running.left \in {1, 2}
      /\ ToRun = 2 * Count(RX) + running.left
  BY ToRunIs, CountIs, StepIs DEF Tasks
<1>2. /\ running.left = 1 => running' = Idle
      /\ running.left = 2 => running' = [id |-> RX, at |-> "launch", left |-> 1]
  BY LaunchMoves DEF Tasks
<1>3. CASE running.left = 1
  BY <1>1, <1>2, <1>3 DEF ToRun, ToRepair, UnderEcho, Step, Idle
<1>4. CASE running.left = 2
  BY <1>1, <1>2, <1>4 DEF ToRun, ToRepair, UnderEcho, Step
<1>. QED BY <1>1, <1>3, <1>4

-----------------------------------------------------------------------------
(* The rings keep their shape, whatever their sizes. *)

LEMMA NextFramesAre ==
  ASSUME NEW x, WholeFrames(x)
  PROVE  WholeFrames(NextFrame(NextFrame(x, PLC_MAX), PLC_MAX))
BY NextFrameIs

LEMMA WholeIn ==
  /\ \A x : WholeFrames(x) => x \in 0 .. PLC_MAX - 1
  /\ \A x : WholeWindows(x) => x \in 0 .. OUT_MAX - 1
BY NextFrameIs, PutWindowIs

LEMMA WindowIn ==
  /\ \A x \in 0 .. PLC_MAX - 1 : NextWindow(x, AEC_SIZE, PLC_MAX) \in 0 .. PLC_MAX - 1
  /\ \A x \in 0 .. OUT_MAX - 1 : NextWindow(x, FRAME, OUT_MAX) \in 0 .. OUT_MAX - 1
BY Sizes, NextWindowIs

Ring ==
  /\ env \in Envs
  /\ WholeFrames(env.plc_insert) /\ WholeFrames(env.plc_write) /\ WholeFrames(env.plc_read)
  /\ WholeFrames(env.local_write) /\ WholeWindows(env.out_write)
  /\ env.launches = Count(RX) + (IF Step(RX, "start") THEN 1 ELSE 0)
  /\ env.settle # 0 => ToRun = 0

LEMMA RxRings ==
  ASSUME Tasks, Tasks', Ring, env # NULL, audio_algorithm_ipc_rx
  PROVE  Ring'
<1>1. env \in Envs /\ env \in Wide /\ env.settle \in 0 .. SETTLE /\ env.launches \in 0 .. MaxFrames
  BY EnvsAreWide, IsInEnvs DEF Ring
<1>2. CASE env.settle > 1
  <2>1. env.settle - 1 \in 0 .. SETTLE /\ env.settle # 0
    BY <1>1, <1>2, Sizes
  <2>2. env' \in Envs
    BY <1>1, <1>2, <2>1, RxIs, IsInEnvs DEF Is
  <2>3. ToRun' = ToRun /\ Count(RX)' = Count(RX) /\ (Step(RX, "start")' <=> Step(RX, "start"))
    BY <1>1, <1>2, RxIs, CountIs DEF ToRun, Step
  <2>. QED BY <1>1, <1>2, <2>1, <2>2, <2>3, RxIs DEF Ring, Is
<1>3. CASE ~(env.settle > 1)
  <2>3. /\ WholeFrames(env'.plc_insert) /\ WholeFrames(env'.local_write)
        /\ env'.plc_insert \in 0 .. PLC_MAX - 1 /\ env'.local_write \in 0 .. PLC_MAX - 1
    BY <1>1, <1>3, RxIs, NextFramesAre, WholeIn DEF Ring, Is
  <2>4. /\ Count(RX)' = Count(RX) + 1 /\ (Step(RX, "start")' <=> Step(RX, "start"))
    BY <1>1, <1>3, RxIs, PostedRuns
  <2>5. env'.launches = Count(RX)' + (IF Step(RX, "start")' THEN 1 ELSE 0) /\ Count(RX) \in Nat
    BY <1>1, <1>3, <2>4, RxIs, ToRunIs DEF Ring, Is
  <2>6. env'.launches \in 0 .. MaxFrames
    <3>1. /\ Behind(RX)' <= MaxFrames /\ MaxFrames \in Nat
          /\ Behind(RX)' = Count(RX)' + (IF running'.id = RX THEN 1 ELSE 0)
      BY Bounds, CountIs DEF Tasks, Room
    <3>. QED BY <2>4, <2>5, <3>1 DEF Step
  <2>7. env' \in Envs /\ env'.settle = 0
    BY <1>1, <1>3, <2>3, <2>6, RxIs, Sizes, IsInEnvs DEF Is
  <2>. QED BY <1>1, <1>3, <2>3, <2>5, <2>7, RxIs DEF Ring, Is
<1>. QED BY <1>2, <1>3

LEMMA TxRings ==
  ASSUME Tasks, Ring, env # NULL, audio_algorithm_ipc_tx
  PROVE  Ring'
<1>0. UNCHANGED <<task_list, running>> /\ env \in Envs
  BY DEF audio_algorithm_ipc_tx, Ring
<1>1. ToRun' = ToRun /\ Count(RX)' = Count(RX) /\ (Step(RX, "start")' <=> Step(RX, "start"))
  BY <1>0, CountIs DEF ToRun, Step
<1>2. CASE env.settle # 0
  BY <1>0, <1>1, <1>2, TxIs DEF Ring
<1>3. CASE env.settle = 0
  <2>2. WholeFrames(env'.plc_read) /\ env'.plc_read \in 0 .. PLC_MAX - 1
    BY <1>0, <1>3, TxIs, NextFramesAre, WholeIn DEF Ring, Is
  <2>3. env'.out_read \in 0 .. OUT_MAX - 1
    <3>1. env.out_read \in 0 .. OUT_MAX - 1
      BY EnvsAreWide, IsInEnvs DEF Ring
    <3>. QED BY <1>0, <1>3, <3>1, TxIs, WindowIn DEF Is
  <2>4. env' \in Envs
    BY <1>0, <1>3, <2>2, <2>3, TxIs, EnvsAreWide, IsInEnvs DEF Is
  <2>. QED BY <1>0, <1>1, <1>3, <2>2, <2>4, TxIs DEF Ring, Is
<1>. QED BY <1>2, <1>3

LEMMA HandlerRings ==
  ASSUME Tasks, Ring, env # NULL,
         audio_algorithm_ipc_rx_handler \/ LaunchRepair \/ LaunchTakesWindows \/ LaunchPutsWindow
  PROVE  Ring'
<1>0. /\ env \in Envs /\ env \in Wide /\ UNCHANGED <<task_list, pending>> /\ running.id = RX
      /\ env.launches \in Nat /\ Count(RX) \in Nat
  BY EnvsAreWide, IsInEnvs, ToRunIs
     DEF audio_algorithm_ipc_rx_handler, LaunchRepair, LaunchTakesWindows, LaunchPutsWindow, Step, Ring
<1>1. CASE audio_algorithm_ipc_rx_handler
  <2>2. ToRun' = ToRun /\ Count(RX)' = Count(RX) /\ ~Step(RX, "start")'
    BY <1>0, <1>1, StartIs, LaunchRuns
  <2>3. env.launches = Count(RX) + 1
    BY <1>0, <1>1, StartIs DEF Ring
  <2>4. env'.launches = Count(RX)
    BY <1>0, <1>1, <2>3, StartIs DEF Is
  <2>6. env' \in Envs
    <3>1. env.launches \in 0 .. MaxFrames /\ MaxFrames \in Nat
      BY <1>0, IsInEnvs, Bounds
    <3>2. env'.launches \in 0 .. MaxFrames
      BY <1>0, <2>3, <2>4, <3>1
    <3>. QED BY <1>0, <1>1, <3>2, StartIs, IsInEnvs DEF Is
  <2>. QED BY <1>0, <1>1, <2>2, <2>4, <2>6, StartIs DEF Ring, Is
<1>2. CASE LaunchRepair
  <2>2. ToRun' = ToRun /\ Count(RX)' = Count(RX) /\ ~Step(RX, "start")' /\ ~Step(RX, "start")
    BY <1>0, <1>2, RepairIs, LaunchRuns DEF Step
  <2>3. WholeFrames(env'.plc_write) /\ env'.plc_write \in 0 .. PLC_MAX - 1
    BY <1>0, <1>2, RepairIs, NextFrameIs, WholeIn DEF Ring, Is
  <2>6. env' \in Envs
    BY <1>0, <1>2, <2>3, RepairIs, IsInEnvs DEF Is
  <2>. QED BY <1>0, <1>2, <2>2, <2>3, <2>6, RepairIs DEF Ring, Is
<1>3. CASE LaunchTakesWindows /\ WindowIsReady
  <2>2. ToRun' = ToRun /\ Count(RX)' = Count(RX) /\ ~Step(RX, "start")' /\ ~Step(RX, "start")
    BY <1>0, <1>3, TakeIs, LaunchRuns DEF Step
  <2>3. env'.plc_aec \in 0 .. PLC_MAX - 1 /\ env'.local_read \in 0 .. PLC_MAX - 1
    <3>1. env.plc_aec \in 0 .. PLC_MAX - 1 /\ env.local_read \in 0 .. PLC_MAX - 1
      BY <1>0, IsInEnvs
    <3>. QED BY <1>0, <1>3, <3>1, TakeIs, WindowIn DEF Is
  <2>6. env' \in Envs
    BY <1>0, <1>3, <2>3, TakeIs, IsInEnvs DEF Is
  <2>. QED BY <1>0, <1>3, <2>2, <2>6, TakeIs DEF Ring, Is
<1>4. CASE LaunchTakesWindows /\ ~WindowIsReady
  <2>1. Step(RX, "repair") /\ LaunchReturns /\ env' = env
    BY <1>0, <1>4, TakeIs
  <2>2. ToRun > 0 /\ Count(RX)' = Count(RX) /\ ~Step(RX, "start")' /\ ~Step(RX, "start")
    BY <1>0, <2>1, ReturnRuns, ToRunIs DEF Step
  <2>. QED BY <2>1, <2>2, ToRunIs DEF Ring
<1>5. CASE LaunchPutsWindow
  <2>1. WholeWindows(env.out_write)
    BY DEF Ring
  <2>2. ToRun > 0 /\ Count(RX)' = Count(RX) /\ ~Step(RX, "start")' /\ ~Step(RX, "start")
    BY <1>0, <1>5, <2>1, PutIs, ReturnRuns, ToRunIs DEF Step
  <2>3. WholeWindows(env'.out_write) /\ env'.out_write \in 0 .. OUT_MAX - 1
    BY <1>0, <1>5, <2>1, PutIs, PutWindowIs, WholeIn DEF Is
  <2>6. env' \in Envs
    BY <1>0, <1>5, <2>1, <2>3, PutIs, IsInEnvs DEF Is
  <2>7. env.settle = 0
    BY <2>2, ToRunIs DEF Ring
  <2>. QED BY <1>0, <1>5, <2>1, <2>2, <2>3, <2>6, <2>7, PutIs DEF Ring, Is
<1>. QED BY <1>1, <1>2, <1>3, <1>4, <1>5

LEMMA NoCallSteps ==
  ASSUME Tasks, Left, env = NULL, [Next]_vars
  PROVE  \/ UNCHANGED env /\ Other
         \/ /\ audio_algorithm_ipc_rx_handler
            /\ UNCHANGED env /\ Step(RX, "start") /\ UNCHANGED <<task_list, pending>>
            /\ Done \/ Goto("lost")
         \/ audio_init /\ env' = audio_algorithm_init
<1>0. AtStep /\ enabled \subseteq Dma
  BY DEF Tasks
<1>1. CASE audio_algorithm_ipc_rx
  BY <1>1 DEF audio_algorithm_ipc_rx, Served, Other
<1>2. CASE audio_algorithm_ipc_tx
  BY <1>2 DEF audio_algorithm_ipc_tx, Served, Other
<1>3. CASE audio_algorithm_ipc_rx_handler
  BY <1>3 DEF audio_algorithm_ipc_rx_handler
<1>4. CASE LaunchRepair \/ LaunchTakesWindows \/ LaunchPutsWindow
  BY <1>4 DEF LaunchRepair, LaunchTakesWindows, LaunchPutsWindow, Step, Left
<1>5. CASE audio_init
  BY <1>5 DEF audio_init
<1>6. CASE audio_algorithm_release
  <2>1. Done /\ running.id # RX /\ running # Idle /\ UNCHANGED task_list /\ pending' \subseteq pending
        /\ UNCHANGED env
    BY <1>6 DEF audio_algorithm_release, Step, Idle
  <2>. QED BY <1>0, <2>1, DoneMoves DEF Other
<1>7. CASE UNCHANGED env /\ native_playback_ipc_tx /\ "tx" \in pending
  BY <1>7, TxKind DEF Other
<1>8. CASE /\ \/ DecodesNothing \/ Decodes \/ native_playback_init \/ native_playback_destroy \/ PollEnds
           /\ UNCHANGED env
  <2>1. Done /\ running.id # RX /\ running # Idle /\ UNCHANGED <<task_list, pending>>
    BY <1>8 DEF DecodesNothing, Decodes, native_playback_init, native_playback_destroy, PollEnds,
                Step, Idle
  <2>. QED BY <1>0, <1>8, <2>1, DoneMoves DEF Other
<1>9. CASE (DestroyBegins \/ PollBegins) /\ UNCHANGED env
  <2>1. CASE DestroyBegins
    BY <1>0, <1>9, <2>1, GotoMoves DEF DestroyBegins, Step, Other
  <2>2. CASE PollBegins
    BY <1>0, <1>9, <2>2, GotoMoves DEF PollBegins, Step, Other
  <2>. QED BY <1>9, <2>1, <2>2
<1>10. CASE Take \/ DmaFrame
  BY <1>10 DEF Take, DmaFrame, Other
<1>11. ASSUME NEW id \in FromOutside, Post(id), UNCHANGED env PROVE Other
  BY <1>11 DEF Post, task_msg_insert, Outside, Other
<1>12. CASE ipc_rx_user_handler \/ (AtCommand /\ UNCHANGED <<env, playbackVars>>)
  BY <1>11, <1>12 DEF ipc_rx_user_handler, McuStartsSong, McuEndsSong, McuStartsCall, McuEndsCall,
                      AtCommand, FromOutside
<1>13. CASE UNCHANGED vars
  BY <1>13 DEF vars, dmaVars, Served, Other
<1>14. CASE Interrupts
  <2>1. \/ audio_algorithm_ipc_rx \/ audio_algorithm_ipc_tx
        \/ UNCHANGED env /\ native_playback_ipc_tx /\ "tx" \in pending
    BY <1>14 DEF Interrupts, VoiceInterrupts, PlaybackInterrupt, Interrupt
  <2>. QED BY <1>1, <1>2, <1>7, <2>1
<1>15. CASE Handlers
  <2>1. \/ VoiceHandlers
        \/ (DecodesNothing \/ Decodes \/ native_playback_init \/ DestroyBegins
            \/ PollBegins \/ native_playback_ipc_check_irq \/ PollEnds) /\ UNCHANGED env
        \/ native_playback_destroy /\ UNCHANGED env
    BY <1>15 DEF Handlers, PrepareForNext
  <2>2. native_playback_ipc_check_irq => native_playback_ipc_tx /\ "tx" \in pending
    BY DEF native_playback_ipc_check_irq
  <2>3. CASE VoiceHandlers
    BY <1>3, <1>4, <1>5, <1>6, <2>3 DEF VoiceHandlers
  <2>. QED BY <1>7, <1>8, <1>9, <2>1, <2>2, <2>3
<1>16. \/ Interrupts \/ Take \/ Handlers \/ DmaFrame \/ ipc_rx_user_handler
       \/ (AtCommand /\ UNCHANGED <<env, playbackVars>>) \/ UNCHANGED vars
  BY DEF Next, DspIsLost
<1>. QED BY ONLY <1>10, <1>12, <1>13, <1>14, <1>15, <1>16

(* A call begins with its offsets in shape, and no message of another one. *)
LEMMA FirstRing ==
  ASSUME Tasks, Left, env = NULL, audio_init, env' = audio_algorithm_init
  PROVE  /\ Ring' /\ Count(RX)' = 0 /\ ToRun' = 0 /\ ToRepair' = 0 /\ UnderEcho' = 0
         /\ Is(env', 0, 0, PLC_MAX - 8 * FRAME, PLC_MAX - 8 * FRAME - SHIFT, 0, 0,
               0, OUT_MAX - 3 * AEC_SIZE, SETTLE, 0)
<1>1. /\ running = [id |-> CREATE, at |-> "start", left |-> 2] /\ running' = Idle
      /\ UNCHANGED <<task_list, pending>>
  BY StepIs DEF audio_init, Step, Done, Tasks
<1>2. Count(RX) = 0
  BY <1>1, ToRunIs DEF Left, Step, Idle
<1>3. Count(RX)' = 0 /\ ToRun' = 0 /\ ToRepair' = 0 /\ UnderEcho' = 0 /\ ~Step(RX, "start")'
  <2>1. Count(RX)' = 0
    BY <1>1, <1>2, CountIs
  <2>. QED BY <1>1, <2>1 DEF ToRun, ToRepair, UnderEcho, Step, Idle
<1> DEFINE d == OUT_MAX - 3 * AEC_SIZE
           r == PLC_MAX - 8 * FRAME
           w == PLC_MAX - 8 * FRAME - SHIFT
<1>4. (AEC_FRAMES - 3) * AEC_SIZE = d /\ d \in 0 .. OUT_MAX - 1
  <2>1. AEC_FRAMES \in Nat /\ AEC_FRAMES >= 3 /\ AEC_SIZE \in Nat /\ AEC_SIZE >= 1
        /\ OUT_MAX = AEC_FRAMES * AEC_SIZE
    BY Sizes
  <2>2. PICK n \in Nat : AEC_FRAMES = n + 3
    <3>1. AEC_FRAMES - 3 \in Nat /\ AEC_FRAMES = (AEC_FRAMES - 3) + 3
      BY <2>1
    <3>. QED BY <3>1
  <2>3. (n + 3) * AEC_SIZE = n * AEC_SIZE + 3 * AEC_SIZE /\ n * AEC_SIZE \in Nat /\ AEC_FRAMES - 3 = n
    BY <2>1, <2>2
  <2>. QED BY <2>1, <2>2, <2>3
<1>5. r \in 0 .. PLC_MAX - 1 /\ w \in 0 .. PLC_MAX - 1 /\ WholeFrames(r)
  <2>1. /\ FRAME \in Nat /\ FRAME >= 1 /\ PLC_FRAMES \in Nat /\ PLC_MAX = PLC_FRAMES * FRAME
        /\ PLC_MAX >= 8 * FRAME + SHIFT /\ SHIFT \in Nat /\ PLC_MAX \in Nat
    BY Sizes
  <2>2. PLC_FRAMES >= 8
    <3> SUFFICES ASSUME PLC_FRAMES <= 7 PROVE FALSE
      BY <2>1
    <3>1. PICK n \in Nat : 7 = PLC_FRAMES + n
      <4>1. 7 - PLC_FRAMES \in Nat /\ 7 = PLC_FRAMES + (7 - PLC_FRAMES)
        BY <2>1
      <4>. QED BY <4>1
    <3>2. 7 * FRAME = PLC_FRAMES * FRAME + n * FRAME /\ n * FRAME \in Nat
      BY <2>1, <3>1
    <3>. QED BY <2>1, <3>2
  <2>3. PICK n \in Nat : PLC_FRAMES = n + 8
    <3>1. PLC_FRAMES - 8 \in Nat /\ PLC_FRAMES = (PLC_FRAMES - 8) + 8
      BY <2>1, <2>2
    <3>. QED BY <3>1
  <2>4. (n + 8) * FRAME = n * FRAME + 8 * FRAME /\ n * FRAME \in Nat
    BY <2>1
  <2>5. r = n * FRAME /\ n \in 0 .. PLC_FRAMES - 1
    BY <2>1, <2>3, <2>4
  <2>. QED BY <2>1, <2>5 DEF WholeFrames
<1>6. WholeFrames(0) /\ WholeWindows(0)
  <2>1. 0 \in 0 .. PLC_FRAMES - 1 /\ 0 = 0 * FRAME /\ 0 \in 0 .. AEC_FRAMES - 1 /\ 0 = 0 * AEC_SIZE
    BY Sizes
  <2>. QED BY <2>1 DEF WholeFrames, WholeWindows
<1>7. env' = [plc_insert |-> 0, plc_write |-> 0, plc_read |-> r, plc_aec |-> w,
              local_write |-> 0, local_read |-> 0, out_write |-> 0, out_read |-> d,
              settle |-> SETTLE, launches |-> 0]
  BY <1>4 DEF audio_algorithm_init
<1>8. SETTLE \in Nat /\ SETTLE >= 1 /\ MaxFrames \in Nat /\ PLC_MAX >= 1 /\ OUT_MAX >= 1
      /\ PLC_MAX \in Nat /\ OUT_MAX \in Nat
  BY Sizes, Bounds
<1> HIDE DEF d, r, w
<1>9. Is(env', 0, 0, r, w, 0, 0, 0, d, SETTLE, 0)
  BY <1>4, <1>5, <1>7, <1>8 DEF Is, Wide
<1>10. env' \in Envs
  BY <1>4, <1>5, <1>8, <1>9, IsInEnvs DEF Is
<1>11. Ring'
  BY <1>3, <1>5, <1>6, <1>9, <1>10 DEF Ring, Is
<1>. QED BY <1>3, <1>9, <1>11 DEF d, r, w

LEMMA EnvIsNotNull == NULL \notin Envs
BY RingSizes

LEMMA RingsNext ==
  ASSUME Tasks, Left, Rings, [Next]_vars
  PROVE  Rings' /\ (env # NULL /\ env' = NULL => audio_algorithm_release)
<1>0. Tasks'
  BY TasksNext
<1>1. CASE env = NULL
  <2>1. CASE audio_init /\ env' = audio_algorithm_init
    BY <1>1, <2>1, FirstRing DEF Ring, Rings
  <2>. QED BY <1>1, <2>1, NoCallSteps DEF Rings
<1>2. CASE env # NULL
  <2>1. Ring
    BY <1>2 DEF Rings, Ring
  <2>2. CASE Ring'
    BY <2>2, EnvIsNotNull DEF Ring, Rings
  <2>3. CASE audio_algorithm_release
    BY <2>3 DEF audio_algorithm_release, Rings
  <2>4. CASE Elsewhere
    BY <2>1, <2>2, <2>4, ElsewhereRuns DEF Elsewhere, Ring
  <2>. QED BY <1>0, <1>2, <2>1, <2>2, <2>3, <2>4, CallSteps, RxRings, TxRings, HandlerRings
<1>. QED BY <1>1, <1>2

(* A message that is no frame's is taken only when no frame's message waits. *)
LEMMA NoFrameWaits ==
  ASSUME Tasks, TaskSchedule, task_list[1] # RX
  PROVE  /\ Count(RX)' = 0 /\ Count(RX) = 0
         /\ running'.id # RX /\ running'.id = task_list[1] /\ running'.at = "start"
<1>1. \A i \in 1 .. Len(task_list) : task_list[i] # RX
  <2>1. FramesFirst /\ task_list \in Seq(Ids) /\ Len(task_list) \in Nat
    BY DEF Tasks
  <2>2. \A i \in 1 .. Len(task_list) : i = 1 \/ (1 \in 1 .. Len(task_list) /\ 1 < i)
    BY <2>1
  <2>. QED BY <2>1, <2>2 DEF FramesFirst
<1>2. Times(task_list, RX) = 0
  <2>1. task_list \in Seq(Ids) /\ Times(task_list, RX) \in Nat
    BY TimesType DEF Tasks
  <2>2. Times(task_list, RX) > 0 <=> \E i \in 1 .. Len(task_list) : task_list[i] = RX
    BY <2>1, TimesType
  <2>. QED BY <1>1, <2>1, <2>2
<1>. QED BY <1>2, Taken, CountIs

(* A handler with an environment goes on. *)
LEMMA StaysInStep ==
  ASSUME Tasks, Left, env # NULL, [Next]_vars
  PROVE  running'.at # "lost"
<1>0. /\ AtStep /\ running.at # "lost"
      /\ running = [id |-> running.id, at |-> running.at, left |-> running.left]
  BY StepIs DEF Tasks, Left
<1>1. CASE audio_algorithm_ipc_rx \/ audio_algorithm_ipc_tx
  BY <1>0, <1>1 DEF audio_algorithm_ipc_rx, audio_algorithm_ipc_tx
<1>2. ASSUME NEW at, Goto(at), at # "lost" PROVE running'.at # "lost"
  BY <1>0, <1>2 DEF Goto
<1>3. CASE audio_algorithm_ipc_rx_handler
  BY <1>2, <1>3 DEF audio_algorithm_ipc_rx_handler
<1>4. CASE LaunchReturns
  <2>1. CASE Done
    BY <2>1 DEF Done, Idle
  <2>2. CASE running' = [running EXCEPT !.at = "launch", !.left = running.left - 1]
    <3>1. running' = [id |-> running.id, at |-> "launch", left |-> running.left - 1]
      BY <1>0, <2>2
    <3>. QED BY <3>1
  <2>. QED BY <1>4, <2>1, <2>2 DEF LaunchReturns
<1>5. CASE LaunchRepair \/ LaunchTakesWindows \/ LaunchPutsWindow
  BY <1>2, <1>4, <1>5 DEF LaunchRepair, LaunchTakesWindows, LaunchPutsWindow
<1>6. CASE audio_algorithm_release
  BY <1>6 DEF audio_algorithm_release, Done, Idle
<1>7. CASE Elsewhere
  <2>1. CASE UNCHANGED running
    BY <1>0, <2>1
  <2>2. CASE TaskSchedule
    BY <2>2 DEF TaskSchedule
  <2>3. CASE Moves /\ running.id # RX
    BY <2>3 DEF Moves, AtStep, Idle
  <2>. QED BY <1>7, <2>1, <2>2, <2>3 DEF Elsewhere, Other, DecodeAsked, Outside, Served, Frame
<1>. QED BY <1>1, <1>3, <1>5, <1>6, <1>7, CallSteps

LEMMA LeftNext ==
  ASSUME Tasks, Left, Rings, [Next]_vars
  PROVE  Left'
<1>0. AtStep /\ Count(RX) = Times(task_list, RX) /\ Count(RX)' = Times(task_list', RX) /\ Count(RX) \in Nat
  BY CountIs, ToRunIs DEF Tasks
<1>1. CASE env # NULL
  <2>1. CASE audio_algorithm_release
    BY <2>1 DEF audio_algorithm_release, Done, Left, Idle
  <2>2. CASE env' # NULL
    <3>1. running'.at # "lost"
      BY <1>1, StaysInStep
    <3>. QED BY <2>2, <3>1 DEF Left
  <2>. QED BY <1>1, <2>1, <2>2, RingsNext
<1>2. CASE env = NULL
  <2>0. /\ running.id = RX => running.at \in {"start", "lost"}
        /\ Count(RX) > 0 => running = Idle \/ running.id = RX
    BY <1>2 DEF Left
  <2>1. CASE audio_init /\ env' = audio_algorithm_init
    <3>1. env' # NULL
      BY <1>2, <2>1, FirstRing, EnvIsNotNull DEF Ring
    <3>2. running'.at = "get"
      BY <2>1 DEF audio_init, Done, Idle
    <3>. QED BY <3>1, <3>2 DEF Left
  <2>2. CASE /\ UNCHANGED env /\ Step(RX, "start") /\ UNCHANGED <<task_list, pending>>
             /\ Done \/ Goto("lost")
    <3>1. CASE Done
      BY <1>2, <2>2, <3>1 DEF Done, Left, Idle
    <3>2. CASE Goto("lost")
      <4>1. running'.id = RX /\ running'.at = "lost"
        BY <1>0, <2>2, <3>2, StepIs DEF Goto, Step
      <4>. QED BY <1>2, <2>2, <4>1 DEF Left
    <3>. QED BY <2>2, <3>1, <3>2
  <2>3. CASE UNCHANGED env /\ Other
    <3>1. CASE UNCHANGED <<task_list, running>>
      BY <1>0, <1>2, <2>0, <2>3, <3>1 DEF Left
    <3>2. ASSUME NEW x \in Ids \ {RX}, task_list' = Append(task_list, x), UNCHANGED running
          PROVE  Left'
      <4>1. Count(RX)' = Count(RX)
        BY <1>0, <3>2, Appended
      <4>. QED BY <1>2, <2>0, <2>3, <3>2, <4>1 DEF Left
    <3>3. CASE DecodeAsked \/ Outside
      BY <3>2, <3>3, AllIds DEF DecodeAsked, Outside, FromOutside
    <3>4. CASE Moves /\ running.id # RX
      <4>1. Count(RX) = 0
        BY <1>0, <2>0, <3>4 DEF Moves
      <4>2. Count(RX)' = 0
        BY <1>0, <3>4, <4>1 DEF Moves
      <4>3. running'.id # RX
        BY <3>4 DEF Moves
      <4>. QED BY <1>2, <2>3, <4>2, <4>3 DEF Left
    <3>5. CASE TaskSchedule
      <4>1. CASE task_list[1] = RX
        BY <1>2, <2>3, <3>5, <4>1, Taken DEF Left
      <4>2. CASE task_list[1] # RX
        <5>1. Count(RX)' = 0 /\ running'.id # RX
          BY <3>5, <4>2, NoFrameWaits
        <5>. QED BY <1>2, <2>3, <5>1 DEF Left
      <4>. QED BY <4>1, <4>2
    <3>. QED BY <2>3, <3>1, <3>3, <3>4, <3>5 DEF Other, Served, Frame
  <2>. QED BY <1>2, <2>1, <2>2, <2>3, NoCallSteps
<1>. QED BY <1>1, <1>2

-----------------------------------------------------------------------------
(* Each frame that came in is repaired once, as long as the main loop is   *)
(* not so far behind that the ring is full of frames to repair.            *)

LEMMA LagIn ==
  ASSUME NEW a \in 0 .. PLC_MAX - 1, NEW b \in 0 .. PLC_MAX - 1
  PROVE  Lag(a, b) \in 0 .. PLC_MAX - 1
BY Sizes, Difference DEF Lag

LEMMA OneFrame ==
  ASSUME NEW a, WholeFrames(a), NEW b \in 0 .. PLC_MAX - 1
  PROVE  /\ Lag(a, b) + FRAME < PLC_MAX => Lag(NextFrame(a, PLC_MAX), b) = Lag(a, b) + FRAME
         /\ Lag(b, a) >= FRAME => Lag(b, NextFrame(a, PLC_MAX)) = Lag(b, a) - FRAME
<1>1. /\ PLC_MAX \in Nat /\ a \in 0 .. PLC_MAX - 1 /\ FRAME \in 0 .. PLC_MAX
      /\ NextFrame(a, PLC_MAX) = Forward(a, FRAME, PLC_MAX)
  BY Sizes, NextFrameIs
<1>. QED BY <1>1, Ahead, Behindhand DEF Lag

LEMMA TwoFrames ==
  ASSUME NEW a, WholeFrames(a), NEW b \in 0 .. PLC_MAX - 1
  PROVE  /\ Lag(a, b) + 2 * FRAME < PLC_MAX =>
              Lag(NextFrame(NextFrame(a, PLC_MAX), PLC_MAX), b) = Lag(a, b) + 2 * FRAME
         /\ Lag(b, a) >= 2 * FRAME =>
              Lag(b, NextFrame(NextFrame(a, PLC_MAX), PLC_MAX)) = Lag(b, a) - 2 * FRAME
<1> DEFINE c == NextFrame(a, PLC_MAX)
           d == NextFrame(c, PLC_MAX)
<1>1. WholeFrames(c) /\ a \in 0 .. PLC_MAX - 1 /\ c \in 0 .. PLC_MAX - 1
  BY NextFrameIs
<1>2. /\ Lag(a, b) + FRAME < PLC_MAX => Lag(c, b) = Lag(a, b) + FRAME
      /\ Lag(b, a) >= FRAME => Lag(b, c) = Lag(b, a) - FRAME
  BY OneFrame
<1> HIDE DEF c
<1>3. /\ Lag(c, b) + FRAME < PLC_MAX => Lag(d, b) = Lag(c, b) + FRAME
      /\ Lag(b, c) >= FRAME => Lag(b, d) = Lag(b, c) - FRAME
  BY <1>1, OneFrame
<1>4. /\ Lag(a, b) \in Nat /\ Lag(b, a) \in Nat /\ Lag(c, b) \in Nat /\ Lag(b, c) \in Nat
      /\ FRAME \in Nat /\ PLC_MAX \in Nat
  <2>1. FRAME \in Nat /\ PLC_MAX \in Nat
    BY Sizes
  <2>2. \A x \in 0 .. PLC_MAX - 1 : x \in Nat
    BY <2>1
  <2>3. /\ Lag(a, b) \in 0 .. PLC_MAX - 1 /\ Lag(b, a) \in 0 .. PLC_MAX - 1
        /\ Lag(c, b) \in 0 .. PLC_MAX - 1 /\ Lag(b, c) \in 0 .. PLC_MAX - 1
    BY <1>1, LagIn
  <2>. QED BY <2>1, <2>2, <2>3
<1> HIDE DEF d
<1>5. Lag(a, b) + 2 * FRAME < PLC_MAX => Lag(d, b) = Lag(a, b) + 2 * FRAME
  BY <1>2, <1>3, <1>4
<1>6. Lag(b, a) >= 2 * FRAME => Lag(b, d) = Lag(b, a) - 2 * FRAME
  BY <1>2, <1>3, <1>4
<1>. QED BY <1>5, <1>6 DEF c, d

(* What a frame's interrupts and the handler's steps do to the offsets.    *)
LEMMA OffsetsIn ==
  ASSUME Ring
  PROVE  /\ env.plc_insert \in 0 .. PLC_MAX - 1 /\ env.plc_write \in 0 .. PLC_MAX - 1
         /\ env.plc_read \in 0 .. PLC_MAX - 1 /\ env.plc_aec \in 0 .. PLC_MAX - 1
         /\ env.local_write \in 0 .. PLC_MAX - 1 /\ env.local_read \in 0 .. PLC_MAX - 1
         /\ env.out_write \in 0 .. OUT_MAX - 1 /\ env.out_read \in 0 .. OUT_MAX - 1
         /\ env.settle \in 0 .. SETTLE /\ env \in Wide
BY EnvsAreWide, IsInEnvs DEF Ring

LEMMA FrameProduct ==
  ASSUME NEW n \in Nat, NEW k \in Nat
  PROVE  /\ FRAME * n \in Nat /\ FRAME * (n + k) = FRAME * n + FRAME * k /\ FRAME * k \in Nat
         /\ FRAME * 0 = 0 /\ FRAME * 1 = FRAME /\ FRAME * 2 = 2 * FRAME
         /\ k >= 1 => FRAME * k >= FRAME
<1>1. FRAME \in Nat /\ FRAME >= 1
  BY Sizes
<1>2. k >= 1 => FRAME * k >= FRAME
  BY <1>1, Times0
<1>. QED BY <1>1, <1>2

LEMMA FramesFit ==
  ASSUME NEW n \in Nat, n < PLC_FRAMES
  PROVE  FRAME * n < PLC_MAX
<1>1. FRAME \in Nat /\ FRAME >= 1 /\ PLC_FRAMES \in Nat /\ PLC_MAX = PLC_FRAMES * FRAME
  BY Sizes
<1>2. n \in 0 .. PLC_FRAMES - 1
  BY <1>1
<1>3. n * FRAME \in 0 .. PLC_FRAMES * FRAME - 1
  BY <1>1, <1>2, WholeStep
<1>4. FRAME * n = n * FRAME /\ PLC_FRAMES * FRAME \in Nat
  BY <1>1
<1>. QED BY <1>1, <1>3, <1>4

EnoughFrames == 2 * MaxFrames < PLC_FRAMES

LEMMA RepairNext ==
  ASSUME EnoughFrames, Tasks, Left, Rings, Repair, [Next]_vars
  PROVE  Repair'
<1>0. Tasks' /\ Rings'
  BY TasksNext, RingsNext
<1>1. CASE env = NULL
  <2>1. CASE audio_init /\ env' = audio_algorithm_init
    <3>1. ToRepair' = 0 /\ env'.plc_insert = 0 /\ env'.plc_write = 0
      BY <1>1, <2>1, FirstRing DEF Is
    <3>2. Lag(0, 0) = 0 /\ FRAME * 0 = 0
      BY Sizes, Difference DEF Lag
    <3>. QED BY <3>1, <3>2 DEF Repair, Unrepaired
  <2>. QED BY <1>1, <2>1, NoCallSteps DEF Repair
<1>2. CASE env # NULL
  <2>0. Ring /\ Unrepaired = FRAME * ToRepair /\ ToRepair \in Nat /\ env \in Envs
    BY <1>2, ToRunIs DEF Rings, Ring, Repair
  <2>1. CASE audio_algorithm_release
    BY <2>1 DEF audio_algorithm_release, Repair
  <2>2. CASE Elsewhere
    <3>1. ToRepair' = ToRepair /\ env' = env
      BY <2>2, ElsewhereRuns DEF Elsewhere
    <3>2. Unrepaired' = Unrepaired
      BY <3>1 DEF Unrepaired, Lag
    <3>. QED BY <2>0, <3>1, <3>2 DEF Repair
  <2>3. CASE audio_algorithm_ipc_tx
    <3>1. ToRepair' = ToRepair
      BY <1>2, <2>0, <2>3, TxIs, CountIs DEF ToRepair, ToRun
    <3>2. env'.plc_insert = env.plc_insert /\ env'.plc_write = env.plc_write
      BY <1>2, <2>0, <2>3, TxIs DEF Is
    <3>. QED BY <2>0, <3>1, <3>2 DEF Repair, Unrepaired, Lag
  <2>4. CASE audio_algorithm_ipc_rx
    <3>1. CASE env.settle > 1
      <4>1. env'.plc_insert = env.plc_insert /\ env'.plc_write = env.plc_write
        BY <1>2, <2>0, <2>4, <3>1, RxIs DEF Is
      <4>2. ToRepair' = ToRepair
        BY <1>2, <2>0, <2>4, <3>1, RxIs, CountIs DEF ToRepair, ToRun
      <4>. QED BY <2>0, <4>1, <4>2 DEF Repair, Unrepaired, Lag
    <3>2. CASE ~(env.settle > 1)
      <4>1. FramePosted
        BY <1>2, <2>0, <2>4, <3>2, RxIs
      <4>2. /\ env'.plc_insert = NextFrame(NextFrame(env.plc_insert, PLC_MAX), PLC_MAX)
            /\ env'.plc_write = env.plc_write
        BY <1>2, <2>0, <2>4, <3>2, RxIs DEF Is
      <4>3. ToRepair' = ToRepair + 2
        BY <4>1, PostedRuns
      <4>4. FRAME * ToRepair' = Unrepaired + 2 * FRAME
        BY <2>0, <4>3, FrameProduct
      <4>5. FRAME * ToRepair' < PLC_MAX
        <5>1. ToRun' <= 2 * MaxFrames /\ ToRun' \in Nat /\ ToRepair' \in Nat /\ MaxFrames \in Nat
          <6>1. /\ ToRun' = ToRun + 2 /\ ToRun \in Nat /\ ToRun <= 2 * Behind(RX)
                /\ Behind(RX) \in Nat /\ MaxFrames \in Nat
            BY <4>1, PostedRuns, ToRunIs
          <6>2. Behind(RX) < MaxFrames
            BY <4>1 DEF Tasks, Room, FramePosted
          <6>. QED BY <2>0, <4>3, <6>1, <6>2
        <5>2. ToRepair' <= ToRun'
          BY <2>0, <4>1, <4>3, <5>1, PostedRuns, ToRunIs DEF ToRepair
        <5>3. PLC_FRAMES \in Nat
          BY Sizes
        <5>4. ToRepair' < PLC_FRAMES
          BY <5>1, <5>2, <5>3 DEF EnoughFrames
        <5>. QED BY <5>1, <5>4, FramesFit
      <4>6. Unrepaired' = Unrepaired + 2 * FRAME
        BY <2>0, <4>2, <4>4, <4>5, OffsetsIn, TwoFrames DEF Unrepaired, Ring
      <4>. QED BY <4>4, <4>6 DEF Repair
    <3>. QED BY <3>1, <3>2
  <2>5. CASE audio_algorithm_ipc_rx_handler \/ LaunchRepair \/ LaunchTakesWindows \/ LaunchPutsWindow
    <3>0. running.id = RX /\ ToRun \in Nat /\ WholeWindows(env.out_write)
      BY <2>0, <2>5, ToRunIs
         DEF audio_algorithm_ipc_rx_handler, LaunchRepair, LaunchTakesWindows, LaunchPutsWindow, Step, Ring
    <3>1. CASE audio_algorithm_ipc_rx_handler
      <4>2. ToRepair' = ToRun /\ ToRepair = ToRun
        BY <1>2, <2>0, <3>0, <3>1, StartIs, LaunchRuns DEF Step, ToRepair
      <4>4. env'.plc_insert = env.plc_insert /\ env'.plc_write = env.plc_write
        BY <1>2, <2>0, <3>1, StartIs DEF Is
      <4>. QED BY <2>0, <4>2, <4>4 DEF Repair, Unrepaired, Lag
    <3>2. CASE LaunchRepair
      <4>2. ToRepair' = ToRun - 1 /\ ToRepair = ToRun
        BY <2>0, <3>0, <3>2, RepairIs, LaunchRuns DEF Step, ToRepair
      <4>3. ToRun >= 1
        BY <3>0, ToRunIs
      <4>4. env'.plc_insert = env.plc_insert /\ env'.plc_write = NextFrame(env.plc_write, PLC_MAX)
        BY <2>0, <3>2, RepairIs DEF Is
      <4>5. Unrepaired = FRAME * ToRepair' + FRAME /\ FRAME * ToRepair' \in Nat /\ FRAME \in Nat
        <5>1. ToRepair' \in Nat /\ ToRepair = ToRepair' + 1
          BY <3>0, <4>2, <4>3
        <5>2. FRAME * (ToRepair' + 1) = FRAME * ToRepair' + FRAME /\ FRAME * ToRepair' \in Nat
          BY <5>1, FrameProduct
        <5>. QED BY <2>0, <5>1, <5>2, Sizes
      <4>6. Unrepaired' = Unrepaired - FRAME
        BY <2>0, <4>4, <4>5, OffsetsIn, OneFrame DEF Unrepaired, Ring
      <4>. QED BY <4>5, <4>6 DEF Repair
    <3>3. CASE LaunchTakesWindows /\ WindowIsReady
      <4>3. ToRepair' = ToRun - 1 /\ ToRepair = ToRun - 1
        BY <2>0, <3>0, <3>3, TakeIs, LaunchRuns DEF Step, ToRepair
      <4>4. env'.plc_insert = env.plc_insert /\ env'.plc_write = env.plc_write
        BY <2>0, <3>3, TakeIs DEF Is
      <4>. QED BY <2>0, <4>3, <4>4 DEF Repair, Unrepaired, Lag
    <3>4. CASE LaunchTakesWindows /\ ~WindowIsReady
      <4>1. Step(RX, "repair") /\ LaunchReturns /\ env' = env /\ UNCHANGED <<task_list, pending>>
        BY <2>0, <3>4, TakeIs
      <4>2. ToRepair' = ToRepair
        BY <4>1, ReturnRuns DEF Step
      <4>. QED BY <2>0, <4>1, <4>2 DEF Repair, Unrepaired, Lag
    <3>5. CASE LaunchPutsWindow
      <4>2. ToRepair' = ToRepair
        BY <2>0, <3>0, <3>5, PutIs, ReturnRuns DEF Step
      <4>4. env'.plc_insert = env.plc_insert /\ env'.plc_write = env.plc_write
        BY <2>0, <3>0, <3>5, PutIs DEF Is
      <4>. QED BY <2>0, <4>2, <4>4 DEF Repair, Unrepaired, Lag
    <3>. QED BY <2>5, <3>1, <3>2, <3>3, <3>4, <3>5
  <2>. QED BY <1>2, <2>1, <2>2, <2>3, <2>4, <2>5, CallSteps
<1>. QED BY <1>1, <1>2

-----------------------------------------------------------------------------
(* What the handlers hear of calls and songs: the messages of Control stay *)
(* the same in the same order, or one is added behind, or the first goes.  *)
Control == {INIT, PREPARE, CREATE, DESTROY}

Kept(m, w) ==
  \E f : /\ \A i, j \in DOMAIN m : (i < j <=> f[i] < f[j]) /\ (f[i] = f[j] => i = j)
         /\ \A i \in DOMAIN m : m[i] \in Control => f[i] \in DOMAIN w /\ w[f[i]] = m[i]
         /\ \A k \in DOMAIN w : w[k] \in Control => \E i \in DOMAIN m : f[i] = k /\ m[i] = w[k]

Added(m, w, x) ==
  \E n \in Nat : /\ DOMAIN m = 0 .. n /\ DOMAIN w = 0 .. n + 1 /\ w[n + 1] = x
                 /\ \A i \in 0 .. n : w[i] = m[i]

Dropped(m, w) ==
  \E n \in Nat : /\ DOMAIN m = 0 .. n /\ DOMAIN w = 0 .. n /\ w[0] = "none"
                 /\ \A i \in 1 .. n : w[i] = m[i]

LEMMA KeptIs ==
  ASSUME NEW m, NEW w, Kept(m, w)
  PROVE  /\ \A ids \in SUBSET Control : Quiet(m, ids) <=> Quiet(w, ids)
         /\ \A id \in Control : Once(m, id) => Once(w, id)
         /\ \A ids \in SUBSET Control, id \in Control : Before(m, ids, id) => Before(w, ids, id)
         /\ Ended(m) => Ended(w)
<1>1. PICK f :
        /\ \A i, j \in DOMAIN m : (i < j <=> f[i] < f[j]) /\ (f[i] = f[j] => i = j)
        /\ \A i \in DOMAIN m : m[i] \in Control => f[i] \in DOMAIN w /\ w[f[i]] = m[i]
        /\ \A k \in DOMAIN w : w[k] \in Control => \E i \in DOMAIN m : f[i] = k /\ m[i] = w[k]
  BY DEF Kept
<1>2. ASSUME NEW ids \in SUBSET Control PROVE Quiet(m, ids) <=> Quiet(w, ids)
  BY <1>1, <1>2 DEF Quiet
<1>3. ASSUME NEW id \in Control, Once(m, id) PROVE Once(w, id)
  BY <1>1, <1>3 DEF Once
<1>4. ASSUME NEW ids \in SUBSET Control, NEW id \in Control, Before(m, ids, id)
      PROVE  Before(w, ids, id)
  BY <1>1, <1>4 DEF Before
<1>5. ASSUME Ended(m) PROVE Ended(w)
  <2> SUFFICES ASSUME NEW k \in DOMAIN w, w[k] = CREATE
               PROVE  \E l \in DOMAIN w : k < l /\ w[l] = DESTROY
    BY DEF Ended
  <2>1. PICK i \in DOMAIN m : f[i] = k /\ m[i] = CREATE
    BY <1>1 DEF Control
  <2>2. PICK j \in DOMAIN m : i < j /\ m[j] = DESTROY
    BY <1>5, <2>1 DEF Ended
  <2>3. f[j] \in DOMAIN w /\ w[f[j]] = DESTROY /\ f[i] < f[j]
    BY <1>1, <2>2 DEF Control
  <2>. QED BY <2>1, <2>3
<1>. QED BY <1>2, <1>3, <1>4, <1>5

LEMMA AddedIs ==
  ASSUME NEW m, NEW w, NEW x, Added(m, w, x)
  PROVE  /\ \A ids : Quiet(m, ids) /\ x \notin ids => Quiet(w, ids)
         /\ \A ids : ~Quiet(m, ids) \/ x \in ids => ~Quiet(w, ids)
         /\ \A id : Once(m, id) /\ x # id => Once(w, id)
         /\ Quiet(m, {x}) => Once(w, x)
         /\ \A ids : Quiet(m, {x}) /\ x \notin ids => Before(w, ids, x)
         /\ \A ids, id : Before(m, ids, id) /\ x \notin ids /\ x # id => Before(w, ids, id)
         /\ Ended(m) /\ x # CREATE => Ended(w)
         /\ x = DESTROY => Ended(w)
<1>1. PICK n \in Nat : /\ DOMAIN m = 0 .. n /\ DOMAIN w = 0 .. n + 1 /\ w[n + 1] = x
                       /\ \A i \in 0 .. n : w[i] = m[i]
  BY DEF Added
<1>2. /\ \A i \in 0 .. n + 1 : i \in 0 .. n \/ i = n + 1
      /\ \A i \in 0 .. n : i \in 0 .. n + 1 /\ i < n + 1 /\ i # n + 1
      /\ n + 1 \in 0 .. n + 1 /\ n + 1 \notin 0 .. n
  OBVIOUS
<1> DEFINE I == 0 .. n
           J == 0 .. n + 1
           k == n + 1
<1>3. /\ DOMAIN m = I /\ DOMAIN w = J /\ w[k] = x /\ \A i \in I : w[i] = m[i]
      /\ \A i \in J : i \in I \/ i = k
      /\ \A i \in I : i \in J /\ i < k /\ i # k
      /\ k \in J
  BY <1>1, <1>2
<1> HIDE DEF I, J, k
<1>4. ASSUME NEW ids, Quiet(m, ids), x \notin ids PROVE Quiet(w, ids)
  BY ONLY <1>3, <1>4 DEF Quiet
<1>5. ASSUME NEW ids, ~Quiet(m, ids) \/ x \in ids PROVE ~Quiet(w, ids)
  BY ONLY <1>3, <1>5 DEF Quiet
<1>6. ASSUME NEW id, Once(m, id), x # id PROVE Once(w, id)
  BY ONLY <1>3, <1>6 DEF Once
<1>7. ASSUME Quiet(m, {x}) PROVE Once(w, x)
  BY ONLY <1>3, <1>7 DEF Once, Quiet
<1>8. ASSUME NEW ids, Quiet(m, {x}), x \notin ids PROVE Before(w, ids, x)
  BY ONLY <1>3, <1>8 DEF Before, Quiet
<1>9. ASSUME NEW ids, NEW id, Before(m, ids, id), x \notin ids, x # id PROVE Before(w, ids, id)
  BY ONLY <1>3, <1>9 DEF Before
<1>10. ASSUME Ended(m), x # CREATE PROVE Ended(w)
  BY ONLY <1>3, <1>10 DEF Ended
<1>11. ASSUME x = DESTROY PROVE Ended(w)
  BY ONLY <1>3, <1>11 DEF Ended, DESTROY, CREATE
<1>. QED BY <1>4, <1>5, <1>6, <1>7, <1>8, <1>9, <1>10, <1>11

LEMMA DroppedIs ==
  ASSUME NEW m, NEW w, Dropped(m, w)
  PROVE  /\ \A ids \in SUBSET Control : Quiet(m, ids) => Quiet(w, ids)
         /\ \A ids : ~Quiet(m, ids) /\ m[0] \notin ids => ~Quiet(w, ids)
         /\ \A id \in Control : Once(m, id) => Once(w, id)
         /\ \A id \in Control : Once(m, id) /\ m[0] = id => Quiet(w, {id})
         /\ \A ids, id : Before(m, ids, id) /\ id \in Control /\ ids \subseteq Control
              => Before(w, ids, id)
         /\ \A ids, id : Before(m, ids, id) /\ m[0] = id => Quiet(m, ids)
         /\ Ended(m) => Ended(w)
         /\ Ended(m) /\ m[0] = CREATE => ~Quiet(w, {DESTROY})
<1>1. PICK n \in Nat : /\ DOMAIN m = 0 .. n /\ DOMAIN w = 0 .. n /\ w[0] = "none"
                       /\ \A i \in 1 .. n : w[i] = m[i]
  BY DEF Dropped
<1> DEFINE I == 0 .. n
<1>2. /\ DOMAIN m = I /\ DOMAIN w = I /\ w[0] = "none" /\ 0 \in I
      /\ \A i \in I : i # 0 => w[i] = m[i]
      /\ \A i \in I : ~(i < 0)
      /\ \A i \in I : 0 < i => i # 0
      /\ \A i, j \in I : i < j => j # 0
      /\ "none" \notin Control
  BY <1>1 DEF Control
<1> HIDE DEF I
<1>3. ASSUME NEW ids \in SUBSET Control, Quiet(m, ids) PROVE Quiet(w, ids)
  BY ONLY <1>2, <1>3 DEF Quiet
<1>4. ASSUME NEW ids, ~Quiet(m, ids), m[0] \notin ids PROVE ~Quiet(w, ids)
  BY ONLY <1>2, <1>4 DEF Quiet
<1>5. ASSUME NEW id \in Control, Once(m, id) PROVE Once(w, id)
  BY ONLY <1>2, <1>5 DEF Once
<1>6. ASSUME NEW id \in Control, Once(m, id), m[0] = id PROVE Quiet(w, {id})
  BY ONLY <1>2, <1>6 DEF Once, Quiet
<1>7. ASSUME NEW ids, NEW id, Before(m, ids, id), id \in Control, ids \subseteq Control
      PROVE  Before(w, ids, id)
  BY ONLY <1>2, <1>7 DEF Before
<1>8. ASSUME NEW ids, NEW id, Before(m, ids, id), m[0] = id PROVE Quiet(m, ids)
  BY ONLY <1>2, <1>8 DEF Before, Quiet
<1>9. ASSUME Ended(m) PROVE Ended(w)
  BY ONLY <1>2, <1>9 DEF Ended, CREATE, DESTROY
<1>10. ASSUME Ended(m), m[0] = CREATE PROVE ~Quiet(w, {DESTROY})
  BY ONLY <1>2, <1>10 DEF Ended, Quiet
<1>. QED BY <1>3, <1>4, <1>5, <1>6, <1>7, <1>8, <1>9, <1>10

LEMMA MessagesAre ==
  ASSUME Tasks, Tasks'
  PROVE  /\ Len(task_list) \in Nat /\ DOMAIN Messages = 0 .. Len(task_list)
         /\ Messages[0] = IF running.at = "start" THEN running.id ELSE "none"
         /\ \A i \in 1 .. Len(task_list) : Messages[i] = task_list[i]
         /\ Len(task_list') \in Nat /\ DOMAIN Messages' = 0 .. Len(task_list')
         /\ Messages'[0] = IF running'.at = "start" THEN running'.id ELSE "none"
         /\ \A i \in 1 .. Len(task_list') : Messages'[i] = task_list'[i]
<1>1. task_list \in Seq(Ids) /\ task_list' \in Seq(Ids)
  BY DEF Tasks
<1>2. Len(task_list) \in Nat /\ Len(task_list') \in Nat
  BY <1>1
<1>. QED BY <1>2 DEF Messages

LEMMA SameKept ==
  ASSUME NEW m, NEW w, NEW n \in Nat, DOMAIN m = 0 .. n, DOMAIN w = 0 .. n,
         \A i \in 1 .. n : w[i] = m[i], w[0] = m[0] \/ (w[0] \notin Control /\ m[0] \notin Control)
  PROVE  Kept(m, w)
<1> DEFINE f == [i \in 0 .. n |-> i]
<1>1. \A i \in 0 .. n : f[i] = i /\ (i = 0 \/ i \in 1 .. n)
  OBVIOUS
<1> HIDE DEF f
<1>. QED BY <1>1 DEF Kept

LEMMA MoreKept ==
  ASSUME NEW m, NEW w, NEW n \in Nat, DOMAIN m = 0 .. n, DOMAIN w = 0 .. n + 1,
         \A i \in 0 .. n : w[i] = m[i], w[n + 1] \notin Control
  PROVE  Kept(m, w)
<1> DEFINE f == [i \in 0 .. n |-> i]
<1>1. \A i \in 0 .. n : f[i] = i /\ i \in 0 .. n + 1
  OBVIOUS
<1>2. \A i \in 0 .. n + 1 : i \in 0 .. n \/ i = n + 1
  OBVIOUS
<1> HIDE DEF f
<1>. QED BY <1>1, <1>2 DEF Kept

LEMMA FrontKept ==
  ASSUME NEW m, NEW w, NEW n \in Nat, DOMAIN m = 0 .. n, DOMAIN w = 0 .. n + 1, w[0] = m[0],
         \A i \in 1 .. n : w[i + 1] = m[i], w[1] \notin Control
  PROVE  Kept(m, w)
<1> DEFINE f == [i \in 0 .. n |-> IF i = 0 THEN 0 ELSE i + 1]
<1>1. \A i \in 0 .. n : f[i] = (IF i = 0 THEN 0 ELSE i + 1) /\ (i = 0 \/ i \in 1 .. n)
                        /\ f[i] \in 0 .. n + 1
  OBVIOUS
<1>2. \A k \in 0 .. n + 1 : k = 0 \/ k = 1 \/ (k - 1 \in 1 .. n /\ k - 1 \in 0 .. n /\ (k - 1) + 1 = k)
  OBVIOUS
<1> HIDE DEF f
<1>3. \A i, j \in 0 .. n : (i < j <=> f[i] < f[j]) /\ (f[i] = f[j] => i = j)
  BY <1>1
<1>4. \A i \in 0 .. n : w[f[i]] = m[i]
  BY <1>1
<1>5. ASSUME NEW k \in 0 .. n + 1, w[k] \in Control
      PROVE  \E i \in 0 .. n : f[i] = k /\ m[i] = w[k]
  <2>1. CASE k = 0
    BY <1>1, <2>1
  <2>2. ASSUME NEW i \in 1 .. n, k = i + 1 PROVE f[i] = k /\ m[i] = w[k] /\ i \in 0 .. n
    BY <1>1, <2>2
  <2>3. k = 0 \/ \E i \in 1 .. n : k = i + 1
    BY <1>2, <1>5
  <2>. QED BY <2>1, <2>2, <2>3
<1>6. /\ \A i, j \in DOMAIN m : (i < j <=> f[i] < f[j]) /\ (f[i] = f[j] => i = j)
      /\ \A i \in DOMAIN m : m[i] \in Control => f[i] \in DOMAIN w /\ w[f[i]] = m[i]
      /\ \A k \in DOMAIN w : w[k] \in Control => \E i \in DOMAIN m : f[i] = k /\ m[i] = w[k]
  BY <1>1, <1>3, <1>4, <1>5
<1>. QED BY ONLY <1>6 DEF Kept

LEMMA TailKept ==
  ASSUME NEW m, NEW w, NEW n \in Nat, DOMAIN m = 0 .. n + 1, DOMAIN w = 0 .. n,
         \A i \in 0 .. n : w[i] = m[i + 1], m[0] \notin Control
  PROVE  Kept(m, w)
<1> DEFINE f == [i \in 0 .. n + 1 |-> i - 1]
<1>1. \A i \in 0 .. n + 1 : f[i] = i - 1 /\ (i = 0 \/ (i - 1 \in 0 .. n /\ (i - 1) + 1 = i))
  OBVIOUS
<1>2. \A k \in 0 .. n : k + 1 \in 0 .. n + 1 /\ (k + 1) - 1 = k
  OBVIOUS
<1> HIDE DEF f
<1>3. \A i, j \in 0 .. n + 1 : (i < j <=> f[i] < f[j]) /\ (f[i] = f[j] => i = j)
  BY <1>1
<1>4. \A i \in 0 .. n + 1 : m[i] \in Control => f[i] \in 0 .. n /\ w[f[i]] = m[i]
  BY <1>1
<1>5. ASSUME NEW k \in 0 .. n PROVE \E i \in 0 .. n + 1 : f[i] = k /\ m[i] = w[k]
  <2>1. k + 1 \in 0 .. n + 1 /\ f[k + 1] = k /\ m[k + 1] = w[k]
    BY <1>1, <1>2
  <2>. QED BY <2>1
<1>6. /\ \A i, j \in DOMAIN m : (i < j <=> f[i] < f[j]) /\ (f[i] = f[j] => i = j)
      /\ \A i \in DOMAIN m : m[i] \in Control => f[i] \in DOMAIN w /\ w[f[i]] = m[i]
      /\ \A k \in DOMAIN w : w[k] \in Control => \E i \in DOMAIN m : f[i] = k /\ m[i] = w[k]
  BY <1>3, <1>4, <1>5
<1>. QED BY ONLY <1>6 DEF Kept

(* The steps that change nothing of what the handlers hear. *)
LEMMA KeptSteps ==
  ASSUME Tasks, Tasks',
         \/ FramePosted \/ DecodeAsked \/ TaskSchedule \/ Served \/ Frame
         \/ task_list' = Append(task_list, AT_COMMAND) /\ UNCHANGED running
         \/ Moves /\ (running.at = "start" => running.id \notin Control)
  PROVE  Kept(Messages, Messages')
<1> DEFINE m == Messages
           w == Messages'
           n == Len(task_list)
           k == Len(task_list')
<1>0. n \in Nat /\ k \in Nat /\ DOMAIN m = 0 .. n /\ DOMAIN w = 0 .. k
  BY MessagesAre
<1>1. CASE UNCHANGED <<task_list, running>>
  <2>1. k = n /\ w[0] = m[0] /\ \A i \in 1 .. n : w[i] = m[i]
    BY <1>1, MessagesAre
  <2> HIDE DEF m, w, n, k
  <2>2. Kept(m, w)
    BY <1>0, <2>1, SameKept
  <2>. QED BY <2>2 DEF m, w
<1>2. CASE FramePosted
  <2>1. /\ k = n + 1 /\ w[0] = m[0] /\ w[1] = RX /\ \A i \in 1 .. n : w[i + 1] = m[i]
    <3>1. k = n + 1 /\ task_list'[1] = RX /\ UNCHANGED running
          /\ \A i \in 1 .. n : task_list'[i + 1] = task_list[i]
      BY <1>2, PostedFrame DEF FramePosted
    <3>2. 1 \in 1 .. k /\ \A i \in 1 .. n : i + 1 \in 1 .. k
      BY <1>0, <3>1
    <3>. QED BY <3>1, <3>2, MessagesAre
  <2>2. RX \notin Control
    BY DEF Control
  <2> HIDE DEF m, w, n, k
  <2>3. Kept(m, w)
    BY <1>0, <2>1, <2>2, FrontKept
  <2>. QED BY <2>3 DEF m, w
<1>3. ASSUME NEW x \in Ids \ Control, task_list' = Append(task_list, x), UNCHANGED running
      PROVE  Kept(m, w)
  <2>1. k = n + 1 /\ w[n + 1] = x /\ \A i \in 0 .. n : w[i] = m[i]
    <3>1. k = n + 1 /\ task_list'[n + 1] = x /\ \A i \in 1 .. n : task_list'[i] = task_list[i]
      BY <1>3, Appended
    <3>2. n + 1 \in 1 .. k /\ (\A i \in 1 .. n : i \in 1 .. k) /\ \A i \in 0 .. n : i = 0 \/ i \in 1 .. n
      BY <1>0, <3>1
    <3>. QED BY <1>3, <3>1, <3>2, MessagesAre
  <2> HIDE DEF m, w, n, k
  <2>. QED BY <1>0, <1>3, <2>1, MoreKept
<1>4. CASE DecodeAsked \/ (task_list' = Append(task_list, AT_COMMAND) /\ UNCHANGED running)
  <2>1. DECODE \in Ids \ Control /\ AT_COMMAND \in Ids \ Control
    BY AllIds DEF Control
  <2>. QED BY <1>3, <1>4, <2>1 DEF DecodeAsked
<1>5. CASE TaskSchedule
  <2>1. n = k + 1 /\ m[0] = "none" /\ \A i \in 0 .. k : w[i] = m[i + 1]
    <3>1. /\ n = k + 1 /\ \A i \in 1 .. k : task_list[i + 1] = task_list'[i]
          /\ running' = [id |-> task_list[1], at |-> "start", left |-> 2] /\ running = Idle
      BY <1>5, Taken
    <3>2. (\A i \in 0 .. k : i + 1 \in 1 .. n) /\ (\A i \in 0 .. k : i = 0 \/ i \in 1 .. k) /\ 0 + 1 = 1
      BY <1>0, <3>1
    <3>3. w[0] = task_list[1] /\ m[0] = "none"
      BY <3>1, MessagesAre DEF Idle
    <3>4. (\A i \in 1 .. k : w[i] = task_list'[i]) /\ (\A i \in 1 .. n : m[i] = task_list[i])
      BY MessagesAre
    <3> HIDE DEF m, w, n, k
    <3>. QED BY <3>1, <3>2, <3>3, <3>4
  <2>2. "none" \notin Control
    BY DEF Control
  <2> HIDE DEF m, w, n, k
  <2>3. Kept(m, w)
    BY <1>0, <2>1, <2>2, TailKept
  <2>. QED BY <2>3 DEF m, w
<1>6. CASE Moves /\ (running.at = "start" => running.id \notin Control)
  <2>1. k = n /\ w[0] = "none" /\ m[0] \notin Control /\ \A i \in 1 .. n : w[i] = m[i]
    BY <1>6, MessagesAre DEF Moves, Control
  <2>2. "none" \notin Control
    BY DEF Control
  <2> HIDE DEF m, w, n, k
  <2>3. Kept(m, w)
    BY <1>0, <2>1, <2>2, SameKept
  <2>. QED BY <2>3 DEF m, w
<1>. QED BY <1>1, <1>2, <1>4, <1>5, <1>6 DEF Served, Frame

LEMMA MovesDrop ==
  ASSUME Tasks, Tasks', Moves
  PROVE  Dropped(Messages, Messages')
<1>1. task_list' = task_list /\ running'.at # "start"
  BY DEF Moves
<1>. QED BY <1>1, MessagesAre DEF Dropped

LEMMA PostAdds ==
  ASSUME Tasks, Tasks', NEW x \in Ids, task_list' = Append(task_list, x), UNCHANGED running
  PROVE  Added(Messages, Messages', x)
<1> DEFINE m == Messages
           w == Messages'
           n == Len(task_list)
<1>1. /\ Len(task_list') = n + 1 /\ task_list'[n + 1] = x
      /\ \A i \in 1 .. n : task_list'[i] = task_list[i]
  BY Appended
<1>2. n \in Nat /\ DOMAIN m = 0 .. n /\ DOMAIN w = 0 .. n + 1 /\ w[0] = m[0]
  BY <1>1, MessagesAre
<1>3. n + 1 \in 1 .. n + 1 /\ (\A i \in 1 .. n : i \in 1 .. n + 1) /\ \A i \in 0 .. n : i = 0 \/ i \in 1 .. n
  BY <1>2
<1>4. w[n + 1] = x /\ \A i \in 1 .. n : w[i] = m[i]
  BY <1>1, <1>3, MessagesAre
<1> HIDE DEF m, w, n
<1>5. Added(m, w, x)
  BY <1>2, <1>3, <1>4 DEF Added
<1>. QED BY <1>5 DEF m, w

Ordinary ==
  \/ FramePosted \/ DecodeAsked \/ TaskSchedule \/ Served \/ Frame
  \/ task_list' = Append(task_list, AT_COMMAND) /\ UNCHANGED running
  \/ Moves /\ running.id \notin Control

LEMMA OrdinaryRoles ==
  ASSUME Roles, Tasks, Tasks', Ordinary, env' = NULL <=> env = NULL,
         UNCHANGED <<mcu, native_playback_started, handler, enabled>>
  PROVE  Roles'
<1>1. Kept(Messages, Messages')
  BY KeptSteps DEF Ordinary
<1>2. Freeing' <=> Freeing
  <2>1. CASE UNCHANGED running
    BY <2>1 DEF Freeing, Step
  <2>2. CASE TaskSchedule
    BY <2>2, Taken DEF Freeing, Step, Idle
  <2>3. CASE Moves /\ running.id \notin Control
    BY <2>3 DEF Moves, Freeing, Step, Control
  <2>. QED BY <2>1, <2>2, <2>3 DEF Ordinary, FramePosted, DecodeAsked, Served, Frame
<1> DEFINE m == Messages
           w == Messages'
<1>3. /\ \A ids \in SUBSET Control : Quiet(m, ids) <=> Quiet(w, ids)
      /\ \A id \in Control : Once(m, id) => Once(w, id)
      /\ \A ids \in SUBSET Control, id \in Control : Before(m, ids, id) => Before(w, ids, id)
      /\ Ended(m) => Ended(w)
  BY <1>1, KeptIs
<1>4. /\ INIT \in Control /\ PREPARE \in Control
      /\ {INIT} \in SUBSET Control /\ {PREPARE} \in SUBSET Control /\ {DESTROY} \in SUBSET Control
      /\ SongIds \in SUBSET Control /\ CallIds \in SUBSET Control
  BY DEF Control, SongIds, CallIds
<1> HIDE DEF m, w
<1>5. /\ Quiet(m, {INIT}) <=> Quiet(w, {INIT})
      /\ Quiet(m, {PREPARE}) <=> Quiet(w, {PREPARE})
      /\ Quiet(m, {DESTROY}) <=> Quiet(w, {DESTROY})
      /\ Quiet(m, SongIds) <=> Quiet(w, SongIds)
      /\ Quiet(m, CallIds) <=> Quiet(w, CallIds)
      /\ Once(m, INIT) => Once(w, INIT)
      /\ Once(m, PREPARE) => Once(w, PREPARE)
      /\ Before(m, CallIds, INIT) => Before(w, CallIds, INIT)
      /\ Before(m, {INIT}, PREPARE) => Before(w, {INIT}, PREPARE)
      /\ Ended(m) => Ended(w)
  BY ONLY <1>3, <1>4
<1>6. Song'
  BY <1>2, <1>5 DEF Roles, Song, ToCome, Plays, Ends, m, w
<1>7. Call'
  BY <1>5 DEF Roles, Call, m, w
<1>8. Lines'
  BY <1>2 DEF Roles, Lines
<1>. QED BY <1>6, <1>7, <1>8 DEF Roles

(* The message that is being taken. *)
LEMMA FirstHeard ==
  ASSUME Tasks, Tasks', running.at = "start"
  PROVE  /\ Messages[0] = running.id /\ ~Freeing
         /\ \A ids : running.id \in ids => ~Quiet(Messages, ids)
<1>1. Messages[0] = running.id /\ 0 \in DOMAIN Messages
  BY MessagesAre
<1>. QED BY <1>1 DEF Quiet, Freeing, Step

(* A message of a call goes: what is to come of a song stays. *)
LEMMA CallHeard ==
  ASSUME Roles, Tasks, Tasks', running.at = "start", running.id \in CallIds, Done,
         UNCHANGED <<task_list, native_playback_started, mcu>>, pending' \subseteq pending
  PROVE  /\ Song' /\ native_playback_started = 0 /\ ~Freeing /\ ~Freeing'
         /\ Ended(Messages) => Ended(Messages')
         /\ Ended(Messages) /\ running.id = CREATE => ~Quiet(Messages', {DESTROY})
<1> DEFINE m == Messages
           w == Messages'
<1>1. Dropped(m, w) /\ ~Freeing'
  <2>1. Moves
    BY DoneMoves DEF Tasks, Idle
  <2>. QED BY <2>1, MovesDrop DEF Done, Freeing, Step, Idle
<1>2. m[0] = running.id /\ ~Freeing /\ ~Quiet(m, CallIds) /\ ~Quiet(m, {running.id})
  BY FirstHeard
<1>3. INIT # running.id /\ PREPARE # running.id /\ SongIds \in SUBSET Control
      /\ {PREPARE} \in SUBSET Control /\ {INIT} \subseteq Control /\ CallIds \subseteq Control
      /\ INIT \in Control /\ PREPARE \in Control
  BY DEF CallIds, SongIds, Control
<1> HIDE DEF m, w
<1>4. /\ \A ids \in SUBSET Control : Quiet(m, ids) => Quiet(w, ids)
      /\ \A ids : ~Quiet(m, ids) /\ m[0] \notin ids => ~Quiet(w, ids)
      /\ \A id \in Control : Once(m, id) => Once(w, id)
      /\ \A ids, id : Before(m, ids, id) /\ id \in Control /\ ids \subseteq Control
           => Before(w, ids, id)
      /\ Ended(m) => Ended(w)
      /\ Ended(m) /\ m[0] = CREATE => ~Quiet(w, {DESTROY})
  BY <1>1, DroppedIs
<1>5. /\ Quiet(m, SongIds) => Quiet(w, SongIds)
      /\ Quiet(m, {PREPARE}) => Quiet(w, {PREPARE})
      /\ ~Quiet(m, {PREPARE}) => ~Quiet(w, {PREPARE})
      /\ ~Quiet(m, {INIT}) => ~Quiet(w, {INIT})
      /\ Once(m, INIT) => Once(w, INIT)
      /\ Once(m, PREPARE) => Once(w, PREPARE)
      /\ Before(m, CallIds, INIT) => Before(w, CallIds, INIT)
      /\ Before(m, {INIT}, PREPARE) => Before(w, {INIT}, PREPARE)
  BY ONLY <1>2, <1>3, <1>4
<1>6. ~Plays /\ ~Ends
  BY <1>2 DEF Plays, Ends, m
<1>7. native_playback_started = 0
  BY <1>6 DEF Roles, Song, ToCome
<1>8. Song'
  BY <1>1, <1>2, <1>5, <1>6, <1>7 DEF Roles, Song, ToCome, m, w
<1>. QED BY <1>1, <1>2, <1>4, <1>7, <1>8 DEF m, w

LEMMA CreateRoles ==
  ASSUME Roles, Tasks, Tasks', audio_init, env = NULL => env' # NULL, UNCHANGED <<playbackVars, mcu>>
  PROVE  Roles'
<1>1. /\ running.at = "start" /\ running.id = CREATE /\ Done /\ UNCHANGED <<task_list, pending>>
      /\ UNCHANGED <<native_playback_started, mcu>> /\ CREATE \in CallIds
  BY DEF audio_init, Step, playbackVars, CallIds
<1>2. /\ Song' /\ native_playback_started = 0 /\ ~Freeing /\ ~Freeing'
      /\ Ended(Messages) => Ended(Messages')
      /\ Ended(Messages) => ~Quiet(Messages', {DESTROY})
  BY <1>1, CallHeard
<1>3. Call'
  BY <1>1, <1>2 DEF Roles, Call
<1>4. CASE env # NULL
  BY <1>1, <1>2, <1>3, <1>4 DEF audio_init, Roles, Lines
<1>5. CASE env = NULL
  <2>1. /\ env' # NULL /\ enabled' = Dma
        /\ ipc_dma_init("audio_algorithm_ipc_rx", "audio_algorithm_ipc_tx")
    BY <1>5 DEF audio_init
  <2>2. "audio_algorithm_ipc_rx" # NULL /\ "audio_algorithm_ipc_tx" # NULL
    BY TaskBounds DEF Codes
  <2>3. handler' = [rx |-> "audio_algorithm_ipc_rx", tx |-> "audio_algorithm_ipc_tx"]
    BY <2>1, <2>2 DEF ipc_dma_init
  <2>. QED BY <1>1, <1>2, <1>3, <2>1, <2>3 DEF Roles, Lines
<1>. QED BY <1>4, <1>5

LEMMA DestroyRoles ==
  ASSUME Roles, Tasks, Tasks', audio_algorithm_release, UNCHANGED <<playbackVars, mcu>>
  PROVE  Roles'
<1>1. /\ running.at = "start" /\ running.id = DESTROY /\ Done /\ UNCHANGED <<task_list, handler>>
      /\ UNCHANGED <<native_playback_started, mcu>> /\ DESTROY \in CallIds
      /\ pending' \subseteq pending /\ env' = NULL /\ enabled' = {}
  BY DEF audio_algorithm_release, Step, playbackVars, CallIds
<1>2. /\ Song' /\ native_playback_started = 0 /\ ~Freeing /\ ~Freeing'
      /\ Ended(Messages) => Ended(Messages')
  BY <1>1, CallHeard
<1>3. Call'
  BY <1>1, <1>2 DEF Roles, Call
<1>4. Lines'
  BY <1>1, <1>2 DEF Roles, Lines
<1>. QED BY <1>1, <1>2, <1>3, <1>4 DEF Roles

(* A song is heard only when nothing of a call is left. *)
LEMMA SongRoles ==
  ASSUME Roles, Tasks, Tasks', native_playback_init, UNCHANGED <<env, mcu>>
  PROVE  Roles'
<1> DEFINE m == Messages
           w == Messages'
<1>1. /\ running.at = "start" /\ running.id = INIT /\ Done /\ UNCHANGED <<task_list, pending>>
      /\ native_playback_started' = 1 /\ enabled' = enabled \cup {"tx"}
      /\ ipc_dma_init(NULL, "native_playback_ipc_tx")
  BY DEF native_playback_init, Step
<1>2. Dropped(m, w) /\ ~Freeing'
  <2>1. Moves
    BY <1>1, DoneMoves DEF Tasks, Idle
  <2>. QED BY <1>1, <2>1, MovesDrop DEF Done, Freeing, Step, Idle
<1>3. m[0] = INIT /\ ~Freeing /\ ~Quiet(m, {INIT}) /\ ~Quiet(m, SongIds)
  <2>1. INIT \in {INIT} /\ INIT \in SongIds
    BY DEF SongIds
  <2>. QED BY <1>1, <2>1, FirstHeard
<1>4. /\ {PREPARE} \in SUBSET Control /\ INIT \notin {PREPARE} /\ INIT \in Control
      /\ CallIds \in SUBSET Control /\ {DESTROY} \in SUBSET Control /\ {INIT} \subseteq Control
      /\ PREPARE \in Control /\ {DESTROY} \subseteq CallIds
  BY DEF Control, CallIds
<1> HIDE DEF m, w
<1>5. /\ \A ids \in SUBSET Control : Quiet(m, ids) => Quiet(w, ids)
      /\ \A ids : ~Quiet(m, ids) /\ m[0] \notin ids => ~Quiet(w, ids)
      /\ \A id \in Control : Once(m, id) => Once(w, id)
      /\ \A id \in Control : Once(m, id) /\ m[0] = id => Quiet(w, {id})
      /\ \A ids, id : Before(m, ids, id) /\ id \in Control /\ ids \subseteq Control
           => Before(w, ids, id)
      /\ \A ids, id : Before(m, ids, id) /\ m[0] = id => Quiet(m, ids)
      /\ Ended(m) => Ended(w)
  BY <1>2, DroppedIs
<1>6. /\ Quiet(m, {PREPARE}) => Quiet(w, {PREPARE})
      /\ ~Quiet(m, {PREPARE}) => ~Quiet(w, {PREPARE})
      /\ Once(m, INIT) => Quiet(w, {INIT})
      /\ Once(m, PREPARE) => Once(w, PREPARE)
      /\ Before(m, CallIds, INIT) => Quiet(m, CallIds)
      /\ Quiet(m, CallIds) => Quiet(w, CallIds)
      /\ Before(m, {INIT}, PREPARE) => Before(w, {INIT}, PREPARE)
  BY ONLY <1>3, <1>4, <1>5
<1>7. mcu \in {"song", "ending"} /\ ToCome
  BY <1>3 DEF Roles, Song, Plays, Ends, m
<1>8. Quiet(m, CallIds) /\ Quiet(m, {DESTROY})
  BY <1>4, <1>6, <1>7 DEF ToCome, m, Quiet
<1>9. Song'
  BY <1>1, <1>2, <1>3, <1>6, <1>7, <1>8 DEF Roles, Song, ToCome, Plays, Ends, m, w
<1>10. Call'
  BY <1>5, <1>7, <1>8 DEF Roles, Call, m, w
<1>11. env = NULL /\ enabled = {}
  BY <1>3, <1>7, <1>8 DEF Roles, Call, Lines, ToCome, m
<1>12. "native_playback_ipc_tx" # NULL
  BY TaskBounds DEF Codes
<1>13. handler' = [rx |-> handler.rx, tx |-> "native_playback_ipc_tx"]
  BY <1>1, <1>12 DEF ipc_dma_init
<1>14. handler'.rx = handler.rx /\ handler'.tx = "native_playback_ipc_tx"
  BY <1>13
<1>15. Lines'
  BY <1>1, <1>11, <1>14 DEF Roles, Lines
<1>. QED BY <1>1, <1>9, <1>10, <1>15 DEF Roles

LEMMA PrepareRoles ==
  ASSUME Roles, Tasks, Tasks', DestroyBegins, UNCHANGED <<env, mcu>>
  PROVE  Roles'
<1> DEFINE m == Messages
           w == Messages'
<1>1. /\ running.at = "start" /\ running.id = PREPARE /\ Goto("destroy")
      /\ UNCHANGED <<task_list, pending, enabled, handler>> /\ native_playback_started' = 0
  BY DEF DestroyBegins, Step
<1>2. Dropped(m, w) /\ Freeing'
  <2>1. Moves
    BY <1>1, GotoMoves DEF Tasks, Step
  <2>2. running' = [id |-> PREPARE, at |-> "destroy", left |-> running.left]
    BY <1>1, StepIs DEF Tasks, Goto
  <2>. QED BY <2>1, <2>2, MovesDrop DEF Freeing, Step
<1>3. m[0] = PREPARE /\ ~Freeing /\ ~Quiet(m, {PREPARE}) /\ ~Quiet(m, SongIds)
  <2>1. PREPARE \in {PREPARE} /\ PREPARE \in SongIds
    BY DEF SongIds
  <2>. QED BY <1>1, <2>1, FirstHeard
<1>4. /\ {INIT} \in SUBSET Control /\ PREPARE \in Control /\ CallIds \in SUBSET Control
  BY DEF Control, CallIds
<1> HIDE DEF m, w
<1>5. /\ \A ids \in SUBSET Control : Quiet(m, ids) => Quiet(w, ids)
      /\ \A id \in Control : Once(m, id) /\ m[0] = id => Quiet(w, {id})
      /\ \A ids, id : Before(m, ids, id) /\ m[0] = id => Quiet(m, ids)
      /\ Ended(m) => Ended(w)
  BY <1>2, DroppedIs
<1>6. /\ Once(m, PREPARE) => Quiet(w, {PREPARE})
      /\ Before(m, {INIT}, PREPARE) => Quiet(m, {INIT})
      /\ Quiet(m, CallIds) => Quiet(w, CallIds)
      /\ Quiet(m, {INIT}) => Quiet(w, {INIT})
  BY ONLY <1>3, <1>4, <1>5
<1>7. mcu = "ending" /\ Plays /\ Quiet(w, {PREPARE})
  BY <1>3, <1>6 DEF Roles, Song, ToCome, Ends, m
<1>8. Quiet(w, CallIds) /\ Quiet(w, SongIds)
  BY <1>6, <1>7 DEF Plays, m, Quiet, SongIds
<1>9. Song'
  BY <1>1, <1>2, <1>7, <1>8 DEF Song, Ends, w
<1>10. Call'
  <2>1. Quiet(m, {DESTROY})
    BY <1>7 DEF Plays, m, Quiet, CallIds
  <2>. QED BY <1>5, <1>7, <2>1 DEF Roles, Call, m, w
<1>11. Lines'
  BY <1>1, <1>2, <1>7 DEF Roles, Lines, Plays
<1>. QED BY <1>1, <1>9, <1>10, <1>11 DEF Roles

LEMMA FreedRoles ==
  ASSUME Roles, Tasks, Tasks', native_playback_destroy, mcu' = "idle", UNCHANGED env
  PROVE  Roles'
<1> DEFINE m == Messages
           w == Messages'
<1>1. /\ running.at = "destroy" /\ running.id = PREPARE /\ Done /\ Freeing
      /\ UNCHANGED <<task_list, pending, handler, native_playback_started>>
      /\ enabled' = enabled \ {"tx"}
  BY DEF native_playback_destroy, Step, Freeing
<1>2. Dropped(m, w) /\ ~Freeing'
  <2>1. Moves
    BY <1>1, DoneMoves DEF Tasks, Idle
  <2>. QED BY <1>1, <2>1, MovesDrop DEF Done, Freeing, Step, Idle
<1>3. {DESTROY} \in SUBSET Control /\ SongIds \in SUBSET Control
  BY DEF Control, SongIds
<1> HIDE DEF m, w
<1>4. /\ \A ids \in SUBSET Control : Quiet(m, ids) => Quiet(w, ids)
      /\ Ended(m) => Ended(w)
  BY <1>2, DroppedIs
<1>5. mcu = "ending" /\ Ends
  BY <1>1 DEF Roles, Song, ToCome, Plays
<1>6. native_playback_started = 0 /\ Quiet(m, SongIds) /\ Quiet(m, {DESTROY})
  BY <1>5 DEF Ends, m, Quiet, CallIds
<1>7. Song'
  BY <1>1, <1>2, <1>3, <1>4, <1>6 DEF Song, w
<1>8. env = NULL /\ enabled' = {}
  <2>1. enabled = {"tx"} /\ (env # NULL => enabled = Dma)
    BY <1>1 DEF Roles, Lines
  <2>. QED BY <1>1, <2>1 DEF Dma
<1>9. Call'
  BY <1>4, <1>5, <1>8 DEF Roles, Call, m, w
<1>10. Lines'
  BY <1>1, <1>2, <1>6, <1>8 DEF Roles, Lines
<1>. QED BY <1>1, <1>7, <1>9, <1>10 DEF Roles

(* The MCU's messages. *)
LEMMA McuRoles ==
  ASSUME Roles, Tasks, Tasks', McuStartsSong \/ McuEndsSong \/ McuStartsCall \/ McuEndsCall,
         UNCHANGED <<env, playbackVars>>
  PROVE  Roles'
<1> DEFINE m == Messages
           w == Messages'
<1>0. /\ UNCHANGED <<env, running, handler, enabled, pending, native_playback_started>>
      /\ Freeing' <=> Freeing
  BY DEF McuStartsSong, McuEndsSong, McuStartsCall, McuEndsCall, Post, playbackVars, Freeing, Step
<1>1. Lines' /\ native_playback_started' \in {0, 1}
  BY <1>0 DEF Roles, Lines
<1>2. ASSUME NEW x \in FromOutside, Post(x)
      PROVE  /\ \A ids : Quiet(m, ids) /\ x \notin ids => Quiet(w, ids)
             /\ \A ids : ~Quiet(m, ids) \/ x \in ids => ~Quiet(w, ids)
             /\ \A id : Once(m, id) /\ x # id => Once(w, id)
             /\ Quiet(m, {x}) => Once(w, x)
             /\ \A ids : Quiet(m, {x}) /\ x \notin ids => Before(w, ids, x)
             /\ \A ids, id : Before(m, ids, id) /\ x \notin ids /\ x # id => Before(w, ids, id)
             /\ Ended(m) /\ x # CREATE => Ended(w)
             /\ x = DESTROY => Ended(w)
  <2>1. x \in Ids /\ task_list' = Append(task_list, x) /\ UNCHANGED running
    BY <1>2 DEF Post, task_msg_insert, Ids
  <2>2. Added(m, w, x)
    BY <2>1, PostAdds
  <2>. QED BY <2>2, AddedIs
<1> HIDE DEF m, w
<1>3. CASE McuStartsSong
  <2>1. mcu = "idle" /\ mcu' = "song" /\ Post(INIT) /\ INIT \in FromOutside
    BY <1>3 DEF McuStartsSong, FromOutside
  <2>2. native_playback_started = 0 /\ ~Freeing /\ Quiet(m, {INIT}) /\ Quiet(m, {PREPARE})
    BY <2>1 DEF Roles, Song, m, Quiet, SongIds
  <2>3. /\ ~Quiet(w, {INIT}) /\ Once(w, INIT) /\ Before(w, CallIds, INIT) /\ Quiet(w, {PREPARE})
        /\ Ended(m) => Ended(w)
        /\ ~Quiet(m, {DESTROY}) => ~Quiet(w, {DESTROY})
    <3>1. INIT \notin CallIds /\ INIT \in {INIT} /\ INIT \notin {PREPARE} /\ INIT # CREATE
      BY DEF CallIds
    <3>. QED BY <1>2, <2>1, <2>2, <3>1
  <2>. QED BY <1>0, <1>1, <2>1, <2>2, <2>3 DEF Roles, Song, ToCome, Call, m, w
<1>4. CASE McuEndsSong
  <2>1. mcu = "song" /\ mcu' = "ending" /\ Post(PREPARE) /\ PREPARE \in FromOutside
    BY <1>4 DEF McuEndsSong, FromOutside
  <2>2. (ToCome \/ Plays) /\ Quiet(m, {PREPARE})
    BY <2>1 DEF Roles, Song, m
  <2>3. /\ ~Quiet(w, {PREPARE}) /\ Once(w, PREPARE) /\ Before(w, {INIT}, PREPARE)
        /\ ~Quiet(m, {INIT}) => ~Quiet(w, {INIT})
        /\ Once(m, INIT) => Once(w, INIT)
        /\ Before(m, CallIds, INIT) => Before(w, CallIds, INIT)
        /\ Quiet(m, CallIds) => Quiet(w, CallIds)
        /\ Quiet(m, {INIT}) => Quiet(w, {INIT})
        /\ Ended(m) => Ended(w)
        /\ ~Quiet(m, {DESTROY}) => ~Quiet(w, {DESTROY})
    <3>1. PREPARE \notin CallIds /\ PREPARE \in {PREPARE} /\ PREPARE \notin {INIT} /\ PREPARE # CREATE
          /\ PREPARE # INIT
      BY DEF CallIds
    <3>. QED BY <1>2, <2>1, <2>2, <3>1
  <2>4. ToCome' \/ Plays'
    BY <1>0, <2>2, <2>3 DEF ToCome, Plays, m, w
  <2>. QED BY <1>0, <1>1, <2>1, <2>3, <2>4 DEF Roles, Song, Call, m, w
<1>5. CASE McuStartsCall
  <2>1. mcu \in {"idle", "call"} /\ mcu' = "call" /\ Post(CREATE) /\ CREATE \in FromOutside
    BY <1>5 DEF McuStartsCall, FromOutside
  <2>2. native_playback_started = 0 /\ ~Freeing /\ Quiet(m, SongIds)
    BY <2>1 DEF Roles, Song, m
  <2>3. Quiet(w, SongIds)
    <3>1. CREATE \notin SongIds
      BY DEF SongIds
    <3>. QED BY <1>2, <2>1, <2>2, <3>1
  <2>. QED BY <1>0, <1>1, <2>1, <2>2, <2>3 DEF Roles, Song, Call, w
<1>6. CASE McuEndsCall
  <2>1. mcu \in {"idle", "call"} /\ mcu' = "idle" /\ Post(DESTROY) /\ DESTROY \in FromOutside
    BY <1>6 DEF McuEndsCall, FromOutside
  <2>2. native_playback_started = 0 /\ ~Freeing /\ Quiet(m, SongIds)
    BY <2>1 DEF Roles, Song, m
  <2>3. Quiet(w, SongIds) /\ ~Quiet(w, {DESTROY}) /\ Ended(w)
    <3>1. DESTROY \notin SongIds /\ DESTROY \in {DESTROY}
      BY DEF SongIds
    <3>. QED BY <1>2, <2>1, <2>2, <3>1
  <2>. QED BY <1>0, <1>1, <2>1, <2>2, <2>3 DEF Roles, Song, Call, w
<1>. QED BY <1>3, <1>4, <1>5, <1>6

LEMMA EnvStays ==
  ASSUME Tasks, Left, Rings, [Next]_vars, ~audio_algorithm_release, ~audio_init
  PROVE  env' = NULL <=> env = NULL
BY RingsNext, NoCallSteps

LEMMA CreateFills ==
  ASSUME Tasks, Left, Rings, [Next]_vars, audio_init, env = NULL
  PROVE  env' # NULL
<1>1. env' = audio_algorithm_init
  BY DEF audio_init
<1>2. Ring'
  BY <1>1, FirstRing
<1>. QED BY <1>2, EnvIsNotNull DEF Ring

LEMMA RolesNext ==
  ASSUME Roles, Tasks, Left, Rings, [Next]_vars
  PROVE  Roles'
<1>0. Tasks' /\ AtStep
  BY TasksNext DEF Tasks
<1>1. ASSUME VoiceInterrupts \/ VoiceHandlers, UNCHANGED <<playbackVars, mcu>> PROVE Roles'
  <2>0. UNCHANGED <<mcu, native_playback_started>>
    BY <1>1 DEF playbackVars
  <2>1. CASE audio_algorithm_release
    BY <1>0, <1>1, <2>1, DestroyRoles
  <2>2. CASE audio_init
    BY <1>0, <1>1, <2>2, CreateFills, CreateRoles
  <2>3. CASE audio_algorithm_ipc_rx
    <3>1. ~audio_algorithm_release /\ ~audio_init
      BY <2>3 DEF audio_algorithm_ipc_rx, audio_algorithm_release, audio_init, Done, Step, Idle
    <3>2. FramePosted \/ Served
      BY <2>3 DEF audio_algorithm_ipc_rx, Interrupt, FramePosted, Served, task_msg_insert_front
    <3>. QED BY <1>0, <2>0, <2>3, <3>1, <3>2, EnvStays, OrdinaryRoles DEF Ordinary, audio_algorithm_ipc_rx
  <2>4. CASE audio_algorithm_ipc_tx
    <3>1. ~audio_algorithm_release /\ ~audio_init
      BY <2>4 DEF audio_algorithm_ipc_tx, audio_algorithm_release, audio_init, Done, Step, Idle
    <3>2. Served
      BY <2>4 DEF audio_algorithm_ipc_tx, Interrupt, Served
    <3>. QED BY <1>0, <2>0, <2>4, <3>1, <3>2, EnvStays, OrdinaryRoles DEF Ordinary, audio_algorithm_ipc_tx
  <2>5. CASE audio_algorithm_ipc_rx_handler \/ LaunchRepair \/ LaunchTakesWindows \/ LaunchPutsWindow
    <3>1. running.id = RX /\ UNCHANGED <<task_list, handler, enabled, pending>>
      BY <2>5 DEF audio_algorithm_ipc_rx_handler, LaunchRepair, LaunchTakesWindows, LaunchPutsWindow, Step
    <3>2. ~audio_algorithm_release /\ ~audio_init
      BY <3>1 DEF audio_algorithm_release, audio_init, Step
    <3>3. Kind
      BY <1>1, VoiceKind
    <3>4. ~Outside
      <4> SUFFICES ASSUME NEW x \in FromOutside, task_list' = Append(task_list, x) PROVE FALSE
        BY DEF Outside
      <4>1. Len(task_list) \in Nat /\ Len(task_list') = Len(task_list) + 1
        BY Appended DEF Tasks, Ids
      <4>. QED BY <3>1, <4>1
    <3>5. Ordinary
      BY <3>1, <3>3, <3>4 DEF Kind, Ordinary, Control
    <3>. QED BY <1>0, <2>0, <3>1, <3>2, <3>5, EnvStays, OrdinaryRoles
  <2>. QED BY <1>1, <2>1, <2>2, <2>3, <2>4, <2>5 DEF VoiceInterrupts, VoiceHandlers
<1>2. CASE Interrupts
  <2>1. CASE PlaybackInterrupt /\ UNCHANGED <<env, mcu>>
    <3>1. native_playback_ipc_tx /\ "tx" \in pending
      BY <2>1 DEF PlaybackInterrupt, Interrupt
    <3>2. UNCHANGED <<handler, enabled, native_playback_started>>
      BY <3>1 DEF native_playback_ipc_tx
    <3>. QED BY <1>0, <2>1, <3>1, <3>2, TxKind, OrdinaryRoles DEF Ordinary
  <2>. QED BY <1>1, <1>2, <2>1 DEF Interrupts
<1>3. CASE Take
  BY <1>0, <1>3, OrdinaryRoles DEF Take, TaskSchedule, Ordinary, playbackVars
<1>4. CASE Handlers
  <2>1. CASE (DecodesNothing \/ Decodes \/ PollEnds) /\ UNCHANGED <<env, mcu>>
    <3>1. /\ running # Idle /\ running.id \notin Control /\ Done
          /\ UNCHANGED <<task_list, handler, enabled, pending, native_playback_started>>
      BY <2>1 DEF DecodesNothing, Decodes, PollEnds, Step, Idle, Control, playbackVars,
                  native_playback_recv_frame
    <3>2. Moves
      BY <1>0, <3>1, DoneMoves
    <3>. QED BY <1>0, <2>1, <3>1, <3>2, OrdinaryRoles DEF Ordinary
  <2>2. CASE PollBegins /\ UNCHANGED <<env, mcu>>
    <3>1. /\ Step(AT_COMMAND, "start") /\ Goto("poll") /\ running.id \notin Control
          /\ UNCHANGED <<task_list, handler, enabled, pending, native_playback_started>>
      BY <2>2 DEF PollBegins, Step, Control, playbackVars
    <3>2. Moves
      BY <1>0, <3>1, GotoMoves
    <3>. QED BY <1>0, <2>2, <3>1, <3>2, OrdinaryRoles DEF Ordinary
  <2>3. CASE native_playback_ipc_check_irq /\ UNCHANGED <<env, mcu>>
    <3>1. native_playback_ipc_tx /\ "tx" \in pending
      BY <2>3 DEF native_playback_ipc_check_irq
    <3>2. UNCHANGED <<handler, enabled, native_playback_started>>
      BY <3>1 DEF native_playback_ipc_tx
    <3>. QED BY <1>0, <2>3, <3>1, <3>2, TxKind, OrdinaryRoles DEF Ordinary
  <2>. QED BY <1>0, <1>1, <1>4, <2>1, <2>2, <2>3, SongRoles, PrepareRoles, FreedRoles
           DEF Handlers, PrepareForNext
<1>5. CASE DmaFrame
  BY <1>0, <1>5, OrdinaryRoles DEF DmaFrame, Frame, Ordinary, playbackVars
<1>6. CASE ipc_rx_user_handler
  BY <1>0, <1>6, McuRoles DEF ipc_rx_user_handler
<1>7. CASE AtCommand /\ UNCHANGED <<env, playbackVars>>
  BY <1>0, <1>7, OrdinaryRoles DEF AtCommand, Post, task_msg_insert, Ordinary, playbackVars
<1>8. CASE UNCHANGED vars
  BY <1>0, <1>8, OrdinaryRoles DEF vars, dmaVars, playbackVars, Served, Ordinary
<1>. QED BY <1>2, <1>3, <1>4, <1>5, <1>6, <1>7, <1>8 DEF Next, DspIsLost

LEMMA RolesInit == Init => Roles
<1> SUFFICES ASSUME Init PROVE Roles
  OBVIOUS
<1>1. /\ task_list = <<>> /\ running = Idle /\ handler = [d \in Dma |-> NULL] /\ enabled = {}
      /\ env = NULL /\ native_playback_started = 0 /\ mcu = "idle"
  BY DEF Init, DmaInit, PlaybackInit
<1>2. handler.rx = NULL /\ handler.tx = NULL /\ ~Freeing
  BY <1>1 DEF Dma, Freeing, Step, Idle
<1>3. DOMAIN Messages = 0 .. 0 /\ Messages[0] = "none"
  BY <1>1 DEF Messages, Idle
<1>4. \A i \in DOMAIN Messages : Messages[i] = "none"
  BY <1>3
<1>5. Quiet(Messages, SongIds) /\ Ended(Messages)
  BY <1>4 DEF Quiet, Ended, SongIds
<1>. QED BY <1>1, <1>2, <1>5 DEF Roles, Song, Call, Lines

(* While a call runs, its interrupts are enabled and have its handlers.    *)
Owned ==
  env # NULL => /\ native_playback_started = 0 /\ enabled = Dma
                /\ handler = [rx |-> "audio_algorithm_ipc_rx", tx |-> "audio_algorithm_ipc_tx"]

LEMMA RolesOwned ==
  ASSUME Roles
  PROVE  Owned /\ TheRightHandlers
<1>1. env # NULL => native_playback_started # 1
  BY DEF Roles, Lines, Dma
<1>2. native_playback_started \in {0, 1}
  BY DEF Roles
<1>. QED BY <1>1, <1>2 DEF Roles, Lines, Owned, TheRightHandlers, Freeing

-----------------------------------------------------------------------------
(* The far and the near voice are in step, in rings that have room for     *)
(* what the main loop may be behind: Late.                                 *)
Late == 2 * MaxFrames * FRAME

EchoFits ==
  /\ FRAME <= AEC_SIZE /\ 4 * FRAME <= SHIFT /\ MaxFrames <= 4
  /\ 11 * FRAME + SHIFT + AEC_SIZE - 1 + Late <= PLC_MAX
  /\ 3 * FRAME + Late <= 2 * AEC_SIZE + 1
  /\ 4 * FRAME + 4 * AEC_SIZE <= OUT_MAX

LEMMA LateIs ==
  /\ Late \in Nat /\ (MaxFrames <= 4 => Late <= 8 * FRAME)
  /\ \A n \in Nat : n <= 2 * MaxFrames => FRAME * n <= Late
  /\ \A n \in Nat : n + 2 <= 2 * MaxFrames => FRAME * n + 2 * FRAME <= Late
<1>1. FRAME \in Nat /\ FRAME >= 1 /\ MaxFrames \in Nat
  BY Sizes, Bounds
<1> DEFINE m == 2 * MaxFrames
<1>2. m \in Nat /\ Late = FRAME * m
  <2>1. 2 * MaxFrames * FRAME = FRAME * (2 * MaxFrames)
    BY <1>1
  <2>. QED BY <1>1, <2>1 DEF Late
<1>3. ASSUME NEW n \in Nat, NEW k \in Nat, n <= k PROVE FRAME * n <= FRAME * k
  <2>1. PICK d \in Nat : k = n + d
    <3>1. k - n \in Nat /\ k = n + (k - n)
      BY <1>3
    <3>. QED BY <3>1
  <2>2. FRAME * (n + d) = FRAME * n + FRAME * d /\ FRAME * n \in Nat /\ FRAME * d \in Nat
    BY FrameProduct
  <2>. QED BY <2>1, <2>2
<1>4. MaxFrames <= 4 => m <= 8
  BY <1>1
<1>5. FRAME * 8 = 8 * FRAME
  BY <1>1
<1> HIDE DEF m
<1>6. MaxFrames <= 4 => Late <= 8 * FRAME
  <2>1. m <= 8 => FRAME * m <= FRAME * 8
    BY <1>2, <1>3
  <2>. QED BY <1>2, <1>4, <1>5, <2>1
<1>7. ASSUME NEW n \in Nat, n + 2 <= m PROVE FRAME * n + 2 * FRAME <= Late
  <2>1. FRAME * (n + 2) <= FRAME * m
    BY <1>2, <1>3, <1>7
  <2>2. FRAME * (n + 2) = FRAME * n + FRAME * 2 /\ FRAME * 2 = 2 * FRAME
    BY FrameProduct
  <2>. QED BY <1>2, <2>1, <2>2
<1>8. ASSUME NEW n \in Nat, n <= m PROVE FRAME * n <= Late
  BY <1>2, <1>3, <1>8
<1>9. Late \in Nat
  BY <1>1, <1>2
<1>. QED BY <1>6, <1>7, <1>8, <1>9 DEF m

LEMMA WindowIsReadyIs ==
  ASSUME Ring
  PROVE  WindowIsReady <=> Near >= AEC_OFFSET
<1> DEFINE a == env.local_write
           b == env.local_read
           m == PLC_MAX
<1>1. a \in 0 .. m - 1 /\ b \in 0 .. m - 1 /\ m \in Nat
  BY OffsetsIn, Sizes
<1> HIDE DEF a, b, m
<1>2. (a + m - b) % m = (a - b) % m
  <2>1. (a - b) % m = (a - b + m) % m
    BY <1>1
  <2>2. a + m - b = a - b + m
    BY <1>1
  <2>. QED BY <2>1, <2>2
<1>. QED BY <1>2 DEF a, b, m, WindowIsReady, Near, Lag

(* What the five numbers of a call can be. *)
LEMMA CallBounds ==
  ASSUME EchoFits, Tasks, Ring, env # NULL, InStep
  PROVE  /\ FRAME \in Nat /\ FRAME >= 1 /\ AEC_SIZE \in Nat /\ SHIFT \in Nat /\ PLC_MAX \in Nat
         /\ OUT_MAX \in Nat /\ Late \in Nat /\ FRAME * ToRun \in Nat
         /\ Near \in Nat /\ Unechoed \in Nat /\ Unheard \in Nat /\ Unsent \in Nat
         /\ UnderEcho \in {0, AEC_SIZE}
         /\ FRAME * ToRun <= Late /\ ("rx" \in pending => FRAME * ToRun + 2 * FRAME <= Late)
         /\ Unechoed = 8 * FRAME + SHIFT + Near
         /\ Near + UnderEcho <= AEC_SIZE + FRAME - 1 + FRAME * ToRun
         /\ Unsent + Near + UnderEcho + 8 * FRAME = 3 * AEC_SIZE + Unheard
         /\ 6 * FRAME <= Unheard /\ Unheard <= 12 * FRAME
         /\ "rx" \notin pending => 8 * FRAME <= Unheard
         /\ env.settle # 0 => Unheard = 8 * FRAME /\ FRAME * ToRun = 0
<1>1. /\ FRAME \in Nat /\ FRAME >= 1 /\ AEC_SIZE \in Nat /\ SHIFT \in Nat /\ PLC_MAX \in Nat
      /\ OUT_MAX \in Nat /\ Late \in Nat
  BY Sizes, LateIs
<1>2. Near \in Nat /\ Unechoed \in Nat /\ Unheard \in Nat /\ Unsent \in Nat
  <2>1. /\ Near \in 0 .. PLC_MAX - 1 /\ Unechoed \in 0 .. PLC_MAX - 1 /\ Unheard \in 0 .. PLC_MAX - 1
    BY OffsetsIn, LagIn DEF Near, Unechoed, Unheard
  <2>2. Unsent \in 0 .. OUT_MAX - 1
    BY <1>1, OffsetsIn, Difference DEF Unsent
  <2>3. (\A x \in 0 .. PLC_MAX - 1 : x \in Nat) /\ (\A x \in 0 .. OUT_MAX - 1 : x \in Nat)
    BY <1>1
  <2>. QED BY <2>1, <2>2, <2>3
<1>3. /\ ToRun \in Nat /\ ToRun <= 2 * MaxFrames /\ UnderEcho \in {0, AEC_SIZE}
      /\ "rx" \in pending => ToRun + 2 <= 2 * MaxFrames
  <2>1. /\ ToRun \in Nat /\ ToRun <= 2 * Behind(RX) /\ Behind(RX) \in Nat /\ MaxFrames \in Nat
        /\ Behind(RX) <= MaxFrames
    BY ToRunIs
  <2>2. "rx" \in pending => Behind(RX) < MaxFrames
    BY DEF Tasks, Room
  <2>. QED BY <2>1, <2>2 DEF UnderEcho
<1>4. /\ FRAME * ToRun \in Nat /\ FRAME * ToRun <= Late
      /\ "rx" \in pending => FRAME * ToRun + 2 * FRAME <= Late
  BY <1>3, LateIs, FrameProduct
<1>5. /\ Unechoed = 8 * FRAME + SHIFT + Near
      /\ Near + UnderEcho <= AEC_SIZE + FRAME - 1 + FRAME * ToRun
      /\ Unsent + Near + UnderEcho + 8 * FRAME = 3 * AEC_SIZE + Unheard
      /\ env.settle # 0 => Unheard = 8 * FRAME
  <2>1. Near + UnderEcho <= AEC_OFFSET - 1 + FRAME * ToRun
    BY DEF InStep
  <2>2. AEC_OFFSET - 1 = AEC_SIZE + FRAME - 1
    BY <1>1 DEF AEC_OFFSET
  <2>. QED BY <2>1, <2>2 DEF InStep
<1>6. env.settle # 0 => FRAME * ToRun = 0
  BY FrameProduct DEF Ring
<1>7. 6 * FRAME <= Unheard /\ Unheard <= 12 * FRAME /\ ("rx" \notin pending => 8 * FRAME <= Unheard)
  <2>1. CASE env.settle # 0
    BY <1>1, <1>5, <2>1
  <2>2. CASE env.settle = 0
    BY <1>1, <1>2, <2>2 DEF InStep
  <2>. QED BY <2>1, <2>2
<1>. QED BY <1>1, <1>2, <1>3, <1>4, <1>5, <1>6, <1>7

(* What the numbers become when an offset is moved. *)
LEMMA RxInStep ==
  ASSUME EchoFits, Tasks, Ring, env # NULL, InStep, audio_algorithm_ipc_rx
  PROVE  InStep'
<1>0. env \in Envs
  BY DEF Ring
<1> DEFINE f == FRAME * ToRun
<1>1. /\ "rx" \in pending /\ "rx" \notin pending' /\ ("tx" \in pending' <=> "tx" \in pending)
      /\ UNCHANGED running /\ ToRun \in Nat
  BY <1>0, RxIs, ToRunIs
<1>2. CASE env.settle > 1
  <2>1. /\ env'.plc_insert = env.plc_insert /\ env'.plc_read = env.plc_read
        /\ env'.plc_aec = env.plc_aec /\ env'.local_write = env.local_write
        /\ env'.local_read = env.local_read /\ env'.out_write = env.out_write
        /\ env'.out_read = env.out_read /\ env'.settle = env.settle - 1 /\ UNCHANGED task_list
    BY <1>0, <1>2, RxIs DEF Is
  <2>2. /\ Unechoed' = Unechoed /\ Near' = Near /\ Unheard' = Unheard /\ Unsent' = Unsent
        /\ UnderEcho' = UnderEcho /\ ToRun' = ToRun
    BY <1>1, <2>1, CountIs DEF Unechoed, Near, Unheard, Unsent, Lag, UnderEcho, ToRun
  <2>3. env.settle # 0 /\ env'.settle # 0
    BY <1>2, <2>1, OffsetsIn
  <2>4. AEC_OFFSET' = AEC_OFFSET
    OBVIOUS
  <2>. QED BY <2>2, <2>3, <2>4 DEF InStep
<1>3. CASE ~(env.settle > 1)
  <2>1. /\ env'.plc_insert = NextFrame(NextFrame(env.plc_insert, PLC_MAX), PLC_MAX)
        /\ env'.local_write = NextFrame(NextFrame(env.local_write, PLC_MAX), PLC_MAX)
        /\ env'.plc_read = env.plc_read /\ env'.plc_aec = env.plc_aec
        /\ env'.local_read = env.local_read /\ env'.out_write = env.out_write
        /\ env'.out_read = env.out_read /\ env'.settle = 0 /\ FramePosted
    BY <1>0, <1>3, RxIs DEF Is
  <2>2. ToRun' = ToRun + 2 /\ UnderEcho' = UnderEcho /\ FRAME * (ToRun + 2) = f + 2 * FRAME
    BY <1>1, <2>1, PostedRuns, FrameProduct
  <2>3. /\ Unechoed + 2 * FRAME < PLC_MAX /\ Unheard + 2 * FRAME < PLC_MAX
        /\ Near + 2 * FRAME < PLC_MAX
    <3>1. 11 * FRAME + SHIFT + AEC_SIZE - 1 + Late <= PLC_MAX /\ 4 * FRAME <= SHIFT
      BY DEF EchoFits
    <3>2. Near <= AEC_SIZE + FRAME - 1 + f /\ f + 2 * FRAME <= Late
      BY <1>1, CallBounds
    <3> HIDE DEF f
    <3>3. /\ FRAME \in Nat /\ FRAME >= 1 /\ AEC_SIZE \in Nat /\ SHIFT \in Nat /\ PLC_MAX \in Nat
          /\ Late \in Nat /\ Near \in Nat /\ Unechoed \in Nat /\ Unheard \in Nat /\ f \in Nat
          /\ Unechoed = 8 * FRAME + SHIFT + Near /\ Unheard <= 12 * FRAME
      BY <1>1, CallBounds DEF f
    <3>4. Near <= AEC_SIZE - FRAME - 1 + Late
      BY ONLY <3>2, <3>3
    <3>. QED BY ONLY <3>1, <3>3, <3>4
  <2>4. /\ Unechoed' = Unechoed + 2 * FRAME /\ Unheard' = Unheard + 2 * FRAME
        /\ Near' = Near + 2 * FRAME /\ Unsent' = Unsent
    <3>1. /\ WholeFrames(env.plc_insert) /\ WholeFrames(env.local_write)
          /\ env.plc_aec \in 0 .. PLC_MAX - 1 /\ env.plc_read \in 0 .. PLC_MAX - 1
          /\ env.local_read \in 0 .. PLC_MAX - 1
      BY OffsetsIn DEF Ring
    <3>2. /\ Lag(env'.plc_insert, env.plc_aec) = Lag(env.plc_insert, env.plc_aec) + 2 * FRAME
          /\ Lag(env'.plc_insert, env.plc_read) = Lag(env.plc_insert, env.plc_read) + 2 * FRAME
          /\ Lag(env'.local_write, env.local_read) = Lag(env.local_write, env.local_read) + 2 * FRAME
      BY <2>1, <2>3, <3>1, TwoFrames DEF Unechoed, Unheard, Near
    <3>. QED BY <2>1, <3>2 DEF Unechoed, Unheard, Near, Unsent
  <2>5. /\ Unechoed' = 8 * FRAME + SHIFT + Near'
        /\ Unsent' + Near' + UnderEcho' + 8 * FRAME = 3 * AEC_SIZE + Unheard'
    BY <2>2, <2>4, CallBounds
  <2>6. Near' + UnderEcho' <= AEC_OFFSET - 1 + FRAME * ToRun'
    <3>1. Near + UnderEcho <= AEC_SIZE + FRAME - 1 + f /\ f \in Nat
      BY CallBounds
    <3>2. FRAME * ToRun' = f + 2 * FRAME
      BY <2>2
    <3> HIDE DEF f
    <3>. QED BY <2>2, <2>4, <3>1, <3>2, CallBounds DEF AEC_OFFSET
  <2>7. /\ Unheard >= IF "tx" \in pending THEN 8 * FRAME ELSE 6 * FRAME
        /\ Unheard <= IF "tx" \in pending THEN 10 * FRAME ELSE 8 * FRAME
    <3>1. CASE env.settle = 0
      BY <1>1, <3>1 DEF InStep
    <3>2. CASE env.settle # 0
      <4>1. Unheard = 8 * FRAME
        BY <3>2 DEF InStep
      <4>2. FRAME \in Nat
        BY Sizes
      <4>. QED BY <4>1, <4>2
    <3>. QED BY <3>1, <3>2
  <2>8. /\ Unheard' >= IF "tx" \in pending' THEN 10 * FRAME ELSE 8 * FRAME
        /\ Unheard' <= IF "tx" \in pending' THEN 12 * FRAME ELSE 10 * FRAME
    <3>1. Unheard \in Nat /\ FRAME \in Nat
      BY CallBounds
    <3>. QED BY <1>1, <2>4, <2>7, <3>1
  <2>. QED BY <1>1, <2>1, <2>5, <2>6, <2>8 DEF InStep
<1>. QED BY <1>2, <1>3

LEMMA TwoSends ==
  ASSUME NEW a \in 0 .. OUT_MAX - 1, NEW b \in 0 .. OUT_MAX - 1, (a - b) % OUT_MAX >= 2 * FRAME
  PROVE  (a - NextWindow(NextWindow(b, FRAME, OUT_MAX), FRAME, OUT_MAX)) % OUT_MAX
            = ((a - b) % OUT_MAX) - 2 * FRAME
<1> DEFINE m == OUT_MAX
           c == NextWindow(b, FRAME, m)
           d == NextWindow(c, FRAME, m)
<1>1. m \in Nat /\ FRAME \in 1 .. m /\ FRAME \in 0 .. m /\ FRAME \in Nat
  BY Sizes
<1>2. c = Forward(b, FRAME, m) /\ c \in 0 .. m - 1
  BY <1>1, NextWindowIs
<1>3. d = Forward(c, FRAME, m)
  BY <1>1, <1>2, NextWindowIs
<1> DEFINE x == (a - b) % m
           y == (a - c) % m
           z == (a - d) % m
<1>4. x \in 0 .. m - 1 /\ x \in Int
  BY <1>1, Difference
<1>5. x >= FRAME => y = x - FRAME
  BY <1>1, <1>2, Behindhand
<1>6. y >= FRAME => z = y - FRAME
  BY <1>1, <1>2, <1>3, Behindhand
<1>7. x >= 2 * FRAME
  OBVIOUS
<1> HIDE DEF c, d, x, y, z
<1>8. z = x - 2 * FRAME
  BY <1>1, <1>4, <1>5, <1>6, <1>7
<1>. QED BY <1>8 DEF c, d, x, y, z

LEMMA TxInStep ==
  ASSUME EchoFits, Tasks, Ring, env # NULL, InStep, audio_algorithm_ipc_tx
  PROVE  InStep'
<1>0. env \in Envs
  BY DEF Ring
<1>1. /\ "tx" \in pending /\ "tx" \notin pending' /\ ("rx" \in pending' <=> "rx" \in pending)
      /\ UNCHANGED <<task_list, running>>
  BY <1>0, TxIs
<1>2. ToRun' = ToRun /\ UnderEcho' = UnderEcho
  BY <1>1, CountIs DEF ToRun, UnderEcho
<1>3. CASE env.settle # 0
  <2>1. env' = env
    BY <1>0, <1>3, TxIs
  <2>2. /\ Unechoed' = Unechoed /\ Near' = Near /\ Unheard' = Unheard /\ Unsent' = Unsent
    BY <2>1 DEF Unechoed, Near, Unheard, Unsent, Lag
  <2>. QED BY <1>2, <1>3, <2>1, <2>2 DEF InStep
<1>4. CASE env.settle = 0
  <2>1. /\ env'.plc_read = NextFrame(NextFrame(env.plc_read, PLC_MAX), PLC_MAX)
        /\ env'.out_read = NextWindow(NextWindow(env.out_read, FRAME, OUT_MAX), FRAME, OUT_MAX)
        /\ env'.plc_insert = env.plc_insert /\ env'.plc_aec = env.plc_aec
        /\ env'.local_write = env.local_write /\ env'.local_read = env.local_read
        /\ env'.out_write = env.out_write /\ env'.settle = 0
    BY <1>0, <1>4, TxIs DEF Is
  <2>2. Unechoed' = Unechoed /\ Near' = Near
    BY <2>1 DEF Unechoed, Near
  <2>3. Unheard >= 2 * FRAME /\ Unsent >= 2 * FRAME
    <3>1. Unheard >= 2 * FRAME
      BY CallBounds
    <3>2. Near + UnderEcho <= AEC_SIZE + FRAME - 1 + FRAME * ToRun
      BY CallBounds
    <3>3. 3 * FRAME + Late <= 2 * AEC_SIZE + 1
      BY DEF EchoFits
    <3> DEFINE f == FRAME * ToRun
    <3>4. \/ f + 2 * FRAME <= Late /\ 6 * FRAME <= Unheard
          \/ f <= Late /\ 8 * FRAME <= Unheard
      BY CallBounds
    <3>5. f \in Nat /\ Near + UnderEcho <= AEC_SIZE + FRAME - 1 + f
      BY CallBounds
    <3> HIDE DEF f
    <3>6. /\ Unsent + Near + UnderEcho + 8 * FRAME = 3 * AEC_SIZE + Unheard
          /\ Unsent \in Nat /\ Near \in Nat /\ UnderEcho \in Nat /\ Unheard \in Nat
          /\ FRAME \in Nat /\ AEC_SIZE \in Nat /\ Late \in Nat
      BY CallBounds
    <3>7. Unsent >= 2 * FRAME
      BY ONLY <3>3, <3>4, <3>5, <3>6
    <3>. QED BY <3>1, <3>7
  <2>4. Unheard' = Unheard - 2 * FRAME
    BY <2>1, <2>3, OffsetsIn, TwoFrames DEF Unheard, Ring
  <2>5. Unsent' = Unsent - 2 * FRAME
    BY <2>1, <2>3, OffsetsIn, TwoSends DEF Unsent
  <2>6. /\ Unechoed' = 8 * FRAME + SHIFT + Near'
        /\ Unsent' + Near' + UnderEcho' + 8 * FRAME = 3 * AEC_SIZE + Unheard'
    BY <1>2, <2>2, <2>4, <2>5, CallBounds
  <2>7. Near' + UnderEcho' <= AEC_OFFSET - 1 + FRAME * ToRun'
    BY <1>2, <2>2 DEF InStep
  <2>8. /\ Unheard' >= IF "rx" \in pending' THEN 6 * FRAME ELSE 8 * FRAME
        /\ Unheard' <= IF "rx" \in pending' THEN 8 * FRAME ELSE 10 * FRAME
    <3>1. /\ Unheard >= IF "rx" \in pending THEN 8 * FRAME ELSE 10 * FRAME
          /\ Unheard <= IF "rx" \in pending THEN 10 * FRAME ELSE 12 * FRAME
      BY <1>1, <1>4 DEF InStep
    <3>2. Unheard \in Nat /\ FRAME \in Nat
      BY CallBounds
    <3>. QED BY <1>1, <2>4, <3>1, <3>2
  <2>. QED BY <1>1, <2>1, <2>6, <2>7, <2>8 DEF InStep
<1>. QED BY <1>3, <1>4

LEMMA Moved ==
  ASSUME NEW a \in 0 .. PLC_MAX - 1, NEW b \in 0 .. PLC_MAX - 1, Lag(a, b) >= AEC_SIZE
  PROVE  Lag(a, NextWindow(b, AEC_SIZE, PLC_MAX)) = Lag(a, b) - AEC_SIZE
<1>1. PLC_MAX \in Nat /\ AEC_SIZE \in 1 .. PLC_MAX /\ AEC_SIZE \in 0 .. PLC_MAX
  BY Sizes
<1>2. NextWindow(b, AEC_SIZE, PLC_MAX) = Forward(b, AEC_SIZE, PLC_MAX)
  BY <1>1, NextWindowIs
<1>. QED BY <1>1, <1>2, Behindhand DEF Lag

(* A step of the handler that leaves what was heard, and its interrupts.   *)
LEMMA HandlerInStep ==
  ASSUME EchoFits, Tasks, Ring, env # NULL, InStep,
         audio_algorithm_ipc_rx_handler \/ LaunchRepair \/ LaunchTakesWindows \/ LaunchPutsWindow
  PROVE  InStep'
<1>0. env \in Envs /\ WholeWindows(env.out_write) /\ running.id = RX /\ ToRun \in Nat
  BY ToRunIs DEF audio_algorithm_ipc_rx_handler, LaunchRepair, LaunchTakesWindows, LaunchPutsWindow,
                 Step, Ring
<1>1. ASSUME audio_algorithm_ipc_rx_handler \/ LaunchRepair
      PROVE  InStep'
  <2>1. /\ env'.plc_insert = env.plc_insert /\ env'.plc_read = env.plc_read
        /\ env'.plc_aec = env.plc_aec /\ env'.local_write = env.local_write
        /\ env'.local_read = env.local_read /\ env'.out_write = env.out_write
        /\ env'.out_read = env.out_read /\ env'.settle = env.settle
    BY <1>0, <1>1, StartIs, RepairIs DEF Is
  <2>2. /\ UNCHANGED pending /\ ToRun' = ToRun /\ UnderEcho' = 0 /\ running.at # "echo"
    BY <1>0, <1>1, StartIs, RepairIs, LaunchRuns DEF Step
  <2>3. UnderEcho' = UnderEcho
    BY <2>2 DEF UnderEcho
  <2>4. /\ Unechoed' = Unechoed /\ Near' = Near /\ Unheard' = Unheard /\ Unsent' = Unsent
    BY <2>1 DEF Unechoed, Near, Unheard, Unsent, Lag
  <2>. QED BY <2>1, <2>2, <2>3, <2>4 DEF InStep
<1>2. CASE LaunchTakesWindows /\ WindowIsReady
  <2>1. /\ env'.plc_aec = NextWindow(env.plc_aec, AEC_SIZE, PLC_MAX)
        /\ env'.local_read = NextWindow(env.local_read, AEC_SIZE, PLC_MAX)
        /\ env'.plc_insert = env.plc_insert /\ env'.plc_read = env.plc_read
        /\ env'.local_write = env.local_write /\ env'.out_write = env.out_write
        /\ env'.out_read = env.out_read /\ env'.settle = env.settle
    BY <1>0, <1>2, TakeIs DEF Is
  <2>2. /\ UNCHANGED pending /\ ToRun' = ToRun /\ UnderEcho' = AEC_SIZE /\ UnderEcho = 0
    BY <1>0, <1>2, TakeIs, LaunchRuns DEF Step, UnderEcho
  <2>3. Unheard' = Unheard /\ Unsent' = Unsent
    BY <2>1 DEF Unheard, Unsent
  <2>4. Near >= AEC_SIZE /\ Unechoed >= AEC_SIZE
    <3>1. Near >= AEC_SIZE + FRAME
      BY <1>2, WindowIsReadyIs DEF AEC_OFFSET
    <3>. QED BY <3>1, CallBounds
  <2>5. Near' = Near - AEC_SIZE /\ Unechoed' = Unechoed - AEC_SIZE
    BY <2>1, <2>4, OffsetsIn, Moved DEF Near, Unechoed
  <2>6. /\ Unechoed' = 8 * FRAME + SHIFT + Near'
        /\ Unsent' + Near' + UnderEcho' + 8 * FRAME = 3 * AEC_SIZE + Unheard'
        /\ Near' + UnderEcho' = Near + UnderEcho
    BY <2>2, <2>3, <2>5, CallBounds
  <2>. QED BY <2>1, <2>2, <2>3, <2>6 DEF InStep
<1>3. CASE LaunchTakesWindows /\ ~WindowIsReady
  <2>1. /\ Step(RX, "repair") /\ LaunchReturns /\ env' = env /\ UNCHANGED <<task_list, pending>>
    BY <1>0, <1>3, TakeIs
  <2>2. ToRun' = ToRun - 1 /\ UnderEcho' = 0 /\ UnderEcho = 0
    BY <2>1, ReturnRuns DEF Step, UnderEcho
  <2>3. /\ Unechoed' = Unechoed /\ Near' = Near /\ Unheard' = Unheard /\ Unsent' = Unsent
    BY <2>1 DEF Unechoed, Near, Unheard, Unsent, Lag
  <2>4. Near' + UnderEcho' <= AEC_OFFSET - 1 + FRAME * ToRun'
    <3>1. Near < AEC_OFFSET /\ Near \in Nat /\ AEC_OFFSET \in Nat
      <4>1. Near \in Nat /\ AEC_OFFSET \in Nat
        BY CallBounds DEF AEC_OFFSET
      <4>. QED BY <1>3, <4>1, WindowIsReadyIs
    <3>2. ToRun' \in Nat
      <4>1. ToRun >= 1
        BY <1>0, ToRunIs
      <4>. QED BY <1>0, <2>2, <4>1
    <3>3. FRAME * ToRun' \in Nat
      BY <3>2, FrameProduct
    <3>. QED BY <2>2, <2>3, <3>1, <3>3
  <2>. QED BY <2>1, <2>2, <2>3, <2>4 DEF InStep
<1>4. CASE LaunchPutsWindow
  <2>1. /\ env'.out_write = Forward(env.out_write, AEC_SIZE, OUT_MAX)
        /\ env'.plc_insert = env.plc_insert /\ env'.plc_read = env.plc_read
        /\ env'.plc_aec = env.plc_aec /\ env'.local_write = env.local_write
        /\ env'.local_read = env.local_read /\ env'.out_read = env.out_read
        /\ env'.settle = env.settle /\ Step(RX, "echo") /\ LaunchReturns
        /\ UNCHANGED <<task_list, pending>>
    BY <1>0, <1>4, PutIs DEF Is
  <2>2. ToRun' = ToRun - 1 /\ UnderEcho' = 0 /\ UnderEcho = AEC_SIZE
    BY <2>1, ReturnRuns DEF Step, UnderEcho
  <2>3. /\ Unechoed' = Unechoed /\ Near' = Near /\ Unheard' = Unheard
    BY <2>1 DEF Unechoed, Near, Unheard, Lag
  <2>4. Unsent + AEC_SIZE < OUT_MAX
    <3>1. 4 * FRAME + 4 * AEC_SIZE <= OUT_MAX
      BY DEF EchoFits
    <3>2. /\ Unsent + Near + AEC_SIZE + 8 * FRAME = 3 * AEC_SIZE + Unheard
          /\ Unheard <= 12 * FRAME /\ Near \in Nat /\ Unheard \in Nat /\ Unsent \in Nat
          /\ AEC_SIZE \in Nat /\ FRAME \in Nat /\ OUT_MAX \in Nat
      BY <2>2, CallBounds
    <3>3. AEC_SIZE >= 1
      BY Sizes
    <3>. QED BY ONLY <3>1, <3>2, <3>3
  <2>5. Unsent' = Unsent + AEC_SIZE
    <3>1. OUT_MAX \in Nat /\ AEC_SIZE \in 0 .. OUT_MAX
      BY Sizes
    <3>2. env.out_write \in 0 .. OUT_MAX - 1 /\ env.out_read \in 0 .. OUT_MAX - 1
      BY OffsetsIn
    <3>3. ((env.out_write - env.out_read) % OUT_MAX) + AEC_SIZE < OUT_MAX
      BY <2>4 DEF Unsent
    <3>4. (Forward(env.out_write, AEC_SIZE, OUT_MAX) - env.out_read) % OUT_MAX
            = ((env.out_write - env.out_read) % OUT_MAX) + AEC_SIZE
      BY <3>1, <3>2, <3>3, Ahead
    <3>. QED BY <2>1, <3>4 DEF Unsent
  <2>6. /\ Unechoed' = 8 * FRAME + SHIFT + Near'
        /\ Unsent' + Near' + UnderEcho' + 8 * FRAME = 3 * AEC_SIZE + Unheard'
    BY <2>2, <2>3, <2>5, CallBounds
  <2>7. Near' + UnderEcho' <= AEC_OFFSET - 1 + FRAME * ToRun'
    <3>1. ToRun' \in Nat /\ ToRun = ToRun' + 1
      <4>1. ToRun >= 1
        BY <1>0, ToRunIs
      <4>. QED BY <1>0, <2>2, <4>1
    <3>2. FRAME * (ToRun' + 1) = FRAME * ToRun' + FRAME /\ FRAME * ToRun' \in Nat
      BY <3>1, FrameProduct
    <3> DEFINE f == FRAME * ToRun'
    <3>3. Near + AEC_SIZE <= AEC_SIZE + FRAME - 1 + FRAME + f /\ f \in Nat
      <4>1. Near + UnderEcho <= AEC_SIZE + FRAME - 1 + FRAME * ToRun
        BY CallBounds
      <4>2. FRAME * ToRun = f + FRAME
        BY <3>1, <3>2
      <4>3. f \in Nat /\ Near \in Nat /\ FRAME \in Nat /\ AEC_SIZE \in Nat
        BY <3>2, CallBounds
      <4> HIDE DEF f
      <4>. QED BY <2>2, <4>1, <4>2, <4>3
    <3> HIDE DEF f
    <3>4. FRAME <= AEC_SIZE /\ Near \in Nat /\ FRAME \in Nat /\ AEC_SIZE \in Nat
      BY CallBounds DEF EchoFits
    <3>5. Near <= AEC_OFFSET - 1 + f
      BY <3>3, <3>4 DEF AEC_OFFSET
    <3>6. Near' + UnderEcho' = Near
      BY <2>2, <2>3, <3>4
    <3>. QED BY <3>5, <3>6 DEF f
  <2>. QED BY <2>1, <2>3, <2>6, <2>7 DEF InStep
<1>. QED BY <1>1, <1>2, <1>3, <1>4

LEMMA ElsewhereInStep ==
  ASSUME Owned, Tasks, Ring, env # NULL, InStep, Elsewhere
  PROVE  InStep'
<1>1. ToRun' = ToRun /\ UnderEcho' = UnderEcho /\ env' = env
  BY ElsewhereRuns DEF Elsewhere
<1>2. /\ Unechoed' = Unechoed /\ Near' = Near /\ Unheard' = Unheard /\ Unsent' = Unsent
  BY <1>1 DEF Unechoed, Near, Unheard, Unsent, Lag
<1>3. /\ native_playback_started = 0 /\ enabled = Dma
      /\ handler.rx = "audio_algorithm_ipc_rx" /\ handler.tx = "audio_algorithm_ipc_tx"
  BY DEF Owned
<1>4. CASE UNCHANGED pending
  BY <1>1, <1>2, <1>4 DEF InStep
<1>5. CASE Frame
  <2>1. pending = {}
    BY <1>3, <1>5 DEF Frame, Tasks
  <2>2. pending' = Dma
    <3>1. "audio_algorithm_ipc_rx" # NULL /\ "audio_algorithm_ipc_tx" # NULL
      BY TaskBounds DEF Codes
    <3>2. handler["rx"] = "audio_algorithm_ipc_rx" /\ handler["tx"] = "audio_algorithm_ipc_tx"
      BY <1>3
    <3>3. \A d \in Dma : handler[d] # NULL
      BY <3>1, <3>2 DEF Dma
    <3>. QED BY <1>5, <3>3 DEF Frame
  <2>. QED BY <1>1, <1>2, <2>1, <2>2 DEF InStep, Dma
<1>. QED BY <1>3, <1>4, <1>5 DEF Elsewhere

LEMMA FirstInStep ==
  ASSUME EchoFits, Tasks, Left, env = NULL, audio_init, env' = audio_algorithm_init
  PROVE  InStep'
<1>1. /\ env'.plc_insert = 0 /\ env'.plc_read = PLC_MAX - 8 * FRAME
      /\ env'.plc_aec = PLC_MAX - 8 * FRAME - SHIFT /\ env'.local_write = 0
      /\ env'.local_read = 0 /\ env'.out_write = 0 /\ env'.out_read = OUT_MAX - 3 * AEC_SIZE
      /\ env'.settle = SETTLE /\ ToRun' = 0 /\ UnderEcho' = 0
  BY FirstRing DEF Is
<1>2. /\ FRAME \in Nat /\ FRAME >= 1 /\ AEC_SIZE \in Nat /\ AEC_SIZE >= 1 /\ SHIFT \in Nat
      /\ PLC_MAX \in Nat /\ OUT_MAX \in Nat /\ SETTLE \in Nat /\ SETTLE >= 1 /\ Late \in Nat
      /\ PLC_MAX >= 8 * FRAME + SHIFT /\ 4 * FRAME + 4 * AEC_SIZE <= OUT_MAX
      /\ 11 * FRAME + SHIFT + AEC_SIZE - 1 + Late <= PLC_MAX
  BY Sizes, LateIs DEF EchoFits
<1>3. /\ Lag(0, 0) = 0 /\ Lag(0, PLC_MAX - 8 * FRAME) = 8 * FRAME
      /\ Lag(0, PLC_MAX - 8 * FRAME - SHIFT) = 8 * FRAME + SHIFT
  <2>1. /\ PLC_MAX - 8 * FRAME \in 0 .. PLC_MAX - 1 /\ PLC_MAX - 8 * FRAME - SHIFT \in 0 .. PLC_MAX - 1
        /\ 0 \in 0 .. PLC_MAX - 1
    BY <1>2
  <2> DEFINE r == PLC_MAX - 8 * FRAME
             w == PLC_MAX - 8 * FRAME - SHIFT
             m == PLC_MAX
  <2>2. r > 0 /\ w > 0 /\ 0 - r + m = 8 * FRAME /\ 0 - w + m = 8 * FRAME + SHIFT
    BY <1>2
  <2>3. m \in Nat /\ r \in 0 .. m - 1 /\ w \in 0 .. m - 1 /\ 0 \in 0 .. m - 1
    BY <1>2, <2>1
  <2> HIDE DEF r, w, m
  <2>4. /\ (0 - 0) % m = 0 /\ (0 - r) % m = 0 - r + m /\ (0 - w) % m = 0 - w + m
    BY <2>2, <2>3, Difference
  <2>. QED BY <2>2, <2>4 DEF Lag, r, w, m
<1>4. (0 - (OUT_MAX - 3 * AEC_SIZE)) % OUT_MAX = 3 * AEC_SIZE
  <2> DEFINE m == OUT_MAX
             d == OUT_MAX - 3 * AEC_SIZE
  <2>1. m \in Nat /\ d \in 0 .. m - 1 /\ 0 \in 0 .. m - 1 /\ d > 0 /\ 0 - d + m = 3 * AEC_SIZE
    BY <1>2
  <2> HIDE DEF m, d
  <2>2. (0 - d) % m = 0 - d + m
    BY <2>1, Difference
  <2>. QED BY <2>1, <2>2 DEF m, d
<1>5. /\ Unechoed' = 8 * FRAME + SHIFT /\ Near' = 0 /\ Unheard' = 8 * FRAME /\ Unsent' = 3 * AEC_SIZE
  BY <1>1, <1>3, <1>4 DEF Unechoed, Near, Unheard, Unsent
<1>6. FRAME * ToRun' = 0
  BY <1>1, <1>2
<1>. QED BY <1>1, <1>2, <1>5, <1>6 DEF InStep, AEC_OFFSET

LEMMA InStepNext ==
  ASSUME EchoFits, Owned, Tasks, Left, Rings, InStep, [Next]_vars
  PROVE  InStep'
<1>1. CASE env = NULL
  <2>1. CASE audio_init /\ env' = audio_algorithm_init
    BY <1>1, <2>1, FirstInStep
  <2>. QED BY <1>1, <2>1, NoCallSteps DEF InStep
<1>2. CASE env # NULL
  <2>1. Ring
    BY <1>2 DEF Rings, Ring
  <2>2. CASE audio_algorithm_release
    BY <2>2 DEF audio_algorithm_release, InStep
  <2>. QED BY <1>2, <2>1, <2>2, CallSteps, RxInStep, TxInStep, HandlerInStep, ElsewhereInStep
<1>. QED BY <1>1, <1>2

-----------------------------------------------------------------------------
(* The theorems about calls.  Base needs nothing of the sizes.             *)
Base == Tasks /\ Left /\ Rings /\ Roles /\ Counted

(* Only a frame's interrupt and the handler without a call change late.    *)
LEMMA LateSteps ==
  ASSUME [Next]_vars
  PROVE  audio_algorithm_ipc_rx \/ audio_algorithm_ipc_rx_handler \/ UNCHANGED late
<1>1. CASE VoiceInterrupts
  BY <1>1 DEF VoiceInterrupts, audio_algorithm_ipc_tx
<1>2. CASE VoiceHandlers
  BY <1>2 DEF VoiceHandlers, audio_init, audio_algorithm_release, LaunchRepair, LaunchTakesWindows,
              LaunchPutsWindow
<1>. QED BY <1>1, <1>2 DEF Next, Interrupts, Take, Handlers, PrepareForNext, DmaFrame,
                           ipc_rx_user_handler, DspIsLost, vars

LEMMA OtherKeepsFrames ==
  ASSUME Tasks, Other
  PROVE  Behind(RX)' = Behind(RX)
<1>0. /\ Behind(RX) = Times(task_list, RX) + (IF running.id = RX THEN 1 ELSE 0)
      /\ Behind(RX)' = Times(task_list', RX) + (IF running'.id = RX THEN 1 ELSE 0)
  BY CountIs
<1>1. ASSUME NEW x \in Ids \ {RX}, task_list' = Append(task_list, x), UNCHANGED running
      PROVE  Behind(RX)' = Behind(RX)
  BY <1>0, <1>1, Appended
<1>2. CASE DecodeAsked \/ Outside
  BY <1>1, <1>2, AllIds DEF DecodeAsked, Outside, FromOutside
<1>3. CASE TaskSchedule
  BY <1>0, <1>3, Taken DEF Idle
<1>4. CASE Moves /\ running.id # RX
  BY <1>0, <1>4 DEF Moves
<1>5. CASE Served \/ Frame
  BY <1>0, <1>5 DEF Served, Frame
<1>. QED BY <1>2, <1>3, <1>4, <1>5 DEF Other

LEMMA CountedNext ==
  ASSUME Tasks, Left, Rings, Counted, [Next]_vars
  PROVE  Counted'
<1>0. /\ Behind(RX) \in Nat /\ Count(RX) \in Nat
      /\ Behind(RX) = Count(RX) + (IF running.id = RX THEN 1 ELSE 0)
      /\ Behind(RX)' = Count(RX)' + (IF running'.id = RX THEN 1 ELSE 0)
  BY ToRunIs DEF Behind
<1>1. CASE env = NULL
  <2>0. Behind(RX) = late
    BY <1>1 DEF Counted
  <2>1. CASE audio_algorithm_ipc_rx
    BY <1>1, <2>0, <2>1 DEF audio_algorithm_ipc_rx, Counted, Behind, Count
  <2>2. CASE audio_algorithm_ipc_rx_handler
    <3>1. Step(RX, "start") /\ UNCHANGED <<env, task_list>> /\ Count(RX)' = Count(RX)
      BY <1>1, <2>2, CountIs DEF audio_algorithm_ipc_rx_handler
    <3>2. CASE Done /\ late' = late - 1
      BY <1>0, <1>1, <2>0, <3>1, <3>2 DEF Done, Idle, Step, Counted
    <3>3. CASE Goto("lost") /\ UNCHANGED late
      <4>1. running'.id = RX
        BY <3>1, <3>3, StepIs DEF Goto, Step, Tasks
      <4>. QED BY <1>0, <1>1, <2>0, <3>1, <3>3, <4>1 DEF Step, Counted
    <3>. QED BY <1>1, <2>2, <3>2, <3>3 DEF audio_algorithm_ipc_rx_handler
  <2>3. CASE UNCHANGED late /\ UNCHANGED env /\ Other
    BY <1>1, <2>0, <2>3, OtherKeepsFrames DEF Counted
  <2>4. CASE UNCHANGED late /\ audio_init /\ env' = audio_algorithm_init
    <3>1. Step(CREATE, "start") /\ running' = Idle
      BY <2>4 DEF audio_init, Done
    <3>2. Count(RX) = 0 /\ running.id # RX /\ running'.id # DESTROY
      BY <1>0, <1>1, <3>1 DEF Left, Step, Idle
    <3>3. late = 0
      BY <1>0, <2>0, <3>2
    <3>4. env' # NULL
      BY <1>1, <2>4, CreateFills
    <3>. QED BY <2>4, <3>2, <3>3, <3>4 DEF Counted
  <2>. QED BY <1>1, <2>1, <2>2, <2>3, <2>4, NoCallSteps, LateSteps
<1>2. CASE env # NULL
  <2>0. /\ env' = NULL => audio_algorithm_release
        /\ running.id # DESTROY => late = 0
        /\ running.id = DESTROY => Behind(RX) = late
    BY <1>2, RingsNext DEF Counted
  <2>1. CASE audio_algorithm_ipc_rx
    <3>1. env' # NULL /\ UNCHANGED running
      BY <1>2, <2>0, <2>1 DEF audio_algorithm_ipc_rx, audio_algorithm_release, Done, Step, Idle
    <3>2. CASE UNCHANGED <<task_list, late>>
      BY <1>2, <3>1, <3>2 DEF Counted, Behind, Count
    <3>3. CASE /\ task_list' = <<RX>> \o task_list
               /\ late' = IF running.id = DESTROY THEN late + 1 ELSE late
      <4>1. FramePosted
        BY <2>1, <3>3 DEF audio_algorithm_ipc_rx, Interrupt, FramePosted
      <4>2. Count(RX)' = Count(RX) + 1
        BY <4>1, PostedRuns
      <4>3. Behind(RX)' = Behind(RX) + 1
        BY <1>0, <3>1, <4>2
      <4>. QED BY <1>0, <1>2, <2>0, <3>1, <3>3, <4>3 DEF Counted
    <3>. QED BY <1>2, <2>1, <3>2, <3>3 DEF audio_algorithm_ipc_rx, task_msg_insert_front
  <2>2. CASE audio_algorithm_ipc_tx /\ UNCHANGED late
    <3>1. env' # NULL /\ UNCHANGED <<running, task_list>>
      BY <1>2, <2>0, <2>2 DEF audio_algorithm_ipc_tx, audio_algorithm_release, Done, Step, Idle
    <3>. QED BY <1>2, <2>2, <3>1 DEF Counted, Behind, Count
  <2>3. CASE \/ audio_algorithm_ipc_rx_handler \/ LaunchRepair \/ LaunchTakesWindows
             \/ LaunchPutsWindow
    <3>1. running.id = RX /\ UNCHANGED <<task_list, late>> /\ running # Idle
      BY <1>2, <2>3 DEF audio_algorithm_ipc_rx_handler, LaunchRepair, LaunchTakesWindows,
                        LaunchPutsWindow, Step, Idle
    <3>2. Kind
      BY <2>3, VoiceKind DEF VoiceHandlers
    <3>3. running'.id # DESTROY
      BY <3>1, <3>2 DEF Kind, FramePosted, DecodeAsked, Outside, TaskSchedule, Moves, Served, Frame
    <3>4. env' # NULL
      BY <2>0, <3>1 DEF audio_algorithm_release, Step
    <3>. QED BY <2>0, <3>1, <3>3, <3>4 DEF Counted
  <2>4. CASE audio_algorithm_release /\ UNCHANGED late
    <3>1. running.id = DESTROY /\ running'.id = "none" /\ env' = NULL /\ Count(RX)' = Count(RX)
      BY <2>4 DEF audio_algorithm_release, Step, Done, Idle, Count
    <3>. QED BY <1>0, <2>0, <2>4, <3>1 DEF Counted
  <2>5. CASE Elsewhere /\ UNCHANGED late
    <3>1. env' # NULL /\ Other /\ Behind(RX)' = Behind(RX)
      BY <1>2, <2>5, OtherKeepsFrames DEF Elsewhere
    <3>2. CASE running.id = DESTROY
      BY <2>0, <2>5, <3>1, <3>2 DEF Elsewhere, Counted
    <3>3. CASE running.id # DESTROY /\ running'.id # DESTROY
      BY <2>0, <2>5, <3>1, <3>3 DEF Counted
    <3>4. CASE running.id # DESTROY /\ running'.id = DESTROY
      <4>1. TaskSchedule
        BY <3>1, <3>4 DEF Other, DecodeAsked, Outside, Moves, Served, Frame
      <4>2. task_list[1] # RX
        BY <3>4, <4>1, Taken
      <4>3. Behind(RX)' = 0
        BY <1>0, <4>1, <4>2, NoFrameWaits
      <4>. QED BY <2>0, <2>5, <3>4, <4>3 DEF Counted
    <3>. QED BY <3>2, <3>3, <3>4
  <2>. QED BY <1>2, <2>1, <2>2, <2>3, <2>4, <2>5, CallSteps, LateSteps
<1>. QED BY <1>1, <1>2

LEMMA BaseInit == Init => Base /\ Repair /\ InStep
<1> SUFFICES ASSUME Init PROVE Base /\ Repair /\ InStep
  OBVIOUS
<1>1. /\ task_list = <<>> /\ running = Idle /\ enabled = {} /\ pending = {} /\ env = NULL
  BY DEF Init, DmaInit
<1>2. task_list \in Seq(Ids) /\ Len(task_list) = 0
  BY <1>1
<1>3. \A id : Count(id) = 0
  <2>1. \A id : /\ Times(task_list, id) \in Nat
                /\ Times(task_list, id) > 0 <=> \E i \in 1 .. Len(task_list) : task_list[i] = id
    BY <1>2, TimesType
  <2>2. 1 .. Len(task_list) = {}
    BY <1>2
  <2>3. ASSUME NEW id PROVE Times(task_list, id) = 0
    <3>0. ~ \E i \in 1 .. Len(task_list) : task_list[i] = id
      BY ONLY <2>2
    <3>1. Times(task_list, id) \in Nat /\ ~(Times(task_list, id) > 0)
      BY ONLY <2>1, <3>0
    <3>. QED BY <3>1
  <2>. QED BY <2>3, CountIs
<1>4. Tasks
  <2>1. FramesFirst
    BY <1>2 DEF FramesFirst
  <2>2. Behind(RX) = 0 /\ Behind(DECODE) = 0
    BY <1>1, <1>3 DEF Behind, Idle
  <2>. QED BY <1>1, <1>2, <2>1, <2>2, Bounds DEF Tasks, AtStep, Room
<1>5. Left
  BY <1>1, <1>3 DEF Left, Idle
<1>6. Counted
  BY <1>1, <1>3 DEF Init, Counted, Behind, Idle
<1>. QED BY <1>1, <1>4, <1>5, <1>6, RolesInit DEF Base, Rings, Repair, InStep

LEMMA BaseNext == Base /\ [Next]_vars => Base'
BY TasksNext, LeftNext, RingsNext, RolesNext, CountedNext DEF Base

LEMMA BaseHolds == SafeSpec => []Base
<1>1. Init => Base
  BY BaseInit
<1>. QED BY <1>1, BaseNext, PTL DEF SafeSpec

(* TheRightHandlers: a call and a song never run together, and each has    *)
(* the interrupts it needs with its own handlers, as the MCU that posts    *)
(* the messages of ipc_rx_user_handler waits for the end of a song and     *)
(* says the end of a call before the next.                                 *)
THEOREM HandlersAreRight == Spec => []TheRightHandlers
<1>1. Base => TheRightHandlers
  BY RolesOwned DEF Base
<1>. QED BY <1>1, BaseHolds, PTL DEF Spec

(* OnlyLateFramesAreLeft: the only frames' messages that are handled       *)
(* without an environment are those that the interrupt posts between the   *)
(* taking of AUDIO_ALGO_DESTROY and the disabling in                       *)
(* audio_algorithm_release; and none of them waits when audio_init makes   *)
(* the next call's.                                                        *)
THEOREM OnlyLateAreLeft == Spec => []OnlyLateFramesAreLeft
<1>1. Base => OnlyLateFramesAreLeft
  <2> SUFFICES ASSUME Base PROVE OnlyLateFramesAreLeft
    OBVIOUS
  <2>1. CASE env # NULL
    BY <2>1 DEF Base, Counted, OnlyLateFramesAreLeft
  <2>2. CASE env = NULL
    <3>1. Behind(RX) = late /\ (Count(RX) > 0 => running = Idle \/ running.id = RX)
      BY <2>2 DEF Base, Counted, Left
    <3>2. /\ Count(RX) \in Nat
          /\ Behind(RX) = Count(RX) + (IF running.id = RX THEN 1 ELSE 0)
      BY ToRunIs DEF Base, Behind
    <3>. QED BY <2>2, <3>1, <3>2 DEF OnlyLateFramesAreLeft
  <2>. QED BY <2>1, <2>2
<1>. QED BY <1>1, BaseHolds, PTL DEF Spec

(* EachFrameHasItsLaunch, for a ring with more frames than the main loop   *)
(* may be behind: each frame in plc_buffer that is not repaired has a run  *)
(* of audio_alg_launch to come.                                            *)
THEOREM FramesHaveLaunches ==
  ASSUME EnoughFrames
  PROVE  Spec => []EachFrameHasItsLaunch
<1>1. Init => Base /\ Repair
  BY BaseInit
<1>2. Base /\ Repair /\ [Next]_vars => (Base /\ Repair)'
  BY BaseNext, RepairNext DEF Base
<1>3. Base /\ Repair => EachFrameHasItsLaunch
  <2> SUFFICES ASSUME Base, Repair, env # NULL PROVE EachFrameHasItsLaunch
    BY DEF EachFrameHasItsLaunch
  <2>1. /\ Lag(env.plc_insert, env.plc_write) = FRAME * ToRepair
        /\ env.launches = Count(RX) + (IF Step(RX, "start") THEN 1 ELSE 0)
    BY DEF Base, Repair, Rings, Unrepaired
  <2>2. /\ ToRun = 2 * Count(RX) + (IF running.id = RX THEN running.left ELSE 0)
        /\ Count(RX) \in Nat /\ running.left \in 0 .. 2
        /\ running.id = RX => running.at \in {"start", "launch", "repair", "echo"}
    BY ToRunIs DEF Base, Left
  <2>3. ToRepair = 2 * Count(RX) + (IF running.id # RX THEN 0
                                    ELSE IF running.at \in {"start", "launch"} THEN running.left
                                    ELSE running.left - 1)
    BY <2>2 DEF ToRepair
  <2> DEFINE n == 2 * Count(RX) + (IF running.id # RX THEN 0
                                    ELSE IF running.at \in {"start", "launch"} THEN running.left
                                    ELSE running.left - 1)
  <2>4. Lag(env.plc_insert, env.plc_write) = FRAME * n
    BY <2>1, <2>3
  <2>. QED BY <2>1, <2>4 DEF EachFrameHasItsLaunch
<1>. QED BY <1>1, <1>2, <1>3, PTL DEF Spec, SafeSpec

LEMMA FitsIsEnough ==
  ASSUME EchoFits
  PROVE  EnoughFrames
<1> SUFFICES ASSUME ~EnoughFrames PROVE FALSE
  OBVIOUS
<1>1. PLC_FRAMES \in Nat /\ PLC_FRAMES <= 2 * MaxFrames
  BY Sizes, Bounds DEF EnoughFrames
<1>2. FRAME * PLC_FRAMES <= Late /\ Late \in Nat
  BY <1>1, LateIs
<1>3. PLC_MAX = FRAME * PLC_FRAMES /\ FRAME >= 1 /\ FRAME \in Nat /\ SHIFT \in Nat /\ AEC_SIZE \in Nat
  <2>1. PLC_FRAMES * FRAME = FRAME * PLC_FRAMES
    BY Sizes
  <2>. QED BY <2>1, Sizes
<1>. QED BY <1>2, <1>3, Sizes DEF EchoFits

(* CallInv: the offsets of plc_buffer stay in order with room between, the *)
(* echo canceller's two windows are of the same time, and the far end gets *)
(* only finished windows, none written over, for rings that the sizes of   *)
(* EchoFits have room for all that the main loop may be behind.            *)
THEOREM CallIsInOrder ==
  ASSUME EchoFits
  PROVE  Spec => []CallInv
<1> DEFINE Inv == Base /\ Repair /\ InStep
<1>0. EnoughFrames
  BY FitsIsEnough
<1>1. Init => Inv
  BY BaseInit
<1>2. Inv /\ [Next]_vars => Inv'
  BY <1>0, BaseNext, RepairNext, RolesOwned, InStepNext DEF Base
<1>3. Inv => CallInv
  <2> SUFFICES ASSUME Base, Repair, InStep, env # NULL PROVE CallInv
    BY DEF CallInv, PlcOffsetsInOrder, UplinkInOrder, EchoIsAligned
  <2>0. Tasks /\ Ring
    BY DEF Base, Rings, Ring
  <2> DEFINE f == FRAME * ToRun
             u == Unrepaired + (IF running.at = "repair" THEN FRAME ELSE 0)
  <2>1. /\ FRAME \in Nat /\ FRAME >= 1 /\ AEC_SIZE \in Nat /\ SHIFT \in Nat /\ PLC_MAX \in Nat
        /\ OUT_MAX \in Nat /\ Late \in Nat /\ f \in Nat
        /\ Near \in Nat /\ Unechoed \in Nat /\ Unheard \in Nat /\ Unsent \in Nat
        /\ UnderEcho \in Nat
        /\ f <= Late /\ ("rx" \in pending => f + 2 * FRAME <= Late)
        /\ Unechoed = 8 * FRAME + SHIFT + Near
        /\ Near + UnderEcho <= AEC_SIZE + FRAME - 1 + f
        /\ Unsent + Near + UnderEcho + 8 * FRAME = 3 * AEC_SIZE + Unheard
        /\ 6 * FRAME <= Unheard /\ Unheard <= 12 * FRAME
        /\ "rx" \notin pending => 8 * FRAME <= Unheard
    BY <2>0, CallBounds
  <2>2. /\ Late <= 8 * FRAME /\ 4 * FRAME <= SHIFT /\ 3 * FRAME + Late <= 2 * AEC_SIZE + 1
        /\ 11 * FRAME + SHIFT + AEC_SIZE - 1 + Late <= PLC_MAX
        /\ 4 * FRAME + 4 * AEC_SIZE <= OUT_MAX
    BY LateIs DEF EchoFits
  <2>3. u \in Nat /\ u <= f
    <3>1. /\ ToRun \in Nat /\ ToRepair \in Nat /\ Unrepaired = FRAME * ToRepair
      BY <2>0, ToRunIs DEF Repair
    <3>2. CASE running.at \in {"repair", "echo"}
      <4>1. running.id = RX /\ ToRun >= 1 /\ ToRepair = ToRun - 1
        BY <2>0, <3>2, ToRunIs, StepIs DEF Tasks, ToRepair
      <4>2. FRAME * (ToRepair + 1) = FRAME * ToRepair + FRAME /\ FRAME * ToRepair \in Nat
        BY <3>1, FrameProduct
      <4>3. f = FRAME * ToRepair + FRAME
        BY <3>1, <4>1, <4>2
      <4> HIDE DEF f
      <4>. QED BY <2>1, <3>1, <4>2, <4>3
    <3>3. CASE running.at \notin {"repair", "echo"}
      <4>1. ToRepair = ToRun
        BY <3>3 DEF ToRepair
      <4>. QED BY <2>1, <3>1, <3>3, <4>1
    <3>. QED BY <3>2, <3>3
  <2>4. WindowIsReady => Near >= AEC_SIZE + FRAME
    BY <2>0, WindowIsReadyIs DEF AEC_OFFSET
  <2> HIDE DEF f, u
  <2>5. u <= Unheard /\ Unheard <= Unechoed
    BY ONLY <2>1, <2>2, <2>3
  <2>6. Unechoed + 2 * FRAME <= PLC_MAX
    BY ONLY <2>1, <2>2
  <2>7. WindowIsReady => u + AEC_SIZE <= Unechoed
    BY <2>1, <2>2, <2>3, <2>4
  <2>8. Unsent >= 2 * FRAME
    <3>1. CASE "rx" \in pending
      BY ONLY <2>1, <2>2, <3>1
    <3>2. CASE "rx" \notin pending
      BY ONLY <2>1, <2>2, <3>2
    <3>. QED BY <3>1, <3>2
  <2>9. Unsent + AEC_SIZE <= OUT_MAX
    BY ONLY <2>1, <2>2
  <2>10. PlcOffsetsInOrder
    BY <2>5, <2>6, <2>7 DEF u, PlcOffsetsInOrder, Unrepaired, Unheard, Unechoed
  <2>11. UplinkInOrder
    BY <2>8, <2>9 DEF UplinkInOrder, Unsent
  <2>12. EchoIsAligned
    BY <2>1 DEF EchoIsAligned, Unechoed, Near
  <2>. QED BY <2>10, <2>11, <2>12 DEF CallInv
<1>. QED BY <1>1, <1>2, <1>3, PTL DEF Spec, SafeSpec

-----------------------------------------------------------------------------
(* The bytes of the song. *)
LEMMA PcmSizes ==
  /\ NeededLength \in Nat /\ NeededLength >= 1 /\ DecoderThd \in Nat /\ Positions \in Nat
  /\ Positions >= 1 /\ Lengths \subseteq Nat \ {0} /\ \A l \in Lengths : l \in Nat /\ l >= 1
BY PlaybackAssumption

Mod(d, n) == d % n

LEMMA Quotient ==
  ASSUME NEW n \in Nat \ {0}, NEW d \in Int
  PROVE  \E q \in Int : d = n * q + Mod(d, n) /\ Mod(d, n) \in 0 .. n - 1
<1> DEFINE q == d \div n
           r == Mod(d, n)
<1>1. q \in Int /\ r \in 0 .. n - 1 /\ d = q * n + r
  BY DEF Mod
<1> HIDE DEF q, r
<1>2. q * n = n * q
  BY <1>1
<1>3. d = n * q + r
  BY <1>1, <1>2
<1>4. \E p \in Int : d = n * p + r /\ r \in 0 .. n - 1
  BY <1>1, <1>3
<1>. QED BY <1>4 DEF r

(* What a % n does not tell apart, it does not tell apart after an addition. *)
LEMMA Shifted ==
  ASSUME NEW a \in Int, NEW b \in Int, NEW c \in Int, NEW n \in Nat, n >= 1, a % n = b % n
  PROVE  (a + c) % n = (b + c) % n
<1> DEFINE r == Mod(a, n)
           e == a + c
           f == b + c
           w == Mod(e, n)
           y == Mod(f, n)
<1>0. n \in Nat \ {0} /\ e \in Int /\ f \in Int /\ Mod(b, n) = r /\ e = a + c /\ f = b + c
  BY DEF Mod
<1> HIDE DEF e, f
<1>7. PICK q \in Int : a = n * q + r /\ r \in 0 .. n - 1
  BY <1>0, Quotient
<1>8. PICK u \in Int : b = n * u + r
  BY <1>0, Quotient DEF r
<1>9. PICK v \in Int : e = n * v + w /\ w \in 0 .. n - 1
  BY <1>0, Quotient
<1>10. PICK x \in Int : f = n * x + y /\ y \in 0 .. n - 1
  BY <1>0, Quotient
<1> HIDE DEF r, w, y
<1> DEFINE k == (u - x) - (q - v)
<1>2. k \in Int /\ y - w = n * k
  <2> DEFINE nv == n * v
             nq == n * q
             nx == n * x
             nu == n * u
  <2>1. n * ((u - x) - (q - v)) = nu - nx - nq + nv /\ k \in Int
    OBVIOUS
  <2>2. nv \in Int /\ nq \in Int /\ nx \in Int /\ nu \in Int
    OBVIOUS
  <2>3. /\ e = a + c /\ f = b + c /\ a = nq + r /\ b = nu + r /\ e = nv + w /\ f = nx + y
        /\ r \in Int /\ w \in Int /\ y \in Int /\ c \in Int
    BY <1>0, <1>7, <1>8, <1>9, <1>10
  <2> HIDE DEF nv, nq, nx, nu, k
  <2>4. y - w = nu - nx - nq + nv
    BY ONLY <2>2, <2>3
  <2>. QED BY ONLY <2>1, <2>4 DEF k
<1>3. y - w < n /\ y - w > - n
  BY <1>9, <1>10
<1> HIDE DEF k
<1>4. k = 0
  <2>1. ASSUME k >= 1 PROVE FALSE
    <3>1. PICK d \in Nat : k = d + 1
      <4>1. k - 1 \in Nat /\ k = (k - 1) + 1
        BY <1>2, <2>1
      <4>. QED BY <4>1
    <3>2. n * (d + 1) = n * d + n /\ n * d \in Nat
      OBVIOUS
    <3>. QED BY <1>2, <1>3, <3>1, <3>2
  <2>2. ASSUME k <= -1 PROVE FALSE
    <3>1. PICK d \in Nat : k = -(d + 1)
      <4>1. - k - 1 \in Nat /\ k = - ((- k - 1) + 1)
        BY <1>2, <2>2
      <4>. QED BY <4>1
    <3>2. n * (-(d + 1)) = -(n * d) - n /\ n * d \in Nat
      OBVIOUS
    <3>. QED BY <1>2, <1>3, <3>1, <3>2
  <2>. QED BY <1>2, <2>1, <2>2
<1>5. n * k = 0
  BY <1>4
<1>6. y = w
  BY <1>2, <1>5, <1>9, <1>10
<1>. QED BY <1>6 DEF w, y, e, f, Mod

LEMMA Position ==
  ASSUME NEW a \in Int
  PROVE  a % Positions \in 0 .. Positions - 1 /\ (a % Positions) % Positions = a % Positions
         /\ (a \in 0 .. Positions - 1 => a % Positions = a)
<1>1. Positions \in Nat /\ Positions >= 1
  BY PcmSizes
<1> DEFINE b == a % Positions
<1>2. b \in 0 .. Positions - 1
  BY <1>1
<1> HIDE DEF b
<1>3. b % Positions = b
  BY <1>1, <1>2
<1>4. a \in 0 .. Positions - 1 => a % Positions = a
  BY <1>1
<1>. QED BY <1>2, <1>3, <1>4 DEF b

Own(n, a, b) == {n} \X (a .. b - 1)

LEMMA OwnSize ==
  ASSUME NEW n, NEW a \in Nat, NEW b \in Nat, a <= b
  PROVE  IsFiniteSet(Own(n, a, b)) /\ Cardinality(Own(n, a, b)) = b - a
<1> DEFINE I == a .. b - 1
           S == {n}
<1>1. b - 1 \in Int /\ a \in Int
  OBVIOUS
<1>2. IsFiniteSet(I) /\ Cardinality(I) = IF a > b - 1 THEN 0 ELSE b - 1 - a + 1
  BY <1>1, FS_Interval
<1>3. Cardinality(I) = b - a
  BY <1>2
<1>4. IsFiniteSet(S) /\ Cardinality(S) = 1
  BY FS_Singleton
<1> HIDE DEF I, S
<1>5. IsFiniteSet(S \X I) /\ Cardinality(S \X I) = Cardinality(S) * Cardinality(I)
  BY <1>2, <1>4, FS_Product
<1>6. Cardinality(S \X I) = b - a
  BY <1>3, <1>4, <1>5
<1>. QED BY <1>5, <1>6 DEF Own, I, S

Swapped(d, n, x, e) ==
  /\ d \in [Elements -> Pcm] /\ IsFiniteSet(BytesOf(d)) /\ n \in Elements /\ x \in Pcm
  /\ d[n].offset <= d[n].length /\ x.offset <= x.length
  /\ e = [d EXCEPT ![n] = x]

LEMMA BytesChange ==
  ASSUME NEW d, NEW n, NEW x, NEW e, Swapped(d, n, x, e)
  PROVE  /\ IsFiniteSet(BytesOf(e)) /\ Cardinality(BytesOf(e)) \in Nat
         /\ Cardinality(BytesOf(d)) \in Nat
         /\ Cardinality(BytesOf(e)) + (d[n].length - d[n].offset)
              = Cardinality(BytesOf(d)) + (x.length - x.offset)
<1>0. /\ d \in [Elements -> Pcm] /\ IsFiniteSet(BytesOf(d)) /\ n \in Elements /\ x \in Pcm
      /\ d[n].offset <= d[n].length /\ x.offset <= x.length
      /\ e = [d EXCEPT ![n] = x]
  BY DEF Swapped
<1> DEFINE R == UNION {{m} \X (d[m].offset .. d[m].length - 1) : m \in Elements \ {n}}
           A == Own(n, d[n].offset, d[n].length)
           B == Own(n, x.offset, x.length)
           a == d[n].length - d[n].offset
           b == x.length - x.offset
<1>1. /\ e[n] = x /\ \A m \in Elements : m # n => e[m] = d[m]
  BY <1>0
<1>2. BytesOf(d) = R \cup A
  BY <1>0 DEF BytesOf, Own
<1>3. BytesOf(e) = R \cup B
  BY <1>0, <1>1 DEF BytesOf, Own
<1>4. R \cap A = {} /\ R \cap B = {}
  BY DEF Own
<1>5. /\ IsFiniteSet(A) /\ Cardinality(A) = a /\ IsFiniteSet(B) /\ Cardinality(B) = b
      /\ a \in Nat /\ b \in Nat
  <2>1. /\ d[n].offset \in Nat /\ d[n].length \in Nat /\ x.offset \in Nat /\ x.length \in Nat
    BY <1>0 DEF Pcm
  <2>. QED BY <1>0, <2>1, OwnSize
<1> HIDE DEF R, A, B, a, b
<1>6. IsFiniteSet(R)
  <2>1. R \in SUBSET BytesOf(d)
    BY <1>2
  <2>. QED BY <1>0, <2>1, FS_Subset
<1>7. Cardinality(R \cap A) = 0 /\ Cardinality(R \cap B) = 0
  BY <1>4, FS_EmptySet
<1>8. /\ IsFiniteSet(R \cup A) /\ Cardinality(R \cup A) = Cardinality(R) + Cardinality(A) - Cardinality(R \cap A)
      /\ IsFiniteSet(R \cup B) /\ Cardinality(R \cup B) = Cardinality(R) + Cardinality(B) - Cardinality(R \cap B)
  BY <1>5, <1>6, FS_Union
<1>9. Cardinality(R) \in Nat
  BY <1>6, FS_CardinalityType
<1>10. /\ IsFiniteSet(BytesOf(e)) /\ Cardinality(BytesOf(e)) = Cardinality(R) + b
       /\ Cardinality(BytesOf(d)) = Cardinality(R) + a
  <2>1. Cardinality(R \cup A) = Cardinality(R) + a
    BY ONLY <1>5, <1>7, <1>8, <1>9
  <2>2. Cardinality(R \cup B) = Cardinality(R) + b
    BY ONLY <1>5, <1>7, <1>8, <1>9
  <2>. QED BY ONLY <1>2, <1>3, <1>8, <2>1, <2>2
<1>11. Cardinality(BytesOf(e)) + a = Cardinality(BytesOf(d)) + b
  BY <1>5, <1>9, <1>10
<1>. QED BY <1>5, <1>9, <1>10, <1>11 DEF a, b


(* What is decoded goes to the end of the list. *)
LEMMA PieceAppended ==
  ASSUME NEW list, NEW data, NEW size, NEW from, NEW to, Fills(list, data, size, from, to),
         NEW n \in Elements, data[n] = NoData, NEW length \in Lengths,
         NEW d2, d2 = [data EXCEPT ![n] = [from |-> to, offset |-> 0, length |-> length]]
  PROVE  Fills(co_list_push_back(list, n), d2, size + length, from, (to + length) % Positions)
<1> DEFINE x == [from |-> to, offset |-> 0, length |-> length]
           l2 == co_list_push_back(list, n)
           to2 == (to + length) % Positions
<1>1. PICK s \in Seq(Elements) : Pieces(list, data, s, from, to)
  BY DEF Fills
<1> DEFINE t == Append(s, n)
<1>2. /\ length \in Nat /\ length >= 1 /\ to \in 0 .. Positions - 1 /\ from \in 0 .. Positions - 1
      /\ Positions \in Nat /\ Positions >= 1 /\ to \in Int /\ to + length \in Int
  BY PcmSizes DEF Fills
<1>3. x \in Pcm /\ x.offset = 0 /\ x.length = length /\ x.from = to /\ x # NoData
  <2>1. x.length # NoData.length
    BY <1>2 DEF NoData
  <2>. QED BY <1>2, <2>1 DEF Pcm
<1>4. /\ Represents(list, s) /\ data \in [Elements -> Pcm] /\ Len(s) \in Nat
      /\ \A k \in 1 .. Len(s) : s[k] \in Elements /\ s[k] # n
  BY <1>1 DEF Pieces
<1>5. /\ Len(t) = Len(s) + 1 /\ t[Len(s) + 1] = n /\ t # <<>> /\ t \in Seq(Elements)
      /\ \A k \in 1 .. Len(s) : t[k] = s[k]
  BY <1>1
<1>6. Represents(l2, t)
  BY <1>4, PushBackAppends
<1>7. d2 \in [Elements -> Pcm] /\ d2[n] = x /\ \A m \in Elements : m # n => d2[m] = data[m]
  <2> HIDE DEF x
  <2>. QED BY <1>3, <1>4 DEF x
<1>8. Begins(d2, n) = to /\ Finishes(d2, n) = to2
  <2>1. (to + 0) % Positions = to
    <3>1. to + 0 = to
      BY <1>2
    <3>. QED BY <1>2, <3>1, Position
  <2>. QED BY <1>3, <1>7, <2>1 DEF Begins, Finishes
<1> HIDE DEF x, l2, to2, t
<1>9. \A k \in 1 .. Len(t) : /\ d2[t[k]].offset < d2[t[k]].length
                             /\ Begins(d2, t[k]) = IF k = 1 THEN from ELSE Finishes(d2, t[k - 1])
  <2> SUFFICES ASSUME NEW k \in 1 .. Len(t)
               PROVE  /\ d2[t[k]].offset < d2[t[k]].length
                      /\ Begins(d2, t[k]) = IF k = 1 THEN from ELSE Finishes(d2, t[k - 1])
    OBVIOUS
  <2>1. CASE k = Len(s) + 1
    <3>1. d2[t[k]].offset < d2[t[k]].length /\ Begins(d2, t[k]) = to
      BY <1>2, <1>3, <1>5, <1>7, <1>8, <2>1
    <3>2. CASE s = <<>>
      <4>1. k = 1 /\ to = from
        BY <1>1, <2>1, <3>2 DEF Pieces
      <4>. QED BY <3>1, <4>1
    <3>3. CASE s # <<>>
      <4>1. /\ k - 1 = Len(s) /\ k # 1 /\ Len(s) \in 1 .. Len(s) /\ t[k - 1] = s[Len(s)]
            /\ to = Finishes(data, s[Len(s)])
        BY <1>1, <1>4, <1>5, <2>1, <3>3 DEF Pieces
      <4>2. Finishes(d2, s[Len(s)]) = Finishes(data, s[Len(s)])
        BY <1>4, <1>7, <4>1 DEF Finishes
      <4>. QED BY <3>1, <4>1, <4>2
    <3>. QED BY <3>2, <3>3
  <2>2. CASE k # Len(s) + 1
    <3>1. k \in 1 .. Len(s) /\ t[k] = s[k]
      BY <1>4, <1>5, <2>2
    <3>2. d2[s[k]] = data[s[k]]
      BY <1>4, <1>7, <3>1
    <3>3. /\ data[s[k]].offset < data[s[k]].length
          /\ Begins(data, s[k]) = IF k = 1 THEN from ELSE Finishes(data, s[k - 1])
      BY <1>1, <3>1 DEF Pieces
    <3>4. k # 1 => Finishes(d2, t[k - 1]) = Finishes(data, s[k - 1])
      <4>1. k # 1 => k - 1 \in 1 .. Len(s)
        BY <1>4, <3>1
      <4>. QED BY <1>4, <1>5, <1>7, <4>1 DEF Finishes
    <3>. QED BY <3>1, <3>2, <3>3, <3>4 DEF Begins
  <2>. QED BY <2>1, <2>2
<1>10. \A m \in Elements : d2[m] = NoData <=> \A k \in 1 .. Len(t) : t[k] # m
  <2> SUFFICES ASSUME NEW m \in Elements
               PROVE  d2[m] = NoData <=> \A k \in 1 .. Len(t) : t[k] # m
    OBVIOUS
  <2>1. \A k : k \in 1 .. Len(t) <=> k \in 1 .. Len(s) \/ k = Len(s) + 1
    BY <1>4, <1>5
  <2>2. data[m] = NoData <=> \A k \in 1 .. Len(s) : s[k] # m
    BY <1>1 DEF Pieces
  <2>. QED BY <1>3, <1>5, <1>7, <2>1, <2>2 DEF x
<1>11. Pieces(l2, d2, t, from, to2)
  BY <1>5, <1>6, <1>7, <1>8, <1>9, <1>10 DEF Pieces
<1>12. IsFiniteSet(BytesOf(d2)) /\ size + length = Cardinality(BytesOf(d2))
  <2>1. /\ data[n] = NoData /\ NoData.offset = 0 /\ NoData.length = 0
        /\ IsFiniteSet(BytesOf(data)) /\ size = Cardinality(BytesOf(data))
    BY DEF NoData, Fills
  <2>2. data[n].offset <= data[n].length /\ data[n].length - data[n].offset = 0
    BY <2>1
  <2>3. x.offset <= x.length /\ x.length - x.offset = length
    BY <1>2, <1>3
  <2>4. d2 = [data EXCEPT ![n] = x]
    BY DEF x
  <2>5. /\ IsFiniteSet(BytesOf(d2)) /\ Cardinality(BytesOf(d2)) \in Nat
        /\ Cardinality(BytesOf(data)) \in Nat
        /\ Cardinality(BytesOf(d2)) + (data[n].length - data[n].offset)
             = Cardinality(BytesOf(data)) + (x.length - x.offset)
    <3>1. /\ data \in [Elements -> Pcm] /\ IsFiniteSet(BytesOf(data)) /\ n \in Elements /\ x \in Pcm
          /\ data[n].offset <= data[n].length /\ x.offset <= x.length
      BY <1>2, <1>3, <1>4, <2>1, <2>2
    <3>2. Swapped(data, n, x, d2)
      BY ONLY <2>4, <3>1 DEF Swapped
    <3>. QED BY ONLY <3>2, BytesChange
  <2>. QED BY <1>2, <2>1, <2>2, <2>3, <2>5
<1>13. to2 \in 0 .. Positions - 1
  BY <1>2, Position DEF to2
<1>14. Fills(l2, d2, size + length, from, to2)
  BY <1>2, <1>5, <1>11, <1>12, <1>13 DEF Fills
<1>. QED BY <1>14 DEF l2, to2

(* The speaker gets the first bytes of the first piece, or all of it. *)
LEMMA FirstPiece ==
  ASSUME NEW list, NEW data, NEW size, NEW from, NEW to, Fills(list, data, size, from, to),
         ~co_list_is_empty(list)
  PROVE  \E s \in Seq(Elements) :
           /\ Pieces(list, data, s, from, to) /\ s # <<>> /\ Len(s) \in Nat /\ Len(s) >= 1
           /\ co_list_pick(list) = s[1] /\ s[1] \in Elements /\ data \in [Elements -> Pcm]
           /\ data[s[1]].offset < data[s[1]].length /\ Begins(data, s[1]) = from
           /\ \A k \in 1 .. Len(s) : s[k] \in Elements /\ (s[k] = s[1] => k = 1)
<1>1. PICK s \in Seq(Elements) : Pieces(list, data, s, from, to)
  BY DEF Fills
<1>2. Represents(list, s) /\ s # <<>> /\ Len(s) \in Nat
  BY <1>1, EmptyIffNull DEF Pieces
<1>3. /\ Len(s) >= 1 /\ 1 \in 1 .. Len(s) /\ co_list_pick(list) = s[1] /\ s[1] \in Elements
      /\ \A k \in 1 .. Len(s) : s[k] \in Elements /\ (s[k] = s[1] => k = 1)
  BY <1>2 DEF Represents, co_list_pick
<1>. QED BY <1>1, <1>2, <1>3 DEF Pieces

LEMMA Onward ==
  ASSUME NEW a \in Int, NEW t \in Int
  PROVE  ((a % Positions) + t) % Positions = (a + t) % Positions
<1> DEFINE b == a % Positions
<1>1. b \in Int /\ b % Positions = a % Positions /\ Positions \in Nat /\ Positions >= 1
  <2>1. b \in 0 .. Positions - 1 /\ b % Positions = a % Positions
    BY Position
  <2>2. Positions \in Nat /\ Positions >= 1
    BY PcmSizes
  <2> HIDE DEF b
  <2>. QED BY <2>1, <2>2
<1> HIDE DEF b
<1>2. (b + t) % Positions = (a + t) % Positions
  BY <1>1, Shifted
<1>. QED BY <1>2 DEF b

LEMMA PartTaken ==
  ASSUME NEW list, NEW data, NEW size, NEW from, NEW to, Fills(list, data, size, from, to),
         ~co_list_is_empty(list), NEW n, n = co_list_pick(list), NEW x \in Pcm, NEW t \in Nat,
         x.from = data[n].from, x.length = data[n].length, x.offset = data[n].offset + t,
         x.offset < x.length, NEW d2, d2 = [data EXCEPT ![n] = x]
  PROVE  Fills(list, d2, size - t, (from + t) % Positions, to)
<1> DEFINE from2 == (from + t) % Positions
<1>1. PICK s \in Seq(Elements) :
           /\ Pieces(list, data, s, from, to) /\ s # <<>> /\ Len(s) \in Nat /\ Len(s) >= 1
           /\ n = s[1] /\ n \in Elements /\ data \in [Elements -> Pcm]
           /\ data[n].offset < data[n].length /\ Begins(data, n) = from
           /\ \A k \in 1 .. Len(s) : s[k] \in Elements /\ (s[k] = n => k = 1)
  BY FirstPiece
<1>2. /\ d2 \in [Elements -> Pcm] /\ d2[n] = x /\ \A m \in Elements : m # n => d2[m] = data[m]
  BY <1>1
<1>3. /\ data[n].from \in Int /\ data[n].offset \in Nat /\ data[n].length \in Nat
      /\ x.offset \in Nat /\ x.length \in Nat /\ to \in 0 .. Positions - 1 /\ from \in 0 .. Positions - 1
      /\ from \in Int
  <2>1. data[n] \in Pcm
    BY <1>1
  <2>2. data[n].from \in 0 .. Positions - 1
    BY <2>1 DEF Pcm
  <2>3. from \in 0 .. Positions - 1
    BY DEF Fills
  <2>. QED BY <2>1, <2>2, <2>3 DEF Pcm, Fills
<1>4. Begins(d2, n) = from2 /\ Finishes(d2, n) = Finishes(data, n)
  <2>1. data[n].from + x.offset = data[n].from + data[n].offset + t
    BY <1>3
  <2>2. (data[n].from + data[n].offset) % Positions = from
    BY <1>1 DEF Begins
  <2>3. (((data[n].from + data[n].offset) % Positions) + t) % Positions
           = (data[n].from + data[n].offset + t) % Positions
    <3>1. data[n].from + data[n].offset \in Int /\ t \in Int
      BY <1>3
    <3>. QED BY <3>1, Onward
  <2>. QED BY <1>2, <2>1, <2>2, <2>3 DEF Begins, Finishes
<1> HIDE DEF from2
<1>5. \A k \in 1 .. Len(s) :
        /\ d2[s[k]].offset < d2[s[k]].length
        /\ Begins(d2, s[k]) = IF k = 1 THEN from2 ELSE Finishes(d2, s[k - 1])
        /\ Finishes(d2, s[k]) = Finishes(data, s[k])
  <2>1. \A m \in Elements : Finishes(d2, m) = Finishes(data, m) /\ (m # n => Begins(d2, m) = Begins(data, m))
    BY <1>2, <1>4 DEF Begins, Finishes
  <2> SUFFICES ASSUME NEW k \in 1 .. Len(s)
               PROVE  /\ d2[s[k]].offset < d2[s[k]].length
                      /\ Begins(d2, s[k]) = IF k = 1 THEN from2 ELSE Finishes(d2, s[k - 1])
    BY <1>1, <2>1
  <2>2. CASE k = 1
    BY <1>1, <1>2, <1>4, <2>2
  <2>3. CASE k # 1
    <3>1. k - 1 \in 1 .. Len(s) /\ s[k - 1] \in Elements /\ s[k] \in Elements /\ s[k] # n
      BY <1>1, <2>3
    <3>2. /\ data[s[k]].offset < data[s[k]].length
          /\ Begins(data, s[k]) = Finishes(data, s[k - 1])
      BY <1>1, <2>3 DEF Pieces
    <3>. QED BY <1>2, <2>1, <2>3, <3>1, <3>2
  <2>. QED BY <2>2, <2>3
<1>6. to = IF s = <<>> THEN from2 ELSE Finishes(d2, s[Len(s)])
  <2>1. Len(s) \in 1 .. Len(s) /\ to = Finishes(data, s[Len(s)])
    BY <1>1 DEF Pieces
  <2>. QED BY <1>1, <1>5, <2>1
<1>7. \A m \in Elements : d2[m] = NoData <=> \A k \in 1 .. Len(s) : s[k] # m
  <2>1. x # NoData
    <3>1. x.length # 0
      BY <1>3
    <3>. QED BY <3>1 DEF NoData
  <2>2. data[n] # NoData
    <3>1. data[n].length # 0
      BY <1>1, <1>3
    <3>. QED BY <3>1 DEF NoData
  <2>. QED BY <1>1, <1>2, <2>1, <2>2 DEF Pieces
<1>8. Pieces(list, d2, s, from2, to)
  BY <1>1, <1>2, <1>5, <1>6, <1>7 DEF Pieces
<1>9. IsFiniteSet(BytesOf(d2)) /\ size - t = Cardinality(BytesOf(d2))
  <2>1. IsFiniteSet(BytesOf(data)) /\ size = Cardinality(BytesOf(data))
    BY DEF Fills
  <2>2. data[n].offset <= data[n].length /\ x.offset <= x.length
    BY <1>1, <1>3
  <2>3. /\ IsFiniteSet(BytesOf(d2)) /\ Cardinality(BytesOf(d2)) \in Nat
        /\ Cardinality(BytesOf(data)) \in Nat
        /\ Cardinality(BytesOf(d2)) + (data[n].length - data[n].offset)
             = Cardinality(BytesOf(data)) + (x.length - x.offset)
    <3>1. Swapped(data, n, x, d2)
      BY <1>1, <2>1, <2>2 DEF Swapped
    <3>. QED BY ONLY <3>1, BytesChange
  <2> DEFINE c == Cardinality(BytesOf(d2))
             e == Cardinality(BytesOf(data))
  <2>4. /\ c \in Nat /\ e \in Nat /\ c + (data[n].length - data[n].offset) = e + (x.length - x.offset)
        /\ size = e /\ IsFiniteSet(BytesOf(d2))
    BY <2>1, <2>3
  <2> HIDE DEF c, e
  <2>5. size - t = c
    <3> DEFINE o == data[n].offset
               l == data[n].length
               u == x.offset
               v == x.length
    <3>1. o \in Nat /\ l \in Nat /\ u = o + t /\ v = l /\ c + (l - o) = e + (v - u) /\ size = e
      BY <1>3, <2>4
    <3>2. t \in Nat /\ c \in Nat /\ e \in Nat
      BY <2>4
    <3> HIDE DEF o, l, u, v
    <3>. QED BY ONLY <3>1, <3>2
  <2>. QED BY <2>4, <2>5 DEF c
<1>10. from2 \in 0 .. Positions - 1
  BY <1>3, Position DEF from2
<1>11. Fills(list, d2, size - t, from2, to)
  BY <1>1, <1>3, <1>8, <1>9, <1>10 DEF Fills
<1>. QED BY <1>11 DEF from2

LEMMA PopLeaves ==
  ASSUME NEW list, NEW s, Represents(list, s), s # <<>>
  PROVE  Represents([co_list_pop_front(list) EXCEPT !.next[s[1]] = NULL], Tail(s))
<1> DEFINE n == s[1]
           q == co_list_pop_front(list)
           l2 == [q EXCEPT !.next[n] = NULL]
           t == Tail(s)
<1>1. Represents(q, t)
  BY PopFrontTakesTheHead
<1>2. /\ s \in Seq(Elements) /\ Len(s) \in Nat /\ Len(s) >= 1 /\ n \in Elements
      /\ \A i, j \in 1 .. Len(s) : s[i] = s[j] => i = j
  BY DEF Represents
<1>3. /\ t \in Seq(Elements) /\ Len(t) = Len(s) - 1 /\ \A k \in 1 .. Len(t) : t[k] = s[k + 1]
  BY <1>2
<1>4. \A k \in 1 .. Len(t) : t[k] # n
  <2> SUFFICES ASSUME NEW k \in 1 .. Len(t), t[k] = n PROVE FALSE
    OBVIOUS
  <2>1. k + 1 \in 1 .. Len(s) /\ 1 \in 1 .. Len(s) /\ s[k + 1] = s[1] /\ k + 1 # 1
    BY <1>2, <1>3
  <2>. QED BY <1>2, <2>1
<1> HIDE DEF n, q, t
<1>5. q \in Lists /\ q.next \in [Elements -> Links]
  BY <1>1 DEF Represents, Lists
<1>6. /\ l2.first = q.first /\ l2.last = q.last /\ l2.next = [q.next EXCEPT ![n] = NULL]
      /\ l2 = [first |-> q.first, last |-> q.last, next |-> [q.next EXCEPT ![n] = NULL]]
  BY <1>5 DEF Lists
<1> HIDE DEF l2
<1>7. l2 \in Lists /\ \A m \in Elements : m # n => l2.next[m] = q.next[m]
  BY <1>5, <1>6 DEF Lists, Links
<1>8. \A k \in 1 .. Len(t) : l2.next[t[k]] = q.next[t[k]]
  BY <1>3, <1>4, <1>7
<1>9. Represents(l2, t)
  <2>1. CASE t = <<>>
    BY <1>1, <1>6, <1>7, <2>1 DEF Represents
  <2>2. CASE t # <<>>
    <3>1. Len(t) \in 1 .. Len(t) /\ \A i \in 1 .. Len(t) - 1 : i \in 1 .. Len(t)
      BY <1>3, <2>2
    <3>. QED BY <1>1, <1>6, <1>7, <1>8, <2>2, <3>1 DEF Represents
  <2>. QED BY <2>1, <2>2
<1>. QED BY <1>9 DEF l2, q, n, t

LEMMA WholeTaken ==
  ASSUME NEW list, NEW data, NEW size, NEW from, NEW to, Fills(list, data, size, from, to),
         ~co_list_is_empty(list), NEW n, n = co_list_pick(list), NEW t \in Nat,
         t = data[n].length - data[n].offset,
         NEW l2, l2 = [co_list_pop_front(list) EXCEPT !.next[n] = NULL],
         NEW d2, d2 = [data EXCEPT ![n] = NoData]
  PROVE  Fills(l2, d2, size - t, (from + t) % Positions, to)
<1> DEFINE from2 == (from + t) % Positions
<1>1. PICK s \in Seq(Elements) :
           /\ Pieces(list, data, s, from, to) /\ s # <<>> /\ Len(s) \in Nat /\ Len(s) >= 1
           /\ n = s[1] /\ n \in Elements /\ data \in [Elements -> Pcm]
           /\ data[n].offset < data[n].length /\ Begins(data, n) = from
           /\ \A k \in 1 .. Len(s) : s[k] \in Elements /\ (s[k] = n => k = 1)
  BY FirstPiece
<1> DEFINE r == Tail(s)
<1>2. NoData \in Pcm /\ NoData.offset = 0 /\ NoData.length = 0
  BY PcmSizes DEF NoData, Pcm
<1>3. /\ d2 \in [Elements -> Pcm] /\ d2[n] = NoData /\ \A m \in Elements : m # n => d2[m] = data[m]
  <2> HIDE DEF NoData
  <2>. QED BY <1>1, <1>2
<1>4. Represents(l2, r)
  BY <1>1, PopLeaves DEF Pieces
<1>5. /\ r \in Seq(Elements) /\ Len(s) = Len(r) + 1 /\ Len(r) \in Nat
      /\ \A k \in 1 .. Len(r) : r[k] = s[k + 1] /\ k + 1 \in 1 .. Len(s)
  BY <1>1
<1>6. /\ data[n].from \in Int /\ data[n].offset \in Nat /\ data[n].length \in Nat
      /\ to \in 0 .. Positions - 1 /\ from \in 0 .. Positions - 1 /\ from \in Int
  <2>1. data[n] \in Pcm
    BY <1>1
  <2>2. data[n].from \in 0 .. Positions - 1
    BY <2>1 DEF Pcm
  <2>. QED BY <2>1, <2>2 DEF Pcm, Fills
<1>7. Finishes(data, n) = from2
  <2>1. data[n].from + data[n].length = data[n].from + data[n].offset + t
    BY <1>6
  <2>2. (data[n].from + data[n].offset) % Positions = from
    BY <1>1 DEF Begins
  <2>3. (((data[n].from + data[n].offset) % Positions) + t) % Positions
           = (data[n].from + data[n].offset + t) % Positions
    <3>1. data[n].from + data[n].offset \in Int /\ t \in Int
      BY <1>6
    <3>. QED BY <3>1, Onward
  <2>. QED BY <2>1, <2>2, <2>3 DEF Finishes
<1> HIDE DEF from2, r
<1>8. \A k \in 1 .. Len(r) :
        /\ d2[r[k]].offset < d2[r[k]].length
        /\ Begins(d2, r[k]) = IF k = 1 THEN from2 ELSE Finishes(d2, r[k - 1])
  <2> SUFFICES ASSUME NEW k \in 1 .. Len(r)
               PROVE  /\ d2[r[k]].offset < d2[r[k]].length
                      /\ Begins(d2, r[k]) = IF k = 1 THEN from2 ELSE Finishes(d2, r[k - 1])
    OBVIOUS
  <2>1. r[k] = s[k + 1] /\ k + 1 \in 1 .. Len(s) /\ k + 1 # 1 /\ k + 1 - 1 = k /\ s[k + 1] # n
        /\ r[k] \in Elements
    BY <1>1, <1>5
  <2>2. /\ data[s[k + 1]].offset < data[s[k + 1]].length
        /\ Begins(data, s[k + 1]) = Finishes(data, s[k])
    BY <1>1, <2>1 DEF Pieces
  <2>3. d2[r[k]] = data[s[k + 1]]
    BY <1>3, <2>1
  <2>4. CASE k = 1
    BY <1>1, <1>7, <2>2, <2>3, <2>1, <2>4 DEF Begins
  <2>5. CASE k # 1
    <3>1. /\ k - 1 \in 1 .. Len(r) /\ r[k - 1] = s[k] /\ s[k] # n /\ s[k] \in Elements
      <4>1. k - 1 \in 1 .. Len(r) /\ k - 1 + 1 = k /\ k \in 1 .. Len(s)
        BY <1>5, <2>5
      <4>. QED BY <1>1, <1>5, <2>5, <4>1
    <3>2. d2[r[k - 1]] = data[s[k]]
      BY <1>3, <3>1
    <3>. QED BY <2>2, <2>3, <2>1, <2>5, <3>1, <3>2 DEF Begins, Finishes
  <2>. QED BY <2>4, <2>5
<1>9. to = IF r = <<>> THEN from2 ELSE Finishes(d2, r[Len(r)])
  <2>1. to = Finishes(data, s[Len(s)])
    BY <1>1 DEF Pieces
  <2>2. CASE r = <<>>
    <3>1. Len(s) = 1
      BY <1>5, <2>2
    <3>. QED BY <1>1, <1>7, <2>1, <2>2, <3>1
  <2>3. CASE r # <<>>
    <3>1. Len(r) \in 1 .. Len(r) /\ r[Len(r)] = s[Len(s)] /\ Len(s) # 1 /\ Len(s) \in 1 .. Len(s)
      BY <1>5, <2>3
    <3>2. d2[r[Len(r)]] = data[s[Len(s)]]
      BY <1>1, <1>3, <3>1
    <3>. QED BY <2>1, <2>3, <3>2 DEF Finishes
  <2>. QED BY <2>2, <2>3
<1>10. \A m \in Elements : d2[m] = NoData <=> \A k \in 1 .. Len(r) : r[k] # m
  <2> SUFFICES ASSUME NEW m \in Elements
               PROVE  d2[m] = NoData <=> \A k \in 1 .. Len(r) : r[k] # m
    OBVIOUS
  <2>1. data[m] = NoData <=> \A k \in 1 .. Len(s) : s[k] # m
    BY <1>1 DEF Pieces
  <2>2. CASE m = n
    <3>1. \A k \in 1 .. Len(r) : k + 1 # 1
      BY <1>5
    <3>. QED BY <1>1, <1>3, <1>5, <2>2, <3>1
  <2>3. CASE m # n
    <3>1. (\A k \in 1 .. Len(s) : s[k] # m) <=> \A k \in 1 .. Len(r) : r[k] # m
      <4>1. \A k \in 1 .. Len(s) : k = 1 \/ (k - 1 \in 1 .. Len(r) /\ r[k - 1] = s[k])
        <5> SUFFICES ASSUME NEW k \in 1 .. Len(s), k # 1 PROVE k - 1 \in 1 .. Len(r) /\ r[k - 1] = s[k]
          OBVIOUS
        <5>1. k - 1 \in 1 .. Len(r) /\ k - 1 + 1 = k
          BY <1>5
        <5>. QED BY <1>5, <5>1
      <4>2. s[1] # m
        BY <1>1, <2>3
      <4>3. ASSUME \A k \in 1 .. Len(r) : r[k] # m, NEW k \in 1 .. Len(s) PROVE s[k] # m
        BY <4>1, <4>2, <4>3
      <4>. QED BY <1>5, <4>3
    <3>. QED BY <1>3, <2>1, <2>3, <3>1
  <2>. QED BY <2>2, <2>3
<1>11. Pieces(l2, d2, r, from2, to)
  BY <1>3, <1>4, <1>8, <1>9, <1>10 DEF Pieces
<1>12. IsFiniteSet(BytesOf(d2)) /\ size - t = Cardinality(BytesOf(d2))
  <2>1. IsFiniteSet(BytesOf(data)) /\ size = Cardinality(BytesOf(data))
    BY DEF Fills
  <2>2. data[n].offset <= data[n].length /\ NoData.offset <= NoData.length
    BY <1>1, <1>2, <1>6
  <2>3. /\ IsFiniteSet(BytesOf(d2)) /\ Cardinality(BytesOf(d2)) \in Nat
        /\ Cardinality(BytesOf(data)) \in Nat
        /\ Cardinality(BytesOf(d2)) + (data[n].length - data[n].offset)
             = Cardinality(BytesOf(data)) + (NoData.length - NoData.offset)
    <3>1. Swapped(data, n, NoData, d2)
      BY <1>1, <1>2, <2>1, <2>2 DEF Swapped
    <3>. QED BY ONLY <3>1, BytesChange
  <2> DEFINE c == Cardinality(BytesOf(d2))
             e == Cardinality(BytesOf(data))
  <2>4. c \in Nat /\ e \in Nat /\ c + t = e /\ size = e /\ IsFiniteSet(BytesOf(d2))
    BY <1>2, <2>1, <2>3
  <2> HIDE DEF c, e
  <2>5. size - t = c
    BY <2>4
  <2>. QED BY <2>4, <2>5 DEF c
<1>13. from2 \in 0 .. Positions - 1
  BY <1>6, Position DEF from2
<1>14. Fills(l2, d2, size - t, from2, to)
  BY <1>5, <1>6, <1>11, <1>12, <1>13 DEF Fills
<1>. QED BY <1>14 DEF from2

-----------------------------------------------------------------------------
(* The loop of the interrupt. *)
(* Every set of numbers that is not empty has a least. *)
LEMMA Least ==
  ASSUME NEW S \in SUBSET Nat, S # {}
  PROVE  \E x \in S : \A y \in S : x <= y
<1> DEFINE Below(x) == {y \in S : y < x}
           T == {Below(x) : x \in S}
<1>0. \A x \in S : x \in Nat
  OBVIOUS
<1>b. \A x : Below(x) \subseteq S /\ \A y : y \in Below(x) <=> y \in S /\ y < x
  OBVIOUS
<1> HIDE DEF Below
<1>1. T \subseteq FiniteSubsetsOf(S) /\ T # {}
  <2>1. \A x \in S : Below(x) \in FiniteSubsetsOf(S)
    <3> SUFFICES ASSUME NEW x \in S PROVE Below(x) \in FiniteSubsetsOf(S)
      OBVIOUS
    <3>1. Below(x) \in SUBSET (0 .. x) /\ Below(x) \in SUBSET S
      <4>0. x \in Nat /\ \A y \in S : y < x => y \in 0 .. x
        BY <1>0
      <4>1. \A y \in Below(x) : y \in 0 .. x
        BY <1>b, <4>0
      <4>. QED BY <1>b, <4>1
    <3>2. IsFiniteSet(0 .. x)
      BY <1>0, FS_Interval
    <3>3. IsFiniteSet(Below(x))
      BY <3>1, <3>2, FS_Subset
    <3>. QED BY <3>1, <3>3 DEF FiniteSubsetsOf
  <2>. QED BY <2>1
<1> HIDE DEF T
<1>2. PICK U \in T : \A V \in T : ~(<<V, U>> \in StrictSubsetOrdering(S))
  BY <1>1, FS_StrictSubsetOrderingWellFounded, WFMin
<1>3. PICK x \in S : U = Below(x)
  BY DEF T
<1>4. ASSUME NEW y \in S, y < x PROVE FALSE
  <2>1. /\ Below(y) \subseteq Below(x) /\ y \in Below(x) /\ y \notin Below(y)
        /\ Below(y) \in SUBSET S /\ Below(x) \in SUBSET S
    <3>1. x \in Nat /\ y \in Nat /\ \A z \in S : z < y => z < x
      BY <1>0, <1>4
    <3>2. ~(y < y)
      BY <3>1
    <3>. QED BY <1>b, <1>4, <3>1, <3>2
  <2>2. Below(y) \in T
    BY DEF T
  <2> HIDE DEF T
  <2>3. <<Below(y), Below(x)>> \in StrictSubsetOrdering(S)
    BY <2>1 DEF StrictSubsetOrdering
  <2>. QED BY <1>2, <1>3, <2>2, <2>3
<1>. QED BY <1>4

Begun == [list |-> pcm_data_list, data |-> pcm_data,
          size |-> pcm_size_in_list, needed |-> NeededLength]

OneTurn(p) == IF co_list_is_empty(p.list) \/ p.needed = 0 THEN p ELSE TakeFromFirst(p)

TurnsBy(f, n) == f = [k \in 0 .. n |-> IF k = 0 THEN Begun ELSE OneTurn(f[k - 1])]

LEMMA TurnsExist ==
  ASSUME NEW n \in Nat
  PROVE  \E f : TurnsBy(f, n)
<1> DEFINE S == {m \in Nat : ~\E f : TurnsBy(f, m)}
<1> SUFFICES ASSUME S # {} PROVE FALSE
  OBVIOUS
<1>1. PICK m \in S : \A k \in S : m <= k
  <2>1. S \in SUBSET Nat
    OBVIOUS
  <2> HIDE DEF S
  <2>. QED BY <2>1, Least
<1>2. m # 0
  <2>1. TurnsBy([i \in 0 .. 0 |-> Begun], 0)
    BY DEF TurnsBy
  <2>. QED BY <1>1, <2>1
<1>3. m - 1 \in Nat /\ m \in Nat /\ ~(m <= m - 1)
  BY <1>1, <1>2
<1>4. PICK f : TurnsBy(f, m - 1)
  BY <1>1, <1>3
<1> DEFINE last == OneTurn(f[m - 1])
           g == [i \in 0 .. m |-> IF i = m THEN last ELSE f[i]]
<1>5. \A i \in 0 .. m - 1 : f[i] = IF i = 0 THEN Begun ELSE OneTurn(f[i - 1])
  BY <1>4 DEF TurnsBy
<1>6. g[m] = last /\ \A i \in 0 .. m - 1 : g[i] = f[i]
  BY <1>3
<1>7. \A i \in 0 .. m : g[i] = IF i = 0 THEN Begun ELSE OneTurn(g[i - 1])
  <2> SUFFICES ASSUME NEW i \in 0 .. m
               PROVE  g[i] = IF i = 0 THEN Begun ELSE OneTurn(g[i - 1])
    OBVIOUS
  <2> HIDE DEF g
  <2>1. CASE i = m
    <3>1. m - 1 \in 0 .. m - 1
      BY <1>3
    <3>. QED BY <1>2, <1>6, <2>1, <3>1
  <2>2. CASE i # m
    <3>1. i \in 0 .. m - 1 /\ (i # 0 => i - 1 \in 0 .. m - 1)
      BY <1>3, <2>2
    <3> HIDE DEF last
    <3>. QED BY <1>5, <1>6, <3>1
  <2>. QED BY <2>1, <2>2
<1>8. TurnsBy(g, m)
  <2>1. g = [i \in 0 .. m |-> g[i]]
    OBVIOUS
  <2> HIDE DEF g
  <2>. QED BY <1>7, <2>1 DEF TurnsBy
<1>. QED BY <1>1, <1>8

LEMMA TurnIs ==
  \A k \in 0 .. NeededLength : Turn[k] = IF k = 0 THEN Begun ELSE OneTurn(Turn[k - 1])
<1>1. NeededLength \in Nat
  BY PcmSizes
<1>2. Turn = CHOOSE f : TurnsBy(f, NeededLength)
  BY DEF Turn, TurnsBy, Begun, OneTurn
<1>3. TurnsBy(Turn, NeededLength)
  BY <1>1, <1>2, TurnsExist
<1>. QED BY <1>3 DEF TurnsBy

(* What is taken is what comes next, and no more than is there. *)
Feeds(p) ==
  /\ p.needed \in 0 .. NeededLength
  /\ p = [list |-> p.list, data |-> p.data, size |-> p.size, needed |-> p.needed]
  /\ p.size \in Nat /\ p.size + NeededLength = pcm_size_in_list + p.needed
  /\ Fills(p.list, p.data, p.size, (played + (NeededLength - p.needed)) % Positions, decoded)

LEMMA FillsSize ==
  ASSUME NEW list, NEW data, NEW size, NEW from, NEW to, Fills(list, data, size, from, to)
  PROVE  size \in Nat
BY FS_CardinalityType DEF Fills

LEMMA TakesOn ==
  ASSUME NEW p, Feeds(p), ~co_list_is_empty(p.list), p.needed # 0,
         pcm_size_in_list \in Nat, played \in Nat
  PROVE  Feeds(TakeFromFirst(p))
<1> DEFINE n == co_list_pick(p.list)
           last == p.data[n].length - p.data[n].offset
           from == (played + (NeededLength - p.needed)) % Positions
           q == TakeFromFirst(p)
<1>1. /\ NeededLength \in Nat /\ p.needed \in Nat /\ p.needed <= NeededLength /\ p.needed >= 1
      /\ p.size \in Nat /\ p.size + NeededLength = pcm_size_in_list + p.needed
  BY PcmSizes DEF Feeds
<1>2. Fills(p.list, p.data, p.size, from, decoded)
  BY DEF Feeds
<1>3. n \in Elements /\ p.data \in [Elements -> Pcm] /\ p.data[n].offset < p.data[n].length
  BY <1>2, FirstPiece
<1>4. /\ p.data[n].from \in 0 .. Positions - 1
      /\ p.data[n].offset \in Nat /\ p.data[n].length \in Nat /\ last \in Nat /\ last >= 1
      /\ p.data[n] = [from |-> p.data[n].from, offset |-> p.data[n].offset, length |-> p.data[n].length]
  <2>1. p.data[n] \in Pcm
    BY <1>3
  <2>. QED BY <1>3, <2>1 DEF Pcm
<1>5. ASSUME NEW t \in Nat, t <= p.needed
      PROVE  (from + t) % Positions = (played + (NeededLength - (p.needed - t))) % Positions
  <2>1. played + (NeededLength - p.needed) \in Int /\ t \in Int
    BY <1>1
  <2>2. played + (NeededLength - p.needed) + t = played + (NeededLength - (p.needed - t))
    BY <1>1
  <2>. QED BY <2>1, <2>2, Onward
<1> HIDE DEF from
<1>6. CASE last > p.needed
  <2> DEFINE x == [p.data[n] EXCEPT !.offset = @ + p.needed]
             d2 == [p.data EXCEPT ![n] = x]
  <2>1. q = [p EXCEPT !.data[n].offset = @ + p.needed, !.size = @ - p.needed, !.needed = 0]
    BY <1>6 DEF TakeFromFirst
  <2>2. q = [list |-> p.list, data |-> d2, size |-> p.size - p.needed, needed |-> 0]
    <3>1. p = [list |-> p.list, data |-> p.data, size |-> p.size, needed |-> p.needed]
      BY DEF Feeds
    <3>. QED BY <1>3, <2>1, <3>1
  <2>3. /\ x \in Pcm /\ x.from = p.data[n].from /\ x.length = p.data[n].length
        /\ x.offset = p.data[n].offset + p.needed /\ x.offset < x.length
    BY <1>1, <1>4, <1>6 DEF Pcm
  <2> HIDE DEF x
  <2>4. Fills(p.list, d2, p.size - p.needed, (from + p.needed) % Positions, decoded)
    <3>1. p.needed \in Nat /\ n = co_list_pick(p.list) /\ d2 = [p.data EXCEPT ![n] = x]
      BY <1>1
    <3> HIDE DEF d2, n
    <3>. QED BY <1>2, <2>3, <3>1, PartTaken
  <2>5. (from + p.needed) % Positions = (played + (NeededLength - 0)) % Positions
    <3>1. p.needed - p.needed = 0 /\ p.needed \in Nat /\ p.needed <= p.needed
      BY <1>1
    <3>. QED BY <1>5, <3>1
  <2>6. p.size - p.needed \in Nat
    BY <2>4, FillsSize
  <2> HIDE DEF q, d2
  <2>7. /\ q.list = p.list /\ q.data = d2 /\ q.size = p.size - p.needed /\ q.needed = 0
        /\ q = [list |-> q.list, data |-> q.data, size |-> q.size, needed |-> q.needed]
    BY <2>2
  <2>8. Feeds(q)
    <3>1. q.needed \in 0 .. NeededLength /\ q.size \in Nat /\ q.size + NeededLength = pcm_size_in_list + q.needed
      BY <1>1, <2>6, <2>7
    <3>2. Fills(q.list, q.data, q.size, (played + (NeededLength - q.needed)) % Positions, decoded)
      BY <2>4, <2>5, <2>7
    <3>. QED BY <2>7, <3>1, <3>2 DEF Feeds
  <2>. QED BY <2>8 DEF q
<1>7. CASE ~(last > p.needed)
  <2> DEFINE l2 == [co_list_pop_front(p.list) EXCEPT !.next[n] = NULL]
             d2 == [p.data EXCEPT ![n] = NoData]
  <2>1. q = [p EXCEPT !.list = [co_list_pop_front(@) EXCEPT !.next[n] = NULL],
                      !.data[n] = NoData, !.size = @ - last, !.needed = @ - last]
    BY <1>7 DEF TakeFromFirst
  <2>2. q = [list |-> l2, data |-> d2, size |-> p.size - last, needed |-> p.needed - last]
    <3>1. p = [list |-> p.list, data |-> p.data, size |-> p.size, needed |-> p.needed]
      BY DEF Feeds
    <3> HIDE DEF last, n
    <3>. QED BY <2>1, <3>1
  <2>3. Fills(l2, d2, p.size - last, (from + last) % Positions, decoded)
    <3>1. /\ last \in Nat /\ n = co_list_pick(p.list) /\ d2 = [p.data EXCEPT ![n] = NoData]
          /\ last = p.data[n].length - p.data[n].offset
          /\ l2 = [co_list_pop_front(p.list) EXCEPT !.next[n] = NULL]
      BY <1>4
    <3> HIDE DEF d2, n, last, l2
    <3>. QED BY <1>2, <3>1, WholeTaken
  <2>4. (from + last) % Positions = (played + (NeededLength - (p.needed - last))) % Positions
    BY <1>1, <1>4, <1>5, <1>7
  <2>5. p.size - last \in Nat
    BY <2>3, FillsSize
  <2> HIDE DEF q, d2, l2
  <2>6. /\ q.list = l2 /\ q.data = d2 /\ q.size = p.size - last /\ q.needed = p.needed - last
        /\ q = [list |-> q.list, data |-> q.data, size |-> q.size, needed |-> q.needed]
    BY <2>2
  <2>7. Feeds(q)
    <3>1. q.needed \in 0 .. NeededLength /\ q.size \in Nat /\ q.size + NeededLength = pcm_size_in_list + q.needed
      <4> HIDE DEF last
      <4>. QED BY <1>1, <1>4, <1>7, <2>5, <2>6
    <3>2. Fills(q.list, q.data, q.size, (played + (NeededLength - q.needed)) % Positions, decoded)
      BY <2>3, <2>4, <2>6
    <3>. QED BY <2>6, <3>1, <3>2 DEF Feeds
  <2>. QED BY <2>7 DEF q
<1>. QED BY <1>6, <1>7

LEMMA TakesInOrder ==
  ASSUME Fills(pcm_data_list, pcm_data, pcm_size_in_list, played, decoded)
  PROVE  Feeds(AfterTaking)
<1> DEFINE S == {k \in 0 .. NeededLength : ~Feeds(Turn[k])}
<1>1. NeededLength \in Nat /\ NeededLength >= 1 /\ pcm_size_in_list \in Nat /\ played \in Nat
      /\ played \in 0 .. Positions - 1
  BY PcmSizes, FillsSize DEF Fills
<1>2. Feeds(Begun)
  <2>1. /\ Begun.needed = NeededLength /\ Begun.list = pcm_data_list /\ Begun.data = pcm_data
        /\ Begun.size = pcm_size_in_list
        /\ Begun = [list |-> Begun.list, data |-> Begun.data, size |-> Begun.size, needed |-> Begun.needed]
    BY DEF Begun
  <2>2. (played + (NeededLength - NeededLength)) % Positions = played
    <3>1. played + (NeededLength - NeededLength) = played
      BY <1>1
    <3>. QED BY <1>1, <3>1, Position
  <2>. QED BY <1>1, <2>1, <2>2 DEF Feeds
<1>3. S = {}
  <2> SUFFICES ASSUME S # {} PROVE FALSE
    OBVIOUS
  <2>1. PICK m \in S : \A k \in S : m <= k
    <3>1. S \in SUBSET Nat
      OBVIOUS
    <3> HIDE DEF S
    <3>. QED BY <3>1, Least
  <2>2. m \in 0 .. NeededLength /\ ~Feeds(Turn[m])
    BY <2>1
  <2>3. m # 0
    BY <1>2, <2>2, TurnIs
  <2>4. m - 1 \in 0 .. NeededLength /\ ~(m <= m - 1)
    BY <1>1, <2>2, <2>3
  <2>5. Feeds(Turn[m - 1])
    BY <2>1, <2>4
  <2>6. Turn[m] = OneTurn(Turn[m - 1])
    BY <2>2, <2>3, TurnIs
  <2> DEFINE p == Turn[m - 1]
  <2>7. Feeds(OneTurn(p))
    <3> HIDE DEF p
    <3>1. CASE co_list_is_empty(p.list) \/ p.needed = 0
      BY <2>5, <3>1 DEF OneTurn, p
    <3>2. CASE ~(co_list_is_empty(p.list) \/ p.needed = 0)
      <4>1. Feeds(p)
        BY <2>5 DEF p
      <4>. QED BY <1>1, <3>2, <4>1, TakesOn DEF OneTurn
    <3>. QED BY <3>1, <3>2
  <2>. QED BY <2>2, <2>6, <2>7
<1>4. NeededLength \in 0 .. NeededLength
  BY <1>1
<1>. QED BY <1>3, <1>4 DEF AfterTaking

-----------------------------------------------------------------------------
(* The walk through the list finds its pieces. *)
OneStep(f) ==
  LET next == IF f = <<>> THEN pcm_data_list.first ELSE pcm_data_list.next[f[Len(f)]]
  IN IF next = NULL THEN f ELSE Append(f, next)

StepsBy(f, n) == f = [k \in 0 .. n |-> IF k = 0 THEN <<>> ELSE OneStep(f[k - 1])]

LEMMA StepsExist ==
  ASSUME NEW n \in Nat
  PROVE  \E f : StepsBy(f, n)
<1> DEFINE S == {m \in Nat : ~\E f : StepsBy(f, m)}
<1> SUFFICES ASSUME S # {} PROVE FALSE
  OBVIOUS
<1>1. PICK m \in S : \A k \in S : m <= k
  <2>1. S \in SUBSET Nat
    OBVIOUS
  <2> HIDE DEF S
  <2>. QED BY <2>1, Least
<1>2. m # 0
  <2>1. StepsBy([i \in 0 .. 0 |-> <<>>], 0)
    BY DEF StepsBy
  <2>. QED BY <1>1, <2>1
<1>3. m - 1 \in Nat /\ m \in Nat /\ ~(m <= m - 1)
  BY <1>1, <1>2
<1>4. PICK f : StepsBy(f, m - 1)
  BY <1>1, <1>3
<1> DEFINE last == OneStep(f[m - 1])
           g == [i \in 0 .. m |-> IF i = m THEN last ELSE f[i]]
<1>5. \A i \in 0 .. m - 1 : f[i] = IF i = 0 THEN <<>> ELSE OneStep(f[i - 1])
  BY <1>4 DEF StepsBy
<1>6. g[m] = last /\ \A i \in 0 .. m - 1 : g[i] = f[i]
  BY <1>3
<1>7. \A i \in 0 .. m : g[i] = IF i = 0 THEN <<>> ELSE OneStep(g[i - 1])
  <2> SUFFICES ASSUME NEW i \in 0 .. m
               PROVE  g[i] = IF i = 0 THEN <<>> ELSE OneStep(g[i - 1])
    OBVIOUS
  <2> HIDE DEF g
  <2>1. CASE i = m
    <3>1. m - 1 \in 0 .. m - 1
      BY <1>3
    <3>. QED BY <1>2, <1>6, <2>1, <3>1
  <2>2. CASE i # m
    <3>1. i \in 0 .. m - 1 /\ (i # 0 => i - 1 \in 0 .. m - 1)
      BY <1>3, <2>2
    <3> HIDE DEF last
    <3>. QED BY <1>5, <1>6, <3>1
  <2>. QED BY <2>1, <2>2
<1>8. StepsBy(g, m)
  <2>1. g = [i \in 0 .. m |-> g[i]]
    OBVIOUS
  <2> HIDE DEF g
  <2>. QED BY <1>7, <2>1 DEF StepsBy
<1>. QED BY <1>1, <1>8

LEMMA FoundIs ==
  \A k \in 0 .. Cardinality(Elements) : Found[k] = IF k = 0 THEN <<>> ELSE OneStep(Found[k - 1])
<1>1. Cardinality(Elements) \in Nat
  BY PlaybackAssumption, FS_CardinalityType
<1>2. Found = CHOOSE f : StepsBy(f, Cardinality(Elements))
  BY DEF Found, StepsBy, OneStep
<1>3. StepsBy(Found, Cardinality(Elements))
  BY <1>1, <1>2, StepsExist
<1>. QED BY <1>3 DEF StepsBy

LEMMA WalkIs ==
  ASSUME NEW s, Represents(pcm_data_list, s)
  PROVE  Walk = s
<1> DEFINE n == Len(s)
           c == Cardinality(Elements)
           Right(k) == /\ Found[k] \in Seq(Elements)
                       /\ Len(Found[k]) = IF k <= n THEN k ELSE n
                       /\ \A i \in 1 .. Len(Found[k]) : Found[k][i] = s[i]
           S == {k \in 0 .. c : ~Right(k)}
<1>1. /\ s \in Seq(Elements) /\ n \in Nat /\ s = [i \in 1 .. n |-> s[i]]
      /\ \A i \in 1 .. n : s[i] \in Elements /\ s[i] # NULL
  BY ElementAssumption DEF Represents
<1>2. c \in Nat /\ n <= c
  <2>1. IsFiniteSet(Elements) /\ c \in Nat
    BY PlaybackAssumption, FS_CardinalityType
  <2>2. IsFiniteSet(1 .. n) /\ Cardinality(1 .. n) = n
    <3>1. 1 \in Int /\ n \in Int /\ (1 > n => n = 0) /\ n - 1 + 1 = n
      BY <1>1
    <3>2. IsFiniteSet(1 .. n) /\ Cardinality(1 .. n) = IF 1 > n THEN 0 ELSE n - 1 + 1
      BY <3>1, FS_Interval
    <3>. QED BY <3>1, <3>2
  <2>3. s \in Injection(1 .. n, Elements)
    <3>1. s \in [1 .. n -> Elements] /\ \A i, j \in 1 .. n : s[i] = s[j] => i = j
      BY <1>1 DEF Represents
    <3>. QED BY <3>1 DEF Injection, IsInjective
  <2> HIDE DEF n, c
  <2>4. Cardinality(1 .. n) <= Cardinality(Elements)
    BY <2>1, <2>3, FS_Injection
  <2>. QED BY <2>1, <2>2, <2>4 DEF c
<1>3. \A k \in 0 .. c : Found[k] = IF k = 0 THEN <<>> ELSE OneStep(Found[k - 1])
  BY FoundIs
<1>4. S = {}
  <2> SUFFICES ASSUME S # {} PROVE FALSE
    OBVIOUS
  <2>1. PICK m \in S : \A k \in S : m <= k
    <3>1. S \in SUBSET Nat
      OBVIOUS
    <3> HIDE DEF S
    <3>. QED BY <3>1, Least
  <2>2. m \in 0 .. c /\ ~Right(m)
    BY <2>1
  <2>3. Right(0)
    <3>1. Found[0] = <<>> /\ <<>> \in Seq(Elements) /\ Len(<<>>) = 0
      BY <1>2, <1>3
    <3>. QED BY <1>1, <3>1
  <2>4. m # 0
    BY <2>2, <2>3
  <2>5. m - 1 \in 0 .. c /\ ~(m <= m - 1) /\ m - 1 \in Nat
    BY <1>2, <2>2, <2>4
  <2>6. Right(m - 1)
    BY <2>1, <2>5
  <2> DEFINE f == Found[m - 1]
             next == IF f = <<>> THEN pcm_data_list.first ELSE pcm_data_list.next[f[Len(f)]]
  <2>7. Found[m] = IF next = NULL THEN f ELSE Append(f, next)
    BY <1>3, <2>2, <2>4 DEF OneStep
  <2>8. f \in Seq(Elements) /\ Len(f) = (IF m - 1 <= n THEN m - 1 ELSE n) /\ Len(f) \in Nat
        /\ \A i \in 1 .. Len(f) : f[i] = s[i]
    BY <2>6
  <2> HIDE DEF f
  <2>9. CASE m <= n
    <3>1. Len(f) = m - 1 /\ m \in 1 .. n /\ s # <<>>
      BY <1>1, <2>2, <2>4, <2>5, <2>8, <2>9
    <3>2. next = s[m]
      <4>1. CASE f = <<>>
        <5>1. m = 1
          BY <2>2, <3>1, <4>1
        <5>. QED BY <3>1, <4>1, <5>1 DEF Represents
      <4>2. CASE f # <<>>
        <5>1. m - 1 \in 1 .. n - 1 /\ Len(f) \in 1 .. Len(f) /\ m - 1 + 1 = m
          BY <1>1, <2>2, <2>8, <3>1, <4>2
        <5>2. f[Len(f)] = s[m - 1]
          BY <2>8, <3>1, <5>1
        <5>3. pcm_data_list.next[s[m - 1]] = s[m]
          BY <3>1, <5>1 DEF Represents
        <5>. QED BY <4>2, <5>2, <5>3
      <4>. QED BY <4>1, <4>2
    <3>3. Found[m] = Append(f, s[m]) /\ s[m] \in Elements
      BY <1>1, <2>7, <3>1, <3>2
    <3>4. Append(f, s[m]) \in Seq(Elements) /\ Len(Append(f, s[m])) = m
          /\ \A i \in 1 .. m : Append(f, s[m])[i] = s[i]
      <4>1. \A i \in 1 .. m : i \in 1 .. Len(f) \/ i = Len(f) + 1
        BY <2>2, <3>1
      <4>. QED BY <2>2, <2>8, <3>1, <3>3, <4>1
    <3>. QED BY <2>2, <2>9, <3>3, <3>4
  <2>10. CASE ~(m <= n)
    <3>1. Len(f) = n
      BY <1>1, <2>2, <2>8, <2>10
    <3>2. next = NULL
      <4>1. CASE f = <<>>
        <5>1. s = <<>>
          BY <1>1, <3>1, <4>1
        <5>. QED BY <4>1, <5>1 DEF Represents
      <4>2. CASE f # <<>>
        <5>1. n \in 1 .. Len(f) /\ s # <<>>
          BY <1>1, <2>8, <3>1, <4>2
        <5>2. f[Len(f)] = s[n]
          BY <2>8, <3>1, <5>1
        <5>. QED BY <4>2, <5>1, <5>2 DEF Represents
      <4>. QED BY <4>1, <4>2
    <3>3. Found[m] = f
      BY <2>7, <3>2
    <3>. QED BY <2>2, <2>8, <2>10, <3>1, <3>3
  <2>. QED BY <2>9, <2>10
<1>5. Right(c)
  BY <1>2, <1>4
<1>6. Walk \in Seq(Elements) /\ Len(Walk) = n /\ \A i \in 1 .. n : Walk[i] = s[i]
  BY <1>1, <1>2, <1>5 DEF Walk
<1>7. Walk = [i \in 1 .. n |-> Walk[i]]
  BY <1>6
<1>. QED BY <1>1, <1>6, <1>7

-----------------------------------------------------------------------------
(* What a step does to the song. *)
Aside ==
  \/ FramePosted \/ Outside \/ TaskSchedule \/ Served \/ Frame
  \/ Moves /\ running.id \notin {DECODE, PREPARE}

LEMMA DecodeSteps ==
  ASSUME Tasks, Kind
  PROVE  /\ Behind(DECODE) \in Nat /\ Behind(DECODE)' \in Nat
         /\ DecodeAsked => Behind(DECODE)' = Behind(DECODE) + 1
         /\ Aside => Behind(DECODE)' = Behind(DECODE)
         /\ Moves /\ running.id = DECODE /\ running' = Idle => Behind(DECODE) = Behind(DECODE)' + 1
<1>0. task_list \in Seq(Ids) /\ Times(task_list, DECODE) \in Nat
      /\ Behind(DECODE) = Times(task_list, DECODE) + (IF running.id = DECODE THEN 1 ELSE 0)
      /\ Behind(DECODE)' = Times(task_list', DECODE) + (IF running'.id = DECODE THEN 1 ELSE 0)
  BY CountIs, TimesType DEF Tasks
<1>1. ASSUME NEW x \in Ids, task_list' = Append(task_list, x), UNCHANGED running
      PROVE  Behind(DECODE)' = Behind(DECODE) + (IF x = DECODE THEN 1 ELSE 0)
  BY <1>0, <1>1, Appended
<1>2. DecodeAsked => Behind(DECODE)' = Behind(DECODE) + 1
  BY <1>1, AllIds DEF DecodeAsked
<1>3. Outside => Behind(DECODE)' = Behind(DECODE)
  <2> SUFFICES ASSUME NEW x \in FromOutside, task_list' = Append(task_list, x), UNCHANGED running
               PROVE  Behind(DECODE)' = Behind(DECODE)
    BY DEF Outside
  <2>1. x \in Ids /\ x # DECODE
    BY DEF Ids, FromOutside
  <2>. QED BY <1>0, <1>1, <2>1
<1>4. FramePosted => Behind(DECODE)' = Behind(DECODE)
  BY <1>0, PostedFrame DEF FramePosted
<1>5. TaskSchedule => Behind(DECODE)' = Behind(DECODE)
  BY <1>0, Taken DEF Idle
<1>6. Served \/ Frame => Behind(DECODE)' = Behind(DECODE)
  BY <1>0 DEF Served, Frame
<1>7. Moves /\ running.id # DECODE => Behind(DECODE)' = Behind(DECODE)
  BY <1>0 DEF Moves
<1>8. Moves /\ running.id = DECODE /\ running' = Idle => Behind(DECODE) = Behind(DECODE)' + 1
  BY <1>0 DEF Moves, Idle
<1>9. Behind(DECODE) \in Nat
  BY <1>0
<1>10. Moves /\ running.id = DECODE => Behind(DECODE)' \in Nat
  BY <1>0 DEF Moves
<1>. QED BY <1>2, <1>3, <1>4, <1>5, <1>6, <1>7, <1>8, <1>9, <1>10 DEF Aside, Kind

SongStays ==
  UNCHANGED playbackVars /\ Behind(DECODE)' = Behind(DECODE) /\ (Freeing' <=> Freeing)

SpeakerTakes ==
  /\ native_playback_ipc_tx /\ "tx" \in pending /\ UNCHANGED running
  /\ native_playback_started = 1 \/ Freeing

LEMMA StaysAside ==
  ASSUME Tasks, Aside, UNCHANGED playbackVars
  PROVE  SongStays
<1>1. Kind
  BY DEF Aside, Kind
<1>2. Freeing' <=> Freeing
  <2>1. CASE UNCHANGED running
    BY <2>1 DEF Freeing, Step
  <2>2. CASE TaskSchedule
    BY <2>2, Taken DEF Freeing, Step, Idle
  <2>3. CASE Moves /\ running.id \notin {DECODE, PREPARE}
    BY <2>3 DEF Moves, Freeing, Step
  <2>. QED BY <2>1, <2>2, <2>3 DEF Aside, FramePosted, Outside, Served, Frame
<1>. QED BY <1>1, <1>2, DecodeSteps DEF SongStays

LEMMA VoiceAside ==
  ASSUME Tasks, VoiceInterrupts \/ VoiceHandlers
  PROVE  Aside
<1>1. CASE audio_algorithm_ipc_rx
  BY <1>1 DEF audio_algorithm_ipc_rx, Interrupt, Aside, FramePosted, Served, task_msg_insert_front
<1>2. CASE audio_algorithm_ipc_tx
  BY <1>2 DEF audio_algorithm_ipc_tx, Interrupt, Aside, Served
<1>3. CASE VoiceHandlers
  <2>1. running.id \notin {DECODE, PREPARE} /\ UNCHANGED task_list
    BY <1>3 DEF VoiceHandlers, audio_init, audio_algorithm_release, audio_algorithm_ipc_rx_handler,
                LaunchRepair, LaunchTakesWindows, LaunchPutsWindow, Step
  <2>2. Kind
    BY VoiceKind
  <2>3. ~DecodeAsked
    <3> SUFFICES ASSUME task_list' = Append(task_list, DECODE) PROVE FALSE
      BY DEF DecodeAsked
    <3>1. Len(task_list) \in Nat /\ Len(task_list') = Len(task_list) + 1
      BY Appended, AllIds DEF Tasks
    <3>. QED BY <2>1, <3>1
  <2>. QED BY <2>1, <2>2, <2>3 DEF Kind, Aside
<1>. QED BY <1>1, <1>2, <1>3 DEF VoiceInterrupts

LEMMA SongSteps ==
  ASSUME Tasks, Roles, [Next]_vars
  PROVE  \/ SongStays \/ SpeakerTakes \/ DecodesNothing \/ Decodes
         \/ native_playback_init \/ DestroyBegins \/ native_playback_destroy
<1>0. AtStep
  BY DEF Tasks
<1>1. CASE (VoiceInterrupts \/ VoiceHandlers) /\ UNCHANGED playbackVars
  BY <1>1, VoiceAside, StaysAside
<1>2. CASE PlaybackInterrupt
  <2>1. /\ native_playback_ipc_tx /\ "tx" \in pending /\ "tx" \in enabled
        /\ handler.tx = "native_playback_ipc_tx"
    BY <1>2 DEF PlaybackInterrupt, Interrupt
  <2>2. UNCHANGED running
    BY <2>1 DEF native_playback_ipc_tx
  <2>3. native_playback_started = 1 \/ Freeing
    <3> SUFFICES ASSUME native_playback_started # 1, ~Freeing PROVE FALSE
      OBVIOUS
    <3>1. native_playback_started = 0 /\ Lines
      BY DEF Roles
    <3>2. env # NULL
      BY <2>1, <3>1 DEF Lines
    <3>3. handler.tx = "audio_algorithm_ipc_tx"
      BY <3>1, <3>2 DEF Lines
    <3>. QED BY <2>1, <3>3
  <2>. QED BY <2>1, <2>2, <2>3 DEF SpeakerTakes
<1>3. CASE native_playback_ipc_check_irq
  BY <1>3 DEF native_playback_ipc_check_irq, native_playback_ipc_tx, SpeakerTakes
<1>4. CASE Take
  BY <1>4, StaysAside DEF Take, Aside
<1>5. CASE PollBegins
  <2>1. /\ Step(AT_COMMAND, "start") /\ Goto("poll") /\ running.id \notin {DECODE, PREPARE}
        /\ UNCHANGED <<task_list, pending>> /\ UNCHANGED playbackVars
    BY <1>5 DEF PollBegins, Step
  <2>2. Moves
    BY <1>0, <2>1, GotoMoves
  <2>. QED BY <2>1, <2>2, StaysAside DEF Aside
<1>6. CASE PollEnds
  <2>1. /\ Done /\ running # Idle /\ running.id \notin {DECODE, PREPARE}
        /\ UNCHANGED <<task_list, pending>> /\ UNCHANGED playbackVars
    BY <1>6 DEF PollEnds, Step, Idle
  <2>2. Moves
    BY <1>0, <2>1, DoneMoves
  <2>. QED BY <2>1, <2>2, StaysAside DEF Aside
<1>7. CASE DmaFrame
  BY <1>7, StaysAside DEF DmaFrame, Aside
<1>8. ASSUME NEW id \in FromOutside, Post(id), UNCHANGED playbackVars PROVE SongStays
  BY <1>8, StaysAside DEF Post, task_msg_insert, Outside, Aside
<1>9. CASE ipc_rx_user_handler \/ (AtCommand /\ UNCHANGED <<env, playbackVars>>)
  <2>1. /\ INIT \in FromOutside /\ PREPARE \in FromOutside /\ CREATE \in FromOutside
        /\ DESTROY \in FromOutside /\ AT_COMMAND \in FromOutside
    BY DEF FromOutside
  <2>. QED BY <1>8, <1>9, <2>1 DEF ipc_rx_user_handler, McuStartsSong, McuEndsSong, McuStartsCall,
                                   McuEndsCall, AtCommand
<1>10. CASE UNCHANGED vars
  BY <1>10, StaysAside DEF vars, dmaVars, Served, Aside
<1>11. CASE Interrupts
  BY <1>1, <1>2, <1>11 DEF Interrupts
<1>12. CASE Handlers
  BY <1>1, <1>3, <1>5, <1>6, <1>12 DEF Handlers, PrepareForNext
<1>. QED BY <1>4, <1>7, <1>9, <1>10, <1>11, <1>12 DEF Next, DspIsLost

-----------------------------------------------------------------------------
(* The pieces stay in order. *)
LEMMA EmptyFills ==
  ASSUME NEW list, NEW data, NEW size, NEW from, NEW to, Fills(list, data, size, from, to),
         co_list_is_empty(list)
  PROVE  /\ list.first = NULL /\ list.last = NULL /\ list \in Lists /\ from = to
         /\ data = [n \in Elements |-> NoData] /\ size = 0
<1>1. PICK s \in Seq(Elements) : Pieces(list, data, s, from, to)
  BY DEF Fills
<1>2. Represents(list, s) /\ s = <<>>
  BY <1>1, EmptyIffNull DEF Pieces
<1>3. /\ list.first = NULL /\ list.last = NULL /\ list \in Lists /\ from = to
  BY <1>1, <1>2 DEF Represents, Pieces
<1>4. data \in [Elements -> Pcm] /\ \A n \in Elements : data[n] = NoData
  BY <1>1, <1>2 DEF Pieces
<1>5. data = [n \in Elements |-> NoData]
  BY <1>4
<1>6. BytesOf(data) = {}
  <2>1. NoData.offset = 0 /\ NoData.length = 0 /\ 0 .. 0 - 1 = {}
    BY DEF NoData
  <2>2. \A n \in Elements : data[n].offset .. data[n].length - 1 = {}
    BY <1>4, <2>1
  <2>. QED BY <2>2 DEF BytesOf
<1>7. size = 0
  BY <1>6, FS_EmptySet DEF Fills
<1>. QED BY <1>3, <1>5, <1>7

LEMMA NothingFills ==
  ASSUME NEW list \in Lists, list.first = NULL, list.last = NULL, NEW from \in 0 .. Positions - 1
  PROVE  Fills(list, [n \in Elements |-> NoData], 0, from, from)
<1> DEFINE data == [n \in Elements |-> NoData]
<1>1. Represents(list, <<>>)
  BY DEF Represents
<1>2. NoData \in Pcm /\ NoData.offset = 0 /\ NoData.length = 0
  BY PcmSizes DEF NoData, Pcm
<1>3. data \in [Elements -> Pcm] /\ \A n \in Elements : data[n] = NoData
  BY <1>2
<1> HIDE DEF data
<1>4. Pieces(list, data, <<>>, from, from)
  BY <1>1, <1>3 DEF Pieces
<1>5. BytesOf(data) = {}
  <2>1. NoData.offset = 0 /\ NoData.length = 0 /\ 0 .. 0 - 1 = {}
    BY <1>2
  <2>2. \A n \in Elements : data[n].offset .. data[n].length - 1 = {}
    BY <1>3, <2>1
  <2>. QED BY <2>2 DEF BytesOf
<1>6. IsFiniteSet(BytesOf(data)) /\ Cardinality(BytesOf(data)) = 0
  BY <1>5, FS_EmptySet
<1>7. <<>> \in Seq(Elements)
  OBVIOUS
<1>8. Fills(list, data, 0, from, from)
  BY <1>4, <1>6, <1>7 DEF Fills
<1>. QED BY <1>8 DEF data

LEMMA TakesFeeding ==
  ASSUME Fills(pcm_data_list, pcm_data, pcm_size_in_list, played, decoded), native_playback_ipc_tx
  PROVE  /\ Fills(pcm_data_list, pcm_data, pcm_size_in_list, played, decoded)'
         /\ pcm_size_in_list \in Nat /\ pcm_size_in_list' \in Nat
         /\ pcm_size_in_list' <= pcm_size_in_list
         /\ pcm_size_in_list <= pcm_size_in_list' + NeededLength
         /\ IF pcm_size_in_list' < DecoderThd THEN task_list' = Append(task_list, DECODE)
            ELSE UNCHANGED task_list
<1> DEFINE p == AfterTaking
<1>1. Feeds(p)
  BY TakesInOrder
<1>2. /\ pcm_data_list' = p.list /\ pcm_data' = p.data /\ pcm_size_in_list' = p.size
      /\ played' = (played + NeededLength - p.needed) % Positions /\ decoded' = decoded
      /\ IF p.size < DecoderThd THEN task_list' = Append(task_list, DECODE) ELSE UNCHANGED task_list
  BY DEF native_playback_ipc_tx, AsksForMore, task_msg_insert
<1> HIDE DEF p
<1>3. /\ p.needed \in 0 .. NeededLength /\ p.size \in Nat /\ NeededLength \in Nat
      /\ p.size + NeededLength = pcm_size_in_list + p.needed
      /\ pcm_size_in_list \in Nat /\ played \in Nat
  BY <1>1, PcmSizes, FillsSize DEF Feeds, Fills
<1>4. played + NeededLength - p.needed = played + (NeededLength - p.needed)
  BY <1>3
<1>5. Fills(pcm_data_list', pcm_data', pcm_size_in_list', played', decoded')
  BY <1>1, <1>2, <1>4 DEF Feeds
<1>6. Fills(pcm_data_list, pcm_data, pcm_size_in_list, played, decoded)'
  BY <1>5 DEF Fills, Pieces, Begins, Finishes, BytesOf, Represents
<1>. QED BY <1>2, <1>3, <1>6

LEMMA DecodesFeeding ==
  ASSUME Fills(pcm_data_list, pcm_data, pcm_size_in_list, played, decoded), Decodes
  PROVE  /\ Fills(pcm_data_list, pcm_data, pcm_size_in_list, played, decoded)'
         /\ \E length \in Lengths : /\ pcm_size_in_list' = pcm_size_in_list + length
                                    /\ fed' = (fed \/ pcm_size_in_list' >= DecoderThd)
<1>1. /\ Malloc \in Elements /\ pcm_data[Malloc] = NoData
  BY DEF Decodes, Unused
<1>2. PICK length \in Lengths : native_playback_recv_frame(Malloc, length)
  BY DEF Decodes
<1> DEFINE n == Malloc
           d2 == [pcm_data EXCEPT ![n] = [from |-> decoded, offset |-> 0, length |-> length]]
<1>3. /\ pcm_data' = d2 /\ pcm_data_list' = co_list_push_back(pcm_data_list, n)
      /\ pcm_size_in_list' = pcm_size_in_list + length
      /\ decoded' = (decoded + length) % Positions /\ played' = played
      /\ fed' = (fed \/ pcm_size_in_list' >= DecoderThd)
  BY <1>2 DEF native_playback_recv_frame
<1> HIDE DEF n
<1>4. Fills(co_list_push_back(pcm_data_list, n), d2, pcm_size_in_list + length, played,
            (decoded + length) % Positions)
  <2> DEFINE e == d2
  <2>1. e = [pcm_data EXCEPT ![n] = [from |-> decoded, offset |-> 0, length |-> length]]
    OBVIOUS
  <2> HIDE DEF e
  <2>2. Fills(co_list_push_back(pcm_data_list, n), e, pcm_size_in_list + length, played,
              (decoded + length) % Positions)
    BY <1>1, <2>1, PieceAppended DEF n
  <2>. QED BY <2>2 DEF e
<1> HIDE DEF d2
<1>5. Fills(pcm_data_list', pcm_data', pcm_size_in_list', played', decoded')
  BY <1>3, <1>4
<1>6. Fills(pcm_data_list, pcm_data, pcm_size_in_list, played, decoded)'
  BY <1>5 DEF Fills, Pieces, Begins, Finishes, BytesOf, Represents
<1>. QED BY <1>3, <1>6

LEMMA NoSong ==
  ASSUME Tasks, Tasks', Roles, native_playback_init
  PROVE  native_playback_started = 0 /\ ~Freeing
<1>1. running.at = "start" /\ running.id = INIT /\ INIT \in {INIT} /\ INIT \in SongIds
  BY DEF native_playback_init, Step, SongIds
<1>2. ~Freeing /\ ~Quiet(Messages, {INIT}) /\ ~Quiet(Messages, SongIds)
  BY <1>1, FirstHeard
<1>. QED BY <1>2 DEF Roles, Song, ToCome, Plays, Ends

LEMMA FeedingNext ==
  ASSUME Tasks, Roles, Feeding, [Next]_vars
  PROVE  Feeding'
<1>0. /\ Tasks' /\ AtStep /\ fed \in BOOLEAN
      /\ Fills(pcm_data_list, pcm_data, pcm_size_in_list, played, decoded)
  BY TasksNext DEF Tasks, Feeding
<1>00. pcm_data_list \in Lists /\ 0 \in 0 .. Positions - 1
  BY <1>0, PcmSizes DEF Fills, Pieces, Represents
<1>1. CASE SongStays
  <2>1. Fills(pcm_data_list', pcm_data', pcm_size_in_list', played', decoded')
    BY <1>0, <1>1 DEF SongStays, playbackVars
  <2>2. Fills(pcm_data_list, pcm_data, pcm_size_in_list, played, decoded)'
    BY <2>1 DEF Fills, Pieces, Begins, Finishes, BytesOf, Represents
  <2>. QED BY <1>1, <2>2 DEF SongStays, playbackVars, Feeding, co_list_is_empty
<1>2. CASE SpeakerTakes
  <2>1. /\ native_playback_ipc_tx /\ UNCHANGED <<running, fed, native_playback_started>>
        /\ native_playback_started = 1 \/ Freeing
    BY <1>2 DEF SpeakerTakes, native_playback_ipc_tx
  <2>2. Freeing' <=> Freeing
    BY <2>1 DEF Freeing, Step
  <2>3. Fills(pcm_data_list, pcm_data, pcm_size_in_list, played, decoded)'
    BY <1>0, <2>1, TakesFeeding
  <2>. QED BY <1>0, <2>1, <2>2, <2>3 DEF Feeding
<1>3. CASE DecodesNothing \/ DestroyBegins
  <2>1. /\ UNCHANGED <<pcm_data_list, pcm_data, pcm_size_in_list, decoded, played>> /\ fed' = FALSE
    BY <1>3 DEF DecodesNothing, DestroyBegins
  <2>2. Fills(pcm_data_list', pcm_data', pcm_size_in_list', played', decoded')
    BY <1>0, <2>1
  <2>3. Fills(pcm_data_list, pcm_data, pcm_size_in_list, played, decoded)'
    BY <2>2 DEF Fills, Pieces, Begins, Finishes, BytesOf, Represents
  <2>4. CASE DecodesNothing
    <3>1. ~Freeing /\ ~Freeing' /\ native_playback_started' = native_playback_started
      BY <2>4 DEF DecodesNothing, Done, Step, Idle, Freeing
    <3>. QED BY <2>1, <2>3, <3>1 DEF Feeding, co_list_is_empty
  <2>5. CASE DestroyBegins
    <3>1. Step(PREPARE, "start") /\ running' = [running EXCEPT !.at = "destroy"]
      BY <2>5 DEF DestroyBegins, Goto
    <3>2. running' = [id |-> running.id, at |-> "destroy", left |-> running.left]
      BY <1>0, <3>1, StepIs
    <3>3. Freeing'
      BY <3>1, <3>2 DEF Freeing, Step
    <3>. QED BY <2>1, <2>3, <3>3 DEF Feeding
  <2>. QED BY <1>3, <2>4, <2>5
<1>4. CASE Decodes
  <2>1. native_playback_started' = 1
    BY <1>4 DEF Decodes, native_playback_recv_frame
  <2>2. Fills(pcm_data_list, pcm_data, pcm_size_in_list, played, decoded)' /\ fed' \in BOOLEAN
    BY <1>0, <1>4, DecodesFeeding
  <2>. QED BY <2>1, <2>2 DEF Feeding
<1>5. CASE native_playback_init
  <2>1. co_list_is_empty(pcm_data_list)
    BY <1>0, <1>5, NoSong DEF Feeding
  <2>2. pcm_data = [n \in Elements |-> NoData] /\ pcm_size_in_list = 0
    BY <1>0, <2>1, EmptyFills
  <2>3. /\ pcm_data_list' = co_list_init(pcm_data_list) /\ pcm_data' = pcm_data /\ pcm_size_in_list' = 0
        /\ decoded' = 0 /\ played' = 0 /\ fed' = FALSE /\ native_playback_started' = 1
    BY <1>5, <2>2 DEF native_playback_init
  <2>4. pcm_data_list' \in Lists /\ pcm_data_list'.first = NULL /\ pcm_data_list'.last = NULL
    BY <1>00, <2>3 DEF co_list_init, Lists, Links
  <2>5. Fills(pcm_data_list', pcm_data', pcm_size_in_list', played', decoded')
    BY <1>00, <2>2, <2>3, <2>4, NothingFills
  <2>6. Fills(pcm_data_list, pcm_data, pcm_size_in_list, played, decoded)'
    BY <2>5 DEF Fills, Pieces, Begins, Finishes, BytesOf, Represents
  <2>7. native_playback_started' # 0
    BY <2>3
  <2>8. fed' \in BOOLEAN
    <3>1. fed' = FALSE
      BY <2>3
    <3>. QED BY ONLY <3>1
  <2>. QED BY <2>6, <2>7, <2>8 DEF Feeding
<1>6. CASE native_playback_destroy
  <2>1. /\ pcm_data_list' = [first |-> NULL, last |-> NULL, next |-> [n \in Elements |-> NULL]]
        /\ pcm_data' = [n \in Elements |-> NoData] /\ pcm_size_in_list' = 0
        /\ decoded' = 0 /\ played' = 0 /\ fed' = fed
    BY <1>6 DEF native_playback_destroy
  <2>2. pcm_data_list' \in Lists /\ pcm_data_list'.first = NULL /\ pcm_data_list'.last = NULL
    BY <2>1 DEF Lists, Links
  <2>3. Fills(pcm_data_list', pcm_data', pcm_size_in_list', played', decoded')
    BY <1>00, <2>1, <2>2, NothingFills
  <2>4. Fills(pcm_data_list, pcm_data, pcm_size_in_list, played, decoded)'
    BY <2>3 DEF Fills, Pieces, Begins, Finishes, BytesOf, Represents
  <2>. QED BY <1>0, <2>1, <2>2, <2>4 DEF Feeding, co_list_is_empty
<1>. QED BY <1>1, <1>2, <1>3, <1>4, <1>5, <1>6, SongSteps

(* How much of the song there is, and how many messages ask for more. *)
LEMMA SizeSteps ==
  ASSUME Tasks, Roles, Feeding, [Next]_vars
  PROVE  /\ pcm_size_in_list \in Nat /\ pcm_size_in_list' \in Nat
         /\ Behind(DECODE) \in Nat /\ Behind(DECODE)' \in Nat /\ Behind(DECODE)' <= MaxDecodings
         /\ \/ UNCHANGED <<pcm_size_in_list, fed, native_playback_started>> /\ Behind(DECODE)' = Behind(DECODE)
            \/ /\ pcm_size_in_list' <= pcm_size_in_list /\ UNCHANGED <<fed, native_playback_started>>
               /\ pcm_size_in_list <= pcm_size_in_list' + NeededLength
               /\ IF pcm_size_in_list' < DecoderThd THEN Behind(DECODE)' = Behind(DECODE) + 1
                  ELSE Behind(DECODE)' = Behind(DECODE)
            \/ /\ pcm_size_in_list' <= pcm_size_in_list /\ fed' = FALSE
               /\ Behind(DECODE)' <= Behind(DECODE)
            \/ /\ native_playback_started' = 1 /\ native_playback_started = 1
               /\ Behind(DECODE) = Behind(DECODE)' + 1
               /\ \E length \in Lengths : /\ pcm_size_in_list' = pcm_size_in_list + length
                                          /\ fed' = (fed \/ pcm_size_in_list' >= DecoderThd)
            \/ /\ pcm_size_in_list' = 0 /\ native_playback_started = 0 /\ UNCHANGED fed
               /\ Behind(DECODE)' = Behind(DECODE)
<1>0. /\ Tasks' /\ Feeding' /\ Kind /\ AtStep
      /\ Fills(pcm_data_list, pcm_data, pcm_size_in_list, played, decoded)
      /\ Fills(pcm_data_list, pcm_data, pcm_size_in_list, played, decoded)'
  BY TasksNext, FeedingNext, Kinds DEF Feeding, Tasks
<1>1. pcm_size_in_list \in Nat /\ pcm_size_in_list' \in Nat
  <2>1. Fills(pcm_data_list', pcm_data', pcm_size_in_list', played', decoded')
    BY <1>0 DEF Fills, Pieces, Begins, Finishes, BytesOf, Represents
  <2>. QED BY <1>0, <2>1, FillsSize
<1>2. Behind(DECODE) \in Nat /\ Behind(DECODE)' \in Nat /\ Behind(DECODE)' <= MaxDecodings
  BY <1>0, DecodeSteps DEF Tasks, Room
<1>3. ASSUME running # Idle, Done, UNCHANGED <<task_list, pending>>
      PROVE  Moves /\ running' = Idle
  BY <1>0, <1>3, DoneMoves DEF Done
<1>4. CASE SongStays
  BY <1>1, <1>2, <1>4 DEF SongStays, playbackVars
<1>5. CASE SpeakerTakes
  <2>1. /\ native_playback_ipc_tx /\ "tx" \in pending /\ UNCHANGED <<running, fed, native_playback_started>>
        /\ pending' = pending \ {"tx"}
    BY <1>5 DEF SpeakerTakes, native_playback_ipc_tx
  <2>2. /\ pcm_size_in_list' <= pcm_size_in_list
        /\ pcm_size_in_list <= pcm_size_in_list' + NeededLength
        /\ IF pcm_size_in_list' < DecoderThd THEN task_list' = Append(task_list, DECODE)
           ELSE UNCHANGED task_list
    BY <1>0, <2>1, TakesFeeding
  <2>3. /\ task_list' = Append(task_list, DECODE) => Behind(DECODE)' = Behind(DECODE) + 1
        /\ UNCHANGED task_list => Behind(DECODE)' = Behind(DECODE)
    BY <1>0, <2>1, DecodeSteps DEF DecodeAsked, Served, Aside
  <2>. QED BY <1>1, <1>2, <2>1, <2>2, <2>3
<1>6. CASE DecodesNothing
  <2>1. /\ running # Idle /\ running.id = DECODE /\ Done /\ UNCHANGED <<task_list, pending>>
        /\ fed' = FALSE /\ pcm_size_in_list' = pcm_size_in_list
    BY <1>6 DEF DecodesNothing, Step, Idle
  <2>2. Behind(DECODE) = Behind(DECODE)' + 1
    BY <1>0, <1>3, <2>1, DecodeSteps
  <2>. QED BY <1>1, <1>2, <2>1, <2>2
<1>7. CASE Decodes
  <2>1. /\ running # Idle /\ running.id = DECODE /\ Done /\ UNCHANGED <<task_list, pending>>
        /\ native_playback_started' = 1 /\ native_playback_started = 1
    BY <1>7 DEF Decodes, native_playback_recv_frame, Step, Idle
  <2>2. Behind(DECODE) = Behind(DECODE)' + 1
    BY <1>0, <1>3, <2>1, DecodeSteps
  <2>. QED BY <1>0, <1>1, <1>2, <1>7, <2>1, <2>2, DecodesFeeding
<1>8. CASE native_playback_init
  <2>1. /\ running # Idle /\ running.id = INIT /\ Done /\ UNCHANGED <<task_list, pending>>
        /\ fed' = FALSE /\ pcm_size_in_list' = pcm_size_in_list
    BY <1>8 DEF native_playback_init, Step, Idle
  <2>2. Aside
    BY <1>3, <2>1 DEF Aside
  <2>3. Behind(DECODE)' = Behind(DECODE)
    BY <1>0, <2>2, DecodeSteps
  <2>. QED BY <1>1, <1>2, <2>1, <2>3
<1>9. ASSUME running.id = PREPARE, Moves PROVE Behind(DECODE)' = Behind(DECODE)
  <2>1. /\ Behind(DECODE) = Times(task_list, DECODE) + (IF running.id = DECODE THEN 1 ELSE 0)
        /\ Behind(DECODE)' = Times(task_list', DECODE) + (IF running'.id = DECODE THEN 1 ELSE 0)
    BY CountIs
  <2>. QED BY <1>9, <2>1 DEF Moves
<1>10. CASE DestroyBegins
  <2>1. /\ Step(PREPARE, "start") /\ Goto("destroy") /\ UNCHANGED <<task_list, pending>>
        /\ fed' = FALSE /\ pcm_size_in_list' = pcm_size_in_list /\ running.id = PREPARE
    BY <1>10 DEF DestroyBegins, Step
  <2>2. Moves
    BY <1>0, <2>1, GotoMoves
  <2>. QED BY <1>1, <1>2, <1>9, <2>1, <2>2
<1>11. CASE native_playback_destroy
  <2>1. /\ running # Idle /\ running.id = PREPARE /\ Done /\ UNCHANGED <<task_list, pending>>
        /\ Freeing /\ fed' = fed /\ pcm_size_in_list' = 0
    BY <1>11 DEF native_playback_destroy, Step, Idle, Freeing
  <2>2. native_playback_started = 0
    BY <2>1 DEF Roles, Song, ToCome, Plays, Ends
  <2>. QED BY <1>1, <1>2, <1>3, <1>9, <2>1, <2>2
<1>. QED BY <1>4, <1>5, <1>6, <1>7, <1>8, <1>10, <1>11, SongSteps

LEMMA More ==
  ASSUME NEW n \in Nat, NEW a \in Nat, NEW b \in Nat
  PROVE  /\ n * a \in Nat /\ n * (a + 1) = n * a + n
         /\ a <= b => n * a <= n * b
<1>1. n * a \in Nat /\ n * (a + 1) = n * a + n
  OBVIOUS
<1>2. ASSUME a <= b PROVE n * a <= n * b
  <2>1. PICK d \in Nat : b = a + d
    <3>1. b - a \in Nat /\ b = a + (b - a)
      BY <1>2
    <3>. QED BY <3>1
  <2>2. n * (a + d) = n * a + n * d /\ n * d \in Nat /\ n * a \in Nat
    OBVIOUS
  <2>. QED BY <2>1, <2>2
<1>. QED BY <1>1, <1>2

LEMMA BoundedNext ==
  ASSUME Tasks, Roles, Feeding, [Next]_vars, PcmIsBounded
  PROVE  PcmIsBounded'
<1> SUFFICES ASSUME NEW longest \in Lengths, \A l \in Lengths : l <= longest
             PROVE  pcm_size_in_list' + longest * Behind(DECODE)' < DecoderThd + longest * MaxDecodings
  BY DEF PcmIsBounded
<1> DEFINE a == Behind(DECODE)
           b == Behind(DECODE)'
           x == pcm_size_in_list
           y == pcm_size_in_list'
           m == longest * MaxDecodings
<1>1. longest \in Nat /\ MaxDecodings \in Nat /\ DecoderThd \in Nat /\ m \in Nat
  <2>1. longest \in Nat /\ MaxDecodings \in Nat /\ DecoderThd \in Nat
    BY PcmSizes, Bounds
  <2>. QED BY <2>1, More
<1>2. x + longest * a < DecoderThd + m
  BY DEF PcmIsBounded
<1>3. /\ x \in Nat /\ y \in Nat /\ a \in Nat /\ b \in Nat /\ b <= MaxDecodings
      /\ \/ x = y /\ b = a
         \/ y <= x /\ (IF y < DecoderThd THEN b = a + 1 ELSE b = a)
         \/ y <= x /\ b <= a
         \/ a = b + 1 /\ \E length \in Lengths : y = x + length
         \/ y = 0 /\ b = a
  BY SizeSteps
<1> DEFINE p == longest * a
           q == longest * b
<1> HIDE DEF a, b, x, y
<1>4. q <= m /\ p \in Nat /\ q \in Nat
  BY <1>1, <1>3, More
<1>5. b <= a => q <= p
  BY <1>1, <1>3, More
<1>6. a = b + 1 => p = q + longest
  BY <1>1, <1>3, More
<1>7. \A length \in Lengths : length \in Nat /\ length <= longest
  BY PcmSizes
<1> HIDE DEF m, p, q
<1>8. x + p < DecoderThd + m
  BY <1>2 DEF p
<1>9. CASE y <= x /\ b <= a
  <2>1. y + q < DecoderThd + m
    BY <1>1, <1>3, <1>4, <1>5, <1>8, <1>9
  <2>. QED BY <2>1 DEF y, b, q, m
<1>10. CASE y < DecoderThd
  <2>1. y + q < DecoderThd + m
    BY <1>1, <1>3, <1>4, <1>10
  <2>. QED BY <2>1 DEF y, b, q, m
<1>11. CASE a = b + 1 /\ \E length \in Lengths : y = x + length
  <2>1. PICK length \in Lengths : y = x + length
    BY <1>11
  <2>2. length \in Nat /\ length <= longest /\ p = q + longest
    BY <1>6, <1>7, <1>11
  <2>3. y + q < DecoderThd + m
    BY <1>1, <1>3, <1>4, <1>8, <2>1, <2>2
  <2>. QED BY <2>3 DEF y, b, q, m
<1>12. \/ y <= x /\ b <= a
       \/ y < DecoderThd
       \/ a = b + 1 /\ \E length \in Lengths : y = x + length
  BY <1>1, <1>3
<1>. QED BY <1>9, <1>10, <1>11, <1>12

(* How large the sizes must be for a song without silence. *)
FeedFits ==
  NeededLength * MaxDecodings <= DecoderThd /\ \A l \in Lengths : NeededLength <= l

LEMMA FedNext ==
  ASSUME FeedFits, Tasks, Roles, Feeding, [Next]_vars, Fed
  PROVE  Fed'
<1> SUFFICES ASSUME fed'
             PROVE  /\ native_playback_started' = 1
                    /\ pcm_size_in_list' + NeededLength * Behind(DECODE)' >= DecoderThd
  BY DEF Fed
<1> DEFINE a == Behind(DECODE)
           b == Behind(DECODE)'
           x == pcm_size_in_list
           y == pcm_size_in_list'
           n == NeededLength
<1>1. n \in Nat /\ DecoderThd \in Nat /\ x \in Nat /\ y \in Nat /\ a \in Nat /\ b \in Nat
  BY PcmSizes, SizeSteps
<1>2. /\ n * a \in Nat /\ n * b \in Nat
      /\ n * (a + 1) = n * a + n /\ n * (b + 1) = n * b + n
  BY <1>1, More
<1>3. fed => native_playback_started = 1 /\ x + n * a >= DecoderThd
  BY DEF Fed
<1>4. CASE UNCHANGED <<pcm_size_in_list, fed, native_playback_started>> /\ b = a
  BY <1>3, <1>4
<1>5. CASE /\ y <= x /\ UNCHANGED <<fed, native_playback_started>> /\ x <= y + n
           /\ IF y < DecoderThd THEN b = a + 1 ELSE b = a
  <2>1. y + n * b >= DecoderThd
    <3>1. CASE y < DecoderThd
      <4>1. b = a + 1 /\ x + n * a >= DecoderThd /\ n * b = n * a + n
        BY <1>2, <1>3, <1>5, <3>1
      <4> HIDE DEF a, b, x, y, n
      <4>. QED BY <1>1, <1>2, <1>5, <4>1
    <3>2. CASE ~(y < DecoderThd)
      <4> HIDE DEF a, b, x, y, n
      <4>. QED BY <1>1, <1>2, <3>2
    <3>. QED BY <3>1, <3>2
  <2>. QED BY <1>3, <1>5, <2>1
<1>6. CASE fed' = FALSE
  BY <1>6
<1>7. CASE /\ native_playback_started' = 1 /\ native_playback_started = 1 /\ a = b + 1
           /\ \E length \in Lengths : /\ y = x + length
                                      /\ fed' = (fed \/ y >= DecoderThd)
  <2>1. PICK length \in Lengths : y = x + length /\ fed' = (fed \/ y >= DecoderThd)
    BY <1>7
  <2>2. length \in Nat /\ n <= length
    BY <2>1, PcmSizes DEF FeedFits
  <2>3. fed \/ y >= DecoderThd
    BY <2>1
  <2>4. y + n * b >= DecoderThd
    <3>1. CASE fed
      <4>1. x + n * a >= DecoderThd /\ n * a = n * b + n
        BY <1>2, <1>3, <1>7, <3>1
      <4> HIDE DEF a, b, x, y, n
      <4>. QED BY <1>1, <1>2, <2>1, <2>2, <4>1
    <3>2. CASE y >= DecoderThd
      <4> HIDE DEF a, b, x, y, n
      <4>. QED BY <1>1, <1>2, <3>2
    <3>. QED BY <2>3, <3>1, <3>2
  <2>. QED BY <1>7, <2>4
<1>8. CASE y = 0 /\ native_playback_started = 0 /\ UNCHANGED fed
  BY <1>3, <1>8
<1>. QED BY <1>4, <1>5, <1>6, <1>7, <1>8, SizeSteps

LEMMA SongInit == Init => Feeding /\ PcmIsBounded /\ Fed
<1> SUFFICES ASSUME Init PROVE Feeding /\ PcmIsBounded /\ Fed
  OBVIOUS
<1>1. /\ pcm_data_list = [first |-> NULL, last |-> NULL, next |-> [n \in Elements |-> NULL]]
      /\ pcm_data = [n \in Elements |-> NoData] /\ pcm_size_in_list = 0
      /\ decoded = 0 /\ played = 0 /\ fed = FALSE /\ 0 \in 0 .. Positions - 1
      /\ task_list = <<>> /\ running = Idle
  BY PcmSizes DEF Init, PlaybackInit, DmaInit
<1>2. pcm_data_list \in Lists /\ pcm_data_list.first = NULL /\ pcm_data_list.last = NULL
  BY <1>1 DEF Lists, Links
<1>3. Fills(pcm_data_list, pcm_data, pcm_size_in_list, played, decoded)
  BY <1>1, <1>2, NothingFills
<1>4. Feeding /\ Fed
  BY <1>1, <1>2, <1>3 DEF Feeding, Fed, co_list_is_empty
<1>5. Behind(DECODE) = 0
  <2>1. Base
    BY BaseInit
  <2>2. task_list \in Seq(Ids) /\ Behind(DECODE) = Times(task_list, DECODE) /\ ~(Times(task_list, DECODE) > 0)
    <3>1. task_list \in Seq(Ids) /\ Len(task_list) = 0
      BY <1>1, <2>1 DEF Base, Tasks
    <3>2. ~ \E i \in 1 .. Len(task_list) : task_list[i] = DECODE
      BY <3>1
    <3>3. Times(task_list, DECODE) \in Nat /\ ~(Times(task_list, DECODE) > 0)
      BY <3>1, <3>2, TimesType
    <3>. QED BY <1>1, <3>1, <3>3, CountIs DEF Idle
  <2>3. Times(task_list, DECODE) \in Nat
    BY <2>2, TimesType
  <2>. QED BY <2>2, <2>3
<1>6. PcmIsBounded
  <2> SUFFICES ASSUME NEW longest \in Lengths
               PROVE  0 + longest * 0 < DecoderThd + longest * MaxDecodings
    BY <1>1, <1>5 DEF PcmIsBounded
  <2>1. longest \in Nat /\ longest >= 1 /\ MaxDecodings \in Nat /\ MaxDecodings >= 1 /\ DecoderThd \in Nat
    BY PcmSizes, Bounds
  <2>2. longest * 0 = 0 /\ longest * 1 = longest /\ longest * 1 <= longest * MaxDecodings
        /\ longest * MaxDecodings \in Nat
    BY <2>1, More
  <2> DEFINE m == longest * MaxDecodings
  <2> HIDE DEF m
  <2>. QED BY <2>1, <2>2 DEF m
<1>. QED BY <1>4, <1>6

-----------------------------------------------------------------------------
(* The theorems about songs. *)
Songs == Base /\ Feeding /\ PcmIsBounded

LEMMA SongsHold == SafeSpec => []Songs
<1>1. Init => Songs
  BY BaseInit, SongInit DEF Songs
<1>2. Songs /\ [Next]_vars => Songs'
  BY BaseNext, FeedingNext, BoundedNext DEF Songs, Base
<1>. QED BY <1>1, <1>2, PTL DEF SafeSpec

LEMMA FeedingInOrder ==
  ASSUME Feeding
  PROVE  PcmInOrder
<1>1. /\ Fills(pcm_data_list, pcm_data, pcm_size_in_list, played, decoded)
      /\ pcm_size_in_list = Cardinality(BytesOf(pcm_data))
  BY DEF Feeding, Fills
<1>2. PICK s \in Seq(Elements) : Pieces(pcm_data_list, pcm_data, s, played, decoded)
  BY <1>1 DEF Fills
<1>3. Represents(pcm_data_list, s) /\ Walk = s /\ Len(s) \in Nat
  BY <1>2, WalkIs DEF Pieces
<1> DEFINE Begin(k) == (pcm_data[s[k]].from + pcm_data[s[k]].offset) % Positions
           End(k)   == IF k = 0 THEN played
                       ELSE (pcm_data[s[k]].from + pcm_data[s[k]].length) % Positions
<1>4. \A k \in 1 .. Len(s) : Begin(k) = End(k - 1)
  <2> SUFFICES ASSUME NEW k \in 1 .. Len(s) PROVE Begin(k) = End(k - 1)
    OBVIOUS
  <2>1. Begins(pcm_data, s[k]) = IF k = 1 THEN played ELSE Finishes(pcm_data, s[k - 1])
    BY <1>2 DEF Pieces
  <2>2. k - 1 = 0 <=> k = 1
    BY <1>3
  <2>. QED BY <2>1, <2>2 DEF Begins, Finishes
<1>5. End(Len(s)) = decoded
  <2>1. decoded = IF s = <<>> THEN played ELSE Finishes(pcm_data, s[Len(s)])
    BY <1>2 DEF Pieces
  <2>2. s = <<>> <=> Len(s) = 0
    BY <1>2
  <2>. QED BY <2>1, <2>2 DEF Finishes
<1>6. pcm_size_in_list = Cardinality(Bytes)
  BY <1>1 DEF Bytes, BytesOf
<1>7. Unused = {n \in Elements : \A k \in 1 .. Len(s) : s[k] # n}
  <2>1. \A n \in Elements : pcm_data[n] = NoData <=> \A k \in 1 .. Len(s) : s[k] # n
    BY <1>2 DEF Pieces
  <2>. QED BY <2>1 DEF Unused
<1>. QED BY <1>3, <1>4, <1>5, <1>6, <1>7 DEF PcmInOrder

(* PcmInv: what the decoder puts out reaches the speaker byte by byte, in  *)
(* order, however the interrupt and the main loop take turns at the list;  *)
(* pcm_size_in_list is what the list holds; and the messages that ask for  *)
(* decodings bound it.                                                     *)
THEOREM SongIsInOrder == Spec => []PcmInv
<1>1. Songs => PcmInv
  BY FeedingInOrder DEF Songs, PcmInv
<1>. QED BY <1>1, SongsHold, PTL DEF Spec

(* NoSilenceInTheSong, when NATIVE_PLAYBACK_DECODER_THD is no less than    *)
(* what is played while the main loop is behind, and a decoding gives no   *)
(* less than an interrupt takes.                                           *)
THEOREM NoSilence ==
  ASSUME FeedFits
  PROVE  Spec => []NoSilenceInTheSong
<1>1. Init => Songs /\ Fed
  BY BaseInit, SongInit DEF Songs
<1>2. Songs /\ Fed /\ [Next]_vars => (Songs /\ Fed)'
  BY BaseNext, FeedingNext, BoundedNext, FedNext DEF Songs, Base
<1>3. Songs /\ Fed => NoSilenceInTheSong
  <2> SUFFICES ASSUME Songs, Fed, fed, "tx" \in pending PROVE pcm_size_in_list >= NeededLength
    BY DEF NoSilenceInTheSong
  <2> DEFINE b == Behind(DECODE)
             n == NeededLength
             x == pcm_size_in_list
             p == n * b
             m == n * MaxDecodings
  <2>1. b < MaxDecodings /\ task_list \in Seq(Ids)
    BY DEF Songs, Base, Tasks, Room
  <2>2. b \in Nat /\ MaxDecodings \in Nat /\ n \in Nat /\ DecoderThd \in Nat /\ x \in Nat
    <3>1. Times(task_list, DECODE) \in Nat
      BY <2>1, TimesType
    <3>2. x \in Nat
      BY FillsSize DEF Songs, Feeding
    <3>. QED BY <3>1, <3>2, CountIs, PcmSizes, Bounds
  <2>3. x + p >= DecoderThd /\ m <= DecoderThd
    BY DEF Fed, FeedFits
  <2>4. n * (b + 1) = p + n /\ n * (b + 1) <= m /\ p \in Nat /\ m \in Nat
    <3> HIDE DEF b, n
    <3>1. b + 1 <= MaxDecodings /\ b + 1 \in Nat
      BY <2>1, <2>2
    <3>. QED BY <2>2, <3>1, More
  <2>5. x >= n
    <3> HIDE DEF b, n, x, p, m
    <3>. QED BY <2>2, <2>3, <2>4
  <2>. QED BY <2>5
<1>. QED BY <1>1, <1>2, <1>3, PTL DEF Spec, SafeSpec

(* AudioInv: the variables keep their types, each frame has its run of     *)
(* audio_alg_launch, and only frames' messages that came too late for      *)
(* their call are handled without one.                                     *)
THEOREM AudioIsRight ==
  ASSUME EnoughFrames
  PROVE  Spec => []AudioInv
<1>1. Songs => TypeOK
  <2> SUFFICES ASSUME Songs PROVE TypeOK
    OBVIOUS
  <2>1. /\ task_list \in Seq(Ids) /\ AtStep /\ enabled \subseteq Dma /\ pending \subseteq Dma
    BY DEF Songs, Base, Tasks
  <2>2. task_list \in Seq(FromDma \cup FromOutside) /\
        running \in [id : FromDma \cup FromOutside \cup {"none"},
                     at : {"get", "start", "launch", "repair", "echo", "destroy", "poll", "lost"},
                     left : 0 .. 2]
    BY <2>1, StepIs DEF Ids
  <2>3. /\ handler.rx \in {NULL, "audio_algorithm_ipc_rx"}
        /\ handler.tx \in {NULL, "audio_algorithm_ipc_tx", "native_playback_ipc_tx"}
        /\ env # NULL => env \in Envs
        /\ native_playback_started \in {0, 1} /\ mcu \in {"idle", "song", "ending", "call"}
    BY DEF Songs, Base, Roles, Lines, Rings
  <2>4. Fills(pcm_data_list, pcm_data, pcm_size_in_list, played, decoded) /\ fed \in BOOLEAN
    BY DEF Songs, Feeding
  <2>5. pcm_size_in_list \in Nat /\ decoded \in 0 .. Positions - 1 /\ played \in 0 .. Positions - 1
    BY <2>4, FillsSize DEF Fills
  <2>6. pcm_data_list \in Lists
        /\ pcm_data \in [Elements -> [from : 0 .. Positions - 1, offset : Nat, length : Nat]]
    BY <2>4 DEF Fills, Pieces, Represents, Pcm
  <2>7. late \in 0 .. MaxFrames
    <3>1. Behind(RX) \in Nat /\ Behind(RX) <= MaxFrames /\ MaxFrames \in Nat /\ Counted
      BY ToRunIs DEF Songs, Base
    <3>. QED BY <3>1 DEF Counted
  <2>. QED BY <2>1, <2>2, <2>3, <2>4, <2>5, <2>6, <2>7 DEF TypeOK
<1>2. TypeOK /\ EachFrameHasItsLaunch /\ OnlyLateFramesAreLeft => AudioInv
  BY DEF AudioInv
<1>. QED BY <1>1, <1>2, SongsHold, FramesHaveLaunches, OnlyLateAreLeft, PTL DEF Spec
=============================================================================
