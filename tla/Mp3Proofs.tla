----------------------------- MODULE Mp3Proofs -----------------------------
(***************************************************************************)
(* Theorems about the song (Mp3Stream.tla), for every size of the ring, of *)
(* the unit in which it is asked for, of the library's buffer and of the   *)
(* MCU's frames that the assumptions of Mp3Stream allow.                   *)
(***************************************************************************)
EXTENDS Mp3Stream, FiniteSetTheorems, TLAPS

(* Arithmetic of the ring and of the units in which it is asked for. *)
LEMMA ModuloOnce ==
  ASSUME NEW n \in Nat \ {0}, NEW a \in 0 .. n - 1, NEW b \in 0 .. n - 1
  PROVE  (a + b) % n = IF a + b < n THEN a + b ELSE a + b - n
<1>1. CASE a + b < n
  BY <1>1
<1>2. CASE a + b >= n
  <2>1. a + b - n \in 0 .. n - 1
    BY <1>2
  <2>2. (a + b) % n = (a + b - n) % n
    OBVIOUS
  <2>. QED BY <1>2, <2>1, <2>2
<1>. QED BY <1>1, <1>2

LEMMA NatTimes ==
  ASSUME NEW a \in Nat, NEW b \in Nat
  PROVE  a * b \in Nat
OBVIOUS

LEMMA PositiveTimes ==
  ASSUME NEW a \in Nat, NEW b \in Nat, a >= 1, b >= 1
  PROVE  a * b >= 1
<1>1. a - 1 \in Nat /\ a = (a - 1) + 1
  OBVIOUS
<1>2. \A k \in Nat : (k + 1) * b = k * b + b /\ k * b \in Nat
  BY NatTimes
<1>. QED BY <1>1, <1>2

LEMMA LessIsLess ==
  \A a, b, c, d, n \in Nat : a <= b /\ c <= d /\ b + d <= n => a + c <= n
OBVIOUS

LEMMA WholeUnits ==
  ASSUME NEW u \in Nat \ {0}, NEW x \in Nat
  PROVE  /\ x \div u \in Nat
         /\ (x \div u) * u <= x
         /\ x >= u => x \div u >= 1
         /\ \A k \in Nat : k * u <= x => k <= x \div u
<1>1. x \div u \in Nat /\ (x \div u) * u <= x /\ x < (x \div u) * u + u
  OBVIOUS
<1> DEFINE q == x \div u
<1>2. \A k \in Nat : k * u <= x => k <= q
  <2> HIDE DEF q
  <2> SUFFICES ASSUME q \in Nat, x < q * u + u, NEW k \in Nat, k * u <= x PROVE k <= q
    BY <1>1 DEF q
  <2>1. CASE k >= q + 1
    <3>1. PICK d \in Nat : k = q + 1 + d
      BY <2>1
    <3>2. k * u = q * u + u + d * u /\ d * u >= 0
      BY <3>1
    <3>. QED BY <3>2
  <2>. QED BY <2>1
<1>3. x >= u => x \div u >= 1
  BY <1>2
<1>. QED BY <1>1, <1>2, <1>3

-----------------------------------------------------------------------------
(* The message list.  Has is Queued of any list.  What the order of the    *)
(* messages says: a song is started once and stopped once, is not started  *)
(* before the last one is stopped, and its decoding comes after.           *)
Has(list, id) == \E i \in 1 .. Len(list) : list[i] = id

Ordered(list) ==
  /\ list \in Seq(Tasks)
  /\ \A i, j \in 1 .. Len(list) :
       /\ list[i] = "MP3_DECODER_INIT" =>
            /\ list[j] = "MP3_DECODER_INIT" => i = j
            /\ list[j] = "MP3_DECODER_DO_DECODE" => j < i
            /\ list[j] = "DECODER_PREPARE_FOR_NEXT" => i < j
       /\ list[i] = "DECODER_PREPARE_FOR_NEXT" /\ list[j] = "DECODER_PREPARE_FOR_NEXT" => i = j

LEMMA HasPosted ==
  ASSUME NEW list \in Seq(Tasks), NEW e \in Tasks, NEW id
  PROVE  Has(Append(list, e), id) <=> Has(list, id) \/ id = e
<1> DEFINE posted == Append(list, e)
<1>1. /\ Len(posted) = Len(list) + 1 /\ posted[Len(posted)] = e /\ Len(list) \in Nat
      /\ \A i \in 1 .. Len(list) : posted[i] = list[i]
  OBVIOUS
<1> HIDE DEF posted
<1>2. \A i \in 1 .. Len(posted) : i \in 1 .. Len(list) \/ i = Len(posted)
  BY <1>1
<1>3. Len(posted) \in 1 .. Len(posted) /\ \A i \in 1 .. Len(list) : i \in 1 .. Len(posted)
  BY <1>1
<1>4. Has(posted, id) <=> Has(list, id) \/ id = e
  BY <1>1, <1>2, <1>3 DEF Has
<1>. QED BY <1>4 DEF posted

LEMMA HasTaken ==
  ASSUME NEW list \in Seq(Tasks), list # <<>>, NEW id
  PROVE  Has(list, id) <=> Head(list) = id \/ Has(Tail(list), id)
<1>1. Len(list) \in Nat /\ Len(list) >= 1 /\ Len(Tail(list)) = Len(list) - 1 /\ Head(list) = list[1]
  OBVIOUS
<1>2. \A i \in 1 .. Len(list) - 1 : Tail(list)[i] = list[i + 1]
  OBVIOUS
<1>3. \A i \in 2 .. Len(list) : i - 1 \in 1 .. Len(list) - 1 /\ (i - 1) + 1 = i
  BY <1>1
<1>4. ASSUME Has(list, id), Head(list) # id PROVE Has(Tail(list), id)
  <2>1. PICK i \in 1 .. Len(list) : list[i] = id
    BY <1>4 DEF Has
  <2>2. i \in 2 .. Len(list)
    BY <2>1, <1>1, <1>4
  <2>3. Tail(list)[i - 1] = id
    BY <2>1, <2>2, <1>2, <1>3
  <2>. QED BY <2>2, <2>3, <1>1, <1>3 DEF Has
<1>5. ASSUME Has(Tail(list), id) PROVE Has(list, id)
  BY <1>5, <1>1, <1>2 DEF Has
<1>. QED BY <1>1, <1>4, <1>5 DEF Has

LEMMA OrderedPosted ==
  ASSUME NEW list, Ordered(list), NEW e \in Tasks,
         e = "MP3_DECODER_INIT" => ~Has(list, e) /\ ~Has(list, "DECODER_PREPARE_FOR_NEXT"),
         e = "MP3_DECODER_DO_DECODE" => ~Has(list, "MP3_DECODER_INIT"),
         e = "DECODER_PREPARE_FOR_NEXT" => ~Has(list, e)
  PROVE  Ordered(Append(list, e))
<1> DEFINE posted == Append(list, e)
<1>1. /\ posted \in Seq(Tasks) /\ Len(posted) = Len(list) + 1 /\ posted[Len(posted)] = e
      /\ \A i \in 1 .. Len(list) : posted[i] = list[i]
      /\ Len(list) \in Nat
  BY DEF Ordered
<1> HIDE DEF posted
<1> SUFFICES Ordered(posted)
  BY DEF posted
<1>2. \A i \in 1 .. Len(posted) : i \in 1 .. Len(list) \/ i = Len(posted)
  BY <1>1
<1>. QED BY <1>1, <1>2 DEF Ordered, Has

LEMMA OrderedTaken ==
  ASSUME NEW list, Ordered(list), list # <<>>
  PROVE  /\ Ordered(Tail(list))
         /\ Head(list) = "MP3_DECODER_INIT" =>
              ~Has(Tail(list), "MP3_DECODER_INIT") /\ ~Has(Tail(list), "MP3_DECODER_DO_DECODE")
         /\ Head(list) = "DECODER_PREPARE_FOR_NEXT" =>
              ~Has(Tail(list), "DECODER_PREPARE_FOR_NEXT") /\ ~Has(Tail(list), "MP3_DECODER_INIT")
<1>1. /\ Len(list) \in Nat /\ Len(list) >= 1 /\ Len(Tail(list)) = Len(list) - 1
      /\ Head(list) = list[1] /\ Tail(list) \in Seq(Tasks)
  BY DEF Ordered
<1>2. \A i \in 1 .. Len(Tail(list)) :
        Tail(list)[i] = list[i + 1] /\ i + 1 \in 1 .. Len(list) /\ i + 1 > 1
  BY <1>1 DEF Ordered
<1>3. \A i, j \in 1 .. Len(Tail(list)) : (i + 1 < j + 1 => i < j) /\ (i + 1 = j + 1 => i = j)
  BY <1>1
<1>4. Ordered(Tail(list))
  BY <1>1, <1>2, <1>3 DEF Ordered
<1>5. 1 \in 1 .. Len(list)
  BY <1>1
<1>6. ASSUME Head(list) = "MP3_DECODER_INIT"
      PROVE  ~Has(Tail(list), "MP3_DECODER_INIT") /\ ~Has(Tail(list), "MP3_DECODER_DO_DECODE")
  BY <1>6, <1>1, <1>2, <1>5 DEF Ordered, Has
<1>7. ASSUME Head(list) = "DECODER_PREPARE_FOR_NEXT"
      PROVE  ~Has(Tail(list), "DECODER_PREPARE_FOR_NEXT") /\ ~Has(Tail(list), "MP3_DECODER_INIT")
  BY <1>7, <1>1, <1>2, <1>5 DEF Ordered, Has
<1>. QED BY <1>4, <1>6, <1>7

-----------------------------------------------------------------------------
(* The inductive invariant.  That a request never asks for more than fits  *)
(* needs the MCU to owe nothing when it is made, which the flag says only  *)
(* if the account is never less than what is owed; that a song starts with *)
(* an empty account needs it to begin after the last one has ended, which  *)
(* is what the order of the messages is for.                               *)
Types ==
  /\ pc \in {"idle", "init_send", "init_account", "fetch", "execute", "request", "send", "answered"}
  /\ buffer \in BOOLEAN
  /\ input_index \in 0 .. MP3_DECODER_BUFFER_SIZE - 1
  /\ output_index \in 0 .. MP3_DECODER_BUFFER_SIZE - 1
  /\ total_input \in 0 .. MP3_DECODER_BUFFERING_LIMIT
  /\ dynamic_consumed \in 0 .. MP3_DECODER_REQUEST_DATA_THD
  /\ all_request_data_received \in BOOLEAN
  /\ request_data_size \in 0 .. MP3_DECODER_BUFFER_SIZE
  /\ credit \in Nat /\ stored \in Nat
  /\ decoder_state \in States
  /\ i_buff_size \in 0 .. ui_inp_size /\ i_bytes_consumed \in 0 .. i_buff_size
  /\ ui_init_done \in BOOLEAN /\ sbc_encoder_ready \in BOOLEAN
  /\ apply_unit \in 0 .. MP3_DECODER_BUFFER_SIZE \div Unit /\ space \in Nat
  /\ frame_count \in Nat
  /\ mcu \in {"stopped", "playing", "stopping", "ready"}
  /\ left \in 0 .. SongLength

(* From mp3_decoder_init until the song is stopped. *)
Busy == mcu \in {"playing", "stopping"} /\ ~Has(task_list, "MP3_DECODER_INIT")

Lifecycle ==
  /\ Ordered(task_list)
  /\ Has(task_list, "MP3_DECODER_INIT") => mcu \in {"playing", "stopping"} /\ space = 0
  /\ Has(task_list, "DECODER_PREPARE_FOR_NEXT") => mcu = "stopping"
  /\ mcu # "playing" => credit = 0
  /\ ~Busy => /\ pc = "idle" /\ total_input = 0 /\ decoder_state \in {"IDLE", "BUFFERING"}
              /\ credit = 0 /\ ~all_request_data_received /\ ~sbc_encoder_ready

Start ==
  /\ pc \in {"fetch", "execute", "request", "send"} => decoder_state \in {"INITIATING", "DECODING"}
  /\ Busy =>
       /\ buffer
       /\ decoder_state = "IDLE" =>
            /\ ~Has(task_list, "MP3_DECODER_DO_DECODE") /\ ~sbc_encoder_ready
            /\ total_input < MP3_DECODER_BUFFERING_LIMIT
       /\ decoder_state = "BUFFERING" =>
            /\ Has(task_list, "MP3_DECODER_DO_DECODE") /\ ~sbc_encoder_ready
            /\ total_input >= MP3_DECODER_BUFFERING_LIMIT
       /\ decoder_state = "INITIATING" =>
            \/ Has(task_list, "MP3_DECODER_DO_DECODE")
            \/ pc \in {"fetch", "execute", "request", "send"}

(* What is asked for, and what the code has recorded of it. *)
Account ==
  /\ pc = "init_send" => stored = 0 /\ credit = 0 /\ space = 0
  /\ pc = "init_account" => apply_unit = MP3_DECODER_BUFFER_SIZE \div Unit - 1
  /\ pc = "init_account" => Owed <= apply_unit * Unit
  /\ Busy /\ pc \notin {"init_send", "init_account"} =>
       request_data_size >= Asked /\ (all_request_data_received => Asked = 0)

IInv == Types /\ Lifecycle /\ Start /\ RingNeverOverflows /\ Account

(* The record is exact if the MCU does not answer before it is made. *)
Exact ==
  /\ AllRequestDataReceived
  /\ pc = "init_account" /\ mcu = "playing" => Owed = apply_unit * Unit

-----------------------------------------------------------------------------
LEMMA OwedIsNat ==
  ASSUME Types
  PROVE  /\ Owed \in Nat /\ Asked \in Nat /\ Owed <= Asked /\ credit <= Owed
         /\ space * Unit \in Nat /\ apply_unit * Unit \in Nat
<1>1. Unit \in Nat /\ space \in Nat /\ apply_unit \in Nat /\ credit \in Nat
  BY SizeAssumption, WholeUnits DEF Types
<1>2. space * Unit \in Nat /\ apply_unit * Unit \in Nat
  BY <1>1
<1>. QED BY <1>1, <1>2 DEF Owed, Asked

(* The first message is taken. *)
LEMMA Taking ==
  ASSUME NEW id, Ordered(task_list), Handles(id), task_list' = Tail(task_list)
  PROVE  /\ Ordered(task_list')
         /\ \A x : Has(task_list, x) <=> x = id \/ Has(task_list', x)
         /\ id = "MP3_DECODER_INIT" =>
              ~Has(task_list', "MP3_DECODER_INIT") /\ ~Has(task_list', "MP3_DECODER_DO_DECODE")
         /\ id = "DECODER_PREPARE_FOR_NEXT" =>
              ~Has(task_list', "DECODER_PREPARE_FOR_NEXT") /\ ~Has(task_list', "MP3_DECODER_INIT")
<1>1. task_list \in Seq(Tasks) /\ task_list # <<>> /\ Head(task_list) = id
  BY DEF Ordered, Handles
<1>. QED BY <1>1, HasTaken, OrderedTaken

(* A message is posted. *)
LEMMA Posting ==
  ASSUME NEW id \in Tasks, Ordered(task_list), task_list' = Posted(id),
         id = "MP3_DECODER_INIT" => ~Has(task_list, id) /\ ~Has(task_list, "DECODER_PREPARE_FOR_NEXT"),
         id = "MP3_DECODER_DO_DECODE" => ~Has(task_list, "MP3_DECODER_INIT"),
         id = "DECODER_PREPARE_FOR_NEXT" => ~Has(task_list, id)
  PROVE  Ordered(task_list') /\ \A x : Has(task_list', x) <=> x = id \/ Has(task_list, x)
<1>1. task_list \in Seq(Tasks)
  BY DEF Ordered
<1>. QED BY <1>1, HasPosted, OrderedPosted DEF Posted

-----------------------------------------------------------------------------
(* One lemma per action. *)

LEMMA InitResetKeeps ==
  ASSUME IInv, InitReset
  PROVE  IInv'
<1>1. /\ Ordered(task_list')
      /\ \A x : Has(task_list, x) <=> x = "MP3_DECODER_INIT" \/ Has(task_list', x)
      /\ ~Has(task_list', "MP3_DECODER_INIT") /\ ~Has(task_list', "MP3_DECODER_DO_DECODE")
  BY Taking DEF IInv, Lifecycle, InitReset
<1>2. mcu \in {"playing", "stopping"} /\ space = 0 /\ credit = 0 /\ ~sbc_encoder_ready
  BY <1>1 DEF IInv, Lifecycle, Busy
<1>3. Types'
  <2>1. /\ 0 \in 0 .. MP3_DECODER_BUFFER_SIZE - 1 /\ 0 \in 0 .. MP3_DECODER_BUFFERING_LIMIT
        /\ 0 \in 0 .. MP3_DECODER_REQUEST_DATA_THD
    BY SizeAssumption, ThresholdAssumption
  <2>. QED BY <2>1 DEF IInv, Types, InitReset, NewRing, States, sbc, peer
<1>4. Lifecycle'
  BY <1>1, <1>2 DEF IInv, Lifecycle, Busy, InitReset, sbc, peer
<1>5. Start'
  BY <1>1, <1>2, ThresholdAssumption DEF Start, Busy, InitReset, NewRing, sbc, peer
<1>6. RingNeverOverflows' /\ Account'
  BY <1>2, SizeAssumption
  DEF RingNeverOverflows, Used, Asked, Owed, Account, Busy, InitReset, sbc, peer
<1>. QED BY <1>3, <1>4, <1>5, <1>6 DEF IInv

LEMMA InitSendKeeps ==
  ASSUME IInv, InitSend
  PROVE  IInv'
<1>1. /\ MP3_DECODER_BUFFER_SIZE \div Unit \in Nat
      /\ (MP3_DECODER_BUFFER_SIZE \div Unit) * Unit <= MP3_DECODER_BUFFER_SIZE
      /\ MP3_DECODER_BUFFER_SIZE \div Unit >= 1
  BY WholeUnits, SizeAssumption
<1>2. Busy /\ stored = 0 /\ credit = 0 /\ space = 0
  BY DEF IInv, Lifecycle, Account, InitSend
<1>3. Types'
  <2>1. apply_unit' \in 0 .. MP3_DECODER_BUFFER_SIZE \div Unit /\ apply_unit' \in Nat
    BY <1>1 DEF InitSend
  <2>2. space' \in Nat /\ pc' = "init_account"
    BY <2>1, <1>2 DEF InitSend
  <2>. QED BY <2>1, <2>2 DEF IInv, Types, InitSend, ring, demand, codec, sbc, peer
<1>4. Lifecycle' /\ Start'
  BY <1>2 DEF IInv, Lifecycle, Start, Busy, InitSend, demand, sbc, peer
<1>5. apply_unit' * Unit <= MP3_DECODER_BUFFER_SIZE - Unit
  BY <1>1, SizeAssumption DEF InitSend
<1>6. Owed' = apply_unit' * Unit /\ Asked' = Owed'
  BY <1>1, <1>2, SizeAssumption DEF Owed, Asked, InitSend, peer
<1>7. RingNeverOverflows'
  BY <1>1, <1>2, <1>5, <1>6, SizeAssumption DEF IInv, RingNeverOverflows, Used, InitSend, ring
<1>8. Account'
  BY <1>1, <1>6, SizeAssumption DEF Account, InitSend
<1>. QED BY <1>3, <1>4, <1>7, <1>8 DEF IInv

LEMMA InitAccountKeeps ==
  ASSUME IInv, InitAccount
  PROVE  IInv'
<1>1. Busy /\ Owed <= apply_unit * Unit /\ apply_unit = MP3_DECODER_BUFFER_SIZE \div Unit - 1
  BY DEF IInv, Lifecycle, Account, InitAccount
<1>2. /\ MP3_DECODER_BUFFER_SIZE \div Unit \in Nat
      /\ (MP3_DECODER_BUFFER_SIZE \div Unit) * Unit <= MP3_DECODER_BUFFER_SIZE
      /\ MP3_DECODER_BUFFER_SIZE \div Unit >= 1
  BY WholeUnits, SizeAssumption
<1>3. apply_unit * Unit \in 0 .. MP3_DECODER_BUFFER_SIZE
  BY <1>1, <1>2, OwedIsNat, SizeAssumption DEF IInv
<1>4. Types'
  BY <1>3 DEF IInv, Types, InitAccount, ring, codec, sbc, peer
<1>5. Lifecycle' /\ Start'
  BY <1>1 DEF IInv, Lifecycle, Start, Busy, InitAccount, sbc, peer
<1>6. Owed' = Owed /\ Asked' = Owed /\ Asked = Owed
  BY OwedIsNat DEF IInv, Owed, Asked, InitAccount, peer
<1>7. RingNeverOverflows' /\ Account'
  BY <1>1, <1>6 DEF IInv, RingNeverOverflows, Used, Account, InitAccount, ring
<1>. QED BY <1>4, <1>5, <1>7 DEF IInv

LEMMA DecodeTooEarlyKeeps ==
  ASSUME IInv, DecodeTooEarly
  PROVE  IInv'
<1>1. /\ Ordered(task_list')
      /\ \A x : Has(task_list, x) <=> x = "MP3_DECODER_DO_DECODE" \/ Has(task_list', x)
  BY Taking DEF IInv, Lifecycle, DecodeTooEarly
<1>2. ~Busy
  <2>1. Has(task_list, "MP3_DECODER_DO_DECODE")
    BY <1>1
  <2>2. ~(total_input >= MP3_DECODER_BUFFERING_LIMIT)
    BY ThresholdAssumption, SizeAssumption DEF IInv, Types, DecodeTooEarly
  <2>. QED BY <2>1, <2>2 DEF IInv, Start, DecodeTooEarly
<1>3. Types' /\ Lifecycle' /\ Start'
  BY <1>1, <1>2 DEF IInv, Types, Lifecycle, Start, Busy, States, DecodeTooEarly,
                    ring, demand, codec, sbc, peer
<1>4. Owed' = Owed /\ Asked' = Asked
  BY DEF Owed, Asked, DecodeTooEarly, peer
<1>5. RingNeverOverflows' /\ Account'
  BY <1>1, <1>2, <1>4
  DEF IInv, RingNeverOverflows, Used, Account, Busy, Handles, DecodeTooEarly, ring, demand, peer
<1>. QED BY <1>3, <1>5 DEF IInv

LEMMA DecodeFirstKeeps ==
  ASSUME IInv, DecodeFirst
  PROVE  IInv'
<1>1. /\ Ordered(task_list')
      /\ \A x : Has(task_list, x) <=> x = "MP3_DECODER_DO_DECODE" \/ Has(task_list', x)
  BY Taking DEF IInv, Lifecycle, DecodeFirst
<1>2. Busy /\ pc = "idle"
  BY ThresholdAssumption DEF IInv, Types, Lifecycle, Handles, DecodeFirst
<1>3. Types'
  BY SizeAssumption DEF IInv, Types, States, DecodeFirst, ring, demand, sbc, peer
<1>4. Lifecycle' /\ Start'
  BY <1>1, <1>2 DEF IInv, Lifecycle, Start, Busy, DecodeFirst, demand, sbc, peer
<1>5. Owed' = Owed /\ Asked' = Asked
  BY <1>2 DEF Owed, Asked, DecodeFirst, peer
<1>6. RingNeverOverflows' /\ Account'
  BY <1>1, <1>2, <1>5 DEF IInv, RingNeverOverflows, Used, Account, Busy, DecodeFirst, ring, demand, peer
<1>. QED BY <1>3, <1>4, <1>6 DEF IInv

LEMMA DecodeNextKeeps ==
  ASSUME IInv, DecodeNext
  PROVE  IInv'
<1>1. /\ Ordered(task_list')
      /\ \A x : Has(task_list, x) <=> x = "MP3_DECODER_DO_DECODE" \/ Has(task_list', x)
  BY Taking DEF IInv, Lifecycle, DecodeNext
<1>2. Busy /\ pc = "idle"
  BY DEF IInv, Lifecycle, Handles, DecodeNext
<1>3. Types'
  BY DEF IInv, Types, DecodeNext, ring, demand, codec, sbc, peer
<1>4. Lifecycle' /\ Start'
  BY <1>1, <1>2 DEF IInv, Lifecycle, Start, Busy, DecodeNext, demand, sbc, peer
<1>5. Owed' = Owed /\ Asked' = Asked
  BY <1>2 DEF Owed, Asked, DecodeNext, peer
<1>6. RingNeverOverflows' /\ Account'
  BY <1>1, <1>2, <1>5 DEF IInv, RingNeverOverflows, Used, Account, Busy, DecodeNext, ring, demand, peer
<1>. QED BY <1>3, <1>4, <1>6 DEF IInv

(* What is read from the ring is no more than it holds. *)
LEMMA FetchKeeps ==
  ASSUME IInv, Fetch
  PROVE  IInv'
<1> DEFINE kept == i_buff_size - i_bytes_consumed
           read == Lesser(Used, ui_inp_size - kept)
<1>1. Busy /\ decoder_state \in {"INITIATING", "DECODING"}
  BY DEF IInv, Lifecycle, Start, Fetch
<1>2. stored = Used /\ Used \in Nat /\ Used <= MP3_DECODER_BUFFER_SIZE - Unit
  BY OwedIsNat, SizeAssumption DEF IInv, Types, RingNeverOverflows
<1>3. kept \in 0 .. ui_inp_size /\ read \in 0 .. Used /\ kept + read \in 0 .. ui_inp_size
  BY <1>2, SizeAssumption DEF IInv, Types, Lesser
<1>4. /\ output_index' = Advance(output_index, read)
      /\ stored' = stored - read
      /\ i_buff_size' = kept + read /\ i_bytes_consumed' = 0
      /\ pc' \in {"idle", "execute"} /\ (pc' = "idle" => decoder_state = "DECODING")
  <2> HIDE DEF kept
  <2>1. read <= stored
    BY <1>2, <1>3
  <2>. QED BY <2>1 DEF Fetch, kept
<1> HIDE DEF kept, read
<1>5. output_index' = IF output_index + read < MP3_DECODER_BUFFER_SIZE THEN output_index + read
                      ELSE output_index + read - MP3_DECODER_BUFFER_SIZE
  <2>1. read \in 0 .. MP3_DECODER_BUFFER_SIZE - 1
    BY <1>2, <1>3, SizeAssumption
  <2>2. MP3_DECODER_BUFFER_SIZE \in Nat \ {0} /\ output_index \in 0 .. MP3_DECODER_BUFFER_SIZE - 1
    BY SizeAssumption DEF IInv, Types
  <2>. QED BY <1>4, <2>1, <2>2, ModuloOnce DEF Advance
<1>6. output_index' \in 0 .. MP3_DECODER_BUFFER_SIZE - 1
  BY <1>2, <1>3, <1>5, SizeAssumption DEF IInv, Types
<1>7. Used' = Used - read
  <2>1. input_index' = input_index
    BY DEF Fetch
  <2>. QED BY <1>2, <1>3, <1>5, <2>1, SizeAssumption DEF IInv, Types, Used
<1>8. stored' = Used' /\ stored' \in Nat /\ stored' <= stored
  BY <1>2, <1>3, <1>4, <1>7
<1>9. Types'
  <2>1. i_buff_size' \in 0 .. ui_inp_size /\ i_bytes_consumed' \in 0 .. i_buff_size'
    BY <1>3, <1>4, SizeAssumption
  <2>. QED BY <1>4, <1>6, <1>8, <2>1 DEF IInv, Types, Fetch, demand, sbc, peer
<1>10. Lifecycle' /\ Start'
  BY <1>1, <1>4 DEF IInv, Lifecycle, Start, Busy, Fetch, demand, sbc, peer
<1>11. Asked' = Asked /\ Asked \in Nat /\ Owed' = Owed
  BY <1>4, OwedIsNat DEF IInv, Asked, Owed, Fetch, peer
<1>12. RingNeverOverflows' /\ Account'
  <2>1. stored' + Asked <= MP3_DECODER_BUFFER_SIZE - Unit
    <3>1. stored \in Nat /\ stored + Asked <= MP3_DECODER_BUFFER_SIZE - Unit
      BY DEF IInv, Types, RingNeverOverflows
    <3>2. MP3_DECODER_BUFFER_SIZE - Unit \in Nat
      BY SizeAssumption
    <3>3. Asked \in Nat /\ stored' \in Nat /\ stored' <= stored
      BY <1>8, <1>11
    <3>. QED BY <3>1, <3>2, <3>3, LessIsLess
  <2>. QED BY <1>1, <1>4, <1>8, <1>11, <2>1
           DEF IInv, RingNeverOverflows, Account, Busy, Fetch, demand, peer
<1>. QED BY <1>9, <1>10, <1>12 DEF IInv

(* Whatever the library consumes, ring and account stay as they are. *)
LEMMA ExecuteKeeps ==
  ASSUME IInv, ExecuteStart \/ ExecuteDecode
  PROVE  IInv'
<1>1. PICK n \in Consumption : Consume(n)
  BY DEF ExecuteStart, ExecuteDecode
<1>2. n \in 0 .. i_buff_size /\ pc = "execute" /\ pc' = "request"
  BY <1>1, SizeAssumption DEF IInv, Types, Consumption, Consume, ExecuteStart, ExecuteDecode
<1>3. Busy /\ decoder_state \in {"INITIATING", "DECODING"}
  BY <1>2 DEF IInv, Lifecycle, Start
<1>4. ui_init_done' \in BOOLEAN /\ sbc_encoder_ready' \in BOOLEAN /\ frame_count' \in Nat
  <2>1. ui_init_done \in BOOLEAN /\ sbc_encoder_ready \in BOOLEAN /\ frame_count \in Nat
    BY DEF IInv, Types
  <2>2. CASE ExecuteStart
    <3>1. \/ ui_init_done' = TRUE /\ sbc_encoder_ready' = TRUE /\ frame_count' = 0
          \/ ui_init_done' = FALSE /\ sbc_encoder_ready' = sbc_encoder_ready /\ frame_count' = frame_count
      BY <2>2 DEF ExecuteStart, sbc
    <3>2. frame_count' \in Nat
      BY <2>1, <3>1
    <3>. QED BY <2>1, <3>1, <3>2, Zenon
  <2>3. CASE ExecuteDecode
    <3>1. frame_count' \in Nat
      BY <2>1, <2>3, SizeAssumption DEF ExecuteDecode
    <3>. QED BY <2>1, <2>3, <3>1 DEF ExecuteDecode
  <2>. QED BY <2>2, <2>3
<1>5. dynamic_consumed' \in 0 .. MP3_DECODER_REQUEST_DATA_THD
  BY <1>1, <1>2, SizeAssumption DEF IInv, Types, Consume, Lesser
<1>6. Types'
  BY <1>1, <1>2, <1>4, <1>5 DEF IInv, Types, Consume, ring, peer
<1>7. Lifecycle' /\ Start'
  BY <1>1, <1>2, <1>3 DEF IInv, Lifecycle, Start, Busy, Consume, peer
<1>8. Asked' = Asked /\ Owed' = Owed
  BY <1>1, <1>2 DEF Asked, Owed, Consume, peer
<1>9. RingNeverOverflows' /\ Account'
  BY <1>1, <1>2, <1>3, <1>8 DEF IInv, RingNeverOverflows, Used, Account, Busy, Consume, ring, peer
<1>. QED BY <1>6, <1>7, <1>9 DEF IInv

(* A request is made when the MCU owes nothing, for less than is free. *)
LEMMA RequestAsks ==
  ASSUME IInv, Request
  PROVE  /\ Busy /\ decoder_state \in {"INITIATING", "DECODING"} /\ pc' = "send"
         /\ apply_unit' \in 1 .. MP3_DECODER_BUFFER_SIZE \div Unit
         /\ Asked' = apply_unit' * Unit /\ Asked' \in 1 .. MP3_DECODER_BUFFER_SIZE
         /\ Asked' <= (MP3_DECODER_BUFFER_SIZE - Used) - Unit
         /\ stored = Used /\ request_data_size' = Asked' /\ ~all_request_data_received'
<1> DEFINE room == MP3_DECODER_BUFFER_SIZE - Used
<1>1. Busy /\ decoder_state \in {"INITIATING", "DECODING"}
  BY DEF IInv, Lifecycle, Start, Request
<1>2. Asked = 0 /\ Owed = 0
  BY <1>1, OwedIsNat DEF IInv, Account, Request, MayRequest
<1>3. stored = Used /\ room \in Unit .. MP3_DECODER_BUFFER_SIZE /\ room \in Nat
  BY <1>2, SizeAssumption DEF IInv, Types, RingNeverOverflows
<1>4. /\ room \div Unit \in Nat /\ room \div Unit >= 1 /\ (room \div Unit) * Unit <= room
      /\ room \div Unit <= MP3_DECODER_BUFFER_SIZE \div Unit
  <2>1. /\ room \div Unit \in Nat /\ room \div Unit >= 1 /\ (room \div Unit) * Unit <= room
    BY <1>3, WholeUnits, SizeAssumption
  <2>2. (room \div Unit) * Unit <= MP3_DECODER_BUFFER_SIZE
    BY <1>3, <2>1, SizeAssumption
  <2>. QED BY <2>1, <2>2, WholeUnits, SizeAssumption
<1>5. apply_unit' = room \div Unit - 1 /\ apply_unit' # 0
  BY DEF Request, FreeUnits
<1>6. /\ MP3_DECODER_BUFFER_SIZE \div Unit \in Nat /\ apply_unit' \in Nat /\ apply_unit' >= 1
      /\ apply_unit' <= MP3_DECODER_BUFFER_SIZE \div Unit
  BY <1>4, <1>5, WholeUnits, SizeAssumption
<1>7. apply_unit' * Unit = (room \div Unit) * Unit - Unit
  BY <1>4, <1>5, SizeAssumption
<1>8. /\ apply_unit' * Unit \in Nat /\ apply_unit' * Unit <= room - Unit
      /\ apply_unit' * Unit <= MP3_DECODER_BUFFER_SIZE
  <2>1. apply_unit' * Unit \in Nat
    BY <1>6, SizeAssumption, NatTimes
  <2>2. (room \div Unit) * Unit \in Nat
    BY <1>4, SizeAssumption
  <2> HIDE DEF room
  <2>. QED BY <2>1, <2>2, <1>3, <1>4, <1>7, SizeAssumption
<1>9. request_data_size' = apply_unit' * Unit /\ ~all_request_data_received' /\ pc' = "send"
  BY DEF Request
<1>10. Asked' = apply_unit' * Unit
  <2>1. Owed' = 0
    BY <1>2 DEF Owed, Request, peer
  <2>. QED BY <2>1, <1>8, <1>9 DEF Asked
<1>11. apply_unit' * Unit >= 1
  <2>1. Unit \in Nat /\ Unit >= 1 /\ apply_unit' \in Nat /\ apply_unit' >= 1
    BY <1>6, SizeAssumption
  <2> HIDE DEF room
  <2>. QED BY <2>1, PositiveTimes, Zenon
<1>12. Asked' \in 1 .. MP3_DECODER_BUFFER_SIZE /\ Asked' <= room - Unit
  <2> HIDE DEF room
  <2>. QED BY <1>8, <1>10, <1>11, SizeAssumption
<1>13. apply_unit' \in 1 .. MP3_DECODER_BUFFER_SIZE \div Unit
  BY <1>6
<1>. QED BY <1>1, <1>3, <1>9, <1>10, <1>12, <1>13

LEMMA RequestKeeps ==
  ASSUME IInv, Request
  PROVE  IInv'
<1>1. Busy /\ decoder_state \in {"INITIATING", "DECODING"} /\ pc' = "send"
  BY RequestAsks
<1>2. /\ apply_unit' \in 0 .. MP3_DECODER_BUFFER_SIZE \div Unit
      /\ request_data_size' \in 0 .. MP3_DECODER_BUFFER_SIZE
      /\ Asked' \in Nat /\ request_data_size' = Asked' /\ ~all_request_data_received'
  BY RequestAsks, SizeAssumption, WholeUnits
<1>3. Types'
  <2>1. dynamic_consumed' \in 0 .. MP3_DECODER_REQUEST_DATA_THD
    BY SizeAssumption DEF Request
  <2>2. all_request_data_received' \in BOOLEAN
    BY DEF Request
  <2>. QED BY <1>1, <1>2, <2>1, <2>2 DEF IInv, Types, Request, ring, codec, sbc, peer
<1>4. Lifecycle' /\ Start'
  BY <1>1 DEF IInv, Lifecycle, Start, Busy, Request, sbc, peer
<1>5. RingNeverOverflows'
  <2>1. Used' = Used /\ stored' = stored
    BY DEF Used, Request, ring
  <2>2. stored + Asked' <= MP3_DECODER_BUFFER_SIZE - Unit
    <3>1. stored = Used /\ Asked' <= (MP3_DECODER_BUFFER_SIZE - Used) - Unit
      BY RequestAsks
    <3>2. stored \in Nat /\ MP3_DECODER_BUFFER_SIZE \in Nat /\ Unit \in Nat
      BY SizeAssumption DEF IInv, Types
    <3>3. \A a, s, n, u \in Nat : a <= (n - s) - u => s + a <= n - u
      OBVIOUS
    <3>. QED BY <1>2, <3>1, <3>2, <3>3
  <2>. QED BY <2>1, <2>2, RequestAsks DEF RingNeverOverflows
<1>6. Account'
  BY <1>1, <1>2 DEF Account
<1>. QED BY <1>3, <1>4, <1>5, <1>6 DEF IInv

(* HandlerEnd: a start that failed is posted again. *)
LEMMA HandlerEndKeeps ==
  ASSUME IInv, HandlerEnd, pc \in {"request", "send"},
         UNCHANGED <<buffer, total_input, all_request_data_received, sbc, mcu, ui_init_done>>,
         credit' = credit, space' >= 0, Has(task_list, "MP3_DECODER_INIT") => space' = space
  PROVE  /\ Lifecycle' /\ Start' /\ Busy' /\ Busy
         /\ pc' \in {"idle", "fetch"} /\ decoder_state' \in States
<1>1. Busy /\ decoder_state \in {"INITIATING", "DECODING"}
  BY DEF IInv, Lifecycle, Start
<1>2. CASE task_list' = Posted("MP3_DECODER_DO_DECODE") /\ pc' = "idle" /\ UNCHANGED decoder_state
  <2>1. Ordered(task_list') /\ \A x : Has(task_list', x) <=> x = "MP3_DECODER_DO_DECODE" \/ Has(task_list, x)
    BY <1>1, <1>2, Posting DEF IInv, Lifecycle, Busy, Tasks
  <2>. QED BY <1>1, <1>2, <2>1 DEF IInv, Lifecycle, Start, Busy, States, sbc
<1>3. CASE UNCHANGED task_list /\ \/ pc' = "idle" /\ decoder_state' = "DECODING"
                                  \/ pc' = "fetch" /\ decoder_state' = "DECODING"
  BY <1>1, <1>3 DEF IInv, Lifecycle, Start, Busy, States, sbc
<1>. QED BY <1>2, <1>3 DEF HandlerEnd

LEMMA RequestSendKeeps ==
  ASSUME IInv, RequestSend
  PROVE  IInv' /\ Asked' = Asked /\ pc' \in {"idle", "fetch"}
         /\ ~Has(task_list, "MP3_DECODER_INIT")
<1>1. /\ space' = space + apply_unit /\ pc = "send" /\ HandlerEnd
      /\ UNCHANGED <<buffer, ring, total_input, demand, codec, apply_unit, sbc, peer>>
  BY DEF RequestSend
<1>2. space \in Nat /\ apply_unit \in Nat /\ Unit \in Nat
  BY SizeAssumption, WholeUnits DEF IInv, Types
<1>3. ~Has(task_list, "MP3_DECODER_INIT")
  BY <1>1 DEF IInv, Lifecycle, Busy
<1>4. /\ Lifecycle' /\ Start' /\ Busy' /\ Busy
      /\ pc' \in {"idle", "fetch"} /\ decoder_state' \in States
  BY <1>1, <1>2, <1>3, HandlerEndKeeps DEF demand, codec, peer
<1>5. Types'
  BY <1>1, <1>2, <1>4 DEF IInv, Types, ring, demand, codec, sbc, peer
<1>6. Asked' = Asked
  <2>1. (space + apply_unit) * Unit = space * Unit + apply_unit * Unit
    BY <1>2
  <2>2. Owed' = credit + (space * Unit + apply_unit * Unit)
    BY <1>1, <2>1 DEF Owed, peer
  <2>3. credit \in Nat /\ space * Unit \in Nat /\ apply_unit * Unit \in Nat
    BY OwedIsNat DEF IInv, Types
  <2>. QED BY <1>1, <1>4, <2>2, <2>3 DEF Asked, Owed
<1>7. RingNeverOverflows' /\ Account'
  BY <1>1, <1>4, <1>6 DEF IInv, RingNeverOverflows, Used, Account, ring, demand
<1>8. IInv'
  BY <1>4, <1>5, <1>7 DEF IInv
<1>. QED BY <1>3, <1>4, <1>6, <1>8

LEMMA NoRequestKeeps ==
  ASSUME IInv, NoRequest
  PROVE  IInv'
<1>1. /\ pc = "request" /\ HandlerEnd
      /\ UNCHANGED <<buffer, ring, total_input, demand, codec, apply_unit, sbc, space, peer>>
  BY DEF NoRequest
<1>2. space \in Nat
  BY DEF IInv, Types
<1>3. /\ Lifecycle' /\ Start' /\ Busy' /\ Busy
      /\ pc' \in {"idle", "fetch"} /\ decoder_state' \in States
  BY <1>1, <1>2, HandlerEndKeeps DEF demand, codec, peer
<1>4. Types'
  BY <1>1, <1>3 DEF IInv, Types, ring, demand, codec, sbc, peer
<1>5. Asked' = Asked
  BY <1>1, <1>3 DEF Asked, Owed, peer
<1>6. RingNeverOverflows' /\ Account'
  BY <1>1, <1>3, <1>5 DEF IInv, RingNeverOverflows, Used, Account, ring, demand
<1>. QED BY <1>3, <1>4, <1>6 DEF IInv

(* A request for SBC frames is answered or not ... *)
LEMMA NeedMoreKeeps ==
  ASSUME IInv, NEW count \in Nat, NeedMore(count)
  PROVE  IInv'
<1>1. /\ Handles("MCU_NEED_MORE_SBC_DATA") /\ sbc_encoder_ready /\ pc = "idle"
      /\ task_list' = Tail(task_list) /\ frame_count' = count /\ pc' = "answered"
      /\ UNCHANGED <<buffer, ring, total_input, demand, decoder_state, codec,
                     apply_unit, sbc_encoder_ready, space, peer>>
  BY DEF NeedMore, Handles
<1>2. Busy /\ decoder_state \in {"INITIATING", "DECODING"}
  BY <1>1 DEF IInv, Types, States, Lifecycle, Start
<1>3. /\ Ordered(task_list')
      /\ \A x : Has(task_list, x) <=> x = "MCU_NEED_MORE_SBC_DATA" \/ Has(task_list', x)
  BY <1>1, Taking DEF IInv, Lifecycle
<1>4. Types'
  BY <1>1 DEF IInv, Types, ring, demand, codec, peer
<1>5. Lifecycle' /\ Start'
  BY <1>1, <1>2, <1>3 DEF IInv, Lifecycle, Start, Busy, demand, peer
<1>6. Asked' = Asked /\ Owed' = Owed
  BY <1>1 DEF Asked, Owed, peer
<1>7. RingNeverOverflows' /\ Account'
  BY <1>1, <1>2, <1>6 DEF IInv, RingNeverOverflows, Used, Account, ring, demand, peer
<1>. QED BY <1>4, <1>5, <1>7 DEF IInv

(* ... and may then have a decoding posted. *)
LEMMA NeedMoreEndsKeeps ==
  ASSUME IInv, NeedMoreEnds
  PROVE  IInv'
<1>1. /\ pc = "answered" /\ pc' = "idle"
      /\ task_list' = task_list \/ (sbc_encoder_ready /\ task_list' = Posted("MP3_DECODER_DO_DECODE"))
      /\ UNCHANGED <<buffer, ring, total_input, demand, decoder_state, codec,
                     apply_unit, sbc, space, peer>>
  BY DEF NeedMoreEnds
<1>2. Busy
  BY <1>1 DEF IInv, Lifecycle
<1>3. /\ Ordered(task_list')
      /\ \A x : Has(task_list, x) => Has(task_list', x)
      /\ \A x : Has(task_list', x) => Has(task_list, x) \/ (x = "MP3_DECODER_DO_DECODE" /\ sbc_encoder_ready)
  <2>1. CASE task_list' = task_list
    BY <2>1 DEF IInv, Lifecycle
  <2>2. CASE sbc_encoder_ready /\ task_list' = Posted("MP3_DECODER_DO_DECODE")
    BY <1>2, <2>2, Posting DEF IInv, Lifecycle, Busy, Tasks
  <2>. QED BY <1>1, <2>1, <2>2
<1>4. Types'
  BY <1>1 DEF IInv, Types, ring, demand, codec, sbc, peer
<1>5. Lifecycle' /\ Start'
  BY <1>1, <1>2, <1>3 DEF IInv, Lifecycle, Start, Busy, demand, sbc, peer
<1>6. Asked' = Asked /\ Owed' = Owed
  BY <1>1 DEF Asked, Owed, peer
<1>7. RingNeverOverflows' /\ Account'
  BY <1>1, <1>2, <1>6 DEF IInv, RingNeverOverflows, Used, Account, ring, demand, peer
<1>. QED BY <1>4, <1>5, <1>7 DEF IInv

LEMMA NeedMoreNotReadyKeeps ==
  ASSUME IInv, NeedMoreNotReady
  PROVE  IInv'
<1>1. /\ Ordered(task_list')
      /\ \A x : Has(task_list, x) <=> x = "MCU_NEED_MORE_SBC_DATA" \/ Has(task_list', x)
      /\ pc = "idle"
  BY Taking DEF IInv, Lifecycle, NeedMoreNotReady, Handles
<1>2. UNCHANGED <<pc, buffer, ring, total_input, demand, decoder_state, codec,
                  apply_unit, sbc, space, peer>>
  BY DEF NeedMoreNotReady
<1>3. Types'
  BY <1>2 DEF IInv, Types, ring, demand, codec, sbc, peer
<1>4. Lifecycle' /\ Start'
  BY <1>1, <1>2 DEF IInv, Lifecycle, Start, Busy, demand, sbc, peer
<1>5. Asked' = Asked /\ Owed' = Owed
  BY <1>2 DEF Asked, Owed, peer
<1>6. RingNeverOverflows' /\ Account'
  BY <1>1, <1>2, <1>5 DEF IInv, RingNeverOverflows, Used, Account, Busy, ring, demand, peer
<1>. QED BY <1>3, <1>4, <1>6 DEF IInv

LEMMA PrepareForNextKeeps ==
  ASSUME IInv, PrepareForNext
  PROVE  IInv'
<1>1. /\ Ordered(task_list')
      /\ \A x : Has(task_list, x) <=> x = "DECODER_PREPARE_FOR_NEXT" \/ Has(task_list', x)
      /\ ~Has(task_list', "DECODER_PREPARE_FOR_NEXT") /\ ~Has(task_list', "MP3_DECODER_INIT")
      /\ pc = "idle"
  BY Taking DEF IInv, Lifecycle, PrepareForNext, Handles
<1>2. mcu = "stopping" /\ credit = 0 /\ mcu' = "ready"
  BY <1>1 DEF IInv, Lifecycle, PrepareForNext
<1>3. Types'
  <2>1. /\ 0 \in 0 .. MP3_DECODER_BUFFERING_LIMIT /\ 0 \in 0 .. MP3_DECODER_REQUEST_DATA_THD /\ 0 \in Nat
    BY SizeAssumption, ThresholdAssumption
  <2>. QED BY <1>2, <2>1 DEF IInv, Types, States, PrepareForNext, ring, codec
<1>4. Lifecycle' /\ Start'
  BY <1>1, <1>2 DEF IInv, Lifecycle, Start, Busy, PrepareForNext
<1>5. Asked' = Asked /\ Owed' = Owed
  BY DEF Asked, Owed, PrepareForNext
<1>6. RingNeverOverflows' /\ Account'
  BY <1>1, <1>2, <1>5 DEF IInv, RingNeverOverflows, Used, Account, Busy, PrepareForNext, ring
<1>. QED BY <1>3, <1>4, <1>6 DEF IInv

LEMMA McuStartKeeps ==
  ASSUME IInv, McuStart
  PROVE  IInv'
<1>1. ~Busy /\ ~Has(task_list, "MP3_DECODER_INIT") /\ ~Has(task_list, "DECODER_PREPARE_FOR_NEXT")
      /\ space = 0 /\ credit = 0 /\ pc = "idle" /\ mcu' = "playing"
  BY DEF IInv, Lifecycle, Busy, McuStart
<1>2. Ordered(task_list') /\ \A x : Has(task_list', x) <=> x = "MP3_DECODER_INIT" \/ Has(task_list, x)
  BY <1>1, Posting DEF IInv, Lifecycle, McuStart, Tasks
<1>3. Types'
  BY <1>1, ThresholdAssumption DEF IInv, Types, McuStart, ring, demand, codec, sbc
<1>4. Lifecycle' /\ Start'
  BY <1>1, <1>2 DEF IInv, Lifecycle, Start, Busy, McuStart, demand, sbc
<1>5. Asked' = Asked /\ Owed' = Owed
  BY <1>1 DEF Asked, Owed, McuStart
<1>6. RingNeverOverflows' /\ Account'
  BY <1>1, <1>2, <1>5 DEF IInv, RingNeverOverflows, Used, Account, Busy, McuStart, ring
<1>. QED BY <1>3, <1>4, <1>6 DEF IInv

(* Reading a request moves what is asked for, or drops it. *)
LEMMA McuSpaceKeeps ==
  ASSUME IInv, McuSpace
  PROVE  IInv'
<1>1. /\ space' = 0 /\ space > 0
      /\ UNCHANGED <<task_list, pc, buffer, ring, total_input, demand, decoder_state,
                     codec, apply_unit, sbc, mcu, left>>
      /\ credit' = IF mcu = "playing" THEN credit + space * Unit ELSE 0
  BY DEF McuSpace
<1>2. credit \in Nat /\ space * Unit \in Nat /\ apply_unit * Unit \in Nat /\ Unit \in Nat
  BY OwedIsNat, SizeAssumption DEF IInv, Types
<1>3. credit' \in Nat /\ Owed' = credit' /\ Owed' <= Owed /\ (mcu = "playing" => Owed' = Owed)
  BY <1>1, <1>2 DEF Owed
<1>4. Asked' \in Nat /\ Asked' <= Asked /\ Asked \in Nat /\ Owed \in Nat
  BY <1>1, <1>2, <1>3, OwedIsNat DEF IInv, Asked
<1>5. ~Has(task_list, "MP3_DECODER_INIT") /\ pc # "init_send"
  BY <1>1 DEF IInv, Lifecycle, Account
<1>6. Types'
  BY <1>1, <1>3 DEF IInv, Types, ring, demand, codec, sbc
<1>7. Lifecycle' /\ Start'
  BY <1>1, <1>5 DEF IInv, Lifecycle, Start, Busy, demand, sbc
<1>8. RingNeverOverflows'
  <2>1. stored' + Asked' <= MP3_DECODER_BUFFER_SIZE - Unit
    <3>1. stored \in Nat /\ stored + Asked <= MP3_DECODER_BUFFER_SIZE - Unit /\ stored' = stored
      BY <1>1 DEF IInv, Types, RingNeverOverflows, ring
    <3>2. MP3_DECODER_BUFFER_SIZE - Unit \in Nat
      BY SizeAssumption
    <3>. QED BY <1>4, <3>1, <3>2, LessIsLess
  <2>. QED BY <1>1, <2>1 DEF IInv, RingNeverOverflows, Used, ring
<1>9. Account'
  <2>1. pc = "init_account" => Owed' <= apply_unit * Unit
    BY <1>2, <1>3, <1>4 DEF IInv, Account
  <2>2. Busy /\ pc \notin {"init_send", "init_account"} =>
          request_data_size >= Asked' /\ (all_request_data_received => Asked' = 0)
    BY <1>4 DEF IInv, Types, Account
  <2>. QED BY <1>1, <1>5, <2>1, <2>2 DEF IInv, Account, Busy, demand
<1>. QED BY <1>6, <1>7, <1>8, <1>9 DEF IInv

(* A frame moves bytes from what is owed to what is stored. *)
LEMMA McuFrameKeeps ==
  ASSUME IInv, NEW length \in 1 .. MaxFrame, McuFrame(length)
  PROVE  IInv'
<1>1. /\ mcu = "playing" /\ length <= credit /\ length <= left /\ mcu' = "playing"
      /\ credit' = credit - length /\ left' = left - length
      /\ request_data_size' = Outstanding(length)
      /\ all_request_data_received' = (all_request_data_received \/ request_data_size' = 0)
      /\ total_input' = Lesser(total_input + length, MP3_DECODER_BUFFERING_LIMIT)
      /\ input_index' = Advance(input_index, length)
      /\ stored' = stored + length
      /\ UNCHANGED <<pc, buffer, output_index, dynamic_consumed, codec, apply_unit, sbc, space>>
  BY DEF McuFrame, mp3_decoder_recv_frame
<1>2. length \in Nat /\ length >= 1 /\ credit \in Nat /\ credit # 0
  BY <1>1, SizeAssumption DEF IInv, Types
<1>3. Busy /\ pc # "init_send" /\ ~Has(task_list, "MP3_DECODER_INIT")
  BY <1>1, <1>2 DEF IInv, Lifecycle, Account, Busy
<1>4. /\ credit' \in Nat /\ Owed' = Owed - length /\ Asked' = Asked - length
      /\ Owed \in Nat /\ Asked \in Nat /\ length <= Owed /\ length <= Asked
  BY <1>1, <1>2, OwedIsNat DEF IInv, Owed, Asked
<1>5. /\ stored = Used /\ stored \in Nat /\ stored + Asked <= MP3_DECODER_BUFFER_SIZE - Unit
      /\ length \in 0 .. MP3_DECODER_BUFFER_SIZE - 1
      /\ stored + length < MP3_DECODER_BUFFER_SIZE
  BY <1>2, <1>4, SizeAssumption DEF IInv, Types, RingNeverOverflows
<1>6. input_index' = IF input_index + length < MP3_DECODER_BUFFER_SIZE THEN input_index + length
                     ELSE input_index + length - MP3_DECODER_BUFFER_SIZE
  <2>1. MP3_DECODER_BUFFER_SIZE \in Nat \ {0} /\ input_index \in 0 .. MP3_DECODER_BUFFER_SIZE - 1
    BY SizeAssumption DEF IInv, Types
  <2>. QED BY <1>1, <1>5, <2>1, ModuloOnce DEF Advance
<1>7. input_index' \in 0 .. MP3_DECODER_BUFFER_SIZE - 1
  BY <1>5, <1>6, SizeAssumption DEF IInv, Types
<1>8. Used' = Used + length
  BY <1>1, <1>5, <1>6, SizeAssumption DEF IInv, Types, Used
<1>9. RingNeverOverflows'
  <2>1. (stored + length) + (Asked - length) = stored + Asked
    BY <1>2, <1>4, <1>5
  <2>. QED BY <1>1, <1>4, <1>5, <1>8, <2>1 DEF RingNeverOverflows
<1>10. request_data_size' \in 0 .. MP3_DECODER_BUFFER_SIZE
  BY <1>1, <1>2, SizeAssumption DEF IInv, Types, Outstanding
<1>11. total_input' \in 0 .. MP3_DECODER_BUFFERING_LIMIT
  BY <1>1, <1>2, ThresholdAssumption, SizeAssumption DEF IInv, Types, Lesser
<1>12. /\ Ordered(task_list')
       /\ \A x : Has(task_list', x) <=> Has(task_list, x) \/ (x = "MP3_DECODER_DO_DECODE" /\ Kick(total_input'))
       /\ Kick(total_input') => decoder_state' = "BUFFERING"
       /\ ~Kick(total_input') => decoder_state' = decoder_state
  <2>1. CASE Kick(total_input')
    <3>1. task_list' = Posted("MP3_DECODER_DO_DECODE") /\ decoder_state' = "BUFFERING"
      BY <2>1 DEF McuFrame, mp3_decoder_recv_frame
    <3>. QED BY <1>3, <2>1, <3>1, Posting DEF IInv, Lifecycle, Tasks
  <2>2. CASE ~Kick(total_input')
    BY <2>2 DEF IInv, Lifecycle, McuFrame, mp3_decoder_recv_frame
  <2>. QED BY <2>1, <2>2
<1>13. Types'
  <2>1. left' \in 0 .. SongLength
    BY <1>1, <1>2, ThresholdAssumption DEF IInv, Types
  <2>2. all_request_data_received' \in BOOLEAN
    BY <1>1
  <2>3. decoder_state' \in States
    BY <1>12 DEF IInv, Types, States
  <2>4. stored' \in Nat
    BY <1>1, <1>2, <1>5
  <2>. QED BY <1>1, <1>4, <1>7, <1>10, <1>11, <2>1, <2>2, <2>3, <2>4 DEF IInv, Types, codec, sbc
<1>14. Lifecycle'
  BY <1>1, <1>3, <1>12 DEF IInv, Lifecycle, Busy, sbc
<1>15. Start'
  <2>1. /\ decoder_state = "IDLE" /\ ~Kick(total_input') => total_input' < MP3_DECODER_BUFFERING_LIMIT
        /\ Kick(total_input') => decoder_state = "IDLE" /\ total_input' >= MP3_DECODER_BUFFERING_LIMIT
        /\ total_input >= MP3_DECODER_BUFFERING_LIMIT => total_input' >= MP3_DECODER_BUFFERING_LIMIT
    BY <1>1, <1>2, <1>11, ThresholdAssumption, SizeAssumption DEF IInv, Types, Kick, Lesser
  <2>. QED BY <1>1, <1>3, <1>12, <2>1 DEF IInv, Start, Busy, sbc
<1>16. Account'
  <2>1. pc = "init_account" => Owed' <= apply_unit * Unit
    BY <1>2, <1>4, OwedIsNat DEF IInv, Account
  <2>2. ASSUME pc # "init_account" PROVE request_data_size' >= Asked' /\ (all_request_data_received' => Asked' = 0)
    <3>1. request_data_size >= Asked /\ (all_request_data_received => Asked = 0)
      BY <1>3, <2>2 DEF IInv, Account
    <3>2. request_data_size' = request_data_size - length
      BY <1>1, <1>4, <3>1, SizeAssumption DEF IInv, Types, Outstanding
    <3>3. request_data_size' >= Asked'
      BY <1>2, <1>4, <3>1, <3>2, SizeAssumption DEF IInv, Types
    <3>4. ~all_request_data_received /\ Asked' \in Nat
      BY <1>2, <1>4, <3>1
    <3>5. request_data_size' = 0 => Asked' = 0
      BY <3>3, <3>4
    <3>. QED BY <1>1, <3>3, <3>4, <3>5
  <2>. QED BY <1>1, <1>3, <2>1, <2>2 DEF IInv, Account, Busy
<1>. QED BY <1>9, <1>13, <1>14, <1>15, <1>16 DEF IInv

(* The MCU's messages to the main loop about the song that is on. *)
LEMMA McuPostsKeep ==
  ASSUME IInv, McuNeedMore \/ McuStop
  PROVE  IInv'
<1>1. /\ mcu = "playing" /\ mcu' \in {"playing", "stopping"} /\ credit' \in {0, credit} /\ left' \in {0, left}
      /\ (mcu' = "stopping" => credit' = 0)
      /\ UNCHANGED <<pc, buffer, ring, total_input, demand, decoder_state, codec,
                     apply_unit, sbc, space>>
  BY DEF McuNeedMore, McuStop, peer
<1>2. /\ Ordered(task_list')
      /\ \A x : Has(task_list', x) => \/ Has(task_list, x) \/ x = "MCU_NEED_MORE_SBC_DATA"
                                      \/ x = "DECODER_PREPARE_FOR_NEXT" /\ mcu' = "stopping"
      /\ \A x : Has(task_list, x) => Has(task_list', x)
  <2>1. CASE McuNeedMore
    BY <2>1, Posting DEF IInv, Lifecycle, McuNeedMore, Tasks
  <2>2. CASE McuStop
    <3>1. ~Has(task_list, "DECODER_PREPARE_FOR_NEXT")
      BY <1>1 DEF IInv, Lifecycle
    <3>. QED BY <2>2, <3>1, Posting DEF IInv, Lifecycle, McuStop, Tasks
  <2>. QED BY <2>1, <2>2
<1>3. credit \in Nat /\ Owed \in Nat /\ Asked \in Nat /\ space * Unit \in Nat /\ apply_unit * Unit \in Nat
  BY OwedIsNat DEF IInv, Types
<1>4. credit' \in Nat /\ Owed' \in Nat /\ Owed' <= Owed /\ Asked' \in Nat /\ Asked' <= Asked
      /\ (pc = "init_send" => credit' = 0 \/ credit' = credit)
  BY <1>1, <1>3 DEF Owed, Asked
<1>5. Types'
  BY <1>1, <1>4, ThresholdAssumption DEF IInv, Types, ring, demand, codec, sbc
<1>6. Lifecycle' /\ Start'
  BY <1>1, <1>2 DEF IInv, Lifecycle, Start, Busy, demand, sbc
<1>7. RingNeverOverflows'
  <2>1. stored \in Nat /\ stored + Asked <= MP3_DECODER_BUFFER_SIZE - Unit /\ stored' = stored
    BY <1>1 DEF IInv, Types, RingNeverOverflows, ring
  <2>2. MP3_DECODER_BUFFER_SIZE - Unit \in Nat
    BY SizeAssumption
  <2>3. stored' + Asked' <= MP3_DECODER_BUFFER_SIZE - Unit
    BY <1>3, <1>4, <2>1, <2>2, LessIsLess
  <2>. QED BY <1>1, <2>3 DEF IInv, RingNeverOverflows, Used, ring
<1>8. Account'
  <2>1. pc = "init_account" => Owed' <= apply_unit * Unit
    BY <1>3, <1>4 DEF IInv, Account
  <2>2. Busy /\ pc \notin {"init_send", "init_account"} =>
          request_data_size >= Asked' /\ (all_request_data_received => Asked' = 0)
    BY <1>3, <1>4 DEF IInv, Types, Account
  <2>3. Busy' => Busy
    BY <1>1, <1>2 DEF Busy
  <2>. QED BY <1>1, <1>4, <2>1, <2>2, <2>3 DEF IInv, Account, demand, ring
<1>. QED BY <1>5, <1>6, <1>7, <1>8 DEF IInv

LEMMA McuReadyKeeps ==
  ASSUME IInv, McuReady
  PROVE  IInv'
<1>1. mcu = "ready" /\ mcu' = "stopped"
      /\ UNCHANGED <<task_list, pc, buffer, ring, total_input, demand, decoder_state,
                     codec, apply_unit, sbc, space, credit, left>>
  BY DEF McuReady
<1>2. Types' /\ Lifecycle' /\ Start'
  BY <1>1 DEF IInv, Types, Lifecycle, Start, Busy, ring, demand, codec, sbc
<1>3. Asked' = Asked /\ Owed' = Owed
  BY <1>1 DEF Asked, Owed
<1>4. RingNeverOverflows' /\ Account'
  BY <1>1, <1>3 DEF IInv, RingNeverOverflows, Used, Account, Busy, ring, demand
<1>. QED BY <1>2, <1>4 DEF IInv

-----------------------------------------------------------------------------
LEMMA InitIsInductive == Init => IInv
<1> SUFFICES ASSUME Init PROVE IInv
  OBVIOUS
<1>1. task_list = <<>> /\ \A x : ~Has(task_list, x)
  BY DEF Init, Has
<1>2. 0 \div Unit \in Nat /\ 0 * Unit = 0
  BY SizeAssumption, WholeUnits
<1>3. Types
  <2>1. /\ 0 \in 0 .. MP3_DECODER_BUFFER_SIZE - 1 /\ 0 \in 0 .. MP3_DECODER_BUFFERING_LIMIT
        /\ 0 \in 0 .. MP3_DECODER_REQUEST_DATA_THD /\ 0 \in 0 .. MP3_DECODER_BUFFER_SIZE
        /\ 0 \in 0 .. ui_inp_size /\ 0 \in 0 .. 0 /\ 0 \in 0 .. SongLength /\ 0 \in Nat
    BY SizeAssumption, ThresholdAssumption
  <2>2. 0 \in 0 .. MP3_DECODER_BUFFER_SIZE \div Unit
    BY SizeAssumption, WholeUnits
  <2>. QED BY <2>1, <2>2 DEF Init, Types, States
<1>4. Ordered(task_list)
  BY <1>1 DEF Ordered, Tasks
<1>5. Lifecycle /\ Start
  BY <1>1, <1>4 DEF Init, Lifecycle, Start, Busy
<1>6. Asked = 0 /\ Used = 0
  BY <1>2, SizeAssumption DEF Init, Asked, Owed, Used
<1>7. RingNeverOverflows /\ Account
  BY <1>6, SizeAssumption DEF Init, RingNeverOverflows, Account, Busy
<1>. QED BY <1>3, <1>5, <1>7 DEF IInv

LEMMA StepIsInductive ==
  ASSUME IInv, [Next]_vars
  PROVE  IInv'
<1>1. CASE mp3_decoder_init
  BY <1>1, InitResetKeeps, InitSendKeeps, InitAccountKeeps DEF mp3_decoder_init
<1>2. CASE mp3_decoder_do_decoder_handler
  BY <1>2, DecodeTooEarlyKeeps, DecodeFirstKeeps, DecodeNextKeeps, FetchKeeps, ExecuteKeeps,
     RequestKeeps, RequestSendKeeps, NoRequestKeeps DEF mp3_decoder_do_decoder_handler
<1>3. CASE sbc_encoder_recv_frame_req
  <2>1. frame_count \in Nat /\ SBC_A2DP_SUB_FRAME_COUNT \in Nat
    BY SizeAssumption DEF IInv, Types
  <2>2. frame_count - Lesser(frame_count, SBC_A2DP_SUB_FRAME_COUNT) \in Nat
    BY <2>1 DEF Lesser
  <2>. QED BY <1>3, <2>1, <2>2, NeedMoreKeeps, NeedMoreEndsKeeps, NeedMoreNotReadyKeeps
           DEF sbc_encoder_recv_frame_req, NeedMoreSent, NeedMoreNoChannel
<1>4. CASE PrepareForNext
  BY <1>4, PrepareForNextKeeps
<1>5. CASE Mcu
  BY <1>5, McuStartKeeps, McuSpaceKeeps, McuFrameKeeps, McuPostsKeep, McuReadyKeeps DEF Mcu, McuSends
<1>6. CASE UNCHANGED vars
  <2>1. UNCHANGED <<task_list, pc, buffer, ring, total_input, demand, decoder_state,
                    codec, apply_unit, sbc, space, peer>>
    BY <1>6 DEF vars
  <2>2. Types' /\ Lifecycle' /\ Start'
    BY <2>1 DEF IInv, Types, Lifecycle, Start, Busy, ring, demand, codec, sbc, peer
  <2>3. Asked' = Asked /\ Owed' = Owed
    BY <2>1 DEF Asked, Owed, peer
  <2>4. RingNeverOverflows' /\ Account'
    BY <2>1, <2>3 DEF IInv, RingNeverOverflows, Used, Account, Busy, ring, demand, peer
  <2>. QED BY <2>2, <2>4 DEF IInv
<1>. QED BY <1>1, <1>2, <1>3, <1>4, <1>5, <1>6 DEF Next, MainLoop

LEMMA Inductive == SafeSpec => []IInv
<1>. QED BY InitIsInductive, StepIsInductive, PTL DEF SafeSpec

(* The ring of raw data never overflows, whatever its size, the unit of a  *)
(* request and the size of frames, and even if the MCU answers before      *)
(* mp3_decoder_init has recorded its request.                              *)
THEOREM RingIsSafe == SafeSpec => []RingNeverOverflows
<1>1. IInv => RingNeverOverflows
  BY DEF IInv
<1>. QED BY <1>1, Inductive, PTL

-----------------------------------------------------------------------------
(* The record of what is asked for.  A step that neither asks nor answers  *)
(* leaves it exact.                                                        *)
LEMMA SameAccount ==
  ASSUME Exact,
         UNCHANGED <<all_request_data_received, request_data_size, credit, space, apply_unit, mcu>>,
         Has(task_list, "MP3_DECODER_INIT") => Has(task_list', "MP3_DECODER_INIT"),
         pc = "init_account" => pc' = "init_account", pc' = "init_account" => pc = "init_account",
         pc = "init_send" => pc' = "init_send",
         (pc = "send") <=> (pc' = "send")
  PROVE  Exact'
<1>1. Asked' = Asked /\ Owed' = Owed
  BY DEF Asked, Owed
<1>2. Initialised' => Initialised
  BY DEF Initialised, Queued, Has
<1>. QED BY <1>1, <1>2 DEF Exact, AllRequestDataReceived

LEMMA McuFrameIsExact ==
  ASSUME IInv, Exact, ~EarlyAnswer, NEW length \in 1 .. MaxFrame, McuFrame(length)
  PROVE  Exact'
<1>1. /\ mcu = "playing" /\ length <= credit /\ pc # "init_account" /\ pc' = pc
      /\ credit' = credit - length
      /\ request_data_size' = Outstanding(length)
      /\ all_request_data_received' = (all_request_data_received \/ request_data_size' = 0)
      /\ UNCHANGED <<apply_unit, space>>
  BY DEF McuFrame, mp3_decoder_recv_frame
<1>2. length \in Nat /\ length >= 1 /\ credit \in Nat /\ credit # 0
  BY <1>1, SizeAssumption DEF IInv, Types
<1>3. Initialised
  BY <1>1, <1>2 DEF IInv, Lifecycle, Account, Busy, Initialised, Queued, Has
<1>4. Asked' = Asked - length /\ Asked \in Nat /\ length <= Asked
  BY <1>1, <1>2, OwedIsNat DEF IInv, Owed, Asked
<1>5. request_data_size = Asked /\ ~all_request_data_received
  BY <1>2, <1>3, <1>4 DEF Exact, AllRequestDataReceived
<1>6. request_data_size' = Asked'
  BY <1>1, <1>4, <1>5 DEF Outstanding
<1>. QED BY <1>1, <1>5, <1>6 DEF Exact, AllRequestDataReceived

LEMMA McuSpaceIsExact ==
  ASSUME IInv, Exact, McuSpace
  PROVE  Exact'
<1>1. UNCHANGED <<task_list, pc, all_request_data_received, request_data_size, apply_unit, mcu>>
  BY DEF McuSpace, demand
<1>2. CASE mcu = "playing"
  <2>1. credit' = credit + space * Unit /\ space' = 0 /\ Unit \in Nat
    BY <1>2, SizeAssumption DEF McuSpace
  <2>2. credit \in Nat /\ space * Unit \in Nat
    BY OwedIsNat DEF IInv, Types
  <2>3. Owed' = Owed
    BY <2>1, <2>2 DEF Owed
  <2>4. Asked' = Asked
    BY <1>1, <2>3 DEF Asked
  <2>. QED BY <1>1, <2>3, <2>4 DEF Exact, AllRequestDataReceived, Initialised, Queued
<1>3. CASE mcu # "playing"
  BY <1>1, <1>3 DEF Exact, AllRequestDataReceived, Initialised
<1>. QED BY <1>2, <1>3

LEMMA InitSendIsExact ==
  ASSUME IInv, InitSend
  PROVE  Exact'
<1>1. credit' = 0 /\ space' = apply_unit' /\ pc' = "init_account"
  <2>1. space = 0 /\ credit = 0
    BY DEF IInv, Account, InitSend
  <2>2. MP3_DECODER_BUFFER_SIZE \div Unit \in Nat /\ MP3_DECODER_BUFFER_SIZE \div Unit >= 1
    BY WholeUnits, SizeAssumption
  <2>. QED BY <2>1, <2>2 DEF InitSend, peer
<1>2. Owed' = apply_unit' * Unit
  <2>1. apply_unit' \in Nat
    <3>1. MP3_DECODER_BUFFER_SIZE \div Unit \in Nat /\ MP3_DECODER_BUFFER_SIZE \div Unit >= 1
      BY WholeUnits, SizeAssumption
    <3>. QED BY <3>1 DEF InitSend
  <2>2. apply_unit' * Unit \in Nat
    BY <2>1, NatTimes, SizeAssumption
  <2>. QED BY <1>1, <2>2 DEF Owed
<1>. QED BY <1>1, <1>2 DEF Exact, AllRequestDataReceived, Initialised

LEMMA InitAccountIsExact ==
  ASSUME IInv, Exact, InitAccount
  PROVE  Exact'
<1>1. CASE mcu = "playing"
  <2>1. Owed = apply_unit * Unit /\ apply_unit = MP3_DECODER_BUFFER_SIZE \div Unit - 1
    BY <1>1 DEF IInv, Exact, Account, InitAccount
  <2>2. apply_unit * Unit # 0
    <3>1. MP3_DECODER_BUFFER_SIZE \div Unit >= 2 /\ MP3_DECODER_BUFFER_SIZE \div Unit \in Nat
      BY WholeUnits, SizeAssumption
    <3>2. apply_unit - 1 \in Nat /\ apply_unit = (apply_unit - 1) + 1
      BY <2>1, <3>1
    <3>3. \A k \in Nat : (k + 1) * Unit = k * Unit + Unit /\ k * Unit \in Nat
      BY NatTimes, SizeAssumption
    <3>. QED BY <3>2, <3>3, SizeAssumption
  <2>3. Asked' = Owed /\ request_data_size' = apply_unit * Unit /\ ~all_request_data_received'
    BY OwedIsNat DEF IInv, Asked, Owed, InitAccount, peer
  <2>. QED BY <2>1, <2>2, <2>3 DEF Exact, AllRequestDataReceived, InitAccount
<1>2. CASE mcu # "playing"
  BY <1>2 DEF Exact, AllRequestDataReceived, Initialised, InitAccount, peer
<1>. QED BY <1>1, <1>2

LEMMA HandlersAreExact ==
  ASSUME IInv, Exact, mp3_decoder_do_decoder_handler \/ sbc_encoder_recv_frame_req
  PROVE  Exact'
<1>1. CASE DecodeTooEarly \/ DecodeFirst \/ DecodeNext
  <2>1. Handles("MP3_DECODER_DO_DECODE") /\ task_list' = Tail(task_list)
    BY <1>1 DEF DecodeTooEarly, DecodeFirst, DecodeNext
  <2>2. Has(task_list, "MP3_DECODER_INIT") => Has(task_list', "MP3_DECODER_INIT")
    BY <2>1, Taking DEF IInv, Lifecycle
  <2>3. UNCHANGED <<all_request_data_received, request_data_size, credit, space, apply_unit, mcu>>
        /\ pc = "idle" /\ pc' \in {"idle", "fetch"}
    BY <1>1, <2>1 DEF Handles, DecodeTooEarly, DecodeFirst, DecodeNext, demand, peer
  <2>. QED BY <2>2, <2>3, SameAccount
<1>2. CASE Fetch
  <2>1. UNCHANGED <<all_request_data_received, request_data_size, credit, space, apply_unit, mcu, task_list>>
        /\ pc = "fetch" /\ pc' \in {"idle", "execute"}
    BY <1>2 DEF Fetch, demand, peer
  <2>. QED BY <2>1, SameAccount
<1>3. CASE ExecuteStart \/ ExecuteDecode
  <2>1. PICK n \in Consumption : Consume(n)
    BY <1>3 DEF ExecuteStart, ExecuteDecode
  <2>2. UNCHANGED <<all_request_data_received, request_data_size, credit, space, apply_unit, mcu, task_list>>
        /\ pc = "execute" /\ pc' = "request"
    BY <1>3, <2>1 DEF ExecuteStart, ExecuteDecode, Consume, peer
  <2>. QED BY <2>2, SameAccount
<1>4. CASE Request
  <2>1. pc' = "send" /\ request_data_size' = Asked' /\ ~all_request_data_received' /\ Asked' # 0
    BY <1>4, RequestAsks, SizeAssumption
  <2>. QED BY <2>1 DEF Exact, AllRequestDataReceived
<1>5. CASE RequestSend
  <2>1. Asked' = Asked /\ pc' \in {"idle", "fetch"} /\ pc = "send"
        /\ UNCHANGED <<all_request_data_received, request_data_size, mcu>>
        /\ ~Has(task_list, "MP3_DECODER_INIT")
    BY <1>5, RequestSendKeeps DEF RequestSend, demand, peer
  <2>2. Initialised' => Initialised
    BY <2>1 DEF Initialised, Queued, Has
  <2>. QED BY <2>1, <2>2 DEF Exact, AllRequestDataReceived
<1>6. CASE NoRequest
  <2>1. /\ UNCHANGED <<all_request_data_received, request_data_size, credit, space, apply_unit, mcu>>
        /\ pc = "request" /\ pc' \in {"idle", "fetch"}
    BY <1>6 DEF NoRequest, HandlerEnd, demand, peer
  <2>2. ~Has(task_list, "MP3_DECODER_INIT")
    BY <2>1 DEF IInv, Lifecycle, Busy
  <2>. QED BY <2>1, <2>2, SameAccount
<1>7. CASE NeedMoreSent \/ NeedMoreNoChannel \/ NeedMoreNotReady
  <2>1. /\ Handles("MCU_NEED_MORE_SBC_DATA") /\ task_list' = Tail(task_list)
        /\ pc = "idle" /\ pc' \in {"idle", "answered"}
        /\ UNCHANGED <<all_request_data_received, request_data_size, credit, space, apply_unit, mcu>>
    BY <1>7 DEF NeedMoreSent, NeedMoreNoChannel, NeedMoreNotReady, NeedMore, Handles, demand, peer
  <2>2. Has(task_list, "MP3_DECODER_INIT") => Has(task_list', "MP3_DECODER_INIT")
    BY <2>1, Taking DEF IInv, Lifecycle
  <2>. QED BY <2>1, <2>2, SameAccount
<1>8. CASE NeedMoreEnds
  <2>1. /\ pc = "answered" /\ pc' = "idle"
        /\ UNCHANGED <<all_request_data_received, request_data_size, credit, space, apply_unit, mcu>>
    BY <1>8 DEF NeedMoreEnds, demand, peer
  <2>2. ~Has(task_list, "MP3_DECODER_INIT")
    BY <2>1 DEF IInv, Lifecycle, Busy
  <2>. QED BY <2>1, <2>2, SameAccount
<1>. QED BY <1>1, <1>2, <1>3, <1>4, <1>5, <1>6, <1>7, <1>8
         DEF mp3_decoder_do_decoder_handler, sbc_encoder_recv_frame_req

LEMMA StepIsExact ==
  ASSUME IInv, Exact, ~EarlyAnswer, [Next]_vars
  PROVE  Exact'
<1>1. CASE InitReset
  BY <1>1 DEF InitReset, Exact, AllRequestDataReceived, Initialised
<1>2. CASE InitSend \/ InitAccount
  BY <1>2, InitSendIsExact, InitAccountIsExact
<1>3. CASE mp3_decoder_do_decoder_handler \/ sbc_encoder_recv_frame_req
  BY <1>3, HandlersAreExact
<1>4. CASE PrepareForNext \/ McuStop \/ McuReady
  <2>1. mcu' # "playing"
    BY <1>4 DEF PrepareForNext, McuStop, McuReady
  <2>. QED BY <2>1 DEF Exact, AllRequestDataReceived, Initialised
<1>5. CASE McuStart
  <2>1. ~Has(task_list, "MP3_DECODER_INIT") /\ pc = "idle" /\ pc' = pc
        /\ ~Has(task_list, "DECODER_PREPARE_FOR_NEXT") /\ task_list' = Posted("MP3_DECODER_INIT")
    BY <1>5 DEF IInv, Lifecycle, Busy, McuStart
  <2>2. Has(task_list', "MP3_DECODER_INIT")
    BY <2>1, Posting DEF IInv, Lifecycle, Tasks
  <2>. QED BY <2>1, <2>2 DEF Exact, AllRequestDataReceived, Initialised, Queued, Has
<1>6. CASE McuSpace
  BY <1>6, McuSpaceIsExact
<1>7. CASE McuSends
  BY <1>7, McuFrameIsExact DEF McuSends
<1>8. CASE McuNeedMore
  <2>1. UNCHANGED <<pc, all_request_data_received, request_data_size, credit, space, apply_unit, mcu>>
        /\ task_list' = Posted("MCU_NEED_MORE_SBC_DATA")
    BY <1>8 DEF McuNeedMore, demand, peer
  <2>2. Has(task_list, "MP3_DECODER_INIT") => Has(task_list', "MP3_DECODER_INIT")
    BY <2>1, Posting DEF IInv, Lifecycle, Tasks
  <2>. QED BY <2>1, <2>2, SameAccount
<1>9. CASE UNCHANGED vars
  <2>1. UNCHANGED <<pc, all_request_data_received, request_data_size, credit, space, apply_unit, mcu, task_list>>
    BY <1>9 DEF vars, demand, peer
  <2>. QED BY <2>1, SameAccount
<1>. QED BY <1>1, <1>2, <1>3, <1>4, <1>5, <1>6, <1>7, <1>8, <1>9
         DEF Next, MainLoop, mp3_decoder_init, Mcu

(* mp3_decoder_recv_frame and the request keep the account of what is      *)
(* still to come exact, if the MCU does not answer before                  *)
(* mp3_decoder_init has recorded its request.                              *)
THEOREM AccountIsExact ==
  ASSUME ~EarlyAnswer
  PROVE  SafeSpec => []AllRequestDataReceived
<1>1. Init => Exact
  BY DEF Init, Exact, AllRequestDataReceived, Initialised
<1>2. IInv /\ Exact /\ [Next]_vars => Exact'
  BY StepIsExact
<1>3. Exact => AllRequestDataReceived
  BY DEF Exact
<1>. QED BY <1>1, <1>2, <1>3, Inductive, PTL DEF SafeSpec

-----------------------------------------------------------------------------
(* There is a ring for every frame and every decoding, and a song that has *)
(* filled it to the limit is decoded, whatever the order of the messages.  *)
THEOREM StreamIsConsistent == SafeSpec => []StreamInv
<1>1. ASSUME IInv PROVE StreamInv
  <2>1. Busy => ~Queued("MP3_DECODER_INIT")
    BY DEF Busy, Queued, Has
  <2>2. MP3_DECODER_BUFFER_SIZE \in Nat /\ Unit \in Nat \ {0}
        /\ MP3_DECODER_BUFFER_SIZE \div Unit \in Nat
    BY SizeAssumption, WholeUnits
  <2>3. /\ stored \in Nat /\ Owed \in Nat /\ Asked \in Nat /\ Owed <= Asked /\ credit <= Owed
        /\ space * Unit \in Nat /\ credit \in Nat
        /\ stored + Asked <= MP3_DECODER_BUFFER_SIZE - Unit
    BY <1>1, OwedIsNat DEF IInv, Types, RingNeverOverflows
  <2>4. Asked <= MP3_DECODER_BUFFER_SIZE /\ stored <= MP3_DECODER_BUFFER_SIZE
    <3>1. \A a, s, n, u \in Nat : s + a <= n - u => a <= n /\ s <= n
      OBVIOUS
    <3>. QED BY <2>2, <2>3, <3>1
  <2>5. space * Unit <= MP3_DECODER_BUFFER_SIZE /\ credit <= MP3_DECODER_BUFFER_SIZE
    <3>1. space * Unit <= Owed
      BY <2>3 DEF Owed
    <3>2. \A a, b, c, n \in Nat : a <= b /\ b <= c /\ c <= n => a <= n
      OBVIOUS
    <3>. QED BY <2>2, <2>3, <2>4, <3>1, <3>2
  <2>6. space \in 0 .. MP3_DECODER_BUFFER_SIZE \div Unit
    BY <1>1, <2>2, <2>5, WholeUnits DEF IInv, Types
  <2>7. TypeOK
    <3>1. {request_data_size, credit, stored} \subseteq 0 .. MP3_DECODER_BUFFER_SIZE
      BY <1>1, <2>2, <2>3, <2>4, <2>5 DEF IInv, Types
    <3>2. /\ {i_buff_size, i_bytes_consumed} \subseteq 0 .. ui_inp_size
          /\ i_bytes_consumed <= i_buff_size
      BY <1>1, SizeAssumption DEF IInv, Types
    <3>. QED BY <1>1, <2>6, <3>1, <3>2 DEF IInv, Types, Lifecycle, Ordered, TypeOK
  <2>8. RingForFrames
    <3>1. ASSUME mcu = "playing", Owed > 0 PROVE Busy
      <4>1. CASE Has(task_list, "MP3_DECODER_INIT")
        <5>1. space = 0 /\ credit = 0
          BY <1>1, <4>1 DEF IInv, Lifecycle, Busy
        <5>2. Owed = 0
          BY <5>1, SizeAssumption DEF Owed
        <5>. QED BY <3>1, <5>2
      <4>. QED BY <3>1, <4>1 DEF Busy
    <3>. QED BY <1>1, <3>1 DEF IInv, Lifecycle, Start, RingForFrames
  <2>9. DecodingStarts
    <3>1. Initialised => Busy
      BY DEF Initialised, Busy, Queued, Has
    <3>. QED BY <1>1, <3>1 DEF IInv, Types, Start, DecodingStarts, Queued, Has
  <2>. QED BY <2>7, <2>8, <2>9 DEF StreamInv
<1>. QED BY <1>1, Inductive, PTL

-----------------------------------------------------------------------------
(* No flood.  A decoding is asked for by the first frames, by a start that *)
(* failed or by a request for SBC frames.  One request waits at a time, so *)
(* that only one decoding is ever posted behind a request or behind a      *)
(* decoding; and one that is posted behind another was asked for when the  *)
(* list was short.                                                         *)
OneNeed(list) ==
  \A i, j \in 1 .. Len(list) :
    list[i] = "MCU_NEED_MORE_SBC_DATA" /\ list[j] = "MCU_NEED_MORE_SBC_DATA" => i = j

OneBehind(list) ==
  \A i, j, k \in 1 .. Len(list) :
    /\ list[i] \in {"MP3_DECODER_DO_DECODE", "MCU_NEED_MORE_SBC_DATA"}
    /\ list[j] = "MP3_DECODER_DO_DECODE"
    /\ i < j /\ j < k
    => list[k] # "MP3_DECODER_DO_DECODE"

Two(list) ==
  \E i, j \in 1 .. Len(list) :
    i < j /\ list[i] = "MP3_DECODER_DO_DECODE" /\ list[j] = "MP3_DECODER_DO_DECODE"

DecodesFirst(list) ==
  \A i, j \in 1 .. Len(list) :
    list[i] = "MCU_NEED_MORE_SBC_DATA" /\ list[j] = "MP3_DECODER_DO_DECODE" => j < i

Decoding == pc \in {"fetch", "execute", "request", "send"}

Demand ==
  /\ OneNeed(task_list) /\ OneBehind(task_list)
  /\ Decoding \/ pc = "answered" => ~Two(task_list)
  /\ pc = "answered" => DecodesFirst(task_list) /\ sbc_encoder_ready
  /\ Decoding /\ decoder_state # "DECODING" => ~Has(task_list, "MP3_DECODER_DO_DECODE")
  /\ Busy /\ decoder_state # "DECODING" => ~Two(task_list)
  /\ sbc_encoder_ready <=> \/ decoder_state = "DECODING"
                           \/ /\ decoder_state = "INITIATING" /\ ui_init_done
                              /\ pc \in {"request", "send"}

(* How many frames there may be, with two decodings to come, one or none. *)
Frames ==
  /\ decoder_state # "DECODING" => frame_count = 0
  /\ Two(task_list) \/ (Has(task_list, "MP3_DECODER_DO_DECODE") /\ pc \in {"fetch", "execute"}) =>
       frame_count < SBC_A2DP_SUB_FRAME_COUNT
  /\ Has(task_list, "MP3_DECODER_DO_DECODE") \/ pc \in {"fetch", "execute"} =>
       frame_count < SBC_A2DP_SUB_FRAME_COUNT + MaxOutput
  /\ frame_count < SBC_A2DP_SUB_FRAME_COUNT + 2 * MaxOutput

LEMMA DemandTaken ==
  ASSUME NEW list \in Seq(Tasks), list # <<>>, OneNeed(list), OneBehind(list)
  PROVE  /\ OneNeed(Tail(list)) /\ OneBehind(Tail(list))
         /\ Two(Tail(list)) => Two(list)
         /\ Head(list) = "MP3_DECODER_DO_DECODE" =>
              ~Two(Tail(list)) /\ (Has(Tail(list), "MP3_DECODER_DO_DECODE") => Two(list))
         /\ Head(list) = "MCU_NEED_MORE_SBC_DATA" => ~Two(Tail(list)) /\ DecodesFirst(Tail(list))
<1>1. /\ Len(list) \in Nat /\ Len(list) >= 1 /\ Len(Tail(list)) = Len(list) - 1 /\ Head(list) = list[1]
      /\ 1 \in 1 .. Len(list)
  OBVIOUS
<1>2. \A i \in 1 .. Len(Tail(list)) :
        Tail(list)[i] = list[i + 1] /\ i + 1 \in 1 .. Len(list) /\ 1 < i + 1
  BY <1>1
<1>3. \A i, j \in 1 .. Len(Tail(list)) : (i < j <=> i + 1 < j + 1) /\ (i + 1 = j + 1 => i = j)
  BY <1>1
<1> DEFINE rest == Tail(list)
<1> HIDE DEF rest
<1>4. OneNeed(rest)
  BY <1>2, <1>3 DEF OneNeed, rest
<1>5. OneBehind(rest)
  BY <1>2, <1>3 DEF OneBehind, rest
<1>6. Two(rest) => Two(list)
  BY <1>2, <1>3 DEF Two, rest
<1>7. Head(list) \in {"MP3_DECODER_DO_DECODE", "MCU_NEED_MORE_SBC_DATA"} => ~Two(rest)
  BY <1>1, <1>2, <1>3 DEF OneBehind, Two, rest
<1>8. Head(list) = "MP3_DECODER_DO_DECODE" /\ Has(rest, "MP3_DECODER_DO_DECODE") => Two(list)
  BY <1>1, <1>2 DEF Two, Has, rest
<1>9. Head(list) = "MCU_NEED_MORE_SBC_DATA" => DecodesFirst(rest)
  BY <1>1, <1>2 DEF OneNeed, DecodesFirst, rest
<1>. QED BY <1>4, <1>5, <1>6, <1>7, <1>8, <1>9 DEF rest

LEMMA DemandPosted ==
  ASSUME NEW list \in Seq(Tasks), NEW e \in Tasks, OneNeed(list), OneBehind(list),
         e = "MCU_NEED_MORE_SBC_DATA" => ~Has(list, e),
         e = "MP3_DECODER_DO_DECODE" => ~Two(list) /\ DecodesFirst(list)
  PROVE  /\ OneNeed(Append(list, e)) /\ OneBehind(Append(list, e))
         /\ Two(Append(list, e)) => Two(list) \/ (e = "MP3_DECODER_DO_DECODE" /\ Has(list, e))
         /\ DecodesFirst(list) /\ e # "MP3_DECODER_DO_DECODE" => DecodesFirst(Append(list, e))
<1> DEFINE posted == Append(list, e)
<1>1. /\ Len(posted) = Len(list) + 1 /\ posted[Len(posted)] = e /\ Len(list) \in Nat
      /\ \A i \in 1 .. Len(list) : posted[i] = list[i] /\ i < Len(posted)
  OBVIOUS
<1> HIDE DEF posted
<1>2. \A i \in 1 .. Len(posted) : i \in 1 .. Len(list) \/ i = Len(posted)
  BY <1>1
<1>3. \A i, j \in 1 .. Len(posted) : i < j => i \in 1 .. Len(list)
  BY <1>1
<1>4. OneNeed(posted)
  BY <1>1, <1>2 DEF OneNeed, Has
<1>5. OneBehind(posted)
  <2> SUFFICES ASSUME NEW i \in 1 .. Len(posted), NEW j \in 1 .. Len(posted), NEW k \in 1 .. Len(posted),
                      posted[i] \in {"MP3_DECODER_DO_DECODE", "MCU_NEED_MORE_SBC_DATA"},
                      posted[j] = "MP3_DECODER_DO_DECODE", i < j, j < k,
                      posted[k] = "MP3_DECODER_DO_DECODE"
               PROVE  FALSE
    BY DEF OneBehind
  <2>1. /\ i \in 1 .. Len(list) /\ j \in 1 .. Len(list)
        /\ list[i] \in {"MP3_DECODER_DO_DECODE", "MCU_NEED_MORE_SBC_DATA"}
        /\ list[j] = "MP3_DECODER_DO_DECODE"
    BY <1>1, <1>3
  <2>2. CASE k \in 1 .. Len(list)
    BY <1>1, <2>1, <2>2 DEF OneBehind
  <2>3. CASE k = Len(posted)
    <3>1. ~Two(list) /\ DecodesFirst(list)
      BY <1>1, <2>3
    <3>2. ~(j < i)
      BY <1>1, <2>1
    <3>. QED BY <2>1, <3>1, <3>2 DEF Two, DecodesFirst
  <2>. QED BY <1>2, <2>2, <2>3
<1>6. Two(posted) => Two(list) \/ (e = "MP3_DECODER_DO_DECODE" /\ Has(list, e))
  BY <1>1, <1>2, <1>3 DEF Two, Has
<1>7. DecodesFirst(list) /\ e # "MP3_DECODER_DO_DECODE" => DecodesFirst(posted)
  BY <1>1, <1>2 DEF DecodesFirst
<1>. QED BY <1>4, <1>5, <1>6, <1>7 DEF posted

(* With none to come, a decoding is the only one. *)
LEMMA FirstPosted ==
  ASSUME NEW list \in Seq(Tasks), OneNeed(list), OneBehind(list), ~Has(list, "MP3_DECODER_DO_DECODE")
  PROVE  LET posted == Append(list, "MP3_DECODER_DO_DECODE")
         IN  OneNeed(posted) /\ OneBehind(posted) /\ ~Two(posted)
<1>1. ~Two(list) /\ DecodesFirst(list)
  BY DEF Two, DecodesFirst, Has
<1>. QED BY <1>1, DemandPosted DEF Tasks

(* The arithmetic of one decoding more. *)
LEMMA OneDecodingMore ==
  ASSUME NEW made \in 0 .. MaxOutput, NEW n \in Nat
  PROVE  /\ n < SBC_A2DP_SUB_FRAME_COUNT => n + made < SBC_A2DP_SUB_FRAME_COUNT + MaxOutput
         /\ n < SBC_A2DP_SUB_FRAME_COUNT + MaxOutput => n + made < SBC_A2DP_SUB_FRAME_COUNT + 2 * MaxOutput
BY SizeAssumption

(* No frames at all are few enough, whatever is to come. *)
LEMMA NoFrames ==
  /\ 0 < SBC_A2DP_SUB_FRAME_COUNT
  /\ \A n \in Nat : n < SBC_A2DP_SUB_FRAME_COUNT =>
       n < SBC_A2DP_SUB_FRAME_COUNT + MaxOutput /\ n < SBC_A2DP_SUB_FRAME_COUNT + 2 * MaxOutput
BY SizeAssumption

LEMMA TakingKeepsDemand ==
  ASSUME IInv, Demand, NEW id, Handles(id), task_list' = Tail(task_list)
  PROVE  /\ OneNeed(task_list') /\ OneBehind(task_list')
         /\ Two(task_list') => Two(task_list)
         /\ Has(task_list', "MP3_DECODER_DO_DECODE") => Has(task_list, "MP3_DECODER_DO_DECODE")
         /\ id = "MP3_DECODER_DO_DECODE" =>
              /\ ~Two(task_list') /\ Has(task_list, "MP3_DECODER_DO_DECODE")
              /\ Has(task_list', "MP3_DECODER_DO_DECODE") => Two(task_list)
         /\ id = "MCU_NEED_MORE_SBC_DATA" => ~Two(task_list') /\ DecodesFirst(task_list')
<1>1. /\ task_list \in Seq(Tasks) /\ task_list # <<>> /\ Head(task_list) = id
      /\ \A x : Has(task_list, x) <=> x = id \/ Has(task_list', x)
  BY Taking DEF IInv, Lifecycle, Ordered, Handles
<1>. QED BY <1>1, DemandTaken DEF Demand

LEMMA InitKeepsDemand ==
  ASSUME IInv, Demand, Frames, mp3_decoder_init
  PROVE  Demand' /\ Frames'
<1>1. CASE InitReset
  <2>1. Handles("MP3_DECODER_INIT") /\ task_list' = Tail(task_list) /\ ~sbc_encoder_ready
        /\ decoder_state' = "IDLE" /\ pc' = "init_send" /\ UNCHANGED <<frame_count, sbc_encoder_ready>>
    <3>1. Handles("MP3_DECODER_INIT") /\ task_list' = Tail(task_list)
      BY <1>1 DEF InitReset
    <3>2. Has(task_list, "MP3_DECODER_INIT")
      BY <3>1, Taking DEF IInv, Lifecycle
    <3>. QED BY <1>1, <3>1, <3>2 DEF IInv, Lifecycle, Busy, InitReset, sbc
  <2>2. ~Has(task_list', "MP3_DECODER_DO_DECODE")
    BY <2>1, Taking DEF IInv, Lifecycle
  <2>3. OneNeed(task_list') /\ OneBehind(task_list')
    BY <2>1, TakingKeepsDemand
  <2>4. ~Two(task_list')
    BY <2>2 DEF Two, Has
  <2>5. frame_count' = 0
    BY <2>1 DEF Demand, Frames
  <2>6. Demand'
    BY <2>1, <2>2, <2>3, <2>4 DEF Demand, Decoding
  <2>7. Frames'
    BY <2>1, <2>2, <2>4, <2>5, NoFrames DEF Frames
  <2>. QED BY <2>6, <2>7
<1>2. CASE InitSend \/ InitAccount
  <2>1. UNCHANGED <<task_list, frame_count, sbc_encoder_ready, decoder_state, ui_init_done, mcu>>
        /\ pc \in {"init_send", "init_account"} /\ pc' \in {"init_account", "idle"}
    BY <1>2 DEF InitSend, InitAccount, sbc, codec, peer
  <2>2. Demand'
    BY <2>1 DEF Demand, Decoding, Busy
  <2>3. Frames'
    BY <2>1 DEF Frames
  <2>. QED BY <2>2, <2>3
<1>. QED BY <1>1, <1>2 DEF mp3_decoder_init

LEMMA DecodeKeepsDemand ==
  ASSUME IInv, Demand, Frames, DecodeTooEarly \/ DecodeFirst \/ DecodeNext
  PROVE  Demand' /\ Frames'
<1>1. /\ Handles("MP3_DECODER_DO_DECODE") /\ task_list' = Tail(task_list)
      /\ pc = "idle" /\ pc' \in {"idle", "fetch"}
      /\ UNCHANGED <<frame_count, sbc_encoder_ready, ui_init_done>>
  BY DEF DecodeTooEarly, DecodeFirst, DecodeNext, Handles, sbc, codec
<1>2. /\ OneNeed(task_list') /\ OneBehind(task_list') /\ ~Two(task_list')
      /\ Has(task_list, "MP3_DECODER_DO_DECODE")
      /\ Has(task_list', "MP3_DECODER_DO_DECODE") => Two(task_list)
  BY <1>1, TakingKeepsDemand
<1>3. /\ Has(task_list', "MP3_DECODER_DO_DECODE") => frame_count < SBC_A2DP_SUB_FRAME_COUNT
      /\ frame_count < SBC_A2DP_SUB_FRAME_COUNT + MaxOutput
  BY <1>2 DEF Frames
<1>4. Busy /\ decoder_state # "DECODING" => ~Has(task_list', "MP3_DECODER_DO_DECODE")
  BY <1>2 DEF Demand
<1>5. frame_count \in Nat
  BY DEF IInv, Types
<1>6. CASE DecodeTooEarly
  <2>1. decoder_state \in {"IDLE", "BUFFERING"} /\ decoder_state' = "BUFFERING" /\ pc' = "idle"
    BY <1>6, <1>1 DEF DecodeTooEarly
  <2>2. frame_count = 0 /\ ~sbc_encoder_ready
    BY <2>1, <1>1 DEF Demand, Frames
  <2>3. Demand'
    BY <1>1, <1>2, <2>1, <2>2 DEF Demand, Decoding
  <2>4. Frames'
    BY <1>1, <1>2, <2>1, <2>2, NoFrames DEF Frames
  <2>. QED BY <2>3, <2>4
<1>7. CASE DecodeFirst
  <2>1. decoder_state \in {"IDLE", "BUFFERING"} /\ decoder_state' = "INITIATING" /\ pc' = "fetch"
    BY <1>7 DEF DecodeFirst
  <2>2. frame_count = 0 /\ ~sbc_encoder_ready
    BY <2>1, <1>1 DEF Demand, Frames
  <2>3. ~Has(task_list', "MP3_DECODER_DO_DECODE")
    <3>1. total_input >= MP3_DECODER_BUFFERING_LIMIT /\ MP3_DECODER_BUFFERING_LIMIT >= 1
      BY <1>7, ThresholdAssumption DEF DecodeFirst
    <3>2. Busy
      BY <3>1, ThresholdAssumption DEF IInv, Types, Lifecycle
    <3>. QED BY <1>4, <2>1, <3>2
  <2>4. Demand'
    BY <1>1, <1>2, <2>1, <2>2, <2>3 DEF Demand, Decoding
  <2>5. Frames'
    BY <1>1, <1>2, <2>1, <2>2, NoFrames DEF Frames
  <2>. QED BY <2>4, <2>5
<1>8. CASE DecodeNext
  <2>1. UNCHANGED decoder_state /\ decoder_state \in {"INITIATING", "DECODING"} /\ pc' = "fetch"
    BY <1>8 DEF DecodeNext
  <2>2. decoder_state # "DECODING" => ~Has(task_list', "MP3_DECODER_DO_DECODE")
    BY <1>4, <2>1 DEF IInv, Lifecycle
  <2>3. Demand'
    BY <1>1, <1>2, <2>1, <2>2 DEF Demand, Decoding
  <2>4. Frames'
    BY <1>1, <1>2, <1>3, <1>5, <2>1, NoFrames DEF Frames
  <2>. QED BY <2>3, <2>4
<1>. QED BY <1>6, <1>7, <1>8

LEMMA HandlerKeepsDemand ==
  ASSUME IInv, Demand, Frames,
         Fetch \/ ExecuteStart \/ ExecuteDecode \/ Request \/ RequestSend \/ NoRequest
  PROVE  Demand' /\ Frames'
<1>0. frame_count \in Nat /\ mcu' = mcu
  BY DEF IInv, Types, Fetch, ExecuteStart, ExecuteDecode, Consume, Request, RequestSend, NoRequest, peer
<1>1. CASE Fetch \/ Request
  <2>1. /\ UNCHANGED <<task_list, frame_count, sbc_encoder_ready, decoder_state, ui_init_done>>
        /\ \/ pc = "fetch" /\ pc' \in {"idle", "execute"}
           \/ pc = "request" /\ pc' = "send"
    BY <1>1 DEF Fetch, Request, sbc, codec
  <2>2. Demand'
    BY <1>0, <2>1 DEF Demand, Decoding, Busy
  <2>3. Frames'
    BY <2>1 DEF Frames
  <2>. QED BY <2>2, <2>3
<1>2. CASE ExecuteStart
  <2>1. /\ pc = "execute" /\ pc' = "request" /\ decoder_state = "INITIATING"
        /\ UNCHANGED <<task_list, decoder_state>>
    BY <1>2 DEF ExecuteStart, Consume
  <2>2. ~sbc_encoder_ready /\ frame_count = 0
    BY <2>1 DEF Demand, Frames
  <2>3. \/ ui_init_done' = TRUE /\ sbc_encoder_ready' = TRUE /\ frame_count' = 0
        \/ ui_init_done' = FALSE /\ UNCHANGED <<sbc_encoder_ready, frame_count>>
    BY <1>2 DEF ExecuteStart, sbc
  <2>4. Demand'
    BY <1>0, <2>1, <2>2, <2>3 DEF Demand, Decoding, Busy
  <2>5. Frames'
    BY <2>1, <2>2, <2>3, NoFrames DEF Frames
  <2>. QED BY <2>4, <2>5
<1>3. CASE ExecuteDecode
  <2>1. /\ pc = "execute" /\ pc' = "request" /\ decoder_state = "DECODING"
        /\ UNCHANGED <<task_list, decoder_state, ui_init_done, sbc_encoder_ready>>
    BY <1>3 DEF ExecuteDecode, Consume
  <2>2. PICK made \in 0 .. MaxOutput : frame_count' = frame_count + made
    BY <1>3 DEF ExecuteDecode
  <2>3. ~Two(task_list)
    BY <2>1 DEF Demand, Decoding
  <2>4. frame_count < SBC_A2DP_SUB_FRAME_COUNT + MaxOutput
        /\ (Has(task_list, "MP3_DECODER_DO_DECODE") => frame_count < SBC_A2DP_SUB_FRAME_COUNT)
    BY <2>1 DEF Frames
  <2>5. Demand'
    BY <1>0, <2>1 DEF Demand, Decoding, Busy
  <2>6. Frames'
    BY <1>0, <2>1, <2>2, <2>3, <2>4, OneDecodingMore DEF Frames
  <2>. QED BY <2>5, <2>6
<1>4. CASE RequestSend \/ NoRequest
  <2>1. /\ HandlerEnd /\ pc \in {"request", "send"}
        /\ UNCHANGED <<frame_count, sbc_encoder_ready, ui_init_done>>
    BY <1>4 DEF RequestSend, NoRequest, sbc, codec
  <2>2. task_list \in Seq(Tasks)
    BY DEF IInv, Lifecycle, Ordered
  <2>3. CASE decoder_state = "DECODING"
    <3>1. pc' = "idle" /\ UNCHANGED <<task_list, decoder_state>>
      BY <2>1, <2>3 DEF HandlerEnd
    <3>2. Demand'
      BY <1>0, <2>1, <2>3, <3>1 DEF Demand, Decoding, Busy
    <3>3. Frames'
      BY <2>1, <3>1 DEF Frames
    <3>. QED BY <3>2, <3>3
  <2>4. CASE decoder_state = "INITIATING" /\ ui_init_done
    <3>1. decoder_state' = "DECODING" /\ pc' = "fetch" /\ UNCHANGED task_list
      BY <2>1, <2>4 DEF HandlerEnd
    <3>2. frame_count = 0
      BY <2>4 DEF Frames
    <3>3. Demand'
      BY <2>1, <2>4, <3>1 DEF Demand, Decoding
    <3>4. Frames'
      BY <2>1, <3>1, <3>2, NoFrames DEF Frames
    <3>. QED BY <3>3, <3>4
  <2>5. CASE decoder_state = "INITIATING" /\ ~ui_init_done
    <3>1. task_list' = Posted("MP3_DECODER_DO_DECODE") /\ pc' = "idle" /\ UNCHANGED decoder_state
      BY <2>1, <2>5 DEF HandlerEnd
    <3>2. ~sbc_encoder_ready /\ frame_count = 0 /\ ~Has(task_list, "MP3_DECODER_DO_DECODE")
      BY <2>1, <2>5 DEF Demand, Frames, Decoding
    <3>3. OneNeed(task_list') /\ OneBehind(task_list') /\ ~Two(task_list')
      BY <2>2, <3>1, <3>2, FirstPosted DEF Demand, Posted
    <3>4. Demand'
      BY <2>1, <2>5, <3>1, <3>2, <3>3 DEF Demand, Decoding
    <3>5. Frames'
      BY <2>1, <3>1, <3>2, <3>3, NoFrames DEF Frames
    <3>. QED BY <3>4, <3>5
  <2>. QED BY <2>1, <2>3, <2>4, <2>5 DEF HandlerEnd
<1>. QED BY <1>1, <1>2, <1>3, <1>4

LEMMA NeedMoreKeepsDemand ==
  ASSUME IInv, Demand, Frames, NEW count \in Nat, count <= frame_count, NeedMore(count)
  PROVE  Demand' /\ Frames'
<1>1. /\ Handles("MCU_NEED_MORE_SBC_DATA") /\ task_list' = Tail(task_list)
      /\ pc = "idle" /\ pc' = "answered" /\ sbc_encoder_ready /\ frame_count' = count
      /\ UNCHANGED <<decoder_state, sbc_encoder_ready, ui_init_done>>
  BY DEF Handles, NeedMore, codec
<1>2. /\ OneNeed(task_list') /\ OneBehind(task_list') /\ ~Two(task_list') /\ DecodesFirst(task_list')
      /\ Has(task_list', "MP3_DECODER_DO_DECODE") => Has(task_list, "MP3_DECODER_DO_DECODE")
  BY <1>1, TakingKeepsDemand
<1>3. decoder_state = "DECODING"
  BY <1>1 DEF Demand
<1>4. Demand'
  BY <1>1, <1>2, <1>3 DEF Demand, Decoding
<1>5. \A n \in Nat : frame_count < n => count < n
  BY DEF IInv, Types
<1>6. SBC_A2DP_SUB_FRAME_COUNT + MaxOutput \in Nat /\ SBC_A2DP_SUB_FRAME_COUNT + 2 * MaxOutput \in Nat
  BY SizeAssumption
<1>7. Frames'
  BY <1>1, <1>2, <1>3, <1>5, <1>6 DEF Frames
<1>. QED BY <1>4, <1>7

LEMMA NeedMoreEndsKeepsDemand ==
  ASSUME IInv, Demand, Frames, NeedMoreEnds
  PROVE  Demand' /\ Frames'
<1>1. /\ pc = "answered" /\ pc' = "idle"
      /\ UNCHANGED <<decoder_state, frame_count, sbc_encoder_ready, ui_init_done, mcu>>
  BY DEF NeedMoreEnds, sbc, codec, peer
<1>2. /\ task_list \in Seq(Tasks) /\ OneNeed(task_list) /\ OneBehind(task_list)
      /\ ~Two(task_list) /\ DecodesFirst(task_list) /\ decoder_state = "DECODING"
  BY <1>1 DEF IInv, Lifecycle, Ordered, Demand
<1>3. CASE UNCHANGED task_list
  <2>1. Demand'
    BY <1>1, <1>2, <1>3 DEF Demand, Decoding
  <2>2. Frames'
    BY <1>1, <1>3 DEF Frames
  <2>. QED BY <2>1, <2>2
<1>4. CASE Short(frame_count) /\ task_list' = Posted("MP3_DECODER_DO_DECODE")
  <2>1. OneNeed(task_list') /\ OneBehind(task_list')
    BY <1>2, <1>4, DemandPosted DEF Posted, Tasks
  <2>2. frame_count < SBC_A2DP_SUB_FRAME_COUNT /\ frame_count \in Nat
    BY <1>4 DEF Short, IInv, Types
  <2>3. Demand'
    BY <1>1, <1>2, <2>1 DEF Demand, Decoding
  <2>4. Frames'
    BY <1>1, <1>2, <2>2, NoFrames DEF Frames
  <2>. QED BY <2>3, <2>4
<1>. QED BY <1>3, <1>4 DEF NeedMoreEnds

LEMMA McuKeepsDemand ==
  ASSUME IInv, Demand, Frames, Mcu
  PROVE  Demand' /\ Frames'
<1>0. task_list \in Seq(Tasks)
  BY DEF IInv, Lifecycle, Ordered
<1>1. CASE McuStart \/ McuStop \/ McuNeedMore
  <2>1. PICK id \in {"MP3_DECODER_INIT", "DECODER_PREPARE_FOR_NEXT", "MCU_NEED_MORE_SBC_DATA"} :
          /\ task_list' = Posted(id)
          /\ id = "MCU_NEED_MORE_SBC_DATA" => ~Has(task_list, id)
          /\ id # "MP3_DECODER_INIT" => mcu = "playing"
          /\ UNCHANGED <<pc, decoder_state, frame_count, sbc_encoder_ready, ui_init_done>>
    BY <1>1 DEF McuStart, McuStop, McuNeedMore, Queued, Has, sbc, codec
  <2>2. \A x : Has(task_list', x) <=> Has(task_list, x) \/ x = id
    BY <1>0, <2>1, HasPosted DEF Posted, Tasks
  <2>3. /\ OneNeed(task_list') /\ OneBehind(task_list') /\ (Two(task_list') => Two(task_list))
        /\ DecodesFirst(task_list) => DecodesFirst(task_list')
    BY <1>0, <2>1, DemandPosted DEF Demand, Posted, Tasks
  <2>4. Busy' => Busy
    BY <2>1, <2>2 DEF Busy
  <2>5. Demand'
    BY <2>1, <2>2, <2>3, <2>4 DEF Demand, Decoding
  <2>6. Frames'
    BY <2>1, <2>2, <2>3 DEF Frames
  <2>. QED BY <2>5, <2>6
<1>2. CASE McuSpace \/ McuReady
  <2>1. UNCHANGED <<task_list, pc, decoder_state, frame_count, sbc_encoder_ready, ui_init_done>>
        /\ (mcu' = mcu \/ mcu' = "stopped")
    BY <1>2 DEF McuSpace, McuReady, sbc, codec
  <2>2. Demand'
    BY <2>1 DEF Demand, Decoding, Busy
  <2>3. Frames'
    BY <2>1 DEF Frames
  <2>. QED BY <2>2, <2>3
<1>3. ASSUME NEW length \in 1 .. MaxFrame, McuFrame(length) PROVE Demand' /\ Frames'
  <2>1. UNCHANGED <<pc, frame_count, sbc_encoder_ready, ui_init_done, mcu>>
    BY <1>3 DEF McuFrame, mp3_decoder_recv_frame, sbc, codec
  <2>2. CASE ~Kick(total_input')
    <3>1. UNCHANGED <<task_list, decoder_state>>
      BY <1>3, <2>2 DEF McuFrame, mp3_decoder_recv_frame
    <3>2. Demand'
      BY <2>1, <3>1 DEF Demand, Decoding, Busy
    <3>3. Frames'
      BY <2>1, <3>1 DEF Frames
    <3>. QED BY <3>2, <3>3
  <2>3. CASE Kick(total_input')
    <3>1. task_list' = Posted("MP3_DECODER_DO_DECODE") /\ decoder_state' = "BUFFERING" /\ decoder_state = "IDLE"
      BY <1>3, <2>3 DEF McuFrame, mp3_decoder_recv_frame, Kick
    <3>2. Busy
      <4>1. credit # 0
        BY <1>3, SizeAssumption DEF IInv, Types, McuFrame
      <4>. QED BY <4>1 DEF IInv, Lifecycle
    <3>3. ~sbc_encoder_ready /\ frame_count = 0 /\ ~Has(task_list, "MP3_DECODER_DO_DECODE")
          /\ ~Decoding /\ pc # "answered"
      BY <3>1, <3>2 DEF IInv, Start, Demand, Frames, Decoding
    <3>4. OneNeed(task_list') /\ OneBehind(task_list') /\ ~Two(task_list')
      BY <1>0, <3>1, <3>3, FirstPosted DEF Demand, Posted
    <3>5. Demand'
      BY <2>1, <3>1, <3>3, <3>4 DEF Demand, Decoding
    <3>6. Frames'
      BY <2>1, <3>1, <3>3, <3>4, NoFrames DEF Frames, Decoding
    <3>. QED BY <3>5, <3>6
  <2>. QED BY <2>2, <2>3
<1>. QED BY <1>1, <1>2, <1>3 DEF Mcu, McuSends

LEMMA StepKeepsDemand ==
  ASSUME IInv, Demand, Frames, [Next]_vars
  PROVE  Demand' /\ Frames'
<1>1. CASE mp3_decoder_init \/ mp3_decoder_do_decoder_handler
  BY <1>1, InitKeepsDemand, DecodeKeepsDemand, HandlerKeepsDemand DEF mp3_decoder_do_decoder_handler
<1>2. CASE NeedMoreSent \/ NeedMoreNoChannel
  <2>1. frame_count \in Nat /\ SBC_A2DP_SUB_FRAME_COUNT \in Nat
    BY SizeAssumption DEF IInv, Types
  <2>2. /\ frame_count - Lesser(frame_count, SBC_A2DP_SUB_FRAME_COUNT) \in Nat
        /\ frame_count - Lesser(frame_count, SBC_A2DP_SUB_FRAME_COUNT) <= frame_count
        /\ frame_count <= frame_count
    BY <2>1 DEF Lesser
  <2>. QED BY <1>2, <2>1, <2>2, NeedMoreKeepsDemand DEF NeedMoreSent, NeedMoreNoChannel
<1>3. CASE NeedMoreEnds
  BY <1>3, NeedMoreEndsKeepsDemand
<1>4. CASE NeedMoreNotReady
  <2>1. /\ Handles("MCU_NEED_MORE_SBC_DATA") /\ task_list' = Tail(task_list) /\ pc = "idle"
        /\ UNCHANGED <<pc, decoder_state, frame_count, sbc_encoder_ready, ui_init_done>>
    BY <1>4 DEF NeedMoreNotReady, Handles, sbc, codec
  <2>2. /\ OneNeed(task_list') /\ OneBehind(task_list') /\ ~Two(task_list')
        /\ Has(task_list', "MP3_DECODER_DO_DECODE") => Has(task_list, "MP3_DECODER_DO_DECODE")
    BY <2>1, TakingKeepsDemand
  <2>3. Demand'
    BY <2>1, <2>2 DEF Demand, Decoding
  <2>4. Frames'
    BY <2>1, <2>2 DEF Frames
  <2>. QED BY <2>3, <2>4
<1>5. CASE PrepareForNext
  <2>1. /\ Handles("DECODER_PREPARE_FOR_NEXT") /\ task_list' = Tail(task_list) /\ pc = "idle" /\ pc' = pc
        /\ frame_count' = 0 /\ sbc_encoder_ready' = FALSE /\ decoder_state' = "IDLE" /\ mcu' = "ready"
    BY <1>5 DEF PrepareForNext, Handles
  <2>2. OneNeed(task_list') /\ OneBehind(task_list')
    BY <2>1, TakingKeepsDemand
  <2>3. Demand'
    BY <2>1, <2>2 DEF Demand, Decoding, Busy
  <2>4. Frames'
    BY <2>1, NoFrames DEF Frames
  <2>. QED BY <2>3, <2>4
<1>6. CASE Mcu
  BY <1>6, McuKeepsDemand
<1>7. CASE UNCHANGED vars
  <2>1. UNCHANGED <<task_list, pc, decoder_state, frame_count, sbc_encoder_ready, ui_init_done, mcu>>
    BY <1>7 DEF vars, sbc, codec, peer
  <2>2. Demand'
    BY <2>1 DEF Demand, Decoding, Busy
  <2>3. Frames'
    BY <2>1 DEF Frames
  <2>. QED BY <2>2, <2>3
<1>. QED BY <1>1, <1>2, <1>3, <1>4, <1>5, <1>6, <1>7 DEF Next, MainLoop, sbc_encoder_recv_frame_req

(* Never more than two decodings are waiting to be done, the second posted *)
(* by the MCU's having asked again before the first was posted; and the    *)
(* list of encoded frames holds less than is sent at a time and two        *)
(* decodings make, however often the MCU asks and whether or not a channel *)
(* is free.                                                                *)
THEOREM NoFloodEver == SafeSpec => []NoFlood
<1>1. Init => Demand /\ Frames
  BY NoFrames DEF Init, Demand, Frames, OneNeed, OneBehind, Two, DecodesFirst, Has, Decoding
<1>2. IInv /\ (Demand /\ Frames) /\ [Next]_vars => (Demand /\ Frames)'
  BY StepKeepsDemand
<1>3. ASSUME IInv, Demand, Frames PROVE NoFlood
  <2> DEFINE D == {i \in 1 .. Len(task_list) : task_list[i] = "MP3_DECODER_DO_DECODE"}
  <2>1. Cardinality(D) <= 2
    <3>1. Len(task_list) \in Nat
      BY <1>3 DEF IInv, Lifecycle, Ordered
    <3>2. CASE D = {}
      BY <3>2, FS_EmptySet
    <3>3. CASE \E i \in D : D = {i}
      <4> HIDE DEF D
      <4>1. PICK i \in D : D = {i}
        BY <3>3
      <4>2. Cardinality(D) = 1
        BY <4>1, FS_Singleton
      <4>. QED BY <4>2
    <3>4. CASE D # {} /\ ~(\E i \in D : D = {i})
      <4>0. \E n, m \in D : n # m
        <5> HIDE DEF D
        <5>1. PICK n \in D : TRUE
          BY <3>4
        <5>2. D # {n}
          BY <3>4
        <5>. QED BY <5>1, <5>2
      <4>1. PICK i \in D, j \in D : i < j
        BY <3>1, <4>0
      <4>2. \A k \in D : k = i \/ k = j
        <5>1. SUFFICES ASSUME NEW k \in D, k # i, k # j PROVE FALSE
          OBVIOUS
        <5>2. \/ i < j /\ j < k
              \/ i < k /\ k < j
              \/ k < i /\ i < j
          BY <3>1, <4>1, <5>1
        <5>. QED BY <1>3, <5>2, <4>1, <5>1 DEF Demand, OneBehind
      <4>3. D = {i, j}
        BY <4>1, <4>2
      <4> HIDE DEF D
      <4>4. Cardinality({i}) = 1 /\ IsFiniteSet({i})
        BY FS_Singleton
      <4>5. Cardinality({i} \cup {j}) <= 2
        BY <4>4, FS_AddElement
      <4>6. {i} \cup {j} = {i, j}
        OBVIOUS
      <4>. QED BY <4>3, <4>5, <4>6
    <3>. QED BY <3>2, <3>3, <3>4
  <2>. QED BY <1>3, <2>1 DEF Frames, NoFlood
<1>. QED BY <1>1, <1>2, <1>3, Inductive, PTL DEF SafeSpec
=============================================================================
