----------------------------- MODULE BootProofs -----------------------------
(***************************************************************************)
(* Theorems about the start of the DSP (Boot.tla): first the boot loader   *)
(* over UART (UartBoot.tla), for every length of an answer, a header and a *)
(* payload, and every set of sectors, contents and rates; then the loader  *)
(* over IPC (IpcBoot.tla), for every number of channels, of buffers and of *)
(* pieces of the user code.                                                *)
(***************************************************************************)
EXTENDS Boot, FiniteSetTheorems, SequenceTheorems, TLAPS

(* The inductive invariant.  One part per phase: what is on the line in    *)
(* the first offer (First), in the session (Session) and after it (Gone);  *)
(* that no ok is on its way but in the session (Handshake); and what the   *)
(* tool knows of the flash while a request is carried out (Told).          *)
Codes == {"GET_TYPE", "READ_ENABLE", "WRITE_RAM", "WRITE", "READ", "BLOCK_ERASE",
          "CHANGE_BANDRATE", "DISCONNECT"}

Bytes == {"stray", "ack", "request"} \X Nat

Hosts == [at : {"listens", "answers", "session", "gone"}, sent : Nat, baud : Bauds,
          request : Requests \cup {None}, knows : [Sectors -> Contents \cup {"unknown"}]]

Sent == [what : {"freqchip", "ok"} \cup Codes, content : Contents \cup {None}, baud : Bauds]

Types ==
  /\ at \in {"request", "poll", "compare", "decide", "app", "lost"} \cup InSession
  /\ retry_count \in 0 .. 3 /\ do_handshake \in {0, 1} /\ i \in 0 .. wait_to_ms
  /\ buffer \in Seq(Bytes) /\ rx \in Seq(Bytes) /\ tx \in Seq(Sent)
  /\ baud \in Bauds /\ flash \in [Sectors -> Contents] /\ host \in Hosts
  /\ protected \in BOOLEAN

Offering == {"request", "poll", "compare"}

Counting ==
  at \in Offering => retry_count >= 1 /\ (do_handshake = 1 <=> retry_count = 3)

(* What has come in, when n bytes of the answer have been sent: a stray    *)
(* byte may be in front of them.                                           *)
Line == buffer \o rx
Arrived(n) == {Message("ack", n), Message("stray", 1) \o Message("ack", n)}

Speechless == host.at \in {"listens", "answers"}

Handshake ==
  /\ Speechless =>
       /\ host.request = None /\ host.baud = baud
       /\ \A s \in Sectors : host.knows[s] = "unknown"
       /\ \A k \in 1 .. Len(tx) : tx[k].baud = baud /\ tx[k].what \in {"freqchip", "ok"}
  /\ at \notin InSession \cup {"app"} => Speechless
  /\ at \notin InSession /\ Speechless => ~OnItsWay("ok")

First ==
  do_handshake = 1 =>
    /\ at = "request" => /\ buffer = <<>> /\ tx = <<>> /\ host.at = "listens"
                         /\ Line \in Arrived(0)
    /\ at \in {"poll", "compare"} =>
         \/ Len(tx) = 1 /\ tx[1].what = "freqchip" /\ host.at = "listens" /\ Line \in Arrived(0)
         \/ tx = <<>> /\ host.at = "answers" /\ host.sent < ACK_LEN /\ Line \in Arrived(host.sent)
         \/ tx = <<>> /\ host.at = "listens" /\ Line \in Arrived(ACK_LEN)
    /\ at = "decide" => tx = <<>> /\ host.at = "listens" /\ rx = <<>>

(* A request is on its way or being carried out, or its answer is sent.    *)
Silent == at = "header" /\ buffer = <<>> /\ rx = <<>>

Asked ==
  /\ tx = <<>> /\ host.baud = baud
  /\ host.sent <= Size(host.request) /\ Line = Message("request", host.sent)
  /\ at = "header" => Len(buffer) < HEADER_LEN
  /\ at = "payload" => Len(buffer) >= HEADER_LEN /\ Len(buffer) < Size(host.request)
  /\ at \in {"command", "answer"} => Len(buffer) = Size(host.request)

Answered ==
  /\ Len(tx) = 1 /\ tx[1].what = host.request.code /\ tx[1].baud = host.baud
  /\ host.sent = Size(host.request)

Ends(r) == r.code = "DISCONNECT" /\ r.address # 0

Session ==
  at \in InSession =>
    \/ host.at = "listens" /\ Len(tx) = 1 /\ tx[1].what = "ok" /\ Silent
    \/ host.at = "session" /\ host.request = None /\ tx = <<>> /\ host.baud = baud /\ Silent
    \/ host.at = "session" /\ host.request # None /\ Asked
    \/ /\ host.at = "session" /\ host.request # None /\ ~Ends(host.request)
       /\ Answered /\ Silent
       /\ baud = IF host.request.code = "CHANGE_BANDRATE" THEN host.request.address ELSE host.baud
       /\ host.request.code = "READ" => tx[1].content = flash[host.request.address]

Gone ==
  at = "app" =>
    \/ Speechless
    \/ host.at = "session" /\ host.request # None /\ Ends(host.request) /\ Answered
    \/ host.at = "gone" /\ host.request = None /\ tx = <<>>

Executed == host.request # None /\ (at = "answer" \/ tx # <<>>)

Changed(s) ==
  /\ Executed /\ host.request.address = s
  /\ \/ host.request.code = "WRITE" /\ host.request.length # 0
     \/ host.request.code = "BLOCK_ERASE"

Told ==
  /\ host.request # None /\ host.request.code = "WRITE" => host.knows[host.request.address] = "erased"
  /\ ~protected =>
       \A s \in Sectors :
         IF Changed(s)
         THEN flash[s] = IF host.request.code = "WRITE" THEN host.request.data ELSE "erased"
         ELSE host.knows[s] # "unknown" => flash[s] = host.knows[s]

IInv == Types /\ Counting /\ Handshake /\ First /\ Session /\ Gone /\ Told

-----------------------------------------------------------------------------
LEMMA Constants ==
  /\ ACK_LEN \in Nat \ {0} /\ HEADER_LEN \in Nat \ {0} /\ PAYLOAD_LEN \in Nat \ {0}
  /\ wait_to_ms \in Nat \ {0} /\ None \notin Requests
  /\ "unknown" \notin Contents /\ "erased" \in Contents
BY BootAssumption, NoneAssumption DEF Contents

LEMMA RequestIs ==
  ASSUME NEW r \in Requests
  PROVE  /\ r.code \in Codes /\ r # None
         /\ r.length \in Nat /\ Size(r) \in Nat /\ Size(r) >= HEADER_LEN
         /\ r.code = "WRITE" => r.address \in Sectors /\ r.data \in Data
         /\ r.code \in {"READ", "BLOCK_ERASE"} => r.address \in Sectors
         /\ r.code = "CHANGE_BANDRATE" => r.address \in Bauds
<1>1. /\ r.code \in Codes /\ r.length \in {0, PAYLOAD_LEN}
      /\ r.code = "WRITE" => r.address \in Sectors /\ r.data \in Data
      /\ r.code \in {"READ", "BLOCK_ERASE"} => r.address \in Sectors
      /\ r.code = "CHANGE_BANDRATE" => r.address \in Bauds
  BY DEF Requests, Codes
<1>2. r # None /\ r.length \in Nat
  BY <1>1, Constants
<1>3. Size(r) \in Nat /\ Size(r) >= HEADER_LEN
  BY <1>2, Constants DEF Size
<1>. QED BY <1>1, <1>2, <1>3

(* The bytes of a message, one by one. *)
LEMMA MessageIs ==
  ASSUME NEW kind \in {"stray", "ack", "request"}, NEW n \in Nat
  PROVE  /\ Message(kind, n) \in Seq(Bytes) /\ Len(Message(kind, n)) = n
         /\ \A k \in 1 .. n : Message(kind, n)[k] = <<kind, k>>
<1>1. Message(kind, n) \in [1 .. n -> Bytes]
  BY DEF Message, Bytes
<1>2. Message(kind, n) \in Seq(Bytes)
  BY <1>1, SeqDef
<1>3. DOMAIN Message(kind, n) = 1 .. n
  BY DEF Message
<1>4. Len(Message(kind, n)) = n
  BY <1>2, <1>3, LenProperties
<1>5. \A k \in 1 .. n : Message(kind, n)[k] = <<kind, k>>
  BY DEF Message
<1>. QED BY <1>2, <1>4, <1>5

LEMMA NoMessage ==
  ASSUME NEW kind \in {"stray", "ack", "request"}
  PROVE  Message(kind, 0) = <<>>
<1> DEFINE s == Message(kind, 0)
<1>1. s \in Seq(Bytes) /\ Len(s) = 0
  BY MessageIs
<1> HIDE DEF s
<1>2. s # <<>> => Len(s) \in Nat \ {0}
  BY ONLY <1>1, EmptySeq
<1>3. s = <<>>
  BY ONLY <1>1, <1>2
<1>. QED BY <1>3 DEF s

LEMMA MessageGrows ==
  ASSUME NEW kind \in {"stray", "ack", "request"}, NEW n \in Nat
  PROVE  Append(Message(kind, n), <<kind, n + 1>>) = Message(kind, n + 1)
<1> DEFINE s == Message(kind, n)
           e == <<kind, n + 1>>
           t == Message(kind, n + 1)
<1>1. e \in Bytes
  BY DEF Bytes
<1>2. /\ s \in Seq(Bytes) /\ Len(s) = n /\ \A k \in 1 .. n : s[k] = <<kind, k>>
      /\ t \in Seq(Bytes) /\ Len(t) = n + 1 /\ \A k \in 1 .. n + 1 : t[k] = <<kind, k>>
  BY MessageIs
<1> HIDE DEF s, t
<1>3. /\ Append(s, e) \in Seq(Bytes) /\ Len(Append(s, e)) = n + 1
      /\ \A k \in 1 .. n : Append(s, e)[k] = s[k]
      /\ Append(s, e)[n + 1] = e
  BY <1>1, <1>2, AppendProperties
<1>4. \A k \in 1 .. n + 1 : k \in 1 .. n \/ k = n + 1
  OBVIOUS
<1>5. \A k \in 1 .. n + 1 : Append(s, e)[k] = t[k]
  BY <1>2, <1>3, <1>4
<1>6. Append(s, e) = t
  BY <1>2, <1>3, <1>5, SeqEqual
<1>. QED BY <1>6 DEF s, t

(* Bytes come in behind, and are taken in front: the line stays the same.  *)
LEMMA ByteComes ==
  ASSUME NEW s \in Seq(Bytes), NEW t \in Seq(Bytes), NEW e \in Bytes
  PROVE  s \o Append(t, e) = Append(s \o t, e) /\ Append(t, e) \in Seq(Bytes)
<1>1. Append(t, e) = t \o <<e>> /\ <<e>> \in Seq(Bytes)
  BY AppendIsConcat
<1>2. Append(s \o t, e) = (s \o t) \o <<e>>
  BY ConcatProperties, AppendIsConcat
<1>3. (s \o t) \o <<e>> = s \o (t \o <<e>>)
  BY <1>1, ConcatAssociative
<1>. QED BY <1>1, <1>2, <1>3, AppendProperties

LEMMA Regrouped ==
  ASSUME NEW s \in Seq(Bytes), NEW t \in Seq(Bytes), NEW u \in Seq(Bytes)
  PROVE  (s \o t) \o u = s \o (t \o u)
BY ConcatAssociative

LEMMA BytesTaken ==
  ASSUME NEW s \in Seq(Bytes), NEW t \in Seq(Bytes), NEW k \in 0 .. Len(t)
  PROVE  /\ (s \o SubSeq(t, 1, k)) \o SubSeq(t, k + 1, Len(t)) = s \o t
         /\ s \o SubSeq(t, 1, k) \in Seq(Bytes) /\ SubSeq(t, k + 1, Len(t)) \in Seq(Bytes)
         /\ Len(s \o SubSeq(t, 1, k)) = Len(s) + k
<1> DEFINE u == SubSeq(t, 1, k)
           v == SubSeq(t, k + 1, Len(t))
<1>1. Len(t) \in Nat /\ k \in Nat /\ k <= Len(t) /\ \A j \in 1 .. Len(t) : t[j] \in Bytes
  BY LenProperties, ElementOfSeq
<1>2. u \in Seq(Bytes) /\ Len(u) = k
  <2>1. \A j \in 1 .. k : t[j] \in Bytes
    BY <1>1
  <2>2. u \in Seq(Bytes) /\ Len(u) = IF 1 <= k THEN k - 1 + 1 ELSE 0
    BY <1>1, <2>1, SubSeqProperties
  <2> HIDE DEF u
  <2>. QED BY <1>1, <2>2
<1>3. v \in Seq(Bytes)
  <2>1. \A j \in k + 1 .. Len(t) : t[j] \in Bytes
    BY <1>1
  <2>. QED BY <1>1, <2>1, SubSeqProperties
<1>4. u \o v = SubSeq(t, 1, Len(t))
  <2>1. 1 \in 1 .. Len(t) + 1 /\ k \in 1 - 1 .. Len(t) /\ Len(t) \in k .. Len(t)
    BY <1>1
  <2>. QED BY <2>1, ConcatAdjacentSubSeq
<1>5. u \o v = t
  BY <1>4, SubSeqFull
<1> HIDE DEF u, v
<1>6. (s \o u) \o v = s \o t
  <2>1. s \in Seq(Bytes) /\ u \in Seq(Bytes) /\ v \in Seq(Bytes)
    BY <1>2, <1>3
  <2>2. (s \o u) \o v = s \o (u \o v)
    BY ONLY <2>1, Regrouped
  <2>. QED BY <1>5, <2>2
<1>7. s \o u \in Seq(Bytes) /\ Len(s \o u) = Len(s) + k
  BY <1>2, ConcatProperties
<1>. QED BY <1>3, <1>6, <1>7 DEF u, v

LEMMA ByteTaken ==
  ASSUME NEW s \in Seq(Bytes), NEW t \in Seq(Bytes), t # <<>>
  PROVE  /\ Append(s, Head(t)) \o Tail(t) = s \o t
         /\ Append(s, Head(t)) \in Seq(Bytes) /\ Tail(t) \in Seq(Bytes)
         /\ Len(Append(s, Head(t))) = Len(s) + 1
<1> DEFINE e == Head(t)
           v == Tail(t)
<1>1. e \in Bytes /\ v \in Seq(Bytes)
  BY HeadTailProperties
<1>2. t = <<e>> \o v /\ <<e>> \in Seq(Bytes)
  BY <1>1
<1> HIDE DEF e, v
<1>3. Append(s, e) = s \o <<e>>
  BY <1>1, AppendIsConcat
<1>4. (s \o <<e>>) \o v = s \o (<<e>> \o v)
  BY <1>1, <1>2, ConcatAssociative
<1>5. Append(s, e) \o v = s \o t
  BY <1>2, <1>3, <1>4
<1>6. Append(s, e) \in Seq(Bytes) /\ Len(Append(s, e)) = Len(s) + 1
  BY <1>1, AppendProperties
<1>. QED BY <1>1, <1>5, <1>6 DEF e, v

(* What arrives before the session. *)
LEMMA ArrivedGrows ==
  ASSUME NEW n \in Nat, NEW x \in Arrived(n)
  PROVE  Append(x, <<"ack", n + 1>>) \in Arrived(n + 1)
<1> DEFINE s == Message("stray", 1)
           m == Message("ack", n)
           e == <<"ack", n + 1>>
<1>1. s \in Seq(Bytes) /\ m \in Seq(Bytes) /\ e \in Bytes
  <2>1. s \in Seq(Bytes) /\ m \in Seq(Bytes)
    BY ONLY MessageIs, n \in Nat
  <2>2. e \in Bytes
    BY DEF Bytes
  <2>. QED BY <2>1, <2>2
<1>2. Append(m, e) = Message("ack", n + 1)
  BY MessageGrows
<1>3. s \o Append(m, e) = Append(s \o m, e)
  BY <1>1, ByteComes
<1>. QED BY <1>2, <1>3 DEF Arrived

LEMMA FirstOfConcat ==
  ASSUME NEW s \in Seq(Bytes), NEW t \in Seq(Bytes), Len(s) >= 1
  PROVE  Len(s \o t) = Len(s) + Len(t) /\ (s \o t)[1] = s[1]
<1>1. /\ Len(s \o t) = Len(s) + Len(t)
      /\ \A k \in 1 .. Len(s) + Len(t) :
           (s \o t)[k] = IF k <= Len(s) THEN s[k] ELSE t[k - Len(s)]
  BY ConcatProperties
<1>2. Len(s) \in Nat /\ Len(t) \in Nat
  BY LenProperties
<1>3. 1 \in 1 .. Len(s) + Len(t) /\ 1 <= Len(s)
  BY <1>2
<1>. QED BY <1>1, <1>3

LEMMA OnlyTheAck ==
  ASSUME NEW t \in Seq(Bytes), NEW n \in 0 .. ACK_LEN, Ack \o t \in Arrived(n)
  PROVE  n = ACK_LEN /\ t = <<>>
<1> DEFINE s == Message("stray", 1)
           m == Message("ack", n)
<1>1. /\ Ack \in Seq(Bytes) /\ Len(Ack) = ACK_LEN /\ Ack[1] = <<"ack", 1>>
      /\ s \in Seq(Bytes) /\ Len(s) = 1 /\ s[1] = <<"stray", 1>>
      /\ m \in Seq(Bytes) /\ Len(m) = n
  <2>1. ACK_LEN \in Nat /\ 1 \in 1 .. ACK_LEN /\ n \in Nat /\ 1 \in 1 .. 1
    BY Constants
  <2>2. Ack = Message("ack", ACK_LEN)
    BY DEF Ack
  <2>3. Ack \in Seq(Bytes) /\ Len(Ack) = ACK_LEN /\ Ack[1] = <<"ack", 1>>
    BY ONLY <2>1, <2>2, MessageIs
  <2>4. s \in Seq(Bytes) /\ Len(s) = 1 /\ s[1] = <<"stray", 1>>
    BY ONLY <2>1, MessageIs
  <2>5. m \in Seq(Bytes) /\ Len(m) = n
    BY ONLY <2>1, MessageIs
  <2>. QED BY ONLY <2>3, <2>4, <2>5
<1>2. Len(t) \in Nat /\ ACK_LEN \in Nat \ {0} /\ n \in Nat
  BY Constants, LenProperties
<1> HIDE DEF s, m
<1>3. Len(Ack \o t) = ACK_LEN + Len(t) /\ (Ack \o t)[1] = <<"ack", 1>>
  <2>1. Ack \in Seq(Bytes) /\ t \in Seq(Bytes) /\ Len(Ack) >= 1
    BY <1>1, <1>2
  <2>2. Len(Ack \o t) = Len(Ack) + Len(t) /\ (Ack \o t)[1] = Ack[1]
    BY ONLY <2>1, FirstOfConcat
  <2>. QED BY <1>1, <2>2
<1>4. (s \o m)[1] = <<"stray", 1>>
  <2>1. Len(s) >= 1
    BY <1>1
  <2>. QED BY ONLY <1>1, <2>1, FirstOfConcat
<1>5. <<"ack", 1>> # <<"stray", 1>>
  OBVIOUS
<1>6. Ack \o t = m
  BY <1>3, <1>4, <1>5 DEF Arrived, s, m
<1>7. ACK_LEN + Len(t) = n
  BY <1>1, <1>3, <1>6
<1>8. n = ACK_LEN /\ Len(t) = 0
  BY <1>2, <1>7
<1>. QED BY <1>8, EmptySeq

(* What is sent to the tool, and what it reads. *)
LEMMA Written ==
  ASSUME NEW s \in Seq(Sent), NEW t \in Sent
  PROVE  /\ Append(s, t) \in Seq(Sent) /\ Append(s, t) # <<>>
         /\ \A k \in 1 .. Len(Append(s, t)) :
              Append(s, t)[k] = t \/ (k \in 1 .. Len(s) /\ Append(s, t)[k] = s[k])
         /\ s = <<>> => Len(Append(s, t)) = 1 /\ Append(s, t)[1] = t
<1>1. /\ Append(s, t) \in Seq(Sent) /\ Append(s, t) # <<>>
      /\ Len(Append(s, t)) = Len(s) + 1
      /\ \A k \in 1 .. Len(s) : Append(s, t)[k] = s[k]
      /\ Append(s, t)[Len(s) + 1] = t
  BY AppendProperties
<1>2. Len(s) \in Nat /\ (s = <<>> => Len(s) = 0)
  BY LenProperties, EmptySeq
<1>3. \A k \in 1 .. Len(s) + 1 : k \in 1 .. Len(s) \/ k = Len(s) + 1
  BY <1>2
<1>. QED BY <1>1, <1>2, <1>3

LEMMA Received ==
  ASSUME NEW s \in Seq(Sent), s # <<>>
  PROVE  /\ Head(s) = s[1] /\ s[1] \in Sent /\ 1 \in 1 .. Len(s) /\ Tail(s) \in Seq(Sent)
         /\ \A k \in 1 .. Len(Tail(s)) : k + 1 \in 1 .. Len(s) /\ Tail(s)[k] = s[k + 1]
         /\ Len(s) = 1 => Tail(s) = <<>>
<1>1. Len(s) \in Nat \ {0} /\ 1 \in 1 .. Len(s) /\ Head(s) = s[1]
  <2>1. Len(s) \in Nat \ {0}
    BY EmptySeq
  <2>. QED BY <2>1
<1>2. /\ Tail(s) \in Seq(Sent) /\ Len(Tail(s)) = Len(s) - 1
      /\ \A k \in 1 .. Len(Tail(s)) : Tail(s)[k] = s[k + 1]
  BY HeadTailProperties
<1>3. \A k \in 1 .. Len(Tail(s)) : k + 1 \in 1 .. Len(s)
  BY <1>1, <1>2
<1>4. Len(s) = 1 => Tail(s) = <<>>
  <2>1. Tail(s) # <<>> => Len(Tail(s)) \in Nat \ {0}
    BY ONLY <1>2, EmptySeq
  <2>. QED BY <1>2, <2>1
<1>. QED BY <1>1, <1>2, <1>3, <1>4, ElementOfSeq

(* The parts of the type invariant. *)
LEMMA Fields ==
  ASSUME Types
  PROVE  /\ host.at \in {"listens", "answers", "session", "gone"} /\ host.sent \in Nat
         /\ host.baud \in Bauds /\ host.request \in Requests \cup {None}
         /\ host.knows \in [Sectors -> Contents \cup {"unknown"}]
         /\ Line \in Seq(Bytes) /\ Len(buffer) \in Nat /\ Len(rx) \in Nat
         /\ Len(Line) = Len(buffer) + Len(rx)
         /\ buffer = <<>> => Line = rx /\ Len(buffer) = 0
         /\ Len(rx) = 0 => rx = <<>>
         /\ tx = <<>> => Len(tx) = 0
<1>1. /\ host.at \in {"listens", "answers", "session", "gone"} /\ host.sent \in Nat
      /\ host.baud \in Bauds /\ host.request \in Requests \cup {None}
      /\ host.knows \in [Sectors -> Contents \cup {"unknown"}]
  BY DEF Types, Hosts
<1>2. /\ Line \in Seq(Bytes) /\ Len(buffer) \in Nat /\ Len(rx) \in Nat
      /\ Len(Line) = Len(buffer) + Len(rx)
  BY ConcatProperties, LenProperties DEF Types, Line
<1>3. buffer = <<>> => Line = rx /\ Len(buffer) = 0
  BY ConcatEmptySeq, EmptySeq DEF Types, Line
<1>4. Len(rx) = 0 => rx = <<>>
  BY EmptySeq DEF Types
<1>5. tx = <<>> => Len(tx) = 0
  BY EmptySeq
<1>. QED BY <1>1, <1>2, <1>3, <1>4, <1>5

(* The tool has been told nothing new while it has no request. *)
LEMMA NothingTold ==
  ASSUME Told, host.request = None, host' = host, flash' = flash, UNCHANGED protected
  PROVE  Told'
BY DEF Told, Changed, Executed

LEMMA OfferKeeps ==
  ASSUME IInv, Offer, UNCHANGED protected
  PROVE  IInv'
<1> DEFINE t == [what |-> "freqchip", content |-> None, baud |-> baud]
<1>1. /\ at = "request" /\ at' = "poll" /\ tx' = Append(tx, t) /\ buffer' = <<>> /\ i' = 0
      /\ UNCHANGED <<retry_count, do_handshake, baud, flash, rx, host>>
      /\ t \in Sent /\ tx \in Seq(Sent) /\ t.what = "freqchip" /\ t.baud = baud
  BY DEF Offer, uart_write, IInv, Types, Sent
<1> HIDE DEF t
<1>2. /\ tx' \in Seq(Sent)
      /\ \A k \in 1 .. Len(tx') : tx'[k] = t \/ (k \in 1 .. Len(tx) /\ tx'[k] = tx[k])
      /\ tx = <<>> => Len(tx') = 1 /\ tx'[1] = t
  BY <1>1, Written
<1>3. Speechless /\ ~OnItsWay("ok")
  BY <1>1 DEF IInv, Handshake, InSession
<1>4. Types'
  BY <1>1, <1>2, Constants, EmptySeq DEF IInv, Types
<1>5. Counting'
  BY <1>1 DEF IInv, Counting, Offering
<1>6. Handshake'
  <2>1. Speechless' /\ host.request = None /\ host.baud = baud
    BY <1>1, <1>3 DEF IInv, Handshake, Speechless
  <2>2. \A k \in 1 .. Len(tx') : tx'[k].baud = baud' /\ tx'[k].what = "freqchip"
    BY <1>1, <1>2, <1>3 DEF IInv, Handshake, OnItsWay
  <2>. QED BY <1>1, <1>3, <2>1, <2>2 DEF IInv, Handshake, OnItsWay
<1>7. First'
  <2>1. do_handshake = 1 => /\ tx = <<>> /\ host.at = "listens" /\ rx = Line /\ Line \in Arrived(0)
    BY <1>1, Fields DEF IInv, First
  <2>2. Line' = rx
    BY <1>1, <1>4, Fields DEF IInv, Types, Line
  <2>. QED BY <1>1, <1>2, <2>1, <2>2 DEF First, Arrived
<1>8. Session' /\ Gone'
  BY <1>1 DEF Session, Gone, InSession
<1>9. Told'
  BY <1>1, <1>3, NothingTold DEF IInv, Handshake
<1>. QED BY <1>4, <1>5, <1>6, <1>7, <1>8, <1>9 DEF IInv

LEMMA GetsKeeps ==
  ASSUME IInv, app_boot_serial_gets, UNCHANGED protected
  PROVE  IInv'
<1> DEFINE k == IF Len(rx) < ACK_LEN THEN Len(rx) ELSE ACK_LEN
<1>1. /\ at = "poll" /\ at' \in {"poll", "compare", "lost"} /\ i < wait_to_ms /\ i' = i + 1
      /\ buffer' = buffer \o SubSeq(rx, 1, k) /\ rx' = SubSeq(rx, k + 1, Len(rx))
      /\ UNCHANGED <<retry_count, do_handshake, baud, flash, tx, host>>
  BY DEF app_boot_serial_gets
<1>2. k \in 0 .. Len(rx) /\ buffer \in Seq(Bytes) /\ rx \in Seq(Bytes)
  BY Constants, Fields DEF IInv, Types
<1> HIDE DEF k
<1>3. Line' = Line /\ buffer' \in Seq(Bytes) /\ rx' \in Seq(Bytes)
  BY <1>1, <1>2, BytesTaken DEF Line
<1>4. Speechless /\ ~OnItsWay("ok")
  BY <1>1 DEF IInv, Handshake, InSession
<1>5. Types'
  BY <1>1, <1>3, Constants DEF IInv, Types
<1>6. Counting'
  BY <1>1 DEF IInv, Counting, Offering
<1>7. Handshake'
  BY <1>1, <1>4 DEF IInv, Handshake, Speechless, OnItsWay
<1>8. First'
  BY <1>1, <1>3 DEF IInv, First, Arrived
<1>9. Session' /\ Gone'
  BY <1>1 DEF Session, Gone, InSession
<1>10. Told'
  BY <1>1, <1>4, NothingTold DEF IInv, Handshake
<1>. QED BY <1>5, <1>6, <1>7, <1>8, <1>9, <1>10 DEF IInv

LEMMA FailsKeeps ==
  ASSUME IInv, at \in {"poll", "compare"}, Fails,
         UNCHANGED <<i, buffer, baud, flash, rx, tx, host, protected>>
  PROVE  IInv'
<1>1. /\ retry_count \in 1 .. 3 /\ do_handshake' = 0 /\ retry_count' = retry_count - 1
      /\ at' \in {"request", "decide"} /\ (at' = "request" => retry_count # 1)
  BY DEF IInv, Types, Counting, Offering, Fails
<1>2. Speechless /\ ~OnItsWay("ok")
  BY DEF IInv, Handshake, InSession
<1>3. Types'
  BY <1>1 DEF IInv, Types
<1>4. Counting'
  BY <1>1 DEF Counting, Offering
<1>5. Handshake'
  BY <1>1, <1>2 DEF IInv, Handshake, Speechless, OnItsWay, InSession
<1>6. First' /\ Session' /\ Gone'
  BY <1>1 DEF First, Session, Gone, InSession
<1>7. Told'
  BY <1>2, NothingTold DEF IInv, Handshake
<1>. QED BY <1>3, <1>4, <1>5, <1>6, <1>7 DEF IInv

LEMMA ComparesKeeps ==
  ASSUME IInv, Compares, UNCHANGED protected
  PROVE  IInv'
<1>1. CASE buffer # Ack
  BY <1>1, FailsKeeps DEF Compares
<1>2. CASE buffer = Ack
  <2>1. at = "compare" /\ at' = "decide"
        /\ UNCHANGED <<retry_count, do_handshake, i, buffer, baud, flash, rx, tx, host>>
    BY <1>2 DEF Compares
  <2>2. Speechless /\ ~OnItsWay("ok")
    BY <2>1 DEF IInv, Handshake, InSession
  <2>3. Types' /\ Counting'
    BY <2>1 DEF IInv, Types, Counting, Offering
  <2>4. Handshake'
    BY <2>1, <2>2 DEF IInv, Handshake, Speechless, OnItsWay
  <2>5. ASSUME do_handshake = 1
        PROVE  tx = <<>> /\ host.at = "listens" /\ rx = <<>>
    <3>1. ACK_LEN \in 0 .. ACK_LEN /\ 0 \in 0 .. ACK_LEN /\ ACK_LEN # 0
      BY Constants
    <3>2. rx \in Seq(Bytes) /\ Line = Ack \o rx
      BY <1>2 DEF IInv, Types, Line
    <3>3. /\ ~(Line \in Arrived(0))
          /\ host.at = "answers" => ~(host.sent < ACK_LEN /\ Line \in Arrived(host.sent))
          /\ Line \in Arrived(ACK_LEN) => rx = <<>>
      <4>1. host.sent \in Nat /\ (host.sent < ACK_LEN => host.sent \in 0 .. ACK_LEN)
        BY Fields, Constants DEF IInv
      <4>. QED BY <3>1, <3>2, <4>1, OnlyTheAck, Constants
    <3>. QED BY <2>1, <2>5, <3>3 DEF IInv, First
  <2>6. First'
    BY <2>1, <2>5 DEF First
  <2>7. Session' /\ Gone'
    BY <2>1 DEF Session, Gone, InSession
  <2>8. Told'
    BY <2>1, <2>2, NothingTold DEF IInv, Handshake
  <2>. QED BY <2>3, <2>4, <2>6, <2>7, <2>8 DEF IInv
<1>. QED BY <1>1, <1>2

LEMMA DecidesKeeps ==
  ASSUME IInv, Decides, UNCHANGED protected
  PROVE  IInv'
<1>1. /\ at = "decide" /\ buffer' = <<>>
      /\ UNCHANGED <<retry_count, do_handshake, i, baud, flash, rx, host>>
  BY DEF Decides
<1>2. Speechless /\ ~OnItsWay("ok")
  BY <1>1 DEF IInv, Handshake, InSession
<1>3. Told'
  BY <1>1, <1>2, NothingTold DEF IInv, Handshake
<1>4. CASE do_handshake = 1 /\ at' = "header" /\ uart_write("ok", None)
  <2> DEFINE t == [what |-> "ok", content |-> None, baud |-> baud]
  <2>1. tx' = Append(tx, t) /\ t \in Sent /\ tx \in Seq(Sent) /\ t.what = "ok" /\ t.baud = baud
    BY <1>4 DEF uart_write, IInv, Types, Sent
  <2>2. tx = <<>> /\ host.at = "listens" /\ rx = <<>>
    BY <1>1, <1>4 DEF IInv, First
  <2> HIDE DEF t
  <2>3. tx' \in Seq(Sent) /\ Len(tx') = 1 /\ tx'[1] = t /\ (\A k \in 1 .. Len(tx') : tx'[k] = t)
    <3>1. tx' \in Seq(Sent) /\ Len(tx') = 1 /\ tx'[1] = t
      BY <2>1, <2>2, Written
    <3>. QED BY <3>1
  <2>4. Types'
    BY <1>1, <1>4, <2>3, EmptySeq DEF IInv, Types, InSession
  <2>5. Counting' /\ First' /\ Gone'
    BY <1>4 DEF Counting, First, Gone, Offering
  <2>6. Handshake'
    BY <1>1, <1>2, <1>4, <2>1, <2>3 DEF IInv, Handshake, Speechless, InSession
  <2>7. Session'
    BY <1>1, <1>4, <2>1, <2>2, <2>3 DEF Session, Silent
  <2>. QED BY <1>3, <2>4, <2>5, <2>6, <2>7 DEF IInv
<1>5. CASE do_handshake = 0 /\ at' = "app" /\ UNCHANGED tx
  <2>1. Types'
    BY <1>1, <1>5, EmptySeq DEF IInv, Types
  <2>2. Counting' /\ First' /\ Session'
    BY <1>1, <1>5 DEF Counting, First, Session, Offering, InSession
  <2>3. Handshake' /\ Gone'
    BY <1>1, <1>2, <1>5 DEF IInv, Handshake, Gone, Speechless, OnItsWay
  <2>. QED BY <1>3, <2>1, <2>2, <2>3 DEF IInv
<1>. QED BY <1>4, <1>5 DEF Decides

(* In the session, what is not silent is a request. *)
LEMMA InRequest ==
  ASSUME IInv, at \in InSession, rx # <<>> \/ at # "header"
  PROVE  host.at = "session" /\ host.request # None /\ host.request \in Requests /\ Asked
<1>1. host.at = "session" /\ host.request # None /\ Asked
  BY DEF IInv, Session, Silent
<1>. QED BY <1>1, Fields DEF IInv

LEMMA TakesKeeps ==
  ASSUME IInv, uart_get_data_noint, UNCHANGED protected
  PROVE  IInv'
<1> DEFINE n == Len(buffer)
           z == Size(host.request)
<1>1. /\ at \in {"header", "payload"} /\ rx # <<>>
      /\ buffer' = Append(buffer, Head(rx)) /\ rx' = Tail(rx)
      /\ UNCHANGED <<retry_count, do_handshake, i, baud, flash, tx, host>>
      /\ at' = IF Len(buffer') < HEADER_LEN THEN "header"
               ELSE IF Len(buffer') < z THEN "payload" ELSE "command"
  BY DEF uart_get_data_noint
<1>2. host.at = "session" /\ host.request # None /\ host.request \in Requests /\ Asked
  BY <1>1, InRequest DEF InSession
<1>3. buffer \in Seq(Bytes) /\ rx \in Seq(Bytes)
  BY DEF IInv, Types
<1>4. Line' = Line /\ buffer' \in Seq(Bytes) /\ rx' \in Seq(Bytes) /\ Len(buffer') = n + 1
  BY <1>1, <1>3, ByteTaken DEF Line
<1>5. z \in Nat /\ z >= HEADER_LEN /\ HEADER_LEN \in Nat /\ n \in Nat
  BY <1>2, RequestIs, Constants, Fields DEF IInv
<1>6. n + 1 <= z
  BY <1>1, <1>2, <1>5 DEF Asked
<1> HIDE DEF n, z
<1>7. /\ at' \in {"header", "payload", "command"}
      /\ at' = "header" => Len(buffer') < HEADER_LEN
      /\ at' = "payload" => Len(buffer') >= HEADER_LEN /\ Len(buffer') < z
      /\ at' = "command" => Len(buffer') = z
  BY <1>1, <1>4, <1>5, <1>6
<1>8. Types'
  BY <1>1, <1>4, <1>7 DEF IInv, Types, InSession
<1>9. Counting' /\ First' /\ Gone'
  BY <1>7 DEF Counting, First, Gone, Offering
<1>10. Handshake'
  BY <1>1, <1>2, <1>7 DEF Handshake, Speechless, InSession
<1>11. Session'
  BY <1>1, <1>2, <1>4, <1>7 DEF Session, Asked, z
<1>12. Told'
  <2>1. tx = <<>> /\ tx' = <<>> /\ at # "answer" /\ at' # "answer"
    BY <1>1, <1>2, <1>7 DEF Asked
  <2>. QED BY <1>1, <2>1 DEF IInv, Told, Changed, Executed
<1>. QED BY <1>8, <1>9, <1>10, <1>11, <1>12 DEF IInv

(* What a command does to the flash, if the chip is not protected and the  *)
(* tool knows that the sector it writes is erased.                         *)
LEMMA Commands ==
  ASSUME IInv, Executes
  PROVE  /\ host.request \in Requests /\ flash' \in [Sectors -> Contents]
         /\ ~protected => \A s \in Sectors :
              flash'[s] = IF host.request.address # s THEN flash[s]
                          ELSE IF host.request.code = "BLOCK_ERASE" THEN "erased"
                          ELSE IF host.request.code = "WRITE" /\ host.request.length # 0
                          THEN host.request.data ELSE flash[s]
<1> DEFINE r == host.request
<1>1. at = "command" /\ FlashCommand(r)
  BY DEF Executes
<1>2. host.at = "session" /\ r # None /\ r \in Requests /\ Asked
  BY <1>1, InRequest DEF InSession
<1>3. /\ r.code = "WRITE" => r.address \in Sectors /\ r.data \in Contents
      /\ r.code = "BLOCK_ERASE" => r.address \in Sectors
      /\ flash \in [Sectors -> Contents] /\ "erased" \in Contents /\ "unknown" \notin Contents
  BY <1>2, RequestIs, Constants DEF Contents, IInv, Types
<1>4. ~protected /\ r.code = "WRITE" => flash[r.address] = "erased"
  <2>1. ~Executed
    BY <1>1, <1>2 DEF Executed, Asked
  <2>2. r.code = "WRITE" => host.knows[r.address] = "erased" /\ r.address \in Sectors
    BY <1>2, <1>3 DEF IInv, Told
  <2>. QED BY <1>3, <2>1, <2>2 DEF IInv, Told, Changed
<1> HIDE DEF r
<1>5. CASE protected \/ r.code \notin {"WRITE", "BLOCK_ERASE"} \/ (r.code = "WRITE" /\ r.length = 0)
  <2>1. flash' = flash
    BY <1>1, <1>5 DEF FlashCommand, flash_write, flash_erase
  <2>. QED BY <1>2, <1>3, <1>5, <2>1 DEF r
<1>6. CASE ~protected /\ r.code = "WRITE" /\ r.length # 0
  <2>1. flash' = [flash EXCEPT ![r.address] = r.data]
    BY <1>1, <1>3, <1>4, <1>6 DEF FlashCommand, flash_write
  <2>. QED BY <1>2, <1>3, <1>6, <2>1 DEF r
<1>7. CASE ~protected /\ r.code = "BLOCK_ERASE"
  <2>1. flash' = [flash EXCEPT ![r.address] = "erased"]
    BY <1>1, <1>7 DEF FlashCommand, flash_erase
  <2>. QED BY <1>2, <1>3, <1>7, <2>1 DEF r
<1>. QED BY <1>5, <1>6, <1>7

LEMMA ExecutesKeeps ==
  ASSUME IInv, Executes, UNCHANGED protected
  PROVE  IInv'
<1>1. /\ at = "command" /\ at' = "answer"
      /\ UNCHANGED <<retry_count, do_handshake, i, buffer, baud, rx, tx, host>>
  BY DEF Executes
<1>2. host.at = "session" /\ host.request # None /\ host.request \in Requests /\ Asked
  BY <1>1, InRequest DEF InSession
<1>3. Types'
  BY <1>1, Commands DEF IInv, Types, InSession
<1>4. Counting' /\ First' /\ Gone'
  BY <1>1 DEF Counting, First, Gone, Offering
<1>5. Handshake'
  BY <1>1, <1>2 DEF Handshake, Speechless, InSession
<1>6. Session'
  BY <1>1, <1>2 DEF Session, Asked, Line
<1>7. Told'
  <2>1. ~Executed /\ Executed'
    BY <1>1, <1>2 DEF Executed, Asked
  <2>2. ASSUME ~protected, NEW s \in Sectors
        PROVE  IF Changed(s)'
               THEN flash'[s] = IF host.request.code = "WRITE" THEN host.request.data ELSE "erased"
               ELSE host.knows[s] # "unknown" => flash'[s] = host.knows[s]
    <3>1. host.knows[s] # "unknown" => flash[s] = host.knows[s]
      BY <2>1, <2>2 DEF IInv, Told, Changed
    <3>. QED BY <1>1, <2>1, <2>2, <3>1, Commands DEF Changed
  <2>. QED BY <1>1, <2>2 DEF IInv, Told
<1>. QED BY <1>3, <1>4, <1>5, <1>6, <1>7 DEF IInv

LEMMA AnswersKeeps ==
  ASSUME IInv, Answers, UNCHANGED protected
  PROVE  IInv'
<1> DEFINE r == host.request
           t == [what |-> r.code, content |-> IF r.code = "READ" THEN flash[r.address] ELSE None,
                 baud |-> baud]
<1>1. /\ at = "answer" /\ buffer' = <<>> /\ tx' = Append(tx, t)
      /\ baud' = IF r.code = "CHANGE_BANDRATE" THEN r.address ELSE baud
      /\ rx' \in {<<>>, rx}
      /\ at' = IF Ends(r) THEN "app" ELSE "header"
      /\ UNCHANGED <<retry_count, do_handshake, i, flash, host>>
  BY DEF Answers, uart_write, Ends
<1>2. host.at = "session" /\ r # None /\ r \in Requests /\ Asked
  BY <1>1, InRequest DEF InSession
<1>3. /\ tx = <<>> /\ tx \in Seq(Sent) /\ t \in Sent /\ t.what = r.code /\ t.baud = baud
      /\ r.code = "READ" => t.content = flash[r.address]
  BY <1>2, RequestIs DEF IInv, Types, Asked, Sent
<1>4. host.sent = Size(r) /\ rx = <<>>
  <2>1. /\ Len(buffer) = Size(r) /\ Len(Line) = host.sent /\ host.sent <= Size(r)
        /\ host.sent \in Nat
    BY <1>1, <1>2, MessageIs, Fields DEF IInv, Asked
  <2>2. Size(r) \in Nat
    BY <1>2, RequestIs
  <2>. QED BY <2>1, <2>2, Fields DEF IInv
<1> HIDE DEF t
<1>5. tx' \in Seq(Sent) /\ tx' # <<>> /\ Len(tx') = 1 /\ tx'[1] = t
  BY <1>1, <1>3, Written
<1>6. Types'
  BY <1>1, <1>2, <1>4, <1>5, RequestIs, EmptySeq DEF IInv, Types, InSession
<1>7. Counting' /\ First'
  BY <1>1 DEF Counting, First, Offering
<1>8. Handshake'
  BY <1>1, <1>2 DEF Handshake, Speechless, InSession
<1>9. Answered'
  BY <1>1, <1>2, <1>3, <1>4, <1>5 DEF Answered, Asked
<1>10. Session'
  BY <1>1, <1>2, <1>3, <1>4, <1>5, <1>9 DEF Session, Silent, InSession, Asked
<1>11. Gone'
  BY <1>1, <1>2, <1>9 DEF Gone
<1>12. Told'
  <2>1. Executed /\ Executed'
    BY <1>1, <1>2, <1>5 DEF Executed
  <2>. QED BY <1>1, <2>1 DEF IInv, Told, Changed
<1>. QED BY <1>6, <1>7, <1>8, <1>10, <1>11, <1>12 DEF IInv

LEMMA HostAnswersKeeps ==
  ASSUME IInv, HostAnswers, UNCHANGED protected
  PROVE  IInv'
<1> DEFINE n == host.sent
           e == <<"ack", n + 1>>
<1>1. /\ host.at = "answers" /\ n < ACK_LEN /\ rx' = Append(rx, e)
      /\ host' = [host EXCEPT !.sent = n + 1, !.at = IF n + 1 = ACK_LEN THEN "listens" ELSE @]
      /\ UNCHANGED <<at, retry_count, do_handshake, i, buffer, baud, flash, tx>>
  BY DEF HostAnswers, Sends
<1>2. n \in Nat /\ host \in Hosts /\ ACK_LEN \in Nat \ {0}
      /\ buffer \in Seq(Bytes) /\ rx \in Seq(Bytes) /\ e \in Bytes
  BY Fields, Constants DEF IInv, Types, Bytes
<1>3. /\ host' \in Hosts /\ host'.sent = n + 1 /\ host'.request = host.request
      /\ host'.baud = host.baud /\ host'.knows = host.knows
      /\ host'.at = IF n + 1 = ACK_LEN THEN "listens" ELSE "answers"
  <2>1. /\ n + 1 \in Nat /\ host \in Hosts /\ host.at = "answers"
        /\ host' = [host EXCEPT !.sent = n + 1, !.at = IF n + 1 = ACK_LEN THEN "listens" ELSE @]
    BY <1>1, <1>2
  <2> HIDE DEF n
  <2>. QED BY ONLY <2>1 DEF Hosts
<1>4. Speechless /\ Speechless' /\ host.request = None
  BY <1>1, <1>3 DEF IInv, Handshake, Speechless
<1>5. at \notin InSession
  BY <1>1 DEF IInv, Session
<1> HIDE DEF e, n
<1>6. Line' = Append(Line, e) /\ rx' \in Seq(Bytes)
  BY <1>1, <1>2, ByteComes DEF Line
<1>7. Types'
  BY <1>1, <1>3, <1>6 DEF IInv, Types
<1>8. Counting' /\ Session' /\ Gone'
  BY <1>1, <1>4, <1>5 DEF IInv, Counting, Session, Gone
<1>9. Handshake'
  BY <1>1, <1>3, <1>4 DEF IInv, Handshake, OnItsWay
<1>10. First'
  <2>1. ASSUME do_handshake = 1
        PROVE  /\ at \notin {"request", "decide"}
               /\ at \in {"poll", "compare"} => tx = <<>> /\ Line' \in Arrived(n + 1)
    <3>1. /\ at \notin {"request", "decide"}
          /\ at \in {"poll", "compare"} => tx = <<>> /\ Line \in Arrived(n)
      BY <1>1, <2>1 DEF IInv, First, n
    <3>. QED BY <1>2, <1>6, <3>1, ArrivedGrows DEF e
  <2>2. n + 1 = ACK_LEN \/ n + 1 < ACK_LEN
    BY <1>1, <1>2
  <2>. QED BY <1>1, <1>3, <2>1, <2>2 DEF First, Arrived
<1>11. Told'
  BY <1>1, <1>3, <1>4 DEF IInv, Told, Changed, Executed
<1>. QED BY <1>7, <1>8, <1>9, <1>10, <1>11 DEF IInv

LEMMA HostAsksKeeps ==
  ASSUME IInv, HostAsks, UNCHANGED protected
  PROVE  IInv'
<1>1. PICK r \in Requests :
        /\ host.at = "session" /\ host.request = None
        /\ r.code = "WRITE" => host.knows[r.address] = "erased"
        /\ host' = [host EXCEPT !.request = r, !.sent = 0]
        /\ UNCHANGED <<at, retry_count, do_handshake, i, buffer, baud, flash, rx, tx>>
  BY DEF HostAsks
<1>2. /\ host' \in Hosts /\ host'.sent = 0 /\ host'.request = r /\ r # None
      /\ host'.baud = host.baud /\ host'.knows = host.knows /\ host'.at = "session"
  BY <1>1, RequestIs DEF IInv, Types, Hosts
<1>3. at \in InSession
  BY <1>1 DEF IInv, Handshake, Gone, Speechless
<1>4. tx = <<>> /\ host.baud = baud /\ at = "header" /\ buffer = <<>> /\ rx = <<>>
  BY <1>1, <1>3 DEF IInv, Session, Silent
<1>5. Types'
  BY <1>1, <1>2 DEF IInv, Types
<1>6. Counting' /\ First' /\ Gone'
  BY <1>1, <1>4 DEF Counting, First, Gone, Offering
<1>7. Handshake'
  BY <1>1, <1>2, <1>3 DEF Handshake, Speechless
<1>8. Asked'
  <2>1. Line' = <<>> /\ Len(buffer') = 0
    BY <1>1, <1>4, <1>5, Fields DEF Line
  <2>2. Line' = Message("request", 0)
    BY <2>1, NoMessage
  <2>3. 0 <= Size(r) /\ 0 < HEADER_LEN
    BY RequestIs, Constants
  <2>. QED BY <1>1, <1>2, <1>4, <2>1, <2>2, <2>3 DEF Asked
<1>9. Session'
  BY <1>2, <1>8 DEF Session
<1>10. Told'
  <2>1. ~Executed /\ ~Executed'
    BY <1>1, <1>4 DEF Executed
  <2>. QED BY <1>1, <1>2, <2>1 DEF IInv, Told, Changed
<1>. QED BY <1>5, <1>6, <1>7, <1>9, <1>10 DEF IInv

LEMMA HostSendsKeeps ==
  ASSUME IInv, HostSends, UNCHANGED protected
  PROVE  IInv'
<1> DEFINE n == host.sent
           e == <<"request", n + 1>>
<1>1. /\ host.request # None /\ n < Size(host.request) /\ rx' = Append(rx, e)
      /\ host' = [host EXCEPT !.sent = n + 1]
      /\ UNCHANGED <<at, retry_count, do_handshake, i, buffer, baud, flash, tx>>
  BY DEF HostSends, Sends
<1>2. /\ n \in Nat /\ host \in Hosts /\ host.request \in Requests
      /\ Size(host.request) \in Nat
      /\ buffer \in Seq(Bytes) /\ rx \in Seq(Bytes) /\ e \in Bytes
  <2>1. n \in Nat /\ host \in Hosts /\ host.request \in Requests
    BY <1>1, Fields DEF IInv, Types
  <2>2. Size(host.request) \in Nat
    BY <2>1, RequestIs
  <2>3. buffer \in Seq(Bytes) /\ rx \in Seq(Bytes)
    BY DEF IInv, Types
  <2>4. e \in Bytes
    BY <2>1 DEF Bytes
  <2>. QED BY <2>1, <2>2, <2>3, <2>4
<1>3. /\ host' \in Hosts /\ host'.sent = n + 1 /\ host'.request = host.request
      /\ host'.baud = host.baud /\ host'.knows = host.knows /\ host'.at = host.at
  <2>1. n + 1 \in Nat /\ host \in Hosts /\ host' = [host EXCEPT !.sent = n + 1]
    BY <1>1, <1>2
  <2> HIDE DEF n
  <2>. QED BY ONLY <2>1 DEF Hosts
<1>4. ~Answered
  BY <1>1, <1>2 DEF Answered
<1>5. ~Speechless
  BY <1>1 DEF IInv, Handshake
<1>6. at \in InSession
  BY <1>1, <1>4, <1>5 DEF IInv, Handshake, Gone
<1>7. host.at = "session" /\ Asked
  BY <1>1, <1>4, <1>5, <1>6 DEF IInv, Session, Speechless
<1> HIDE DEF e, n
<1>8. Line' = Append(Line, e) /\ rx' \in Seq(Bytes)
  BY <1>1, <1>2, ByteComes DEF Line
<1>9. Line' = Message("request", n + 1)
  BY <1>2, <1>7, <1>8, MessageGrows DEF Asked, n, e
<1>10. Types'
  BY <1>1, <1>3, <1>8 DEF IInv, Types
<1>11. Counting' /\ First' /\ Gone'
  BY <1>1, <1>6 DEF Counting, First, Gone, Offering, InSession
<1>12. Handshake'
  BY <1>1, <1>3, <1>6, <1>7 DEF Handshake, Speechless
<1>13. Asked'
  BY <1>1, <1>2, <1>3, <1>7, <1>9 DEF Asked
<1>14. Session'
  BY <1>1, <1>3, <1>7, <1>13 DEF Session
<1>15. Told'
  BY <1>1, <1>3 DEF IInv, Told, Changed, Executed
<1>. QED BY <1>10, <1>11, <1>12, <1>14, <1>15 DEF IInv

(* The tool reads an offer, an ok or the answer to its request. *)
LEMMA OfferRead ==
  ASSUME IInv, HostReads, host.at = "listens", Head(tx).what = "freqchip",
         UNCHANGED protected
  PROVE  IInv'
<1>1. /\ tx # <<>> /\ tx \in Seq(Sent) /\ tx' = Tail(tx)
      /\ UNCHANGED <<at, retry_count, do_handshake, i, buffer, baud, flash, rx>>
  BY DEF HostReads, IInv, Types
<1>2. /\ Head(tx) = tx[1] /\ 1 \in 1 .. Len(tx) /\ Tail(tx) \in Seq(Sent)
      /\ \A k \in 1 .. Len(Tail(tx)) : k + 1 \in 1 .. Len(tx) /\ Tail(tx)[k] = tx[k + 1]
      /\ Len(tx) = 1 => Tail(tx) = <<>>
  BY <1>1, Received
<1>3. Speechless
  BY DEF Speechless
<1>4. Head(tx).baud = host.baud
  BY <1>2, <1>3 DEF IInv, Handshake
<1>5. host' = [host EXCEPT !.at = "answers", !.sent = 0] /\ host \in Hosts
  BY <1>4 DEF HostReads, IInv, Types
<1>6. /\ host' \in Hosts /\ host'.sent = 0 /\ host'.request = host.request
      /\ host'.baud = host.baud /\ host'.knows = host.knows /\ host'.at = "answers"
  BY <1>5 DEF Hosts
<1>7. at \notin InSession
  BY <1>2 DEF IInv, Session
<1>8. Speechless' /\ host.request = None
  BY <1>3, <1>6 DEF IInv, Handshake, Speechless
<1>9. Types'
  BY <1>1, <1>2, <1>6 DEF IInv, Types
<1>10. Counting' /\ Session' /\ Gone'
  BY <1>1, <1>7, <1>8 DEF IInv, Counting, Session, Gone
<1>11. Handshake'
  <2>1. \A k \in 1 .. Len(tx') : tx'[k].baud = baud /\ tx'[k].what \in {"freqchip", "ok"}
    BY <1>1, <1>2, <1>3 DEF IInv, Handshake
  <2>2. at \notin InSession => ~OnItsWay("ok")'
    BY <1>1, <1>2, <1>3 DEF IInv, Handshake, OnItsWay
  <2>. QED BY <1>1, <1>3, <1>6, <1>8, <2>1, <2>2 DEF IInv, Handshake
<1>12. First'
  <2>1. do_handshake = 1 => /\ at # "request" /\ at # "decide"
                            /\ at \in {"poll", "compare"} => Line \in Arrived(0) /\ Len(tx) = 1
    <3>1. tx # <<>> /\ First
      BY <1>1 DEF IInv
    <3>. QED BY <3>1 DEF First
  <2>2. Line' = Line /\ Arrived(0)' = Arrived(0)
    BY <1>1 DEF Line, Arrived
  <2>3. ACK_LEN \in Nat \ {0}
    BY Constants
  <2>. QED BY <1>1, <1>2, <1>6, <2>1, <2>2, <2>3 DEF First
<1>13. Told'
  BY <1>1, <1>6, <1>8 DEF IInv, Told, Changed, Executed
<1>. QED BY <1>9, <1>10, <1>11, <1>12, <1>13 DEF IInv

LEMMA OkRead ==
  ASSUME IInv, HostReads, host.at = "listens", Head(tx).what # "freqchip",
         UNCHANGED protected
  PROVE  IInv'
<1>1. /\ tx # <<>> /\ tx \in Seq(Sent) /\ tx' = Tail(tx)
      /\ UNCHANGED <<at, retry_count, do_handshake, i, buffer, baud, flash, rx>>
  BY DEF HostReads, IInv, Types
<1>2. /\ Head(tx) = tx[1] /\ 1 \in 1 .. Len(tx) /\ Tail(tx) \in Seq(Sent)
      /\ Len(tx) = 1 => Tail(tx) = <<>>
  BY <1>1, Received
<1>3. Speechless
  BY DEF Speechless
<1>4. Head(tx).baud = host.baud /\ Head(tx).what = "ok" /\ OnItsWay("ok")
      /\ host.request = None /\ host.baud = baud
  BY <1>2, <1>3 DEF IInv, Handshake, OnItsWay
<1>5. host' = [host EXCEPT !.at = "session"] /\ host \in Hosts
  BY <1>4 DEF HostReads, IInv, Types
<1>6. /\ host' \in Hosts /\ host'.request = None
      /\ host'.baud = host.baud /\ host'.knows = host.knows /\ host'.at = "session"
  BY <1>4, <1>5 DEF Hosts
<1>7. at \in InSession
  BY <1>3, <1>4 DEF IInv, Handshake
<1>8. Len(tx) = 1 /\ Silent
  BY <1>7, <1>4 DEF IInv, Session
<1>9. Types'
  BY <1>1, <1>2, <1>6 DEF IInv, Types
<1>10. Counting' /\ First' /\ Gone'
  BY <1>1, <1>7 DEF Counting, First, Gone, Offering, InSession
<1>11. Handshake'
  BY <1>1, <1>6, <1>7 DEF Handshake, Speechless
<1>12. Session'
  BY <1>1, <1>2, <1>4, <1>6, <1>8 DEF Session, Silent
<1>13. Told'
  BY <1>1, <1>4, <1>6 DEF IInv, Told, Changed, Executed
<1>. QED BY <1>9, <1>10, <1>11, <1>12, <1>13 DEF IInv

LEMMA AnswerRead ==
  ASSUME IInv, HostReads, host.at = "session", UNCHANGED protected
  PROVE  IInv'
<1> DEFINE r == host.request
           t == Head(tx)
<1>1. /\ tx # <<>> /\ tx \in Seq(Sent) /\ tx' = Tail(tx) /\ host \in Hosts
      /\ UNCHANGED <<at, retry_count, do_handshake, i, buffer, baud, flash, rx>>
  BY DEF HostReads, IInv, Types
<1>2. /\ t = tx[1] /\ t \in Sent /\ Tail(tx) \in Seq(Sent)
      /\ Len(tx) = 1 => Tail(tx) = <<>>
  BY <1>1, Received
<1>3. at \in InSession \/ at = "app"
  BY DEF IInv, Handshake, Speechless
<1>4. /\ r # None /\ Answered
      /\ at \in InSession => /\ ~Ends(r) /\ Silent
                             /\ baud = IF r.code = "CHANGE_BANDRATE" THEN r.address ELSE host.baud
                             /\ r.code = "READ" => t.content = flash[r.address]
      /\ at = "app" => Ends(r)
  BY <1>1, <1>2, <1>3 DEF IInv, Session, Gone, Asked, InSession, Speechless
<1>5. r \in Requests /\ r.code \in Codes /\ t.what = r.code /\ t.baud = host.baud /\ tx' = <<>>
  BY <1>1, <1>2, <1>4, Fields, RequestIs DEF IInv, Answered
<1>6. t.what \notin {"freqchip", "ok"}
  BY <1>5 DEF Codes
<1> HIDE DEF t
<1> DEFINE knows == Learns(r, t.content)
<1>7. host' = [host EXCEPT !.request = None, !.knows = knows,
                           !.baud = IF r.code = "CHANGE_BANDRATE" THEN r.address ELSE @,
                           !.at = IF Ends(r) THEN "gone" ELSE @]
  BY <1>5, <1>6 DEF HostReads, t, Ends
<1>8. /\ r.code = "READ" => r.address \in Sectors /\ t.content = flash[r.address]
      /\ r.code \in {"WRITE", "BLOCK_ERASE"} => r.address \in Sectors
      /\ r.code = "WRITE" => r.data \in Contents
      /\ flash \in [Sectors -> Contents] /\ "erased" \in Contents /\ "unknown" \notin Contents
      /\ host.knows \in [Sectors -> Contents \cup {"unknown"}]
  BY <1>3, <1>4, <1>5, RequestIs, Constants, Fields DEF IInv, Types, Ends, Contents
<1>9. /\ knows \in [Sectors -> Contents \cup {"unknown"}]
      /\ \A s \in Sectors :
           knows[s] = IF r.code = "WRITE" /\ r.length # 0 /\ s = r.address THEN r.data
                      ELSE IF r.code = "BLOCK_ERASE" /\ s = r.address THEN "erased"
                      ELSE IF r.code = "READ" /\ s = r.address THEN flash[s]
                      ELSE host.knows[s]
  <2>1. CASE r.code = "WRITE" /\ r.length # 0
    <3>1. knows = [host.knows EXCEPT ![r.address] = r.data]
      BY <2>1 DEF Learns
    <3>. QED BY <1>8, <2>1, <3>1
  <2>2. CASE r.code = "BLOCK_ERASE"
    <3>1. knows = [host.knows EXCEPT ![r.address] = "erased"]
      BY <2>2 DEF Learns
    <3>. QED BY <1>8, <2>2, <3>1
  <2>3. CASE r.code = "READ"
    <3>1. knows = [host.knows EXCEPT ![r.address] = flash[r.address]]
      BY <1>8, <2>3 DEF Learns
    <3>. QED BY <1>8, <2>3, <3>1
  <2>4. CASE r.code \notin {"BLOCK_ERASE", "READ"} /\ ~(r.code = "WRITE" /\ r.length # 0)
    <3>1. knows = host.knows
      BY <2>4 DEF Learns
    <3>. QED BY <1>8, <2>4, <3>1
  <2>. QED BY <2>1, <2>2, <2>3, <2>4
<1> HIDE DEF knows
<1>10. /\ host' \in Hosts /\ host'.request = None /\ host'.knows = knows
       /\ host'.baud = IF r.code = "CHANGE_BANDRATE" THEN r.address ELSE host.baud
       /\ host'.at = IF Ends(r) THEN "gone" ELSE "session"
  <2>1. r.code = "CHANGE_BANDRATE" => r.address \in Bauds
    BY <1>5, RequestIs
  <2>. QED BY <1>1, <1>7, <1>9, <2>1 DEF Hosts
<1>11. Types'
  BY <1>1, <1>2, <1>10 DEF IInv, Types
<1>12. Counting' /\ First'
  BY <1>1, <1>3 DEF Counting, First, Offering, InSession
<1>13. Handshake'
  BY <1>1, <1>3, <1>10 DEF Handshake, Speechless
<1>14. Session' /\ Gone'
  BY <1>1, <1>3, <1>4, <1>5, <1>10 DEF Session, Gone, Silent, InSession
<1>15. Told'
  <2>1. Executed /\ ~Executed'
    BY <1>1, <1>4, <1>10 DEF Executed
  <2>2. ASSUME ~protected, NEW s \in Sectors, knows[s] # "unknown"
        PROVE  flash[s] = knows[s]
    BY <1>9, <2>1, <2>2 DEF IInv, Told, Changed
  <2>. QED BY <1>1, <1>10, <2>1, <2>2 DEF Told, Changed
<1>. QED BY <1>11, <1>12, <1>13, <1>14, <1>15 DEF IInv

-----------------------------------------------------------------------------
LEMMA InitInvariant == Init => IInv
<1> SUFFICES ASSUME Init PROVE IInv
  OBVIOUS
<1>1. UartInit
  BY DEF Init
<1>2. rx \in Seq(Bytes) /\ Line = rx /\ rx \in Arrived(0)
  <2>1. Message("stray", 1) \in Seq(Bytes) /\ Message("ack", 0) = <<>> /\ <<>> \in Seq(Bytes)
    BY MessageIs, NoMessage, EmptySeq
  <2>2. Message("stray", 1) \o <<>> = Message("stray", 1)
    BY <2>1, ConcatEmptySeq
  <2>3. rx \in Seq(Bytes)
    BY <1>1, <2>1 DEF UartInit
  <2>4. Line = rx
    BY <1>1, <2>3, ConcatEmptySeq DEF UartInit, Line
  <2>. QED BY <1>1, <2>1, <2>2, <2>3, <2>4 DEF UartInit, Arrived
<1>3. Types
  <2>1. host \in Hosts
    BY <1>1, Constants DEF UartInit, Hosts
  <2>2. flash \in [Sectors -> Contents]
    BY <1>1 DEF UartInit, Contents
  <2>. QED BY <1>1, <1>2, <2>1, <2>2, Constants, EmptySeq DEF UartInit, Types
<1>4. host.request = None /\ host.at = "listens" /\ host.baud = baud
      /\ (\A s \in Sectors : host.knows[s] = "unknown") /\ tx = <<>> /\ Len(tx) = 0
  BY <1>1, <1>3, Fields DEF UartInit
<1>5. Counting /\ First /\ Session /\ Gone
  BY <1>1, <1>2, <1>4 DEF UartInit, Counting, First, Session, Gone, InSession
<1>6. Handshake /\ Told
  BY <1>1, <1>4 DEF UartInit, Handshake, Told, Speechless, OnItsWay, Changed, Executed
<1>. QED BY <1>3, <1>5, <1>6 DEF IInv

LEMMA NextInvariant == IInv /\ [Next]_vars => IInv'
<1> SUFFICES ASSUME IInv, [Next]_vars PROVE IInv'
  OBVIOUS
<1>1. CASE Dsp /\ UNCHANGED protected
  BY <1>1, OfferKeeps, GetsKeeps, FailsKeeps, ComparesKeeps, DecidesKeeps, TakesKeeps,
     ExecutesKeeps, AnswersKeeps DEF Dsp, TimesOut
<1>2. CASE HostReads /\ UNCHANGED protected
  <2>1. host.at \in {"listens", "session"}
    BY <1>2 DEF HostReads
  <2>. QED BY <1>2, <2>1, OfferRead, OkRead, AnswerRead
<1>3. CASE UNCHANGED <<uartVars, protected>>
  <2>1. Types' /\ Counting' /\ First' /\ Gone'
    BY <1>3 DEF IInv, Types, Counting, First, Gone, uartVars, Line, Speechless, Answered
  <2>2. Handshake' /\ Session' /\ Told'
    BY <1>3 DEF IInv, Handshake, Session, Told, uartVars, Line, Speechless, Silent, Asked,
                Answered, OnItsWay, Changed, Executed
  <2>. QED BY <2>1, <2>2 DEF IInv
<1>. QED BY <1>1, <1>2, <1>3, HostAnswersKeeps, HostAsksKeeps, HostSendsKeeps
         DEF Next, Uart, Ipc, vars

LEMMA Invariant == SafeSpec => []IInv
<1>. QED BY InitInvariant, NextInvariant, PTL DEF SafeSpec

(* What is longer than the answer has the stray byte in front.             *)
LEMMA StrayInFront ==
  ASSUME NEW s \in Seq(Bytes), NEW t \in Seq(Bytes), NEW n \in 0 .. ACK_LEN,
         s \o t \in Arrived(n), Len(s) > ACK_LEN
  PROVE  s[1] = <<"stray", 1>>
<1> DEFINE u == Message("stray", 1)
           m == Message("ack", n)
<1>1. /\ u \in Seq(Bytes) /\ Len(u) = 1 /\ u[1] = <<"stray", 1>>
      /\ m \in Seq(Bytes) /\ Len(m) = n
  <2>1. n \in Nat /\ 1 \in Nat /\ 1 \in 1 .. 1
    BY Constants
  <2>2. u \in Seq(Bytes) /\ Len(u) = 1 /\ u[1] = <<"stray", 1>>
    BY ONLY <2>1, MessageIs
  <2>3. m \in Seq(Bytes) /\ Len(m) = n
    BY ONLY <2>1, MessageIs
  <2>. QED BY ONLY <2>2, <2>3
<1>2. ACK_LEN \in Nat \ {0} /\ Len(s) \in Nat /\ Len(t) \in Nat /\ n \in Nat
  BY Constants, LenProperties
<1>3. s \o t = m \/ s \o t = u \o m
  BY DEF Arrived
<1> HIDE DEF u, m
<1>4. Len(s) >= 1
  BY <1>2
<1>5. Len(s \o t) = Len(s) + Len(t) /\ (s \o t)[1] = s[1]
  BY ONLY <1>4, FirstOfConcat, s \in Seq(Bytes), t \in Seq(Bytes)
<1>6. s \o t # m
  BY <1>1, <1>2, <1>5
<1>7. (u \o m)[1] = u[1]
  <2>1. Len(u) >= 1
    BY <1>1
  <2>. QED BY ONLY <1>1, <2>1, FirstOfConcat
<1>. QED BY <1>1, <1>3, <1>5, <1>6, <1>7

LEMMA OverrunNext ==
  ASSUME IInv, OverrunTakesMore, [Next]_vars
  PROVE  OverrunTakesMore'
<1>1. CASE app_boot_serial_gets
  <2>1. SUFFICES ASSUME at' = "lost", retry_count = 3
                 PROVE  buffer'[1] = <<"stray", 1>>
    <3>1. retry_count' = retry_count /\ retry_count \in 0 .. 3
      BY <1>1 DEF app_boot_serial_gets, IInv, Types
    <3>. QED BY <3>1 DEF OverrunTakesMore
  <2> DEFINE k == IF Len(rx) < ACK_LEN THEN Len(rx) ELSE ACK_LEN
  <2>2. /\ at = "poll" /\ Len(buffer) + k > ACK_LEN
        /\ buffer' = buffer \o SubSeq(rx, 1, k) /\ rx' = SubSeq(rx, k + 1, Len(rx))
    BY <1>1, <2>1 DEF app_boot_serial_gets
  <2>3. k \in 0 .. Len(rx) /\ buffer \in Seq(Bytes) /\ rx \in Seq(Bytes)
    BY Constants, Fields DEF IInv, Types
  <2> HIDE DEF k
  <2>4. /\ buffer' \o rx' = Line /\ buffer' \in Seq(Bytes) /\ rx' \in Seq(Bytes)
        /\ Len(buffer') > ACK_LEN
    BY <2>2, <2>3, BytesTaken DEF Line
  <2>5. do_handshake = 1
    BY <2>1, <2>2 DEF IInv, Counting, Offering
  <2>6. PICK n \in {0, host.sent, ACK_LEN} : n <= ACK_LEN /\ n \in Nat /\ Line \in Arrived(n)
    <3>1. 0 <= ACK_LEN /\ ACK_LEN <= ACK_LEN /\ 0 \in Nat /\ ACK_LEN \in Nat /\ host.sent \in Nat
          /\ (host.sent < ACK_LEN => host.sent <= ACK_LEN)
      BY Constants, Fields DEF IInv
    <3>. QED BY <2>2, <2>5, <3>1 DEF IInv, First
  <2>7. n \in 0 .. ACK_LEN
    BY <2>6, Constants
  <2>. QED BY <2>4, <2>6, <2>7, StrayInFront
<1>2. CASE at = "lost" /\ UNCHANGED <<at, retry_count, buffer>>
  BY <1>2 DEF OverrunTakesMore
<1>3. CASE at' # "lost"
  BY <1>3 DEF OverrunTakesMore
<1>4. CASE Dsp /\ ~app_boot_serial_gets
  <2>1. at' # "lost"
    BY <1>4 DEF Dsp, Offer, TimesOut, Fails, Compares, Decides, uart_get_data_noint, Executes, Answers
  <2>. QED BY <1>3, <2>1
<1>5. CASE ~Dsp
  <2>1. \/ HostAnswers \/ HostAsks \/ HostSends \/ HostReads
        \/ UNCHANGED <<at, retry_count, buffer>>
    BY <1>5 DEF Next, Uart, Ipc, vars, uartVars
  <2>2. HostAnswers \/ HostAsks => UNCHANGED <<at, retry_count, buffer>>
    BY DEF HostAnswers, HostAsks
  <2>3. HostSends \/ HostReads => UNCHANGED <<at, retry_count, buffer>>
    BY DEF HostSends, HostReads
  <2>. QED BY <2>1, <2>2, <2>3, <1>2, <1>3
<1>. QED BY <1>1, <1>4, <1>5

LEMMA OverrunInvariant == SafeSpec => []OverrunTakesMore
<1>1. Init => OverrunTakesMore
  BY DEF Init, UartInit, OverrunTakesMore
<1>. QED BY <1>1, Invariant, OverrunNext, PTL DEF SafeSpec

(* The variables keep their types; the tool is in a session exactly when   *)
(* the DSP is, but for what is on its way; between requests both use the   *)
(* same rate; and the answer's buffer is overrun in a later offer, or by a *)
(* byte that was on the line before the first.                             *)
THEOREM SidesAgree == SafeSpec => []SessionInv
<1>1. IInv => TypeOK
  BY Fields DEF IInv, Types, TypeOK, Bytes
<1>2. ASSUME IInv
      PROVE  SessionAgreed
  <2>1. host.at = "session" => at \in InSession \cup {"app"}
    BY <1>2 DEF IInv, Handshake, Speechless
  <2>2. at = "app" /\ host.at = "session" => host.request # None /\ host.request.code = "DISCONNECT"
    BY <1>2 DEF IInv, Gone, Speechless, Ends
  <2>3. at \in InSession => host.at = "session" \/ OnItsWay("ok")
    <3>1. Len(tx) = 1 /\ tx[1].what = "ok" => OnItsWay("ok")
      BY DEF OnItsWay
    <3>. QED BY <1>2, <3>1 DEF IInv, Session
  <2>4. at \in InSession /\ host.at = "session" /\ host.request = None => host.baud = baud
    BY <1>2 DEF IInv, Session
  <2>. QED BY <2>1, <2>2, <2>3, <2>4 DEF SessionAgreed
<1>. QED BY <1>1, <1>2, Invariant, OverrunInvariant, PTL DEF SessionInv

(* No byte of the handshake is ever taken for a header, however many       *)
(* offers were made and whatever came in late: the bytes taken and waiting *)
(* are the beginning of the request, or none.                              *)
THEOREM NothingElseIsTaken == SafeSpec => []LoopIsInStep
<1>1. ASSUME IInv, at \in InSession
      PROVE  Line = IF host.request = None \/ OnItsWay(host.request.code) THEN <<>>
                    ELSE Message("request", host.sent)
  <2>1. Silent => Line = <<>>
    BY <1>1, Fields DEF IInv, Silent
  <2>2. host.at = "listens" => host.request = None
    BY <1>1 DEF IInv, Handshake, Speechless
  <2>3. Asked => ~OnItsWay(host.request.code) /\ Line = Message("request", host.sent)
    BY <1>1, Fields DEF IInv, Asked, OnItsWay
  <2>4. Answered => OnItsWay(host.request.code)
    BY DEF Answered, OnItsWay
  <2>. QED BY <1>1, <2>1, <2>2, <2>3, <2>4 DEF IInv, Session
<1>2. IInv => LoopIsInStep
  BY <1>1 DEF LoopIsInStep, Line
<1>. QED BY <1>2, Invariant, PTL

(* Unless the chip was left protected, what the tool was told of the flash *)
(* is what is there, for every sequence of erases, writes, reads and       *)
(* changes of the rate.                                                    *)
THEOREM FlashIsAsTold == SafeSpec => []BurnedAsAnswered
<1>1. IInv => BurnedAsAnswered
  BY DEF IInv, Told, Changed, Executed, BurnedAsAnswered, BurningIsSupported
<1>. QED BY <1>1, Invariant, PTL

-----------------------------------------------------------------------------
(***************************************************************************)
(* The loader over IPC (IpcBoot.tla) in the start of the DSP, for every    *)
(* number of channels, of buffers and of pieces of the user code.          *)
(***************************************************************************)
(* The inductive invariant.  The channels are divided into the free ones   *)
(* and those of the messages that are unread, of the completions that wait *)
(* and of those that the interrupt has taken (Owners); the pieces into     *)
(* those in memory and those in a buffer (Loading); what the MCU knows     *)
(* says which messages there may be (Phases).                              *)
Unread == {c \in Channels : msg_out[c] # "none"}

Done == {c \in Channels : msg_out[c] = "LOAD_CODE_DONE"}

Held == IF stage = "insert" THEN {channel} ELSE {}

(* Messages of the MCU that the interrupt has not handled. *)
Loads == {c \in Channels : msg_in[c] = "LOAD_CODE" /\ c \notin isr.clear}

Execs == {c \in Channels : msg_in[c] = "EXEC_USER_CODE" /\ c \notin isr.clear}

LoaderTypes ==
  /\ LoaderTypeOK
  /\ mcu \in [sent : 0 .. Pieces, done : 0 .. Pieces,
              knows : {"nothing", "DSP_READY", "entered", "DSP_USER_CODE_READY"}]
  /\ buffer_in \in [LoadChannels -> 0 .. Pieces]
  /\ user_func_entry \in {"NULL", "app_entry"}
  /\ user_ipc_rx \in {"NULL", "ipc_rx_user_handler"}

Owners ==
  /\ stage # "boot" => available_buffer = Channels \ (Unread \cup status.out \cup isr.out \cup Held)
  /\ Unread \cap (status.out \cup isr.out \cup Held) = {}
  /\ status.out \cap isr.out = {} /\ Held \cap (status.out \cup isr.out) = {}
  /\ isr.clear \subseteq isr.in /\ isr.in \cap status.in = {}
  /\ isr.clear # {} => isr.out = {}
  /\ \A c \in isr.in \cup status.in : msg_in[c] # "none"

Loading ==
  /\ mcu.sent - mcu.done <= IPC_WITH_LOAD_CHANNELS
  /\ Cardinality(Loads) + Cardinality(Done) = mcu.sent - mcu.done
  /\ \A c \in Channels : msg_in[c] = "LOAD_CODE" => c \in LoadChannels
  /\ \A c \in Loads : buffer_in[c] \in 1 .. mcu.sent
  /\ 1 .. mcu.sent = memory \cup {buffer_in[c] : c \in Loads}

Nowhere(msgs) == \A c \in Channels : msg_out[c] \notin msgs /\ msg_in[c] \notin msgs

Phases ==
  /\ mcu.knows = "nothing" =>
       /\ mcu.sent = 0 /\ status = [out |-> {}, in |-> {}] /\ isr = Nothing
       /\ stage \in {"boot", "alloc", "insert", "wait"} /\ user_func_entry = "NULL"
       /\ Nowhere({"LOAD_CODE", "LOAD_CODE_DONE", "EXEC_USER_CODE", "DSP_USER_CODE_READY", "USER"})
       /\ (stage # "wait" => Unread = {}) /\ \A c, d \in Unread : c = d
       /\ stage = "insert" => channel \in Channels
  /\ mcu.knows = "DSP_READY" =>
       /\ stage = "wait" /\ user_func_entry = "NULL"
       /\ Nowhere({"DSP_READY", "EXEC_USER_CODE", "DSP_USER_CODE_READY", "USER"})
       /\ InIsr => Cardinality(Unread \cup status.out) + Cardinality(isr.in \cap Loads)
                   <= IPC_WITH_LOAD_CHANNELS
  /\ mcu.knows = "entered" =>
       /\ mcu.done = Pieces
       /\ stage \in {"wait", "init_memory", "set_handler", "task_init", "ready", "schedule"}
       /\ Nowhere({"DSP_READY", "USER"})
       /\ (stage # "schedule" => Unread = {}) /\ \A c, d \in Unread : c = d
       /\ user_func_entry = "NULL" => stage = "wait"
       /\ stage # "wait" => user_func_entry # "NULL"
       /\ user_func_entry # "NULL" =>
            /\ Execs = {}
            /\ stage # "schedule" => status.out = {} /\ isr.out = {}
       /\ \A c, d \in Execs : c = d
       /\ \A c \in Execs : c \in isr.in => status.out = {}
  /\ mcu.knows = "DSP_USER_CODE_READY" =>
       /\ mcu.done = Pieces /\ stage = "schedule" /\ Unread = {}
       /\ Execs = {}
  /\ stage \in {"task_init", "ready", "schedule"} => user_ipc_rx # "NULL"
  /\ stage # "lost" /\ dropped = FALSE

LoaderIInv == LoaderTypes /\ Owners /\ Loading /\ Phases

-----------------------------------------------------------------------------
LEMMA LoaderConstants ==
  /\ IPC_CHANNELS \in Nat \ {0} /\ IPC_WITH_LOAD_CHANNELS \in Nat \ {0} /\ Pieces \in Nat \ {0}
  /\ IPC_WITH_LOAD_CHANNELS <= IPC_CHANNELS
  /\ LoadChannels \subseteq Channels /\ Channels \subseteq Nat /\ NO_CHANNEL \notin Channels
  /\ Channels # {}
BY LoaderAssumption DEF LoadChannels, Channels, NO_CHANNEL

LEMMA Finite ==
  ASSUME NEW S \in SUBSET Channels
  PROVE  IsFiniteSet(S) /\ Cardinality(S) \in Nat /\ (Cardinality(S) = 0 <=> S = {})
<1>1. IsFiniteSet(Channels)
  BY LoaderConstants, FS_Interval DEF Channels
<1>2. IsFiniteSet(S)
  BY <1>1, FS_Subset
<1>. QED BY <1>2, FS_CardinalityType, FS_EmptySet

LEMMA ChannelCount == Cardinality(Channels) = IPC_CHANNELS
<1>1. 0 \in Int /\ IPC_CHANNELS - 1 \in Int /\ ~(0 > IPC_CHANNELS - 1)
  BY LoaderConstants
<1>2. Cardinality(0 .. IPC_CHANNELS - 1) = IPC_CHANNELS - 1 - 0 + 1
  BY <1>1, FS_Interval
<1>. QED BY <1>2, LoaderConstants DEF Channels

LEMMA OneMore ==
  ASSUME NEW S \in SUBSET Channels, NEW c \in Channels, c \notin S
  PROVE  Cardinality(S \cup {c}) = Cardinality(S) + 1
BY Finite, FS_AddElement

LEMMA OneLess ==
  ASSUME NEW S \in SUBSET Channels, NEW c \in S
  PROVE  Cardinality(S \ {c}) = Cardinality(S) - 1
BY Finite, FS_RemoveElement

(* A finite set has an extreme element in a strict order: of the sets of   *)
(* what is beyond one of its elements, one has no smaller one among them.  *)
LEMMA HasExtreme ==
  ASSUME NEW S, IsFiniteSet(S), S # {}, NEW Q,
         \A x \in S : <<x, x>> \notin Q,
         \A x, y, z \in S : <<x, y>> \in Q /\ <<y, z>> \in Q => <<x, z>> \in Q
  PROVE  \E x \in S : \A y \in S : <<x, y>> \notin Q
<1> DEFINE beyond(x) == {y \in S : <<x, y>> \in Q}
           R == StrictSubsetOrdering(S)
           F == FiniteSubsetsOf(S)
           T == {beyond(x) : x \in S}
<1>1. T \subseteq F /\ T # {}
  <2>1. F = SUBSET S
    BY FS_FiniteSubsetsOfFinite
  <2>2. \A x \in S : beyond(x) \in SUBSET S
    OBVIOUS
  <2> HIDE DEF F, beyond
  <2>3. PICK x \in S : TRUE
    OBVIOUS
  <2>4. beyond(x) \in T
    OBVIOUS
  <2>. QED BY <2>1, <2>2, <2>4
<1>2. IsWellFoundedOn(R, F)
  BY FS_StrictSubsetOrderingWellFounded
<1>3. \E u \in T : \A v \in T : ~(<<v, u>> \in R)
  <2> HIDE DEF R, F, T
  <2>. QED BY <1>1, <1>2, WFMin
<1>4. PICK x \in S : \A v \in T : ~(<<v, beyond(x)>> \in R)
  BY <1>3
<1>5. ASSUME NEW y \in S, <<x, y>> \in Q
      PROVE  FALSE
  <2>1. beyond(y) \subseteq beyond(x) /\ y \in beyond(x) /\ y \notin beyond(y)
    BY <1>5
  <2>2. <<beyond(y), beyond(x)>> \in R
    BY <2>1 DEF StrictSubsetOrdering
  <2>. QED BY <1>4, <2>2
<1>. QED BY <1>5

LEMMA HasLast ==
  ASSUME NEW S \in SUBSET Channels, S # {}
  PROVE  \E x \in S : \A y \in S : x >= y
<1> DEFINE Q == {p \in S \X S : p[1] < p[2]}
<1>1. S \subseteq Nat /\ IsFiniteSet(S)
  BY LoaderConstants, Finite
<1>2. \A x, y \in S : <<x, y>> \in Q <=> x < y
  OBVIOUS
<1> HIDE DEF Q
<1>3. /\ \A x \in S : <<x, x>> \notin Q
      /\ \A x, y, z \in S : <<x, y>> \in Q /\ <<y, z>> \in Q => <<x, z>> \in Q
  BY <1>1, <1>2
<1>4. \E x \in S : \A y \in S : <<x, y>> \notin Q
  BY <1>1, <1>3, HasExtreme
<1>5. PICK x \in S : \A y \in S : ~(x < y)
  BY <1>2, <1>4
<1>. QED BY <1>1, <1>5

LEMMA HasFirst ==
  ASSUME NEW S \in SUBSET Channels, S # {}
  PROVE  \E x \in S : \A y \in S : x <= y
<1> DEFINE Q == {p \in S \X S : p[1] > p[2]}
<1>1. S \subseteq Nat /\ IsFiniteSet(S)
  BY LoaderConstants, Finite
<1>2. \A x, y \in S : <<x, y>> \in Q <=> x > y
  OBVIOUS
<1> HIDE DEF Q
<1>3. /\ \A x \in S : <<x, x>> \notin Q
      /\ \A x, y, z \in S : <<x, y>> \in Q /\ <<y, z>> \in Q => <<x, z>> \in Q
  BY <1>1, <1>2
<1>4. \E x \in S : \A y \in S : <<x, y>> \notin Q
  BY <1>1, <1>3, HasExtreme
<1>5. PICK x \in S : \A y \in S : ~(x > y)
  BY <1>2, <1>4
<1>. QED BY <1>1, <1>5

LEMMA MaxIs ==
  ASSUME NEW S \in SUBSET Channels, S # {}
  PROVE  Max(S) \in S
BY HasLast DEF Max

LEMMA MinIs ==
  ASSUME NEW S \in SUBSET Channels, S # {}
  PROVE  Min(S) \in S
BY HasFirst DEF Min

(* The channel that is allocated is a free one, if there is one. *)
LEMMA AllocIs ==
  ASSUME LoaderTypes
  PROVE  /\ ipc_alloc_channel = NO_CHANNEL <=> available_buffer = {}
         /\ available_buffer # {} => ipc_alloc_channel \in available_buffer
<1>1. available_buffer \in SUBSET Channels
  BY DEF LoaderTypes, LoaderTypeOK
<1>. QED BY <1>1, MaxIs, LoaderConstants DEF ipc_alloc_channel

LEMMA LoaderFields ==
  ASSUME LoaderTypes
  PROVE  /\ available_buffer \in SUBSET Channels /\ channel \in Channels \cup {NO_CHANNEL}
         /\ Unread \in SUBSET Channels /\ Done \in SUBSET Channels
         /\ Loads \in SUBSET Channels /\ Execs \in SUBSET Channels
         /\ status.out \in SUBSET Channels /\ status.in \in SUBSET Channels
         /\ isr.out \in SUBSET Channels /\ isr.in \in SUBSET Channels /\ isr.clear \in SUBSET Channels
         /\ mcu.sent \in 0 .. Pieces /\ mcu.done \in 0 .. Pieces
         /\ ~InIsr => isr.out = {} /\ isr.in = {} /\ isr.clear = {}
<1>1. /\ status \in [out : SUBSET Channels, in : SUBSET Channels]
      /\ isr \in [out : SUBSET Channels, in : SUBSET Channels, clear : SUBSET Channels]
      /\ available_buffer \in SUBSET Channels /\ channel \in Channels \cup {NO_CHANNEL}
  BY DEF LoaderTypes, LoaderTypeOK
<1>2. /\ status.out \in SUBSET Channels /\ status.in \in SUBSET Channels
      /\ isr.out \in SUBSET Channels /\ isr.in \in SUBSET Channels /\ isr.clear \in SUBSET Channels
  BY ONLY <1>1
<1>3. ~InIsr => isr.out = {} /\ isr.in = {} /\ isr.clear = {}
  BY DEF InIsr, Nothing
<1>4. Unread \in SUBSET Channels /\ Done \in SUBSET Channels
      /\ Loads \in SUBSET Channels /\ Execs \in SUBSET Channels
  BY DEF Unread, Done, Loads, Execs
<1>5. mcu.sent \in 0 .. Pieces /\ mcu.done \in 0 .. Pieces
  BY DEF LoaderTypes
<1>. QED BY <1>1, <1>2, <1>3, <1>4, <1>5

(* When all pieces have been answered, none is on its way. *)
LEMMA AllDone ==
  ASSUME LoaderTypes, Loading, mcu.done = Pieces
  PROVE  Loads = {} /\ Done = {} /\ memory = 1 .. Pieces
<1>1. Cardinality(Loads) \in Nat /\ Cardinality(Done) \in Nat
  BY LoaderFields, Finite
<1>2. mcu.sent \in 0 .. Pieces /\ Pieces \in Nat
      /\ Cardinality(Loads) + Cardinality(Done) = mcu.sent - Pieces
  BY LoaderFields, LoaderConstants DEF Loading
<1>3. mcu.sent = Pieces /\ Cardinality(Loads) = 0 /\ Cardinality(Done) = 0
  BY <1>1, <1>2
<1>4. Loads = {} /\ Done = {}
  BY <1>3, LoaderFields, Finite
<1>. QED BY <1>3, <1>4 DEF Loading

(* Steps that change no message, or none of a piece. *)
LEMMA LoadingKeeps ==
  ASSUME Loading, Loads' = Loads, Done' = Done,
         \A c \in Channels : msg_in'[c] = "LOAD_CODE" => c \in LoadChannels,
         UNCHANGED <<mcu, memory, buffer_in>>
  PROVE  Loading'
BY DEF Loading

LEMMA InitKeeps ==
  ASSUME LoaderIInv, app_ipc_init
  PROVE  LoaderIInv'
<1>1. /\ stage = "boot" /\ stage' = "alloc" /\ available_buffer' = Channels
      /\ UNCHANGED <<channel, msg_out, msg_in, buffer_in, status, isr, memory, user_func_entry,
                     user_ipc_rx, dropped, mcu>>
  BY DEF app_ipc_init, AllChannels
<1>2. mcu.knows = "nothing"
  BY <1>1 DEF LoaderIInv, Phases, LoaderTypes
<1>3. /\ Unread = {} /\ status = [out |-> {}, in |-> {}] /\ isr = Nothing
      /\ status.out = {} /\ isr.out = {}
  BY <1>1, <1>2 DEF LoaderIInv, Phases, Nothing
<1>4. Unread' = Unread /\ Done' = Done /\ Loads' = Loads /\ Execs' = Execs /\ Held' = {}
  BY <1>1 DEF Unread, Done, Loads, Execs, Held
<1>5. LoaderTypes'
  BY <1>1 DEF LoaderIInv, LoaderTypes, LoaderTypeOK
<1>6. Owners'
  BY <1>1, <1>3, <1>4 DEF LoaderIInv, Owners
<1>7. Loading'
  BY <1>1, <1>4, LoadingKeeps DEF LoaderIInv, Loading
<1>8. Phases'
  BY <1>1, <1>2, <1>3, <1>4 DEF LoaderIInv, Phases, Nowhere
<1>. QED BY <1>5, <1>6, <1>7, <1>8 DEF LoaderIInv

LEMMA AllocKeeps ==
  ASSUME LoaderIInv, ReadyAlloc
  PROVE  LoaderIInv'
<1>1. /\ stage = "alloc" /\ stage' = "insert" /\ channel' = ipc_alloc_channel
      /\ available_buffer' = available_buffer \ {channel'}
      /\ UNCHANGED <<msg_out, msg_in, buffer_in, status, isr, memory, user_func_entry,
                     user_ipc_rx, dropped, mcu>>
  BY DEF ReadyAlloc
<1>2. mcu.knows = "nothing"
  BY <1>1 DEF LoaderIInv, Phases, LoaderTypes
<1>3. /\ Unread = {} /\ status = [out |-> {}, in |-> {}] /\ isr = Nothing
      /\ status.out = {} /\ isr.out = {} /\ Held = {}
  BY <1>1, <1>2 DEF LoaderIInv, Phases, Nothing, Held
<1>4. Unread' = Unread /\ Done' = Done /\ Loads' = Loads /\ Execs' = Execs /\ Held' = {channel'}
  BY <1>1 DEF Unread, Done, Loads, Execs, Held
<1>5. available_buffer = Channels
  BY <1>1, <1>3 DEF LoaderIInv, Owners
<1>6. channel' \in Channels
  BY <1>1, <1>5, AllocIs, LoaderConstants DEF LoaderIInv
<1>7. LoaderTypes'
  BY <1>1, <1>6 DEF LoaderIInv, LoaderTypes, LoaderTypeOK
<1>8. Owners'
  BY <1>1, <1>3, <1>4, <1>5 DEF LoaderIInv, Owners
<1>9. Loading'
  BY <1>1, <1>4, LoadingKeeps DEF LoaderIInv, Loading
<1>10. Phases'
  BY <1>1, <1>2, <1>3, <1>4, <1>6 DEF LoaderIInv, Phases, Nowhere
<1>. QED BY <1>7, <1>8, <1>9, <1>10 DEF LoaderIInv

LEMMA InsertKeeps ==
  ASSUME LoaderIInv, ReadyInsert
  PROVE  LoaderIInv'
<1>1. /\ stage = "insert" /\ stage' = "wait"
      /\ msg_out' = [msg_out EXCEPT ![channel] = "DSP_READY"]
      /\ UNCHANGED <<channel, available_buffer, msg_in, buffer_in, status, isr, memory,
                     user_func_entry, user_ipc_rx, dropped, mcu>>
  BY DEF ReadyInsert, ipc_insert_msg
<1>2. mcu.knows = "nothing"
  BY <1>1 DEF LoaderIInv, Phases, LoaderTypes
<1>3. /\ Unread = {} /\ status = [out |-> {}, in |-> {}] /\ isr = Nothing /\ channel \in Channels
      /\ status.out = {} /\ isr.out = {} /\ Held = {channel}
  BY <1>1, <1>2 DEF LoaderIInv, Phases, Nothing, Held
<1>4. \A c \in Channels : msg_out'[c] = IF c = channel THEN "DSP_READY" ELSE "none"
  BY <1>1, <1>3 DEF LoaderIInv, LoaderTypes, LoaderTypeOK, Unread
<1>5. Unread' = {channel} /\ Done = {} /\ Done' = {} /\ Loads' = Loads /\ Held' = {}
  BY <1>1, <1>3, <1>4 DEF Unread, Done, Loads, Held
<1>6. LoaderTypes'
  BY <1>1 DEF LoaderIInv, LoaderTypes, LoaderTypeOK
<1>7. Owners'
  BY <1>1, <1>3, <1>5 DEF LoaderIInv, Owners
<1>8. Loading'
  BY <1>1, <1>5, LoadingKeeps DEF LoaderIInv, Loading
<1>9. Phases'
  BY <1>1, <1>2, <1>3, <1>4, <1>5 DEF LoaderIInv, Phases, Nowhere
<1>. QED BY <1>6, <1>7, <1>8, <1>9 DEF LoaderIInv

LEMMA EntryKeeps ==
  ASSUME LoaderIInv, app_entry
  PROVE  LoaderIInv'
<1>1. /\ stage \in {"wait", "init_memory", "set_handler", "task_init", "ready"}
      /\ stage = "wait" => user_func_entry # "NULL"
      /\ stage' = NextStage(stage)
      /\ user_ipc_rx' = IF stage = "set_handler" THEN "ipc_rx_user_handler" ELSE user_ipc_rx
      /\ UNCHANGED <<channel, msg_in, buffer_in, status, isr, memory, user_func_entry, dropped, mcu>>
  BY DEF app_entry
<1>2. mcu.knows = "entered" /\ user_func_entry # "NULL"
  BY <1>1 DEF LoaderIInv, Phases, LoaderTypes
<1>3. Unread = {} /\ status.out = {} /\ isr.out = {} /\ Held = {} /\ mcu.done = Pieces
      /\ Execs = {}
  BY <1>1, <1>2 DEF LoaderIInv, Phases, Held
<1>4. /\ stage' \in {"init_memory", "set_handler", "task_init", "ready", "schedule"}
      /\ stage' = "schedule" <=> stage = "ready"
      /\ stage' = "task_init" <=> stage = "set_handler"
      /\ stage' = "ready" <=> stage = "task_init"
  BY <1>1 DEF NextStage
<1>5. available_buffer = Channels
  BY <1>1, <1>3 DEF LoaderIInv, Owners
<1>6. user_ipc_rx' \in {"NULL", "ipc_rx_user_handler"}
      /\ (stage' \in {"task_init", "ready", "schedule"} => user_ipc_rx' # "NULL")
  BY <1>1, <1>4 DEF LoaderIInv, Phases, LoaderTypes
<1>7. Loads' = Loads /\ Execs' = Execs /\ Held' = {}
  BY <1>1, <1>4 DEF Loads, Execs, Held
<1>8. CASE stage # "ready"
  <2>1. UNCHANGED <<msg_out, available_buffer>>
    BY <1>8 DEF app_entry
  <2>2. Unread' = Unread /\ Done' = Done
    BY <2>1 DEF Unread, Done
  <2>3. LoaderTypes'
    BY <1>1, <1>4, <1>6, <2>1 DEF LoaderIInv, LoaderTypes, LoaderTypeOK
  <2>4. Owners'
    BY <1>1, <1>3, <1>7, <2>1, <2>2 DEF LoaderIInv, Owners
  <2>5. Loading'
    BY <1>1, <1>7, <2>2, LoadingKeeps DEF LoaderIInv, Loading
  <2>6. Phases'
    BY <1>1, <1>2, <1>3, <1>4, <1>6, <1>7, <1>8, <2>1, <2>2 DEF LoaderIInv, Phases, Nowhere
  <2>. QED BY <2>3, <2>4, <2>5, <2>6 DEF LoaderIInv
<1>9. CASE stage = "ready"
  <2> DEFINE d == ipc_alloc_channel
  <2>1. d \in Channels
    BY <1>5, AllocIs, LoaderConstants DEF LoaderIInv
  <2>2. /\ msg_out' = [msg_out EXCEPT ![d] = "DSP_USER_CODE_READY"]
        /\ available_buffer' = available_buffer \ {d}
    BY <1>9 DEF app_entry, ipc_insert_msg
  <2> HIDE DEF d
  <2>3. \A c \in Channels : msg_out'[c] = IF c = d THEN "DSP_USER_CODE_READY" ELSE "none"
    BY <1>3, <2>1, <2>2 DEF LoaderIInv, LoaderTypes, LoaderTypeOK, Unread
  <2>4. Unread' = {d} /\ Done' = {} /\ Done = {}
    BY <1>3, <2>1, <2>3 DEF Unread, Done
  <2>5. LoaderTypes'
    BY <1>1, <1>4, <1>6, <2>2 DEF LoaderIInv, LoaderTypes, LoaderTypeOK
  <2>6. Owners'
    BY <1>1, <1>3, <1>5, <1>7, <2>1, <2>2, <2>4 DEF LoaderIInv, Owners
  <2>7. Loading'
    BY <1>1, <1>7, <2>4, LoadingKeeps DEF LoaderIInv, Loading
  <2>8. Phases'
    BY <1>1, <1>2, <1>3, <1>4, <1>6, <1>7, <1>9, <2>3, <2>4 DEF LoaderIInv, Phases, Nowhere
  <2>. QED BY <2>5, <2>6, <2>7, <2>8 DEF LoaderIInv
<1>. QED BY <1>8, <1>9

-----------------------------------------------------------------------------
LEMMA IsrEnterKeeps ==
  ASSUME LoaderIInv, IsrEnter
  PROVE  LoaderIInv'
<1>1. /\ ~InIsr /\ status.out \cup status.in # {}
      /\ isr' = [out |-> status.out, in |-> status.in, clear |-> {}]
      /\ status' = [out |-> {}, in |-> {}]
      /\ UNCHANGED <<stage, channel, available_buffer, msg_out, msg_in, buffer_in, memory,
                     user_func_entry, user_ipc_rx, dropped, mcu>>
  BY DEF IsrEnter
<1>2. /\ isr.out = {} /\ isr.in = {} /\ isr.clear = {}
      /\ isr'.out = status.out /\ isr'.in = status.in /\ isr'.clear = {}
      /\ status'.out = {} /\ status'.in = {}
  BY <1>1, LoaderFields DEF LoaderIInv
<1>3. mcu.knows # "nothing"
  BY <1>1 DEF LoaderIInv, Phases
<1>4. Unread' = Unread /\ Done' = Done /\ Held' = Held /\ Loads' = Loads /\ Execs' = Execs
  BY <1>1, <1>2 DEF Unread, Done, Held, Loads, Execs
<1>5. LoaderTypes'
  BY <1>1, LoaderFields DEF LoaderIInv, LoaderTypes, LoaderTypeOK
<1>6. Owners'
  BY <1>1, <1>2, <1>4 DEF LoaderIInv, Owners
<1>7. Loading'
  BY <1>1, <1>4, LoadingKeeps DEF LoaderIInv, Loading
<1>8. ASSUME mcu.knows = "DSP_READY"
      PROVE  Cardinality(Unread' \cup status'.out) + Cardinality(isr'.in \cap Loads')
               <= IPC_WITH_LOAD_CHANNELS
  <2>1. Unread = Done
    BY <1>8 DEF LoaderIInv, Phases, Nowhere, LoaderTypes, LoaderTypeOK, Unread, Done
  <2>2. Unread' \cup status'.out = Done
    BY <1>2, <1>4, <2>1
  <2>3. Cardinality(isr'.in \cap Loads') <= Cardinality(Loads)
    <3>1. IsFiniteSet(Loads) /\ isr'.in \cap Loads' \in SUBSET Loads
      BY <1>4, LoaderFields, Finite DEF LoaderIInv
    <3>. QED BY <3>1, FS_Subset
  <2>4. /\ Cardinality(Loads) + Cardinality(Done) <= IPC_WITH_LOAD_CHANNELS
        /\ Cardinality(Loads) \in Nat /\ Cardinality(Done) \in Nat
        /\ Cardinality(isr'.in \cap Loads') \in Nat
    <3>1. isr'.in \cap Loads' \in SUBSET Channels
      BY <1>4, LoaderFields DEF LoaderIInv
    <3>. QED BY <3>1, LoaderFields, Finite DEF LoaderIInv, Loading
  <2>5. \A a, b, c, n \in Nat : c <= a /\ a + b <= n => b + c <= n
    OBVIOUS
  <2>6. Cardinality(Unread' \cup status'.out) = Cardinality(Done)
    BY <2>2
  <2>. QED BY ONLY <2>3, <2>4, <2>5, <2>6, LoaderConstants
<1>9. Phases'
  BY <1>1, <1>2, <1>3, <1>4, <1>8 DEF LoaderIInv, Phases, Nowhere, InIsr
<1>. QED BY <1>5, <1>6, <1>7, <1>9 DEF LoaderIInv

LEMMA IsrOutKeeps ==
  ASSUME LoaderIInv, IsrOut
  PROVE  LoaderIInv'
<1>1. /\ isr.out # {} /\ isr' = [isr EXCEPT !.out = {}]
      /\ available_buffer' = available_buffer \cup isr.out
      /\ UNCHANGED <<stage, channel, msg_out, msg_in, buffer_in, status, memory,
                     user_func_entry, user_ipc_rx, dropped, mcu>>
  BY DEF IsrOut, Freed
<1>2. /\ isr'.out = {} /\ isr'.in = isr.in /\ isr'.clear = isr.clear
      /\ isr' \in [out : SUBSET Channels, in : SUBSET Channels, clear : SUBSET Channels]
  BY <1>1 DEF LoaderIInv, LoaderTypes, LoaderTypeOK
<1>3. InIsr /\ mcu.knows # "nothing" /\ stage # "boot"
  <2>1. isr # Nothing
    BY <1>1 DEF Nothing
  <2>. QED BY <2>1 DEF LoaderIInv, Phases, InIsr, LoaderTypes
<1>4. Unread' = Unread /\ Done' = Done /\ Held' = Held /\ Loads' = Loads /\ Execs' = Execs
  BY <1>1, <1>2 DEF Unread, Done, Held, Loads, Execs
<1>5. LoaderTypes'
  BY <1>1, <1>2, LoaderFields DEF LoaderIInv, LoaderTypes, LoaderTypeOK
<1>6. Owners'
  BY <1>1, <1>2, <1>3, <1>4, LoaderFields DEF LoaderIInv, Owners
<1>7. Loading'
  BY <1>1, <1>4, LoadingKeeps DEF LoaderIInv, Loading
<1>8. Phases'
  BY <1>1, <1>2, <1>3, <1>4 DEF LoaderIInv, Phases, Nowhere
<1>. QED BY <1>5, <1>6, <1>7, <1>8 DEF LoaderIInv

(* A piece is copied and answered: there is a channel for the answer.      *)
LEMMA ChannelForAnswer ==
  ASSUME LoaderIInv, InIsr, isr.out = {}, NEW c \in isr.in \cap Loads
  PROVE  /\ mcu.knows = "DSP_READY" /\ available_buffer # {}
         /\ available_buffer = Channels \ (Unread \cup status.out)
<1>1. Loads # {} /\ c \in Channels
  BY DEF Loads
<1>2. mcu.knows = "DSP_READY"
  <2>1. mcu.done # Pieces
    BY <1>1, AllDone DEF LoaderIInv
  <2>2. mcu.knows # "nothing"
    BY DEF LoaderIInv, Phases, InIsr
  <2>. QED BY <2>1, <2>2 DEF LoaderIInv, Phases, LoaderTypes
<1>3. stage = "wait" /\ Held = {}
  BY <1>2 DEF LoaderIInv, Phases, Held
<1>4. available_buffer = Channels \ (Unread \cup status.out)
  BY <1>3 DEF LoaderIInv, Owners
<1> DEFINE B == Unread \cup status.out
           L == isr.in \cap Loads
<1>5. B \in SUBSET Channels /\ L \in SUBSET Channels /\ L # {}
  BY LoaderFields DEF LoaderIInv
<1>6. Cardinality(B) + Cardinality(L) <= IPC_WITH_LOAD_CHANNELS
  BY <1>2 DEF LoaderIInv, Phases
<1> HIDE DEF B, L
<1>7. Cardinality(B) \in Nat /\ Cardinality(L) \in Nat /\ Cardinality(L) # 0
  BY <1>5, Finite
<1>8. Cardinality(B) < IPC_CHANNELS
  BY <1>6, <1>7, LoaderConstants
<1>9. B # Channels
  BY <1>7, <1>8, ChannelCount, LoaderConstants
<1>10. available_buffer # {}
  BY <1>4, <1>5, <1>9 DEF B
<1>. QED BY <1>2, <1>4, <1>10

LEMMA LoadKeeps ==
  ASSUME LoaderIInv, isr.out = {}, isr.clear = {}, NEW c \in isr.in, msg_in[c] = "LOAD_CODE", LoadCode(c),
         isr' = [isr EXCEPT !.clear = {c}],
         UNCHANGED <<channel, msg_in, buffer_in, status, user_ipc_rx, mcu>>
  PROVE  LoaderIInv'
<1> DEFINE d == ipc_alloc_channel
<1>1. c \in Channels /\ c \in isr.in \cap Loads /\ InIsr
  BY LoaderFields DEF LoaderIInv, Loads
<1>2. /\ mcu.knows = "DSP_READY" /\ available_buffer # {}
      /\ available_buffer = Channels \ (Unread \cup status.out)
  BY <1>1, ChannelForAnswer
<1>3. d \in available_buffer /\ d # NO_CHANNEL /\ d \in Channels
  BY <1>2, AllocIs, LoaderConstants DEF LoaderIInv
<1>4. /\ memory' = memory \cup {buffer_in[c]}
      /\ msg_out' = [msg_out EXCEPT ![d] = "LOAD_CODE_DONE"]
      /\ available_buffer' = available_buffer \ {d}
      /\ UNCHANGED <<stage, user_func_entry, dropped>>
  BY <1>3 DEF LoadCode, Copied, ipc_insert_msg
<1> HIDE DEF d
<1>5. /\ stage = "wait" /\ Held = {} /\ Held' = {}
      /\ \A x \in Channels : msg_out[x] \in {"none", "LOAD_CODE_DONE"}
                             /\ msg_in[x] \in {"none", "LOAD_CODE"}
  BY <1>2, <1>4 DEF LoaderIInv, Phases, Nowhere, Held, LoaderTypes, LoaderTypeOK
<1>6. /\ isr'.out = {} /\ isr'.in = isr.in /\ isr'.clear = {c}
      /\ isr' \in [out : SUBSET Channels, in : SUBSET Channels, clear : SUBSET Channels]
  BY <1>1 DEF LoaderIInv, LoaderTypes, LoaderTypeOK
<1>7. /\ d \notin Unread /\ d \notin Done /\ d \notin status.out
      /\ Unread' = Unread \cup {d} /\ Done' = Done \cup {d}
  BY <1>2, <1>3, <1>4, <1>5 DEF LoaderIInv, LoaderTypes, LoaderTypeOK, Unread, Done
<1>8. Loads' = Loads \ {c} /\ Execs' = {}
  BY <1>5, <1>6 DEF Loads, Execs
<1>9. buffer_in[c] \in 1 .. mcu.sent /\ mcu.sent \in 0 .. Pieces /\ Pieces \in Nat
  BY <1>1, LoaderFields, LoaderConstants DEF LoaderIInv, Loading
<1>10. LoaderTypes'
  BY <1>3, <1>4, <1>6, <1>9 DEF LoaderIInv, LoaderTypes, LoaderTypeOK
<1>11. Owners'
  BY <1>1, <1>2, <1>3, <1>4, <1>5, <1>6, <1>7 DEF LoaderIInv, Owners
<1>12. /\ Cardinality(Loads') = Cardinality(Loads) - 1
       /\ Cardinality(Done') = Cardinality(Done) + 1
       /\ Cardinality(Loads) \in Nat /\ Cardinality(Done) \in Nat
  BY <1>1, <1>3, <1>7, <1>8, LoaderFields, Finite, OneMore, OneLess DEF LoaderIInv
<1>13. Loading'
  <2>1. Cardinality(Loads') + Cardinality(Done') = mcu.sent - mcu.done
    BY <1>12 DEF LoaderIInv, Loading
  <2>2. {buffer_in[x] : x \in Loads} = {buffer_in[x] : x \in Loads'} \cup {buffer_in[c]}
    BY <1>1, <1>8
  <2>3. 1 .. mcu.sent = memory' \cup {buffer_in[x] : x \in Loads'}
    BY <1>4, <2>2 DEF LoaderIInv, Loading
  <2>. QED BY <1>8, <2>1, <2>3 DEF LoaderIInv, Loading
<1>14. Phases'
  <2>1. Cardinality(Unread' \cup status.out) = Cardinality(Unread \cup status.out) + 1
    <3>1. Unread' \cup status.out = (Unread \cup status.out) \cup {d}
          /\ Unread \cup status.out \in SUBSET Channels /\ d \notin Unread \cup status.out
      BY <1>7, LoaderFields DEF LoaderIInv
    <3>. QED BY <1>3, <3>1, OneMore
  <2>2. Cardinality(isr.in \cap Loads') = Cardinality(isr.in \cap Loads) - 1
    <3>1. isr.in \cap Loads' = (isr.in \cap Loads) \ {c} /\ isr.in \cap Loads \in SUBSET Channels
      BY <1>8, LoaderFields DEF LoaderIInv
    <3>. QED BY <1>1, <3>1, OneLess
  <2>3. Cardinality(Unread \cup status.out) \in Nat /\ Cardinality(isr.in \cap Loads) \in Nat
        /\ Cardinality(Unread \cup status.out) + Cardinality(isr.in \cap Loads)
             <= IPC_WITH_LOAD_CHANNELS
    <3>1. Unread \cup status.out \in SUBSET Channels /\ isr.in \cap Loads \in SUBSET Channels
      BY LoaderFields DEF LoaderIInv
    <3>. QED BY <1>1, <1>2, <3>1, Finite DEF LoaderIInv, Phases
  <2>4. Cardinality(Unread' \cup status'.out) + Cardinality(isr'.in \cap Loads')
          <= IPC_WITH_LOAD_CHANNELS
    BY <1>6, <2>1, <2>2, <2>3
  <2>5. \A x \in Channels : msg_out'[x] \in {"none", "LOAD_CODE_DONE"}
                             /\ msg_in'[x] \in {"none", "LOAD_CODE"}
    BY <1>3, <1>4, <1>5 DEF LoaderIInv, LoaderTypes, LoaderTypeOK
  <2>. QED BY <1>2, <1>4, <1>5, <2>4, <2>5 DEF LoaderIInv, Phases, Nowhere
<1>. QED BY <1>10, <1>11, <1>13, <1>14 DEF LoaderIInv

LEMMA ExecKeeps ==
  ASSUME LoaderIInv, isr.out = {}, isr.clear = {}, NEW c \in isr.in, msg_in[c] = "EXEC_USER_CODE",
         ExecUserCode, isr' = [isr EXCEPT !.clear = {c}],
         UNCHANGED <<channel, msg_in, buffer_in, status, user_ipc_rx, mcu>>
  PROVE  LoaderIInv'
<1>1. /\ user_func_entry' = "app_entry"
      /\ UNCHANGED <<memory, stage, msg_out, available_buffer, dropped>>
  BY DEF ExecUserCode
<1>2. c \in Channels /\ c \in Execs /\ InIsr
  BY LoaderFields DEF LoaderIInv, Execs
<1>3. mcu.knows = "entered"
  BY <1>2 DEF LoaderIInv, Phases, Nowhere, LoaderTypes
<1>4. /\ user_func_entry = "NULL" /\ stage = "wait" /\ Unread = {} /\ status.out = {}
      /\ Execs = {c}
  BY <1>2, <1>3 DEF LoaderIInv, Phases, LoaderTypes
<1>5. /\ isr'.out = {} /\ isr'.in = isr.in /\ isr'.clear = {c}
      /\ isr' \in [out : SUBSET Channels, in : SUBSET Channels, clear : SUBSET Channels]
  BY <1>2 DEF LoaderIInv, LoaderTypes, LoaderTypeOK
<1>6. /\ Unread' = Unread /\ Done' = Done /\ Held' = Held
      /\ Loads' = Loads /\ Execs' = {}
  BY <1>1, <1>2, <1>4, <1>5 DEF Unread, Done, Held, Loads, Execs
<1>7. LoaderTypes'
  BY <1>1, <1>5 DEF LoaderIInv, LoaderTypes, LoaderTypeOK
<1>8. Owners'
  BY <1>1, <1>5, <1>6 DEF LoaderIInv, Owners
<1>9. Loading'
  BY <1>1, <1>6, LoadingKeeps DEF LoaderIInv, Loading
<1>10. Phases'
  BY <1>1, <1>3, <1>4, <1>5, <1>6 DEF LoaderIInv, Phases, Nowhere
<1>. QED BY <1>7, <1>8, <1>9, <1>10 DEF LoaderIInv

LEMMA UserKeeps ==
  ASSUME LoaderIInv, isr.out = {}, isr.clear = {}, NEW c \in isr.in, msg_in[c] = "USER", UserMessage,
         isr' = [isr EXCEPT !.clear = {c}],
         UNCHANGED <<channel, msg_in, buffer_in, status, user_ipc_rx, mcu>>
  PROVE  LoaderIInv'
<1>1. /\ dropped' = (dropped \/ user_ipc_rx = "NULL" \/ stage = "task_init")
      /\ UNCHANGED <<memory, stage, msg_out, available_buffer, user_func_entry>>
  BY DEF UserMessage
<1>2. c \in Channels
  BY LoaderFields DEF LoaderIInv
<1>3. mcu.knows = "DSP_USER_CODE_READY"
  BY <1>2 DEF LoaderIInv, Phases, Nowhere, LoaderTypes
<1>4. stage = "schedule" /\ user_ipc_rx # "NULL" /\ dropped = FALSE
  BY <1>3 DEF LoaderIInv, Phases
<1>5. dropped' = FALSE
  BY <1>1, <1>4
<1>6. /\ isr'.out = {} /\ isr'.in = isr.in /\ isr'.clear = {c}
      /\ isr' \in [out : SUBSET Channels, in : SUBSET Channels, clear : SUBSET Channels]
  BY <1>2 DEF LoaderIInv, LoaderTypes, LoaderTypeOK
<1>7. /\ Unread' = Unread /\ Done' = Done /\ Held' = Held
      /\ Loads' = Loads /\ Execs' = Execs
  BY <1>1, <1>6 DEF Unread, Done, Held, Loads, Execs
<1>8. LoaderTypes'
  BY <1>1, <1>6 DEF LoaderIInv, LoaderTypes, LoaderTypeOK
<1>9. Owners'
  BY <1>1, <1>6, <1>7 DEF LoaderIInv, Owners
<1>10. Loading'
  BY <1>1, <1>7, LoadingKeeps DEF LoaderIInv, Loading
<1>11. Phases'
  BY <1>1, <1>3, <1>4, <1>5, <1>6, <1>7 DEF LoaderIInv, Phases, Nowhere
<1>. QED BY <1>8, <1>9, <1>10, <1>11 DEF LoaderIInv

LEMMA IsrInKeeps ==
  ASSUME LoaderIInv, IsrIn
  PROVE  LoaderIInv'
<1> DEFINE c == Min(isr.in)
<1>1. /\ isr.out = {} /\ isr.clear = {} /\ isr.in # {}
      /\ \/ msg_in[c] = "LOAD_CODE" /\ LoadCode(c)
         \/ msg_in[c] = "EXEC_USER_CODE" /\ ExecUserCode
         \/ msg_in[c] = "USER" /\ UserMessage
      /\ isr' = [isr EXCEPT !.clear = {c}]
      /\ UNCHANGED <<channel, msg_in, buffer_in, status, user_ipc_rx, mcu>>
  BY DEF IsrIn
<1>2. c \in isr.in
  BY <1>1, MinIs, LoaderFields DEF LoaderIInv
<1> HIDE DEF c
<1>. QED BY <1>1, <1>2, LoadKeeps, ExecKeeps, UserKeeps

LEMMA IsrClearKeeps ==
  ASSUME LoaderIInv, IsrClear
  PROVE  LoaderIInv'
<1>1. /\ isr.clear # {}
      /\ msg_in' = [c \in Channels |-> IF c \in isr.clear THEN "none" ELSE msg_in[c]]
      /\ isr' = [isr EXCEPT !.in = @ \ isr.clear, !.clear = {}]
      /\ UNCHANGED <<stage, channel, available_buffer, msg_out, buffer_in, status, memory,
                     user_func_entry, user_ipc_rx, dropped, mcu>>
  BY DEF IsrClear, ipc_clear_msg
<1>2. /\ isr'.out = isr.out /\ isr'.in = isr.in \ isr.clear /\ isr'.clear = {}
      /\ isr' \in [out : SUBSET Channels, in : SUBSET Channels, clear : SUBSET Channels]
  BY <1>1 DEF LoaderIInv, LoaderTypes, LoaderTypeOK
<1>3. InIsr /\ mcu.knows # "nothing"
  <2>1. isr # Nothing
    BY <1>1 DEF Nothing
  <2>. QED BY <2>1 DEF LoaderIInv, Phases, InIsr, LoaderTypes
<1>4. /\ Unread' = Unread /\ Done' = Done /\ Held' = Held /\ Loads' = Loads /\ Execs' = Execs
  BY <1>1, <1>2 DEF Unread, Done, Held, Loads, Execs
<1>5. \A c \in Channels : msg_in'[c] = msg_in[c] \/ msg_in'[c] = "none"
  BY <1>1
<1>6. isr'.in \cap Loads' = isr.in \cap Loads
  BY <1>2, <1>4 DEF Loads
<1>7. LoaderTypes'
  BY <1>1, <1>2 DEF LoaderIInv, LoaderTypes, LoaderTypeOK
<1>8. Owners'
  BY <1>1, <1>2, <1>4, LoaderFields DEF LoaderIInv, Owners
<1>9. Loading'
  BY <1>1, <1>4, <1>5, LoadingKeeps DEF LoaderIInv, Loading
<1>10. Phases'
  BY <1>1, <1>2, <1>3, <1>4, <1>5, <1>6 DEF LoaderIInv, Phases, Nowhere
<1>. QED BY <1>7, <1>8, <1>9, <1>10 DEF LoaderIInv

-----------------------------------------------------------------------------
(* The MCU reads a message of the DSP. *)
LEMMA AnswerReadKeeps ==
  ASSUME LoaderIInv, NEW c \in Channels, McuReads(c), msg_out[c] = "LOAD_CODE_DONE"
  PROVE  LoaderIInv'
<1>1. /\ msg_out' = [msg_out EXCEPT ![c] = "none"]
      /\ status' = [status EXCEPT !.out = @ \cup {c}]
      /\ mcu' = [mcu EXCEPT !.done = @ + 1]
      /\ UNCHANGED <<stage, channel, available_buffer, msg_in, buffer_in, isr, memory,
                     user_func_entry, user_ipc_rx, dropped>>
  BY DEF McuReads
<1>2. c \in Done /\ c \in Unread
  BY DEF Done, Unread
<1>3. mcu.knows = "DSP_READY"
  <2>1. mcu.done # Pieces
    BY <1>2, AllDone DEF LoaderIInv
  <2>. QED BY <1>2, <2>1 DEF LoaderIInv, Phases, Nowhere, LoaderTypes
<1>4. /\ status'.out = status.out \cup {c} /\ status'.in = status.in
      /\ status' \in [out : SUBSET Channels, in : SUBSET Channels]
  BY <1>1 DEF LoaderIInv, LoaderTypes, LoaderTypeOK
<1>5. \A x \in Channels : msg_out'[x] = IF x = c THEN "none" ELSE msg_out[x]
  BY <1>1 DEF LoaderIInv, LoaderTypes, LoaderTypeOK
<1>6. /\ Unread' = Unread \ {c} /\ Done' = Done \ {c} /\ Held' = Held
      /\ Loads' = Loads /\ Execs' = Execs
  BY <1>1, <1>5 DEF Unread, Done, Held, Loads, Execs
<1>7. /\ Cardinality(Done') = Cardinality(Done) - 1
      /\ Cardinality(Done) \in Nat \ {0} /\ Cardinality(Loads) \in Nat
  <2>1. Done \in SUBSET Channels /\ Loads \in SUBSET Channels /\ Done # {}
    BY <1>2, LoaderFields DEF LoaderIInv
  <2>2. Cardinality(Done) \in Nat \ {0} /\ Cardinality(Loads) \in Nat
    BY <2>1, Finite
  <2>. QED BY <1>2, <1>6, <2>1, <2>2, OneLess
<1>8. /\ mcu.sent \in 0 .. Pieces /\ mcu.done \in 0 .. Pieces /\ Pieces \in Nat
      /\ Cardinality(Loads) + Cardinality(Done) = mcu.sent - mcu.done
      /\ mcu.sent - mcu.done <= IPC_WITH_LOAD_CHANNELS /\ IPC_WITH_LOAD_CHANNELS \in Nat
  BY LoaderFields, LoaderConstants DEF LoaderIInv, Loading
<1>9. mcu.done + 1 \in 0 .. mcu.sent /\ mcu.done + 1 \in 0 .. Pieces
  BY <1>7, <1>8
<1>10. /\ mcu'.done = mcu.done + 1 /\ mcu'.sent = mcu.sent /\ mcu'.knows = mcu.knows
       /\ mcu' \in [sent : 0 .. Pieces, done : 0 .. Pieces,
                    knows : {"nothing", "DSP_READY", "entered", "DSP_USER_CODE_READY"}]
  BY <1>1, <1>9 DEF LoaderIInv, LoaderTypes
<1>11. LoaderTypes'
  BY <1>1, <1>4, <1>9, <1>10 DEF LoaderIInv, LoaderTypes, LoaderTypeOK
<1>12. Owners'
  BY <1>1, <1>2, <1>4, <1>6 DEF LoaderIInv, Owners
<1>13. Loading'
  <2>1. /\ Cardinality(Loads') + Cardinality(Done') = mcu'.sent - mcu'.done
        /\ mcu'.sent - mcu'.done <= IPC_WITH_LOAD_CHANNELS
    BY <1>6, <1>7, <1>8, <1>10
  <2>. QED BY <1>1, <1>6, <1>10, <2>1 DEF LoaderIInv, Loading
<1>14. Phases'
  <2>1. Unread' \cup status'.out = Unread \cup status.out
    BY <1>2, <1>4, <1>6
  <2>2. isr'.in \cap Loads' = isr.in \cap Loads
    BY <1>1, <1>6
  <2>3. mcu'.knows = "DSP_READY"
    BY <1>3, <1>10
  <2>4. /\ stage = "wait" /\ user_func_entry = "NULL" /\ dropped = FALSE
        /\ Nowhere({"DSP_READY", "EXEC_USER_CODE", "DSP_USER_CODE_READY", "USER"})
        /\ InIsr => Cardinality(Unread \cup status.out) + Cardinality(isr.in \cap Loads)
                    <= IPC_WITH_LOAD_CHANNELS
    BY <1>3 DEF LoaderIInv, Phases
  <2>5. Nowhere({"DSP_READY", "EXEC_USER_CODE", "DSP_USER_CODE_READY", "USER"})'
    BY <1>1, <1>5, <2>4 DEF Nowhere
  <2>6. InIsr' => Cardinality(Unread' \cup status'.out) + Cardinality(isr'.in \cap Loads')
                  <= IPC_WITH_LOAD_CHANNELS
    <3>1. InIsr' = InIsr
      BY <1>1 DEF InIsr
    <3>. QED BY <2>1, <2>2, <2>4, <3>1
  <2>7. stage' = "wait" /\ user_func_entry' = "NULL" /\ dropped' = FALSE
    BY <1>1, <2>4
  <2>. QED BY <2>3, <2>5, <2>6, <2>7 DEF Phases
<1>. QED BY <1>11, <1>12, <1>13, <1>14 DEF LoaderIInv

LEMMA ReadyReadKeeps ==
  ASSUME LoaderIInv, NEW c \in Channels, McuReads(c), msg_out[c] # "LOAD_CODE_DONE"
  PROVE  LoaderIInv'
<1>1. /\ msg_out[c] # "none" /\ msg_out' = [msg_out EXCEPT ![c] = "none"]
      /\ status' = [status EXCEPT !.out = @ \cup {c}]
      /\ mcu' = [mcu EXCEPT !.knows = msg_out[c]]
      /\ UNCHANGED <<stage, channel, available_buffer, msg_in, buffer_in, isr, memory,
                     user_func_entry, user_ipc_rx, dropped>>
  BY DEF McuReads
<1>2. c \in Unread /\ c \notin Done /\ msg_out[c] \in {"DSP_READY", "DSP_USER_CODE_READY"}
  BY <1>1 DEF LoaderIInv, LoaderTypes, LoaderTypeOK, Unread, Done
<1>3. \/ mcu.knows = "nothing" /\ msg_out[c] = "DSP_READY" /\ stage = "wait" /\ Unread = {c}
      \/ mcu.knows = "entered" /\ msg_out[c] = "DSP_USER_CODE_READY" /\ stage = "schedule"
         /\ Unread = {c} /\ mcu.done = Pieces /\ Execs = {}
  BY <1>2 DEF LoaderIInv, Phases, Nowhere, LoaderTypes
<1>4. /\ status'.out = status.out \cup {c} /\ status'.in = status.in
      /\ status' \in [out : SUBSET Channels, in : SUBSET Channels]
  BY <1>1 DEF LoaderIInv, LoaderTypes, LoaderTypeOK
<1>5. \A x \in Channels : msg_out'[x] = IF x = c THEN "none" ELSE msg_out[x]
  BY <1>1 DEF LoaderIInv, LoaderTypes, LoaderTypeOK
<1>6. /\ Unread' = {} /\ Done' = Done /\ Held' = Held
      /\ Loads' = Loads /\ Execs' = Execs
  BY <1>1, <1>2, <1>3, <1>5 DEF Unread, Done, Held, Loads, Execs
<1>7. /\ mcu'.done = mcu.done /\ mcu'.sent = mcu.sent /\ mcu'.knows = msg_out[c]
      /\ mcu' \in [sent : 0 .. Pieces, done : 0 .. Pieces,
                   knows : {"nothing", "DSP_READY", "entered", "DSP_USER_CODE_READY"}]
  BY <1>1, <1>2 DEF LoaderIInv, LoaderTypes
<1>8. LoaderTypes'
  BY <1>1, <1>4, <1>7 DEF LoaderIInv, LoaderTypes, LoaderTypeOK
<1>9. Owners'
  BY <1>1, <1>2, <1>3, <1>4, <1>6 DEF LoaderIInv, Owners
<1>10. Loading'
  BY <1>1, <1>6, <1>7 DEF LoaderIInv, Loading
<1>11. Phases'
  <2>1. CASE mcu.knows = "nothing"
    <3>1. isr = Nothing /\ ~InIsr'
      BY <1>1, <2>1 DEF LoaderIInv, Phases, InIsr
    <3>2. \A x \in Channels : msg_out'[x] = "none"
      BY <1>6 DEF Unread
    <3>3. mcu'.knows = "DSP_READY" /\ stage' = "wait"
      BY <1>1, <1>3, <1>7, <2>1
    <3>4. user_func_entry' = "NULL" /\ dropped' = FALSE
      BY <1>1, <2>1 DEF LoaderIInv, Phases
    <3>5. \A x \in Channels : msg_in'[x] \in {"none", "LOAD_CODE", "EXEC_USER_CODE", "USER"}
                              /\ msg_in'[x] \notin {"EXEC_USER_CODE", "USER"}
      <4>1. \A x \in Channels : msg_in[x] \notin {"EXEC_USER_CODE", "USER"}
        BY <2>1 DEF LoaderIInv, Phases, Nowhere
      <4>. QED BY <1>1, <4>1 DEF LoaderIInv, LoaderTypes, LoaderTypeOK
    <3>6. Nowhere({"DSP_READY", "EXEC_USER_CODE", "DSP_USER_CODE_READY", "USER"})'
      BY <3>2, <3>5 DEF Nowhere
    <3>. QED BY <3>1, <3>3, <3>4, <3>6 DEF Phases
  <2>2. CASE mcu.knows = "entered"
    BY <1>1, <1>3, <1>6, <1>7, <2>2 DEF LoaderIInv, Phases
  <2>. QED BY <1>3, <2>1, <2>2
<1>. QED BY <1>8, <1>9, <1>10, <1>11 DEF LoaderIInv

(* A message of the MCU is in a channel that neither waits nor is handled. *)
LEMMA Posted ==
  ASSUME LoaderIInv, NEW c \in Channels, NEW msg \in {"LOAD_CODE", "EXEC_USER_CODE", "USER"},
         McuPosts(c, msg)
  PROVE  /\ msg_in[c] = "none" /\ c \notin isr.in /\ c \notin isr.clear /\ c \notin status.in
         /\ msg_in' = [msg_in EXCEPT ![c] = msg]
         /\ \A x \in Channels : msg_in'[x] = IF x = c THEN msg ELSE msg_in[x]
         /\ status'.out = status.out /\ status'.in = status.in \cup {c}
         /\ status' \in [out : SUBSET Channels, in : SUBSET Channels]
         /\ UNCHANGED <<stage, channel, available_buffer, msg_out, isr, memory,
                        user_func_entry, user_ipc_rx, dropped>>
         /\ Unread' = Unread /\ Done' = Done /\ Held' = Held
         /\ Loads' = IF msg = "LOAD_CODE" THEN Loads \cup {c} ELSE Loads
         /\ Execs' = IF msg = "EXEC_USER_CODE" THEN Execs \cup {c} ELSE Execs
         /\ c \notin Loads /\ c \notin Execs
<1>1. /\ msg_in[c] = "none" /\ msg_in' = [msg_in EXCEPT ![c] = msg]
      /\ status' = [status EXCEPT !.in = @ \cup {c}]
      /\ UNCHANGED <<stage, channel, available_buffer, msg_out, isr, memory,
                     user_func_entry, user_ipc_rx, dropped>>
  BY DEF McuPosts
<1>2. c \notin isr.in /\ c \notin isr.clear /\ c \notin status.in
  BY <1>1 DEF LoaderIInv, Owners
<1>3. \A x \in Channels : msg_in'[x] = IF x = c THEN msg ELSE msg_in[x]
  BY <1>1 DEF LoaderIInv, LoaderTypes, LoaderTypeOK
<1>4. /\ status'.out = status.out /\ status'.in = status.in \cup {c}
      /\ status' \in [out : SUBSET Channels, in : SUBSET Channels]
  BY <1>1 DEF LoaderIInv, LoaderTypes, LoaderTypeOK
<1>5. Unread' = Unread /\ Done' = Done /\ Held' = Held
  BY <1>1 DEF Unread, Done, Held
<1>6. /\ Loads' = IF msg = "LOAD_CODE" THEN Loads \cup {c} ELSE Loads
      /\ Execs' = IF msg = "EXEC_USER_CODE" THEN Execs \cup {c} ELSE Execs
      /\ c \notin Loads /\ c \notin Execs
  BY <1>1, <1>2, <1>3 DEF Loads, Execs
<1>. QED BY <1>1, <1>2, <1>3, <1>4, <1>5, <1>6

LEMMA PostedOwners ==
  ASSUME LoaderIInv, NEW c \in Channels, NEW msg \in {"LOAD_CODE", "EXEC_USER_CODE", "USER"},
         McuPosts(c, msg)
  PROVE  Owners'
<1>1. \A x \in Channels : msg_in'[x] = IF x = c THEN msg ELSE msg_in[x]
  BY Posted
<1>2. /\ c \notin isr.in /\ status'.out = status.out /\ status'.in = status.in \cup {c}
      /\ UNCHANGED <<stage, available_buffer, isr>>
      /\ Unread' = Unread /\ Held' = Held
  BY Posted
<1>3. \A x \in isr'.in \cup status'.in : msg_in'[x] # "none"
  BY <1>1, <1>2, LoaderFields DEF LoaderIInv, Owners
<1>. QED BY <1>2, <1>3 DEF LoaderIInv, Owners

LEMMA LoadsKeeps ==
  ASSUME LoaderIInv, NEW c \in LoadChannels, McuLoads(c)
  PROVE  LoaderIInv'
<1>1. /\ mcu.knows = "DSP_READY" /\ mcu.sent < Pieces
      /\ mcu.sent - mcu.done < IPC_WITH_LOAD_CHANNELS
      /\ McuPosts(c, "LOAD_CODE") /\ c \in Channels
      /\ buffer_in' = [buffer_in EXCEPT ![c] = mcu.sent + 1]
      /\ mcu' = [mcu EXCEPT !.sent = @ + 1]
  BY LoaderConstants DEF McuLoads
<1>2. /\ c \notin isr.in /\ c \notin Loads /\ Loads' = Loads \cup {c}
      /\ UNCHANGED <<stage, channel, available_buffer, msg_out, isr, memory,
                     user_func_entry, user_ipc_rx, dropped>>
      /\ Unread' = Unread /\ Done' = Done /\ status'.out = status.out
      /\ status' \in [out : SUBSET Channels, in : SUBSET Channels]
      /\ msg_in' = [msg_in EXCEPT ![c] = "LOAD_CODE"]
  BY <1>1, Posted
<1>3. \A x \in Channels : msg_in'[x] = IF x = c THEN "LOAD_CODE" ELSE msg_in[x]
  BY <1>1, Posted
<1>4. /\ mcu.sent \in 0 .. Pieces /\ mcu.done \in 0 .. Pieces /\ Pieces \in Nat
      /\ mcu.done \in 0 .. mcu.sent /\ mcu.sent + 1 \in 1 .. Pieces
  BY <1>1, LoaderFields, LoaderConstants DEF LoaderIInv, LoaderTypes, LoaderTypeOK
<1>5. /\ mcu'.sent = mcu.sent + 1 /\ mcu'.done = mcu.done /\ mcu'.knows = "DSP_READY"
      /\ mcu' \in [sent : 0 .. Pieces, done : 0 .. Pieces,
                   knows : {"nothing", "DSP_READY", "entered", "DSP_USER_CODE_READY"}]
  BY <1>1, <1>4 DEF LoaderIInv, LoaderTypes
<1>6. /\ buffer_in' \in [LoadChannels -> 0 .. Pieces] /\ buffer_in'[c] = mcu.sent + 1
      /\ \A x \in LoadChannels : x # c => buffer_in'[x] = buffer_in[x]
  BY <1>1, <1>4 DEF LoaderIInv, LoaderTypes
<1>7. LoaderTypes'
  <2>1. msg_in' \in [Channels -> {"none", "LOAD_CODE", "EXEC_USER_CODE", "USER"}]
    BY <1>2 DEF LoaderIInv, LoaderTypes, LoaderTypeOK
  <2>2. memory' \subseteq 1 .. Pieces /\ mcu'.done \in 0 .. mcu'.sent /\ mcu'.sent \in 0 .. Pieces
    BY <1>2, <1>4, <1>5 DEF LoaderIInv, LoaderTypes, LoaderTypeOK
  <2>3. LoaderTypeOK'
    BY <1>2, <2>1, <2>2 DEF LoaderIInv, LoaderTypes, LoaderTypeOK
  <2>. QED BY <1>2, <1>5, <1>6, <2>3 DEF LoaderIInv, LoaderTypes
<1>8. Owners'
  BY <1>1, PostedOwners
<1>9. Loading'
  <2>1. Cardinality(Loads') = Cardinality(Loads) + 1
    BY <1>1, <1>2, LoaderFields, OneMore DEF LoaderIInv
  <2>2. Cardinality(Loads) \in Nat /\ Cardinality(Done) \in Nat
    BY LoaderFields, Finite DEF LoaderIInv
  <2>3. /\ Cardinality(Loads') + Cardinality(Done') = mcu'.sent - mcu'.done
        /\ mcu'.sent - mcu'.done <= IPC_WITH_LOAD_CHANNELS
    <3>1. Cardinality(Loads) + Cardinality(Done) = mcu.sent - mcu.done
      BY DEF LoaderIInv, Loading
    <3>. QED BY <1>1, <1>2, <1>4, <1>5, <2>1, <2>2, <3>1, LoaderConstants
  <2>4. \A x \in Channels : msg_in'[x] = "LOAD_CODE" => x \in LoadChannels
    BY <1>3 DEF LoaderIInv, Loading
  <2>5. Loads \subseteq LoadChannels
    BY DEF LoaderIInv, Loading, Loads
  <2>6. {buffer_in'[x] : x \in Loads'} = {buffer_in[x] : x \in Loads} \cup {mcu.sent + 1}
    BY <1>2, <1>6, <2>5
  <2>7. 1 .. mcu'.sent = (1 .. mcu.sent) \cup {mcu.sent + 1}
    BY <1>4, <1>5
  <2>8. 1 .. mcu'.sent = memory' \cup {buffer_in'[x] : x \in Loads'}
    BY <1>2, <2>6, <2>7 DEF LoaderIInv, Loading
  <2>9. \A x \in Loads' : buffer_in'[x] \in 1 .. mcu'.sent
    BY <2>8
  <2>. QED BY <2>3, <2>4, <2>8, <2>9 DEF Loading
<1>10. Phases'
  <2>1. isr'.in \cap Loads' = isr.in \cap Loads
    BY <1>2
  <2>2. /\ stage = "wait" /\ user_func_entry = "NULL" /\ dropped = FALSE
        /\ Nowhere({"DSP_READY", "EXEC_USER_CODE", "DSP_USER_CODE_READY", "USER"})
        /\ InIsr => Cardinality(Unread \cup status.out) + Cardinality(isr.in \cap Loads)
                    <= IPC_WITH_LOAD_CHANNELS
    BY <1>1 DEF LoaderIInv, Phases
  <2>3. Nowhere({"DSP_READY", "EXEC_USER_CODE", "DSP_USER_CODE_READY", "USER"})'
    BY <1>2, <1>3, <2>2 DEF Nowhere
  <2>4. InIsr' => Cardinality(Unread' \cup status'.out) + Cardinality(isr'.in \cap Loads')
                  <= IPC_WITH_LOAD_CHANNELS
    <3>1. InIsr' = InIsr
      BY <1>2 DEF InIsr
    <3>2. Unread' \cup status'.out = Unread \cup status.out
      BY <1>2
    <3>. QED BY <2>1, <2>2, <3>1, <3>2
  <2>5. stage' = "wait" /\ user_func_entry' = "NULL" /\ dropped' = FALSE
    BY <1>2, <2>2
  <2>. QED BY <1>5, <2>3, <2>4, <2>5 DEF Phases
<1>. QED BY <1>7, <1>8, <1>9, <1>10 DEF LoaderIInv

LEMMA ExecsKeeps ==
  ASSUME LoaderIInv, NEW c \in LoadChannels, McuExecs(c)
  PROVE  LoaderIInv'
<1>1. /\ mcu.knows = "DSP_READY" /\ mcu.done = Pieces /\ c \in Channels
      /\ McuPosts(c, "EXEC_USER_CODE") /\ mcu' = [mcu EXCEPT !.knows = "entered"]
      /\ UNCHANGED buffer_in
  BY LoaderConstants DEF McuExecs
<1>2. /\ c \notin isr.in /\ Loads' = Loads /\ Execs' = Execs \cup {c}
      /\ UNCHANGED <<stage, channel, available_buffer, msg_out, isr, memory,
                     user_func_entry, user_ipc_rx, dropped>>
      /\ Unread' = Unread /\ Done' = Done /\ status'.out = status.out
      /\ status' \in [out : SUBSET Channels, in : SUBSET Channels]
      /\ msg_in' = [msg_in EXCEPT ![c] = "EXEC_USER_CODE"]
  BY <1>1, Posted
<1>3. \A x \in Channels : msg_in'[x] = IF x = c THEN "EXEC_USER_CODE" ELSE msg_in[x]
  BY <1>1, Posted
<1>4. /\ mcu'.done = mcu.done /\ mcu'.sent = mcu.sent /\ mcu'.knows = "entered"
      /\ mcu' \in [sent : 0 .. Pieces, done : 0 .. Pieces,
                   knows : {"nothing", "DSP_READY", "entered", "DSP_USER_CODE_READY"}]
  BY <1>1 DEF LoaderIInv, LoaderTypes
<1>5. Loads = {} /\ Done = {} /\ Unread = {} /\ Execs = {}
  <2>1. Loads = {} /\ Done = {}
    BY <1>1, AllDone DEF LoaderIInv
  <2>. QED BY <1>1, <2>1 DEF LoaderIInv, Phases, Nowhere, LoaderTypes, LoaderTypeOK, Unread, Done, Execs
<1>6. LoaderTypes'
  BY <1>1, <1>2, <1>4 DEF LoaderIInv, LoaderTypes, LoaderTypeOK
<1>7. Owners'
  BY <1>1, PostedOwners
<1>8. Loading'
  BY <1>1, <1>2, <1>3, <1>4 DEF LoaderIInv, Loading
<1>9. Phases'
  BY <1>1, <1>2, <1>3, <1>4, <1>5 DEF LoaderIInv, Phases, Nowhere
<1>. QED BY <1>6, <1>7, <1>8, <1>9 DEF LoaderIInv

LEMMA TalksKeeps ==
  ASSUME LoaderIInv, NEW c \in Channels, McuTalks(c)
  PROVE  LoaderIInv'
<1>1. /\ mcu.knows = "DSP_USER_CODE_READY" /\ McuPosts(c, "USER")
      /\ UNCHANGED <<buffer_in, mcu>>
  BY DEF McuTalks
<1>2. /\ Loads' = Loads /\ Execs' = Execs
      /\ UNCHANGED <<stage, channel, available_buffer, msg_out, isr, memory,
                     user_func_entry, user_ipc_rx, dropped>>
      /\ Unread' = Unread /\ Done' = Done /\ status'.out = status.out
      /\ status' \in [out : SUBSET Channels, in : SUBSET Channels]
      /\ msg_in' = [msg_in EXCEPT ![c] = "USER"]
  BY <1>1, Posted
<1>3. \A x \in Channels : msg_in'[x] = IF x = c THEN "USER" ELSE msg_in[x]
  BY <1>1, Posted
<1>4. LoaderTypes'
  BY <1>1, <1>2 DEF LoaderIInv, LoaderTypes, LoaderTypeOK
<1>5. Owners'
  BY <1>1, PostedOwners
<1>6. Loading'
  BY <1>1, <1>2, <1>3, LoadingKeeps DEF LoaderIInv, Loading
<1>7. Phases'
  BY <1>1, <1>2 DEF LoaderIInv, Phases
<1>. QED BY <1>4, <1>5, <1>6, <1>7 DEF LoaderIInv

-----------------------------------------------------------------------------
LEMMA LoaderInitInvariant == Init => LoaderIInv
<1> SUFFICES ASSUME Init PROVE LoaderIInv
  OBVIOUS
<1>1. IpcInit
  BY DEF Init
<1>2. Unread = {} /\ Done = {} /\ Held = {} /\ Loads = {} /\ Execs = {}
  BY <1>1 DEF IpcInit, Unread, Done, Held, Loads, Execs
<1>3. LoaderTypes
  BY <1>1, LoaderConstants DEF IpcInit, LoaderTypes, LoaderTypeOK, Nothing
<1>4. Owners
  BY <1>1, <1>2 DEF IpcInit, Owners, Nothing
<1>5. Loading
  <2>1. mcu.sent = 0 /\ mcu.done = 0 /\ memory = {}
    BY <1>1 DEF IpcInit
  <2>2. Cardinality({}) = 0
    BY FS_EmptySet
  <2>3. 1 .. mcu.sent = {} /\ 0 <= IPC_WITH_LOAD_CHANNELS
    BY <2>1, LoaderConstants
  <2>4. \A c \in Channels : msg_in[c] # "LOAD_CODE"
    BY <1>1 DEF IpcInit
  <2>. QED BY <1>2, <2>1, <2>2, <2>3, <2>4 DEF Loading
<1>6. Phases
  BY <1>1, <1>2 DEF IpcInit, Phases, Nowhere
<1>. QED BY <1>3, <1>4, <1>5, <1>6 DEF LoaderIInv

LEMMA LoaderNextInvariant == LoaderIInv /\ [Next]_vars => LoaderIInv'
<1> SUFFICES ASSUME LoaderIInv, [Next]_vars PROVE LoaderIInv'
  OBVIOUS
<1>1. CASE Main
  BY <1>1, InitKeeps, AllocKeeps, InsertKeeps, EntryKeeps DEF Main
<1>2. CASE Isr
  BY <1>2, IsrEnterKeeps, IsrOutKeeps, IsrInKeeps, IsrClearKeeps DEF Isr
<1>3. CASE Mcu
  BY <1>3, AnswerReadKeeps, ReadyReadKeeps, LoadsKeeps, ExecsKeeps DEF Mcu
<1>4. CASE Talks
  BY <1>4, TalksKeeps DEF Talks
<1>5. CASE UNCHANGED ipcVars
  <2>1. /\ Unread' = Unread /\ Done' = Done /\ Held' = Held
        /\ Loads' = Loads /\ Execs' = Execs
    BY <1>5 DEF ipcVars, Unread, Done, Held, Loads, Execs
  <2>2. LoaderTypes' /\ Owners' /\ Loading'
    BY <1>5, <2>1 DEF ipcVars, LoaderIInv, LoaderTypes, LoaderTypeOK, Owners, Loading
  <2>3. Phases'
    BY <1>5, <2>1 DEF ipcVars, LoaderIInv, Phases, Nowhere, InIsr
  <2>. QED BY <2>2, <2>3 DEF LoaderIInv
<1>. QED BY <1>1, <1>2, <1>3, <1>4, <1>5 DEF Next, Uart, Ipc, vars

LEMMA LoaderInvariant == SafeSpec => []LoaderIInv
<1>. QED BY LoaderInitInvariant, LoaderNextInvariant, PTL DEF SafeSpec

(* The base image has a channel for each of its answers, for every number  *)
(* of channels that is no less than that of the MCU's buffers.             *)
THEOREM AChannelForEachAnswer == SafeSpec => []ChannelForEachAnswer
<1>1. ASSUME LoaderIInv
      PROVE  ChannelForEachAnswer
  <2>1. stage # "lost"
    BY <1>1 DEF LoaderIInv, Phases
  <2>2. ASSUME stage = "ready"
        PROVE  available_buffer # {}
    <3>1. mcu.knows = "entered"
      BY <1>1, <2>2 DEF LoaderIInv, Phases, LoaderTypes
    <3>2. Unread = {} /\ status.out = {} /\ isr.out = {} /\ Held = {}
      BY <1>1, <2>2, <3>1 DEF LoaderIInv, Phases, Held
    <3>3. available_buffer = Channels
      BY <1>1, <2>2, <3>2 DEF LoaderIInv, Owners
    <3>. QED BY <3>3, LoaderConstants
  <2>. QED BY <2>1, <2>2 DEF ChannelForEachAnswer
<1>. QED BY <1>1, LoaderInvariant, PTL

(* The user code starts with all of its pieces in memory, whichever        *)
(* channels they came by, and no message finds it without its handler or   *)
(* its task list.                                                          *)
THEOREM UserCodeStartsWhole == SafeSpec => []UserCodeInv
<1>1. ASSUME LoaderIInv
      PROVE  UserCodeInv
  <2>1. LoaderTypeOK
    BY <1>1 DEF LoaderIInv, LoaderTypes
  <2>2. CodeIsWhole
    <3>1. stage \notin {"boot", "alloc", "insert", "wait"} => mcu.done = Pieces
      BY <1>1 DEF LoaderIInv, Phases, LoaderTypes
    <3>. QED BY <1>1, <3>1, AllDone DEF LoaderIInv, CodeIsWhole
  <2>3. NothingDropped
    BY <1>1 DEF LoaderIInv, Phases, NothingDropped
  <2>. QED BY <2>1, <2>2, <2>3 DEF UserCodeInv
<1>. QED BY <1>1, LoaderInvariant, PTL
=============================================================================
