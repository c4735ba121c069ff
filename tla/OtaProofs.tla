----------------------------- MODULE OtaProofs -----------------------------
(***************************************************************************)
(* Theorems about the update over the air (Ota.tla), for every size of the *)
(* flash, its sectors and its pages, of the image and of a write, and      *)
(* every number of channels.                                               *)
(***************************************************************************)
EXTENDS Ota, TLAPS

(* The inductive invariant.  An image is whole since a step of the driver  *)
(* changes only the area of the request, and the MCU asks for nothing that *)
(* changes the backup while it is the one that is whole.  The first needs  *)
(* where each call of the driver is (Calls, Requests), the second that no  *)
(* answer is of another step of the update (OneAtATime, Answers).          *)
Calling == [fn : {"none", "erase", "write"}, step : {"unprotect", "run", "protect"},
            offset : Nat, size : Nat, data : Seq(Content)]
Asking  == [opcode : Opcodes \cup {"halt"}, offset : Nat, length : Nat, dest : Nat, data : Seq(Content)]
Telling == [opcode : Opcodes, ok : BOOLEAN, length : Nat]

Types ==
  /\ flash \in [Addresses -> Content]
  /\ call \in [Contexts -> Calling]
  /\ flash_op \in Asking /\ request \in Asking
  /\ answer \in Telling /\ deferred \in Telling
  /\ mcu \in {"off", "erase", "write", "check", "copy", "done"}
  /\ asked \in BOOLEAN /\ written \in 0 .. ImageLength

(* n cells from offset are in the place of the image at x. *)
Within(offset, n, x) == x <= offset /\ offset + n <= x + ImageLength

Target == IF flash_op.opcode = "copy" THEN Run ELSE Backup

Calls ==
  /\ call["main"].fn = "erase" => call["main"].offset = TestSector /\ call["main"].size <= SectorSize
  /\ call["main"].fn = "write" =>
       /\ TestSector <= call["main"].offset
       /\ call["main"].offset + Len(call["main"].data) <= TestSector + 2
  /\ \A ctx \in Contexts : /\ call[ctx].fn = "write" => Len(call[ctx].data) >= 1
                           /\ call[ctx].fn = "none" => call[ctx] = NoCall
  /\ call["isr"].fn = "erase" => Within(call["isr"].offset, 1, Target) /\ call["isr"].size <= SectorSize
  /\ call["isr"].fn = "write" => Within(call["isr"].offset, Len(call["isr"].data), Target)
  /\ call["isr"] # NoCall => flash_op.opcode \in {"erase", "write", "copy"}
  /\ mcu = "off" => client = "idle" /\ call = [ctx \in Contexts |-> NoCall]

Requests ==
  /\ request.opcode = "erase" => request.offset = Backup /\ request.length = ImageLength
  /\ request.opcode = "write" => /\ Within(request.offset, Len(request.data), Backup)
                                 /\ written + request.length <= ImageLength
  /\ request.opcode = "check" => request.offset = Backup
  /\ request.opcode = "copy" =>
       /\ request.offset = Backup /\ request.dest = Run
       /\ request.length = ImageLength /\ request.data = <<>>
  /\ flash_op.opcode = "erase" /\ flash_op.length > 0 => Within(flash_op.offset, flash_op.length, Backup)
  /\ flash_op.opcode = "write" => Within(flash_op.offset, Len(flash_op.data), Backup)
  /\ flash_op.opcode = "check" => flash_op.offset = Backup
  /\ flash_op.opcode = "copy" =>
       /\ Within(flash_op.offset, flash_op.length, Backup)
       /\ Within(flash_op.dest, flash_op.length, Run)
       /\ Len(flash_op.data) <= flash_op.length

OneAtATime ==
  /\ request.opcode \in {"none", mcu} \/ (request.opcode = "copy" /\ mcu = "done")
  /\ flash_op.opcode \in {"none", "halt", request.opcode}
  /\ flash_op.opcode = "none" => flash_op = NoOp
  /\ request.opcode = "none" => request = NoOp
  /\ flash_op.opcode = "halt" => request.opcode = "copy"
  /\ mcu = "done" => flash_op.opcode = "halt"
  /\ asked \/ mcu = "done" \/ (request = NoOp /\ answer = NoAnswer /\ deferred = NoAnswer)
  /\ answer = NoAnswer \/ deferred = NoAnswer
  /\ answer = NoAnswer \/ request = NoOp \/ flash_op.opcode = "halt"
  /\ deferred = NoAnswer \/ request = NoOp \/ flash_op.opcode = "halt"

Answers ==
  \A a \in {answer, deferred} : a # NoAnswer =>
    /\ a.opcode = mcu
    /\ a.opcode = "check" /\ a.ok => NewImage(Backup)
    /\ a.opcode = "write" => written + a.length <= ImageLength
    /\ a.opcode = "copy" => flash_op.opcode = "halt"

Images ==
  /\ mcu \in {"erase", "write", "check"} => Bootable
  /\ mcu \in {"copy", "done"} => NewImage(Backup)
  /\ mcu = "off" => AnImageIsWhole

IInv == Types /\ Calls /\ Requests /\ OneAtATime /\ Answers /\ Images

-----------------------------------------------------------------------------
(* Arithmetic of sectors and pages. *)
LEMMA Divided ==
  ASSUME NEW n \in Nat \ {0}, NEW m \in Nat, NEW t \in 0 .. n - 1
  PROVE  (m * n + t) % n = t /\ (m * n + t) \div n = m
<1> DEFINE x == m * n + t
           q == x \div n
           r == x % n
<1>1. m * n \in Nat
  OBVIOUS
<1>2. x \in Nat /\ x = q * n + r /\ r \in 0 .. n - 1 /\ q \in Nat
  BY <1>1
<1> HIDE DEF x, q, r
<1>3. x = m * n + t
  BY DEF x
<1>4. ASSUME q > m PROVE FALSE
  <2>1. PICK d \in Nat : q = m + 1 + d
    BY <1>2, <1>4
  <2>2. q * n = m * n + n + d * n /\ d * n >= 0
    BY <2>1
  <2>. QED BY <2>2, <1>1, <1>2, <1>3
<1>5. ASSUME q < m PROVE FALSE
  <2>1. PICK d \in Nat : m = q + 1 + d
    BY <1>2, <1>5
  <2>2. m * n = q * n + n + d * n /\ d * n >= 0 /\ q * n \in Nat
    BY <2>1, <1>2
  <2>. QED BY <2>2, <1>2, <1>3
<1>6. q = m
  BY <1>2, <1>4, <1>5
<1>7. r = t
  BY <1>1, <1>2, <1>3, <1>6
<1>. QED BY <1>6, <1>7 DEF q, r, x

LEMMA SectorIs ==
  ASSUME NEW m \in Nat, NEW t \in 0 .. SectorSize - 1
  PROVE  SectorOf(m * SectorSize + t) = m * SectorSize
<1>1. SectorSize \in Nat \ {0}
  BY GeometryAssumption
<1>2. (m * SectorSize + t) % SectorSize = t /\ m * SectorSize \in Nat
  BY <1>1, Divided
<1>. QED BY <1>2 DEF SectorOf

(* A page is in one sector. *)
LEMMA PageInSector ==
  ASSUME NEW a \in Nat, NEW o \in Nat, a \div PageSize = o \div PageSize
  PROVE  SectorOf(a) = SectorOf(o)
<1> DEFINE q == a \div PageSize
           k == SectorSize \div PageSize
           m == q \div k
           j == q % k
<1>1. /\ PageSize \in Nat \ {0} /\ SectorSize \in Nat \ {0}
      /\ k \in Nat /\ SectorSize = k * PageSize
  BY GeometryAssumption
<1>2. k \in Nat \ {0}
  BY <1>1
<1>3. q \in Nat /\ m \in Nat /\ j \in 0 .. k - 1
  BY <1>1, <1>2
<1>4. q = m * k + j
  BY <1>2, <1>3
<1>5. ASSUME NEW x \in Nat, x \div PageSize = q
      PROVE  SectorOf(x) = m * SectorSize
  <2> DEFINE r == x % PageSize
             t == j * PageSize + r
  <2>1. x = q * PageSize + r /\ r \in 0 .. PageSize - 1
    BY <1>1, <1>5
  <2> HIDE DEF q, k, m, j, r
  <2>2. q * PageSize = m * (k * PageSize) + j * PageSize
    BY <1>1, <1>2, <1>3, <1>4
  <2>3. t \in 0 .. SectorSize - 1
    <3>1. PICK d \in Nat : k = j + 1 + d
      BY <1>2, <1>3
    <3>2. k * PageSize = j * PageSize + PageSize + d * PageSize /\ d * PageSize >= 0
          /\ j * PageSize >= 0
      BY <1>1, <1>3, <3>1
    <3>. QED BY <1>1, <1>3, <2>1, <3>2
  <2>4. x = m * SectorSize + t
    BY <1>1, <1>3, <2>1, <2>2
  <2> HIDE DEF t
  <2>. QED BY <1>3, <2>3, <2>4, SectorIs
<1>6. SectorOf(a) = m * SectorSize /\ SectorOf(o) = m * SectorSize
  BY <1>5
<1>. QED BY <1>6

-----------------------------------------------------------------------------
(* What a step of the driver changes. *)
Steady(x) == \A i \in 0 .. ImageLength - 1 : flash'[x + i] = flash[x + i]
Changed(o) == \A a \in Addresses : flash'[a] = flash[a] \/ SectorOf(a) = SectorOf(o)

LEMMA Constants ==
  /\ PageSize \in Nat \ {0} /\ SectorSize \in Nat \ {0} /\ FlashSize \in Nat
  /\ ImageLength \in Nat \ {0} /\ MaxFrame \in Nat \ {0} /\ IPC_CHANNELS \in Nat \ {0}
  /\ Run \in Nat /\ Backup \in Nat /\ TestSector \in Nat
  /\ SectorOf(Run) = Run /\ SectorOf(Backup) = Backup /\ SectorOf(TestSector) = TestSector
  /\ Run + ImageLength <= FlashSize /\ Backup + ImageLength <= FlashSize
  /\ \A x \in {Run, Backup}, i \in 0 .. ImageLength - 1 : x + i \in Addresses
BY GeometryAssumption, LayoutAssumption DEF Addresses

LEMMA TestSectorIs == SectorOf(TestSector + 1) = TestSector
<1>1. TestSector % SectorSize = 0
  BY Constants DEF SectorOf
<1> DEFINE m == TestSector \div SectorSize
<1>2. m \in Nat /\ TestSector = m * SectorSize
  BY Constants, <1>1
<1>3. 1 \in 0 .. SectorSize - 1
  BY Constants, LayoutAssumption
<1> HIDE DEF m
<1>. QED BY <1>2, <1>3, SectorIs

LEMMA ImagesKept ==
  /\ Steady(Run) => (NewImage(Run)' <=> NewImage(Run)) /\ (OldImage(Run)' <=> OldImage(Run))
  /\ Steady(Run) => (Bootable' <=> Bootable)
  /\ Steady(Backup) => (NewImage(Backup)' <=> NewImage(Backup))
<1>1. \A i \in Image : i - 1 \in 0 .. ImageLength - 1
  BY Constants DEF Image
<1>2. \A x \in {Run, Backup}, i \in Image : x + i - 1 = x + (i - 1)
  BY Constants DEF Image
<1>3. \A x \in {Run, Backup} : Steady(x) => \A i \in Image : flash'[x + i - 1] = flash[x + i - 1]
  BY <1>1, <1>2 DEF Steady
<1>4. /\ Steady(Run) => (NewImage(Run)' <=> NewImage(Run)) /\ (OldImage(Run)' <=> OldImage(Run))
      /\ Steady(Backup) => (NewImage(Backup)' <=> NewImage(Backup))
  BY <1>3 DEF NewImage, OldImage
<1>. QED BY <1>4 DEF Bootable

LEMMA Elsewhere ==
  ASSUME NEW x \in {Run, Backup}, NEW o, Changed(o),
         \A i \in 0 .. ImageLength - 1 : SectorOf(x + i) # SectorOf(o)
  PROVE  Steady(x)
BY Constants DEF Changed, Steady

(* The sectors of the calls. *)
LEMMA MainInSector ==
  ASSUME Types, Calls, call["main"].fn \in {"erase", "write"}
  PROVE  SectorOf(call["main"].offset) = TestSector
<1> DEFINE o == call["main"].offset
           n == Len(call["main"].data)
<1>1. "main" \in Contexts /\ o \in Nat /\ call["main"].data \in Seq(Content)
  BY DEF Types, Calling, Contexts
<1>2. n \in Nat
  BY <1>1
<1>3. o \in {TestSector, TestSector + 1}
  <2>1. CASE call["main"].fn = "erase"
    BY <2>1 DEF Calls
  <2>2. CASE call["main"].fn = "write"
    <3>1. TestSector <= o /\ o + n <= TestSector + 2 /\ n >= 1
      BY <1>1, <2>2 DEF Calls
    <3> HIDE DEF o, n
    <3>. QED BY <1>1, <1>2, <3>1, Constants
  <2>. QED BY <2>1, <2>2
<1>. QED BY <1>3, Constants, TestSectorIs

LEMMA MainElsewhere ==
  ASSUME Types, Calls, call["main"].fn \in {"erase", "write"}
  PROVE  \A x \in {Run, Backup}, i \in 0 .. ImageLength - 1 :
           SectorOf(x + i) # SectorOf(call["main"].offset)
BY MainInSector, LayoutAssumption

LEMMA IsrInTarget ==
  ASSUME Types, Calls, call["isr"].fn \in {"erase", "write"}
  PROVE  call["isr"].offset \in Target .. Target + ImageLength - 1
<1> DEFINE o == call["isr"].offset
           n == Len(call["isr"].data)
<1>1. "isr" \in Contexts /\ o \in Nat /\ call["isr"].data \in Seq(Content)
  BY DEF Types, Calling, Contexts
<1>2. n \in Nat /\ Target \in {Run, Backup} /\ Target \in Nat
  BY <1>1, Constants DEF Target
<1>3. Target <= o /\ o + 1 <= Target + ImageLength
  <2>1. CASE call["isr"].fn = "erase"
    BY <2>1 DEF Calls, Within
  <2>2. CASE call["isr"].fn = "write"
    <3>1. Target <= o /\ o + n <= Target + ImageLength /\ n >= 1
      BY <1>1, <2>2 DEF Calls, Within
    <3> HIDE DEF o, n
    <3>. QED BY <1>1, <1>2, <3>1, Constants
  <2>. QED BY <2>1, <2>2
<1> HIDE DEF o
<1>4. o \in Target .. Target + ImageLength - 1
  BY <1>1, <1>2, <1>3, Constants
<1>. QED BY <1>4 DEF o

LEMMA IsrElsewhere ==
  ASSUME Types, Calls, call["isr"].fn \in {"erase", "write"}
  PROVE  /\ Target = Backup => \A i \in 0 .. ImageLength - 1 :
                                 SectorOf(Run + i) # SectorOf(call["isr"].offset)
         /\ Target = Run => \A i \in 0 .. ImageLength - 1 :
                              SectorOf(Backup + i) # SectorOf(call["isr"].offset)
<1> DEFINE o == call["isr"].offset
<1>1. o \in Target .. Target + ImageLength - 1 /\ Target \in Nat /\ Target \in {Run, Backup}
  BY IsrInTarget, Constants DEF Target
<1> HIDE DEF o
<1>2. PICK j \in 0 .. ImageLength - 1 : o = Target + j
  <2>1. o - Target \in 0 .. ImageLength - 1 /\ o = Target + (o - Target)
    BY <1>1, Constants
  <2>. QED BY <2>1
<1>3. /\ Target = Backup => \A i \in 0 .. ImageLength - 1 : SectorOf(Run + i) # SectorOf(o)
      /\ Target = Run => \A i \in 0 .. ImageLength - 1 : SectorOf(Backup + i) # SectorOf(o)
  BY <1>2, LayoutAssumption
<1>. QED BY <1>3 DEF o

(* A page program stays in the sector of its first cell. *)
LEMMA InSector ==
  ASSUME NEW o \in Nat, NEW n \in Nat, NEW a \in Page(o, n)
  PROVE  a \in Addresses /\ SectorOf(a) = SectorOf(o) /\ Element(a, o) \in 1 .. n
<1>1. a \in Addresses /\ a \in Nat /\ a \div PageSize = o \div PageSize /\ (a - o) % PageSize < n
  BY DEF Page, Addresses
<1>2. (a - o) % PageSize \in 0 .. PageSize - 1
  BY <1>1, Constants
<1>. QED BY <1>1, <1>2, PageInSector, Constants DEF Element

LEMMA EraseFlash ==
  ASSUME Types, NEW ctx \in Contexts, flash_erase(ctx)
  PROVE  Changed(call[ctx].offset) /\ flash' \in [Addresses -> Content]
<1> DEFINE o == call[ctx].offset
<1>1. EraseSector(o)
  BY DEF flash_erase
<1>2. CASE protected
  BY <1>1, <1>2 DEF EraseSector, Changed, Types
<1>3. CASE ~protected
  <2>1. flash' = [a \in Addresses |-> IF a \in Sector(o) THEN Erased ELSE flash[a]]
    BY <1>1, <1>3 DEF EraseSector
  <2>2. \A a \in Addresses : a \in Sector(o) <=> SectorOf(a) = SectorOf(o)
    BY DEF Sector
  <2>3. Erased \in Content /\ \A a \in Addresses : flash[a] \in Content
    BY DEF Types, Content
  <2>. QED BY <2>1, <2>2, <2>3 DEF Changed
<1>. QED BY <1>2, <1>3

LEMMA ProgramFlash ==
  ASSUME Types, NEW o \in Nat, NEW data \in Seq(Content), ProgramPage(o, data)
  PROVE  Changed(o) /\ flash' \in [Addresses -> Content]
<1>1. CASE protected
  BY <1>1 DEF ProgramPage, Changed, Types
<1>2. CASE ~protected
  <2>1. flash' = [a \in Addresses |-> IF a \in Page(o, Len(data))
                                        THEN Over(flash[a], data[Element(a, o)]) ELSE flash[a]]
    BY <1>2 DEF ProgramPage
  <2>2. Len(data) \in Nat
    OBVIOUS
  <2>3. \A a \in Page(o, Len(data)) : SectorOf(a) = SectorOf(o) /\ Element(a, o) \in 1 .. Len(data)
    BY <2>2, InSector
  <2>4. \A a \in Page(o, Len(data)) : data[Element(a, o)] \in Content
    BY <2>3
  <2>5. \A cell, d \in Content : Over(cell, d) \in Content
    BY DEF Over, Content
  <2>6. \A a \in Addresses : flash[a] \in Content
    BY DEF Types
  <2>. QED BY <2>1, <2>3, <2>4, <2>5, <2>6 DEF Changed
<1>. QED BY <1>1, <1>2

(* What a write does to its arguments. *)
LEMMA SubLengthIs ==
  ASSUME NEW o \in Nat, NEW n \in Nat
  PROVE  SubLength(o, n) \in Nat /\ SubLength(o, n) <= n
<1>1. o % PageSize \in 0 .. PageSize - 1
  BY Constants
<1>. QED BY <1>1, Constants DEF SubLength, PageLeft

LEMMA SubLengthRange ==
  ASSUME NEW o \in Nat, NEW data \in Seq(Content)
  PROVE  SubLength(o, Len(data)) \in 0 .. Len(data)
<1> DEFINE n == Len(data)
<1>1. n \in Nat
  OBVIOUS
<1> HIDE DEF n
<1>2. SubLength(o, n) \in Nat /\ SubLength(o, n) <= n
  BY <1>1, SubLengthIs
<1>3. SubLength(o, n) \in 0 .. n
  BY <1>1, <1>2
<1>. QED BY <1>3 DEF n

LEMMA Cut ==
  ASSUME NEW data \in Seq(Content), NEW k \in 0 .. Len(data)
  PROVE  /\ SubSeq(data, 1, k) \in Seq(Content) /\ Len(SubSeq(data, 1, k)) = k
         /\ SubSeq(data, k + 1, Len(data)) \in Seq(Content)
         /\ Len(SubSeq(data, k + 1, Len(data))) = Len(data) - k
BY Len(data) \in Nat

LEMMA WriteFlash ==
  ASSUME Types, NEW ctx \in Contexts, qspi_flash_write_sub(ctx)
  PROVE  Changed(call[ctx].offset) /\ flash' \in [Addresses -> Content]
<1> DEFINE o == call[ctx].offset
           data == call[ctx].data
           k == SubLength(o, Len(data))
<1>1. o \in Nat /\ data \in Seq(Content)
  BY DEF Types, Calling
<1>2. k \in 0 .. Len(data)
  BY <1>1, SubLengthRange
<1>3. ProgramPage(o, SubSeq(data, 1, k))
  BY DEF qspi_flash_write_sub
<1>4. SubSeq(data, 1, k) \in Seq(Content)
  BY <1>1, <1>2, Cut
<1> HIDE DEF k
<1>. QED BY <1>1, <1>3, <1>4, ProgramFlash

(* The step of the update that goes on, and what the interrupt may change. *)
LEMMA Facts ==
  ASSUME IInv
  PROVE  /\ \A op \in {"erase", "write", "check", "copy"} :
              flash_op.opcode = op => request.opcode = op /\ mcu = op
         /\ flash_op.opcode \notin {"none", "halt"} => answer = NoAnswer /\ deferred = NoAnswer
         /\ mcu = "off" => /\ flash_op = NoOp /\ request = NoOp
                           /\ answer = NoAnswer /\ deferred = NoAnswer
         /\ InIsr <=> flash_op.opcode # "none"
         /\ flash_op.opcode \in {"none", "halt"} => call["isr"].fn = "none"
         /\ AnImageIsWhole
<1>1. /\ request.opcode \in Opcodes \cup {"halt"} /\ flash_op.opcode \in Opcodes \cup {"halt"}
      /\ answer.opcode \in Opcodes /\ deferred.opcode \in Opcodes
      /\ call["isr"].fn \in {"none", "erase", "write"}
      /\ mcu \in {"off", "erase", "write", "check", "copy", "done"}
  BY DEF IInv, Types, Asking, Telling, Calling, Contexts
<1>2. \A op \in {"erase", "write", "check", "copy"} :
        flash_op.opcode = op => request.opcode = op /\ mcu = op
  BY <1>1 DEF IInv, OneAtATime, Opcodes
<1>3. flash_op.opcode \notin {"none", "halt"} => answer = NoAnswer /\ deferred = NoAnswer
  <2>1. NoOp.opcode = "none"
    BY DEF NoOp
  <2>. QED BY <1>1, <1>2, <2>1 DEF IInv, OneAtATime, Opcodes
<1>4. mcu = "off" => flash_op = NoOp /\ request = NoOp /\ answer = NoAnswer /\ deferred = NoAnswer
  BY <1>1 DEF IInv, OneAtATime, Answers, Opcodes
<1>5. InIsr <=> flash_op.opcode # "none"
  BY DEF IInv, OneAtATime, InIsr, NoOp
<1>6. flash_op.opcode \in {"none", "halt"} => call["isr"].fn = "none"
  BY DEF IInv, Calls, NoCall
<1>7. AnImageIsWhole
  BY <1>1 DEF IInv, Images, AnImageIsWhole
<1>. QED BY <1>2, <1>3, <1>4, <1>5, <1>6, <1>7

LEMMA DriverFlash ==
  ASSUME IInv, NEW ctx \in Contexts, flash_erase(ctx) \/ qspi_flash_write_sub(ctx)
  PROVE  /\ flash' \in [Addresses -> Content]
         /\ ctx = "main" \/ Target = Backup => Steady(Run)
         /\ ctx = "main" \/ Target = Run => Steady(Backup)
<1>1. Changed(call[ctx].offset) /\ flash' \in [Addresses -> Content]
  BY EraseFlash, WriteFlash DEF IInv
<1>2. call[ctx].fn \in {"erase", "write"}
  BY DEF flash_erase, qspi_flash_write_sub
<1>3. CASE ctx = "main"
  BY <1>1, <1>2, <1>3, MainElsewhere, Elsewhere DEF IInv
<1>4. CASE ctx = "isr"
  BY <1>1, <1>2, <1>4, IsrElsewhere, Elsewhere DEF IInv
<1>. QED BY <1>1, <1>3, <1>4 DEF Contexts

-----------------------------------------------------------------------------
(* The steps of the driver. *)
LEMMA DriverRuns ==
  ASSUME NEW ctx \in Contexts, Driver(ctx)
  PROVE  call[ctx] # NoCall
BY DEF Driver, flash_protect_disable, flash_protect_enable, flash_erase,
       qspi_flash_write_sub, Returned, NoCall

LEMMA DriverTypes ==
  ASSUME IInv, NEW ctx \in Contexts, Driver(ctx)
  PROVE  Types'
<1>1. call \in [Contexts -> Calling] /\ call[ctx] \in Calling
  BY DEF IInv, Types
<1>2. flash' \in [Addresses -> Content]
  <2>1. CASE flash_erase(ctx) \/ qspi_flash_write_sub(ctx)
    BY <2>1, DriverFlash
  <2>2. CASE flash_protect_disable(ctx) \/ flash_protect_enable(ctx)
    BY <2>2 DEF flash_protect_disable, flash_protect_enable, IInv, Types
  <2>. QED BY <2>1, <2>2 DEF Driver
<1>3. call' \in [Contexts -> Calling]
  <2>1. CASE flash_protect_disable(ctx)
    BY <1>1, <2>1 DEF flash_protect_disable, Calling
  <2>2. CASE flash_protect_enable(ctx)
    <3>1. NoCall \in Calling
      BY DEF NoCall, Calling
    <3>. QED BY <1>1, <2>2, <3>1 DEF flash_protect_enable
  <2>3. CASE flash_erase(ctx)
    <3>1. CASE call[ctx].size > SectorSize
      <4>1. /\ call[ctx].offset + SectorSize \in Nat /\ call[ctx].size - SectorSize \in Nat
        BY <1>1, <3>1, Constants DEF Calling
      <4>2. call' = [call EXCEPT ![ctx].offset = @ + SectorSize, ![ctx].size = @ - SectorSize]
        BY <2>3, <3>1 DEF flash_erase
      <4>. QED BY <1>1, <4>1, <4>2 DEF Calling
    <3>2. CASE ~(call[ctx].size > SectorSize)
      BY <1>1, <2>3, <3>2 DEF flash_erase, Calling
    <3>. QED BY <3>1, <3>2
  <2>4. CASE qspi_flash_write_sub(ctx)
    <3> DEFINE data == call[ctx].data
               k == SubLength(call[ctx].offset, Len(data))
    <3>1. CASE k < Len(data)
      <4>1. call[ctx].offset \in Nat /\ data \in Seq(Content) /\ Len(data) \in Nat
        BY <1>1 DEF Calling
      <4>2. k \in 0 .. Len(data)
        BY <4>1, SubLengthRange
      <4>3. call[ctx].offset + k \in Nat /\ SubSeq(data, k + 1, Len(data)) \in Seq(Content)
        BY <4>1, <4>2, Cut
      <4>4. call' = [call EXCEPT ![ctx].offset = @ + k, ![ctx].data = SubSeq(@, k + 1, Len(@))]
        BY <2>4, <3>1 DEF qspi_flash_write_sub
      <4> HIDE DEF k
      <4>. QED BY <1>1, <4>3, <4>4 DEF Calling
    <3>2. CASE ~(k < Len(data))
      BY <1>1, <2>4, <3>2 DEF qspi_flash_write_sub, Calling
    <3>. QED BY <3>1, <3>2
  <2>. QED BY <2>1, <2>2, <2>3, <2>4 DEF Driver
<1>4. UNCHANGED <<flash_op, request, ipc, client, peer>>
  BY DEF Driver, flash_protect_disable, flash_protect_enable, flash_erase, qspi_flash_write_sub
<1>. QED BY <1>2, <1>3, <1>4 DEF IInv, Types, ipc, peer

(* A call stays in its place. *)
LEMMA DriverCalls ==
  ASSUME IInv, NEW ctx \in Contexts, Driver(ctx)
  PROVE  Calls'
<1>1. /\ call \in [Contexts -> Calling] /\ call[ctx] \in Calling
      /\ call' \in [Contexts -> Calling] /\ call'[ctx] \in Calling
  BY DriverTypes DEF IInv, Types
<1>2. \A c \in Contexts \ {ctx} : call'[c] = call[c]
  BY <1>1 DEF Driver, flash_protect_disable, flash_protect_enable, flash_erase, qspi_flash_write_sub
<1>3. UNCHANGED <<flash_op, request, ipc, client, peer>>
  BY DEF Driver, flash_protect_disable, flash_protect_enable, flash_erase, qspi_flash_write_sub
<1>4. call[ctx] # NoCall
  BY DriverRuns
<1>5. mcu # "off"
  BY <1>4 DEF IInv, Calls
<1>6. \/ call'[ctx] = NoCall
      \/ /\ UNCHANGED <<call[ctx].fn, call[ctx].offset, call[ctx].size, call[ctx].data>>
      \/ /\ UNCHANGED <<call[ctx].fn, call[ctx].size>> /\ call[ctx].fn = "write"
         /\ call'[ctx].offset >= call[ctx].offset /\ Len(call'[ctx].data) >= 1
         /\ call'[ctx].offset + Len(call'[ctx].data) = call[ctx].offset + Len(call[ctx].data)
  <2>1. CASE flash_protect_disable(ctx)
    BY <1>1, <2>1 DEF flash_protect_disable, Calling
  <2>2. CASE flash_protect_enable(ctx)
    BY <1>1, <2>2 DEF flash_protect_enable
  <2>3. CASE flash_erase(ctx)
    <3>1. call[ctx].size <= SectorSize
      BY <2>3 DEF flash_erase, IInv, Calls, Contexts
    <3>2. ~(call[ctx].size > SectorSize)
      BY <1>1, <3>1, Constants DEF Calling
    <3>. QED BY <1>1, <2>3, <3>2 DEF flash_erase, Calling
  <2>4. CASE qspi_flash_write_sub(ctx)
    <3> DEFINE data == call[ctx].data
               k == SubLength(call[ctx].offset, Len(data))
    <3>1. CASE k < Len(data)
      <4>1. call[ctx].offset \in Nat /\ data \in Seq(Content) /\ Len(data) \in Nat
        BY <1>1 DEF Calling
      <4>2. k \in 0 .. Len(data)
        BY <4>1, SubLengthRange
      <4>3. Len(SubSeq(data, k + 1, Len(data))) = Len(data) - k
        BY <4>1, <4>2, Cut
      <4>4. call' = [call EXCEPT ![ctx].offset = @ + k, ![ctx].data = SubSeq(@, k + 1, Len(@))]
            /\ call[ctx].fn = "write"
        BY <2>4, <3>1 DEF qspi_flash_write_sub
      <4>5. k \in Nat /\ k < Len(data)
        BY <3>1, <4>2
      <4> HIDE DEF k
      <4>6. /\ call'[ctx].fn = call[ctx].fn /\ call'[ctx].size = call[ctx].size
            /\ call'[ctx].offset = call[ctx].offset + k
            /\ call'[ctx].data = SubSeq(data, k + 1, Len(data))
        BY <1>1, <4>4 DEF Calling
      <4> HIDE DEF data
      <4>7. \A o, n \in Nat : k < n => o + k >= o /\ n - k >= 1 /\ (o + k) + (n - k) = o + n
        BY <4>5
      <4>8. /\ call'[ctx].offset >= call[ctx].offset /\ Len(call'[ctx].data) >= 1
            /\ call'[ctx].offset + Len(call'[ctx].data) = call[ctx].offset + Len(data)
        <5>1. Len(call'[ctx].data) = Len(data) - k
          BY <4>3, <4>6
        <5>2. /\ call[ctx].offset + k >= call[ctx].offset /\ Len(data) - k >= 1
              /\ (call[ctx].offset + k) + (Len(data) - k) = call[ctx].offset + Len(data)
          BY <4>1, <4>5, <4>7
        <5>. QED BY <4>6, <5>1, <5>2
      <4>. QED BY <4>4, <4>6, <4>8 DEF data
    <3>2. CASE ~(k < Len(data))
      BY <1>1, <2>4, <3>2 DEF qspi_flash_write_sub, Calling
    <3>. QED BY <3>1, <3>2
  <2>. QED BY <2>1, <2>2, <2>3, <2>4 DEF Driver
<1>7. NoCall.fn = "none"
  BY DEF NoCall
<1>8. call'[ctx].fn = "none" => call'[ctx] = NoCall
  BY <1>4, <1>6 DEF IInv, Calls
<1>9. /\ call[ctx].offset \in Nat /\ Len(call[ctx].data) \in Nat
      /\ call'[ctx].offset \in Nat /\ Len(call'[ctx].data) \in Nat
  BY <1>1 DEF Calling
<1>10. \A x, n, o, p, r, s \in Nat : x <= o /\ o + p <= n /\ r >= o /\ r + s = o + p => x <= r /\ r + s <= n
  OBVIOUS
<1>11. CASE ctx = "main"
  <2>1. call'["isr"] = call["isr"]
    BY <1>2, <1>11 DEF Contexts
  <2>2. call'["main"].fn = "erase" =>
          call'["main"].offset = TestSector /\ call'["main"].size <= SectorSize
    BY <1>6, <1>7, <1>11 DEF IInv, Calls
  <2>3. call'["main"].fn = "write" =>
          /\ TestSector <= call'["main"].offset
          /\ call'["main"].offset + Len(call'["main"].data) <= TestSector + 2
          /\ Len(call'["main"].data) >= 1
    <3>1. TestSector + 2 \in Nat /\ TestSector \in Nat /\ "main" \in Contexts
      BY Constants DEF Contexts
    <3>. QED BY <1>6, <1>7, <1>9, <1>10, <1>11, <3>1 DEF IInv, Calls
  <2>. QED BY <1>3, <1>5, <1>11, <1>8, <2>1, <2>2, <2>3 DEF IInv, Calls, Contexts, Target, peer
<1>12. CASE ctx = "isr"
  <2>1. call'["main"] = call["main"]
    BY <1>2, <1>12 DEF Contexts
  <2>2. call'["isr"].fn = "erase" =>
          Within(call'["isr"].offset, 1, Target) /\ call'["isr"].size <= SectorSize
    BY <1>6, <1>7, <1>12 DEF IInv, Calls
  <2>3. call'["isr"].fn = "write" =>
          Within(call'["isr"].offset, Len(call'["isr"].data), Target) /\ Len(call'["isr"].data) >= 1
    <3>1. Target + ImageLength \in Nat /\ Target \in Nat /\ "isr" \in Contexts
      BY Constants DEF Contexts, Target
    <3>. QED BY <1>6, <1>7, <1>9, <1>10, <1>12, <3>1 DEF IInv, Calls, Within
  <2>4. flash_op.opcode \in {"erase", "write", "copy"}
    BY <1>4, <1>12 DEF IInv, Calls
  <2>5. Target' = Target
    BY <1>3 DEF Target
  <2>. QED BY <1>3, <1>5, <1>12, <1>8, <2>1, <2>2, <2>3, <2>4, <2>5 DEF IInv, Calls, Contexts, Within, peer
<1>. QED BY <1>11, <1>12 DEF Contexts

LEMMA DriverStep ==
  ASSUME IInv, NEW ctx \in Contexts, Driver(ctx)
  PROVE  IInv'
<1>1. UNCHANGED <<flash_op, request, ipc, client, peer>>
  BY DEF Driver, flash_protect_disable, flash_protect_enable, flash_erase, qspi_flash_write_sub
<1>2. Requests' /\ OneAtATime'
  BY <1>1 DEF IInv, Requests, OneAtATime, Within, ipc, peer
<1>3. ctx = "isr" => flash_op.opcode \in {"erase", "write", "copy"}
  <2>1. call[ctx] # NoCall
    BY DriverRuns
  <2>. QED BY <2>1 DEF IInv, Calls
<1>4. /\ ctx = "main" \/ Target = Backup => Steady(Run)
      /\ ctx = "main" \/ Target = Run => Steady(Backup)
  <2>1. CASE flash_erase(ctx) \/ qspi_flash_write_sub(ctx)
    BY <2>1, DriverFlash
  <2>2. CASE flash_protect_disable(ctx) \/ flash_protect_enable(ctx)
    BY <2>2 DEF flash_protect_disable, flash_protect_enable, Steady
  <2>. QED BY <2>1, <2>2 DEF Driver
<1>5. mcu # "off"
  <2>1. call[ctx] # NoCall
    BY DriverRuns
  <2>. QED BY <2>1 DEF IInv, Calls
<1>6. CASE ctx = "main"
  <2>1. Steady(Run) /\ Steady(Backup)
    BY <1>4, <1>6
  <2>. QED BY <1>1, <1>2, <1>5, <2>1, DriverTypes, DriverCalls, ImagesKept
       DEF IInv, Answers, Images, ipc, peer
<1>7. CASE ctx = "isr"
  <2>1. flash_op.opcode \in {"erase", "write", "copy"}
    BY <1>3, <1>7
  <2>2. answer' = NoAnswer /\ deferred' = NoAnswer
    BY <1>1, <2>1, Facts DEF ipc
  <2>3. Answers'
    BY <2>2 DEF Answers
  <2>4. CASE flash_op.opcode = "copy"
    <3>1. Steady(Backup) /\ mcu = "copy"
      BY <1>4, <2>4, Facts DEF Target
    <3>. QED BY <1>1, <1>2, <2>3, <3>1, DriverTypes, DriverCalls, ImagesKept
         DEF IInv, Images, peer
  <2>5. CASE flash_op.opcode \in {"erase", "write"}
    <3>1. Steady(Run) /\ mcu \in {"erase", "write"}
      BY <1>4, <2>5, Facts DEF Target
    <3>. QED BY <1>1, <1>2, <2>3, <3>1, DriverTypes, DriverCalls, ImagesKept
         DEF IInv, Images, peer
  <2>. QED BY <2>1, <2>4, <2>5
<1>. QED BY <1>6, <1>7 DEF Contexts

-----------------------------------------------------------------------------
(* The steps of the interrupt's handler. *)
LEMMA Records ==
  ASSUME Types
  PROVE  /\ request \in Asking /\ request.opcode \in Opcodes \cup {"halt"}
         /\ request.offset \in Nat /\ request.length \in Nat /\ request.dest \in Nat
         /\ request.data \in Seq(Content) /\ Len(request.data) \in Nat
         /\ flash_op \in Asking /\ flash_op.opcode \in Opcodes \cup {"halt"}
         /\ flash_op.offset \in Nat /\ flash_op.length \in Nat /\ flash_op.dest \in Nat
         /\ flash_op.data \in Seq(Content) /\ Len(flash_op.data) \in Nat
         /\ NoOp \in Asking /\ NoOp.opcode = "none" /\ <<>> \in Seq(Content) /\ Len(<<>>) = 0
         /\ NoCall \in Calling /\ NoCall.fn = "none"
         /\ NoAnswer \in Telling /\ NoAnswer.opcode = "none"
BY DEF Types, Asking, Opcodes, NoOp, NoCall, Calling, NoAnswer, Telling

LEMMA ReceiveStep == ASSUME IInv, Receive PROVE IInv'
<1>1. flash_op = NoOp /\ flash_op.opcode = "none" /\ request # NoOp
  BY DEF Receive, InIsr, NoOp
<1>2. /\ request.opcode # "none" /\ mcu # "done" /\ request.opcode = mcu
      /\ request.opcode \in {"erase", "write", "check", "copy"}
  BY <1>1, Records DEF IInv, OneAtATime, Opcodes, Types
<1>3. call["isr"] = NoCall /\ call["isr"].fn = "none"
  BY <1>1, Records DEF IInv, Calls
<1>4. /\ flash_op' \in Asking
      /\ flash_op'.opcode = request.opcode /\ flash_op'.offset = request.offset
      /\ flash_op'.length = request.length /\ flash_op'.dest = request.dest
      /\ flash_op'.data = request.data
  <2>1. CASE request.opcode = "erase"
    <3>1. request.offset = Backup /\ SectorOf(request.offset) = Backup
      BY <2>1, Constants DEF IInv, Requests
    <3>2. flash_op' = [request EXCEPT !.offset = SectorOf(@)]
      BY <2>1 DEF Receive
    <3>. QED BY <3>1, <3>2, Records, Constants DEF IInv, Asking
  <2>2. CASE request.opcode # "erase"
    BY <2>2, Records DEF Receive, IInv
  <2>. QED BY <2>1, <2>2
<1>5. UNCHANGED <<flash, protected, call, request, ipc, client, peer>>
  BY DEF Receive
<1>6. Types'
  BY <1>4, <1>5 DEF IInv, Types, ipc, peer
<1>7. Calls'
  BY <1>3, <1>5 DEF IInv, Calls, peer
<1>8. Requests'
  BY <1>2, <1>4, <1>5, Records, Constants DEF IInv, Requests, Within, peer
<1>9. OneAtATime'
  BY <1>1, <1>2, <1>4, <1>5 DEF IInv, OneAtATime, ipc, peer
<1>10. Answers'
  BY <1>1, <1>5, Records DEF IInv, OneAtATime, Answers, ipc, peer, NewImage
<1>11. Images'
  BY <1>5 DEF IInv, Images, Bootable, NewImage, OldImage, AnImageIsWhole, peer
<1>. QED BY <1>6, <1>7, <1>8, <1>9, <1>10, <1>11 DEF IInv

(* A call of the driver by the handler. *)
LEMMA IsrCalled ==
  ASSUME IInv, NEW c \in Calling, call' = [call EXCEPT !["isr"] = c],
         c.fn \in {"erase", "write"},
         c.fn = "erase" => Within(c.offset, 1, Target') /\ c.size <= SectorSize,
         c.fn = "write" => Within(c.offset, Len(c.data), Target') /\ Len(c.data) >= 1,
         flash_op'.opcode \in {"erase", "write", "copy"}, mcu' # "off"
  PROVE  Calls' /\ call' \in [Contexts -> Calling]
<1>1. call \in [Contexts -> Calling] /\ "isr" \in Contexts /\ "main" \in Contexts
  BY DEF IInv, Types, Contexts
<1>2. call'["isr"] = c /\ call'["main"] = call["main"] /\ call' \in [Contexts -> Calling]
  BY <1>1
<1>. QED BY <1>1, <1>2 DEF IInv, Calls, Contexts, Within

LEMMA EraseCalls ==
  ASSUME Types, NEW at \in Nat, NEW size \in Nat
  PROVE  LET c == [fn |-> "erase", step |-> "unprotect", offset |-> at, size |-> size, data |-> <<>>]
         IN c \in Calling /\ c.fn = "erase" /\ c.offset = at /\ c.size = size
BY Records DEF Calling

LEMMA WriteCalls ==
  ASSUME Types, NEW at \in Nat, NEW data \in Seq(Content)
  PROVE  LET c == [fn |-> "write", step |-> "unprotect", offset |-> at, size |-> 0, data |-> data]
         IN c \in Calling /\ c.fn = "write" /\ c.offset = at /\ c.data = data
BY DEF Calling

(* What goes on while a request is handled does not disturb the rest. *)
LEMMA OpGoesOn ==
  ASSUME IInv, UNCHANGED <<flash, request, ipc, peer>>,
         flash_op'.opcode = flash_op.opcode, flash_op.opcode \notin {"none", "halt"}
  PROVE  OneAtATime' /\ Answers' /\ Images'
<1>1. answer = NoAnswer /\ deferred = NoAnswer
  BY Facts
<1>2. OneAtATime'
  BY DEF IInv, OneAtATime, ipc, peer
<1>3. Answers'
  BY <1>1 DEF Answers, ipc
<1>4. Images'
  BY DEF IInv, Images, Bootable, NewImage, OldImage, AnImageIsWhole, peer
<1>. QED BY <1>2, <1>3, <1>4

LEMMA EraseStep ==
  ASSUME IInv, Erase, \A s \in EraseSizes : s <= SectorSize
  PROVE  IInv'
<1>1. PICK size \in EraseSizes : qspi_flash_erase("isr", flash_op.offset, size)
  BY DEF Erase
<1>2. flash_op.opcode = "erase" /\ flash_op.length > 0 /\ mcu = "erase"
  BY Facts DEF Erase
<1>3. size \in Nat /\ size <= SectorSize
  BY GeometryAssumption
<1>4. Types
  BY DEF IInv
<1>5. Within(flash_op.offset, flash_op.length, Backup)
  BY <1>2 DEF IInv, Requests
<1>6. /\ flash_op' \in Asking /\ flash_op'.opcode = "erase"
      /\ flash_op'.length > 0 => Within(flash_op'.offset, flash_op'.length, Backup)
  <2>1. CASE flash_op.length > SectorSize
    <3>1. flash_op' = [flash_op EXCEPT !.length = flash_op.length - SectorSize,
                                       !.offset = flash_op.offset + SectorSize]
      BY <2>1 DEF Erase, LeftToErase
    <3>2. flash_op.length \in Nat /\ flash_op.offset \in Nat /\ SectorSize \in Nat
          /\ Backup \in Nat /\ ImageLength \in Nat
      BY <1>4, Records, Constants
    <3>3. /\ flash_op.length - SectorSize \in Nat /\ flash_op.offset + SectorSize \in Nat
          /\ Within(flash_op.offset + SectorSize, flash_op.length - SectorSize, Backup)
      BY ONLY <1>5, <2>1, <3>2 DEF Within
    <3>. QED BY <1>2, <1>4, <3>1, <3>2, <3>3, Records DEF Asking
  <2>2. CASE ~(flash_op.length > SectorSize)
    <3>1. flash_op' = [flash_op EXCEPT !.length = 0, !.offset = flash_op.offset]
      BY <2>2 DEF Erase, LeftToErase
    <3>2. flash_op' \in Asking /\ flash_op'.opcode = "erase" /\ flash_op'.length = 0
      BY <1>2, <1>4, <3>1, Records DEF Asking
    <3>3. ~(0 > 0)
      OBVIOUS
    <3>. QED BY <3>2, <3>3
  <2>. QED BY <2>1, <2>2
<1>7. UNCHANGED <<flash, protected, request, ipc, client, peer>>
  BY DEF Erase
<1>8. Within(flash_op.offset, 1, Target')
  BY <1>2, <1>4, <1>5, <1>6, Records, Constants DEF Within, Target
<1>9. Calls' /\ call' \in [Contexts -> Calling]
  <2>1. flash_op.offset \in Nat
    BY <1>4, Records
  <2>. QED BY <1>1, <1>2, <1>3, <1>4, <1>6, <1>7, <1>8, <2>1, EraseCalls, IsrCalled
       DEF qspi_flash_erase, peer
<1>10. Types'
  BY <1>6, <1>7, <1>9 DEF IInv, Types, ipc, peer
<1>11. Requests'
  BY <1>6, <1>7 DEF IInv, Requests, peer, Within
<1>. QED BY <1>2, <1>6, <1>7, <1>9, <1>10, <1>11, OpGoesOn DEF IInv

LEMMA WriteStep == ASSUME IInv, Write PROVE IInv'
<1>1. flash_op.opcode = "write" /\ flash_op.data # <<>> /\ mcu = "write"
  BY Facts DEF Write
<1>2. Types
  BY DEF IInv
<1>3. Within(flash_op.offset, Len(flash_op.data), Backup)
  BY <1>1 DEF IInv, Requests
<1>4. /\ flash_op' \in Asking /\ flash_op'.opcode = "write"
      /\ flash_op'.offset = flash_op.offset /\ flash_op'.data = <<>>
  BY <1>1, <1>2, Records DEF Write, Asking
<1>5. UNCHANGED <<flash, protected, request, ipc, client, peer>>
  BY DEF Write
<1>6. Len(flash_op.data) >= 1
  BY <1>1, <1>2, Records
<1>7. Calls' /\ call' \in [Contexts -> Calling]
  <2>1. Target' = Backup
    BY <1>4 DEF Target
  <2>2. flash_op.offset \in Nat /\ flash_op.data \in Seq(Content)
    BY <1>2, Records
  <2>3. qspi_flash_write("isr", flash_op.offset, flash_op.data)
    BY DEF Write
  <2>. QED BY <1>1, <1>2, <1>3, <1>4, <1>5, <1>6, <2>1, <2>2, <2>3, WriteCalls, IsrCalled
       DEF qspi_flash_write, peer
<1>8. Types'
  BY <1>4, <1>5, <1>7 DEF IInv, Types, ipc, peer
<1>9. Requests'
  <2>1. Within(flash_op.offset, 0, Backup)
    BY <1>2, <1>3, Records, Constants DEF Within
  <2>. QED BY <1>4, <1>5, <2>1, <1>2, Records DEF IInv, Requests, peer, Within
<1>. QED BY <1>1, <1>4, <1>5, <1>7, <1>8, <1>9, OpGoesOn DEF IInv

LEMMA AnswerTypes ==
  ASSUME Types, NEW ack \in Telling, Answer(ack)
  PROVE  answer' \in Telling /\ deferred' \in Telling
BY DEF Types, Answer

LEMMA Answering ==
  ASSUME Types, OneAtATime, NEW ack \in Telling, Answer(ack),
         answer = NoAnswer, deferred = NoAnswer
  PROVE  /\ answer' = NoAnswer \/ deferred' = NoAnswer
         /\ answer' \in {NoAnswer, ack} /\ deferred' \in {NoAnswer, ack}
BY DEF Answer

LEMMA EraseOrWriteAckStep == ASSUME IInv, EraseOrWriteAck PROVE IInv'
<1> DEFINE ack == [opcode |-> request.opcode, ok |-> TRUE, length |-> request.length]
<1>1. /\ flash_op.opcode \in {"erase", "write"} /\ request.opcode = flash_op.opcode
      /\ mcu = flash_op.opcode /\ answer = NoAnswer /\ deferred = NoAnswer
  BY Facts DEF EraseOrWriteAck
<1>2. Types
  BY DEF IInv
<1>3. ack \in Telling /\ ack.opcode = mcu /\ ack.length = request.length
  BY <1>1, <1>2, Records DEF Telling, Opcodes
<1>4. Answer(ack) /\ flash_op' = NoOp /\ request' = NoOp
  BY DEF EraseOrWriteAck
<1>5. UNCHANGED <<flash, protected, call, client, peer>>
  BY DEF EraseOrWriteAck
<1> HIDE DEF ack
<1>6. Types'
  BY <1>2, <1>3, <1>4, <1>5, Records, AnswerTypes DEF Types, peer
<1>7. call["isr"] = NoCall
  BY DEF EraseOrWriteAck, Returned
<1>8. Calls'
  BY <1>2, <1>5, <1>7, Records DEF IInv, Calls, peer
<1>9. Requests'
  BY <1>2, <1>4, Records DEF Requests
<1>10. /\ answer' = NoAnswer \/ deferred' = NoAnswer
       /\ answer' \in {NoAnswer, ack} /\ deferred' \in {NoAnswer, ack}
  BY <1>1, <1>2, <1>3, <1>4, Answering DEF IInv
<1>11. OneAtATime'
  <2>1. asked /\ mcu # "done"
    BY <1>1, <1>2, Records DEF IInv, OneAtATime
  <2>. QED BY <1>2, <1>4, <1>5, <1>10, <2>1, Records DEF OneAtATime, peer
<1>12. Answers'
  <2>1. ack.opcode = "write" => written + ack.length <= ImageLength
    BY <1>1, <1>3 DEF IInv, Requests
  <2>. QED BY <1>1, <1>3, <1>5, <1>10, <2>1 DEF Answers, peer
<1>13. Images'
  BY <1>5 DEF IInv, Images, Bootable, NewImage, OldImage, AnImageIsWhole, peer
<1>. QED BY <1>6, <1>8, <1>9, <1>11, <1>12, <1>13 DEF IInv

LEMMA CheckCrcStep == ASSUME IInv, CheckCrc PROVE IInv'
<1> DEFINE ack == [opcode |-> "check", ok |-> CrcMatches(flash_op.offset), length |-> request.length]
<1>1. /\ flash_op.opcode = "check" /\ request.opcode = "check"
      /\ mcu = "check" /\ answer = NoAnswer /\ deferred = NoAnswer
  BY Facts DEF CheckCrc
<1>2. Types
  BY DEF IInv
<1>3. ack.opcode = "check" /\ ack.ok = CrcMatches(flash_op.offset)
  OBVIOUS
<1>4. ack \in Telling
  <2>1. CrcMatches(flash_op.offset) \in BOOLEAN
    BY DEF CrcMatches, NewImage
  <2>. QED BY <1>2, <2>1, Records DEF Telling, Opcodes
<1>5. Answer(ack) /\ flash_op' = NoOp /\ request' = NoOp
  BY DEF CheckCrc
<1>6. UNCHANGED <<flash, protected, call, client, peer>>
  BY DEF CheckCrc
<1>7. ack.ok => NewImage(Backup)
  BY <1>1, <1>3 DEF CrcMatches, IInv, Requests
<1> HIDE DEF ack
<1>8. Types'
  BY <1>2, <1>4, <1>5, <1>6, Records, AnswerTypes DEF Types, peer
<1>9. call["isr"] = NoCall
  BY <1>1 DEF IInv, Calls
<1>10. Calls'
  BY <1>2, <1>6, <1>9, Records DEF IInv, Calls, peer
<1>11. Requests'
  BY <1>2, <1>5, Records DEF Requests
<1>12. /\ answer' = NoAnswer \/ deferred' = NoAnswer
       /\ answer' \in {NoAnswer, ack} /\ deferred' \in {NoAnswer, ack}
  BY <1>1, <1>2, <1>4, <1>5, Answering DEF IInv
<1>13. OneAtATime'
  <2>1. asked /\ mcu # "done"
    BY <1>1, <1>2, Records DEF IInv, OneAtATime
  <2>. QED BY <1>2, <1>5, <1>6, <1>12, <2>1, Records DEF OneAtATime, peer
<1>14. Answers'
  BY <1>1, <1>3, <1>6, <1>7, <1>12 DEF Answers, peer, NewImage
<1>15. Images'
  BY <1>6 DEF IInv, Images, Bootable, NewImage, OldImage, AnImageIsWhole, peer
<1>. QED BY <1>8, <1>10, <1>11, <1>13, <1>14, <1>15 DEF IInv

LEMMA CopyReadStep ==
  ASSUME IInv, CopyRead, \A s \in EraseSizes : s <= SectorSize
  PROVE  IInv'
<1> DEFINE n == CopyLength(flash_op.length)
           data == [k \in 1 .. n |-> flash[flash_op.offset + k - 1]]
<1>1. /\ flash_op.opcode = "copy" /\ mcu = "copy" /\ Returned("isr")
      /\ flash_op.length > 0 /\ flash_op.data = <<>>
  BY Facts DEF CopyRead, Copying
<1>2. Types
  BY DEF IInv
<1>3. /\ Within(flash_op.offset, flash_op.length, Backup)
      /\ Within(flash_op.dest, flash_op.length, Run)
  BY <1>1 DEF IInv, Requests
<1>4. n \in Nat /\ n <= flash_op.length
  BY <1>2, Records, Constants DEF CopyLength
<1>5. data \in Seq(Content) /\ Len(data) = n
  <2> HIDE DEF n
  <2>1. \A k \in 1 .. n : flash_op.offset + k - 1 \in Addresses
    <3> DEFINE o == flash_op.offset
               m == flash_op.length
    <3>1. o \in Nat /\ m \in Nat /\ o + m <= FlashSize
      BY <1>2, <1>3, Records, Constants DEF Within
    <3> HIDE DEF o, m
    <3>2. n <= m
      BY <1>4 DEF m
    <3>3. \A k \in 1 .. n : o + k - 1 \in 0 .. FlashSize - 1
      BY <1>4, <3>1, <3>2, Constants
    <3>. QED BY <3>3 DEF o, Addresses
  <2>2. \A k \in 1 .. n : flash[flash_op.offset + k - 1] \in Content
    BY <1>2, <2>1 DEF Types
  <2>3. data \in [1 .. n -> Content]
    BY <2>2
  <2> HIDE DEF data
  <2>. QED BY <1>4, <2>3
<1>6. flash_op' = [flash_op EXCEPT !.data = data]
  BY DEF CopyRead
<1>7. UNCHANGED <<flash, protected, request, ipc, client, peer>>
  BY DEF CopyRead
<1> HIDE DEF n, data
<1>8. /\ flash_op' \in Asking /\ flash_op'.opcode = "copy"
      /\ flash_op'.offset = flash_op.offset /\ flash_op'.length = flash_op.length
      /\ flash_op'.dest = flash_op.dest /\ flash_op'.data = data
  BY <1>1, <1>2, <1>5, <1>6, Records DEF Asking
<1>9. Calls' /\ call' \in [Contexts -> Calling]
  <2>1. CASE UNCHANGED call
    <3>1. Target' = Target
      BY <1>1, <1>8 DEF Target
    <3>. QED BY <1>2, <1>7, <1>8, <2>1, <3>1 DEF IInv, Calls, Types, Within, peer
  <2>2. CASE \E size \in EraseSizes : qspi_flash_erase("isr", flash_op.dest, size)
    <3>1. PICK size \in EraseSizes : qspi_flash_erase("isr", flash_op.dest, size)
      BY <2>2
    <3>2. size \in Nat /\ size <= SectorSize
      BY GeometryAssumption
    <3>3. Within(flash_op.dest, 1, Target')
      BY <1>1, <1>2, <1>3, <1>8, Records, Constants DEF Within, Target
    <3>. QED BY <1>1, <1>2, <1>7, <1>8, <3>1, <3>2, <3>3, EraseCalls, IsrCalled, Records
         DEF qspi_flash_erase, peer
  <2>. QED BY <2>1, <2>2 DEF CopyRead
<1>10. Types'
  BY <1>7, <1>8, <1>9 DEF IInv, Types, ipc, peer
<1>11. Requests'
  <2>1. Len(flash_op'.data) <= flash_op'.length
    BY <1>4, <1>5, <1>8
  <2>. QED BY <1>3, <1>7, <1>8, <2>1 DEF IInv, Requests, peer, Within
<1>. QED BY <1>1, <1>7, <1>8, <1>9, <1>10, <1>11, OpGoesOn DEF IInv

LEMMA CopyWriteStep == ASSUME IInv, CopyWrite PROVE IInv'
<1> DEFINE n == Len(flash_op.data)
<1>1. flash_op.opcode = "copy" /\ mcu = "copy" /\ flash_op.data # <<>>
  BY Facts DEF CopyWrite, Copying
<1>2. Types
  BY DEF IInv
<1>3. /\ Within(flash_op.offset, flash_op.length, Backup)
      /\ Within(flash_op.dest, flash_op.length, Run) /\ n <= flash_op.length
  BY <1>1 DEF IInv, Requests
<1>4. n \in Nat /\ n >= 1
  BY <1>1, <1>2, Records
<1>5. flash_op' = [flash_op EXCEPT !.offset = flash_op.offset + n, !.dest = flash_op.dest + n,
                                   !.length = flash_op.length - n, !.data = <<>>]
  BY DEF CopyWrite
<1>6. UNCHANGED <<flash, protected, request, ipc, client, peer>>
  BY DEF CopyWrite
<1>7. qspi_flash_write("isr", flash_op.dest, flash_op.data)
  BY DEF CopyWrite
<1>8. Len(flash_op.data) = n
  OBVIOUS
<1> HIDE DEF n
<1>9. /\ flash_op.offset + n \in Nat /\ flash_op.dest + n \in Nat /\ flash_op.length - n \in Nat
  BY <1>2, <1>3, <1>4, Records
<1>10. /\ flash_op' \in Asking /\ flash_op'.opcode = "copy" /\ flash_op'.data = <<>>
       /\ flash_op'.offset = flash_op.offset + n /\ flash_op'.dest = flash_op.dest + n
       /\ flash_op'.length = flash_op.length - n
  BY <1>1, <1>2, <1>5, <1>9, Records DEF Asking
<1>11. Calls' /\ call' \in [Contexts -> Calling]
  <2>1. Target' = Run
    BY <1>10 DEF Target
  <2>2. Within(flash_op.dest, n, Run)
    BY <1>2, <1>3, <1>4, Records, Constants DEF Within
  <2>3. flash_op.dest \in Nat /\ flash_op.data \in Seq(Content)
    BY <1>2, Records
  <2>. QED BY <1>1, <1>2, <1>4, <1>6, <1>7, <1>8, <1>10, <2>1, <2>2, <2>3, WriteCalls, IsrCalled
       DEF qspi_flash_write, peer
<1>12. Types'
  BY <1>6, <1>10, <1>11 DEF IInv, Types, ipc, peer
<1>13. Requests'
  <2>0. /\ flash_op.offset \in Nat /\ flash_op.dest \in Nat /\ flash_op.length \in Nat /\ n \in Nat
        /\ Backup \in Nat /\ Run \in Nat /\ ImageLength \in Nat
    BY <1>2, <1>4, Records, Constants
  <2>1. Within(flash_op.offset + n, flash_op.length - n, Backup)
    BY ONLY <1>3, <2>0 DEF Within
  <2>2. Within(flash_op.dest + n, flash_op.length - n, Run)
    BY ONLY <1>3, <2>0 DEF Within
  <2>3. Len(<<>>) <= flash_op.length - n
    BY <1>2, <1>9, Records
  <2>. QED BY <1>6, <1>10, <2>1, <2>2, <2>3 DEF IInv, Requests, peer, Within
<1>. QED BY <1>1, <1>6, <1>10, <1>11, <1>12, <1>13, OpGoesOn DEF IInv

LEMMA CopyAckStep == ASSUME IInv, CopyAck PROVE IInv'
<1> DEFINE ack == [opcode |-> "copy", ok |-> TRUE, length |-> request.length]
<1>1. /\ flash_op.opcode = "copy" /\ request.opcode = "copy"
      /\ mcu = "copy" /\ answer = NoAnswer /\ deferred = NoAnswer
  BY Facts DEF CopyAck, Copying
<1>2. Types
  BY DEF IInv
<1>3. ack \in Telling /\ ack.opcode = "copy"
  BY <1>2, Records DEF Telling, Opcodes
<1>4. Answer(ack) /\ flash_op' = [flash_op EXCEPT !.opcode = "halt"]
  BY DEF CopyAck
<1>5. UNCHANGED <<flash, protected, call, request, client, peer>>
  BY DEF CopyAck
<1> HIDE DEF ack
<1>6. flash_op' \in Asking /\ flash_op'.opcode = "halt"
  BY <1>2, <1>4, Records DEF Asking
<1>7. Types'
  BY <1>2, <1>3, <1>4, <1>5, <1>6, Records, AnswerTypes DEF Types, peer
<1>8. call["isr"] = NoCall
  BY DEF CopyAck, Copying, Returned
<1>9. Calls'
  BY <1>2, <1>5, <1>8, Records DEF IInv, Calls, peer
<1>10. Requests'
  BY <1>5, <1>6 DEF IInv, Requests, Within, peer
<1>11. /\ answer' = NoAnswer \/ deferred' = NoAnswer
       /\ answer' \in {NoAnswer, ack} /\ deferred' \in {NoAnswer, ack}
  BY <1>1, <1>2, <1>3, <1>4, Answering DEF IInv
<1>12. OneAtATime'
  <2>1. asked
    BY <1>1, <1>2, Records DEF IInv, OneAtATime
  <2>. QED BY <1>1, <1>2, <1>5, <1>6, <1>11, <2>1, Records DEF IInv, OneAtATime, peer
<1>13. Answers'
  BY <1>1, <1>3, <1>5, <1>6, <1>11 DEF Answers, peer
<1>14. Images'
  BY <1>5 DEF IInv, Images, Bootable, NewImage, OldImage, AnImageIsWhole, peer
<1>. QED BY <1>7, <1>9, <1>10, <1>12, <1>13, <1>14 DEF IInv

-----------------------------------------------------------------------------
(* The client and the other traffic. *)
LEMMA ClientStep ==
  ASSUME IInv, ClientErase \/ ClientWrite \/ ClientCheck \/ ClientEnd
  PROVE  IInv'
<1>1. UNCHANGED <<flash, protected, flash_op, request, ipc, peer>>
  BY DEF ClientErase, ClientWrite, ClientCheck, ClientEnd
<1>2. Requests' /\ OneAtATime' /\ Answers' /\ Images'
  BY <1>1 DEF IInv, Requests, OneAtATime, Answers, Images, Within, Bootable, NewImage, OldImage,
              AnImageIsWhole, ipc, peer
<1>3. call \in [Contexts -> Calling] /\ "main" \in Contexts /\ "isr" \in Contexts
  BY DEF IInv, Types, Contexts
<1>4. Calls' /\ call' \in [Contexts -> Calling]
  <2>1. CASE ClientErase
    <3> DEFINE c == [fn |-> "erase", step |-> "unprotect",
                     offset |-> TestSector, size |-> SectorSize, data |-> <<>>]
    <3>1. c \in Calling /\ c.fn = "erase" /\ c.offset = TestSector /\ c.size = SectorSize
      BY Constants, EraseCalls DEF IInv
    <3>2. call' = [call EXCEPT !["main"] = c] /\ mcu # "off"
      BY <2>1 DEF ClientErase, qspi_flash_erase
    <3>3. SectorSize <= SectorSize
      BY Constants
    <3> HIDE DEF c
    <3>4. call'["main"] = c /\ call'["isr"] = call["isr"] /\ call' \in [Contexts -> Calling]
      BY <1>3, <3>1, <3>2
    <3>. QED BY <1>1, <3>1, <3>2, <3>3, <3>4 DEF IInv, Calls, Contexts, Target, peer
  <2>2. CASE ClientWrite
    <3> DEFINE c == [fn |-> "write", step |-> "unprotect",
                     offset |-> TestSector, size |-> 0, data |-> TestData]
    <3>1. TestData \in Seq(Content) /\ Len(TestData) = 2
      BY DEF TestData, Content
    <3>2. c \in Calling /\ c.fn = "write" /\ c.offset = TestSector /\ c.data = TestData
      BY <3>1, Constants, WriteCalls DEF IInv
    <3>3. call' = [call EXCEPT !["main"] = c]
      BY <2>2 DEF ClientWrite, qspi_flash_write
    <3>4. mcu # "off"
      BY <2>2 DEF ClientWrite, IInv, Calls
    <3>5. TestSector <= TestSector /\ TestSector + 2 <= TestSector + 2 /\ 2 >= 1
      BY Constants
    <3> HIDE DEF c
    <3>6. call'["main"] = c /\ call'["isr"] = call["isr"] /\ call' \in [Contexts -> Calling]
      BY <1>3, <3>2, <3>3
    <3>. QED BY <1>1, <3>1, <3>2, <3>4, <3>5, <3>6 DEF IInv, Calls, Contexts, Target, peer
  <2>3. CASE ClientCheck \/ ClientEnd
    <3>1. call' = call /\ client # "idle"
      BY <2>3 DEF ClientCheck, ClientEnd
    <3>2. mcu # "off"
      BY <3>1 DEF IInv, Calls
    <3>. QED BY <1>1, <1>3, <3>1, <3>2 DEF IInv, Calls, Target, peer
  <2>. QED BY <2>1, <2>2, <2>3
<1>5. Types'
  BY <1>1, <1>4 DEF IInv, Types, ipc, peer
<1>. QED BY <1>2, <1>4, <1>5 DEF IInv

LEMMA TrafficStep ==
  ASSUME IInv, Sent \/ SendOther
  PROVE  IInv'
<1>1. UNCHANGED <<flash, protected, call, flash_op, request, client, peer>>
  BY DEF Sent, SendOther
<1>2. \/ UNCHANGED <<answer, deferred>>
      \/ answer' = deferred /\ deferred' = NoAnswer /\ deferred # NoAnswer
  BY DEF Sent, SendOther
<1>3. Types
  BY DEF IInv
<1>4. Types'
  BY <1>1, <1>2, <1>3, Records DEF Types, peer
<1>5. Calls' /\ Requests' /\ Images'
  BY <1>1 DEF IInv, Calls, Requests, Images, Within, Target, Bootable, NewImage, OldImage,
              AnImageIsWhole, peer
<1>6. OneAtATime'
  BY <1>1, <1>2 DEF IInv, OneAtATime, peer
<1>7. Answers'
  BY <1>1, <1>2 DEF IInv, Answers, NewImage, peer
<1>. QED BY <1>4, <1>5, <1>6, <1>7 DEF IInv

-----------------------------------------------------------------------------
(* The MCU and the power. *)
LEMMA AskStep ==
  ASSUME IInv, McuErase \/ (\E n \in 1 .. MaxFrame : McuWrite(n)) \/ McuCheck \/ McuCopy
  PROVE  IInv'
<1>1. /\ ~asked /\ asked' = TRUE /\ mcu \in {"erase", "write", "check", "copy"}
      /\ UNCHANGED <<flash, protected, call, flash_op, ipc, client, mcu, written>>
  BY DEF McuErase, McuWrite, McuCheck, McuCopy, Ask
<1>2. Types
  BY DEF IInv
<1>3. request = NoOp /\ answer = NoAnswer /\ deferred = NoAnswer
  BY <1>1 DEF IInv, OneAtATime
<1>4. flash_op.opcode = "none"
  BY <1>3, Records, <1>2 DEF IInv, OneAtATime
<1>5. /\ request' \in Asking /\ request'.opcode = mcu
      /\ mcu = "erase" => request'.offset = Backup /\ request'.length = ImageLength
      /\ mcu = "write" => /\ Within(request'.offset, Len(request'.data), Backup)
                          /\ written + request'.length <= ImageLength
      /\ mcu = "check" => request'.offset = Backup
      /\ mcu = "copy" => /\ request'.offset = Backup /\ request'.dest = Run
                         /\ request'.length = ImageLength /\ request'.data = <<>>
  <2>1. CASE McuErase \/ McuCheck \/ McuCopy
    BY <1>2, <2>1, Constants, Records DEF McuErase, McuCheck, McuCopy, Ask, NoOp, Asking, Opcodes
  <2>2. ASSUME NEW n \in 1 .. MaxFrame, McuWrite(n)
        PROVE  /\ request' \in Asking /\ request'.opcode = "write" /\ mcu = "write"
               /\ Within(request'.offset, Len(request'.data), Backup)
               /\ written + request'.length <= ImageLength
    <3> DEFINE data == [k \in 1 .. n |-> written + k]
    <3>1. n \in Nat /\ written \in Nat /\ written + n <= ImageLength
      <4>1. n \in Nat
        BY <2>2, Constants
      <4>2. written \in Nat
        BY <1>2, Constants DEF Types
      <4>. QED BY <2>2, <4>1, <4>2 DEF McuWrite
    <3>2. data \in Seq(Content) /\ Len(data) = n
      <4>1. \A k \in 1 .. n : written + k \in Content
        BY <3>1, Constants DEF Content, Image
      <4>2. data \in [1 .. n -> Content]
        BY <4>1
      <4> HIDE DEF data
      <4>. QED BY <3>1, <4>2
    <3>3. request' = [NoOp EXCEPT !.opcode = "write", !.offset = Backup + written, !.length = n,
                                  !.data = data]
          /\ mcu = "write"
      BY <2>2 DEF McuWrite, Ask
    <3> HIDE DEF data
    <3>4. Backup + written \in Nat /\ Within(Backup + written, n, Backup)
      BY <3>1, Constants DEF Within
    <3>5. /\ request'.opcode = "write" /\ request'.offset = Backup + written
          /\ request'.length = n /\ request'.data = data /\ request' \in Asking
      BY <3>1, <3>2, <3>3, <3>4 DEF NoOp, Asking, Opcodes
    <3>. QED BY <3>1, <3>2, <3>3, <3>4, <3>5
  <2>. QED BY <2>1, <2>2 DEF McuErase, McuCheck, McuCopy
<1>6. Types'
  BY <1>1, <1>2, <1>5 DEF Types, ipc
<1>7. Calls'
  BY <1>1 DEF IInv, Calls, Within, Target
<1>8. Requests'
  BY <1>1, <1>4, <1>5 DEF Requests, Within
<1>9. OneAtATime'
  BY <1>1, <1>3, <1>4, <1>5, Records, <1>2 DEF IInv, OneAtATime, ipc
<1>10. Answers'
  BY <1>1, <1>3 DEF Answers, ipc
<1>11. Images'
  BY <1>1 DEF IInv, Images, Bootable, NewImage, OldImage, AnImageIsWhole
<1>. QED BY <1>6, <1>7, <1>8, <1>9, <1>10, <1>11 DEF IInv

LEMMA McuAnswerStep == ASSUME IInv, McuAnswer PROVE IInv'
<1>1. /\ answer # NoAnswer /\ answer' = NoAnswer /\ asked' = FALSE /\ deferred = NoAnswer
      /\ UNCHANGED <<flash, protected, call, flash_op, request, others, deferred, client>>
  BY DEF McuAnswer, IInv, OneAtATime
<1>2. Types
  BY DEF IInv
<1>3. answer.opcode = mcu /\ answer \in Telling /\ mcu \in {"erase", "write", "check", "copy"}
  BY <1>1, <1>2 DEF McuAnswer, IInv, Answers, Types
<1>4. \/ request = NoOp
      \/ mcu = "copy" /\ flash_op.opcode = "halt" /\ request.opcode = "copy"
  BY <1>1, <1>3 DEF IInv, OneAtATime
<1>5. /\ mcu = "erase" => mcu' = "write" /\ written' = 0
      /\ mcu = "write" => /\ written' = written + answer.length
                          /\ mcu' \in {"check", "write"}
      /\ mcu = "check" => /\ written' = written
                          /\ mcu' = IF answer.ok THEN "copy" ELSE "erase"
      /\ mcu = "copy" => mcu' = "done" /\ written' = written
  BY <1>3 DEF McuAnswer
<1>6. mcu' \in {"erase", "write", "check", "copy", "done"}
  BY <1>3, <1>5
<1>7. written' \in 0 .. ImageLength
  <2>1. mcu = "write" => written + answer.length <= ImageLength
    BY <1>1, <1>3 DEF IInv, Answers
  <2>2. answer.length \in Nat /\ written \in 0 .. ImageLength
    BY <1>2, <1>3 DEF Telling, Types
  <2>. QED BY <1>3, <1>5, <2>1, <2>2, Constants
<1>8. Types'
  BY <1>1, <1>2, <1>6, <1>7, Records DEF Types
<1>9. Calls'
  BY <1>1, <1>6 DEF IInv, Calls, Within, Target
<1>10. Requests'
  BY <1>1, <1>2, <1>4, Records DEF IInv, Requests, Within
<1>11. OneAtATime'
  <2>1. mcu = "copy" => flash_op.opcode = "halt" /\ request.opcode \in {"none", "copy"}
    BY <1>1, <1>2, <1>3, <1>4, Records DEF IInv, Answers
  <2>2. mcu # "copy" => mcu' # "done" /\ request = NoOp /\ request.opcode = "none"
    BY <1>2, <1>3, <1>4, <1>5, Records
  <2>. QED BY <1>1, <1>3, <1>5, <2>1, <2>2, <1>2, Records DEF IInv, OneAtATime
<1>12. Answers'
  BY <1>1 DEF Answers
<1>13. Images'
  <2>1. UNCHANGED <<Bootable, NewImage(Backup)>>
    BY <1>1 DEF Bootable, NewImage, OldImage
  <2>2. mcu = "check" /\ answer.ok => NewImage(Backup)
    BY <1>1, <1>3 DEF IInv, Answers
  <2>. QED BY <1>3, <1>5, <1>6, <2>1, <2>2 DEF IInv, Images
<1>. QED BY <1>8, <1>9, <1>10, <1>11, <1>12, <1>13 DEF IInv

(* What the power may damage is of one call, since the other one waits. *)
LEMMA DamageOf ==
  ASSUME IInv
  PROVE  /\ \A i \in 0 .. ImageLength - 1 :
              (InIsr => Target = Run) => Backup + i \notin AtRisk
         /\ \A i \in 0 .. ImageLength - 1 :
              (InIsr => Target = Backup) => Run + i \notin AtRisk
         /\ flash_op.opcode = "halt" => AtRisk = {}
<1> DEFINE risk(ctx) ==
      IF call[ctx].step # "run" \/ protected \/ ~Running(ctx) THEN {}
        ELSE IF call[ctx].fn = "erase" THEN Sector(call[ctx].offset)
        ELSE Page(call[ctx].offset, SubLength(call[ctx].offset, Len(call[ctx].data)))
<1>1. \A a \in AtRisk : a \in risk("main") \/ a \in risk("isr")
  BY DEF AtRisk, Contexts
<1>2. \A ctx \in Contexts : call[ctx] \in Calling
  BY DEF IInv, Types
<1>3. ASSUME NEW ctx \in Contexts, call[ctx].fn # "none", NEW a \in risk(ctx)
      PROVE  SectorOf(a) = SectorOf(call[ctx].offset) /\ call[ctx].fn \in {"erase", "write"}
  <2>1. /\ call[ctx].offset \in Nat /\ call[ctx].data \in Seq(Content)
        /\ call[ctx].fn \in {"none", "erase", "write"}
    BY <1>2 DEF Calling
  <2>2. CASE call[ctx].fn = "erase"
    BY <1>3, <2>1, <2>2 DEF Sector
  <2>3. CASE call[ctx].fn = "write"
    <3>1. SubLength(call[ctx].offset, Len(call[ctx].data)) \in Nat
      BY <2>1, SubLengthRange
    <3>2. a \in Page(call[ctx].offset, SubLength(call[ctx].offset, Len(call[ctx].data)))
      BY <1>3, <2>3
    <3>. QED BY <2>1, <2>3, <3>1, <3>2, InSector
  <2>. QED BY <1>3, <2>1, <2>2, <2>3
<1>4. \A ctx \in Contexts : call[ctx].fn = "none" => call[ctx].step = "protect"
  BY DEF IInv, Calls, NoCall
<1>5. \A a \in risk("main") : /\ ~InIsr /\ call["main"].fn \in {"erase", "write"}
                              /\ SectorOf(a) = SectorOf(call["main"].offset)
  BY <1>3, <1>4 DEF Running, Contexts
<1>6. \A a \in risk("isr") : /\ call["isr"].fn \in {"erase", "write"}
                             /\ SectorOf(a) = SectorOf(call["isr"].offset)
  BY <1>3, <1>4 DEF Contexts
<1>7. /\ call["isr"].fn # "none" => InIsr
      /\ flash_op.opcode = "halt" => call["isr"].fn = "none" /\ InIsr
  BY Facts
<1> HIDE DEF risk
<1>. QED BY <1>1, <1>5, <1>6, <1>7, MainElsewhere, IsrElsewhere DEF IInv

LEMMA PowerCutStep == ASSUME IInv, PowerCut PROVE IInv'
<1>1. PICK damaged \in {{}, AtRisk} :
        flash' = [a \in Addresses |-> IF a \in damaged THEN Garbled ELSE flash[a]]
  BY DEF PowerCut
<1>2. /\ call' = [ctx \in Contexts |-> NoCall] /\ flash_op' = NoOp /\ request' = NoOp
      /\ deferred' = NoAnswer /\ answer' = NoAnswer /\ client' = "idle"
      /\ mcu' = "off" /\ asked' = FALSE /\ written' = 0
  BY DEF PowerCut
<1>3. Types
  BY DEF IInv
<1>4. Types'
  <2>1. flash' \in [Addresses -> Content]
    BY <1>1, <1>3 DEF Types, Content
  <2>2. 0 \in 0 .. ImageLength
    BY Constants
  <2>. QED BY <1>2, <1>3, <2>1, <2>2, Records DEF Types
<1>5. Calls'
  BY <1>2, <1>3, Records DEF Calls, Contexts
<1>6. Requests'
  BY <1>2, <1>3, Records DEF Requests
<1>7. OneAtATime' /\ Answers'
  BY <1>2, <1>3, Records DEF OneAtATime, Answers
<1>8. /\ (InIsr => Target = Run) => Steady(Backup)
      /\ (InIsr => Target = Backup) => Steady(Run)
  BY <1>1, DamageOf, Constants DEF Steady
<1>9. AnImageIsWhole'
  <2>1. CASE ~InIsr
    BY <1>8, <2>1, Facts, ImagesKept DEF AnImageIsWhole
  <2>2. CASE InIsr /\ flash_op.opcode = "copy"
    <3>1. Steady(Backup) /\ NewImage(Backup)
      BY <1>8, <2>2, Facts DEF Target, IInv, Images
    <3>. QED BY <3>1, ImagesKept DEF AnImageIsWhole
  <2>3. CASE InIsr /\ flash_op.opcode \in {"erase", "write", "check"}
    <3>1. Steady(Run) /\ Bootable
      BY <1>8, <2>3, Facts DEF Target, IInv, Images
    <3>. QED BY <3>1, ImagesKept DEF AnImageIsWhole
  <2>4. CASE InIsr /\ flash_op.opcode = "halt"
    <3>1. AtRisk = {}
      BY <2>4, DamageOf
    <3>2. Steady(Backup)
      BY <1>1, <3>1, Constants DEF Steady
    <3>3. NewImage(Backup)
      BY <1>3, <2>4, Records DEF IInv, Images, OneAtATime
    <3>. QED BY <3>2, <3>3, ImagesKept DEF AnImageIsWhole
  <2>5. flash_op.opcode \in {"none", "erase", "write", "check", "copy", "halt"}
    BY <1>3, Records DEF Opcodes
  <2>. QED BY <2>1, <2>2, <2>3, <2>4, <2>5, Facts
<1>10. Images'
  BY <1>2, <1>9 DEF Images
<1>. QED BY <1>4, <1>5, <1>6, <1>7, <1>10 DEF IInv

LEMMA BootStep == ASSUME IInv, Boot PROVE IInv'
<1>1. /\ mcu = "off" /\ mcu' \in {"erase", "check"} /\ Bootable
      /\ UNCHANGED <<flash, protected, call, flash_op, request, ipc, client, asked, written>>
  BY DEF Boot
<1>2. flash_op = NoOp /\ request = NoOp /\ answer = NoAnswer /\ deferred = NoAnswer
  BY <1>1, Facts
<1>3. Types' /\ Calls'
  BY <1>1 DEF IInv, Types, Calls, Within, Target, ipc
<1>4. Requests'
  BY <1>1, <1>2, Records DEF IInv, Requests
<1>5. OneAtATime' /\ Answers'
  BY <1>1, <1>2, Records DEF IInv, OneAtATime, Answers, ipc
<1>6. Images'
  BY <1>1 DEF Images, Bootable, NewImage, OldImage
<1>. QED BY <1>3, <1>4, <1>5, <1>6 DEF IInv

LEMMA Loaded ==
  ASSUME NEW f, \A a \in Addresses : a \in Run .. Run + ImageLength - 1 => f[a] = Old
  PROVE  \A i \in Image : f[Run + i - 1] = Old
<1>1. \A i \in Image : /\ Run + i - 1 \in Addresses
                       /\ Run + i - 1 \in Run .. Run + ImageLength - 1
  BY Constants DEF Image, Addresses
<1>. QED BY <1>1

LEMMA ReloadStep == ASSUME IInv, Reload PROVE IInv'
<1>1. /\ flash' = [a \in Addresses |-> IF a \in Run .. Run + ImageLength - 1 THEN Old ELSE flash[a]]
      /\ mcu = "off" /\ UNCHANGED <<protected, call, flash_op, request, ipc, client, peer>>
  BY DEF Reload
<1>2. answer = NoAnswer /\ deferred = NoAnswer
  BY <1>1, Facts
<1>3. flash' \in [Addresses -> Content]
  BY <1>1 DEF IInv, Types, Content
<1>4. Types' /\ Calls' /\ Requests' /\ OneAtATime'
  BY <1>1, <1>3 DEF IInv, Types, Calls, Requests, OneAtATime, Within, Target, ipc, peer
<1>5. Answers'
  BY <1>1, <1>2 DEF Answers, ipc
<1>6. \A a \in Addresses : a \in Run .. Run + ImageLength - 1 => flash'[a] = Old
  BY <1>1
<1>7. OldImage(Run)'
  BY <1>6, Loaded DEF OldImage
<1>8. Images'
  BY <1>1, <1>7 DEF Images, AnImageIsWhole, Bootable, peer
<1>. QED BY <1>4, <1>5, <1>8 DEF IInv

LEMMA InitInvariant == Init => IInv
<1> SUFFICES ASSUME Init PROVE IInv
  OBVIOUS
<1>1. Types
  <2>1. /\ call = [ctx \in Contexts |-> NoCall] /\ flash_op = NoOp /\ request = NoOp
        /\ deferred = NoAnswer /\ answer = NoAnswer
        /\ mcu = "off" /\ asked = FALSE /\ written = 0
        /\ flash = [a \in Addresses |-> IF a \in Run .. Run + ImageLength - 1 THEN Old ELSE Garbled]
    BY DEF Init
  <2>2. NoCall \in Calling /\ NoOp \in Asking /\ NoAnswer \in Telling /\ 0 \in 0 .. ImageLength
    BY Constants DEF NoCall, Calling, NoOp, Asking, NoAnswer, Telling, Opcodes
  <2>3. flash \in [Addresses -> Content]
    BY <2>1 DEF Content
  <2>. QED BY <2>1, <2>2, <2>3 DEF Types
<1>2. Calls
  BY <1>1, Records DEF Init, Calls, Contexts
<1>3. Requests /\ OneAtATime /\ Answers
  BY <1>1, Records DEF Init, Requests, OneAtATime, Answers
<1>4. OldImage(Run)
  BY Loaded DEF Init, OldImage
<1>. QED BY <1>1, <1>2, <1>3, <1>4 DEF Init, IInv, Images, AnImageIsWhole, Bootable

LEMMA NextInvariant ==
  ASSUME IInv, [Next]_vars, \A s \in EraseSizes : s <= SectorSize
  PROVE  IInv'
<1>1. CASE Next
  <2>1. CASE Driver("isr") \/ Driver("main")
    BY <2>1, DriverStep DEF Contexts
  <2>2. CASE Receive \/ Erase \/ Write \/ EraseOrWriteAck \/ CheckCrc
    BY <2>2, ReceiveStep, EraseStep, WriteStep, EraseOrWriteAckStep, CheckCrcStep
  <2>3. CASE CopyRead \/ CopyWrite \/ CopyAck
    BY <2>3, CopyReadStep, CopyWriteStep, CopyAckStep
  <2>4. CASE ClientErase \/ ClientWrite \/ ClientCheck \/ ClientEnd \/ Sent \/ SendOther
    BY <2>4, ClientStep, TrafficStep
  <2>5. CASE McuAsks \/ McuAnswer
    BY <2>5, AskStep, McuAnswerStep DEF McuAsks
  <2>6. CASE Power
    BY <2>6, PowerCutStep, BootStep, ReloadStep DEF Power
  <2>. QED BY <1>1, <2>1, <2>2, <2>3, <2>4, <2>5, <2>6
       DEF Next, ota_recv_ipc_msg, test_flash_read_write
<1>2. CASE UNCHANGED vars
  BY <1>2 DEF vars, ipc, peer, IInv, Types, Calls, Requests, OneAtATime, Answers, Images, Within,
              Target, Bootable, NewImage, OldImage, AnImageIsWhole
<1>. QED BY <1>1, <1>2

-----------------------------------------------------------------------------
(* At any moment, and so wherever the power is cut, a whole image is in    *)
(* the flash, when qspi_flash_erase never takes more than a sector for the *)
(* size in its second parameter.                                           *)
THEOREM AnImageIsAlwaysWhole ==
  ASSUME \A s \in EraseSizes : s <= SectorSize
  PROVE  SafeSpec => []AnImageIsWhole
<1>1. Init => IInv
  BY InitInvariant
<1>2. IInv /\ [Next]_vars => IInv'
  BY NextInvariant
<1>3. IInv => AnImageIsWhole
  BY Facts
<1>. QED BY <1>1, <1>2, <1>3, PTL DEF SafeSpec

-----------------------------------------------------------------------------
(***************************************************************************)
(* That the acknowledgements of the update are true, and that an update    *)
(* changes nothing that it does not name, on top of the invariant IInv.    *)
(***************************************************************************)

(* The inductive invariant says how far the flash has got at each step of  *)
(* an erase, a write and a copy.  Its cells are in the place of an image   *)
(* at x: the first n of them hold the new image, those behind n are blank. *)
Holds(x, n) == \A i \in Image : i <= n => flash[x + i - 1] = i
Blank(x, n) == \A i \in Image : i > n => flash[x + i - 1] = Erased

(* Data that is the new image's from at on, where the image starts at x. *)
Numbered(data, at, x) == \A k \in 1 .. Len(data) : data[k] = at - x + k

Isr == call["isr"]
InWrite == Isr.fn = "write" /\ Isr.step # "protect"
InErase == Isr.fn = "erase" /\ Isr.step # "protect"
Pending(a) == InErase /\ SectorOf(a) = SectorOf(Isr.offset)

(* How many cells of the target hold the new image. *)
Place == IF InWrite THEN Isr.offset - Target
           ELSE IF flash_op.opcode = "copy" THEN flash_op.dest - Run
           ELSE IF flash_op.opcode = "write" /\ flash_op.data = <<>> THEN written + request.length
           ELSE written

(* The end of the sectors of the destination that have been erased. *)
Open == IF flash_op.data = <<>> /\ AtSector(flash_op.dest) THEN flash_op.dest
          ELSE SectorOf(flash_op.dest) + SectorSize

Unprotected ==
  /\ Isr.step = "run" => protected = FALSE
  /\ Isr.fn = "erase" => flash_op.opcode \in {"erase", "copy"}
  /\ Isr.fn = "write" => flash_op.opcode \in {"write", "copy"}

Erasing ==
  flash_op.opcode = "erase" =>
    /\ flash_op.length > 0 => /\ flash_op.offset + flash_op.length = Backup + ImageLength
                              /\ SectorOf(flash_op.offset) = flash_op.offset
    /\ \A i \in Image : /\ flash_op.length = 0 \/ Backup + i - 1 < flash_op.offset
                        /\ ~Pending(Backup + i - 1)
                        => flash[Backup + i - 1] = Erased

Writing ==
  /\ request.opcode = "write" =>
       /\ request.offset = Backup + written /\ request.length = Len(request.data)
       /\ Numbered(request.data, request.offset, Backup)
  /\ flash_op.opcode = "write" =>
       /\ flash_op.offset = request.offset
       /\ flash_op.data \in {request.data, <<>>}
       /\ InWrite => /\ flash_op.data = <<>> /\ Isr.offset >= request.offset
                     /\ Isr.offset + Len(Isr.data) = request.offset + request.length
                     /\ Numbered(Isr.data, Isr.offset, Backup)
  /\ mcu = "write" /\ answer = NoAnswer /\ deferred = NoAnswer =>
       Holds(Backup, Place) /\ Blank(Backup, Place)

CopyingOn ==
  flash_op.opcode = "copy" =>
    /\ flash_op.offset - Backup = flash_op.dest - Run
    /\ flash_op.offset + flash_op.length = Backup + ImageLength
    /\ flash_op.length > 0 => flash_op.dest % PageSize = 0
    /\ Numbered(flash_op.data, flash_op.dest, Run)
    /\ flash_op.data # <<>> => Len(flash_op.data) = CopyLength(flash_op.length)
    /\ InErase => flash_op.data # <<>> /\ Isr.offset = flash_op.dest /\ AtSector(flash_op.dest)
    /\ InWrite => /\ flash_op.data = <<>> /\ Isr.offset + Len(Isr.data) = flash_op.dest
                  /\ Numbered(Isr.data, Isr.offset, Run)
    /\ Holds(Run, Place)
    /\ \A i \in Image : i > Place /\ Run + i - 1 < Open /\ ~Pending(Run + i - 1) =>
                          flash[Run + i - 1] = Erased

Acknowledged ==
  /\ \A a \in {answer, deferred} :
       /\ a.opcode = "erase" => Blank(Backup, 0)
       /\ a.opcode = "write" => /\ Holds(Backup, written + a.length)
                                /\ Blank(Backup, written + a.length)
  /\ flash_op.opcode = "halt" => NewImage(Run)

Progress == Unprotected /\ Erasing /\ Writing /\ CopyingOn /\ Acknowledged

-----------------------------------------------------------------------------
(* Arithmetic of sectors and pages, continued. *)
LEMMA SectorBounds ==
  ASSUME NEW a \in Nat
  PROVE  /\ SectorOf(a) \in Nat /\ SectorOf(a) <= a /\ a < SectorOf(a) + SectorSize
         /\ SectorOf(SectorOf(a)) = SectorOf(a)
         /\ \A b \in SectorOf(a) .. SectorOf(a) + SectorSize - 1 : SectorOf(b) = SectorOf(a)
<1> DEFINE m == a \div SectorSize
           t == a % SectorSize
<1>1. /\ m \in Nat /\ t \in 0 .. SectorSize - 1 /\ a = m * SectorSize + t
      /\ SectorSize \in Nat \ {0}
  BY Constants
<1>2. m * SectorSize \in Nat
  BY <1>1
<1> HIDE DEF m, t
<1>3. SectorOf(a) = m * SectorSize
  BY <1>1, SectorIs
<1>4. ASSUME NEW b \in SectorOf(a) .. SectorOf(a) + SectorSize - 1
      PROVE  SectorOf(b) = SectorOf(a)
  <2> DEFINE s == m * SectorSize
             d == b - s
  <2>1. d \in 0 .. SectorSize - 1 /\ b = s + d
    BY <1>1, <1>2, <1>3, <1>4
  <2> HIDE DEF d
  <2>. QED BY <1>1, <1>3, <2>1, SectorIs
<1>5. SectorOf(a) \in SectorOf(a) .. SectorOf(a) + SectorSize - 1
  BY <1>1, <1>2, <1>3
<1>. QED BY <1>1, <1>2, <1>3, <1>4, <1>5

LEMMA NextSector ==
  ASSUME NEW o \in Nat, SectorOf(o) = o
  PROVE  SectorOf(o + SectorSize) = o + SectorSize
<1> DEFINE m == o \div SectorSize
<1>1. SectorSize \in Nat \ {0} /\ o % SectorSize = 0
  BY Constants DEF SectorOf
<1>2. m \in Nat /\ o = m * SectorSize
  BY <1>1
<1> HIDE DEF m
<1>3. o + SectorSize = (m + 1) * SectorSize /\ m + 1 \in Nat /\ 0 \in 0 .. SectorSize - 1
  BY <1>1, <1>2
<1>4. SectorOf((m + 1) * SectorSize + 0) = (m + 1) * SectorSize
  BY <1>3, SectorIs
<1>5. (m + 1) * SectorSize + 0 = o + SectorSize
  BY <1>1, <1>3
<1>. QED BY <1>3, <1>4, <1>5

LEMMA SectorStartsPage ==
  ASSUME NEW o \in Nat, SectorOf(o) = o
  PROVE  o % PageSize = 0
<1> DEFINE m == o \div SectorSize
           k == SectorSize \div PageSize
<1>1. SectorSize \in Nat \ {0} /\ o % SectorSize = 0 /\ PageSize \in Nat \ {0}
  BY Constants DEF SectorOf
<1>2. m \in Nat /\ o = m * SectorSize
  BY <1>1
<1>3. k \in Nat /\ SectorSize = k * PageSize
  BY <1>1, GeometryAssumption
<1> HIDE DEF m, k
<1>4. m * (k * PageSize) = (m * k) * PageSize + 0 /\ m * k \in Nat
  BY <1>1, <1>2, <1>3
<1>5. 0 \in 0 .. PageSize - 1
  BY <1>1
<1> DEFINE mk == m * k
<1>6. mk \in Nat /\ o = mk * PageSize + 0
  BY <1>2, <1>3, <1>4
<1> HIDE DEF mk
<1>. QED BY <1>1, <1>5, <1>6, Divided

(* A page that starts in a sector ends in it. *)
LEMMA PageEnds ==
  ASSUME NEW a \in Nat, a % PageSize = 0
  PROVE  /\ a + PageSize <= SectorOf(a) + SectorSize
         /\ (a + PageSize) % PageSize = 0
<1> DEFINE q == a \div PageSize
<1>1. PageSize \in Nat \ {0} /\ q \in Nat /\ a = q * PageSize
  BY Constants
<1>2. PageSize - 1 \in 0 .. PageSize - 1 /\ 0 \in 0 .. PageSize - 1
  BY <1>1
<1> HIDE DEF q
<1>3. (q * PageSize + (PageSize - 1)) \div PageSize = q
  BY <1>1, <1>2, Divided
<1>4. (q * PageSize + 0) \div PageSize = q
  BY <1>1, <1>2, Divided
<1>5. a = q * PageSize + 0 /\ a + (PageSize - 1) = q * PageSize + (PageSize - 1)
  BY <1>1
<1>6. a + (PageSize - 1) \in Nat
  BY <1>1
<1>7. SectorOf(a + (PageSize - 1)) = SectorOf(a)
  BY <1>3, <1>4, <1>5, <1>6, PageInSector
<1>8. a + (PageSize - 1) < SectorOf(a) + SectorSize /\ SectorOf(a) \in Nat
  BY <1>6, <1>7, SectorBounds
<1>9. (q + 1) * PageSize + 0 = a + PageSize /\ q + 1 \in Nat
  BY <1>1
<1>10. ((q + 1) * PageSize + 0) % PageSize = 0
  BY <1>1, <1>2, <1>9, Divided
<1>. QED BY <1>1, <1>8, <1>9, <1>10, Constants

(* What fits in its page is programmed in place. *)
LEMMA PageIs ==
  ASSUME NEW o \in Nat, NEW k \in Nat, k <= PageLeft(o), NEW a \in Addresses
  PROVE  /\ a \in Page(o, k) <=> o <= a /\ a < o + k
         /\ o <= a /\ a < o + k => Element(a, o) = a - o + 1
<1> DEFINE q == o \div PageSize
           r == o % PageSize
<1>1. /\ PageSize \in Nat \ {0} /\ q \in Nat /\ r \in 0 .. PageSize - 1
      /\ o = q * PageSize + r /\ q * PageSize \in Nat
  BY Constants
<1>2. k <= PageSize - r /\ a \in Nat
  BY DEF PageLeft, Addresses
<1>3. ASSUME o <= a, a < o + k
      PROVE  a \div PageSize = q /\ (a - o) % PageSize = a - o
  <2> DEFINE d == a - o
  <2>1. d \in 0 .. PageSize - 1 /\ r + d \in 0 .. PageSize - 1 /\ d < k /\ a = o + d
    BY <1>1, <1>2, <1>3
  <2> HIDE DEF q, r, d
  <2>2. a = q * PageSize + (r + d)
    BY <1>1, <2>1
  <2>3. a \div PageSize = q
    BY <1>1, <2>1, <2>2, Divided
  <2>4. d % PageSize = d
    BY <1>1, <2>1
  <2>. QED BY <2>3, <2>4 DEF d
<1>4. ASSUME a \div PageSize = q, (a - o) % PageSize < k
      PROVE  o <= a /\ a < o + k
  <2> DEFINE s == a % PageSize
  <2>1. s \in 0 .. PageSize - 1 /\ a = q * PageSize + s
    BY <1>1, <1>2, <1>4
  <2> HIDE DEF q, r, s
  <2>2. a - o = s - r
    BY <1>1, <2>1
  <2>3. CASE s >= r
    <3>1. s - r \in 0 .. PageSize - 1
      BY <1>1, <2>1, <2>3
    <3>2. (s - r) % PageSize = s - r
      BY <1>1, <3>1
    <3>. QED BY <1>1, <1>2, <1>4, <2>1, <2>2, <2>3, <3>2
  <2>4. CASE s < r
    <3>1. s - r + PageSize \in 0 .. PageSize - 1
      BY <1>1, <2>1, <2>4
    <3>2. (s - r) % PageSize = (s - r + PageSize) % PageSize
      BY <1>1, <2>1
    <3>3. (s - r + PageSize) % PageSize = s - r + PageSize
      BY <1>1, <3>1
    <3>. QED BY <1>1, <1>2, <1>4, <2>1, <2>2, <2>4, <3>2, <3>3
  <2>. QED BY <1>1, <2>1, <2>3, <2>4
<1> HIDE DEF r
<1>5. a \in Page(o, k) <=> a \div PageSize = q /\ (a - o) % PageSize < k
  BY DEF Page
<1>6. o <= a /\ a < o + k => a - o < k
  BY <1>2
<1>. QED BY <1>3, <1>4, <1>5, <1>6 DEF Element

-----------------------------------------------------------------------------
(* Steps that leave the cells of both images as they are. *)
LEMMA Cells ==
  /\ \A x \in {Run, Backup}, i \in Image : x + i - 1 \in Addresses /\ x + i - 1 = x + (i - 1)
  /\ \A x \in {Run, Backup} : Steady(x) => \A i \in Image : flash'[x + i - 1] = flash[x + i - 1]
  /\ ImageLength \in Image /\ \A i \in Image : i \in Nat /\ i >= 1 /\ i <= ImageLength
<1>1. \A x \in {Run, Backup}, i \in Image :
        i - 1 \in 0 .. ImageLength - 1 /\ x + i - 1 = x + (i - 1)
  BY Constants DEF Image
<1>2. \A x \in {Run, Backup} : Steady(x) => \A i \in Image : flash'[x + i - 1] = flash[x + i - 1]
  BY <1>1 DEF Steady
<1>3. ImageLength \in Image /\ \A i \in Image : i \in Nat /\ i >= 1 /\ i <= ImageLength
  BY Constants DEF Image
<1>. QED BY <1>1, <1>2, <1>3, Constants

LEMMA Frame ==
  ASSUME Progress, Steady(Run), Steady(Backup), Isr' = Isr,
         flash_op' = flash_op, request' = request, mcu' = mcu, written' = written
  PROVE  /\ Erasing' /\ CopyingOn' /\ Place' = Place
         /\ \A n : (Holds(Backup, n) => Holds(Backup, n)') /\ (Blank(Backup, n) => Blank(Backup, n)')
         /\ NewImage(Run) => NewImage(Run)'
<1>1. /\ \A i \in Image : flash'[Run + i - 1] = flash[Run + i - 1]
      /\ \A i \in Image : flash'[Backup + i - 1] = flash[Backup + i - 1]
  BY Cells
<1>2. InWrite' = InWrite /\ InErase' = InErase /\ \A a : Pending(a)' = Pending(a)
  BY DEF InWrite, InErase, Pending
<1>3. Place' = Place /\ Open' = Open
  BY <1>2 DEF Place, Open, Target
<1>4. Erasing'
  BY <1>1, <1>2 DEF Progress, Erasing
<1>5. \A n : /\ Holds(Run, n) => Holds(Run, n)'
             /\ Holds(Backup, n) => Holds(Backup, n)'
             /\ Blank(Backup, n) => Blank(Backup, n)'
  BY <1>1 DEF Holds, Blank
<1>6. NewImage(Run) => NewImage(Run)'
  BY <1>1 DEF NewImage
<1>7. CopyingOn'
  <2>1. Holds(Run, Place) => Holds(Run, Place)'
    BY <1>1, <1>3 DEF Holds
  <2>. QED BY <1>1, <1>2, <1>3, <2>1 DEF Progress, CopyingOn
<1>. QED BY <1>3, <1>4, <1>5, <1>6, <1>7

LEMMA SteadyStep ==
  ASSUME Progress, Steady(Run), Steady(Backup), Isr' = Isr,
         UNCHANGED <<flash_op, request, mcu, written>>,
         Isr.step = "run" => protected' = FALSE,
         \/ UNCHANGED <<answer, deferred>>
         \/ answer' = deferred /\ deferred' = NoAnswer /\ deferred # NoAnswer
  PROVE  Progress'
<1>1. /\ Erasing' /\ CopyingOn' /\ Place' = Place
      /\ \A n : (Holds(Backup, n) => Holds(Backup, n)') /\ (Blank(Backup, n) => Blank(Backup, n)')
      /\ NewImage(Run) => NewImage(Run)'
  BY Frame
<1>2. Unprotected'
  BY DEF Progress, Unprotected
<1>3. Writing'
  <2>1. InWrite' = InWrite
    BY DEF InWrite
  <2>2. mcu = "write" /\ answer' = NoAnswer /\ deferred' = NoAnswer =>
          Holds(Backup, Place) /\ Blank(Backup, Place)
    BY DEF Progress, Writing
  <2>3. (Holds(Backup, Place) => Holds(Backup, Place)') /\ (Blank(Backup, Place) => Blank(Backup, Place)')
    <3>1. PICK n : n = Place
      OBVIOUS
    <3>2. \A i \in Image : flash'[Backup + i - 1] = flash[Backup + i - 1]
      BY Cells
    <3>. QED BY <1>1, <3>2 DEF Holds, Blank
  <2>. QED BY <2>1, <2>2, <2>3 DEF Progress, Writing
<1>4. Acknowledged'
  <2>1. NoAnswer.opcode = "none"
    BY DEF NoAnswer
  <2>2. \A a \in {answer', deferred'} : a \in {answer, deferred} \/ a = NoAnswer
    OBVIOUS
  <2>3. \A a \in {answer', deferred'} :
          /\ a.opcode = "erase" => Blank(Backup, 0)
          /\ a.opcode = "write" => /\ Holds(Backup, written + a.length)
                                   /\ Blank(Backup, written + a.length)
    BY <2>1, <2>2 DEF Progress, Acknowledged
  <2>. QED BY <1>1, <2>3 DEF Progress, Acknowledged
<1>. QED BY <1>1, <1>2, <1>3, <1>4 DEF Progress

-----------------------------------------------------------------------------
(* The steps of the driver in the interrupt. *)
LEMMA IsrTypes ==
  ASSUME Types
  PROVE  /\ call \in [Contexts -> Calling] /\ "isr" \in Contexts /\ Isr \in Calling
         /\ Isr.offset \in Nat /\ Isr.data \in Seq(Content) /\ Len(Isr.data) \in Nat
         /\ Isr.fn \in {"none", "erase", "write"} /\ Isr.step \in {"unprotect", "run", "protect"}
         /\ written \in Nat /\ Target \in {Run, Backup}
BY Constants DEF Types, Calling, Contexts, Isr, Target

LEMMA IsrIdle ==
  ASSUME Types, Returned("isr") \/ Isr = NoCall
  PROVE  ~InWrite /\ ~InErase /\ \A a : ~Pending(a)
BY DEF Returned, Isr, NoCall, InWrite, InErase, Pending

LEMMA ProtectSteps ==
  ASSUME IInv, Progress, flash_protect_disable("isr") \/ flash_protect_enable("isr")
  PROVE  Progress'
<1>1. UNCHANGED <<flash, flash_op, request, ipc, client, peer>>
  BY DEF flash_protect_disable, flash_protect_enable
<1>2. Types
  BY DEF IInv
<1>3. CASE flash_protect_disable("isr")
  <2>1. /\ Isr'.fn = Isr.fn /\ Isr'.offset = Isr.offset /\ Isr'.data = Isr.data
        /\ Isr.step = "unprotect" /\ Isr'.step = "run" /\ protected' = FALSE
    BY <1>2, <1>3, IsrTypes DEF flash_protect_disable, Calling, Isr
  <2>2. InWrite' = InWrite /\ InErase' = InErase /\ \A a : Pending(a)' = Pending(a)
    BY <2>1 DEF InWrite, InErase, Pending
  <2>3. Place' = Place /\ Open' = Open
    BY <1>1, <2>1, <2>2 DEF Place, Open, Target, peer
  <2>4. Unprotected'
    BY <1>1, <2>1 DEF Progress, Unprotected
  <2>5. Erasing'
    BY <1>1, <2>2 DEF Progress, Erasing
  <2>6. Writing'
    BY <1>1, <2>1, <2>2, <2>3 DEF Progress, Writing, Holds, Blank, peer, ipc
  <2>7. CopyingOn'
    BY <1>1, <2>1, <2>2, <2>3 DEF Progress, CopyingOn, Holds
  <2>8. Acknowledged'
    BY <1>1 DEF Progress, Acknowledged, Holds, Blank, NewImage, peer, ipc
  <2>. QED BY <2>4, <2>5, <2>6, <2>7, <2>8 DEF Progress
<1>4. CASE flash_protect_enable("isr")
  <2>1. Isr.step = "protect" /\ Isr' = NoCall
    BY <1>2, <1>4, IsrTypes DEF flash_protect_enable, Isr
  <2>2. /\ ~InWrite /\ ~InErase /\ \A a : ~Pending(a)
        /\ ~InWrite' /\ ~InErase' /\ \A a : ~Pending(a)'
        /\ Isr'.step # "run" /\ Isr'.fn = "none"
    BY <2>1 DEF InWrite, InErase, Pending, NoCall
  <2>3. Place' = Place /\ Open' = Open
    BY <1>1, <2>2 DEF Place, Open, Target, peer
  <2>4. Unprotected'
    BY <2>2 DEF Unprotected
  <2>5. Erasing'
    BY <1>1, <2>2 DEF Progress, Erasing
  <2>6. Writing'
    BY <1>1, <2>2, <2>3 DEF Progress, Writing, Holds, Blank, peer, ipc
  <2>7. CopyingOn'
    BY <1>1, <2>2, <2>3 DEF Progress, CopyingOn, Holds
  <2>8. Acknowledged'
    BY <1>1 DEF Progress, Acknowledged, Holds, Blank, NewImage, peer, ipc
  <2>. QED BY <2>4, <2>5, <2>6, <2>7, <2>8 DEF Progress
<1>. QED BY <1>3, <1>4

(* The operation that a call of the interrupt belongs to. *)
LEMMA IsrOperation ==
  ASSUME IInv, Progress, Isr.fn \in {"erase", "write"}
  PROVE  /\ Isr.fn = "erase" => flash_op.opcode \in {"erase", "copy"}
         /\ Isr.fn = "write" => flash_op.opcode \in {"write", "copy"}
         /\ answer = NoAnswer /\ deferred = NoAnswer
         /\ mcu = flash_op.opcode /\ request.opcode = flash_op.opcode
BY Facts DEF Progress, Unprotected, IInv

LEMMA EraseProgress ==
  ASSUME IInv, Progress, flash_erase("isr")
  PROVE  Progress'
<1>1. UNCHANGED <<protected, flash_op, request, ipc, client, peer>>
  BY DEF flash_erase
<1>2. Types
  BY DEF IInv
<1>3. Isr.fn = "erase" /\ Isr.step = "run" /\ InErase
  BY DEF flash_erase, Isr, InErase
<1>4. /\ flash_op.opcode \in {"erase", "copy"} /\ answer = NoAnswer /\ deferred = NoAnswer
      /\ mcu = flash_op.opcode /\ request.opcode = flash_op.opcode /\ ~protected
  BY <1>3, IsrOperation DEF Progress, Unprotected
<1>5. Isr'.fn = "erase" /\ Isr'.step = "protect"
  <2>1. call["isr"].size <= SectorSize /\ call["isr"].size \in Nat
    BY <1>2, <1>3, IsrTypes DEF IInv, Calls, Isr, Calling
  <2>2. ~(call["isr"].size > SectorSize)
    BY <2>1, Constants
  <2>3. call' = [call EXCEPT !["isr"].step = "protect"]
    BY <2>2 DEF flash_erase
  <2>. QED BY <1>2, <1>3, <2>3, IsrTypes DEF Isr, Calling
<1>6. ~InWrite /\ ~InWrite' /\ ~InErase' /\ \A a : ~Pending(a)'
  BY <1>3, <1>5 DEF InWrite, InErase, Pending
<1>7. \A a \in Addresses : flash'[a] = IF Pending(a) THEN Erased ELSE flash[a]
  <2>1. flash' = [a \in Addresses |-> IF a \in Sector(call["isr"].offset) THEN Erased ELSE flash[a]]
    BY <1>4 DEF flash_erase, EraseSector
  <2>. QED BY <1>3, <2>1 DEF Sector, Pending, Isr
<1>8. Place' = Place /\ Open' = Open
  BY <1>1, <1>6 DEF Place, Open, Target, peer
<1>9. Unprotected'
  BY <1>1, <1>4, <1>5 DEF Unprotected
<1>10. Erasing'
  <2>1. ASSUME NEW i \in Image, flash_op.opcode = "erase",
               flash_op.length = 0 \/ Backup + i - 1 < flash_op.offset
        PROVE  flash'[Backup + i - 1] = Erased
    BY <1>7, <2>1, Cells DEF Progress, Erasing
  <2>. QED BY <1>1, <2>1 DEF Progress, Erasing
<1>11. Writing'
  BY <1>1, <1>4, <1>6 DEF Progress, Writing, peer
<1>12. CopyingOn'
  <2> SUFFICES ASSUME flash_op.opcode = "copy" PROVE CopyingOn'
    BY <1>1 DEF CopyingOn
  <2>1. Place = flash_op.dest - Run /\ Isr.offset = flash_op.dest /\ SectorOf(flash_op.dest) = flash_op.dest
    BY <1>3, <1>6 DEF Place, Progress, CopyingOn, AtSector
  <2>2. \A i \in Image : i <= Place => ~Pending(Run + i - 1)
    <3> SUFFICES ASSUME NEW i \in Image, i <= Place PROVE ~Pending(Run + i - 1)
      OBVIOUS
    <3>1. Run + i - 1 \in Nat /\ Run + i - 1 < flash_op.dest /\ flash_op.dest \in Nat
      <4>1. flash_op.dest \in Nat /\ i \in Nat /\ i >= 1 /\ i <= flash_op.dest - Run
        BY <1>2, <2>1, Records, Cells
      <4>. QED BY <4>1, Constants
    <3>2. SectorOf(Run + i - 1) <= Run + i - 1 /\ SectorOf(Run + i - 1) \in Nat
      BY <3>1, SectorBounds
    <3>. QED BY <2>1, <3>1, <3>2 DEF Pending
  <2>3. Holds(Run, Place)'
    BY <1>7, <1>8, <2>2, Cells DEF Progress, CopyingOn, Holds
  <2>4. \A i \in Image : i > Place /\ Run + i - 1 < Open => flash'[Run + i - 1] = Erased
    BY <1>7, Cells DEF Progress, CopyingOn
  <2>. QED BY <1>1, <1>6, <1>8, <2>3, <2>4 DEF Progress, CopyingOn
<1>13. Acknowledged'
  BY <1>1, <1>4 DEF Acknowledged, ipc, NoAnswer
<1>. QED BY <1>9, <1>10, <1>11, <1>12, <1>13 DEF Progress

(* A page of the new image, written behind the cells that are there. *)
LEMMA PageWritten ==
  ASSUME IInv, Progress, qspi_flash_write_sub("isr"), NEW x \in {Run, Backup}, NEW n \in Nat,
         NEW k, k = SubLength(Isr.offset, Len(Isr.data)),
         Isr.offset = x + n, Numbered(Isr.data, Isr.offset, x), Holds(x, n),
         \A i \in Image : i > n /\ i <= n + k => flash[x + i - 1] = Erased
  PROVE  /\ Holds(x, n + k)'
         /\ \A i \in Image : i > n + k => flash'[x + i - 1] = flash[x + i - 1]
<1> DEFINE o == Isr.offset
           data == Isr.data
           sub == SubSeq(data, 1, k)
<1>1. o \in Nat /\ data \in Seq(Content) /\ Len(data) \in Nat /\ x \in Nat
  BY IsrTypes, Constants DEF IInv
<1>2. k \in 0 .. Len(data) /\ k <= PageLeft(o) /\ k \in Nat
  <2>1. o % PageSize \in 0 .. PageSize - 1
    BY <1>1, Constants
  <2>2. PageLeft(o) \in Nat
    BY <2>1, Constants DEF PageLeft
  <2>3. k = IF Len(data) > PageLeft(o) THEN PageLeft(o) ELSE Len(data)
    BY DEF SubLength
  <2>. QED BY <1>1, <2>2, <2>3
<1>3. ~protected /\ ProgramPage(o, sub)
  BY DEF qspi_flash_write_sub, Progress, Unprotected, Isr
<1>4. Len(sub) = k /\ \A j \in 1 .. k : sub[j] = data[j]
  BY <1>1, <1>2
<1>5. \A a \in Addresses :
        flash'[a] = IF a \in Page(o, k) THEN Over(flash[a], sub[Element(a, o)]) ELSE flash[a]
  BY <1>3, <1>4 DEF ProgramPage
<1> HIDE DEF sub
<1>6. ASSUME NEW i \in Image
      PROVE  /\ i > n /\ i <= n + k => flash'[x + i - 1] = i
             /\ ~(i > n /\ i <= n + k) => flash'[x + i - 1] = flash[x + i - 1]
  <2> DEFINE a == x + i - 1
  <2>1. a \in Addresses /\ i \in Nat
    BY Cells
  <2>2. /\ a \in Page(o, k) <=> o <= a /\ a < o + k
        /\ o <= a /\ a < o + k => Element(a, o) = a - o + 1
    BY <1>1, <1>2, <2>1, PageIs
  <2>3. o <= a /\ a < o + k <=> i > n /\ i <= n + k
    BY <1>1, <1>2, <2>1
  <2>4. ASSUME i > n, i <= n + k PROVE flash'[a] = i
    <3>1. a - o + 1 = i - n /\ i - n \in 1 .. k /\ i - n \in 1 .. Len(data)
      BY <1>1, <1>2, <2>1, <2>4
    <3>2. sub[i - n] = o - x + (i - n)
      BY <1>4, <3>1 DEF Numbered
    <3>3. o - x + (i - n) = i
      BY <1>1, <2>1
    <3>4. flash'[a] = Over(flash[a], sub[i - n])
      BY <1>5, <2>1, <2>2, <2>3, <2>4, <3>1
    <3>5. flash[a] = Erased
      BY <2>4
    <3>. QED BY <3>2, <3>3, <3>4, <3>5 DEF Over
  <2>5. ~(i > n /\ i <= n + k) => flash'[a] = flash[a]
    BY <1>5, <2>1, <2>2, <2>3
  <2>. QED BY <2>4, <2>5
<1>7. \A i \in Image : i \in Nat
  BY Cells
<1>8. \A i \in Image : i > n + k => ~(i > n /\ i <= n + k)
  BY <1>2, <1>7
<1>9. \A i \in Image : i <= n + k => (i > n /\ i <= n + k) \/ i <= n
  BY <1>2, <1>7
<1>10. \A i \in Image : i <= n + k => flash'[x + i - 1] = i
  BY <1>6, <1>7, <1>9 DEF Holds
<1>. QED BY <1>6, <1>8, <1>10 DEF Holds

(* What SubSeq leaves when the first k elements of a sequence are dropped.  *)
LEMMA RestOfSequence ==
  ASSUME NEW S, NEW s \in Seq(S), NEW k \in 0 .. Len(s)
  PROVE  /\ Len(SubSeq(s, k + 1, Len(s))) = Len(s) - k
         /\ \A j \in 1 .. Len(s) - k : SubSeq(s, k + 1, Len(s))[j] = s[k + j]
<1> DEFINE n == Len(s)
<1>1. n \in Nat /\ k \in Nat /\ k <= n
  OBVIOUS
<1>2. Len(SubSeq(s, k + 1, n)) = n - k
  BY <1>1
<1>3. ASSUME NEW j \in 1 .. n - k
      PROVE  SubSeq(s, k + 1, n)[j] = s[k + j]
  BY <1>1, <1>3
<1>. QED BY <1>2, <1>3

(* How far a write has got after a page, whichever request it is of. *)
LEMMA WriteGoesOn ==
  ASSUME IInv, Progress, qspi_flash_write_sub("isr"),
         NEW x, x = Target, NEW end \in Nat,
         Numbered(Isr.data, Isr.offset, x), Isr.offset + Len(Isr.data) = end
  PROVE  LET k == SubLength(Isr.offset, Len(Isr.data)) IN
         /\ InWrite /\ k \in Nat /\ Isr.offset + k <= end
         /\ Isr'.fn = "write"
         /\ \/ /\ InWrite' /\ Isr'.offset = Isr.offset + k
               /\ Isr'.offset + Len(Isr'.data) = end
               /\ Numbered(Isr'.data, Isr'.offset, x)
            \/ ~InWrite' /\ Isr'.step = "protect" /\ Isr.offset + k = end
<1> DEFINE o == Isr.offset
           data == Isr.data
           k == SubLength(o, Len(data))
<1>1. o \in Nat /\ data \in Seq(Content) /\ Len(data) \in Nat /\ x \in Nat
      /\ call \in [Contexts -> Calling] /\ "isr" \in Contexts /\ Isr \in Calling
  BY IsrTypes, Constants DEF IInv
<1>2. k \in Nat /\ k <= Len(data) /\ k \in 0 .. Len(data)
  <2>1. k \in 0 .. Len(data)
    BY ONLY <1>1, SubLengthRange
  <2>. HIDE DEF k
  <2>. QED BY <1>1, <2>1
<1>3. InWrite /\ Isr.fn = "write" /\ Isr.step = "run"
  BY DEF qspi_flash_write_sub, InWrite, Isr
<1>4. CASE k < Len(data)
  <2> DEFINE rest == SubSeq(data, k + 1, Len(data))
  <2>1. call' = [call EXCEPT !["isr"].offset = @ + k,
                             !["isr"].data = SubSeq(@, k + 1, Len(@))]
    BY <1>4 DEF qspi_flash_write_sub, Isr
  <2>2. Isr'.fn = "write" /\ Isr'.step = "run" /\ Isr'.offset = o + k /\ Isr'.data = rest
    BY <1>1, <1>3, <2>1 DEF Isr, Calling
  <2>3. Len(rest) = Len(data) - k /\ \A j \in 1 .. Len(data) - k : rest[j] = data[k + j]
    BY <1>1, <1>2, RestOfSequence
  <2> HIDE DEF k, rest
  <2>4. ASSUME NEW j \in 1 .. Len(rest)
        PROVE  rest[j] = (o + k) - x + j
    <3>1. j \in 1 .. Len(data) - k /\ k + j \in 1 .. Len(data)
      BY <1>1, <1>2, <2>3
    <3>2. rest[j] = o - x + (k + j)
      BY <2>3, <3>1 DEF Numbered
    <3>. QED BY <1>1, <1>2, <3>1, <3>2
  <2>5. (o + k) + (Len(data) - k) = end /\ o + k <= end
    BY <1>1, <1>2
  <2>6. Numbered(Isr'.data, Isr'.offset, x)
    BY <2>2, <2>4 DEF Numbered
  <2>7. Isr'.offset + Len(Isr'.data) = end
    BY <2>2, <2>3, <2>5
  <2>. QED BY <1>2, <1>3, <2>2, <2>5, <2>6, <2>7 DEF InWrite, k
<1>5. CASE ~(k < Len(data))
  <2>1. call' = [call EXCEPT !["isr"].step = "protect"]
    BY <1>5 DEF qspi_flash_write_sub, Isr
  <2>2. Isr'.fn = "write" /\ Isr'.step = "protect"
    BY <1>1, <1>3, <2>1 DEF Isr, Calling
  <2> HIDE DEF k
  <2>3. k = Len(data)
    BY <1>1, <1>2, <1>5
  <2>. QED BY <1>1, <1>2, <1>3, <2>2, <2>3 DEF InWrite, k
<1>. QED BY <1>4, <1>5

LEMMA WriteProgress ==
  ASSUME IInv, Progress, qspi_flash_write_sub("isr")
  PROVE  Progress'
<1> DEFINE o == Isr.offset
<1>0. PICK n, k, end :
        n = o - Target /\ k = SubLength(o, Len(Isr.data)) /\ end = o + Len(Isr.data)
  OBVIOUS
<1>1. UNCHANGED <<protected, flash_op, request, ipc, client, peer>>
  BY DEF qspi_flash_write_sub
<1>2. Types
  BY DEF IInv
<1>3. Isr.fn = "write" /\ Isr.step = "run" /\ InWrite /\ \A a : ~Pending(a)
  BY DEF qspi_flash_write_sub, Isr, InWrite, Pending, InErase
<1>4. /\ flash_op.opcode \in {"write", "copy"} /\ answer = NoAnswer /\ deferred = NoAnswer
      /\ mcu = flash_op.opcode /\ request.opcode = flash_op.opcode /\ ~protected
  BY <1>3, IsrOperation DEF Progress, Unprotected
<1>5. /\ n \in Nat /\ o = Target + n /\ end \in Nat /\ Target \in {Run, Backup} /\ Target \in Nat
      /\ o \in Nat /\ Place = n
  <2>1. o >= Target
    BY <1>3 DEF IInv, Calls, Within, Isr
  <2>2. o \in Nat /\ Len(Isr.data) \in Nat /\ Target \in {Run, Backup} /\ Target \in Nat
    BY <1>2, IsrTypes, Constants
  <2>3. Place = o - Target
    BY <1>3 DEF Place
  <2>. QED BY <1>0, <2>1, <2>2, <2>3
<1>6. Numbered(Isr.data, Isr.offset, Target)
  BY <1>3, <1>4 DEF Progress, Writing, CopyingOn, Target
<1>7. /\ k \in Nat /\ o + k <= end /\ Isr'.fn = "write"
      /\ \/ /\ InWrite' /\ Isr'.offset = o + k
            /\ Isr'.offset + Len(Isr'.data) = end
            /\ Numbered(Isr'.data, Isr'.offset, Target)
         \/ ~InWrite' /\ Isr'.step = "protect" /\ o + k = end
  BY <1>0, <1>5, <1>6, WriteGoesOn
<1>8. Target' = Target /\ Open' = Open
  BY <1>1 DEF Target, Open
<1>9. \A a : ~Pending(a)'
  BY <1>7 DEF Pending, InErase
<1>10. Unprotected'
  BY <1>1, <1>4, <1>7 DEF Unprotected
<1>11. Erasing'
  BY <1>1, <1>4 DEF Erasing
<1>12. Acknowledged'
  BY <1>1, <1>4 DEF Acknowledged, ipc, NoAnswer
<1>13. CASE flash_op.opcode = "write"
  <2>1. /\ Target = Backup /\ flash_op.data = <<>> /\ o >= request.offset
        /\ end = request.offset + request.length /\ request.offset = Backup + written
        /\ request.length \in Nat /\ written \in Nat
    BY <1>2, <1>3, <1>4, <1>13, <1>0, Records, IsrTypes DEF Progress, Writing, Target
  <2>2. Holds(Backup, n) /\ Blank(Backup, n)
    BY <1>4, <1>5, <1>13 DEF Progress, Writing
  <2>3. /\ Holds(Backup, n + k)'
        /\ \A i \in Image : i > n + k => flash'[Backup + i - 1] = flash[Backup + i - 1]
    BY <1>0, <1>5, <1>6, <2>1, <2>2, PageWritten DEF Blank
  <2>4. \A i \in Image : i > n + k => i > n
    BY <1>5, <1>7, Cells
  <2>5. Blank(Backup, n + k)'
    BY <2>2, <2>3, <2>4 DEF Blank
  <2>6. Place' = n + k
    <3>1. CASE InWrite'
      <4>1. Place' = Isr'.offset - Target'
        BY <3>1 DEF Place
      <4>2. Isr'.offset = o + k
        BY <1>7, <3>1
      <4>3. (o + k) - Target = n + k
        BY <1>5, <1>7
      <4>. QED BY <1>8, <4>1, <4>2, <4>3
    <3>2. CASE ~InWrite'
      <4>1. Place' = written + request.length
        BY <1>1, <1>13, <2>1, <3>2 DEF Place, peer
      <4>2. o + k = Backup + written + request.length
        BY <1>7, <2>1, <3>2
      <4>. QED BY <1>5, <1>7, <2>1, <4>1, <4>2, Constants
    <3>. QED BY <3>1, <3>2
  <2>7. Holds(Backup, Place)' /\ Blank(Backup, Place)'
    BY <2>3, <2>5, <2>6 DEF Holds, Blank
  <2>8. InWrite' => /\ Isr'.offset >= request.offset
                    /\ Isr'.offset + Len(Isr'.data) = request.offset + request.length
                    /\ Numbered(Isr'.data, Isr'.offset, Backup)
    <3>1. o + k >= request.offset
      BY <1>5, <1>7, <2>1, Constants
    <3>. QED BY <1>7, <2>1, <3>1
  <2>9. Writing'
    BY <1>1, <2>1, <2>7, <2>8 DEF Progress, Writing, peer
  <2>10. CopyingOn'
    BY <1>1, <1>13 DEF CopyingOn
  <2>. QED BY <1>10, <1>11, <1>12, <2>9, <2>10 DEF Progress
<1>14. CASE flash_op.opcode = "copy"
  <2>1. Target = Run /\ flash_op.data = <<>> /\ end = flash_op.dest /\ flash_op.dest \in Nat
    BY <1>2, <1>3, <1>14, <1>0, Records DEF Progress, CopyingOn, Target
  <2>2. flash_op.dest <= Open /\ Open \in Nat
    <3>1. flash_op.dest < SectorOf(flash_op.dest) + SectorSize /\ SectorOf(flash_op.dest) \in Nat
      BY <2>1, SectorBounds
    <3>2. flash_op.dest <= SectorOf(flash_op.dest) + SectorSize
          /\ SectorOf(flash_op.dest) + SectorSize \in Nat
      BY <2>1, <3>1, Constants
    <3>. QED BY <2>1, <3>2 DEF Open
  <2>3. Holds(Run, n) /\ \A i \in Image : i > n /\ Run + i - 1 < Open => flash[Run + i - 1] = Erased
    BY <1>3, <1>5, <1>14 DEF Progress, CopyingOn
  <2>4. \A i \in Image : i <= n + k => Run + i - 1 < Open
    <3> SUFFICES ASSUME NEW i \in Image, i <= n + k PROVE Run + i - 1 < Open
      OBVIOUS
    <3>1. i \in Nat /\ o = Run + n /\ o + k <= flash_op.dest
      BY <1>5, <1>7, <2>1, Cells
    <3>. QED BY <1>5, <1>7, <2>1, <2>2, <3>1, Constants
  <2>5. /\ Holds(Run, n + k)'
        /\ \A i \in Image : i > n + k => flash'[Run + i - 1] = flash[Run + i - 1]
    BY <1>0, <1>5, <1>6, <2>1, <2>3, <2>4, PageWritten
  <2>6. \A i \in Image : i > n + k => i > n
    BY <1>5, <1>7, Cells
  <2>7. Place' = n + k
    <3>1. CASE InWrite'
      <4>1. Place' = Isr'.offset - Target'
        BY <3>1 DEF Place
      <4>2. Isr'.offset = o + k
        BY <1>7, <3>1
      <4>3. (o + k) - Target = n + k
        BY <1>5, <1>7
      <4>. QED BY <1>8, <4>1, <4>2, <4>3
    <3>2. CASE ~InWrite'
      <4>1. Place' = flash_op.dest - Run /\ flash_op.dest = o + k
        BY <1>1, <1>7, <1>14, <2>1, <3>2 DEF Place
      <4>. QED BY <1>5, <1>7, <2>1, <4>1
    <3>. QED BY <3>1, <3>2
  <2>8. Holds(Run, Place)'
    BY <2>5, <2>7 DEF Holds
  <2>9. \A i \in Image : i > Place' /\ Run + i - 1 < Open' => flash'[Run + i - 1] = Erased
    BY <1>8, <2>3, <2>5, <2>6, <2>7
  <2>10. InErase' = FALSE
    BY <1>7 DEF InErase
  <2>11. CopyingOn'
    BY <1>1, <1>7, <2>1, <2>8, <2>9, <2>10 DEF Progress, CopyingOn
  <2>12. Writing'
    BY <1>1, <1>4, <1>14 DEF Writing, peer
  <2>. QED BY <1>10, <1>11, <1>12, <2>11, <2>12 DEF Progress
<1>. QED BY <1>4, <1>13, <1>14

LEMMA DriverProgress ==
  ASSUME IInv, Progress, NEW ctx \in Contexts, Driver(ctx)
  PROVE  Progress'
<1>1. CASE ctx = "isr"
  BY <1>1, ProtectSteps, EraseProgress, WriteProgress DEF Driver
<1>2. CASE ctx = "main"
  <2>1. UNCHANGED <<flash_op, request, ipc, client, peer>>
    BY DEF Driver, flash_protect_disable, flash_protect_enable, flash_erase, qspi_flash_write_sub
  <2>2. ~InIsr
    BY <1>2 DEF Driver, flash_protect_disable, flash_protect_enable, flash_erase,
                qspi_flash_write_sub, Running
  <2>3. Isr = NoCall
    BY <2>2, Facts DEF IInv, Calls, Contexts, Isr
  <2>4. Isr' = Isr
    BY <1>2 DEF Driver, flash_protect_disable, flash_protect_enable, flash_erase,
                qspi_flash_write_sub, IInv, Types, Contexts, Isr
  <2>5. Steady(Run) /\ Steady(Backup)
    <3>1. CASE flash_erase(ctx) \/ qspi_flash_write_sub(ctx)
      BY <1>2, <3>1, DriverFlash
    <3>2. CASE flash_protect_disable(ctx) \/ flash_protect_enable(ctx)
      BY <3>2 DEF flash_protect_disable, flash_protect_enable, Steady
    <3>. QED BY <3>1, <3>2 DEF Driver
  <2>6. Isr.step # "run"
    BY <2>3 DEF NoCall
  <2>. QED BY <2>1, <2>4, <2>5, <2>6, SteadyStep DEF ipc, peer
<1>. QED BY <1>1, <1>2 DEF Contexts

-----------------------------------------------------------------------------
(* The other steps of the interrupt's handler. *)
LEMMA ReceiveProgress ==
  ASSUME IInv, Progress, Receive
  PROVE  Progress'
<1>1. UNCHANGED <<flash, protected, call, request, ipc, client, peer>> /\ flash_op = NoOp
  BY DEF Receive, InIsr
<1>2. Types /\ flash_op.opcode = "none"
  BY <1>1, Records DEF IInv
<1>3. Isr = NoCall /\ Isr' = NoCall
  BY <1>1, <1>2 DEF IInv, Calls, Isr
<1>4. /\ ~InWrite /\ ~InErase /\ \A a : ~Pending(a)
      /\ ~InWrite' /\ ~InErase' /\ \A a : ~Pending(a)'
      /\ Isr'.step # "run" /\ Isr'.fn = "none"
  BY <1>3 DEF InWrite, InErase, Pending, NoCall
<1>5. Unprotected'
  BY <1>4 DEF Unprotected
<1>6. CASE request.opcode = "erase"
  <2>1. flash_op' = [request EXCEPT !.offset = SectorOf(@)]
    BY <1>6 DEF Receive
  <2>2. request.offset = Backup /\ request.length = ImageLength
    BY <1>6 DEF IInv, Requests
  <2>3. flash_op'.opcode = "erase" /\ flash_op'.length = ImageLength /\ flash_op'.offset = Backup
    BY <1>2, <1>6, <2>1, <2>2, Records, Constants DEF Asking
  <2>4. \A i \in Image : ~(Backup + i - 1 < Backup)
    BY Constants, Cells
  <2>5. ImageLength # 0
    BY Constants
  <2>6. Erasing'
    BY <2>3, <2>4, <2>5, Constants DEF Erasing
  <2>7. mcu # "write"
    BY <1>6 DEF IInv, OneAtATime
  <2>. QED BY <1>1, <1>5, <1>6, <2>3, <2>6, <2>7
       DEF Progress, Writing, CopyingOn, Acknowledged, Holds, Blank, peer, ipc
<1>7. CASE request.opcode # "erase"
  <2>1. flash_op' = request
    BY <1>7 DEF Receive
  <2>2. Erasing'
    BY <1>7, <2>1 DEF Erasing
  <2>3. CASE request.opcode = "copy"
    <3>1. /\ request.offset = Backup /\ request.dest = Run
          /\ request.length = ImageLength /\ request.data = <<>>
      BY <2>3 DEF IInv, Requests
    <3>2. Place' = 0
      BY <1>4, <2>1, <2>3, <3>1, Constants DEF Place
    <3>3. \A i \in Image : ~(i <= 0)
      BY Cells
    <3>4. Open' = Run
      BY <2>1, <3>1, Constants DEF Open, AtSector
    <3>5. \A i \in Image : ~(Run + i - 1 < Run)
      BY Constants, Cells
    <3>6. Run % PageSize = 0 /\ Backup - Backup = Run - Run
      BY Constants, SectorStartsPage
    <3>7. Numbered(<<>>, Run, Run)
      BY DEF Numbered
    <3>8. Holds(Run, Place)'
      BY <3>2, <3>3 DEF Holds
    <3>9. CopyingOn'
      BY <1>4, <2>1, <2>3, <3>1, <3>4, <3>5, <3>6, <3>7, <3>8 DEF CopyingOn
    <3>10. mcu # "write"
      BY <2>3 DEF IInv, OneAtATime
    <3>. QED BY <1>1, <1>5, <2>1, <2>2, <2>3, <3>9, <3>10
         DEF Progress, Writing, Acknowledged, Holds, Blank, peer, ipc
  <2>4. CASE request.opcode # "copy"
    <3>1. CopyingOn'
      BY <2>1, <2>4 DEF CopyingOn
    <3>2. request.opcode # "halt"
      BY <1>2, Records DEF IInv, OneAtATime, Types
    <3>3. Place' = Place
      <4>1. Place = written
        BY <1>2, <1>4 DEF Place
      <4>2. CASE request.opcode = "write" /\ request.data = <<>>
        <5>1. request.length = 0 /\ written \in Nat
          BY <1>2, <4>2, Records, IsrTypes DEF Progress, Writing
        <5>. QED BY <1>1, <1>4, <2>1, <4>1, <4>2, <5>1 DEF Place, peer
      <4>3. CASE ~(request.opcode = "write" /\ request.data = <<>>)
        BY <1>1, <1>4, <2>1, <2>4, <4>1, <4>3 DEF Place, peer
      <4>. QED BY <4>2, <4>3
    <3>4. Writing'
      BY <1>1, <1>4, <2>1, <3>3 DEF Progress, Writing, Holds, Blank, peer, ipc
    <3>5. Acknowledged'
      BY <1>1, <2>1, <3>2 DEF Progress, Acknowledged, Holds, Blank, peer, ipc
    <3>. QED BY <1>5, <2>2, <3>1, <3>4, <3>5 DEF Progress
  <2>. QED BY <2>3, <2>4
<1>. QED BY <1>6, <1>7

(* The driver is called. *)
LEMMA IsrIsCalled ==
  ASSUME Types, NEW c, call' = [call EXCEPT !["isr"] = c], c.step = "unprotect",
         c.fn \in {"erase", "write"}
  PROVE  /\ Isr' = c /\ Isr'.step # "run"
         /\ InWrite' <=> c.fn = "write"
         /\ InErase' <=> c.fn = "erase"
BY IsrTypes DEF Isr, InWrite, InErase

LEMMA EraseCallProgress ==
  ASSUME IInv, Progress, Erase, \A s \in EraseSizes : s <= SectorSize
  PROVE  Progress'
<1> DEFINE o == flash_op.offset
           l == flash_op.length
<1>1. UNCHANGED <<flash, protected, request, ipc, client, peer>> /\ Returned("isr")
  BY DEF Erase
<1>2. Types
  BY DEF IInv
<1>3. /\ flash_op.opcode = "erase" /\ l > 0 /\ mcu = "erase" /\ request.opcode = "erase"
      /\ answer = NoAnswer /\ deferred = NoAnswer
  BY Facts DEF Erase
<1>4. ~InWrite /\ ~InErase /\ \A a : ~Pending(a)
  BY <1>1, <1>2, IsrIdle
<1>5. Isr'.fn = "erase" /\ Isr'.offset = o /\ Isr'.step # "run" /\ InErase' /\ ~InWrite'
  <2>1. PICK size \in EraseSizes : qspi_flash_erase("isr", flash_op.offset, size)
    BY DEF Erase
  <2> DEFINE c == [fn |-> "erase", step |-> "unprotect", offset |-> o, size |-> size, data |-> <<>>]
  <2>2. call' = [call EXCEPT !["isr"] = c]
    BY <2>1 DEF qspi_flash_erase
  <2>3. c.fn = "erase" /\ c.step = "unprotect" /\ c.offset = o
    OBVIOUS
  <2> HIDE DEF c
  <2>. QED BY <1>2, <2>2, <2>3, IsrIsCalled
<1>6. /\ flash_op'.opcode = "erase" /\ flash_op'.length = LeftToErase(l)
      /\ flash_op'.offset = IF l > SectorSize THEN o + SectorSize ELSE o
  BY <1>2, <1>3, Records DEF Erase, Asking
<1>7. /\ o + l = Backup + ImageLength /\ SectorOf(o) = o /\ o \in Nat /\ l \in Nat
      /\ \A i \in Image : Backup + i - 1 < o => flash[Backup + i - 1] = Erased
  BY <1>2, <1>3, <1>4, Records DEF Progress, Erasing
<1>8. \A a \in Nat : o <= a /\ a < o + SectorSize => Pending(a)'
  <2>1. \A a \in Nat : o <= a /\ a < o + SectorSize => a \in o .. o + SectorSize - 1
    BY <1>7, Constants
  <2>2. \A a \in Nat : o <= a /\ a < o + SectorSize => SectorOf(a) = o
    BY <1>7, <2>1, SectorBounds
  <2>. QED BY <1>5, <1>7, <2>2 DEF Pending
<1>9. \A i \in Image : Backup + i - 1 \in Nat /\ Backup + i - 1 < o + l
  BY <1>7, Constants, Cells
<1>10. Erasing'
  <2>1. CASE l > SectorSize
    <3>1. flash_op'.length = l - SectorSize /\ flash_op'.offset = o + SectorSize
      BY <1>6, <2>1 DEF LeftToErase
    <3>2. (o + SectorSize) + (l - SectorSize) = Backup + ImageLength /\ l - SectorSize # 0
      BY <1>7, <2>1, Constants
    <3>3. SectorOf(o + SectorSize) = o + SectorSize
      BY <1>7, NextSector
    <3>4. ASSUME NEW i \in Image, Backup + i - 1 < o + SectorSize, ~Pending(Backup + i - 1)'
          PROVE  flash[Backup + i - 1] = Erased
      <4>1. Backup + i - 1 \in Nat /\ ~(o <= Backup + i - 1)
        BY <1>8, <1>9, <3>4
      <4>2. Backup + i - 1 < o
        BY <1>7, <4>1
      <4>. QED BY <1>7, <4>2
    <3>5. flash' = flash
      BY <1>1
    <3>. QED BY <1>6, <3>1, <3>2, <3>3, <3>4, <3>5 DEF Erasing
  <2>2. CASE ~(l > SectorSize)
    <3>1. flash_op'.length = 0
      BY <1>6, <2>2 DEF LeftToErase
    <3>2. ASSUME NEW i \in Image, ~Pending(Backup + i - 1)'
          PROVE  flash[Backup + i - 1] = Erased
      <4>1. Backup + i - 1 \in Nat /\ Backup + i - 1 < o + SectorSize
        BY <1>7, <1>9, <2>2, Constants
      <4>2. ~(o <= Backup + i - 1)
        BY <1>8, <3>2, <4>1
      <4>3. Backup + i - 1 < o
        BY <1>7, <4>1, <4>2
      <4>. QED BY <1>7, <4>3
    <3>3. flash' = flash /\ ~(0 > 0)
      BY <1>1
    <3>. QED BY <1>6, <3>1, <3>2, <3>3 DEF Erasing
  <2>. QED BY <2>1, <2>2
<1>11. Unprotected'
  BY <1>5, <1>6 DEF Unprotected
<1>12. Writing' /\ CopyingOn'
  BY <1>1, <1>3, <1>6 DEF Writing, CopyingOn, peer
<1>13. Acknowledged'
  BY <1>1, <1>3, <1>6 DEF Acknowledged, ipc, NoAnswer
<1>. QED BY <1>10, <1>11, <1>12, <1>13 DEF Progress

LEMMA WriteCallProgress ==
  ASSUME IInv, Progress, Write
  PROVE  Progress'
<1>1. UNCHANGED <<flash, protected, request, ipc, client, peer>> /\ Returned("isr")
  BY DEF Write
<1>2. Types
  BY DEF IInv
<1>3. /\ flash_op.opcode = "write" /\ flash_op.data # <<>> /\ mcu = "write" /\ request.opcode = "write"
      /\ answer = NoAnswer /\ deferred = NoAnswer
  BY Facts DEF Write
<1>4. ~InWrite /\ ~InErase /\ \A a : ~Pending(a)
  BY <1>1, <1>2, IsrIdle
<1>5. /\ flash_op.offset = request.offset /\ flash_op.data = request.data
      /\ request.offset = Backup + written /\ request.length = Len(request.data)
      /\ Numbered(request.data, request.offset, Backup)
      /\ Holds(Backup, Place) /\ Blank(Backup, Place) /\ Place = written
  BY <1>3, <1>4 DEF Progress, Writing, Place
<1>6. /\ Isr'.fn = "write" /\ Isr'.offset = request.offset /\ Isr'.data = request.data
      /\ Isr'.step # "run" /\ InWrite' /\ ~InErase'
  <2> DEFINE c == [fn |-> "write", step |-> "unprotect", offset |-> flash_op.offset,
                   size |-> 0, data |-> flash_op.data]
  <2>1. call' = [call EXCEPT !["isr"] = c]
    BY DEF Write, qspi_flash_write
  <2>2. c.fn = "write" /\ c.step = "unprotect" /\ c.offset = flash_op.offset /\ c.data = flash_op.data
    OBVIOUS
  <2> HIDE DEF c
  <2>. QED BY <1>2, <1>5, <2>1, <2>2, IsrIsCalled
<1>7. /\ flash_op'.opcode = "write" /\ flash_op'.data = <<>> /\ flash_op'.offset = flash_op.offset
  BY <1>2, <1>3, Records DEF Write, Asking
<1>8. Place' = written
  <2>1. Place' = Isr'.offset - Target' /\ Target' = Backup
    BY <1>6, <1>7 DEF Place, Target
  <2>2. (Backup + written) - Backup = written
    BY <1>2, IsrTypes, Constants
  <2>. QED BY <1>5, <1>6, <2>1, <2>2
<1>9. Holds(Backup, Place)' /\ Blank(Backup, Place)'
  BY <1>1, <1>5, <1>8 DEF Holds, Blank
<1>10. request.offset >= request.offset
  BY <1>2, Records
<1>11. Writing'
  BY <1>1, <1>5, <1>6, <1>7, <1>9, <1>10 DEF Progress, Writing, peer
<1>12. Unprotected'
  BY <1>6, <1>7 DEF Unprotected
<1>13. Erasing' /\ CopyingOn'
  BY <1>7 DEF Erasing, CopyingOn
<1>14. Acknowledged'
  BY <1>1, <1>3, <1>7 DEF Acknowledged, ipc, NoAnswer
<1>. QED BY <1>11, <1>12, <1>13, <1>14 DEF Progress

LEMMA AckProgress ==
  ASSUME IInv, Progress, EraseOrWriteAck
  PROVE  Progress'
<1> DEFINE ack == [opcode |-> request.opcode, ok |-> TRUE, length |-> request.length]
<1>1. /\ UNCHANGED <<flash, protected, call, client, peer>> /\ Returned("isr")
      /\ flash_op' = NoOp /\ request' = NoOp /\ Answer(ack)
  BY DEF EraseOrWriteAck
<1>2. Types
  BY DEF IInv
<1>3. /\ flash_op.opcode \in {"erase", "write"} /\ request.opcode = flash_op.opcode
      /\ mcu = flash_op.opcode /\ answer = NoAnswer /\ deferred = NoAnswer
  BY Facts DEF EraseOrWriteAck
<1>4. Isr = NoCall /\ Isr' = NoCall /\ ~InWrite /\ ~InErase /\ (\A a : ~Pending(a)) /\ ~InWrite'
  BY <1>1, <1>2, IsrIdle DEF Returned, Isr, InWrite, NoCall
<1>5. ack.opcode = flash_op.opcode /\ ack.length = request.length
  BY <1>3
<1> HIDE DEF ack
<1>6. /\ answer' \in {NoAnswer, ack} /\ deferred' \in {NoAnswer, ack}
      /\ answer' = ack \/ deferred' = ack
  BY <1>1, <1>3 DEF Answer
<1>7. NoAnswer.opcode = "none" /\ ack # NoAnswer
  BY <1>3, <1>5 DEF NoAnswer
<1>8. flash_op.opcode = "erase" => Blank(Backup, 0)
  BY <1>3, <1>4 DEF Progress, Erasing, Blank, EraseOrWriteAck
<1>9. flash_op.opcode = "write" => /\ Holds(Backup, written + request.length)
                                   /\ Blank(Backup, written + request.length)
  <2> SUFFICES ASSUME flash_op.opcode = "write"
               PROVE  Holds(Backup, Place) /\ Blank(Backup, Place) /\ Place = written + request.length
    OBVIOUS
  <2>1. flash_op.data = <<>>
    BY DEF EraseOrWriteAck
  <2>. QED BY <1>3, <1>4, <2>1 DEF Progress, Writing, Place
<1>10. NoOp.opcode = "none"
  BY DEF NoOp
<1>11. Unprotected'
  BY <1>4 DEF Unprotected, NoCall
<1>12. Erasing' /\ CopyingOn'
  BY <1>1, <1>10 DEF Erasing, CopyingOn
<1>13. Writing'
  BY <1>1, <1>6, <1>7, <1>10 DEF Writing
<1>14. Acknowledged'
  BY <1>1, <1>3, <1>5, <1>6, <1>7, <1>8, <1>9, <1>10 DEF Acknowledged, Holds, Blank, peer
<1>. QED BY <1>11, <1>12, <1>13, <1>14 DEF Progress

LEMMA CheckProgress ==
  ASSUME IInv, Progress, CheckCrc
  PROVE  Progress'
<1> DEFINE ack == [opcode |-> "check", ok |-> CrcMatches(flash_op.offset), length |-> request.length]
<1>1. /\ UNCHANGED <<flash, protected, call, client, peer>>
      /\ flash_op' = NoOp /\ request' = NoOp /\ Answer(ack)
  BY DEF CheckCrc
<1>2. /\ flash_op.opcode = "check" /\ mcu = "check" /\ answer = NoAnswer /\ deferred = NoAnswer
  BY Facts DEF CheckCrc
<1>3. Isr = NoCall /\ Isr' = NoCall
  BY <1>1, <1>2 DEF IInv, Calls, Isr
<1>4. ack.opcode = "check"
  OBVIOUS
<1> HIDE DEF ack
<1>5. answer' \in {NoAnswer, ack} /\ deferred' \in {NoAnswer, ack}
  BY <1>1, <1>2 DEF Answer
<1>6. NoAnswer.opcode = "none" /\ NoOp.opcode = "none"
  BY DEF NoAnswer, NoOp
<1>7. Unprotected'
  BY <1>3 DEF Unprotected, NoCall
<1>8. Erasing' /\ CopyingOn'
  BY <1>1, <1>6 DEF Erasing, CopyingOn
<1>9. Writing'
  BY <1>1, <1>2, <1>6 DEF Writing, peer
<1>10. Acknowledged'
  BY <1>1, <1>4, <1>5, <1>6 DEF Acknowledged
<1>. QED BY <1>7, <1>8, <1>9, <1>10 DEF Progress

LEMMA CopyReadProgress ==
  ASSUME IInv, Progress, CopyRead
  PROVE  Progress'
<1> DEFINE n == CopyLength(flash_op.length)
           data == [j \in 1 .. n |-> flash[flash_op.offset + j - 1]]
           d == flash_op.dest
<1>1. /\ UNCHANGED <<flash, protected, request, ipc, client, peer>> /\ Returned("isr")
      /\ flash_op' = [flash_op EXCEPT !.data = data]
      /\ flash_op.length > 0 /\ flash_op.data = <<>>
  BY DEF CopyRead, Copying
<1>2. Types
  BY DEF IInv
<1>3. /\ flash_op.opcode = "copy" /\ mcu = "copy" /\ request.opcode = "copy"
      /\ answer = NoAnswer /\ deferred = NoAnswer /\ NewImage(Backup)
  BY Facts DEF CopyRead, Copying, IInv, Images
<1>4. ~InWrite /\ ~InErase /\ \A a : ~Pending(a)
  BY <1>1, <1>2, IsrIdle
<1>5. /\ flash_op.offset - Backup = d - Run /\ flash_op.offset + flash_op.length = Backup + ImageLength
      /\ d % PageSize = 0 /\ Holds(Run, Place) /\ Place = d - Run
      /\ \A i \in Image : i > Place /\ Run + i - 1 < Open => flash[Run + i - 1] = Erased
      /\ Backup <= flash_op.offset
  BY <1>1, <1>3, <1>4 DEF Progress, CopyingOn, Place, IInv, Requests, Within
<1>6. n \in Nat /\ n >= 1 /\ n <= flash_op.length
  <2>1. flash_op.length \in Nat /\ PageSize \in Nat \ {0}
    BY <1>2, Records, Constants
  <2>. QED BY <1>1, <2>1 DEF CopyLength
<1>7. data \in Seq(Content) /\ Len(data) = n
  <2> HIDE DEF n
  <2> DEFINE o == flash_op.offset
             l == flash_op.length
  <2>1. o \in Nat /\ l \in Nat /\ o + l <= FlashSize
    BY <1>2, <1>5, Records, Constants
  <2> HIDE DEF o, l
  <2>2. n <= l
    BY <1>6 DEF l
  <2>3. \A j \in 1 .. n : o + j - 1 \in Addresses
    BY <1>6, <2>1, <2>2, Constants DEF Addresses
  <2>4. \A j \in 1 .. n : flash[flash_op.offset + j - 1] \in Content
    BY <1>2, <2>3 DEF o, Types
  <2>5. data \in [1 .. n -> Content]
    BY <2>4
  <2> HIDE DEF data
  <2>. QED BY <1>6, <2>5
<1>8. Numbered(data, d, Run)
  <2> SUFFICES ASSUME NEW j \in 1 .. n PROVE data[j] = d - Run + j
    BY <1>7 DEF Numbered
  <2> HIDE DEF n
  <2> DEFINE i == flash_op.offset - Backup + j
  <2>1. /\ flash_op.offset \in Nat /\ flash_op.length \in Nat /\ j \in Nat /\ j <= flash_op.length
        /\ Backup \in Nat /\ ImageLength \in Nat
    BY <1>2, <1>6, Records, Constants
  <2>2. i \in Image /\ Backup + i - 1 = flash_op.offset + j - 1
    BY <1>5, <1>6, <2>1 DEF Image
  <2>3. flash[Backup + i - 1] = i
    BY <1>3, <2>2 DEF NewImage
  <2>. QED BY <1>5, <2>2, <2>3
<1> HIDE DEF n, data
<1>9. /\ flash_op'.opcode = "copy" /\ flash_op'.offset = flash_op.offset
      /\ flash_op'.length = flash_op.length /\ flash_op'.dest = d /\ flash_op'.data = data
      /\ data # <<>>
  <2>1. data # <<>>
    BY <1>6, <1>7
  <2>. QED BY <1>1, <1>2, <1>3, <1>7, <2>1, Records DEF Asking
<1>10. ~InWrite' /\ Isr'.step # "run" /\ Isr'.fn \in {"none", "erase"}
       /\ \/ AtSector(d) /\ InErase' /\ Isr'.offset = d
          \/ ~AtSector(d) /\ ~InErase' /\ \A a : ~Pending(a)'
  <2>1. CASE AtSector(d) /\ \E size \in EraseSizes : qspi_flash_erase("isr", d, size)
    <3>1. PICK size \in EraseSizes : qspi_flash_erase("isr", d, size)
      BY <2>1
    <3> DEFINE c == [fn |-> "erase", step |-> "unprotect", offset |-> d, size |-> size, data |-> <<>>]
    <3>2. call' = [call EXCEPT !["isr"] = c]
      BY <3>1 DEF qspi_flash_erase
    <3>3. c.fn = "erase" /\ c.step = "unprotect" /\ c.offset = d
      OBVIOUS
    <3> HIDE DEF c
    <3>. QED BY <1>2, <2>1, <3>2, <3>3, IsrIsCalled
  <2>2. CASE ~AtSector(d) /\ UNCHANGED call
    BY <1>1, <2>2 DEF Returned, Isr, NoCall, InWrite, InErase, Pending
  <2>. QED BY <2>1, <2>2 DEF CopyRead
<1>11. Place' = Place
  BY <1>5, <1>9, <1>10 DEF Place
<1>12. Open' = SectorOf(d) + SectorSize
  BY <1>9 DEF Open
<1>13. ASSUME NEW i \in Image, i > Place, Run + i - 1 < Open', ~Pending(Run + i - 1)'
       PROVE  flash'[Run + i - 1] = Erased
  <2>1. CASE AtSector(d)
    <3>1. d \in Nat /\ i \in Nat /\ i > d - Run /\ Run + i - 1 < d + SectorSize
      BY <1>2, <1>5, <1>12, <1>13, <2>1, Records, Cells DEF AtSector
    <3>2. Run + i - 1 \in d .. d + SectorSize - 1
      BY <3>1, Constants
    <3>3. SectorOf(Run + i - 1) = SectorOf(d)
      BY <2>1, <3>1, <3>2, SectorBounds DEF AtSector
    <3>4. Pending(Run + i - 1)'
      BY <1>10, <2>1, <3>3 DEF Pending
    <3>. QED BY <1>13, <3>4
  <2>2. CASE ~AtSector(d)
    <3>1. Open = Open'
      BY <1>12, <2>2 DEF Open
    <3>. QED BY <1>1, <1>5, <1>13, <3>1
  <2>. QED BY <2>1, <2>2
<1>14. CopyingOn'
  <2>1. Holds(Run, Place)'
    BY <1>1, <1>5, <1>11 DEF Holds
  <2>2. Len(data) = CopyLength(flash_op.length)
    BY <1>7 DEF n
  <2>. QED BY <1>5, <1>8, <1>9, <1>10, <1>11, <1>13, <2>1, <2>2 DEF CopyingOn
<1>15. Unprotected'
  BY <1>9, <1>10 DEF Unprotected
<1>16. Erasing' /\ Writing'
  BY <1>1, <1>3, <1>9 DEF Erasing, Writing, peer
<1>17. Acknowledged'
  BY <1>1, <1>3, <1>9 DEF Acknowledged, ipc, NoAnswer
<1>. QED BY <1>14, <1>15, <1>16, <1>17 DEF Progress

LEMMA CopyWriteProgress ==
  ASSUME IInv, Progress, CopyWrite
  PROVE  Progress'
<1> DEFINE d == flash_op.dest
<1>0. PICK n : n = Len(flash_op.data)
  OBVIOUS
<1>1. /\ UNCHANGED <<flash, protected, request, ipc, client, peer>> /\ Returned("isr")
      /\ flash_op' = [flash_op EXCEPT !.offset = flash_op.offset + n, !.dest = d + n,
                                      !.length = flash_op.length - n, !.data = <<>>]
      /\ flash_op.data # <<>>
  BY <1>0 DEF CopyWrite, Copying
<1>2. Types
  BY DEF IInv
<1>3. /\ flash_op.opcode = "copy" /\ mcu = "copy" /\ request.opcode = "copy"
      /\ answer = NoAnswer /\ deferred = NoAnswer
  BY Facts DEF CopyWrite, Copying
<1>4. ~InWrite /\ ~InErase /\ \A a : ~Pending(a)
  BY <1>1, <1>2, IsrIdle
<1>5. /\ flash_op.offset - Backup = d - Run /\ flash_op.offset + flash_op.length = Backup + ImageLength
      /\ Holds(Run, Place) /\ Place = d - Run /\ Numbered(flash_op.data, d, Run)
      /\ \A i \in Image : i > Place /\ Run + i - 1 < Open => flash[Run + i - 1] = Erased
      /\ n = CopyLength(flash_op.length) /\ Open = SectorOf(d) + SectorSize
      /\ n <= flash_op.length /\ (flash_op.length > 0 => d % PageSize = 0)
  BY <1>0, <1>1, <1>3, <1>4 DEF Progress, CopyingOn, Place, Open, IInv, Requests
<1>6. /\ n \in Nat /\ n >= 1 /\ d \in Nat /\ flash_op.offset \in Nat /\ flash_op.length \in Nat
      /\ d % PageSize = 0 /\ n <= PageSize /\ (flash_op.length - n > 0 => n = PageSize)
  <2>1. n \in Nat /\ n >= 1 /\ d \in Nat /\ flash_op.offset \in Nat /\ flash_op.length \in Nat
    BY <1>0, <1>1, <1>2, Records
  <2>2. n <= PageSize /\ (flash_op.length - n > 0 => n = PageSize) /\ flash_op.length > 0
    BY <1>5, <2>1, Constants DEF CopyLength
  <2>. QED BY <1>5, <2>1, <2>2
<1>7. /\ flash_op'.opcode = "copy" /\ flash_op'.offset = flash_op.offset + n
      /\ flash_op'.length = flash_op.length - n /\ flash_op'.dest = d + n /\ flash_op'.data = <<>>
  BY <1>1, <1>2, <1>3, Records DEF Asking
<1>8. /\ Isr'.fn = "write" /\ Isr'.offset = d /\ Isr'.data = flash_op.data
      /\ Isr'.step # "run" /\ InWrite' /\ ~InErase'
  <2> DEFINE c == [fn |-> "write", step |-> "unprotect", offset |-> d, size |-> 0,
                   data |-> flash_op.data]
  <2>1. call' = [call EXCEPT !["isr"] = c]
    BY DEF CopyWrite, qspi_flash_write
  <2>2. c.fn = "write" /\ c.step = "unprotect" /\ c.offset = d /\ c.data = flash_op.data
    OBVIOUS
  <2> HIDE DEF c
  <2>. QED BY <1>2, <2>1, <2>2, IsrIsCalled
<1>9. Place' = Place
  BY <1>5, <1>7, <1>8 DEF Place, Target
<1>10. \A a \in Nat : a < Open' => a < Open
  <2>1. d + n <= Open
    <3>1. d + PageSize <= SectorOf(d) + SectorSize /\ SectorOf(d) \in Nat
      BY <1>6, PageEnds, SectorBounds
    <3>. QED BY <1>5, <1>6, <3>1, Constants
  <2>2. d + n \in Nat /\ SectorOf(d) \in Nat /\ SectorOf(d) <= d /\ Open \in Nat
    BY <1>5, <1>6, SectorBounds, Constants
  <2>3. CASE AtSector(d + n)
    <3>1. Open' = d + n
      BY <1>7, <2>3 DEF Open
    <3>. QED BY <2>1, <2>2, <3>1
  <2>4. CASE ~AtSector(d + n)
    <3>1. Open' = SectorOf(d + n) + SectorSize
      BY <1>7, <2>4 DEF Open
    <3>2. d + n # Open
      <4>1. SectorOf(SectorOf(d)) = SectorOf(d)
        BY <1>6, SectorBounds
      <4>2. SectorOf(SectorOf(d) + SectorSize) = SectorOf(d) + SectorSize
        BY <2>2, <4>1, NextSector
      <4>. QED BY <1>5, <2>4, <4>2 DEF AtSector
    <3>3. d + n \in SectorOf(d) .. SectorOf(d) + SectorSize - 1
      <4>1. \A a, b, e \in Nat : a <= d /\ d + n <= b /\ d + n # b /\ b = a + e =>
                                d + n \in a .. a + e - 1
        BY <1>6
      <4>. QED BY <1>5, <2>1, <2>2, <3>2, <4>1, Constants
    <3>4. SectorOf(d + n) = SectorOf(d)
      BY <1>6, <3>3, SectorBounds
    <3>. QED BY <1>5, <3>1, <3>4
  <2>. QED BY <2>3, <2>4
<1>11. CopyingOn'
  <2>1. Holds(Run, Place)'
    BY <1>1, <1>5, <1>9 DEF Holds
  <2>2. \A i \in Image : i > Place' /\ Run + i - 1 < Open' => flash'[Run + i - 1] = Erased
    <3>1. \A i \in Image : Run + i - 1 \in Nat
      BY Constants, Cells
    <3>. QED BY <1>1, <1>5, <1>9, <1>10, <3>1
  <2>3. /\ (flash_op.offset + n) - Backup = (d + n) - Run
        /\ (flash_op.offset + n) + (flash_op.length - n) = Backup + ImageLength
    <3>1. /\ (flash_op.offset + n) - Backup = (flash_op.offset - Backup) + n
          /\ (d + n) - Run = (d - Run) + n
          /\ (flash_op.offset + n) + (flash_op.length - n) = flash_op.offset + flash_op.length
      <4>1. \A a, b \in Nat : (a + n) - b = (a - b) + n /\ (a + n) + (b - n) = a + b
        BY <1>6
      <4>. QED BY <1>6, <4>1, Constants
    <3>. QED BY <1>5, <3>1
  <2>4. flash_op.length - n > 0 => (d + n) % PageSize = 0
    BY <1>6, PageEnds
  <2>5. Numbered(<<>>, d + n, Run)
    BY DEF Numbered
  <2>. QED BY <1>0, <1>5, <1>7, <1>8, <2>1, <2>2, <2>3, <2>4, <2>5 DEF CopyingOn
<1>12. Unprotected'
  BY <1>7, <1>8 DEF Unprotected
<1>13. Erasing' /\ Writing'
  BY <1>1, <1>3, <1>7 DEF Erasing, Writing, peer
<1>14. Acknowledged'
  BY <1>1, <1>3, <1>7 DEF Acknowledged, ipc, NoAnswer
<1>. QED BY <1>11, <1>12, <1>13, <1>14 DEF Progress

LEMMA CopyAckProgress ==
  ASSUME IInv, Progress, CopyAck
  PROVE  Progress'
<1> DEFINE ack == [opcode |-> "copy", ok |-> TRUE, length |-> request.length]
<1>1. /\ UNCHANGED <<flash, protected, call, request, client, peer>> /\ Returned("isr")
      /\ flash_op' = [flash_op EXCEPT !.opcode = "halt"] /\ Answer(ack)
      /\ flash_op.length = 0 /\ flash_op.data = <<>>
  BY DEF CopyAck, Copying
<1>2. Types
  BY DEF IInv
<1>3. /\ flash_op.opcode = "copy" /\ mcu = "copy" /\ request.opcode = "copy"
      /\ answer = NoAnswer /\ deferred = NoAnswer
  BY Facts DEF CopyAck, Copying
<1>4. Isr = NoCall /\ Isr' = NoCall /\ ~InWrite
  BY <1>1, <1>2, IsrIdle DEF Returned, Isr
<1>5. flash_op'.opcode = "halt"
  BY <1>1, <1>2, Records DEF Asking
<1>6. ack.opcode = "copy"
  OBVIOUS
<1> HIDE DEF ack
<1>7. answer' \in {NoAnswer, ack} /\ deferred' \in {NoAnswer, ack} /\ NoAnswer.opcode = "none"
  BY <1>1, <1>3 DEF Answer, NoAnswer
<1>8. NewImage(Run)
  <2>1. /\ flash_op.offset - Backup = flash_op.dest - Run
        /\ flash_op.offset + 0 = Backup + ImageLength
        /\ Holds(Run, Place) /\ Place = flash_op.dest - Run
    BY <1>1, <1>3, <1>4 DEF Progress, CopyingOn, Place
  <2>2. Place = ImageLength
    BY <1>2, <2>1, Records, Constants
  <2>. QED BY <2>1, <2>2, Cells DEF Holds, NewImage
<1>9. Unprotected'
  BY <1>4 DEF Unprotected, NoCall
<1>10. Erasing' /\ CopyingOn' /\ Writing'
  BY <1>1, <1>3, <1>5 DEF Erasing, CopyingOn, Writing, peer
<1>11. Acknowledged'
  BY <1>1, <1>6, <1>7, <1>8 DEF Acknowledged, NewImage
<1>. QED BY <1>9, <1>10, <1>11 DEF Progress

-----------------------------------------------------------------------------
(* The rest of the system. *)
LEMMA OthersProgress ==
  ASSUME IInv, Progress,
         \/ ClientErase \/ ClientWrite \/ ClientCheck \/ ClientEnd
         \/ Sent \/ SendOther
  PROVE  Progress'
<1>1. UNCHANGED <<flash, protected, flash_op, request, mcu, written>>
  BY DEF ClientErase, ClientWrite, ClientCheck, ClientEnd, Sent, SendOther, peer
<1>2. \/ UNCHANGED <<answer, deferred>>
      \/ answer' = deferred /\ deferred' = NoAnswer /\ deferred # NoAnswer
  BY DEF ClientErase, ClientWrite, ClientCheck, ClientEnd, Sent, SendOther, ipc
<1>3. Isr' = Isr
  BY DEF ClientErase, ClientWrite, ClientCheck, ClientEnd, Sent, SendOther, qspi_flash_erase,
         qspi_flash_write, IInv, Types, Contexts, Isr
<1>4. Steady(Run) /\ Steady(Backup)
  BY <1>1 DEF Steady
<1>5. Isr.step = "run" => protected' = FALSE
  BY <1>1 DEF Progress, Unprotected
<1>. QED BY <1>1, <1>2, <1>3, <1>4, <1>5, SteadyStep

LEMMA AskProgress ==
  ASSUME IInv, Progress,
         McuErase \/ (\E n \in 1 .. MaxFrame : McuWrite(n)) \/ McuCheck \/ McuCopy
  PROVE  Progress'
<1>1. /\ ~asked /\ mcu \in {"erase", "write", "check", "copy"}
      /\ UNCHANGED <<flash, protected, call, flash_op, ipc, client, mcu, written>>
  BY DEF McuErase, McuWrite, McuCheck, McuCopy, Ask
<1>2. Types
  BY DEF IInv
<1>3. request = NoOp /\ answer = NoAnswer /\ deferred = NoAnswer
  BY <1>1 DEF IInv, OneAtATime
<1>4. flash_op.opcode = "none"
  BY <1>2, <1>3, Records DEF IInv, OneAtATime
<1>5. Isr = NoCall /\ Isr' = NoCall /\ ~InWrite /\ ~InWrite'
  BY <1>1, <1>4 DEF IInv, Calls, Isr, NoCall, InWrite
<1>6. request'.opcode = "write" =>
        /\ request'.offset = Backup + written /\ request'.length = Len(request'.data)
        /\ Numbered(request'.data, request'.offset, Backup)
  <2>1. CASE McuErase \/ McuCheck \/ McuCopy
    BY <2>1 DEF McuErase, McuCheck, McuCopy, Ask, NoOp
  <2>2. ASSUME NEW n \in 1 .. MaxFrame, McuWrite(n)
        PROVE  /\ request'.offset = Backup + written /\ request'.length = Len(request'.data)
               /\ Numbered(request'.data, request'.offset, Backup)
    <3> DEFINE data == [j \in 1 .. n |-> written + j]
    <3>1. n \in Nat /\ written \in Nat
      BY <1>2, Constants, IsrTypes
    <3>2. Len(data) = n /\ \A j \in 1 .. n : data[j] = written + j
      BY <3>1
    <3>3. request' = [NoOp EXCEPT !.opcode = "write", !.offset = Backup + written, !.length = n,
                                  !.data = data]
      BY <2>2 DEF McuWrite, Ask
    <3> HIDE DEF data
    <3>4. /\ request'.offset = Backup + written /\ request'.length = n /\ request'.data = data
      BY <3>3 DEF NoOp
    <3>5. \A j \in 1 .. n : (Backup + written) - Backup + j = written + j
      BY <3>1, Constants
    <3>. QED BY <3>2, <3>4, <3>5 DEF Numbered
  <2>. QED BY <2>1, <2>2
<1>7. Place' = Place
  BY <1>1, <1>4, <1>5 DEF Place
<1>8. Writing'
  BY <1>1, <1>4, <1>6, <1>7 DEF Progress, Writing, Holds, Blank, ipc
<1>9. Unprotected'
  BY <1>5 DEF Unprotected, NoCall
<1>10. Erasing' /\ CopyingOn'
  BY <1>1, <1>4 DEF Erasing, CopyingOn
<1>11. Acknowledged'
  BY <1>1 DEF Progress, Acknowledged, Holds, Blank, NewImage, ipc
<1>. QED BY <1>8, <1>9, <1>10, <1>11 DEF Progress

LEMMA McuAnswerProgress ==
  ASSUME IInv, Progress, McuAnswer
  PROVE  Progress'
<1>1. /\ answer # NoAnswer /\ answer' = NoAnswer /\ deferred = NoAnswer
      /\ UNCHANGED <<flash, protected, call, flash_op, request, others, deferred, client>>
  BY DEF McuAnswer, IInv, OneAtATime
<1>2. Types
  BY DEF IInv
<1>3. answer.opcode = mcu /\ mcu \in {"erase", "write", "check", "copy"}
  BY <1>1 DEF McuAnswer, IInv, Answers
<1>4. \/ request = NoOp
      \/ mcu = "copy" /\ flash_op.opcode = "halt" /\ request.opcode = "copy"
  BY <1>1, <1>3 DEF IInv, OneAtATime
<1>5. request.opcode \in {"none", "copy"} /\ flash_op.opcode \in {"none", "halt", "copy"}
  BY <1>2, <1>4, Records DEF IInv, OneAtATime
<1>6. flash_op.opcode # "copy"
  BY <1>1, Facts
<1>7. Isr = NoCall /\ Isr' = NoCall /\ ~InWrite'
  BY <1>1, <1>5, <1>6 DEF IInv, Calls, Isr, InWrite, NoCall
<1>8. Place' = written'
  BY <1>1, <1>5, <1>6, <1>7 DEF Place
<1>9. /\ mcu = "erase" => mcu' = "write" /\ written' = 0
      /\ mcu = "write" => written' = written + answer.length
      /\ mcu = "check" => mcu' \in {"copy", "erase"}
      /\ mcu = "copy" => mcu' = "done"
  BY <1>3 DEF McuAnswer
<1>10. mcu' = "write" => Holds(Backup, written') /\ Blank(Backup, written')
  <2>1. mcu' = "write" => mcu \in {"erase", "write"}
    BY <1>3, <1>9
  <2>2. CASE mcu = "erase"
    <3>1. \A i \in Image : ~(i <= 0)
      BY Cells
    <3>. QED BY <1>1, <1>3, <1>9, <2>2, <3>1 DEF Progress, Acknowledged, Holds
  <2>3. CASE mcu = "write"
    BY <1>1, <1>3, <1>9, <2>3 DEF Progress, Acknowledged
  <2>. QED BY <2>1, <2>2, <2>3
<1>11. Writing'
  <2>1. mcu' = "write" => Holds(Backup, Place)' /\ Blank(Backup, Place)'
    BY <1>1, <1>8, <1>10 DEF Holds, Blank
  <2>. QED BY <1>1, <1>5, <1>6, <2>1 DEF Writing
<1>12. Unprotected'
  BY <1>7 DEF Unprotected, NoCall
<1>13. Erasing' /\ CopyingOn'
  BY <1>1, <1>5, <1>6 DEF Erasing, CopyingOn
<1>14. Acknowledged'
  BY <1>1 DEF Progress, Acknowledged, NewImage, NoAnswer
<1>. QED BY <1>11, <1>12, <1>13, <1>14 DEF Progress

(* Without an update there is nothing to claim. *)
LEMMA NothingInProgress ==
  ASSUME Isr = NoCall, flash_op = NoOp, request = NoOp, mcu # "write",
         answer = NoAnswer, deferred = NoAnswer
  PROVE  Progress
BY DEF Progress, Unprotected, Erasing, Writing, CopyingOn, Acknowledged, NoCall, NoOp, NoAnswer

LEMMA PowerProgress ==
  ASSUME IInv, Power
  PROVE  Progress'
<1>1. /\ Isr' = NoCall /\ flash_op' = NoOp /\ request' = NoOp /\ mcu' # "write"
      /\ answer' = NoAnswer /\ deferred' = NoAnswer
  <2>1. CASE PowerCut
    BY <2>1 DEF PowerCut, Isr, Contexts
  <2>2. CASE Boot \/ Reload
    <3>1. mcu = "off" /\ UNCHANGED <<call, flash_op, request, answer, deferred>> /\ mcu' # "write"
      BY <2>2 DEF Boot, Reload, ipc, peer
    <3>2. Isr = NoCall
      BY <3>1 DEF IInv, Calls, Isr, Contexts
    <3>. QED BY <3>1, <3>2, Facts DEF Isr
  <2>. QED BY <2>1, <2>2 DEF Power
<1>2. Isr'.step # "run" /\ Isr'.fn = "none" /\ InWrite' = FALSE
  BY <1>1 DEF NoCall, InWrite
<1>3. flash_op'.opcode = "none" /\ request'.opcode = "none"
  BY <1>1 DEF NoOp
<1>4. answer'.opcode = "none" /\ deferred'.opcode = "none"
  BY <1>1 DEF NoAnswer
<1>. QED BY <1>1, <1>2, <1>3, <1>4
     DEF Progress, Unprotected, Erasing, Writing, CopyingOn, Acknowledged

LEMMA ProgressInit == Init => Progress
<1> SUFFICES ASSUME Init PROVE Progress
  OBVIOUS
<1>1. Isr = NoCall /\ flash_op = NoOp /\ request = NoOp /\ mcu # "write"
      /\ answer = NoAnswer /\ deferred = NoAnswer
  BY DEF Init, Isr, Contexts
<1>. QED BY <1>1, NothingInProgress

LEMMA ProgressNext ==
  ASSUME IInv, Progress, [Next]_vars, \A s \in EraseSizes : s <= SectorSize
  PROVE  Progress'
<1>1. CASE Next
  <2>1. CASE Driver("isr") \/ Driver("main")
    BY <2>1, DriverProgress DEF Contexts
  <2>2. CASE Receive \/ Erase \/ Write \/ EraseOrWriteAck \/ CheckCrc
    BY <2>2, ReceiveProgress, EraseCallProgress, WriteCallProgress, AckProgress, CheckProgress
  <2>3. CASE CopyRead \/ CopyWrite \/ CopyAck
    BY <2>3, CopyReadProgress, CopyWriteProgress, CopyAckProgress
  <2>4. CASE ClientErase \/ ClientWrite \/ ClientCheck \/ ClientEnd \/ Sent \/ SendOther
    BY <2>4, OthersProgress
  <2>5. CASE McuAsks \/ McuAnswer
    BY <2>5, AskProgress, McuAnswerProgress DEF McuAsks
  <2>6. CASE Power
    BY <2>6, PowerProgress
  <2>. QED BY <1>1, <2>1, <2>2, <2>3, <2>4, <2>5, <2>6
       DEF Next, ota_recv_ipc_msg, test_flash_read_write
<1>2. CASE UNCHANGED vars
  <2>1. UNCHANGED <<flash, protected, call, flash_op, request, answer, deferred, mcu, written>>
    BY <1>2 DEF vars, ipc, peer
  <2>2. Isr' = Isr /\ Steady(Run) /\ Steady(Backup)
    BY <2>1 DEF Isr, Steady
  <2>3. Isr.step = "run" => protected' = FALSE
    BY <2>1 DEF Progress, Unprotected
  <2>. QED BY <2>1, <2>2, <2>3, SteadyStep
<1>. QED BY <1>1, <1>2

-----------------------------------------------------------------------------
(* The rest of the types. *)
Rest ==
  /\ protected \in BOOLEAN /\ others \in 0 .. IPC_CHANNELS
  /\ client \in {"idle", "erase", "write", "check"}
  /\ flash_op.length <= ImageLength /\ request.length <= ImageLength

LEMMA RestInit == Init => Rest
<1>1. 0 \in 0 .. IPC_CHANNELS /\ 0 <= ImageLength
  BY Constants
<1>2. NoOp.length = 0
  BY DEF NoOp
<1>. QED BY <1>1, <1>2 DEF Init, Rest

LEMMA RestNext ==
  ASSUME IInv, Rest, [Next]_vars
  PROVE  Rest'
<1>1. Types
  BY DEF IInv
<1>2. /\ flash_op.length \in Nat /\ request.length \in Nat /\ NoOp.length = 0
      /\ ImageLength \in Nat /\ SectorSize \in Nat /\ IPC_CHANNELS \in Nat
      /\ Len(flash_op.data) \in Nat
  BY <1>1, Records, Constants DEF NoOp
<1>3. CASE UNCHANGED <<flash_op, request>>
  <2>1. flash_op'.length <= ImageLength /\ request'.length <= ImageLength
    BY <1>3 DEF Rest
  <2>2. CASE \E ctx \in Contexts : Driver(ctx)
    BY <2>1, <2>2 DEF Driver, flash_protect_disable, flash_protect_enable, flash_erase,
                      qspi_flash_write_sub, Rest, ipc
  <2>3. CASE ClientErase \/ ClientWrite \/ ClientCheck \/ ClientEnd
    BY <2>1, <2>3 DEF ClientErase, ClientWrite, ClientCheck, ClientEnd, Rest, ipc
  <2>4. CASE Sent
    <3>1. others - 1 \in 0 .. IPC_CHANNELS
      BY <1>2, <2>4 DEF Sent, Rest
    <3>. QED BY <2>1, <2>4, <3>1 DEF Sent, Rest
  <2>5. CASE SendOther
    <3>1. others + 1 \in 0 .. IPC_CHANNELS
      BY <1>2, <2>5 DEF SendOther, Rest
    <3>. QED BY <2>1, <2>5, <3>1 DEF SendOther, Rest
  <2>6. CASE McuAnswer \/ Boot \/ Reload
    BY <2>1, <2>6 DEF McuAnswer, Boot, Reload, Rest, ipc
  <2>7. CASE UNCHANGED vars
    BY <2>1, <2>7 DEF vars, ipc, Rest
  <2>8. CASE Receive \/ Erase \/ Write \/ EraseOrWriteAck \/ CheckCrc \/ CopyRead \/ CopyWrite \/ CopyAck
    BY <2>1, <2>8 DEF Receive, Erase, Write, EraseOrWriteAck, CheckCrc, CopyRead, CopyWrite, CopyAck,
                      Answer, Rest, ipc
  <2>9. CASE McuAsks
    BY <2>1, <2>9 DEF McuAsks, McuErase, McuWrite, McuCheck, McuCopy, Ask, Rest, ipc
  <2>10. CASE PowerCut
    <3>1. 0 \in 0 .. IPC_CHANNELS
      BY <1>2
    <3>. QED BY <2>1, <2>10, <3>1 DEF PowerCut, Rest
  <2>. QED BY <2>2, <2>3, <2>4, <2>5, <2>6, <2>7, <2>8, <2>9, <2>10
       DEF Next, ota_recv_ipc_msg, test_flash_read_write, Power, Contexts
<1>4. CASE ~UNCHANGED <<flash_op, request>>
  <2>1. CASE Receive
    <3>1. flash_op'.length = request.length
      BY <1>1, <2>1, Records DEF Receive, Asking
    <3>. QED BY <2>1, <3>1 DEF Receive, Rest, ipc
  <2>2. CASE Erase
    <3>1. flash_op'.length = LeftToErase(flash_op.length)
      BY <1>1, <2>2, Records DEF Erase, Asking
    <3>2. LeftToErase(flash_op.length) <= ImageLength
      BY <1>2 DEF LeftToErase, Rest
    <3>. QED BY <2>2, <3>1, <3>2 DEF Erase, Rest, ipc
  <2>3. CASE Write \/ CopyRead \/ CopyAck
    <3>1. flash_op'.length = flash_op.length
      BY <1>1, <2>3, Records DEF Write, CopyRead, CopyAck, Asking
    <3>. QED BY <2>3, <3>1 DEF Write, CopyRead, CopyAck, Answer, Rest, ipc
  <2>4. CASE CopyWrite
    <3>1. flash_op'.length = flash_op.length - Len(flash_op.data)
      BY <1>1, <2>4, Records DEF CopyWrite, Asking
    <3>2. flash_op.length - Len(flash_op.data) <= ImageLength
      BY <1>2 DEF Rest
    <3>. QED BY <2>4, <3>1, <3>2 DEF CopyWrite, Rest, ipc
  <2>5. CASE EraseOrWriteAck \/ CheckCrc
    <3>1. 0 <= ImageLength
      BY Constants
    <3>2. /\ flash_op' = NoOp /\ request' = NoOp
          /\ protected' = protected /\ others' = others /\ client' = client
      BY <2>5 DEF EraseOrWriteAck, CheckCrc, Answer
    <3>. QED BY <1>2, <3>1, <3>2 DEF Rest
  <2>6. CASE McuAsks
    <3>1. CASE McuErase \/ McuCheck \/ McuCopy
      <4>1. request'.length = ImageLength
        BY <3>1 DEF McuErase, McuCheck, McuCopy, Ask, NoOp
      <4>. QED BY <1>2, <3>1, <4>1 DEF McuErase, McuCheck, McuCopy, Ask, Rest, ipc
    <3>2. ASSUME NEW n \in 1 .. MaxFrame, McuWrite(n) PROVE Rest'
      <4>1. request'.length = n
        BY <3>2 DEF McuWrite, Ask, NoOp
      <4>2. n <= ImageLength
        BY <1>1, <1>2, <3>2, IsrTypes, Constants DEF McuWrite
      <4>. QED BY <3>2, <4>1, <4>2 DEF McuWrite, Ask, Rest, ipc
    <3>. QED BY <2>6, <3>1, <3>2 DEF McuAsks
  <2>7. CASE PowerCut
    <3>1. 0 \in 0 .. IPC_CHANNELS
      BY <1>2
    <3>2. NoOp.length <= ImageLength
      BY <1>2, Constants
    <3>. QED BY <2>7, <3>1, <3>2 DEF PowerCut, Rest
  <2>8. CASE UNCHANGED <<flash_op, request>>
    BY <1>4, <2>8
  <2>9. \/ Receive \/ Erase \/ Write \/ CopyRead \/ CopyAck \/ CopyWrite \/ EraseOrWriteAck \/ CheckCrc
        \/ McuAsks \/ PowerCut \/ UNCHANGED <<flash_op, request>>
    BY DEF Next, ota_recv_ipc_msg, test_flash_read_write, Driver, flash_protect_disable,
           flash_protect_enable, flash_erase, qspi_flash_write_sub, ClientErase, ClientWrite,
           ClientCheck, ClientEnd, Sent, SendOther, McuAnswer, Power, Boot, Reload, vars
  <2>. QED BY <2>1, <2>2, <2>3, <2>4, <2>5, <2>6, <2>7, <2>8, <2>9
<1>. QED BY <1>3, <1>4

(* The driver is called for cells of the flash. *)
LEMMA CallsInFlash ==
  ASSUME IInv
  PROVE  \A ctx \in Contexts : call[ctx].offset \in Addresses
<1>1. \A ctx \in Contexts : call[ctx] \in Calling
  BY DEF IInv, Types
<1>2. 0 \in Addresses /\ TestSector \in Addresses /\ TestSector + 1 \in Addresses
  <2>1. FlashSize \in Nat /\ TestSector \in Nat /\ TestSector < FlashSize /\ FlashSize % SectorSize = 0
    BY Constants, GeometryAssumption
  <2>2. SectorOf(FlashSize) = FlashSize
    BY <2>1 DEF SectorOf
  <2>3. TestSector + 1 # FlashSize
    BY <2>1, <2>2, TestSectorIs
  <2>. QED BY <2>1, <2>3 DEF Addresses
<1>3. \A ctx \in Contexts : call[ctx].fn = "none" => call[ctx].offset = 0
  BY DEF IInv, Calls, NoCall
<1>4. call["main"].fn \in {"erase", "write"} => call["main"].offset \in Addresses
  <2>1. CASE call["main"].fn = "erase"
    BY <1>2, <2>1 DEF IInv, Calls
  <2>2. CASE call["main"].fn = "write"
    <3> DEFINE o == call["main"].offset
               n == Len(call["main"].data)
    <3>1. o \in Nat /\ n \in Nat /\ TestSector <= o /\ o + n <= TestSector + 2 /\ n >= 1
      BY <1>1, <2>2 DEF IInv, Calls, Contexts, Calling
    <3> HIDE DEF o, n
    <3>2. o \in {TestSector, TestSector + 1}
      BY <3>1, Constants
    <3>. QED BY <1>2, <3>2 DEF o
  <2>. QED BY <2>1, <2>2
<1>5. call["isr"].fn \in {"erase", "write"} => call["isr"].offset \in Addresses
  BY IsrInTarget, Constants DEF IInv, Addresses, Target, Isr
<1>6. \A ctx \in Contexts : call[ctx].fn \in {"none", "erase", "write"}
  BY <1>1 DEF Calling
<1>. QED BY <1>2, <1>3, <1>4, <1>5, <1>6 DEF Contexts

LEMMA Typed == ASSUME IInv, Rest PROVE TypeOK
<1>1. Types
  BY DEF IInv
<1>2. \A ctx \in Contexts :
        /\ call[ctx].fn \in {"none", "erase", "write"}
        /\ call[ctx].step \in {"unprotect", "run", "protect"}
        /\ call[ctx].offset \in Addresses /\ call[ctx].size \in Nat
        /\ call[ctx].data \in Seq(Content)
  BY <1>1, CallsInFlash DEF Types, Calling
<1>3. flash_op.length \in 0 .. ImageLength
  BY <1>1, Records, Constants DEF Rest
<1>4. request.opcode \in Opcodes
  BY <1>1, Records DEF IInv, OneAtATime, Opcodes, Types
<1>. QED BY <1>1, <1>2, <1>3, <1>4, Records DEF TypeOK, Types, Telling, Rest

LEMMA AcksTrue == ASSUME IInv, Progress PROVE AcksAreTrue
<1>1. Types
  BY DEF IInv
<1>2. ASSUME mcu = "write", ~asked, NEW i \in Image
      PROVE  flash[Backup + i - 1] = IF i <= written THEN i ELSE Erased
  <2>1. request = NoOp /\ answer = NoAnswer /\ deferred = NoAnswer
    BY <1>2 DEF IInv, OneAtATime
  <2>2. flash_op.opcode = "none"
    BY <1>1, <2>1, Records DEF IInv, OneAtATime
  <2>3. Place = written
    BY <2>2 DEF Place, InWrite, Isr, IInv, Calls, NoCall
  <2>4. Holds(Backup, written) /\ Blank(Backup, written)
    BY <1>2, <2>1, <2>3 DEF Progress, Writing
  <2>5. ~(i <= written) => i > written
    BY <1>1, Cells, IsrTypes
  <2>. QED BY <2>4, <2>5 DEF Holds, Blank
<1>3. mcu = "copy" => NewImage(Backup)
  BY DEF IInv, Images
<1>4. mcu = "done" \/ flash_op.opcode = "halt" => NewImage(Run)
  BY DEF IInv, OneAtATime, Progress, Acknowledged
<1>. QED BY <1>2, <1>3, <1>4 DEF AcksAreTrue

(* What has been acknowledged has been done, whatever the client and the   *)
(* other messages do, and wherever the power is cut; and the variables     *)
(* keep their types.                                                       *)
THEOREM AcknowledgedIsDone ==
  ASSUME \A s \in EraseSizes : s <= SectorSize
  PROVE  SafeSpec => []UpdateInv
<1> DEFINE All == IInv /\ Progress /\ Rest
<1>1. Init => All
  BY InitInvariant, ProgressInit, RestInit
<1>2. All /\ [Next]_vars => All'
  BY NextInvariant, ProgressNext, RestNext
<1>3. All => UpdateInv
  BY Typed, AcksTrue DEF UpdateInv
<1>. QED BY <1>1, <1>2, <1>3, PTL DEF SafeSpec

-----------------------------------------------------------------------------
(* What the interrupt changes is named by the request. *)
LEMMA IsrNamed ==
  ASSUME IInv, Progress, Isr.fn \in {"erase", "write"}, Isr.step = "run", NEW a \in Addresses,
         Isr.fn = "erase" => SectorOf(a) = SectorOf(Isr.offset),
         Isr.fn = "write" => a \in Page(Isr.offset, SubLength(Isr.offset, Len(Isr.data)))
  PROVE  InIsr /\ a \in Named
<1> DEFINE o == Isr.offset
           k == SubLength(o, Len(Isr.data))
<1>1. Types
  BY DEF IInv
<1>2. o \in Nat /\ Len(Isr.data) \in Nat /\ k \in 0 .. Len(Isr.data) /\ a \in Nat
  <2>1. o \in Nat /\ Isr.data \in Seq(Content) /\ Len(Isr.data) \in Nat
    BY <1>1, IsrTypes
  <2>2. k \in 0 .. Len(Isr.data)
    BY ONLY <2>1, SubLengthRange
  <2>. QED BY <2>1, <2>2 DEF Addresses
<1>3. /\ Isr.fn = "erase" => flash_op.opcode \in {"erase", "copy"}
      /\ Isr.fn = "write" => flash_op.opcode \in {"write", "copy"}
      /\ request.opcode = flash_op.opcode
  BY IsrOperation
<1>4. InIsr
  BY <1>3, Facts
<1>5. SectorOf(a) = SectorOf(o)
  BY <1>2, InSector
<1>6. o \in Target .. Target + ImageLength - 1
  BY <1>1, IsrInTarget DEF IInv, Isr
<1> HIDE DEF k
<1>7. CASE flash_op.opcode = "copy"
  <2>1. request.dest = Run /\ request.length = ImageLength /\ Target = Run
    BY <1>3, <1>7 DEF IInv, Requests, Target
  <2>2. a \in Sector(o)
    BY <1>5 DEF Sector
  <2>. QED BY <1>3, <1>4, <1>6, <1>7, <2>1, <2>2 DEF Named
<1>8. CASE flash_op.opcode = "erase"
  <2>1. request.offset = Backup /\ request.length = ImageLength /\ Target = Backup
    BY <1>3, <1>8 DEF IInv, Requests, Target
  <2>2. a \in Sector(o)
    BY <1>5 DEF Sector
  <2>. QED BY <1>3, <1>4, <1>6, <1>8, <2>1, <2>2 DEF Named
<1>9. CASE flash_op.opcode = "write"
  <2>1. /\ o >= request.offset /\ o + Len(Isr.data) = request.offset + request.length
        /\ a \in Page(o, k)
    BY <1>3, <1>9 DEF Progress, Writing, InWrite, k
  <2>2. k <= PageLeft(o)
    <3>1. o % PageSize \in 0 .. PageSize - 1
      BY <1>2, Constants
    <3>2. PageLeft(o) \in Nat
      BY <3>1, Constants DEF PageLeft
    <3>. QED BY <1>2, <3>2 DEF SubLength, k
  <2>3. o <= a /\ a < o + k
    BY <1>2, <2>1, <2>2, PageIs
  <2>4. a \in request.offset .. request.offset + request.length - 1
    <3>1. request.offset \in Nat /\ request.length \in Nat
      BY <1>1, Records
    <3>2. \A p, l, n, j \in Nat :
             /\ o >= p /\ o + n = p + l /\ o <= a /\ a < o + j /\ j <= n
             => a \in p .. p + l - 1
      BY <1>2
    <3>. HIDE DEF o
    <3>. QED BY <1>2, <2>1, <2>3, <3>1, <3>2
  <2>. QED BY <1>3, <1>4, <1>9, <2>4 DEF Named
<1>. QED BY <1>3, <1>7, <1>8, <1>9

LEMMA MainNamed ==
  ASSUME IInv, call["main"].fn \in {"erase", "write"}, NEW a \in Addresses,
         SectorOf(a) = SectorOf(call["main"].offset)
  PROVE  a \in Sector(TestSector)
BY MainInSector, Constants DEF IInv, Sector

LEMMA NamedOnly ==
  ASSUME IInv, Progress, [Next]_vars, NEW a \in Addresses, flash'[a] # flash[a]
  PROVE  \/ InIsr /\ a \in Named
         \/ ~InIsr /\ a \in Sector(TestSector)
         \/ Reload
<1>1. Types
  BY DEF IInv
<1>2. CASE \E ctx \in Contexts : flash_erase(ctx) \/ qspi_flash_write_sub(ctx)
  <2>1. PICK ctx \in Contexts : flash_erase(ctx) \/ qspi_flash_write_sub(ctx)
    BY <1>2
  <2>2. /\ call[ctx].fn \in {"erase", "write"} /\ call[ctx].step = "run" /\ Running(ctx)
        /\ SectorOf(a) = SectorOf(call[ctx].offset)
    BY <1>1, <2>1, EraseFlash, WriteFlash DEF Changed, flash_erase, qspi_flash_write_sub
  <2>3. CASE ctx = "main"
    <3>1. ~InIsr
      BY <2>2, <2>3 DEF Running
    <3>. QED BY <2>2, <2>3, <3>1, MainNamed
  <2>4. CASE ctx = "isr"
    <3>1. Isr.fn = "write" => a \in Page(Isr.offset, SubLength(Isr.offset, Len(Isr.data)))
      <4> SUFFICES ASSUME Isr.fn = "write"
                   PROVE  a \in Page(Isr.offset, SubLength(Isr.offset, Len(Isr.data)))
        OBVIOUS
      <4> DEFINE k == SubLength(Isr.offset, Len(Isr.data))
                 sub == SubSeq(Isr.data, 1, k)
      <4>1. qspi_flash_write_sub("isr")
        BY <2>1, <2>4 DEF flash_erase, Isr
      <4>2. ProgramPage(Isr.offset, sub)
        BY <4>1 DEF qspi_flash_write_sub, Isr
      <4>3. k \in 0 .. Len(Isr.data) /\ Isr.data \in Seq(Content)
        BY <1>1, IsrTypes, SubLengthRange
      <4>4. Len(sub) = k
        BY <4>3, Cut
      <4> HIDE DEF sub, k
      <4>5. a \in Page(Isr.offset, Len(sub))
        BY <4>2 DEF ProgramPage
      <4>. QED BY <4>4, <4>5 DEF k
    <3>. QED BY <2>2, <2>4, <3>1, IsrNamed DEF Isr
  <2>. QED BY <2>3, <2>4 DEF Contexts
<1>3. CASE PowerCut
  <2>1. a \in AtRisk
    BY <1>3 DEF PowerCut
  <2>2. PICK ctx \in Contexts :
          a \in IF call[ctx].step # "run" \/ protected \/ ~Running(ctx) THEN {}
                  ELSE IF call[ctx].fn = "erase" THEN Sector(call[ctx].offset)
                  ELSE Page(call[ctx].offset, SubLength(call[ctx].offset, Len(call[ctx].data)))
    BY <2>1 DEF AtRisk
  <2>3. /\ call[ctx].step = "run" /\ Running(ctx)
        /\ call[ctx].fn = "erase" => a \in Sector(call[ctx].offset)
        /\ call[ctx].fn # "erase" =>
             a \in Page(call[ctx].offset, SubLength(call[ctx].offset, Len(call[ctx].data)))
    BY <2>2
  <2>4. call[ctx].fn \in {"erase", "write"}
    BY <1>1, <2>3 DEF IInv, Calls, NoCall, Types, Calling
  <2>5. SectorOf(a) = SectorOf(call[ctx].offset)
    <3>1. call[ctx].offset \in Nat /\ call[ctx].data \in Seq(Content)
      BY <1>1 DEF Types, Calling
    <3>2. SubLength(call[ctx].offset, Len(call[ctx].data)) \in Nat
      BY <3>1, SubLengthRange
    <3>. QED BY <2>3, <3>1, <3>2, InSector DEF Sector
  <2>6. CASE ctx = "main"
    <3>1. ~InIsr
      BY <2>3, <2>6 DEF Running
    <3>. QED BY <2>4, <2>5, <2>6, <3>1, MainNamed
  <2>7. CASE ctx = "isr"
    BY <2>3, <2>4, <2>5, <2>7, IsrNamed DEF Isr
  <2>. QED BY <2>6, <2>7 DEF Contexts
<1>4. \/ \E ctx \in Contexts : flash_erase(ctx) \/ qspi_flash_write_sub(ctx)
      \/ PowerCut \/ Reload \/ UNCHANGED flash
  BY DEF Next, ota_recv_ipc_msg, test_flash_read_write, Driver, flash_protect_disable,
         flash_protect_enable, Receive, Erase, Write, EraseOrWriteAck, CheckCrc, CopyRead, CopyWrite,
         CopyAck, ClientErase, ClientWrite, ClientCheck, ClientEnd, Sent, SendOther, McuAsks,
         McuErase, McuWrite, McuCheck, McuCopy, Ask, McuAnswer, Power, Boot, vars, Contexts
<1>. QED BY <1>2, <1>3, <1>4

(* Nothing is changed that the request does not name, and by the client    *)
(* nothing but its sector, not even by a power cut in the middle.          *)
THEOREM NothingElseIsEverTouched ==
  ASSUME \A s \in EraseSizes : s <= SectorSize
  PROVE  SafeSpec => NothingElseIsTouched
<1> DEFINE Inv == IInv /\ Progress
           Touch == \A a \in Addresses : flash'[a] # flash[a] =>
                      \/ InIsr /\ a \in Named
                      \/ ~InIsr /\ a \in Sector(TestSector)
                      \/ Reload
<1>1. Init => Inv
  BY InitInvariant, ProgressInit
<1>2. Inv /\ [Next]_vars => Inv'
  BY NextInvariant, ProgressNext
<1>3. Inv /\ [Next]_vars => [Touch]_vars
  BY NamedOnly
<1>. QED BY <1>1, <1>2, <1>3, PTL DEF SafeSpec, NothingElseIsTouched

=============================================================================
