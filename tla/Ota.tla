-------------------------------- MODULE Ota --------------------------------
(***************************************************************************)
(* The update of the firmware over the air, and the flash under it.        *)
(*                                                                         *)
(*   ota.c           the commands of the MCU: erase, write, check, copy    *)
(*   qspi.c, flash.c erase by sector, write by page, the write protection  *)
(*   main.c          test_flash_read_write, a client in the main loop      *)
(*                                                                         *)
(* ota.c runs in the IPC interrupt, so that it may come between any two    *)
(* steps of the client, and the client runs only when it has ended.  The   *)
(* power may go at any moment.  The flash is an array of cells: a sector   *)
(* is erased at once, a page is written at once, and a write can only      *)
(* clear bits, so that a cell written twice is garbled.                    *)
(***************************************************************************)
EXTENDS Integers, Sequences

CONSTANTS
  FlashSize, SectorSize, PageSize,  \* in cells: 0x1000 and 0x100 bytes
  ImageLength,                      \* cells of an image of the firmware
  Run, Backup,                      \* where the running image and the new one are
  TestSector,                       \* start_flash_addr of the client
  MaxFrame,                         \* greatest write of the MCU
  EraseSizes,  \* what qspi_flash_erase finds in its second parameter
  IPC_CHANNELS,
  OthersSend,  \* is there other traffic to the MCU?
  Erased, Garbled, Old, Test        \* what a cell may hold, but for the new image

SectorOf(a) == a - (a % SectorSize)

ASSUME GeometryAssumption ==
  /\ PageSize \in Nat \ {0} /\ SectorSize \in Nat \ {0} /\ FlashSize \in Nat
  /\ SectorSize % PageSize = 0 /\ FlashSize % SectorSize = 0
  /\ {Run, Backup, TestSector} \subseteq {a \in 0 .. FlashSize - 1 : SectorOf(a) = a}
  /\ ImageLength \in Nat \ {0} /\ MaxFrame \in Nat \ {0}
  /\ EraseSizes \subseteq Nat /\ EraseSizes # {}
  /\ IPC_CHANNELS \in Nat \ {0} /\ OthersSend \in BOOLEAN

(* The two images and the client's data do not share a sector. *)
ASSUME LayoutAssumption ==
  /\ Run + ImageLength <= FlashSize /\ Backup + ImageLength <= FlashSize
  /\ \A i, j \in 0 .. ImageLength - 1 : SectorOf(Run + i) # SectorOf(Backup + j)
  /\ \A i \in 0 .. ImageLength - 1 : TestSector \notin {SectorOf(Run + i), SectorOf(Backup + i)}
  /\ SectorSize >= 2

VARIABLES
  flash,
  protected,   \* the block protection of the status register
  call,        \* the call of the flash driver in each context
  flash_op,    \* what ota_recv_ipc_msg is doing
  request,     \* the message of the MCU
  others,      \* IPC channels that other messages use
  deferred,    \* an answer in ipc_msg_list
  answer,      \* an answer that the MCU has not read
  client,      \* where test_flash_read_write is
  mcu,         \* the step of the update
  asked,       \* does the MCU wait for an answer?
  written      \* cells of the new image that have been acknowledged

ipc  == <<others, deferred, answer>>
peer == <<mcu, asked, written>>
vars == <<flash, protected, call, flash_op, request, ipc, client, peer>>

Addresses == 0 .. FlashSize - 1
Contexts  == {"main", "isr"}
Image     == 1 .. ImageLength   \* the cells of the new image are numbered
Content   == Image \cup {Erased, Garbled, Old, Test}

NoCall == [fn |-> "none", step |-> "protect", offset |-> 0, size |-> 0, data |-> <<>>]
NoOp   == [opcode |-> "none", offset |-> 0, length |-> 0, dest |-> 0, data |-> <<>>]
NoAnswer == [opcode |-> "none", ok |-> TRUE, length |-> 0]

InIsr == flash_op # NoOp
Running(ctx) == ctx = "isr" \/ ~InIsr
Returned(ctx) == call[ctx] = NoCall

-----------------------------------------------------------------------------
(* The flash *)

(* What a cell holds after a write of data over it. *)
Over(cell, data) == IF cell \in {Erased, data} THEN data ELSE Garbled

Sector(offset) == {a \in Addresses : SectorOf(a) = SectorOf(offset)}

(* The cells of a page program, which wraps around in its page, and which  *)
(* element of the data each of them gets.                                  *)
Page(offset, length) ==
  {a \in Addresses : /\ a \div PageSize = offset \div PageSize
                     /\ (a - offset) % PageSize < length}
Element(a, offset) == ((a - offset) % PageSize) + 1

EraseSector(offset) ==
  flash' = IF protected THEN flash
             ELSE [a \in Addresses |-> IF a \in Sector(offset) THEN Erased ELSE flash[a]]

ProgramPage(offset, data) ==
  flash' = IF protected THEN flash
             ELSE [a \in Addresses |-> IF a \in Page(offset, Len(data))
                                         THEN Over(flash[a], data[Element(a, offset)])
                                         ELSE flash[a]]

-----------------------------------------------------------------------------
(* The flash driver, in either context *)

qspi_flash_erase(ctx, at, bytes) ==
  call' = [call EXCEPT ![ctx] = [fn |-> "erase", step |-> "unprotect",
                                 offset |-> at, size |-> bytes, data |-> <<>>]]
qspi_flash_write(ctx, at, cells) ==
  call' = [call EXCEPT ![ctx] = [fn |-> "write", step |-> "unprotect",
                                 offset |-> at, size |-> 0, data |-> cells]]

(* The status register is written with interrupts enabled. *)
flash_protect_disable(ctx) ==
  /\ Running(ctx) /\ ~Returned(ctx) /\ call[ctx].step = "unprotect"
  /\ protected' = FALSE
  /\ call' = [call EXCEPT ![ctx].step = "run"]
  /\ UNCHANGED <<flash, flash_op, request, ipc, client, peer>>

(* flash_erase, one sector of it; no size means one sector. *)
flash_erase(ctx) ==
  /\ Running(ctx) /\ call[ctx].fn = "erase" /\ call[ctx].step = "run"
  /\ EraseSector(call[ctx].offset)
  /\ call' = IF call[ctx].size > SectorSize
               THEN [call EXCEPT ![ctx].offset = @ + SectorSize,
                                 ![ctx].size = @ - SectorSize]
               ELSE [call EXCEPT ![ctx].step = "protect"]
  /\ UNCHANGED <<protected, flash_op, request, ipc, client, peer>>

(* How much of a write goes to the page that it starts in. *)
WholePage(offset) == PageSize \* mutant: first_page_left not computed
PageLeft(offset)  == PageSize - (offset % PageSize)

SubLength(offset, length) == IF length > PageLeft(offset) THEN PageLeft(offset) ELSE length

(* qspi_flash_write_sub: what fits in the page. *)
qspi_flash_write_sub(ctx) ==
  LET data == call[ctx].data
      sub_length == SubLength(call[ctx].offset, Len(data))
  IN
  /\ Running(ctx) /\ call[ctx].fn = "write" /\ call[ctx].step = "run"
  /\ ProgramPage(call[ctx].offset, SubSeq(data, 1, sub_length))
  /\ call' = IF sub_length < Len(data)
               THEN [call EXCEPT ![ctx].offset = @ + sub_length,
                                 ![ctx].data = SubSeq(@, sub_length + 1, Len(@))]
               ELSE [call EXCEPT ![ctx].step = "protect"]
  /\ UNCHANGED <<protected, flash_op, request, ipc, client, peer>>

flash_protect_enable(ctx) ==
  /\ Running(ctx) /\ ~Returned(ctx) /\ call[ctx].step = "protect"
  /\ protected' = TRUE
  /\ call' = [call EXCEPT ![ctx] = NoCall]
  /\ UNCHANGED <<flash, flash_op, request, ipc, client, peer>>

-----------------------------------------------------------------------------
(* ota_recv_ipc_msg *)

(* The interrupt takes the message; an erase begins with its sector. *)
Receive ==
  /\ request # NoOp /\ ~InIsr
  /\ flash_op' = IF request.opcode = "erase"
                   THEN [request EXCEPT !.offset = SectorOf(@)] ELSE request
  /\ UNCHANGED <<flash, protected, call, request, ipc, client, peer>>

(* ipc_msg_send and ipc_msg_with_payload_send: by a channel or by the list. *)
(* The last answer has been completed: ipc_isr does that before it looks   *)
(* at the MCU's messages.                                                  *)
Answer(ack) ==
  /\ \/ others < IPC_CHANNELS /\ answer' = ack /\ UNCHANGED deferred
     \/ others = IPC_CHANNELS /\ deferred' = ack /\ UNCHANGED answer
  /\ UNCHANGED others

(* What is left to erase after a sector. *)
LeftWithoutElse(length) ==                         \* mutant: the last length is kept
  IF length > SectorSize THEN length - SectorSize ELSE length
LeftToErase(length) == IF length > SectorSize THEN length - SectorSize ELSE 0

Erase ==
  /\ flash_op.opcode = "erase" /\ flash_op.length > 0 /\ Returned("isr")
  /\ \E size \in EraseSizes : qspi_flash_erase("isr", flash_op.offset, size)
  /\ flash_op' = [flash_op EXCEPT
       !.length = LeftToErase(@),
       !.offset = IF flash_op.length > SectorSize THEN @ + SectorSize ELSE @]
  /\ UNCHANGED <<flash, protected, request, ipc, client, peer>>

Write ==
  /\ flash_op.opcode = "write" /\ flash_op.data # <<>> /\ Returned("isr")
  /\ qspi_flash_write("isr", flash_op.offset, flash_op.data)
  /\ flash_op' = [flash_op EXCEPT !.data = <<>>]
  /\ UNCHANGED <<flash, protected, request, ipc, client, peer>>

(* IPC_MSG_FLASH_ERASE_ACK, IPC_MSG_FLASH_WRITE_ACK *)
EraseOrWriteAck ==
  /\ \/ flash_op.opcode = "erase" /\ flash_op.length = 0
     \/ flash_op.opcode = "write" /\ flash_op.data = <<>>
  /\ Returned("isr")
  /\ Answer([opcode |-> request.opcode, ok |-> TRUE, length |-> request.length])
  /\ flash_op' = NoOp /\ request' = NoOp
  /\ UNCHANGED <<flash, protected, call, client, peer>>

(* IPC_MSG_FLASH_CHECK_CRC: is the image in the flash the one that the MCU *)
(* has the checksum of?                                                    *)
NewImage(offset) == \A i \in Image : flash[offset + i - 1] = i

NoComparison(offset) == TRUE \* mutant: always IPC_MSG_FLASH_OK
CrcMatches(offset)   == NewImage(offset)

CheckCrc ==
  /\ flash_op.opcode = "check"
  /\ Answer([opcode |-> "check", ok |-> CrcMatches(flash_op.offset), length |-> request.length])
  /\ flash_op' = NoOp /\ request' = NoOp
  /\ UNCHANGED <<flash, protected, call, client, peer>>

-----------------------------------------------------------------------------
(* ota_flash_copy *)

(* A new sector of the destination is erased first: data is what has been  *)
(* read of the source to write to it.                                      *)
Copying == flash_op.opcode = "copy" /\ Returned("isr")

AnySector(dst) == TRUE \* mutant: erase before every page
AtSector(dst)  == SectorOf(dst) = dst

CopyLength(length) == IF length > PageSize THEN PageSize ELSE length

CopyRead ==
  /\ Copying /\ flash_op.length > 0 /\ flash_op.data = <<>>
  /\ flash_op' = [flash_op EXCEPT
       !.data = [k \in 1 .. CopyLength(flash_op.length) |-> flash[flash_op.offset + k - 1]]]
  /\ \/ /\ AtSector(flash_op.dest)
        /\ \E size \in EraseSizes : qspi_flash_erase("isr", flash_op.dest, size)
     \/ ~AtSector(flash_op.dest) /\ UNCHANGED call
  /\ UNCHANGED <<flash, protected, request, ipc, client, peer>>

CopyWrite ==
  LET sub_length == Len(flash_op.data) IN
  /\ Copying /\ flash_op.data # <<>>
  /\ qspi_flash_write("isr", flash_op.dest, flash_op.data)
  /\ flash_op' = [flash_op EXCEPT !.offset = @ + sub_length, !.dest = @ + sub_length,
                                  !.length = @ - sub_length, !.data = <<>>]
  /\ UNCHANGED <<flash, protected, request, ipc, client, peer>>

(* IPC_SUB_MSG_FLASH_COPY_ACK, then while(1) with interrupts disabled. *)
CopyAck ==
  /\ Copying /\ flash_op.length = 0 /\ flash_op.data = <<>>
  /\ Answer([opcode |-> "copy", ok |-> TRUE, length |-> request.length])
  /\ flash_op' = [flash_op EXCEPT !.opcode = "halt"]
  /\ UNCHANGED <<flash, protected, call, request, client, peer>>

-----------------------------------------------------------------------------
(* The rest of the DSP *)

(* A message is complete: its channel goes to the list, or is free. *)
Sent ==
  /\ ~InIsr /\ others > 0
  /\ others' = others - 1
  /\ \/ deferred # NoAnswer /\ answer' = deferred /\ deferred' = NoAnswer
     \/ deferred = NoAnswer /\ UNCHANGED <<answer, deferred>>
  /\ UNCHANGED <<flash, protected, call, flash_op, request, client, peer>>

SendOther ==
  /\ OthersSend /\ ~InIsr /\ mcu # "off" /\ deferred = NoAnswer
  /\ others + (IF answer = NoAnswer THEN 0 ELSE 1) < IPC_CHANNELS
  /\ others' = others + 1
  /\ UNCHANGED <<flash, protected, call, flash_op, request, deferred, answer, client, peer>>

(* test_flash_read_write *)
TestData == <<Test, Test>>

ClientErase ==
  /\ ~InIsr /\ mcu # "off" /\ client = "idle"
  /\ qspi_flash_erase("main", TestSector, SectorSize)
  /\ client' = "erase"
  /\ UNCHANGED <<flash, protected, flash_op, request, ipc, peer>>

ClientWrite ==
  /\ ~InIsr /\ client = "erase" /\ Returned("main")
  /\ qspi_flash_write("main", TestSector, TestData)
  /\ client' = "write"
  /\ UNCHANGED <<flash, protected, flash_op, request, ipc, peer>>

ClientCheck ==
  /\ ~InIsr /\ client = "write" /\ Returned("main")
  /\ client' = "check"
  /\ UNCHANGED <<flash, protected, call, flash_op, request, ipc, peer>>

ClientEnd ==
  /\ ~InIsr /\ client = "check"
  /\ client' = "idle"
  /\ UNCHANGED <<flash, protected, call, flash_op, request, ipc, peer>>

-----------------------------------------------------------------------------
(* The MCU, one request at a time *)

Ask(message) ==
  /\ ~asked /\ asked' = TRUE
  /\ request' = message
  /\ UNCHANGED <<flash, protected, call, flash_op, ipc, client, mcu, written>>

McuErase ==
  mcu = "erase" /\ Ask([NoOp EXCEPT !.opcode = "erase", !.offset = Backup,
                                    !.length = ImageLength])
McuWrite(n) ==
  /\ mcu = "write" /\ written + n <= ImageLength
  /\ Ask([NoOp EXCEPT !.opcode = "write", !.offset = Backup + written, !.length = n,
                      !.data = [k \in 1 .. n |-> written + k]])
McuCheck ==
  mcu = "check" /\ Ask([NoOp EXCEPT !.opcode = "check", !.offset = Backup,
                                    !.length = ImageLength])
McuCopy ==
  mcu = "copy" /\ Ask([NoOp EXCEPT !.opcode = "copy", !.offset = Backup, !.dest = Run,
                                   !.length = ImageLength])

McuAnswer ==
  /\ answer # NoAnswer
  /\ answer' = NoAnswer /\ asked' = FALSE
  /\ \/ answer.opcode = "erase" /\ mcu' = "write" /\ written' = 0
     \/ /\ answer.opcode = "write" /\ written' = written + answer.length
        /\ mcu' = IF written' = ImageLength THEN "check" ELSE "write"
     \/ /\ answer.opcode = "check" /\ UNCHANGED written
        /\ mcu' = IF answer.ok THEN "copy" ELSE "erase"
     \/ answer.opcode = "copy" /\ mcu' = "done" /\ UNCHANGED written
  /\ UNCHANGED <<flash, protected, call, flash_op, request, others, deferred, client>>

-----------------------------------------------------------------------------
(* The power *)

(* The cells that a running erase or write may leave garbled. *)
AtRisk ==
  UNION {IF call[ctx].step # "run" \/ protected \/ ~Running(ctx) THEN {}
           ELSE IF call[ctx].fn = "erase" THEN Sector(call[ctx].offset)
           ELSE Page(call[ctx].offset, SubLength(call[ctx].offset, Len(call[ctx].data)))
           : ctx \in Contexts}

PowerCut ==
  /\ mcu # "off"
  /\ \E damaged \in {{}, AtRisk} :
       flash' = [a \in Addresses |-> IF a \in damaged THEN Garbled ELSE flash[a]]
  /\ protected' = FALSE
  /\ call' = [ctx \in Contexts |-> NoCall]
  /\ flash_op' = NoOp /\ request' = NoOp
  /\ others' = 0 /\ deferred' = NoAnswer /\ answer' = NoAnswer
  /\ client' = "idle"
  /\ mcu' = "off" /\ asked' = FALSE /\ written' = 0

OldImage(offset) == \A i \in Image : flash[offset + i - 1] = Old
Bootable == NewImage(Run) \/ OldImage(Run)

(* The MCU begins again, or first has the backup checked that may be there. *)
Boot ==
  /\ mcu = "off" /\ Bootable
  /\ mcu' \in {"erase", "check"}
  /\ UNCHANGED <<flash, protected, call, flash_op, request, ipc, client, asked, written>>

(* What does not boot is loaded again over the UART. *)
Reload ==
  /\ mcu = "off" /\ ~Bootable
  /\ flash' = [a \in Addresses |-> IF a \in Run .. Run + ImageLength - 1 THEN Old ELSE flash[a]]
  /\ UNCHANGED <<protected, call, flash_op, request, ipc, client, peer>>

-----------------------------------------------------------------------------
Init ==
  /\ flash = [a \in Addresses |-> IF a \in Run .. Run + ImageLength - 1 THEN Old ELSE Garbled]
  /\ protected = FALSE
  /\ call = [ctx \in Contexts |-> NoCall]
  /\ flash_op = NoOp /\ request = NoOp
  /\ others = 0 /\ deferred = NoAnswer /\ answer = NoAnswer
  /\ client = "idle"
  /\ mcu = "off" /\ asked = FALSE /\ written = 0

Driver(ctx) == \/ flash_protect_disable(ctx) \/ flash_erase(ctx)
               \/ qspi_flash_write_sub(ctx) \/ flash_protect_enable(ctx)
ota_recv_ipc_msg == \/ Driver("isr") \/ Erase \/ Write \/ EraseOrWriteAck \/ CheckCrc
                    \/ CopyRead \/ CopyWrite \/ CopyAck
test_flash_read_write ==
  \/ Driver("main") \/ ClientErase \/ ClientWrite \/ ClientCheck \/ ClientEnd
McuAsks == McuErase \/ (\E n \in 1 .. MaxFrame : McuWrite(n)) \/ McuCheck \/ McuCopy
Power == PowerCut \/ Boot \/ Reload

Next == \/ Receive \/ ota_recv_ipc_msg \/ Sent
        \/ SendOther \/ test_flash_read_write
        \/ McuAsks \/ McuAnswer
        \/ Power

SafeSpec == Init /\ [][Next]_vars

(* The interrupt is taken and its handler goes on; the MCU reads.  Neither *)
(* the MCU's next request nor the main loop is assumed to come.            *)
Fairness == /\ WF_vars(Receive) /\ WF_vars(ota_recv_ipc_msg) /\ WF_vars(Sent)
            /\ WF_vars(McuAnswer)
Spec == SafeSpec /\ Fairness

-----------------------------------------------------------------------------
(* Properties *)

Opcodes == {"none", "erase", "write", "check", "copy"}

TypeOK ==
  /\ flash \in [Addresses -> Content]
  /\ protected \in BOOLEAN
  /\ \A ctx \in Contexts :
       /\ call[ctx].fn \in {"none", "erase", "write"}
       /\ call[ctx].step \in {"unprotect", "run", "protect"}
       /\ call[ctx].offset \in Addresses /\ call[ctx].size \in Nat
       /\ call[ctx].data \in Seq(Content)
  /\ flash_op.opcode \in Opcodes \cup {"halt"} /\ flash_op.length \in 0 .. ImageLength
  /\ flash_op.data \in Seq(Content)
  /\ request.opcode \in Opcodes
  /\ others \in 0 .. IPC_CHANNELS
  /\ {answer.opcode, deferred.opcode} \subseteq Opcodes
  /\ client \in {"idle", "erase", "write", "check"}
  /\ mcu \in {"off", "erase", "write", "check", "copy", "done"}
  /\ asked \in BOOLEAN /\ written \in 0 .. ImageLength

(* What has been acknowledged has been done: after the acknowledged erase  *)
(* and writes the backup holds the image so far and is blank behind it,    *)
(* after a good check all of it, and after the copy it is the one to run.  *)
AcksAreTrue ==
  /\ mcu = "write" /\ ~asked =>
       \A i \in Image : flash[Backup + i - 1] = IF i <= written THEN i ELSE Erased
  /\ mcu = "copy" => NewImage(Backup)
  /\ mcu = "done" \/ flash_op.opcode = "halt" => NewImage(Run)

(* The variables keep their types, and the acknowledgements are true.      *)
UpdateInv == TypeOK /\ AcksAreTrue

(* At any moment, and so wherever the power is cut, a whole image is in    *)
(* the flash: the one that runs, or, as long as that is being overwritten, *)
(* the backup that it can be copied from again.                            *)
AnImageIsWhole == Bootable \/ NewImage(Backup)

(* The cells that a request is about: an erase, and a copy's erase, take   *)
(* whole sectors.                                                          *)
Named ==
  LET at == IF request.opcode = "copy" THEN request.dest ELSE request.offset
      range == at .. at + request.length - 1
  IN IF request.opcode = "write" THEN range ELSE UNION {Sector(a) : a \in range}

(* "erase the space needed (contiguous space that is not in use)": nothing *)
(* is changed that the request does not name.                              *)
NothingElseIsTouched ==
  [][\A a \in Addresses : flash'[a] # flash[a] =>
       \/ InIsr /\ a \in Named
       \/ ~InIsr /\ a \in Sector(TestSector)
       \/ Reload]_vars

(* An erase, a write or a check is answered, however busy the channels     *)
(* are, and a copy is done, unless the power goes.                         *)
RequestsAnswered == asked ~> ~asked \/ (mcu = "copy" /\ NewImage(Run))

(* "send response to MCU": the copy is acknowledged, unless the power goes. *)
CopyAcknowledged == asked /\ mcu = "copy" ~> mcu = "done" \/ mcu = "off"
=============================================================================
