------------------------------ MODULE UartBoot ------------------------------
(***************************************************************************)
(* The boot loader over UART (uart_boot.c): after a reset the DSP offers   *)
(* the host a session, three times at most, and goes on to the application *)
(* unless the host takes it; in the session the host erases, writes and    *)
(* reads the flash by requests.  rx and tx are what is on the way on the   *)
(* line.  A message from the host is a number of bytes that arrive one by  *)
(* one, a byte is the kind of its message and its place in it; what a      *)
(* request's bytes say is host.request.                                    *)
(***************************************************************************)
EXTENDS Naturals, Sequences

CONSTANTS ACK_LEN, HEADER_LEN, PAYLOAD_LEN, wait_to_ms, Sectors, Data, Bauds, None

ASSUME BootAssumption ==
  /\ {ACK_LEN, HEADER_LEN, PAYLOAD_LEN, wait_to_ms} \subseteq Nat \ {0}
  /\ {"unknown", "old", "erased", "garbled"} \cap Data = {}

VARIABLES
  at,             \* where app_boot_host_comm is
  retry_count, do_handshake,
  i,              \* polls made for the answer to one request
  buffer,         \* the bytes taken for the answer or for the command
  baud,
  flash,
  rx, tx,
  host,           \* the programming tool at the other end
  protected       \* the block protection of the chip: no step of the loader changes it

uartVars == <<at, retry_count, do_handshake, i, buffer, baud, flash, rx, tx, host>>

Message(kind, length) == [k \in 1 .. length |-> <<kind, k>>]

Ack == Message("ack", ACK_LEN)

(* What the tool asks for: address is a sector, a baud rate or the result  *)
(* that ends the session (0 does not).                                     *)
Requests ==
       [code : {"GET_TYPE", "READ_ENABLE"}, address : {0}, length : {0}, data : {None}]
  \cup [code : {"WRITE_RAM"}, address : {0}, length : {0, PAYLOAD_LEN}, data : {None}]
  \cup [code : {"WRITE"}, address : Sectors, length : {0, PAYLOAD_LEN}, data : Data]
  \cup [code : {"READ"}, address : Sectors, length : {PAYLOAD_LEN}, data : {None}]
  \cup [code : {"BLOCK_ERASE"}, address : Sectors, length : {0}, data : {None}]
  \cup [code : {"CHANGE_BANDRATE"}, address : Bauds, length : {0}, data : {None}]
  \cup [code : {"DISCONNECT"}, address : {0, 1}, length : {0}, data : {None}]

ASSUME NoneAssumption == None \notin Requests

HasPayload(r) == r.length # 0 /\ r.code # "READ"

Size(r) == HEADER_LEN + IF HasPayload(r) THEN r.length ELSE 0

uart_write(what, content) == tx' = Append(tx, [what |-> what, content |-> content, baud |-> baud])

(* A byte may have come in after uart_init, before the DSP listens.  The   *)
(* user image protects the chip after each of its own writes and erases,   *)
(* until the power is cut: after a reset without one the chip still is.    *)
UartInit ==
  /\ at = "request" /\ retry_count = 3 /\ do_handshake = 1 /\ i = 0
  /\ buffer = <<>> /\ tx = <<>> /\ rx \in {<<>>, Message("stray", 1)}
  /\ flash = [s \in Sectors |-> "old"] /\ protected \in BOOLEAN
  /\ baud \in Bauds
  /\ host = [at |-> "listens", sent |-> 0, baud |-> baud, request |-> None,
             knows |-> [s \in Sectors |-> "unknown"]]

-----------------------------------------------------------------------------
(* app_boot_host_comm.                                                     *)
Offer ==
  /\ at = "request" /\ at' = "poll"
  /\ uart_write("freqchip", None)
  /\ i' = 0 /\ buffer' = <<>>
  /\ UNCHANGED <<retry_count, do_handshake, baud, flash, rx, host>>

Fails ==
  /\ do_handshake' = 0
  /\ retry_count' = retry_count - 1
  /\ at' = IF retry_count = 1 THEN "decide" ELSE "request"

(* One poll of app_boot_serial_gets.  Each takes up to the whole length of *)
(* the answer however much is there already: what comes too much is put    *)
(* behind the end of the buffer, on the stack, and is never an answer.     *)
NeverTimesOut ==    \* mutant: the polls without a byte are not counted
  LET k == IF Len(rx) < ACK_LEN THEN Len(rx) ELSE ACK_LEN
      n == Len(buffer) + k
  IN  /\ at = "poll" /\ i < wait_to_ms
      /\ i' = IF k = 0 THEN i ELSE i + 1
      /\ buffer' = buffer \o SubSeq(rx, 1, k) /\ rx' = SubSeq(rx, k + 1, Len(rx))
      /\ \/ n = ACK_LEN /\ at' = "compare"
         \/ n # ACK_LEN /\ UNCHANGED at
         \/ n > ACK_LEN /\ at' = "lost"
      /\ UNCHANGED <<retry_count, do_handshake, baud, flash, tx, host>>
app_boot_serial_gets ==
  LET k == IF Len(rx) < ACK_LEN THEN Len(rx) ELSE ACK_LEN
      n == Len(buffer) + k
  IN  /\ at = "poll" /\ i < wait_to_ms
      /\ i' = i + 1
      /\ buffer' = buffer \o SubSeq(rx, 1, k) /\ rx' = SubSeq(rx, k + 1, Len(rx))
      /\ \/ n = ACK_LEN /\ at' = "compare"
         \/ n # ACK_LEN /\ UNCHANGED at
         \/ n > ACK_LEN /\ at' = "lost"
      /\ UNCHANGED <<retry_count, do_handshake, baud, flash, tx, host>>

TimesOut ==
  /\ at = "poll" /\ i = wait_to_ms
  /\ Fails
  /\ UNCHANGED <<i, buffer, baud, flash, rx, tx, host>>

LateAckCounts ==    \* mutant: an answer to the second or third offer opens the session
  /\ at = "compare"
  /\ IF buffer = Ack THEN at' = "decide" /\ do_handshake' = 1 /\ UNCHANGED retry_count
     ELSE Fails
  /\ UNCHANGED <<i, buffer, baud, flash, rx, tx, host>>
Compares ==
  /\ at = "compare"
  /\ IF buffer = Ack THEN at' = "decide" /\ UNCHANGED <<retry_count, do_handshake>>
     ELSE Fails
  /\ UNCHANGED <<i, buffer, baud, flash, rx, tx, host>>

OkAnyway ==    \* mutant: the host is told ok whatever do_handshake
  /\ at = "decide" /\ buffer' = <<>>
  /\ uart_write("ok", None)
  /\ at' = IF do_handshake = 1 THEN "header" ELSE "app"
  /\ UNCHANGED <<retry_count, do_handshake, i, baud, flash, rx, host>>
Decides ==
  /\ at = "decide" /\ buffer' = <<>>
  /\ \/ do_handshake = 1 /\ at' = "header" /\ uart_write("ok", None)
     \/ do_handshake = 0 /\ at' = "app" /\ UNCHANGED tx
  /\ UNCHANGED <<retry_count, do_handshake, i, baud, flash, rx, host>>

-----------------------------------------------------------------------------
(* app_boot_host_comm_loop takes a header and, unless the command is to    *)
(* read, as many bytes more as the header says; it waits for ever.         *)
ReadHasPayload ==    \* mutant: a request to read is taken to have a payload
  /\ at \in {"header", "payload"} /\ rx # <<>>
  /\ buffer' = Append(buffer, Head(rx)) /\ rx' = Tail(rx)
  /\ at' = IF Len(buffer') < HEADER_LEN THEN "header"
           ELSE IF Len(buffer') < HEADER_LEN + host.request.length THEN "payload" ELSE "command"
  /\ UNCHANGED <<retry_count, do_handshake, i, baud, flash, tx, host>>
uart_get_data_noint ==
  /\ at \in {"header", "payload"} /\ rx # <<>>
  /\ buffer' = Append(buffer, Head(rx)) /\ rx' = Tail(rx)
  /\ at' = IF Len(buffer') < HEADER_LEN THEN "header"
           ELSE IF Len(buffer') < Size(host.request) THEN "payload" ELSE "command"
  /\ UNCHANGED <<retry_count, do_handshake, i, baud, flash, tx, host>>

(* Flash is programmed by clearing bits.  A protected chip does neither,   *)
(* and neither function looks.                                             *)
flash_write(s, d) ==
  flash' = IF protected THEN flash
           ELSE [flash EXCEPT ![s] = IF @ \in {"erased", d} THEN d ELSE "garbled"]

flash_erase(s) ==
  flash' = IF protected THEN flash ELSE [flash EXCEPT ![s] = "erased"]

(* app_boot_process_cmd: what the command does to the flash, then the      *)
(* answer; with CHANGE_BANDRATE the new rate counts after the answer.      *)
HeaderIsWritten(r) ==    \* mutant: the request's header goes into the flash before its data
  \/ r.code = "WRITE" /\ r.length # 0 /\ flash_write(r.address, "garbled")
  \/ r.code = "BLOCK_ERASE" /\ flash_erase(r.address)
  \/ r.code = "WRITE" /\ r.length = 0 /\ UNCHANGED flash
  \/ r.code \notin {"WRITE", "BLOCK_ERASE"} /\ UNCHANGED flash
FlashCommand(r) ==
  \/ r.code = "WRITE" /\ r.length # 0 /\ flash_write(r.address, r.data)
  \/ r.code = "BLOCK_ERASE" /\ flash_erase(r.address)
  \/ r.code = "WRITE" /\ r.length = 0 /\ UNCHANGED flash
  \/ r.code \notin {"WRITE", "BLOCK_ERASE"} /\ UNCHANGED flash

Executes ==
  /\ at = "command" /\ at' = "answer"
  /\ FlashCommand(host.request)
  /\ UNCHANGED <<retry_count, do_handshake, i, buffer, baud, rx, tx, host>>

Answers ==
  LET r == host.request
  IN  /\ at = "answer" /\ buffer' = <<>>
      /\ uart_write(r.code, IF r.code = "READ" THEN flash[r.address] ELSE None)
      /\ baud' = IF r.code = "CHANGE_BANDRATE" THEN r.address ELSE baud
      /\ rx' = IF r.code = "CHANGE_BANDRATE" THEN <<>> ELSE rx     \* uart_init empties the FIFOs
      /\ at' = IF r.code = "DISCONNECT" /\ r.address # 0 THEN "app" ELSE "header"
      /\ UNCHANGED <<retry_count, do_handshake, i, flash, host>>

Dsp ==
  \/ Offer \/ app_boot_serial_gets \/ TimesOut \/ Compares \/ Decides
  \/ uart_get_data_noint \/ Executes \/ Answers

-----------------------------------------------------------------------------
(* The tool answers each offer, sooner or later or never, and takes the    *)
(* session when it reads ok.  It sends one request at a time, and writes   *)
(* only what it has erased.                                                *)
Sends(kind, length) ==
  /\ host.sent < length
  /\ rx' = Append(rx, <<kind, host.sent + 1>>)

HostAnswers ==
  /\ host.at = "answers"
  /\ Sends("ack", ACK_LEN)
  /\ host' = [host EXCEPT !.sent = @ + 1, !.at = IF host.sent + 1 = ACK_LEN THEN "listens" ELSE @]
  /\ UNCHANGED <<at, retry_count, do_handshake, i, buffer, baud, flash, tx>>

HostAsks ==
  /\ host.at = "session" /\ host.request = None
  /\ \E r \in Requests :
       /\ r.code = "WRITE" => host.knows[r.address] = "erased"
       /\ host' = [host EXCEPT !.request = r, !.sent = 0]
  /\ UNCHANGED <<at, retry_count, do_handshake, i, buffer, baud, flash, rx, tx>>

HostSends ==
  /\ host.request # None
  /\ Sends("request", Size(host.request))
  /\ host' = [host EXCEPT !.sent = @ + 1]
  /\ UNCHANGED <<at, retry_count, do_handshake, i, buffer, baud, flash, tx>>

(* What the tool makes of the answer to its request.                       *)
Learns(r, content) ==
  CASE r.code = "WRITE" /\ r.length # 0 -> [host.knows EXCEPT ![r.address] = r.data]
    [] r.code = "BLOCK_ERASE" -> [host.knows EXCEPT ![r.address] = "erased"]
    [] r.code = "READ" -> [host.knows EXCEPT ![r.address] = content]
    [] OTHER -> host.knows

HostReads ==
  /\ tx # <<>> /\ host.at \in {"listens", "session"}
  /\ tx' = Tail(tx)
  /\ LET t == Head(tx)
         r == host.request
     IN  host' = IF t.baud # host.baud THEN host
                 ELSE IF t.what = "freqchip" THEN [host EXCEPT !.at = "answers", !.sent = 0]
                 ELSE IF t.what = "ok" THEN [host EXCEPT !.at = "session"]
                 ELSE [host EXCEPT
                         !.request = None,
                         !.knows = Learns(r, t.content),
                         !.baud = IF r.code = "CHANGE_BANDRATE" THEN r.address ELSE @,
                         !.at = IF r.code = "DISCONNECT" /\ r.address # 0 THEN "gone" ELSE @]
  /\ UNCHANGED <<at, retry_count, do_handshake, i, buffer, baud, flash, rx>>

-----------------------------------------------------------------------------
InSession == {"header", "payload", "command", "answer"}

Contents == {"old", "erased", "garbled"} \cup Data

TypeOK ==
  /\ at \in {"request", "poll", "compare", "decide", "app", "lost"} \cup InSession
  /\ retry_count \in 0 .. 3 /\ do_handshake \in {0, 1} /\ i \in 0 .. wait_to_ms
  /\ buffer \in Seq({"stray", "ack", "request"} \X Nat)
  /\ rx \in Seq({"stray", "ack", "request"} \X Nat)
  /\ baud \in Bauds /\ flash \in [Sectors -> Contents]
  /\ host.at \in {"listens", "answers", "session", "gone"}
  /\ host.baud \in Bauds /\ host.request \in Requests \cup {None}
  /\ host.knows \in [Sectors -> Contents \cup {"unknown"}]
  /\ protected \in BOOLEAN

OnItsWay(what) == \E k \in 1 .. Len(tx) : tx[k].what = what

(* In the session, the bytes the DSP has taken and those that wait are the *)
(* beginning of the one request the tool has sent: nothing of the          *)
(* handshake is ever taken for a header.                                   *)
LoopIsInStep ==
  at \in InSession =>
    buffer \o rx = IF host.request = None \/ OnItsWay(host.request.code) THEN <<>>
                   ELSE Message("request", host.sent)

(* The tool is in a session exactly when the DSP is, but for a message     *)
(* that is on its way, and both use the same rate between requests.        *)
SessionAgreed ==
  /\ host.at = "session" =>
       at \in InSession \/ (host.request # None /\ host.request.code = "DISCONNECT")
  /\ at \in InSession => host.at = "session" \/ OnItsWay("ok")
  /\ host.at = "session" /\ host.request = None => host.baud = baud

(* The answer's buffer is overrun in the first offer only by a byte that   *)
(* was on the line before it; in a later one the answer to an earlier      *)
(* offer is enough, in front of the next.                                  *)
OverrunTakesMore == at = "lost" => retry_count < 3 \/ buffer[1] = <<"stray", 1>>

(* The variables keep their types, both sides know of the session, and a   *)
(* tool that answers the first offer on a quiet line destroys nothing.     *)
SessionInv == TypeOK /\ SessionAgreed /\ OverrunTakesMore

(* "initialise qspi, to support burning the flash": what the tool has been *)
(* told of the flash is so, after any reset.                               *)
BurningIsSupported ==
  \A s \in Sectors :
    host.knows[s] # "unknown" /\ (host.request # None => host.request.address # s)
      => flash[s] = host.knows[s]

(* It is so as long as the chip was not left protected.                    *)
BurnedAsAnswered == ~protected => BurningIsSupported

(* Each request is answered, in the session's end too.                     *)
RequestIsAnswered == host.request # None ~> host.request = None
=============================================================================
