------------------------------- MODULE HostLink -------------------------------
(***************************************************************************)
(* One HSM and its host on UART0: the main loop with its watchdog, the     *)
(* exchange of every command that does not stream a file (list, receive,   *)
(* interrogate, listen), error reports, and the handlers of UART errors    *)
(* and faults.  All reads are blocking polls; only the main loop restarts  *)
(* the watchdog.                                                           *)
(*                                                                         *)
(* Bytes towards the HSM are single: "%", an operation, "0" for a length   *)
(* or an argument, PIN digits right and wrong.  Towards the host a message *)
(* is what is sent between two waits.  Time is `now`, the ticks (quarters  *)
(* of a second) since the watchdog was restarted: it passes while the CPU  *)
(* hashes or delays, and while it polls for a host or a peer that is late. *)
(* Operators marked "Fault" are wrong variants no specification uses.      *)
(***************************************************************************)
EXTENDS Naturals, SequencesExt

CONSTANTS
  CHUNK_SIZE, NUM_SLOTS,
  ENTRY_SIZE,    \* bytes of a message_list_file_entry_t
  COUNT_SIZE,    \* bytes of num_files
  ERROR_LENGTH,  \* bytes of an error message
  PIN_LENGTH,    \* bytes of a PIN
  FIFO_DEPTH,
  WATCHDOG,      \* ticks until the watchdog resets the device
  HASH,          \* ticks that hashing a PIN takes
  PIN_DELAY,     \* ticks a wrong PIN or a fault costs
  Junk,          \* bytes a confused host may send
  MaxEvents      \* bound on commands, bytes of junk and disturbances in all

Digits == {"p", "q"}          \* hexadecimal digits of the PIN: right and wrong
Operations == {"L", "C", "I", "N", "A"}
Bytes  == {"%", "0", "x"} \cup Digits \cup Operations
HexDigits == {"p", "q", "0", "A", "C"}

ASSUME HostAssumption ==
  /\ CHUNK_SIZE \in Nat \ {0} /\ NUM_SLOTS \in Nat /\ ENTRY_SIZE \in Nat
  /\ COUNT_SIZE \in Nat /\ ERROR_LENGTH \in Nat /\ PIN_LENGTH \in Nat \ {0}
  /\ FIFO_DEPTH \in Nat \ {0}
  /\ WATCHDOG \in Nat /\ HASH \in Nat /\ PIN_DELAY \in Nat
  /\ Junk \subseteq Bytes /\ MaxEvents \in Nat

VARIABLES
  fifo,    \* bytes sent to the HSM and not yet read
  toHost,  \* messages sent to the host and not yet read
  hsm,     \* where the program stands, see HsmIdle
  host,    \* the host tool, see HostIdle
  now,     \* ticks since the watchdog was restarted
  late,    \* history: since then the CPU has polled for a whole tick
  clean,   \* history: the host keeps to the protocol and the line is good
  events   \* history: events so far

hostVars == <<fifo, toHost, hsm, host, now, late, clean, events>>

\* pc names the wait or computation the program is at; a blocking read has
\* `need` bytes to go; `op` is the running command, `pin` whether the digits so
\* far are hexadecimal and right; `body` the arguments of utils_send_buffer and
\* its loop counter; `handler` whether an interrupt handler is running.
NoBody  == [length |-> 0, offset |-> 0, sent |-> 0]
HsmIdle == [pc |-> "idle", need |-> 4, op |-> "0", pin |-> "right", body |-> NoBody,
            handler |-> FALSE]

\* The host tool: the command it runs, what it waits for, the bytes it is
\* sending, and how much of a reply has come.
HostIdle == [cmd |-> "0", wait |-> "none", out |-> <<>>, length |-> 0, got |-> 0]

HostInit ==
  /\ fifo = <<>> /\ toHost = <<>> /\ hsm = HsmIdle /\ host = HostIdle
  /\ now = 0 /\ late = FALSE /\ clean = TRUE /\ events = 0

-----------------------------------------------------------------------------
(* The commands. *)

Header(op) == <<"%", op, "0", "0">>
HasPin(op) == op \in {"L", "C", "I"}
Arguments(op) == IF op = "C" THEN 2 ELSE 0
Reply(op, length) == [type |-> "head", op |-> op, length |-> length]
Ack == Reply("A", 0)
Text(n) == [type |-> "text", op |-> "0", length |-> n]

\* The operations the main loop passes on to a command of this module.
Commands == {"L", "C", "I", "N"}

\* Fault: four times a quarter of a second, as the formula 32 * 10^6 reads.
ErrorDelay_asWritten == 4

\* message_header_send_error delays for 32 * 10^6 cycles, in C an exclusive or:
\* 326 cycles, no tick.
ErrorDelay == 0

\* Both lists announce the counter and their entries.
ListLength(n) == COUNT_SIZE + n * ENTRY_SIZE

\* list sends its response in one buffer.  interrogate sends the counter first,
\* without waiting, and the entries with an offset.
ListBody(op, n) ==
  IF op = "L" THEN [length |-> ListLength(n), offset |-> 0, sent |-> 0]
  ELSE [length |-> n * ENTRY_SIZE, offset |-> COUNT_SIZE, sent |-> 0]

ErrorBody == [length |-> ERROR_LENGTH, offset |-> 0, sent |-> 0]

\* Fault: every run is as long as a chunk allows.
NextStop_fullRuns(b) ==
  Min({i \in b.sent + 1 .. b.sent + CHUNK_SIZE : (b.offset + i) % CHUNK_SIZE = 0})

\* utils_send_buffer: the byte after which the next wait or the end of the loop comes.
NextStop(b) ==
  Min({b.length} \cup {i \in b.sent + 1 .. b.length : (b.offset + i) % CHUNK_SIZE = 0})

AtChunk(b) == b.sent > 0 /\ (b.offset + b.sent) % CHUNK_SIZE = 0

\* Fault: an empty buffer is not acknowledged.
FinalAck_nonEmpty(b) == b.length % CHUNK_SIZE # 0

FinalAck(b) == b.length % CHUNK_SIZE # 0 \/ b.length = 0

-----------------------------------------------------------------------------
(* Time. *)

\* What the computation the program is at will take.
Busy ==
  IF hsm.pc = "hash" /\ hsm.pin # "bad" THEN HASH
  ELSE IF hsm.pc = "delay" THEN PIN_DELAY
  ELSE IF hsm.pc = "report" THEN ErrorDelay
  ELSE 0

Expires == now + Busy >= WATCHDOG

\* The main loop restarts the watchdog before it polls.
InLoop == hsm.pc = "idle" /\ hsm.need = 4

Reading == hsm.pc \in {"idle", "pin", "headAck", "chunkAck", "finalAck"}
CanRead == Reading /\ fifo # <<>> /\ ~Expires
Blocked == (Reading /\ fifo = <<>> /\ ~InLoop) \/ hsm.pc = "peer"

\* Fault: polling for a byte restarts the watchdog.
Tick_restarts ==
  /\ Blocked /\ ~Expires
  /\ now' = 0 /\ late' = TRUE
  /\ UNCHANGED <<fifo, toHost, hsm, host, clean, events>>

\* The program polls in vain.  A command waits for one tick in all, or until the
\* watchdog has run out: waits in between make no further difference.
Tick ==
  /\ Blocked /\ ~Expires
  /\ now' \in {WATCHDOG} \cup (IF late THEN {} ELSE {now + 1})
  /\ late' = TRUE
  /\ UNCHANGED <<fifo, toHost, hsm, host, clean, events>>

\* A reset, by the watchdog or by a handler, empties the FIFO; what was sent to the
\* host is on its way.
Reset ==
  /\ hsm' = HsmIdle /\ fifo' = <<>> /\ now' = 0 /\ late' = FALSE /\ clean' = FALSE
  /\ UNCHANGED <<toHost, host, events>>

Watchdog == Expires /\ Reset

-----------------------------------------------------------------------------
(* The program. *)

\* The program goes on at h; the main loop restarts the watchdog.
GoOn(h) ==
  /\ hsm' = h
  /\ IF h = HsmIdle THEN now' = 0 /\ late' = FALSE ELSE UNCHANGED <<now, late>>
  /\ UNCHANGED <<host, clean, events>>

Wait(h, pc) == [h EXCEPT !.pc = pc, !.need = 4]

\* The end of a command, or of a handler, which resets the device.
Done(h) == IF h.handler THEN [h EXCEPT !.pc = "restart"] ELSE HsmIdle

\* What follows each wait for an ACK: a reply without a body ends with its header.
AfterAck(h) ==
  IF h.pc = "finalAck" \/ (h.pc = "headAck" /\ h.op \in {"C", "N"}) THEN Done(h)
  ELSE [h EXCEPT !.pc = IF h.pc = "headAck" /\ h.op = "I" THEN "count" ELSE "body"]

\* The first byte of a header.  Whatever it is, receive_ack is content; the main
\* loop drops it unless it is the magic byte.
ReadMagic ==
  /\ CanRead /\ hsm.pc # "pin" /\ hsm.need = 4
  /\ fifo' = Tail(fifo)
  /\ GoOn(IF Head(fifo) = "%" THEN [hsm EXCEPT !.need = 3]
          ELSE IF hsm.pc = "idle" THEN hsm ELSE AfterAck(hsm))
  /\ UNCHANGED toHost

\* The operation, which receive_ack does not look at, and the length.
ReadHeader ==
  /\ CanRead /\ hsm.pc # "pin" /\ hsm.need \in {2, 3}
  /\ fifo' = Tail(fifo)
  /\ GoOn([hsm EXCEPT !.need = @ - 1,
                      !.op = IF hsm.pc = "idle" /\ hsm.need = 3 THEN Head(fifo) ELSE @])
  /\ UNCHANGED toHost

EndAck ==
  /\ CanRead /\ hsm.pc \notin {"pin", "idle"} /\ hsm.need = 1
  /\ fifo' = Tail(fifo)
  /\ GoOn(AfterAck(hsm))
  /\ UNCHANGED toHost

\* The switch of the main loop; each command first acknowledges its header.
Dispatch ==
  /\ CanRead /\ hsm.pc = "idle" /\ hsm.need = 1
  /\ fifo' = Tail(fifo)
  /\ IF hsm.op \notin Commands THEN GoOn(HsmIdle) /\ UNCHANGED toHost
     ELSE /\ toHost' = Append(toHost, Ack)
          /\ GoOn(IF HasPin(hsm.op)
                  THEN [hsm EXCEPT !.pc = "pin", !.need = PIN_LENGTH + Arguments(hsm.op)]
                  ELSE Wait(hsm, "peer"))

\* utils_receive_bytes of the PIN and the arguments after it, and the second ACK.
JudgeDigit(pin, byte) ==
  IF byte \notin HexDigits \/ pin = "bad" THEN "bad"
  ELSE IF byte = "p" THEN pin ELSE "wrong"

ReadPin ==
  /\ CanRead /\ hsm.pc = "pin"
  /\ fifo' = Tail(fifo)
  /\ GoOn([hsm EXCEPT !.need = @ - 1,
                      !.pc = IF hsm.need = 1 THEN "hash" ELSE @,
                      !.pin = IF hsm.need > Arguments(hsm.op) THEN JudgeDigit(@, Head(fifo)) ELSE @])
  /\ toHost' = IF hsm.need = 1 THEN Append(toHost, Ack) ELSE toHost

\* Spend the time of a computation.
Compute(h) ==
  /\ ~Expires
  /\ now' = now + Busy /\ hsm' = h
  /\ UNCHANGED <<fifo, host, late, clean, events>>

\* list answers by itself; the others turn to the peer, receive unless a slot
\* number is out of range.
VerifyPin ==
  /\ hsm.pc = "hash"
  /\ \/ hsm.pin # "right" /\ Compute(Wait(hsm, "delay")) /\ UNCHANGED toHost
     \/ hsm.pin = "right" /\ hsm.op # "L" /\ Compute(Wait(hsm, "peer")) /\ UNCHANGED toHost
     \/ hsm.pin = "right" /\ hsm.op = "C" /\ Compute(Wait(hsm, "report")) /\ UNCHANGED toHost
     \/ /\ hsm.pin = "right" /\ hsm.op = "L"
        /\ \E n \in 0 .. NUM_SLOTS :
             /\ Compute([Wait(hsm, "headAck") EXCEPT !.body = ListBody("L", n)])
             /\ toHost' = Append(toHost, Reply("L", ListLength(n)))

\* The dialogue with the other HSM (module HsmLink) ended, well or not.  Tick counts its
\* time like that of a late peer, be it spent on X25519, AES or the wire (a file entry takes
\* three quarters of a second at 115200 baud) or waiting.
PeerDone ==
  /\ hsm.pc = "peer" /\ ~Expires
  /\ UNCHANGED fifo
  /\ \/ GoOn(Wait(hsm, "report")) /\ UNCHANGED toHost
     \/ /\ hsm.op # "I"
        /\ GoOn(Wait(hsm, "headAck")) /\ toHost' = Append(toHost, Reply(hsm.op, 0))
     \/ /\ hsm.op = "I"
        /\ \E n \in 0 .. NUM_SLOTS :
             /\ GoOn([Wait(hsm, "headAck") EXCEPT !.body = ListBody("I", n)])
             /\ toHost' = Append(toHost, Reply("I", ListLength(n)))

\* delay_cycles(PIN_DELAY) of a wrong PIN and of the handlers.
PinDelay == hsm.pc = "delay" /\ Compute(Wait(hsm, "report")) /\ UNCHANGED toHost

\* message_header_send_error up to its first wait.
Report ==
  /\ hsm.pc = "report"
  /\ Compute([Wait(hsm, "headAck") EXCEPT !.op = "E", !.body = ErrorBody])
  /\ toHost' = Append(toHost, Reply("E", ERROR_LENGTH))

SendCount ==
  /\ hsm.pc = "count" /\ ~Expires
  /\ toHost' = Append(toHost, Text(COUNT_SIZE))
  /\ GoOn([hsm EXCEPT !.pc = "body"]) /\ UNCHANGED fifo

\* utils_send_buffer up to the next wait in its loop.
SendRun ==
  LET next == [hsm.body EXCEPT !.sent = NextStop(hsm.body)] IN
  /\ hsm.pc = "body" /\ hsm.body.sent < hsm.body.length /\ ~Expires
  /\ toHost' = Append(toHost, Text(next.sent - hsm.body.sent))
  /\ GoOn([hsm EXCEPT !.body = next, !.need = 4,
                      !.pc = IF AtChunk(next) THEN "chunkAck" ELSE "body"])
  /\ UNCHANGED fifo

EndBody ==
  /\ hsm.pc = "body" /\ hsm.body.sent = hsm.body.length /\ ~Expires
  /\ GoOn(IF FinalAck(hsm.body) THEN Wait(hsm, "finalAck") ELSE Done(hsm))
  /\ UNCHANGED <<fifo, toHost>>

Restart == hsm.pc = "restart" /\ Reset

\* The main loop finds nothing.
Poll == InLoop /\ fifo = <<>> /\ UNCHANGED hostVars

\* An interrupt handler takes over, at any moment of a computation: for a broken,
\* damaged or lost byte, a fault or an NMI.  Afterwards the device is reset, so a
\* second interrupt waits for ever.  It is remembered whether a PIN delay was begun.
Interrupt ==
  IF hsm.handler THEN UNCHANGED <<hsm, now>>
  ELSE /\ hsm' = [HsmIdle EXCEPT !.pc = "delay", !.handler = TRUE,
                                 !.pin = IF hsm.pc \in {"pin", "hash"} THEN "right" ELSE hsm.pin]
       /\ now' \in now .. now + Busy

-----------------------------------------------------------------------------
(* The host and the line. *)

\* What the CPU does in less time than a byte takes on the line.
Instant ==
  \/ CanRead
  \/ ~Expires /\ hsm.pc = "count"
  \/ ~Expires /\ hsm.pc = "body" /\ hsm.body.sent = hsm.body.length
  \/ ~Expires /\ hsm.pc \in {"hash", "report"} /\ Busy = 0

\* A byte arrives; the CPU reads a byte it polls for before the next is complete.
Arrive(byte) ==
  /\ ~Instant /\ now < WATCHDOG
  /\ IF Len(fifo) < FIFO_DEPTH
     THEN fifo' = Append(fifo, byte) /\ UNCHANGED <<hsm, now>>
     ELSE Interrupt /\ UNCHANGED fifo
  /\ UNCHANGED <<toHost, late>>

HostSend ==
  /\ host.out # <<>>
  /\ Arrive(Head(host.out))
  /\ host' = [host EXCEPT !.out = Tail(@)]
  /\ UNCHANGED <<clean, events>>

Event == events < MaxEvents /\ events' = events + 1

HostStart ==
  /\ Event /\ host.wait = "none" /\ host.out = <<>>
  /\ \E cmd \in Commands :
       host' = [HostIdle EXCEPT !.cmd = cmd, !.wait = "ack", !.out = Header(cmd)]
  /\ clean' = (clean \/ (InLoop /\ fifo = <<>> /\ toHost = <<>>))
  /\ UNCHANGED <<fifo, toHost, hsm, now, late>>

\* The ACKs a host owes for n more bytes of a body: one for each whole chunk and
\* one for a rest.
Owed(n) ==
  LET got == host.got + n
      chunks == {i \in host.got + 1 .. got : i % CHUNK_SIZE = 0}
      rest == IF got = host.length /\ got % CHUNK_SIZE # 0 THEN 1 ELSE 0
  IN  Cardinality(chunks) + rest

HostReads(h) ==
  /\ toHost # <<>> /\ toHost' = Tail(toHost)
  /\ host' = h
  /\ UNCHANGED <<fifo, hsm, now, late, clean, events>>

Pins == [1 .. PIN_LENGTH -> Digits \cup {"x"}]

\* After the first ACK comes the PIN, after the second the reply.
HostAcked ==
  /\ toHost # <<>> /\ Head(toHost) = Ack /\ host.wait \in {"ack", "ack2"}
  /\ IF host.wait = "ack" /\ HasPin(host.cmd)
     THEN \E pin \in Pins :
            HostReads([host EXCEPT !.wait = "ack2",
                                   !.out = pin \o [i \in 1 .. Arguments(host.cmd) |-> "0"]])
     ELSE HostReads([host EXCEPT !.wait = "reply"])

\* An error may come at any time, the reply in its place.
Expected(m) ==
  /\ m.type = "head"
  /\ \/ m.op = "E" /\ host.wait \in {"ack", "ack2", "reply"}
     \/ m.op = host.cmd /\ host.wait = "reply"

HostReply ==
  LET m == Head(toHost) IN
  /\ toHost # <<>> /\ Expected(m)
  /\ HostReads([host EXCEPT !.wait = IF m.length = 0 THEN "none" ELSE "body",
                            !.out = Header("A"), !.length = m.length, !.got = 0])

HostBody ==
  LET m == Head(toHost) IN
  /\ toHost # <<>> /\ m.type = "text" /\ host.wait = "body"
  /\ host.got + m.length <= host.length
  /\ HostReads([host EXCEPT !.got = @ + m.length,
                            !.wait = IF host.got + m.length = host.length THEN "none" ELSE @,
                            !.out = @ \o FlattenSeq([i \in 1 .. Owed(m.length) |-> Header("A")])])

\* Anything else confuses it, and it stops.
HostConfused ==
  LET m == Head(toHost) IN
  /\ toHost # <<>> /\ host.wait # "confused"
  /\ ~(m = Ack /\ host.wait \in {"ack", "ack2"})
  /\ ~Expected(m)
  /\ ~(m.type = "text" /\ host.wait = "body" /\ host.got + m.length <= host.length)
  /\ HostReads([HostIdle EXCEPT !.wait = "confused"])

\* The host tool is stopped, and started again later.
HostGivesUp ==
  /\ host.wait # "none"
  /\ host' = HostIdle /\ toHost' = <<>> /\ clean' = FALSE
  /\ UNCHANGED <<fifo, hsm, now, late, events>>

HostJunk ==
  /\ Event
  /\ \E byte \in Junk : Arrive(byte)
  /\ clean' = FALSE
  /\ UNCHANGED host

\* Noise on the line damages a byte; or the CPU takes a fault or an NMI.
Disturbed ==
  /\ Event /\ Interrupt
  /\ fifo' \in {fifo} \cup (IF Len(fifo) < FIFO_DEPTH THEN {Append(fifo, "x")} ELSE {})
  /\ clean' = FALSE
  /\ UNCHANGED <<toHost, host, late>>

Program ==
  \/ ReadMagic \/ ReadHeader \/ EndAck \/ Dispatch \/ ReadPin \/ VerifyPin \/ PinDelay
  \/ Report \/ SendCount \/ SendRun \/ EndBody \/ Restart

HostNext ==
  \/ Program \/ Poll \/ PeerDone \/ Tick \/ Watchdog
  \/ HostSend \/ HostStart \/ HostAcked \/ HostReply \/ HostBody \/ HostConfused
  \/ HostGivesUp \/ HostJunk \/ Disturbed

HostSpec == HostInit /\ [][HostNext]_hostVars

\* The CPU runs and time passes; host and peer owe nothing.
HostFairSpec ==
  HostSpec /\ WF_hostVars(Program) /\ WF_hostVars(Tick) /\ WF_hostVars(Watchdog)

-----------------------------------------------------------------------------
(* Properties. *)

\* Types; a read never counts past its end, nor does utils_send_buffer.
HostTypeOK ==
  /\ fifo \in Seq(Bytes) /\ Len(fifo) <= FIFO_DEPTH
  /\ hsm.pc \in {"idle", "pin", "hash", "delay", "peer", "report", "headAck", "count",
                 "body", "chunkAck", "finalAck", "restart"}
  /\ hsm.need \in 0 .. 4 \cup 0 .. PIN_LENGTH + 2 /\ hsm.op \in Bytes \cup {"E"}
  /\ hsm.pin \in {"right", "wrong", "bad"} /\ hsm.handler \in BOOLEAN
  /\ hsm.body.sent \in 0 .. hsm.body.length
  /\ host.wait \in {"none", "ack", "ack2", "reply", "body", "confused"}
  /\ host.got \in 0 .. host.length
  /\ now \in 0 .. WATCHDOG + PIN_DELAY /\ late \in BOOLEAN /\ clean \in BOOLEAN
  /\ events \in 0 .. MaxEvents

\* A host that keeps to the protocol is never met by something it does not expect
\* nor a cause of an overrun; HSM and host count the same ACKs, so neither waits
\* for the other for ever; a finished command leaves nothing on the line, and the
\* main loop never takes an ACK for a command.
InStep ==
  clean =>
    /\ host.wait # "confused" /\ ~hsm.handler
    /\ host.out = <<>> /\ fifo = <<>> /\ toHost = <<>> /\ Reading
         => (InLoop <=> host.wait = "none")
    /\ host.out = <<>> /\ host.wait = "none" /\ InLoop => fifo = <<>> /\ toHost = <<>>
    /\ hsm.pc = "idle" /\ ~InLoop => host.wait = "ack"

\* The watchdog does not strike while host and peer are prompt: hashing, the PIN
\* delay and the report of a wrong PIN, or of a fault, fit in its period.  The one
\* exception is a fault after a PIN delay was begun.  A dialogue of a tick or more is late:
\* it may use up what the PIN delay of a handler after it needs.
PromptInTime == Expires => late \/ (hsm.handler /\ hsm.pin # "right")

\* misc.md, Stalls: whatever bytes and faults came, and wherever the host or the
\* peer fell silent, the HSM finally polls for a command with an empty FIFO.
Recovers == <>[](InLoop /\ fifo = <<>>)
=============================================================================
