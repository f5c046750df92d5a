---------------------------- MODULE HostLinkProofs ----------------------------
(***************************************************************************)
(* The watchdog and a prompt host, for every hashing time and delay: what  *)
(* matters is that one hash and one PIN delay fit in the period together.  *)
(* The invariant bounds, for each place in the program, the time spent     *)
(* since the main loop was left (Spent).                                   *)
(*                                                                         *)
(* The dialogue with a host that keeps to the protocol, for any sizes that *)
(* meet (SizesMeet): for each place in the program the invariant says what *)
(* is on the line and what the host waits for (Talk).                      *)
(***************************************************************************)
EXTENDS HostLink, FiniteSetTheorems, SequenceTheorems, TLAPS

\* Only commands hash, only the right PIN leads on to the peer, and only a wrong one
\* or a handler to the delay.
Placed(h) ==
  /\ DOMAIN h = {"pc", "need", "op", "pin", "body", "handler"} /\ h.handler \in BOOLEAN
  /\ h.pc \in {"idle", "pin", "hash", "peer"} => ~h.handler
  /\ h.pc \in {"idle", "peer"} => h.pin = "right"
  /\ h.pc = "delay" /\ ~h.handler => h.pin # "right"

\* The ticks a command or a handler may have used so far.
Spent(h) ==
  IF h.pc \in {"idle", "pin", "hash"} THEN 0
  ELSE IF h.pc = "delay" \/ (h.pin = "right" /\ ~h.handler) THEN HASH
  ELSE HASH + PIN_DELAY

\* A handler that came after a PIN delay was begun.
Unlucky(h) == h.handler /\ h.pin # "right"

TimeInv ==
  /\ Placed(hsm) /\ now \in Nat
  /\ late \/ Unlucky(hsm) \/ now <= Spent(hsm)

-----------------------------------------------------------------------------
LEMMA IdlePlaced == Placed(HsmIdle) /\ Spent(HsmIdle) = 0
BY DEF Placed, Spent, HsmIdle

LEMMA ResetTime == ASSUME Reset PROVE TimeInv'
<1>1. hsm' = HsmIdle /\ now' = 0 /\ late' = FALSE
  BY DEF Reset
<1> QED
  BY <1>1, IdlePlaced DEF TimeInv

\* The program goes on without spending time.
LEMMA GoOnTime ==
  ASSUME TimeInv, NEW h, GoOn(h),
         h = HsmIdle \/ (Placed(h) /\ Spent(hsm) <= Spent(h) /\ (Unlucky(hsm) => Unlucky(h)))
  PROVE  TimeInv'
<1>1. CASE h = HsmIdle
  <2>1. hsm' = HsmIdle /\ now' = 0
    BY <1>1 DEF GoOn
  <2> QED
    BY <2>1, IdlePlaced DEF TimeInv
<1>2. CASE h # HsmIdle
  <2>1. hsm' = h /\ now' = now /\ late' = late
    BY <1>2 DEF GoOn
  <2>2. Spent(hsm) \in Nat /\ Spent(h) \in Nat
    BY HostAssumption DEF Spent
  <2> QED
    BY <1>2, <2>1, <2>2 DEF TimeInv
<1> QED
  BY <1>1, <1>2

\* What follows an ACK keeps the PIN and the handler, and bounds no less.
LEMMA AfterAckTime ==
  ASSUME TimeInv, hsm.pc \in {"headAck", "chunkAck", "finalAck"}
  PROVE  LET h == AfterAck(hsm)
         IN  h = HsmIdle \/ (Placed(h) /\ Spent(hsm) <= Spent(h) /\ (Unlucky(hsm) => Unlucky(h)))
<1> DEFINE h == AfterAck(hsm)
<1>1. CASE h = HsmIdle
  BY <1>1
<1>2. CASE h # HsmIdle
  <2>1. PICK pc \in {"restart", "count", "body"} : h = [hsm EXCEPT !.pc = pc]
    BY <1>2 DEF AfterAck, Done
  <2>2. h.pc = pc /\ h.pin = hsm.pin /\ h.handler = hsm.handler /\ DOMAIN h = DOMAIN hsm
    BY <2>1 DEF TimeInv, Placed
  <2>3. Placed(h)
    BY <2>2 DEF TimeInv, Placed
  <2>4. Spent(h) = Spent(hsm) /\ Spent(h) \in Nat
    BY <2>2, HostAssumption DEF Spent
  <2> QED
    BY <2>2, <2>3, <2>4 DEF Unlucky
<1> QED
  BY <1>1, <1>2

\* A computation takes what Busy says.
LEMMA ComputeTime ==
  ASSUME TimeInv, NEW h, Compute(h), Placed(h), Unlucky(hsm) => Unlucky(h),
         Busy \in Nat, Spent(hsm) + Busy <= Spent(h)
  PROVE  TimeInv'
<1>1. hsm' = h /\ now' = now + Busy /\ late' = late
  BY DEF Compute
<1>2. Spent(hsm) \in Nat /\ Spent(h) \in Nat
  BY HostAssumption DEF Spent
<1> QED
  BY <1>1, <1>2 DEF TimeInv

LEMMA InterruptTime ==
  ASSUME TimeInv, Interrupt, late' = late
  PROVE  TimeInv'
<1>1. CASE hsm.handler
  <2>1. hsm' = hsm /\ now' = now
    BY <1>1 DEF Interrupt
  <2> QED
    BY <2>1 DEF TimeInv
<1>2. CASE ~hsm.handler
  <2> DEFINE pin == IF hsm.pc \in {"pin", "hash"} THEN "right" ELSE hsm.pin
  <2>1. hsm' = [HsmIdle EXCEPT !.pc = "delay", !.handler = TRUE, !.pin = pin]
    BY <1>2 DEF Interrupt
  <2>2. /\ DOMAIN hsm' = {"pc", "need", "op", "pin", "body", "handler"}
        /\ hsm'.pc = "delay" /\ hsm'.handler /\ hsm'.pin = pin
    BY <2>1 DEF HsmIdle
  <2>3. Placed(hsm)'
    BY <2>1, <2>2 DEF Placed
  <2>4. Busy \in Nat /\ now \in Nat /\ now' \in now .. now + Busy
    BY <1>2, HostAssumption DEF Interrupt, Busy, ErrorDelay, TimeInv
  <2>5. late \/ Unlucky(hsm') \/ now' <= HASH
    <3>1. CASE pin # "right"
      BY <2>2, <3>1 DEF Unlucky
    <3>2. CASE pin = "right"
      <4>1. late \/ now + Busy <= HASH
        BY <1>2, <3>2, HostAssumption DEF TimeInv, Placed, Spent, Unlucky, Busy, ErrorDelay
      <4> QED
        BY <2>4, <4>1, HostAssumption
    <3> QED
      BY <3>1, <3>2
  <2>6. Spent(hsm)' = HASH
    BY <2>2 DEF Spent
  <2> QED
    BY <2>3, <2>4, <2>5, <2>6 DEF TimeInv
<1> QED
  BY <1>1, <1>2

-----------------------------------------------------------------------------
LEMMA TimeInit == HostInit => TimeInv
BY IdlePlaced DEF HostInit, TimeInv

\* The records a step builds from hsm have its fields.
LEMMA ReadTime ==
  ASSUME TimeInv, ReadMagic \/ ReadHeader \/ EndAck \/ Dispatch \/ ReadPin
  PROVE  TimeInv'
<1>1. CASE ReadMagic
  <2> DEFINE h == IF Head(fifo) = "%" THEN [hsm EXCEPT !.need = 3]
                  ELSE IF hsm.pc = "idle" THEN hsm ELSE AfterAck(hsm)
  <2>1. GoOn(h)
    BY <1>1 DEF ReadMagic
  <2>2. h = HsmIdle \/ (Placed(h) /\ Spent(hsm) <= Spent(h) /\ (Unlucky(hsm) => Unlucky(h)))
    <3>1. Spent(hsm) \in Nat
      BY HostAssumption DEF Spent
    <3>2. CASE h = AfterAck(hsm) /\ hsm.pc # "idle"
      <4>1. hsm.pc \in {"headAck", "chunkAck", "finalAck"}
        BY <1>1, <3>2 DEF ReadMagic, CanRead, Reading
      <4> QED
        BY <3>2, <4>1, AfterAckTime
    <3>3. CASE h = hsm
      BY <3>1, <3>3 DEF TimeInv
    <3>4. CASE h = [hsm EXCEPT !.need = 3]
      <4>1. Placed(h) /\ Spent(h) = Spent(hsm) /\ Unlucky(h) = Unlucky(hsm)
        BY <3>4 DEF TimeInv, Placed, Spent, Unlucky
      <4> QED
        BY <3>1, <4>1
    <3> QED
      BY <3>2, <3>3, <3>4
  <2> QED
    BY <2>1, <2>2, GoOnTime
<1>2. CASE ReadHeader
  <2> DEFINE op == IF hsm.pc = "idle" /\ hsm.need = 3 THEN Head(fifo) ELSE hsm.op
             h == [hsm EXCEPT !.need = hsm.need - 1, !.op = op]
  <2>1. GoOn(h)
    BY <1>2 DEF ReadHeader
  <2>2. Placed(h) /\ Spent(h) = Spent(hsm) /\ Spent(h) \in Nat /\ Unlucky(h) = Unlucky(hsm)
    BY HostAssumption DEF TimeInv, Placed, Spent, Unlucky
  <2> QED
    BY <2>1, <2>2, GoOnTime
<1>3. CASE EndAck
  <2>1. GoOn(AfterAck(hsm)) /\ hsm.pc \in {"headAck", "chunkAck", "finalAck"}
    BY <1>3 DEF EndAck, CanRead, Reading
  <2> QED
    BY <2>1, AfterAckTime, GoOnTime
<1>4. CASE Dispatch
  <2>1. CASE hsm.op \notin Commands
    BY <1>4, <2>1, GoOnTime DEF Dispatch
  <2>2. CASE hsm.op \in Commands
    <3> DEFINE h == IF HasPin(hsm.op)
                    THEN [hsm EXCEPT !.pc = "pin", !.need = PIN_LENGTH + Arguments(hsm.op)]
                    ELSE Wait(hsm, "peer")
    <3>1. GoOn(h) /\ hsm.pc = "idle"
      BY <1>4, <2>2 DEF Dispatch
    <3>2. Placed(h) /\ Spent(hsm) = 0 /\ Spent(h) \in Nat /\ ~Unlucky(hsm)
      BY <3>1, HostAssumption DEF TimeInv, Placed, Spent, Unlucky, Wait
    <3> QED
      BY <3>1, <3>2, GoOnTime
  <2> QED
    BY <2>1, <2>2
<1>5. CASE ReadPin
  <2> DEFINE h == [hsm EXCEPT !.need = @ - 1,
                       !.pc = IF hsm.need = 1 THEN "hash" ELSE @,
                       !.pin = IF hsm.need > Arguments(hsm.op) THEN JudgeDigit(@, Head(fifo)) ELSE @]
  <2>1. GoOn(h) /\ hsm.pc = "pin"
    BY <1>5 DEF ReadPin
  <2>2. Placed(h) /\ Spent(hsm) = 0 /\ Spent(h) = 0 /\ ~Unlucky(hsm)
    BY <2>1 DEF TimeInv, Placed, Spent, Unlucky
  <2> QED
    BY <2>1, <2>2, GoOnTime
<1> QED
  BY <1>1, <1>2, <1>3, <1>4, <1>5

LEMMA VerifyPinTime ==
  ASSUME TimeInv, VerifyPin
  PROVE  TimeInv'
<1>1. /\ hsm.pc = "hash" /\ Busy \in Nat /\ Busy <= HASH
      /\ Placed(hsm) /\ ~hsm.handler /\ Spent(hsm) = 0 /\ ~Unlucky(hsm)
  BY HostAssumption DEF VerifyPin, TimeInv, Placed, Spent, Unlucky, Busy
<1>2. ASSUME NEW h, Compute(h), Placed(h), Spent(h) \in {HASH, HASH + PIN_DELAY}
      PROVE  TimeInv'
  <2>1. Spent(hsm) + Busy <= Spent(h)
    BY <1>1, <1>2, HostAssumption
  <2> QED
    BY <1>1, <1>2, <2>1, ComputeTime
<1>3. CASE hsm.pin # "right" /\ Compute(Wait(hsm, "delay"))
  <2>1. Placed(Wait(hsm, "delay")) /\ Spent(Wait(hsm, "delay")) = HASH
    BY <1>1, <1>3 DEF Placed, Spent, Wait
  <2> QED
    BY <1>2, <1>3, <2>1
<1>4. CASE \E pc \in {"peer", "report"} : hsm.pin = "right" /\ Compute(Wait(hsm, pc))
  <2>1. PICK pc \in {"peer", "report"} : hsm.pin = "right" /\ Compute(Wait(hsm, pc))
    BY <1>4
  <2>2. Placed(Wait(hsm, pc)) /\ Spent(Wait(hsm, pc)) = HASH
    BY <1>1, <2>1 DEF Placed, Spent, Wait
  <2> QED
    BY <1>2, <2>1, <2>2
<1>5. CASE /\ hsm.pin = "right"
           /\ \E n \in 0 .. NUM_SLOTS :
                Compute([Wait(hsm, "headAck") EXCEPT !.body = ListBody("L", n)])
  <2>1. PICK n \in 0 .. NUM_SLOTS :
               Compute([Wait(hsm, "headAck") EXCEPT !.body = ListBody("L", n)])
    BY <1>5
  <2> DEFINE h == [Wait(hsm, "headAck") EXCEPT !.body = ListBody("L", n)]
  <2>2. Placed(h) /\ Spent(h) = HASH
    BY <1>1, <1>5 DEF Placed, Spent, Wait
  <2> QED
    BY <1>2, <2>1, <2>2
<1> QED
  BY <1>3, <1>4, <1>5 DEF VerifyPin

LEMMA PeerDoneTime ==
  ASSUME TimeInv, PeerDone
  PROVE  TimeInv'
<1>1. hsm.pc = "peer" /\ hsm.pin = "right" /\ Placed(hsm) /\ ~hsm.handler
  BY DEF PeerDone, TimeInv, Placed
<1>2. Spent(hsm) = HASH /\ ~Unlucky(hsm) /\ HASH \in Nat
  BY <1>1, HostAssumption DEF Spent, Unlucky
<1>3. CASE \E pc \in {"report", "headAck"} : GoOn(Wait(hsm, pc))
  <2>1. PICK pc \in {"report", "headAck"} : GoOn(Wait(hsm, pc))
    BY <1>3
  <2>2. Placed(Wait(hsm, pc)) /\ Spent(Wait(hsm, pc)) = HASH
    BY <1>1 DEF Placed, Spent, Wait
  <2> QED
    BY <1>2, <2>1, <2>2, GoOnTime
<1>4. CASE \E n \in 0 .. NUM_SLOTS : GoOn([Wait(hsm, "headAck") EXCEPT !.body = ListBody("I", n)])
  <2>1. PICK n \in 0 .. NUM_SLOTS : GoOn([Wait(hsm, "headAck") EXCEPT !.body = ListBody("I", n)])
    BY <1>4
  <2> DEFINE h == [Wait(hsm, "headAck") EXCEPT !.body = ListBody("I", n)]
  <2>2. Placed(h) /\ Spent(h) = HASH
    BY <1>1 DEF Placed, Spent, Wait
  <2> QED
    BY <1>2, <2>1, <2>2, GoOnTime
<1> QED
  BY <1>3, <1>4 DEF PeerDone

LEMMA PinDelayTime ==
  ASSUME TimeInv, PinDelay
  PROVE  TimeInv'
<1> DEFINE h == Wait(hsm, "report")
<1>1. /\ hsm.pc = "delay" /\ Compute(h) /\ Placed(hsm) /\ Busy = PIN_DELAY /\ Spent(hsm) = HASH
  BY DEF PinDelay, TimeInv, Spent, Busy
<1>2. DOMAIN h = DOMAIN hsm /\ h.pc = "report" /\ h.pin = hsm.pin /\ h.handler = hsm.handler
  BY <1>1 DEF Placed, Wait
<1>3. Placed(h) /\ (Unlucky(hsm) => Unlucky(h))
  BY <1>1, <1>2 DEF Placed, Unlucky
<1>4. CASE h.pin = "right" /\ ~h.handler
  BY <1>1, <1>2, <1>4 DEF Placed
<1>5. CASE ~(h.pin = "right" /\ ~h.handler)
  <2>1. Spent(h) = HASH + PIN_DELAY
    BY <1>2, <1>5 DEF Spent
  <2> QED
    BY <1>1, <1>3, <2>1, ComputeTime, HostAssumption
<1> QED
  BY <1>4, <1>5

LEMMA ReportTime ==
  ASSUME TimeInv, Report
  PROVE  TimeInv'
<1> DEFINE h == [Wait(hsm, "headAck") EXCEPT !.op = "E", !.body = ErrorBody]
<1>1. hsm.pc = "report" /\ Compute(h) /\ Placed(hsm) /\ Busy = 0
  BY DEF Report, TimeInv, Busy, ErrorDelay
<1>2. DOMAIN h = DOMAIN hsm /\ h.pc = "headAck" /\ h.pin = hsm.pin /\ h.handler = hsm.handler
  BY <1>1 DEF Placed, Wait
<1>3. Placed(h) /\ (Unlucky(hsm) => Unlucky(h)) /\ Spent(h) = Spent(hsm) /\ Spent(h) \in Nat
  BY <1>1, <1>2, HostAssumption DEF Placed, Unlucky, Spent
<1> QED
  BY <1>1, <1>3, ComputeTime

LEMMA SendTime ==
  ASSUME TimeInv, SendCount \/ SendRun \/ EndBody
  PROVE  TimeInv'
<1>1. Placed(hsm) /\ hsm.pc \in {"count", "body"} /\ Spent(hsm) \in Nat
  BY HostAssumption DEF SendCount, SendRun, EndBody, TimeInv, Spent
<1>2. ASSUME NEW h, GoOn(h), DOMAIN h = DOMAIN hsm, h.pin = hsm.pin, h.handler = hsm.handler,
             h.pc \in {"body", "chunkAck", "finalAck", "restart"}
      PROVE  TimeInv'
  <2>1. Placed(h) /\ Spent(h) = Spent(hsm) /\ (Unlucky(hsm) => Unlucky(h))
    BY <1>1, <1>2 DEF Placed, Spent, Unlucky
  <2> QED
    BY <1>1, <1>2, <2>1, GoOnTime
<1>3. CASE SendCount
  <2> DEFINE h == [hsm EXCEPT !.pc = "body"]
  <2>1. GoOn(h)
    BY <1>3 DEF SendCount
  <2>2. DOMAIN h = DOMAIN hsm /\ h.pin = hsm.pin /\ h.handler = hsm.handler /\ h.pc = "body"
    BY <1>1 DEF Placed
  <2> QED
    BY <1>2, <2>1, <2>2
<1>4. CASE SendRun
  <2> DEFINE next == [hsm.body EXCEPT !.sent = NextStop(hsm.body)]
             h == [hsm EXCEPT !.body = next, !.need = 4,
                              !.pc = IF AtChunk(next) THEN "chunkAck" ELSE "body"]
  <2>1. GoOn(h)
    BY <1>4 DEF SendRun
  <2>2. /\ DOMAIN h = DOMAIN hsm /\ h.pin = hsm.pin /\ h.handler = hsm.handler
        /\ h.pc \in {"body", "chunkAck"}
    BY <1>1 DEF Placed
  <2> QED
    BY <1>2, <2>1, <2>2
<1>5. CASE EndBody
  <2> DEFINE h == IF FinalAck(hsm.body) THEN Wait(hsm, "finalAck") ELSE Done(hsm)
  <2>1. GoOn(h)
    BY <1>5 DEF EndBody
  <2>2. CASE h = HsmIdle
    BY <2>1, <2>2, GoOnTime
  <2>3. CASE h # HsmIdle
    <3>1. /\ DOMAIN h = DOMAIN hsm /\ h.pin = hsm.pin /\ h.handler = hsm.handler
          /\ h.pc \in {"finalAck", "restart"}
      BY <1>1, <2>3 DEF Placed, Wait, Done
    <3> QED
      BY <1>2, <2>1, <3>1
  <2> QED
    BY <2>2, <2>3
<1> QED
  BY <1>3, <1>4, <1>5

-----------------------------------------------------------------------------
LEMMA TickTime ==
  ASSUME TimeInv, Tick
  PROVE  TimeInv'
<1>1. hsm' = hsm /\ late' /\ now' \in Nat
  BY HostAssumption DEF Tick, TimeInv
<1> QED
  BY <1>1 DEF TimeInv

LEMMA UnmovedTime ==
  ASSUME TimeInv, UNCHANGED <<hsm, now, late>>
  PROVE  TimeInv'
BY DEF TimeInv

\* The host moves, a byte arrives, or a fault strikes.
LEMMA OutsideTime ==
  ASSUME TimeInv,
         \/ HostSend \/ HostStart \/ HostAcked \/ HostReply \/ HostBody \/ HostConfused
         \/ HostGivesUp \/ HostJunk \/ Disturbed
  PROVE  TimeInv'
<1>1. ASSUME NEW byte, Arrive(byte) PROVE TimeInv'
  <2>1. CASE UNCHANGED <<hsm, now>>
    BY <1>1, <2>1, UnmovedTime DEF Arrive
  <2>2. CASE Interrupt
    BY <1>1, <2>2, InterruptTime DEF Arrive
  <2> QED
    BY <1>1, <2>1, <2>2 DEF Arrive
<1>2. CASE HostSend \/ HostJunk
  BY <1>1, <1>2 DEF HostSend, HostJunk
<1>3. CASE Disturbed
  BY <1>3, InterruptTime DEF Disturbed
<1>4. CASE HostStart \/ HostGivesUp
  BY <1>4, UnmovedTime DEF HostStart, HostGivesUp
<1>5. CASE HostAcked \/ HostReply \/ HostBody \/ HostConfused
  <2>1. \E h : HostReads(h)
    BY <1>5 DEF HostAcked, HostReply, HostBody, HostConfused
  <2> QED
    BY <2>1, UnmovedTime DEF HostReads
<1> QED
  BY <1>2, <1>3, <1>4, <1>5

LEMMA TimeNext == TimeInv /\ [HostNext]_hostVars => TimeInv'
<1> SUFFICES ASSUME TimeInv, [HostNext]_hostVars PROVE TimeInv'
  OBVIOUS
<1>1. CASE Program
  <2>1. CASE Restart
    BY <2>1, ResetTime DEF Restart
  <2> QED
    BY <1>1, <2>1, ReadTime, VerifyPinTime, PinDelayTime, ReportTime, SendTime DEF Program
<1>2. CASE PeerDone
  BY <1>2, PeerDoneTime
<1>3. CASE Tick
  BY <1>3, TickTime
<1>4. CASE Watchdog
  BY <1>4, ResetTime DEF Watchdog
<1>5. CASE Poll \/ UNCHANGED hostVars
  BY <1>5, UnmovedTime DEF Poll, hostVars
<1>6. CASE \/ HostSend \/ HostStart \/ HostAcked \/ HostReply \/ HostBody \/ HostConfused
           \/ HostGivesUp \/ HostJunk \/ Disturbed
  BY <1>6, OutsideTime
<1> QED
  BY <1>1, <1>2, <1>3, <1>4, <1>5, <1>6 DEF HostNext

\* main.c and the commands: the time each place in the program may have taken since
\* the main loop, while host and peer were prompt.
THEOREM TimeInvariant == HostSpec => []TimeInv
BY TimeInit, TimeNext, PTL DEF HostSpec

\* constants.h:20 and the watchdog of sysconfig: if hashing a PIN and one PIN delay
\* fit in the period together, the watchdog never strikes while others are prompt.
THEOREM PromptHostIsSafe ==
  ASSUME HASH + PIN_DELAY < WATCHDOG
  PROVE  HostSpec => []PromptInTime
<1>1. TimeInv => PromptInTime
  <2> SUFFICES ASSUME TimeInv, ~late, ~Unlucky(hsm) PROVE now + Busy < WATCHDOG
    BY HostAssumption DEF PromptInTime, Expires, Unlucky, TimeInv, Busy, ErrorDelay
  <2>1. now \in Nat /\ now <= Spent(hsm)
    BY DEF TimeInv
  <2>2. Spent(hsm) + Busy <= HASH + PIN_DELAY
    BY HostAssumption DEF Spent, Busy, ErrorDelay
  <2> QED
    BY <2>1, <2>2, HostAssumption DEF Spent, Busy, ErrorDelay
<1> QED
  BY <1>1, TimeInvariant, PTL

-----------------------------------------------------------------------------
\* What the variables hold.  A message of text is never longer than a chunk.
Places == {"idle", "pin", "hash", "delay", "peer", "report", "headAck", "count",
           "body", "chunkAck", "finalAck", "restart"}
Body == {b \in [length : Nat, offset : Nat, sent : Nat] : b.sent <= b.length}
Hsm  == [pc : Places, need : 0 .. 4 \cup 0 .. PIN_LENGTH + 2, op : Bytes \cup {"E"},
         pin : {"right", "wrong", "bad"}, body : Body, handler : BOOLEAN]
Host == {h \in [cmd : Commands \cup {"0"},
                wait : {"none", "ack", "ack2", "reply", "body", "confused"},
                out : Seq(Bytes), length : Nat, got : Nat] : h.got <= h.length}

Message ==
  {m \in [type : {"head", "text"}, op : Bytes \cup {"E"}, length : Nat] :
     m.type = "text" => m.length <= CHUNK_SIZE}

\* The watchdog strikes when its period is over; only a handler that began just
\* before computes beyond it.
Latest(h) == IF h.handler THEN WATCHDOG + PIN_DELAY ELSE WATCHDOG

Typed ==
  /\ fifo \in Seq(Bytes) /\ Len(fifo) <= FIFO_DEPTH /\ toHost \in Seq(Message)
  /\ hsm \in Hsm /\ (hsm.pc = "pin" => hsm.need > 0)
  /\ host \in Host
  /\ now \in Nat /\ now <= Latest(hsm)
  /\ late \in BOOLEAN /\ clean \in BOOLEAN /\ events \in 0 .. MaxEvents

-----------------------------------------------------------------------------
\* Two multiples of C less than C apart are one.
LEMMA NextMultiple ==
  ASSUME NEW C \in Nat \ {0}, NEW i \in Nat, NEW j \in Nat, i % C = 0, j % C = 0,
         i <= j, j < i + C
  PROVE  i = j
<1>1. /\ i = C * (i \div C) /\ j = C * (j \div C) /\ i \div C \in Nat /\ j \div C \in Nat
  BY Z3
<1> DEFINE p == i \div C
           q == j \div C
<1> HIDE DEF p, q
<1>2. p \in Nat /\ q \in Nat /\ i = C * p /\ j = C * q
  BY <1>1 DEF p, q
<1>3. ~(q >= p + 1)
  BY <1>2, C * q >= C * p + C \/ ~(q >= p + 1)
<1>4. ~(q + 1 <= p)
  BY <1>2
<1> QED
  BY <1>2, <1>3, <1>4

\* The least element of a set.
LEMMA MinIs ==
  ASSUME NEW S, NEW m \in S, S \subseteq Nat, \A x \in S : m <= x
  PROVE  Min(S) = m
<1> DEFINE Least(k) == k \in S /\ \A y \in S : k <= y
<1>1. Min(S) = CHOOSE k : Least(k)
  BY DEF Min
<1>2. Least(m)
  OBVIOUS
<1>3. \A k : Least(k) => k = m
  OBVIOUS
<1> QED
  BY <1>1, <1>2, <1>3

\* The ACKs of a host that owes none, one or two.
LEMMA FlattenFew ==
  ASSUME NEW h, NEW n \in 0 .. 2
  PROVE  FlattenSeq([i \in 1 .. n |-> h]) = IF n = 0 THEN <<>> ELSE IF n = 1 THEN h ELSE h \o h
<1> DEFINE s == [i \in 1 .. n |-> h]
           F(f) == [i \in 1 .. Len(s) |-> IF i = 1 THEN s[i] ELSE f[i - 1] \o s[i]]
           c == CHOOSE f : f = F(f)
<1>1. Len(s) = n
  OBVIOUS
<1>2. FlattenSeq(s) = IF Len(s) = 0 THEN s ELSE c[Len(s)]
  BY DEF FlattenSeq
<1>3. n = 0 => s = <<>>
  OBVIOUS
<1>4. ASSUME n # 0 PROVE c = F(c)
  <2> DEFINE g == [i \in 1 .. n |-> IF i = 1 THEN h ELSE h \o h]
  <2>1. \A i \in 1 .. n : i # 1 => i - 1 \in 1 .. n /\ i - 1 = 1
    OBVIOUS
  <2>2. \A i \in 1 .. n : s[i] = h /\ (i # 1 => g[i - 1] = h)
    BY <2>1
  <2>3. F(g) = g
    BY <1>1, <2>2
  <2> QED
    BY <2>3
<1>5. ASSUME n # 0 PROVE c[1] = h /\ (n = 2 => c[2] = c[1] \o h)
  <2> DEFINE d == c
  <2>1. d = F(d)
    BY <1>4, <1>5
  <2> HIDE DEF d
  <2>2. d[1] = h /\ (n = 2 => d[2] = d[1] \o h)
    <3>1. d[1] = s[1]
      BY <2>1, <1>1, <1>5
    <3>2. n = 2 => d[2] = d[1] \o s[2]
      BY <2>1, <1>1
    <3>3. s[1] = h /\ (n = 2 => s[2] = h)
      BY <1>5
    <3> HIDE DEF s
    <3> QED
      BY <3>1, <3>2, <3>3
  <2> QED
    BY <2>2 DEF d
<1>6. CASE n = 0
  BY <1>1, <1>2, <1>3, <1>6
<1>7. CASE n # 0
  <2> DEFINE d == c
  <2>1. FlattenSeq(s) = d[n]
    BY <1>1, <1>2, <1>7
  <2>2. d[1] = h /\ (n = 2 => d[2] = d[1] \o h)
    BY <1>5, <1>7
  <2> HIDE DEF s, d
  <2>3. n = 1 \/ n = 2
    BY <1>7
  <2> SUFFICES FlattenSeq(s) = IF n = 1 THEN h ELSE h \o h
    BY <1>7 DEF s
  <2> QED
    BY <2>1, <2>2, <2>3
<1> QED
  BY <1>6, <1>7

\* A text no longer than a chunk crosses one boundary at most.
LEMMA OwedFew ==
  ASSUME host \in Host, NEW n \in 0 .. CHUNK_SIZE
  PROVE  Owed(n) \in 0 .. 2
<1> DEFINE got == host.got + n
           chunks == {i \in host.got + 1 .. got : i % CHUNK_SIZE = 0}
           rest == IF got = host.length /\ got % CHUNK_SIZE # 0 THEN 1 ELSE 0
<1>1. Owed(n) = Cardinality(chunks) + rest
  BY DEF Owed
<1>2. host.got \in Nat /\ CHUNK_SIZE \in Nat \ {0}
  BY HostAssumption DEF Host
<1>3. \A i, j \in chunks : i <= j => i = j
  <2> TAKE i, j \in chunks
  <2> HAVE i <= j
  <2>1. i \in Nat /\ j \in Nat /\ j < i + CHUNK_SIZE /\ i % CHUNK_SIZE = 0 /\ j % CHUNK_SIZE = 0
    BY <1>2
  <2> HIDE DEF chunks
  <2> QED
    BY <1>2, <2>1, NextMultiple
<1>4. \A i, j \in chunks : i = j
  <2> TAKE i, j \in chunks
  <2>1. i <= j \/ j <= i
    BY <1>2
  <2> QED
    BY <1>3, <2>1
<1>5. Cardinality(chunks) \in 0 .. 1
  <2> HIDE DEF chunks
  <2>1. CASE chunks = {}
    <3>1. Cardinality({}) = 0
      BY FS_EmptySet
    <3> QED
      BY <2>1, <3>1
  <2>2. CASE chunks # {}
    <3>1. PICK i : i \in chunks
      BY <2>2
    <3>2. chunks = {i}
      BY <1>4, <3>1
    <3>3. Cardinality({i}) = 1
      BY FS_Singleton
    <3> QED
      BY <3>2, <3>3
  <2> QED
    BY <2>1, <2>2
<1>6. rest \in 0 .. 1
  OBVIOUS
<1> HIDE DEF chunks, rest
<1> QED
  BY <1>1, <1>5, <1>6

\* The first multiple of C after x.
LEMMA AfterMultiple ==
  ASSUME NEW C \in Nat \ {0}, NEW x \in Nat
  PROVE  x % C \in 0 .. C - 1 /\ (x + (C - (x % C))) % C = 0
<1>1. x = C * (x \div C) + (x % C) /\ x \div C \in Int /\ x % C \in 0 .. C - 1
  OBVIOUS
<1>2. x + (C - (x % C)) = (x \div C + 1) * C
  BY <1>1
<1>3. \A q \in Int : (q * C) % C = 0
  OBVIOUS
<1>4. x \div C + 1 \in Int
  BY <1>1
<1>5. ((x \div C + 1) * C) % C = 0
  BY <1>3, <1>4, Zenon
<1> QED
  BY <1>1, <1>2, <1>5

\* utils_send_buffer goes on to the end or to the next chunk boundary.
LEMMA NextStopIs ==
  ASSUME NEW b \in Body, b.sent < b.length
  PROVE  /\ NextStop(b) \in b.sent + 1 .. b.length /\ NextStop(b) <= b.sent + CHUNK_SIZE
         /\ NextStop(b) = b.length \/ (b.offset + NextStop(b)) % CHUNK_SIZE = 0
         /\ \A i \in b.sent + 1 .. NextStop(b) - 1 : (b.offset + i) % CHUNK_SIZE # 0
<1> DEFINE sent == b.sent
           length == b.length
           offset == b.offset
           S == {length} \cup {i \in sent + 1 .. length : (offset + i) % CHUNK_SIZE = 0}
           k == sent + (CHUNK_SIZE - ((offset + sent) % CHUNK_SIZE))
           m == IF k <= length THEN k ELSE length
<1>1. sent \in Nat /\ length \in Nat /\ offset \in Nat /\ CHUNK_SIZE \in Nat \ {0} /\ sent < length
  BY HostAssumption DEF Body
<1>2. NextStop(b) = Min(S)
  BY DEF NextStop
<1> HIDE DEF sent, length, offset
<1>3. k \in sent + 1 .. sent + CHUNK_SIZE /\ (offset + k) % CHUNK_SIZE = 0
  <2>1. /\ (offset + sent) % CHUNK_SIZE \in 0 .. CHUNK_SIZE - 1
        /\ ((offset + sent) + (CHUNK_SIZE - ((offset + sent) % CHUNK_SIZE))) % CHUNK_SIZE = 0
    BY <1>1, AfterMultiple, offset + sent \in Nat
  <2>2. offset + k = (offset + sent) + (CHUNK_SIZE - ((offset + sent) % CHUNK_SIZE))
    BY <1>1, <2>1
  <2> QED
    BY <1>1, <2>1, <2>2
<1> HIDE DEF k
<1>4. \A i \in sent + 1 .. length : (offset + i) % CHUNK_SIZE = 0 => k <= i
  <2> SUFFICES ASSUME NEW i \in sent + 1 .. length, (offset + i) % CHUNK_SIZE = 0, i < k
               PROVE  FALSE
    BY <1>1, <1>3
  <2>1. /\ offset + i \in Nat /\ offset + k \in Nat /\ offset + i <= offset + k
        /\ offset + k < (offset + i) + CHUNK_SIZE
    BY <1>1, <1>3
  <2>2. offset + i = offset + k
    BY <1>1, <1>3, <2>1, NextMultiple
  <2> QED
    BY <1>1, <1>3, <2>2
<1>5. m \in S /\ S \subseteq Nat /\ \A x \in S : m <= x
  <2>1. S \subseteq Nat
    BY <1>1
  <2>2. m \in S
    BY <1>1, <1>3
  <2>3. \A x \in S : m <= x
    <3> TAKE x \in S
    <3>1. CASE x = length
      BY <1>1, <1>3, <3>1
    <3>2. CASE x \in sent + 1 .. length /\ (offset + x) % CHUNK_SIZE = 0
      <4>1. k <= x /\ x <= length
        BY <1>1, <1>4, <3>2
      <4> QED
        BY <1>1, <1>3, <4>1
    <3> QED
      BY <3>1, <3>2
  <2> QED
    BY <2>1, <2>2, <2>3
<1>6. Min(S) = m
  <2> HIDE DEF m, S
  <2> QED
    BY <1>5, MinIs
<1>7. \A i \in sent + 1 .. m - 1 : (offset + i) % CHUNK_SIZE # 0
  BY <1>1, <1>3, <1>4
<1>8. m \in sent + 1 .. length /\ m <= sent + CHUNK_SIZE /\ (m = length \/ (offset + m) % CHUNK_SIZE = 0)
  BY <1>1, <1>3
<1> HIDE DEF m, S
<1> QED
  BY <1>2, <1>6, <1>7, <1>8 DEF sent, length, offset

-----------------------------------------------------------------------------
LEMMA IdleTyped == HsmIdle \in Hsm /\ ~HsmIdle.handler /\ HsmIdle.pc = "idle"
<1>1. NoBody \in Body
  BY DEF NoBody, Body
<1>2. 4 \in 0 .. 4 \cup 0 .. PIN_LENGTH + 2
  OBVIOUS
<1>3. "0" \in Bytes \cup {"E"} /\ "idle" \in Places
  BY DEF Bytes, Places
<1> QED
  BY <1>1, <1>2, <1>3 DEF HsmIdle, Hsm

LEMMA TypedInit == HostInit => Typed
<1>1. HostIdle \in Host
  BY DEF HostIdle, Host, Commands
<1>2. <<>> \in Seq(Bytes) /\ Len(<<>>) = 0 /\ <<>> \in Seq(Message)
  OBVIOUS
<1>3. /\ FIFO_DEPTH \in Nat /\ WATCHDOG \in Nat /\ PIN_DELAY \in Nat /\ 0 \in 0 .. MaxEvents
      /\ TRUE \in BOOLEAN /\ FALSE \in BOOLEAN
  BY HostAssumption
<1> SUFFICES ASSUME HostInit PROVE Typed
  OBVIOUS
<1>4. hsm \in Hsm /\ ~hsm.handler /\ hsm.pc # "pin"
  BY IdleTyped DEF HostInit
<1>5. now \in Nat /\ now <= Latest(hsm)
  BY <1>3, <1>4 DEF HostInit, Latest
<1>6. late \in BOOLEAN /\ clean \in BOOLEAN /\ events \in 0 .. MaxEvents
  BY <1>3 DEF HostInit
<1>7. host \in Host /\ fifo \in Seq(Bytes) /\ toHost \in Seq(Message) /\ Len(fifo) <= FIFO_DEPTH
  BY <1>1, <1>2, <1>3 DEF HostInit
<1> QED
  BY <1>4, <1>5, <1>6, <1>7 DEF Typed

\* An update of one field.
LEMMA PlaceTyped ==
  \A h \in Hsm : \A pc \in Places :
    /\ [h EXCEPT !.pc = pc] \in Hsm
    /\ [h EXCEPT !.pc = pc].pc = pc /\ [h EXCEPT !.pc = pc].handler = h.handler
BY DEF Hsm

LEMMA WaitTyped ==
  \A h \in Hsm : \A pc \in Places : Wait(h, pc) \in Hsm /\ Wait(h, pc).handler = h.handler
                                    /\ Wait(h, pc).pc = pc /\ Wait(h, pc).need = 4
<1> TAKE h \in Hsm
<1> TAKE pc \in Places
<1>1. 4 \in 0 .. 4 \cup 0 .. PIN_LENGTH + 2
  OBVIOUS
<1> QED
  BY <1>1 DEF Hsm, Wait

\* The program goes on, having read a byte or sent a message.
LEMMA GoOnTyped ==
  ASSUME Typed, NEW h \in Hsm, GoOn(h), h = HsmIdle \/ h.handler = hsm.handler,
         h.pc = "pin" => h.need > 0,
         fifo' = fifo \/ (fifo # <<>> /\ fifo' = Tail(fifo)),
         toHost' = toHost \/ \E m \in Message : toHost' = Append(toHost, m)
  PROVE  Typed'
<1>1. hsm' = h /\ host' = host /\ clean' = clean /\ events' = events
  BY DEF GoOn
<1>2. fifo' \in Seq(Bytes) /\ Len(fifo') <= FIFO_DEPTH
  <2>1. fifo \in Seq(Bytes) /\ Len(fifo) \in Nat /\ Len(fifo) <= FIFO_DEPTH /\ FIFO_DEPTH \in Nat
    BY HostAssumption DEF Typed
  <2> QED
    BY <2>1
<1>3. toHost' \in Seq(Message)
  BY DEF Typed
<1>4. late' \in BOOLEAN /\ now' \in Nat /\ now' <= Latest(h)
  <2>1. CASE h = HsmIdle
    <3>1. late' = FALSE /\ now' = 0
      BY <2>1 DEF GoOn
    <3>2. Latest(h) \in Nat
      BY HostAssumption DEF Latest
    <3>3. late' \in BOOLEAN
      BY <3>1
    <3>4. now' \in Nat /\ now' <= Latest(h)
      BY <3>1, <3>2
    <3> QED
      BY <3>3, <3>4
  <2>2. CASE h # HsmIdle
    <3>1. late' = late /\ now' = now /\ h.handler = hsm.handler
      BY <2>2 DEF GoOn
    <3>2. late' \in BOOLEAN
      BY <3>1 DEF Typed
    <3>3. now' \in Nat /\ now' <= Latest(h)
      BY <3>1 DEF Typed, Latest
    <3> QED
      BY <3>2, <3>3
  <2> QED
    BY <2>1, <2>2
<1> QED
  BY <1>1, <1>2, <1>3, <1>4 DEF Typed, Latest

LEMMA AfterAckTyped ==
  ASSUME hsm \in Hsm
  PROVE  /\ AfterAck(hsm) \in Hsm /\ AfterAck(hsm).pc # "pin"
         /\ AfterAck(hsm) = HsmIdle \/ AfterAck(hsm).handler = hsm.handler
<1>1. \A pc \in Places : LET h == [hsm EXCEPT !.pc = pc]
                         IN  h \in Hsm /\ h.pc = pc /\ h.handler = hsm.handler
  BY DEF Hsm
<1>2. AfterAck(hsm) = HsmIdle \/ \E pc \in Places \ {"pin"} : AfterAck(hsm) = [hsm EXCEPT !.pc = pc]
  BY DEF AfterAck, Done, Places
<1> QED
  BY <1>1, <1>2, IdleTyped

-----------------------------------------------------------------------------
LEMMA MessageTyped ==
  /\ Ack \in Message
  /\ \A op \in Bytes \cup {"E"} : \A n \in Nat : Reply(op, n) \in Message
  /\ \A n \in 0 .. CHUNK_SIZE : Text(n) \in Message
<1>1. "A" \in Bytes /\ "0" \in Bytes
  BY DEF Bytes, Operations
<1>2. \A op \in Bytes \cup {"E"} : \A n \in Nat : Reply(op, n) \in Message
  BY DEF Reply, Message
<1>3. \A n \in 0 .. CHUNK_SIZE : Text(n) \in Message
  BY <1>1, HostAssumption DEF Text, Message
<1>4. Ack \in Message
  BY <1>1, <1>2 DEF Ack
<1> QED
  BY <1>2, <1>3, <1>4, HostAssumption

LEMMA ReadTyped ==
  ASSUME Typed, Placed(hsm), ReadMagic \/ ReadHeader \/ EndAck \/ Dispatch \/ ReadPin
  PROVE  Typed'
<1>1. hsm \in Hsm /\ Head(fifo) \in Bytes /\ fifo' = Tail(fifo) /\ fifo # <<>>
  <2>1. fifo \in Seq(Bytes) /\ fifo # <<>> /\ fifo' = Tail(fifo) /\ hsm \in Hsm
    BY DEF Typed, ReadMagic, ReadHeader, EndAck, Dispatch, ReadPin, CanRead
  <2> QED
    BY <2>1
<1>2. CASE ReadMagic
  <2> DEFINE h == IF Head(fifo) = "%" THEN [hsm EXCEPT !.need = 3]
                  ELSE IF hsm.pc = "idle" THEN hsm ELSE AfterAck(hsm)
  <2>1. GoOn(h) /\ toHost' = toHost /\ hsm.pc # "pin"
    BY <1>2 DEF ReadMagic
  <2>2. [hsm EXCEPT !.need = 3] \in Hsm /\ [hsm EXCEPT !.need = 3].pc = hsm.pc
        /\ [hsm EXCEPT !.need = 3].handler = hsm.handler
    BY <1>1 DEF Hsm
  <2>3. h \in Hsm /\ h.pc # "pin" /\ (h = HsmIdle \/ h.handler = hsm.handler)
    BY <1>1, <2>1, <2>2, AfterAckTyped
  <2> HIDE DEF h
  <2> QED
    BY <1>1, <2>1, <2>3, GoOnTyped
<1>3. CASE ReadHeader
  <2> DEFINE op == IF hsm.pc = "idle" /\ hsm.need = 3 THEN Head(fifo) ELSE hsm.op
             h == [hsm EXCEPT !.need = hsm.need - 1, !.op = op]
  <2>1. GoOn(h) /\ toHost' = toHost /\ hsm.pc # "pin" /\ hsm.need \in {2, 3}
    BY <1>3 DEF ReadHeader
  <2>2. op \in Bytes \cup {"E"} /\ hsm.need - 1 \in 0 .. 4
    BY <1>1, <2>1 DEF Hsm
  <2>3. h \in Hsm /\ h.pc # "pin" /\ h.handler = hsm.handler
    <3> HIDE DEF op
    <3> QED
      BY <1>1, <2>1, <2>2 DEF Hsm
  <2> HIDE DEF h
  <2> QED
    BY <1>1, <2>1, <2>3, GoOnTyped
<1>4. CASE EndAck
  <2>1. GoOn(AfterAck(hsm)) /\ toHost' = toHost
    BY <1>4 DEF EndAck
  <2> QED
    BY <1>1, <2>1, AfterAckTyped, GoOnTyped
<1>5. CASE Dispatch
  <2>1. CASE hsm.op \notin Commands
    <3>1. GoOn(HsmIdle) /\ toHost' = toHost
      BY <1>5, <2>1 DEF Dispatch
    <3> QED
      BY <1>1, <3>1, IdleTyped, GoOnTyped
  <2>2. CASE hsm.op \in Commands
    <3> DEFINE need == PIN_LENGTH + Arguments(hsm.op)
               p == [hsm EXCEPT !.pc = "pin", !.need = need]
               h == IF HasPin(hsm.op) THEN p ELSE Wait(hsm, "peer")
    <3>1. GoOn(h) /\ toHost' = Append(toHost, Ack)
      BY <1>5, <2>2 DEF Dispatch
    <3>2. need \in 0 .. PIN_LENGTH + 2 /\ need > 0
      BY HostAssumption DEF Arguments
    <3>3. p \in Hsm /\ p.need = need /\ p.handler = hsm.handler
      <4> HIDE DEF need
      <4> QED
        BY <1>1, <3>2 DEF Hsm, Places
    <3>4. Wait(hsm, "peer") \in Hsm /\ Wait(hsm, "peer").pc # "pin" /\ Wait(hsm, "peer").handler = hsm.handler
      BY <1>1, WaitTyped DEF Places
    <3>5. h \in Hsm /\ (h.pc = "pin" => h.need > 0) /\ h.handler = hsm.handler
      <4> HIDE DEF need, p
      <4> QED
        BY <3>2, <3>3, <3>4
    <3> HIDE DEF h
    <3> QED
      BY <1>1, <3>1, <3>5, MessageTyped, GoOnTyped
  <2> QED
    BY <2>1, <2>2
<1>6. CASE ReadPin
  <2> DEFINE pc == IF hsm.need = 1 THEN "hash" ELSE hsm.pc
             pin == IF hsm.need > Arguments(hsm.op) THEN JudgeDigit(hsm.pin, Head(fifo)) ELSE hsm.pin
             h == [hsm EXCEPT !.need = hsm.need - 1, !.pc = pc, !.pin = pin]
  <2>1. GoOn(h) /\ (toHost' = toHost \/ toHost' = Append(toHost, Ack)) /\ hsm.pc = "pin"
    BY <1>6 DEF ReadPin
  <2>2. hsm.need \in Nat /\ hsm.need > 0 /\ hsm.need - 1 \in 0 .. 4 \cup 0 .. PIN_LENGTH + 2
    <3> DEFINE need == hsm.need
    <3>1. need \in 0 .. 4 \cup 0 .. PIN_LENGTH + 2 /\ need > 0 /\ PIN_LENGTH \in Nat
      BY <1>1, <2>1, HostAssumption DEF Typed, Hsm
    <3> HIDE DEF need
    <3>2. need \in Nat /\ need > 0 /\ need - 1 \in 0 .. 4 \cup 0 .. PIN_LENGTH + 2
      BY <3>1
    <3> QED
      BY <3>2 DEF need
  <2>3. pc \in Places /\ (pc = "pin" => hsm.need - 1 > 0)
    BY <1>1, <2>1, <2>2 DEF Places
  <2>4. pin \in {"right", "wrong", "bad"}
    BY <1>1 DEF Hsm, JudgeDigit
  <2>5. h \in Hsm /\ (h.pc = "pin" => h.need > 0) /\ h.handler = hsm.handler
    <3> HIDE DEF pc, pin
    <3> QED
      BY <1>1, <2>2, <2>3, <2>4 DEF Hsm
  <2> HIDE DEF h
  <2> QED
    BY <1>1, <2>1, <2>5, MessageTyped, GoOnTyped
<1> QED
  BY <1>2, <1>3, <1>4, <1>5, <1>6

LEMMA BodyTyped ==
  /\ ErrorBody \in Body
  /\ \A op, n : n \in 0 .. NUM_SLOTS => ListBody(op, n) \in Body /\ ListLength(n) \in Nat
<1>1. ErrorBody \in Body
  BY HostAssumption DEF ErrorBody, Body
<1>2. ASSUME NEW op, NEW n, n \in 0 .. NUM_SLOTS PROVE ListBody(op, n) \in Body /\ ListLength(n) \in Nat
  <2>1. n \in Nat /\ COUNT_SIZE \in Nat /\ ENTRY_SIZE \in Nat
    BY <1>2, HostAssumption
  <2>2. n * ENTRY_SIZE \in Nat /\ ListLength(n) \in Nat
    BY <2>1 DEF ListLength
  <2>3. ListBody(op, n) \in [length : Nat, offset : Nat, sent : Nat] /\ ListBody(op, n).sent = 0
    BY <2>1, <2>2 DEF ListBody
  <2> DEFINE b == ListBody(op, n)
  <2> HIDE DEF b
  <2>4. b \in [length : Nat, offset : Nat, sent : Nat] /\ b.sent = 0
    BY <2>3 DEF b
  <2>5. b.sent <= b.length
    BY <2>4
  <2>6. b \in Body
    BY <2>4, <2>5 DEF Body
  <2> QED
    BY <2>2, <2>6 DEF b
<1> QED
  BY <1>1, <1>2

LEMMA ComputeTyped ==
  ASSUME Typed, NEW h \in Hsm, Compute(h), h.handler = hsm.handler, h.pc # "pin",
         toHost' = toHost \/ \E m \in Message : toHost' = Append(toHost, m)
  PROVE  Typed'
<1>1. hsm' = h /\ host' = host /\ clean' = clean /\ events' = events /\ fifo' = fifo /\ late' = late
  BY DEF Compute
<1>2. toHost' \in Seq(Message)
  BY DEF Typed
<1>3. Busy \in Nat
  BY HostAssumption DEF Busy, ErrorDelay
<1>4. now' \in Nat /\ now' <= Latest(h)
  BY <1>3, HostAssumption DEF Compute, Expires, Typed, Latest
<1> QED
  BY <1>1, <1>2, <1>4 DEF Typed, Latest

LEMMA ComputingTyped ==
  ASSUME Typed, VerifyPin \/ PinDelay \/ Report
  PROVE  Typed'
<1>1. hsm \in Hsm
  BY DEF Typed
<1>2. \A pc \in Places : Wait(hsm, pc) \in Hsm /\ Wait(hsm, pc).handler = hsm.handler /\ Wait(hsm, pc).pc = pc
  BY <1>1, WaitTyped
<1>3. \A b \in Body : \A o \in Bytes \cup {"E"} :
        LET h == [Wait(hsm, "headAck") EXCEPT !.op = o, !.body = b]
        IN  h \in Hsm /\ h.handler = hsm.handler /\ h.pc = "headAck"
  <2> DEFINE w == Wait(hsm, "headAck")
  <2>1. w \in Hsm /\ w.handler = hsm.handler /\ w.pc = "headAck"
    BY <1>2 DEF Places
  <2> HIDE DEF w
  <2>2. \A b \in Body : \A o \in Bytes \cup {"E"} :
        LET h == [w EXCEPT !.op = o, !.body = b]
        IN  h \in Hsm /\ h.handler = hsm.handler /\ h.pc = "headAck"
    BY <2>1 DEF Hsm
  <2> QED
    BY <2>2 DEF w
<1>4. \A b \in Body :
        LET h == [Wait(hsm, "headAck") EXCEPT !.body = b]
        IN  h \in Hsm /\ h.handler = hsm.handler /\ h.pc = "headAck"
  <2> DEFINE w == Wait(hsm, "headAck")
  <2>1. w \in Hsm /\ w.handler = hsm.handler /\ w.pc = "headAck"
    BY <1>2 DEF Places
  <2> HIDE DEF w
  <2>2. \A b \in Body :
        LET h == [w EXCEPT !.body = b]
        IN  h \in Hsm /\ h.handler = hsm.handler /\ h.pc = "headAck"
    BY <2>1 DEF Hsm
  <2> QED
    BY <2>2 DEF w
<1>5. ASSUME NEW pc \in {"delay", "peer", "report"}, Compute(Wait(hsm, pc)), toHost' = toHost
      PROVE  Typed'
  <2>1. Wait(hsm, pc) \in Hsm /\ Wait(hsm, pc).handler = hsm.handler /\ Wait(hsm, pc).pc # "pin"
    BY <1>2 DEF Places
  <2> QED
    BY <1>5, <2>1, ComputeTyped
<1>6. CASE VerifyPin
  <2>1. CASE \E pc \in {"delay", "peer", "report"} : Compute(Wait(hsm, pc)) /\ toHost' = toHost
    BY <1>5, <2>1
  <2>2. CASE \E n \in 0 .. NUM_SLOTS :
             /\ Compute([Wait(hsm, "headAck") EXCEPT !.body = ListBody("L", n)])
             /\ toHost' = Append(toHost, Reply("L", ListLength(n)))
    <3>1. PICK n \in 0 .. NUM_SLOTS :
             /\ Compute([Wait(hsm, "headAck") EXCEPT !.body = ListBody("L", n)])
             /\ toHost' = Append(toHost, Reply("L", ListLength(n)))
      BY <2>2
    <3> DEFINE h == [Wait(hsm, "headAck") EXCEPT !.body = ListBody("L", n)]
    <3>2. h \in Hsm /\ h.handler = hsm.handler /\ h.pc = "headAck"
      BY <1>4, BodyTyped
    <3>3. Reply("L", ListLength(n)) \in Message
      <4>1. "L" \in Bytes
        BY DEF Bytes, Operations
      <4> QED
        BY <4>1, BodyTyped, MessageTyped
    <3> HIDE DEF h
    <3>4. Compute(h)
      BY <3>1 DEF h
    <3> QED
      BY <3>1, <3>2, <3>3, <3>4, ComputeTyped
  <2> QED
    BY <1>6, <2>1, <2>2 DEF VerifyPin
<1>7. CASE PinDelay
  BY <1>5, <1>7 DEF PinDelay
<1>8. CASE Report
  <2> DEFINE h == [Wait(hsm, "headAck") EXCEPT !.op = "E", !.body = ErrorBody]
  <2>1. h \in Hsm /\ h.handler = hsm.handler /\ h.pc = "headAck"
    BY <1>3, BodyTyped
  <2>2. Reply("E", ERROR_LENGTH) \in Message
    BY MessageTyped, HostAssumption
  <2>3. Compute(h) /\ toHost' = Append(toHost, Reply("E", ERROR_LENGTH))
    BY <1>8 DEF Report
  <2> HIDE DEF h
  <2> QED
    BY <2>1, <2>2, <2>3, ComputeTyped
<1> QED
  BY <1>6, <1>7, <1>8

LEMMA PeerDoneTyped ==
  ASSUME Typed, PeerDone
  PROVE  Typed'
<1>1. hsm \in Hsm /\ fifo' = fifo
  BY DEF Typed, PeerDone
<1> DEFINE w == Wait(hsm, "headAck")
<1>2. /\ w \in Hsm /\ w.handler = hsm.handler /\ w.pc = "headAck"
      /\ Wait(hsm, "report") \in Hsm /\ Wait(hsm, "report").handler = hsm.handler
      /\ Wait(hsm, "report").pc = "report"
  BY <1>1, WaitTyped DEF Places
<1>3. CASE GoOn(Wait(hsm, "report")) /\ toHost' = toHost
  BY <1>1, <1>2, <1>3, GoOnTyped
<1>4. CASE GoOn(w) /\ toHost' = Append(toHost, Reply(hsm.op, 0))
  <2>1. Reply(hsm.op, 0) \in Message
    BY <1>1, MessageTyped DEF Hsm
  <2> HIDE DEF w
  <2> QED
    BY <1>1, <1>2, <1>4, <2>1, GoOnTyped
<1>5. ASSUME NEW n \in 0 .. NUM_SLOTS, GoOn([w EXCEPT !.body = ListBody("I", n)]),
             toHost' = Append(toHost, Reply("I", ListLength(n)))
      PROVE  Typed'
  <2> DEFINE h == [w EXCEPT !.body = ListBody("I", n)]
  <2>1. h \in Hsm /\ h.handler = hsm.handler /\ h.pc = "headAck"
    <3> HIDE DEF w
    <3> QED
      BY <1>2, BodyTyped DEF Hsm
  <2>2. Reply("I", ListLength(n)) \in Message
    <3>1. "I" \in Bytes
      BY DEF Bytes, Operations
    <3> QED
      BY <3>1, BodyTyped, MessageTyped
  <2>3. GoOn(h)
    BY <1>5
  <2> HIDE DEF h
  <2> QED
    BY <1>1, <1>5, <2>1, <2>2, <2>3, GoOnTyped
<1> QED
  BY <1>3, <1>4, <1>5 DEF PeerDone

LEMMA SendTyped ==
  ASSUME COUNT_SIZE <= CHUNK_SIZE, Typed, SendCount \/ SendRun \/ EndBody
  PROVE  Typed'
<1>1. hsm \in Hsm /\ hsm.body \in Body /\ fifo' = fifo /\ hsm.pc \in {"body", "count"}
  BY DEF Typed, Hsm, SendCount, SendRun, EndBody
<1>2. CASE SendCount
  <2> DEFINE h == [hsm EXCEPT !.pc = "body"]
  <2>1. h \in Hsm /\ h.pc = "body" /\ h.handler = hsm.handler
    BY <1>1, PlaceTyped DEF Places
  <2>2. GoOn(h) /\ toHost' = Append(toHost, Text(COUNT_SIZE)) /\ Text(COUNT_SIZE) \in Message
    BY <1>2, MessageTyped, HostAssumption DEF SendCount
  <2> HIDE DEF h
  <2> QED
    BY <1>1, <2>1, <2>2, GoOnTyped
<1>3. CASE SendRun
  <2> DEFINE stop == NextStop(hsm.body)
             next == [hsm.body EXCEPT !.sent = stop]
             pc == IF AtChunk(next) THEN "chunkAck" ELSE "body"
             h == [hsm EXCEPT !.body = next, !.need = 4, !.pc = pc]
  <2>1. /\ GoOn(h) /\ toHost' = Append(toHost, Text(next.sent - hsm.body.sent))
        /\ hsm.body.sent < hsm.body.length
    BY <1>3 DEF SendRun
  <2>2. stop \in hsm.body.sent + 1 .. hsm.body.length /\ stop <= hsm.body.sent + CHUNK_SIZE
    BY <1>1, <2>1, NextStopIs
  <2> HIDE DEF stop
  <2>3. /\ hsm.body.sent \in Nat /\ hsm.body.length \in Nat /\ CHUNK_SIZE \in Nat
        /\ stop \in Nat /\ stop <= hsm.body.length /\ stop - hsm.body.sent \in 0 .. CHUNK_SIZE
    BY <1>1, <2>2, HostAssumption DEF Body
  <2>4. next \in Body /\ next.sent = stop
    BY <1>1, <2>3 DEF Body
  <2>5. Text(next.sent - hsm.body.sent) \in Message
    BY <2>3, <2>4, MessageTyped
  <2>6. pc \in Places /\ pc # "pin" /\ 4 \in 0 .. 4 \cup 0 .. PIN_LENGTH + 2
    BY DEF Places
  <2> HIDE DEF next, pc
  <2>7. h \in Hsm /\ h.pc = pc /\ h.handler = hsm.handler
    BY <1>1, <2>4, <2>6 DEF Hsm
  <2> HIDE DEF h
  <2> QED
    BY <1>1, <2>1, <2>5, <2>6, <2>7, GoOnTyped
<1>4. CASE EndBody
  <2> DEFINE h == IF FinalAck(hsm.body) THEN Wait(hsm, "finalAck") ELSE Done(hsm)
  <2>1. GoOn(h) /\ toHost' = toHost
    BY <1>4 DEF EndBody
  <2>2. h \in Hsm /\ h.pc # "pin" /\ (h = HsmIdle \/ h.handler = hsm.handler)
    BY <1>1, WaitTyped, PlaceTyped, IdleTyped DEF Places, Done
  <2> HIDE DEF h
  <2> QED
    BY <1>1, <2>1, <2>2, GoOnTyped
<1> QED
  BY <1>2, <1>3, <1>4

LEMMA ResetTyped ==
  ASSUME Typed, Reset
  PROVE  Typed'
<1>1. hsm' = HsmIdle /\ fifo' = <<>> /\ now' = 0 /\ toHost' = toHost /\ host' = host /\ events' = events
  BY DEF Reset
<1>2. late' \in BOOLEAN /\ clean' \in BOOLEAN
  BY DEF Reset
<1>3. fifo' \in Seq(Bytes) /\ Len(fifo') <= FIFO_DEPTH
  BY <1>1, HostAssumption
<1>4. hsm' \in Hsm /\ hsm'.pc # "pin"
  BY <1>1, IdleTyped
<1>5. now' \in Nat /\ now' <= Latest(hsm')
  BY <1>1, <1>4, HostAssumption DEF Latest
<1> QED
  BY <1>1, <1>2, <1>3, <1>4, <1>5 DEF Typed

\* A handler takes over during a hash or a delay and begins its own.
LEMMA InterruptTyped ==
  ASSUME HASH <= PIN_DELAY, Typed, Placed(hsm), Interrupt
  PROVE  /\ hsm' \in Hsm /\ (hsm'.pc = "pin" => hsm'.need > 0)
         /\ now' \in Nat /\ now' <= Latest(hsm')
<1>1. CASE hsm.handler
  BY <1>1 DEF Interrupt, Typed, Latest
<1>2. CASE ~hsm.handler
  <2> DEFINE pin == IF hsm.pc \in {"pin", "hash"} THEN "right" ELSE hsm.pin
  <2>1. hsm' = [HsmIdle EXCEPT !.pc = "delay", !.handler = TRUE, !.pin = pin]
    BY <1>2 DEF Interrupt
  <2>2. pin \in {"right", "wrong", "bad"}
    BY DEF Typed, Hsm
  <2> HIDE DEF pin
  <2>3. hsm' \in Hsm /\ hsm'.pc = "delay" /\ hsm'.handler
    BY <2>1, <2>2, IdleTyped DEF Hsm, Places
  <2>4. Busy \in 0 .. PIN_DELAY /\ now' \in now .. now + Busy
    BY <1>2, HostAssumption DEF Interrupt, Busy, ErrorDelay
  <2>5. now' \in Nat /\ now' <= WATCHDOG + PIN_DELAY
    BY <1>2, <2>4, HostAssumption DEF Typed, Latest
  <2> QED
    BY <2>3, <2>5 DEF Latest
<1> QED
  BY <1>1, <1>2

LEMMA ArriveTyped ==
  ASSUME HASH <= PIN_DELAY, Typed, Placed(hsm), NEW byte \in Bytes, Arrive(byte)
  PROVE  /\ fifo' \in Seq(Bytes) /\ Len(fifo') <= FIFO_DEPTH /\ toHost' \in Seq(Message)
         /\ hsm' \in Hsm /\ (hsm'.pc = "pin" => hsm'.need > 0)
         /\ now' \in Nat /\ now' <= Latest(hsm') /\ late' \in BOOLEAN
<1>1. fifo \in Seq(Bytes) /\ Len(fifo) \in Nat /\ Len(fifo) <= FIFO_DEPTH /\ FIFO_DEPTH \in Nat
  BY HostAssumption DEF Typed
<1>2. toHost' \in Seq(Message) /\ late' \in BOOLEAN
  BY DEF Arrive, Typed
<1>3. CASE Len(fifo) < FIFO_DEPTH
  <2>1. fifo' = Append(fifo, byte) /\ hsm' = hsm /\ now' = now
    BY <1>3 DEF Arrive
  <2>2. fifo' \in Seq(Bytes) /\ Len(fifo') <= FIFO_DEPTH
    BY <1>1, <1>3, <2>1
  <2> QED
    BY <1>2, <2>1, <2>2 DEF Typed, Latest
<1>4. CASE ~(Len(fifo) < FIFO_DEPTH)
  <2>1. Interrupt /\ fifo' = fifo
    BY <1>4 DEF Arrive
  <2> QED
    BY <1>1, <1>2, <2>1, InterruptTyped
<1> QED
  BY <1>3, <1>4

LEMMA EventTyped == ASSUME Typed, Event PROVE events' \in 0 .. MaxEvents
BY HostAssumption DEF Typed, Event

LEMMA HeaderTyped == \A op \in Bytes : Header(op) \in Seq(Bytes) /\ Len(Header(op)) = 4
<1> TAKE op \in Bytes
<1>1. "%" \in Bytes /\ "0" \in Bytes
  BY DEF Bytes
<1> QED
  BY <1>1 DEF Header

LEMMA HostIdleTyped == HostIdle \in Host
BY DEF HostIdle, Host, Commands

LEMMA HostReadsTyped ==
  ASSUME Typed, NEW h \in Host, HostReads(h)
  PROVE  Typed'
<1>1. toHost' \in Seq(Message)
  BY DEF HostReads, Typed
<1> QED
  BY <1>1 DEF HostReads, Typed, Latest

LEMMA HeadTyped == ASSUME Typed, toHost # <<>> PROVE Head(toHost) \in Message
BY DEF Typed

LEMMA HostReadTyped ==
  ASSUME Typed, HostAcked \/ HostReply \/ HostBody \/ HostConfused
  PROVE  Typed'
<1>1. host \in Host /\ toHost # <<>> /\ Head(toHost) \in Message
  BY HeadTyped DEF Typed, HostAcked, HostReply, HostBody, HostConfused
<1> DEFINE m == Head(toHost)
<1>2. m.length \in Nat /\ (m.type = "text" => m.length <= CHUNK_SIZE)
  BY <1>1 DEF Message
<1>3. CASE HostAcked
  <2>1. CASE HostReads([host EXCEPT !.wait = "reply"])
    <3>1. [host EXCEPT !.wait = "reply"] \in Host
      BY <1>1 DEF Host
    <3> QED
      BY <2>1, <3>1, HostReadsTyped
  <2>2. ASSUME NEW pin \in Pins,
               HostReads([host EXCEPT !.wait = "ack2",
                                      !.out = pin \o [i \in 1 .. Arguments(host.cmd) |-> "0"]])
        PROVE  Typed'
    <3> DEFINE a == [i \in 1 .. Arguments(host.cmd) |-> "0"]
               out == pin \o a
               h == [host EXCEPT !.wait = "ack2", !.out = out]
    <3>1. a \in Seq(Bytes)
      <4>1. Arguments(host.cmd) \in Nat /\ "0" \in Bytes
        BY DEF Arguments, Bytes
      <4> QED
        BY <4>1
    <3>2. pin \in Seq(Bytes)
      <4>1. PIN_LENGTH \in Nat /\ Digits \cup {"x"} \subseteq Bytes
        BY HostAssumption DEF Bytes
      <4> QED
        BY <4>1 DEF Pins
    <3> HIDE DEF a
    <3>3. out \in Seq(Bytes)
      BY <3>1, <3>2
    <3>4. HostReads(h)
      BY <2>2 DEF a
    <3> HIDE DEF out
    <3>5. h \in Host
      BY <1>1, <3>3 DEF Host
    <3> HIDE DEF h
    <3> QED
      BY <3>4, <3>5, HostReadsTyped
  <2> QED
    BY <1>3, <2>1, <2>2 DEF HostAcked
<1>4. CASE HostReply
  <2> DEFINE wait == IF m.length = 0 THEN "none" ELSE "body"
             out == Header("A")
             length == m.length
             h == [host EXCEPT !.wait = wait, !.out = out, !.length = length, !.got = 0]
  <2>1. HostReads(h)
    BY <1>4 DEF HostReply
  <2>2. out \in Seq(Bytes)
    BY HeaderTyped DEF Bytes, Operations
  <2>3. wait \in {"none", "body"}
    OBVIOUS
  <2>4. length \in Nat /\ 0 <= length
    BY <1>2
  <2> HIDE DEF wait, out, length
  <2>5. /\ h.got = 0 /\ h.length = length
        /\ h \in [cmd : Commands \cup {"0"},
                 wait : {"none", "ack", "ack2", "reply", "body", "confused"},
                 out : Seq(Bytes), length : Nat, got : Nat]
    BY <1>1, <2>2, <2>3, <2>4 DEF Host
  <2>6. h \in Host
    BY <2>4, <2>5 DEF Host
  <2>7. HostReads(h)
    BY <2>1 DEF length, wait, out
  <2> HIDE DEF h
  <2> QED
    BY <2>6, <2>7, HostReadsTyped
<1>5. CASE HostBody
  <2> DEFINE acks == FlattenSeq([i \in 1 .. Owed(m.length) |-> Header("A")])
             got == host.got + m.length
             wait == IF got = host.length THEN "none" ELSE host.wait
             out == host.out \o acks
             h == [host EXCEPT !.got = got, !.wait = wait, !.out = out]
  <2>1. HostReads(h) /\ got <= host.length /\ m.type = "text"
    BY <1>5 DEF HostBody
  <2>2. acks \in Seq(Bytes)
    <3>1. Header("A") \in Seq(Bytes)
      BY HeaderTyped DEF Bytes, Operations
    <3>2. m.length \in 0 .. CHUNK_SIZE
      BY <1>2, <2>1, HostAssumption
    <3>3. Owed(m.length) \in 0 .. 2
      BY <1>1, <3>2, OwedFew
    <3> DEFINE n == Owed(m.length)
               a == Header("A")
    <3> HIDE DEF n, a
    <3>4. n \in 0 .. 2 /\ a \in Seq(Bytes)
      BY <3>1, <3>3 DEF n, a
    <3>5. FlattenSeq([i \in 1 .. n |-> a]) = IF n = 0 THEN <<>> ELSE IF n = 1 THEN a ELSE a \o a
      BY <3>4, FlattenFew
    <3>6. FlattenSeq([i \in 1 .. n |-> a]) \in Seq(Bytes)
      <4>1. <<>> \in Seq(Bytes) /\ a \o a \in Seq(Bytes)
        BY <3>4
      <4> QED
        BY <3>4, <3>5, <4>1
    <3> QED
      BY <3>6 DEF n, a
  <2>3. got \in Nat /\ wait \in {"none", "ack", "ack2", "reply", "body", "confused"}
    BY <1>1, <1>2 DEF Host
  <2> HIDE DEF acks
  <2>4. out \in Seq(Bytes)
    BY <1>1, <2>2 DEF Host
  <2> HIDE DEF got, wait, out
  <2>5. h \in Host
    BY <1>1, <2>1, <2>3, <2>4 DEF Host
  <2> HIDE DEF h
  <2> QED
    BY <2>1, <2>5, HostReadsTyped
<1>6. CASE HostConfused
  <2>1. [HostIdle EXCEPT !.wait = "confused"] \in Host
    BY HostIdleTyped DEF Host
  <2> QED
    BY <1>6, <2>1, HostReadsTyped DEF HostConfused
<1> QED
  BY <1>3, <1>4, <1>5, <1>6

LEMMA OutsideTyped ==
  ASSUME HASH <= PIN_DELAY, Typed, Placed(hsm),
         HostSend \/ HostStart \/ HostGivesUp \/ HostJunk \/ Disturbed
  PROVE  Typed'
<1>1. host \in Host /\ clean \in BOOLEAN
  BY DEF Typed
<1>2. CASE HostSend
  <2> DEFINE out == Tail(host.out)
             h == [host EXCEPT !.out = out]
  <2>1. host.out \in Seq(Bytes) /\ host.out # <<>>
    BY <1>1, <1>2 DEF Host, HostSend
  <2>2. Head(host.out) \in Bytes /\ out \in Seq(Bytes)
    BY <2>1
  <2>3. Arrive(Head(host.out)) /\ host' = h /\ clean' = clean /\ events' = events
    BY <1>2 DEF HostSend
  <2> HIDE DEF out
  <2>4. h \in Host
    BY <1>1, <2>2 DEF Host
  <2> QED
    BY <2>2, <2>3, <2>4, ArriveTyped DEF Typed
<1>3. CASE HostStart
  <2>1. PICK cmd \in Commands :
             host' = [HostIdle EXCEPT !.cmd = cmd, !.wait = "ack", !.out = Header(cmd)]
    BY <1>3 DEF HostStart
  <2>2. Header(cmd) \in Seq(Bytes)
    BY HeaderTyped DEF Commands, Bytes, Operations
  <2> DEFINE out == Header(cmd)
  <2> HIDE DEF out
  <2>3. host' = [HostIdle EXCEPT !.cmd = cmd, !.wait = "ack", !.out = out] /\ out \in Seq(Bytes)
    BY <2>1, <2>2 DEF out
  <2>4. host' \in Host
    BY <2>3, HostIdleTyped DEF Host
  <2>5. clean' \in BOOLEAN
    BY <1>1, <1>3 DEF HostStart
  <2>6. events' \in 0 .. MaxEvents
    BY <1>3, EventTyped DEF HostStart
  <2> QED
    BY <1>3, <2>4, <2>5, <2>6 DEF HostStart, Typed, Latest
<1>4. CASE HostGivesUp
  <2>1. host' \in Host
    BY <1>4, HostIdleTyped DEF HostGivesUp
  <2>2. toHost' \in Seq(Message)
    BY <1>4 DEF HostGivesUp
  <2>3. clean' \in BOOLEAN
    BY <1>4 DEF HostGivesUp
  <2> QED
    BY <1>4, <2>1, <2>2, <2>3 DEF HostGivesUp, Typed, Latest
<1>5. CASE HostJunk
  <2>1. PICK byte \in Junk : Arrive(byte)
    BY <1>5 DEF HostJunk
  <2>2. byte \in Bytes
    BY HostAssumption
  <2>3. clean' \in BOOLEAN /\ host' = host /\ events' \in 0 .. MaxEvents
    BY <1>5, EventTyped DEF HostJunk
  <2> QED
    BY <1>1, <2>1, <2>2, <2>3, ArriveTyped DEF Typed
<1>6. CASE Disturbed
  <2>1. Interrupt /\ toHost' = toHost /\ host' = host /\ late' = late
    BY <1>6 DEF Disturbed
  <2>2. fifo' \in {fifo} \cup (IF Len(fifo) < FIFO_DEPTH THEN {Append(fifo, "x")} ELSE {})
    BY <1>6 DEF Disturbed
  <2>3. fifo' \in Seq(Bytes) /\ Len(fifo') <= FIFO_DEPTH
    <3>1. /\ fifo \in Seq(Bytes) /\ Len(fifo) \in Nat /\ Len(fifo) <= FIFO_DEPTH /\ FIFO_DEPTH \in Nat
          /\ "x" \in Bytes
      BY HostAssumption DEF Typed, Bytes
    <3> QED
      BY <2>2, <3>1
  <2>4. clean' \in BOOLEAN /\ events' \in 0 .. MaxEvents
    BY <1>6, EventTyped DEF Disturbed
  <2> QED
    BY <2>1, <2>3, <2>4, InterruptTyped DEF Typed
<1> QED
  BY <1>2, <1>3, <1>4, <1>5, <1>6

LEMMA TickTyped == ASSUME Typed, Tick PROVE Typed'
<1>1. UNCHANGED <<fifo, toHost, hsm, host, clean, events>> /\ late' \in BOOLEAN
  BY DEF Tick
<1>2. now' \in Nat /\ now' <= WATCHDOG
  <2>1. Busy \in Nat /\ now \in Nat /\ now + Busy < WATCHDOG /\ WATCHDOG \in Nat
    BY HostAssumption DEF Tick, Expires, Busy, ErrorDelay, Typed
  <2>2. now' \in {WATCHDOG} \cup (IF late THEN {} ELSE {now + 1})
    BY DEF Tick
  <2> QED
    BY <2>1, <2>2
<1> QED
  BY <1>1, <1>2, HostAssumption DEF Typed, Latest

LEMMA TypedNext ==
  ASSUME HASH <= PIN_DELAY, COUNT_SIZE <= CHUNK_SIZE, Typed, Placed(hsm), [HostNext]_hostVars
  PROVE  Typed'
<1>1. CASE Program
  <2>1. CASE Restart
    BY <2>1, ResetTyped DEF Restart
  <2> QED
    BY <1>1, <2>1, ReadTyped, ComputingTyped, SendTyped DEF Program
<1>2. CASE PeerDone
  BY <1>2, PeerDoneTyped
<1>3. CASE Tick
  BY <1>3, TickTyped
<1>4. CASE Watchdog
  BY <1>4, ResetTyped DEF Watchdog
<1>5. CASE Poll \/ UNCHANGED hostVars
  BY <1>5 DEF Poll, hostVars, Typed, Latest
<1>6. CASE HostSend \/ HostStart \/ HostGivesUp \/ HostJunk \/ Disturbed
  BY <1>6, OutsideTyped
<1>7. CASE HostAcked \/ HostReply \/ HostBody \/ HostConfused
  BY <1>7, HostReadTyped
<1> QED
  BY <1>1, <1>2, <1>3, <1>4, <1>5, <1>6, <1>7 DEF HostNext

\* The counters of a blocking read, of utils_send_buffer and of the FIFO stay in
\* their bounds, whatever is sent and whenever the CPU is interrupted.
THEOREM HostTypesHold ==
  ASSUME HASH <= PIN_DELAY, COUNT_SIZE <= CHUNK_SIZE
  PROVE  HostSpec => []HostTypeOK
<1>1. HostInit => Typed
  BY TypedInit
<1>2. Typed /\ TimeInv /\ [HostNext]_hostVars => Typed'
  BY TypedNext DEF TimeInv
<1>3. Typed => HostTypeOK
  <2> SUFFICES ASSUME Typed PROVE HostTypeOK
    OBVIOUS
  <2>1. /\ hsm.pc \in Places /\ hsm.need \in 0 .. 4 \cup 0 .. PIN_LENGTH + 2
        /\ hsm.op \in Bytes \cup {"E"} /\ hsm.pin \in {"right", "wrong", "bad"}
        /\ hsm.handler \in BOOLEAN /\ hsm.body \in Body
    BY DEF Typed, Hsm
  <2>2. hsm.body.sent \in 0 .. hsm.body.length
    <3> DEFINE b == hsm.body
    <3>1. b.sent \in Nat /\ b.length \in Nat /\ b.sent <= b.length
      BY <2>1 DEF Body
    <3> QED
      BY <3>1
  <2>3. host.wait \in {"none", "ack", "ack2", "reply", "body", "confused"} /\ host.got \in 0 .. host.length
    BY DEF Typed, Host
  <2>4. now \in 0 .. WATCHDOG + PIN_DELAY
    BY HostAssumption DEF Typed, Latest
  <2> QED
    BY <2>1, <2>2, <2>3, <2>4 DEF HostTypeOK, Typed, Places
<1> QED
  BY <1>1, <1>2, <1>3, TimeInvariant, PTL DEF HostSpec

-----------------------------------------------------------------------------
(* The dialogue with a host that keeps to the protocol (Talk): for each place in  *)
(* the program, what is on its way in either direction and what the host waits    *)
(* for.                                                                           *)

\* What the two sides of a reply agree on.  utils_send_buffer decides on the last ACK
\* by the length of its buffer, the host by the length the header announced; for
\* interrogate the two differ by the counter, which is sent before the buffer.
SizesMeet ==
  /\ 0 < COUNT_SIZE /\ COUNT_SIZE < CHUNK_SIZE /\ 0 < ERROR_LENGTH
  /\ \A n \in 0 .. NUM_SLOTS : FinalAck(ListBody("I", n)) <=> ListLength(n) % CHUNK_SIZE # 0

\* Bytes on their way to the HSM; the last n of a header.
Stream == fifo \o host.out
Comes(op, n) == SubSeq(Header(op), 5 - n, 4)

\* The reply that is being sent, and how far it is.
Total == hsm.body.offset + hsm.body.length
Place == hsm.body.offset + hsm.body.sent

\* The ACK that utils_send_buffer waits for at the end is the one the host owes for the rest.
Sized ==
  /\ hsm.body.offset = IF hsm.op = "I" THEN COUNT_SIZE ELSE 0
  /\ Total > 0 /\ (FinalAck(hsm.body) <=> Total % CHUNK_SIZE # 0)

\* The host has taken the whole reply; it may have sent the next command.
Served(part) ==
  \/ host.wait = "none" /\ Stream = part
  \/ host.wait = "ack" /\ Stream = part \o Header(host.cmd)

\* The host has taken p bytes of a body of t; n bytes of its ACK are to come.
Taken(p, t, n) ==
  /\ toHost = <<>>
  /\ \/ /\ p < t /\ host.wait = "body" /\ host.length = t /\ host.got = p
        /\ Stream = Comes("A", n)
     \/ p = t /\ Served(Comes("A", n))

\* The host waits for the reply, or still for the last ACK before it; msgs follow.
Hears(msgs) ==
  /\ Stream = <<>>
  /\ \/ host.wait = "reply" /\ toHost = msgs
     \/ host.wait = (IF HasPin(host.cmd) THEN "ack2" ELSE "ack") /\ toHost = <<Ack>> \o msgs

Asking ==
  /\ hsm.pc = "idle" /\ toHost = <<>>
  /\ \/ hsm.need = 4 /\ Served(<<>>)
     \/ /\ hsm.need \in 1 .. 3 /\ host.wait = "ack" /\ Stream = Comes(host.cmd, hsm.need)
        /\ hsm.need < 3 => hsm.op = host.cmd

Telling ==
  /\ hsm.pc = "pin" /\ hsm.op = host.cmd /\ HasPin(host.cmd)
  /\ \/ /\ host.wait = "ack" /\ toHost = <<Ack>> /\ Stream = <<>>
        /\ hsm.need = PIN_LENGTH + Arguments(host.cmd)
     \/ host.wait = "ack2" /\ toHost = <<>> /\ Len(Stream) = hsm.need

Working ==
  /\ hsm.pc \in {"hash", "delay", "peer", "report"} /\ hsm.op = host.cmd /\ Hears(<<>>)
  /\ hsm.pc = "peer" => hsm.op # "L"

\* A reply of receive and listen ends with its header.
Announced == IF hsm.op \in {"C", "N"} THEN 0 ELSE Total

Heading ==
  /\ hsm.pc = "headAck" /\ hsm.need \in 1 .. 4
  /\ hsm.op \notin {"C", "N"} => Sized /\ hsm.body.sent = 0
  /\ \/ hsm.need = 4 /\ hsm.op \in {host.cmd, "E"} /\ Hears(<<Reply(hsm.op, Announced)>>)
     \/ hsm.op \in {"L", "C", "I", "N", "E"} /\ Taken(0, Announced, hsm.need)

Counting ==
  /\ hsm.pc = "count" /\ hsm.op = "I" /\ Sized /\ hsm.body.sent = 0 /\ Taken(0, Total, 0)

Sending ==
  /\ hsm.pc = "body" /\ hsm.body.sent < hsm.body.length /\ Sized
  /\ \/ Taken(Place, Total, 0)
     \/ /\ host.wait = "body" /\ host.length = Total /\ host.got = 0 /\ Stream = <<>>
        /\ toHost = <<Text(COUNT_SIZE)>> /\ Place = COUNT_SIZE

\* The host has not read yet all that was sent; it owes its ACK at the end of it.
Unread ==
  /\ host.wait = "body" /\ host.length = Total /\ Stream = <<>> /\ host.got < Place
  /\ \A i \in host.got + 1 .. Place - 1 : i % CHUNK_SIZE # 0
  /\ \/ toHost = <<Text(Place - host.got)>>
     \/ /\ host.got = 0 /\ COUNT_SIZE < Place
        /\ toHost = <<Text(COUNT_SIZE), Text(Place - COUNT_SIZE)>>

\* The wait at the end of a chunk, or of the body.
AckDue ==
  /\ Sized
  /\ \/ hsm.pc = "chunkAck" /\ hsm.need \in 1 .. 4 /\ Place % CHUNK_SIZE = 0
     \/ hsm.pc = "finalAck" /\ hsm.need \in 1 .. 4 /\ Place = Total /\ FinalAck(hsm.body)
     \/ hsm.pc = "body" /\ Place = Total /\ FinalAck(hsm.body)
  /\ \/ (hsm.pc # "body" => hsm.need = 4) /\ Unread
     \/ Taken(Place, Total, IF hsm.pc = "body" THEN 4 ELSE hsm.need)

Ended == hsm.pc = "body" /\ Place = Total /\ Sized /\ ~FinalAck(hsm.body) /\ Taken(Total, Total, 0)

Talk ==
  /\ ~hsm.handler /\ Len(fifo) <= 1 /\ (fifo # <<>> => Reading)
  /\ host.wait # "none" => host.cmd \in Commands
  /\ Asking \/ Telling \/ Working \/ Heading \/ Counting \/ Sending \/ AckDue \/ Ended

TalkInv == clean => Talk
-----------------------------------------------------------------------------
LEMMA ComesTail ==
  ASSUME NEW op \in Bytes, NEW n \in 1 .. 4
  PROVE  /\ Comes(op, n) \in Seq(Bytes) /\ Comes(op, n) # <<>> /\ Len(Comes(op, n)) = n
         /\ Tail(Comes(op, n)) = Comes(op, n - 1)
         /\ n = 4 => Head(Comes(op, n)) = "%"
         /\ n = 3 => Head(Comes(op, n)) = op
<1> DEFINE s == Header(op)
<1>1. s \in Seq(Bytes) /\ Len(s) = 4 /\ s[1] = "%" /\ s[2] = op
  BY HeaderTyped DEF Header
<1>2. Comes(op, n) = SubSeq(s, 5 - n, 4) /\ Comes(op, n - 1) = SubSeq(s, (5 - n) + 1, 4)
  <2>1. 5 - (n - 1) = (5 - n) + 1
    OBVIOUS
  <2> QED
    BY <2>1 DEF Comes
<1> HIDE DEF s
<1> DEFINE m == 5 - n
<1>3. m \in 1 .. Len(s) /\ m \in 1 .. 4 /\ 4 \in m .. Len(s) /\ m \in Int
  BY <1>1
<1>4. Head(SubSeq(s, m, 4)) = s[m] /\ Tail(SubSeq(s, m, 4)) = SubSeq(s, m + 1, 4)
  <2> HIDE DEF m
  <2> QED
    BY <1>1, <1>3, HeadTailOfSubSeq
<1>5. SubSeq(s, m, 4) \in Seq(Bytes) /\ Len(SubSeq(s, m, 4)) = 4 - m + 1
  <2>1. \A i \in m .. 4 : s[i] \in Bytes
    <3> TAKE i \in m .. 4
    <3>1. i \in 1 .. Len(s)
      BY <1>3
    <3> QED
      BY <1>1, <3>1, ElementOfSeq
  <2> HIDE DEF m
  <2> QED
    BY <1>3, <2>1, SubSeqProperties, 4 \in Int
<1>6. Len(SubSeq(s, m, 4)) = n
  BY <1>5
<1>7. SubSeq(s, m, 4) # <<>>
  <2> DEFINE t == SubSeq(s, m, 4)
  <2> HIDE DEF t
  <2>1. Len(t) = n /\ n # 0
    BY <1>6 DEF t
  <2> QED
    BY <2>1 DEF t
<1>8. (n = 4 => s[m] = "%") /\ (n = 3 => s[m] = op)
  BY <1>1
<1> HIDE DEF m
<1>9. Comes(op, n) = SubSeq(s, m, 4) /\ Comes(op, n - 1) = SubSeq(s, m + 1, 4)
  BY <1>2 DEF m
<1> QED
  BY <1>4, <1>5, <1>6, <1>7, <1>8, <1>9

LEMMA ComesEnds ==
  \A op \in Bytes : Comes(op, 4) = Header(op) /\ Comes(op, 0) = <<>>
<1> TAKE op \in Bytes
<1> DEFINE s == Header(op)
<1>1. s \in Seq(Bytes) /\ Len(s) = 4
  BY HeaderTyped
<1>2. Comes(op, 4) = SubSeq(s, 1, 4) /\ Comes(op, 0) = SubSeq(s, 5, 4)
  BY DEF Comes
<1> HIDE DEF s
<1>3. SubSeq(s, 1, 4) = s
  BY <1>1, SubSeqFull
<1>4. SubSeq(s, 5, 4) = <<>>
  BY SubSeqEmpty
<1> QED
  BY <1>2, <1>3, <1>4 DEF s

LEMMA ConcatTail ==
  ASSUME NEW s \in Seq(Bytes), NEW t \in Seq(Bytes), s # <<>>
  PROVE  s \o t # <<>> /\ Head(s \o t) = Head(s) /\ Tail(s \o t) = Tail(s) \o t
OBVIOUS

LEMMA EmptyConcat ==
  \A s \in Seq(Bytes) : <<>> \o s = s /\ s \o <<>> = s
OBVIOUS

LEMMA ConcatEmpty ==
  \A s, t \in Seq(Bytes) : s \o t = <<>> <=> s = <<>> /\ t = <<>>
OBVIOUS

-----------------------------------------------------------------------------
LEMMA CommandBytes == Commands \subseteq Bytes /\ Commands \cup {"0"} \subseteq Bytes /\ "A" \in Bytes
BY DEF Commands, Bytes, Operations

\* Reading a byte takes the first one off the stream.
LEMMA StreamRead ==
  ASSUME Typed, fifo # <<>>, Len(fifo) <= 1, fifo' = Tail(fifo), host' = host
  PROVE  /\ Stream \in Seq(Bytes) /\ Stream # <<>> /\ Head(Stream) = Head(fifo)
         /\ Stream' = Tail(Stream) /\ fifo' = <<>>
<1>1. fifo \in Seq(Bytes) /\ host.out \in Seq(Bytes)
  BY DEF Typed, Host
<1>2. Stream # <<>> /\ Head(Stream) = Head(fifo) /\ Tail(Stream) = Tail(fifo) \o host.out
  BY <1>1, ConcatTail DEF Stream
<1>3. Stream \in Seq(Bytes)
  BY <1>1 DEF Stream
<1>4. fifo' = <<>>
  BY <1>1
<1>5. Stream' = Tail(Stream)
  BY <1>2 DEF Stream
<1> QED
  BY <1>2, <1>3, <1>4, <1>5

LEMMA ServedRead ==
  ASSUME Typed, fifo # <<>>, Len(fifo) <= 1, fifo' = Tail(fifo), host' = host,
         NEW n \in 1 .. 4, Served(Comes("A", n))
  PROVE  Served(Comes("A", n - 1))' /\ Head(fifo) = Head(Comes("A", n))
<1> DEFINE c == Comes("A", n)
           d == Comes("A", n - 1)
           s == Stream
           h == Header(host.cmd)
<1>1. c \in Seq(Bytes) /\ c # <<>> /\ Tail(c) = d
  BY ComesTail, CommandBytes
<1>2. h \in Seq(Bytes)
  BY CommandBytes, HeaderTyped DEF Typed, Host
<1>3. s # <<>> /\ Head(s) = Head(fifo) /\ Stream' = Tail(s)
  BY StreamRead
<1>5. (host.wait = "none" /\ s = c) \/ (host.wait = "ack" /\ s = c \o h)
  BY DEF Served
<1> HIDE DEF c, s, d, h
<1>6. Head(c \o h) = Head(c) /\ Tail(c \o h) = d \o h
  BY <1>1, <1>2, ConcatTail
<1>7. (host.wait = "none" /\ Tail(s) = d) \/ (host.wait = "ack" /\ Tail(s) = d \o h)
  BY <1>1, <1>5, <1>6
<1>8. Head(fifo) = Head(c)
  BY <1>3, <1>5, <1>6
<1>9. d' = d /\ h' = h
  BY DEF d, h
<1>10. Served(d)'
  BY <1>3, <1>7, <1>9 DEF Served, h
<1> QED
  BY <1>8, <1>10 DEF c, d

LEMMA TakenRead ==
  ASSUME Typed, fifo # <<>>, Len(fifo) <= 1, fifo' = Tail(fifo), host' = host, toHost' = toHost,
         NEW n \in 1 .. 4, NEW p, NEW t, Taken(p, t, n)
  PROVE  Taken(p, t, n - 1)' /\ Head(fifo) = Head(Comes("A", n))
<1>1. CASE p = t /\ Served(Comes("A", n))
  <2>1. Served(Comes("A", n - 1))' /\ Head(fifo) = Head(Comes("A", n))
    BY <1>1, ServedRead
  <2> QED
    BY <1>1, <2>1 DEF Taken
<1>2. CASE /\ p < t /\ host.wait = "body" /\ host.length = t /\ host.got = p
           /\ Stream = Comes("A", n)
  <2>1. Head(Stream) = Head(fifo) /\ Stream' = Tail(Stream)
    BY StreamRead
  <2>2. Tail(Comes("A", n)) = Comes("A", n - 1)
    BY ComesTail, CommandBytes
  <2> QED
    BY <1>2, <2>1, <2>2 DEF Taken
<1> QED
  BY <1>1, <1>2 DEF Taken

\* The reply ends with its ACK, or the command without one: the main loop goes on.
LEMMA IdleTalk ==
  ASSUME NEW t \in Nat, Taken(t, t, 0)', hsm' = HsmIdle
  PROVE  Asking' /\ ~hsm'.handler /\ Reading'
<1>1. toHost' = <<>> /\ (Served(Comes("A", 0)))'
  BY DEF Taken
<1>2. Comes("A", 0) = <<>>
  BY ComesEnds, CommandBytes
<1>3. Served(<<>>)'
  BY <1>1, <1>2 DEF Served
<1>4. hsm'.pc = "idle" /\ hsm'.need = 4 /\ ~hsm'.handler
  BY DEF HsmIdle
<1> QED
  BY <1>1, <1>3, <1>4 DEF Asking, Reading

LEMMA BodyFacts ==
  ASSUME hsm \in Hsm
  PROVE  /\ hsm.body.sent \in Nat /\ hsm.body.length \in Nat /\ hsm.body.offset \in Nat
         /\ hsm.body.sent <= hsm.body.length /\ Total \in Nat /\ Place \in Nat /\ Place <= Total
         /\ Announced \in Nat /\ hsm.body \in Body
<1> DEFINE b == hsm.body
<1>1. b \in Body
  BY DEF Hsm
<1> HIDE DEF b
<1>2. b.sent \in Nat /\ b.length \in Nat /\ b.offset \in Nat /\ b.sent <= b.length
  BY <1>1 DEF Body
<1> QED
  BY <1>1, <1>2 DEF b, Total, Place, Announced

\* An ACK comes in, byte by byte; with its last byte the program goes on.
LEMMA AckReadTalk ==
  ASSUME Typed, Talk, hsm.pc \in {"headAck", "chunkAck", "finalAck"},
         ReadMagic \/ ReadHeader \/ EndAck
  PROVE  Talk'
<1>1. /\ fifo # <<>> /\ fifo' = Tail(fifo) /\ toHost' = toHost /\ host' = host
      /\ hsm \in Hsm /\ ~hsm.handler /\ Len(fifo) <= 1
      /\ host.wait # "none" => host.cmd \in Commands
  BY DEF ReadMagic, ReadHeader, EndAck, CanRead, GoOn, Talk, Typed
<1>2. Stream # <<>> /\ fifo' = <<>>
  BY <1>1, StreamRead
<1>3. \/ Heading /\ Taken(0, Announced, hsm.need) /\ hsm.op \in {"L", "C", "I", "N", "E"}
      \/ AckDue /\ Taken(Place, Total, hsm.need) /\ hsm.pc # "headAck"
  BY <1>2 DEF Talk, Asking, Telling, Working, Heading, Counting, Sending, AckDue, Unread, Ended, Hears
<1>4. hsm.need \in 1 .. 4
  BY <1>3 DEF Heading, AckDue
<1>5. PICK n \in 1 .. 4 : n = hsm.need
  BY <1>4
<1>6. \E p, t \in Nat : /\ Taken(p, t, n)
                        /\ \/ Heading /\ p = 0 /\ t = Announced /\ hsm.op \in {"L", "C", "I", "N", "E"}
                           \/ AckDue /\ p = Place /\ t = Total /\ hsm.pc # "headAck"
  BY <1>1, <1>3, <1>5, BodyFacts
<1>7. PICK p \in Nat, t \in Nat :
           /\ Taken(p, t, n)
           /\ \/ Heading /\ p = 0 /\ t = Announced /\ hsm.op \in {"L", "C", "I", "N", "E"}
              \/ AckDue /\ p = Place /\ t = Total /\ hsm.pc # "headAck"
  BY <1>6
<1>8. Taken(p, t, n - 1)' /\ Head(fifo) = Head(Comes("A", n))
  BY <1>1, <1>7, TakenRead
<1>9. n = 4 => Head(fifo) = "%"
  BY <1>8, ComesTail, CommandBytes
<1>10. SUFFICES  /\ Heading' \/ Counting' \/ Sending' \/ AckDue' \/ Ended' \/ Asking'
              /\ ~hsm'.handler
  <2>1. Len(fifo') <= 1 /\ (host'.wait # "none" => host'.cmd \in Commands) /\ fifo' = <<>>
    BY <1>1, <1>2
  <2> QED
    BY <2>1 DEF Talk
<1>11. ASSUME ReadMagic \/ ReadHeader
       PROVE  /\ n > 1 /\ hsm'.need = n - 1 /\ ~hsm'.handler
              /\ hsm'.pc = hsm.pc /\ hsm'.op = hsm.op /\ hsm'.body = hsm.body
  <2>1. CASE ReadMagic
    <3>1. n = 4 /\ hsm' = [hsm EXCEPT !.need = 3]
      BY <1>5, <1>9, <2>1 DEF ReadMagic, GoOn
    <3> QED
      BY <1>1, <3>1 DEF Hsm
  <2>2. CASE ReadHeader
    <3>1. n \in {2, 3} /\ hsm.pc # "idle"
      BY <1>1, <1>5, <2>2 DEF ReadHeader
    <3>2. hsm' = [hsm EXCEPT !.need = @ - 1, !.op = @]
      BY <2>2, <3>1 DEF ReadHeader, GoOn
    <3> QED
      BY <1>1, <1>5, <3>1, <3>2 DEF Hsm
  <2> QED
    BY <1>11, <2>1, <2>2
<1>12. CASE ReadMagic \/ ReadHeader
  <2>2. /\ n > 1 /\ hsm'.need = n - 1 /\ ~hsm'.handler
        /\ hsm'.pc = hsm.pc /\ hsm'.op = hsm.op /\ hsm'.body = hsm.body
    BY <1>11, <1>12
  <2>3. Total' = Total /\ Place' = Place /\ Announced' = Announced /\ (Sized' <=> Sized)
    BY <2>2 DEF Total, Place, Announced, Sized
  <2>4. CASE Heading /\ p = 0 /\ t = Announced /\ hsm.op \in {"L", "C", "I", "N", "E"}
    <3>1. Taken(0, Announced, hsm.need)'
      BY <1>8, <2>2, <2>3, <2>4 DEF Taken, Served
    <3> QED
      BY <2>2, <2>3, <2>4, <3>1 DEF Heading
  <2>5. CASE AckDue /\ p = Place /\ t = Total /\ hsm.pc # "headAck"
    <3>1. Taken(Place, Total, hsm.need)'
      BY <1>8, <2>2, <2>3, <2>5 DEF Taken, Served
    <3> QED
      BY <2>2, <2>3, <2>5, <3>1 DEF AckDue, Taken
  <2> QED
    BY <1>7, <2>2, <2>4, <2>5
<1>13. CASE EndAck
  <2>1. n = 1 /\ hsm' = AfterAck(hsm)
    BY <1>5, <1>13 DEF EndAck, GoOn
  <2>2. Taken(p, t, 0)'
    BY <1>8, <2>1
  <2>3. ASSUME hsm' = HsmIdle, p = t PROVE Asking' /\ ~hsm'.handler
    BY <2>2, <2>3, IdleTalk
  <2>4. CASE /\ Heading /\ p = 0 /\ t = Announced /\ hsm.op \in {"L", "C", "I", "N", "E"}
    <3>1. hsm.pc = "headAck"
      BY <2>4 DEF Heading
    <3>2. CASE hsm.op \in {"C", "N"}
      <4>1. hsm' = HsmIdle /\ p = t
        BY <1>1, <2>1, <2>4, <3>1, <3>2 DEF AfterAck, Done, Announced
      <4> QED
        BY <2>3, <4>1
    <3>3. CASE hsm.op = "I"
      <4>1. hsm' = [hsm EXCEPT !.pc = "count"]
        BY <2>1, <3>1, <3>3 DEF AfterAck
      <4>2. hsm'.pc = "count" /\ hsm'.op = "I" /\ hsm'.body = hsm.body /\ ~hsm'.handler
        BY <1>1, <3>3, <4>1 DEF Hsm
      <4>3. Sized' /\ hsm'.body.sent = 0 /\ Total' = t
        BY <2>4, <3>3, <4>2 DEF Heading, Sized, Total, Announced
      <4>4. Taken(0, Total, 0)'
        BY <2>2, <2>4, <4>3 DEF Taken, Served
      <4> QED
        BY <4>2, <4>3, <4>4 DEF Counting
    <3>4. CASE hsm.op \in {"L", "E"}
      <4>1. hsm' = [hsm EXCEPT !.pc = "body"]
        BY <2>1, <3>1, <3>4 DEF AfterAck
      <4>2. hsm'.pc = "body" /\ hsm'.op = hsm.op /\ hsm'.body = hsm.body /\ ~hsm'.handler
        BY <1>1, <4>1 DEF Hsm
      <4>3. Sized' /\ hsm'.body.sent = 0 /\ Total' = t /\ Place' = 0 /\ hsm'.body.length > 0
        BY <1>1, <2>4, <3>4, <4>2, BodyFacts DEF Heading, Sized, Total, Place, Announced
      <4>4. Taken(Place, Total, 0)'
        BY <2>2, <2>4, <4>3 DEF Taken, Served
      <4> QED
        BY <4>2, <4>3, <4>4 DEF Sending
    <3> QED
      BY <2>4, <3>2, <3>3, <3>4
  <2>5. CASE AckDue /\ p = Place /\ t = Total /\ hsm.pc = "finalAck"
    <3>1. hsm' = HsmIdle /\ p = t
      BY <1>1, <2>1, <2>5 DEF AckDue, AfterAck, Done
    <3> QED
      BY <2>3, <3>1
  <2>6. CASE AckDue /\ p = Place /\ t = Total /\ hsm.pc = "chunkAck"
    <3>1. hsm' = [hsm EXCEPT !.pc = "body"]
      BY <2>1, <2>6 DEF AfterAck
    <3>2. hsm'.pc = "body" /\ hsm'.op = hsm.op /\ hsm'.body = hsm.body /\ ~hsm'.handler
      BY <1>1, <3>1 DEF Hsm
    <3>3. Total' = t /\ Place' = p /\ (Sized' <=> Sized) /\ (FinalAck(hsm.body)' <=> FinalAck(hsm.body))
      BY <2>6, <3>2 DEF Total, Place, Sized, FinalAck
    <3>4. Sized' /\ p % CHUNK_SIZE = 0
      BY <2>6, <3>3 DEF AckDue
    <3>5. CASE p = t
      <4>1. Taken(Total, Total, 0)'
        BY <2>2, <3>3, <3>5 DEF Taken, Served
      <4>2. ~FinalAck(hsm.body)'
        BY <2>6, <3>3, <3>4, <3>5 DEF Sized
      <4> QED
        BY <3>2, <3>3, <3>4, <3>5, <4>1, <4>2 DEF Ended
    <3>6. CASE p # t
      <4>1. Taken(Place, Total, 0)'
        BY <2>2, <3>3 DEF Taken, Served
      <4>2. hsm.body.sent < hsm.body.length
        BY <1>1, <2>6, <3>6, BodyFacts DEF Total, Place
      <4> QED
        BY <3>2, <3>4, <4>1, <4>2 DEF Sending
    <3> QED
      BY <3>5, <3>6
  <2> QED
    BY <1>7, <2>4, <2>5, <2>6 DEF AckDue
<1> QED
  BY <1>13, <1>12

\* The main loop reads a header, which is a command of the host.
LEMMA AskingTalk ==
  ASSUME Typed, Talk, hsm.pc = "idle", ReadMagic \/ ReadHeader \/ Dispatch
  PROVE  Talk'
<1>1. /\ fifo # <<>> /\ fifo' = Tail(fifo) /\ host' = host
      /\ hsm \in Hsm /\ ~hsm.handler /\ Len(fifo) <= 1
      /\ host.wait # "none" => host.cmd \in Commands
  BY DEF ReadMagic, ReadHeader, Dispatch, CanRead, GoOn, Talk, Typed
<1>2. Stream # <<>> /\ Stream \in Seq(Bytes) /\ fifo' = <<>> /\ Head(Stream) = Head(fifo) /\ Stream' = Tail(Stream)
  BY <1>1, StreamRead
<1>3. Asking
  BY DEF Talk, Asking, Telling, Working, Heading, Counting, Sending, AckDue, Ended
<1>4. hsm.need \in 1 .. 4
  BY <1>3 DEF Asking
<1>5. host.wait = "ack" /\ host.cmd \in Commands /\ toHost = <<>> /\ Stream = Comes(host.cmd, hsm.need)
  <2>1. CASE hsm.need = 4
    <3>1. <<>> \o Header(host.cmd) = Comes(host.cmd, 4)
      <4>1. host.cmd \in Bytes
        BY CommandBytes DEF Typed, Host
      <4> QED
        BY <4>1, EmptyConcat, HeaderTyped, ComesEnds
    <3> QED
      BY <1>1, <1>2, <1>3, <2>1, <3>1 DEF Asking, Served
  <2>2. CASE hsm.need # 4
    BY <1>1, <1>3, <2>2 DEF Asking
  <2> QED
    BY <2>1, <2>2
<1>6. PICK n \in 1 .. 4 : n = hsm.need
  BY <1>4
<1>7. PICK cmd \in Commands : cmd = host.cmd
  BY <1>5
<1>8. /\ Stream' = Comes(cmd, n - 1)
      /\ n = 4 => Head(fifo) = "%"
      /\ n = 3 => Head(fifo) = cmd
  <2>1. Stream = Comes(cmd, n) /\ cmd \in Bytes
    BY <1>5, <1>6, <1>7, CommandBytes
  <2>2. /\ Tail(Comes(cmd, n)) = Comes(cmd, n - 1)
        /\ n = 4 => Head(Comes(cmd, n)) = "%"
        /\ n = 3 => Head(Comes(cmd, n)) = cmd
    BY <2>1, ComesTail
  <2> QED
    BY <1>2, <2>1, <2>2
<1>9. /\ Len(fifo') <= 1 /\ (host'.wait # "none" => host'.cmd \in Commands) /\ fifo' = <<>>
      /\ host'.wait = "ack" /\ host'.cmd = cmd
  BY <1>1, <1>2, <1>5, <1>7
<1>10. ASSUME n > 1, hsm'.pc = "idle", hsm'.need = n - 1, ~hsm'.handler, toHost' = <<>>,
              n < 4 => hsm'.op = cmd
       PROVE  Talk'
  <2>1. Asking'
    BY <1>8, <1>9, <1>10 DEF Asking
  <2> QED
    BY <1>9, <1>10, <2>1 DEF Talk
<1>11. CASE ReadMagic
  <2>1. n = 4 /\ hsm' = [hsm EXCEPT !.need = 3] /\ toHost' = toHost
    BY <1>6, <1>8, <1>11 DEF ReadMagic, GoOn
  <2>2. hsm'.pc = "idle" /\ hsm'.need = 3 /\ ~hsm'.handler
    BY <1>1, <2>1 DEF Hsm
  <2> QED
    BY <1>5, <1>10, <2>1, <2>2
<1>12. CASE ReadHeader
  <2>1. n \in {2, 3} /\ toHost' = toHost
    BY <1>6, <1>12 DEF ReadHeader
  <2> DEFINE op == IF hsm.need = 3 THEN Head(fifo) ELSE hsm.op
  <2>2. hsm' = [hsm EXCEPT !.need = @ - 1, !.op = op]
    BY <1>12 DEF ReadHeader, GoOn
  <2>3. op = cmd
    BY <1>3, <1>6, <1>7, <1>8, <2>1 DEF Asking
  <2> HIDE DEF op
  <2>4. hsm'.pc = "idle" /\ hsm'.need = n - 1 /\ ~hsm'.handler /\ hsm'.op = cmd
    BY <1>1, <1>6, <2>2, <2>3 DEF Hsm
  <2> QED
    BY <1>5, <1>10, <2>1, <2>4
<1>13. CASE Dispatch
  <2>1. n = 1 /\ hsm.op = cmd
    BY <1>3, <1>6, <1>7, <1>13 DEF Dispatch, Asking
  <2>2. Stream' = <<>> /\ toHost' = <<Ack>>
    <3>1. toHost' = Append(toHost, Ack)
      BY <2>1 , <1>13 DEF Dispatch
    <3>2. Comes(cmd, 0) = <<>>
      BY ComesEnds, CommandBytes
    <3> QED
      BY <1>5, <1>8, <2>1, <3>1, <3>2
  <2>3. CASE HasPin(cmd)
    <3> DEFINE need == PIN_LENGTH + Arguments(cmd)
    <3>1. hsm' = [hsm EXCEPT !.pc = "pin", !.need = need]
      BY <1>13, <2>1, <2>3 DEF Dispatch, GoOn
    <3> HIDE DEF need
    <3>2. hsm'.pc = "pin" /\ hsm'.need = need /\ hsm'.op = cmd /\ ~hsm'.handler
      BY <1>1, <2>1, <3>1 DEF Hsm
    <3>3. Telling'
      BY <1>9, <2>2, <2>3, <3>2 DEF Telling, need
    <3> QED
      BY <1>9, <3>2, <3>3 DEF Talk
  <2>4. CASE ~HasPin(cmd)
    <3>1. hsm' = Wait(hsm, "peer")
      BY <1>13, <2>1, <2>4 DEF Dispatch, GoOn
    <3>2. hsm'.pc = "peer" /\ hsm'.op = cmd /\ ~hsm'.handler
      BY <1>1, <2>1, <3>1 DEF Hsm, Wait
    <3>3. <<Ack>> \o <<>> = <<Ack>> /\ cmd # "L"
      BY <2>4 DEF HasPin
    <3>4. Working'
      BY <1>9, <2>2, <2>4, <3>2, <3>3 DEF Working, Hears
    <3> QED
      BY <1>9, <3>2, <3>4 DEF Talk
  <2> QED
    BY <2>3, <2>4
<1> QED
  BY <1>11, <1>12, <1>13

LEMMA ReadPinTalk ==
  ASSUME Typed, Talk, ReadPin
  PROVE  Talk'
<1>1. /\ fifo # <<>> /\ fifo' = Tail(fifo) /\ host' = host /\ hsm.pc = "pin"
      /\ hsm \in Hsm /\ ~hsm.handler /\ Len(fifo) <= 1
      /\ host.wait # "none" => host.cmd \in Commands
  BY DEF ReadPin, CanRead, GoOn, Talk, Typed
<1>2. Stream # <<>> /\ Stream \in Seq(Bytes) /\ fifo' = <<>> /\ Stream' = Tail(Stream)
  BY <1>1, StreamRead
<1>3. Telling
  BY <1>1 DEF Talk, Asking, Telling, Working, Heading, Counting, Sending, AckDue, Ended
<1>4. /\ host.wait = "ack2" /\ toHost = <<>> /\ Len(Stream) = hsm.need /\ hsm.op = host.cmd
      /\ HasPin(host.cmd)
  BY <1>2, <1>3 DEF Telling
<1>5. PICK n \in Nat \ {0} : n = hsm.need
  BY <1>2, <1>4
<1>6. Len(Stream') = n - 1 /\ Stream' \in Seq(Bytes)
  BY <1>2, <1>4, <1>5
<1> DEFINE pc == IF hsm.need = 1 THEN "hash" ELSE hsm.pc
           pin == IF hsm.need > Arguments(hsm.op) THEN JudgeDigit(hsm.pin, Head(fifo)) ELSE hsm.pin
<1>7. /\ hsm' = [hsm EXCEPT !.need = hsm.need - 1, !.pc = pc, !.pin = pin]
      /\ toHost' = IF n = 1 THEN Append(toHost, Ack) ELSE toHost
  BY <1>5 DEF ReadPin, GoOn
<1> HIDE DEF pin
<1>8. hsm'.need = n - 1 /\ hsm'.pc = pc /\ hsm'.op = hsm.op /\ ~hsm'.handler
  <2> HIDE DEF pc
  <2> QED
    BY <1>1, <1>5, <1>7 DEF Hsm
<1>9. Len(fifo') <= 1 /\ (host'.wait # "none" => host'.cmd \in Commands) /\ fifo' = <<>>
  BY <1>1, <1>2
<1>10. CASE n = 1
  <2>1. Stream' = <<>> /\ toHost' = <<Ack>> /\ <<Ack>> \o <<>> = <<Ack>> /\ hsm'.pc = "hash"
    BY <1>4, <1>5, <1>6, <1>7, <1>8, <1>10
  <2>2. Working'
    BY <1>1, <1>4, <1>8, <2>1 DEF Working, Hears
  <2> QED
    BY <1>8, <1>9, <2>2 DEF Talk
<1>11. CASE n # 1
  <2>1. Telling'
    BY <1>1, <1>4, <1>5, <1>6, <1>7, <1>8, <1>11 DEF Telling
  <2> QED
    BY <1>8, <1>9, <2>1 DEF Talk
<1> QED
  BY <1>10, <1>11

LEMMA AppendOne ==
  \A m : Append(<<>>, m) = <<m>> /\ Append(<<Ack>>, m) = <<Ack>> \o <<m>> /\ <<Ack>> \o <<>> = <<Ack>>
OBVIOUS

\* fifo is empty while the program works.
LEMMA WorkingTalk ==
  ASSUME Typed, Talk, hsm.pc \in {"hash", "delay", "peer", "report"}
  PROVE  /\ Working /\ fifo = <<>> /\ Hears(<<>>) /\ hsm.op = host.cmd /\ host.wait # "none"
         /\ ~hsm.handler /\ host.cmd \in Commands /\ hsm \in Hsm
<1>1. Working /\ fifo = <<>> /\ ~hsm.handler /\ hsm \in Hsm
  BY DEF Talk, Typed, Asking, Telling, Working, Heading, Counting, Sending, AckDue, Ended, Reading
<1> QED
  BY <1>1 DEF Working, Hears, Talk

LEMMA StaysWorking ==
  ASSUME Typed, Talk, hsm.pc \in {"hash", "delay", "peer", "report"},
         UNCHANGED <<fifo, toHost, host>>, NEW pc \in {"delay", "peer", "report"},
         hsm' = Wait(hsm, pc), pc = "peer" => hsm.op # "L"
  PROVE  Talk'
<1>1. /\ Working /\ fifo = <<>> /\ Hears(<<>>) /\ hsm.op = host.cmd /\ ~hsm.handler
      /\ host.cmd \in Commands /\ hsm \in Hsm
  BY WorkingTalk
<1>2. hsm'.pc = pc /\ hsm'.op = hsm.op /\ ~hsm'.handler
  BY <1>1 DEF Hsm, Wait
<1>3. Hears(<<>>)'
  BY <1>1 DEF Hears, Stream
<1>4. Working'
  BY <1>1, <1>2, <1>3 DEF Working
<1> QED
  BY <1>1, <1>2, <1>4 DEF Talk

LEMMA HeadingTalk ==
  ASSUME Typed, Talk, hsm.pc \in {"hash", "delay", "peer", "report"},
         UNCHANGED <<fifo, host>>, ~hsm'.handler, hsm'.pc = "headAck", hsm'.need = 4,
         hsm'.op \in {host.cmd, "E"}, hsm'.op \notin {"C", "N"} => Sized' /\ hsm'.body.sent = 0,
         NEW n, n = Announced', toHost' = Append(toHost, Reply(hsm'.op, n))
  PROVE  Talk'
<1>1. fifo = <<>> /\ Hears(<<>>) /\ host.cmd \in Commands
  BY WorkingTalk
<1> DEFINE m == Reply(hsm'.op, n)
<1>2. \/ host.wait = "reply" /\ toHost = <<>>
      \/ /\ host.wait = (IF HasPin(host.cmd) THEN "ack2" ELSE "ack")
         /\ toHost = <<Ack>>
  BY <1>1, AppendOne DEF Hears
<1>3. \/ host.wait = "reply" /\ toHost' = <<m>>
      \/ /\ host.wait = (IF HasPin(host.cmd) THEN "ack2" ELSE "ack")
         /\ toHost' = <<Ack>> \o <<m>>
  <2> HIDE DEF m
  <2>1. toHost' = Append(toHost, m)
    BY DEF m
  <2> QED
    BY <1>2, <2>1, AppendOne
<1>4. Hears(<<Reply(hsm.op, Announced)>>)'
  BY <1>1, <1>3 DEF Hears, Stream
<1>5. Heading'
  BY <1>4 DEF Heading
<1> QED
  BY <1>1, <1>5 DEF Talk

\* The bodies that are sent.
LEMMA ListSized ==
  ASSUME SizesMeet, NEW n \in 0 .. NUM_SLOTS, NEW op \in {"L", "I"},
         hsm'.op = op, hsm'.body = ListBody(op, n)
  PROVE  Sized' /\ hsm'.body.sent = 0 /\ Total' = ListLength(n) /\ Announced' = ListLength(n)
<1>1. /\ n \in Nat /\ COUNT_SIZE \in Nat /\ ENTRY_SIZE \in Nat /\ 0 < COUNT_SIZE
      /\ n * ENTRY_SIZE \in Nat /\ CHUNK_SIZE \in Nat \ {0}
  BY HostAssumption DEF SizesMeet
<1> DEFINE entries == n * ENTRY_SIZE
<1>2. ListLength(n) = COUNT_SIZE + entries
  BY DEF ListLength
<1>3. CASE op = "L"
  <2>1. hsm'.body = [length |-> ListLength(n), offset |-> 0, sent |-> 0]
    BY <1>3 DEF ListBody
  <2> HIDE DEF entries
  <2>2. hsm'.body.length = ListLength(n) /\ hsm'.body.offset = 0 /\ hsm'.body.sent = 0
    BY <2>1
  <2>3. Total' = ListLength(n) /\ ListLength(n) > 0
    BY <1>1, <1>2, <2>2 DEF Total, entries
  <2>4. FinalAck(hsm.body)' <=> Total' % CHUNK_SIZE # 0
    BY <2>2, <2>3 DEF FinalAck
  <2> QED
    BY <1>3, <2>2, <2>3, <2>4 DEF Sized, Announced
<1>4. CASE op = "I"
  <2>1. hsm'.body = [length |-> entries, offset |-> COUNT_SIZE, sent |-> 0]
    BY <1>4 DEF ListBody
  <2> HIDE DEF entries
  <2>2. hsm'.body.length = entries /\ hsm'.body.offset = COUNT_SIZE /\ hsm'.body.sent = 0
    BY <2>1
  <2>3. Total' = ListLength(n) /\ ListLength(n) > 0
    BY <1>1, <1>2, <2>2 DEF Total, entries
  <2>4. FinalAck(ListBody("I", n)) <=> ListLength(n) % CHUNK_SIZE # 0
    BY DEF SizesMeet
  <2>5. FinalAck(hsm.body)' <=> Total' % CHUNK_SIZE # 0
    BY <1>4, <2>3, <2>4 DEF FinalAck
  <2> QED
    BY <1>4, <2>2, <2>3, <2>5 DEF Sized, Announced
<1> QED
  BY <1>3, <1>4

LEMMA ErrorSized ==
  ASSUME SizesMeet, hsm'.op = "E", hsm'.body = ErrorBody
  PROVE  Sized' /\ hsm'.body.sent = 0 /\ Announced' = ERROR_LENGTH
<1>1. ERROR_LENGTH \in Nat /\ 0 < ERROR_LENGTH
  BY HostAssumption DEF SizesMeet
<1>2. hsm'.body.length = ERROR_LENGTH /\ hsm'.body.offset = 0 /\ hsm'.body.sent = 0
  BY DEF ErrorBody
<1>3. Total' = ERROR_LENGTH
  BY <1>1, <1>2 DEF Total
<1>4. FinalAck(hsm.body)' <=> Total' % CHUNK_SIZE # 0
  BY <1>1, <1>2, <1>3 DEF FinalAck
<1> QED
  BY <1>1, <1>2, <1>3, <1>4 DEF Sized, Announced

LEMMA ComputingTalk ==
  ASSUME SizesMeet, Typed, Talk, VerifyPin \/ PinDelay \/ Report
  PROVE  Talk'
<1>1. /\ hsm.pc \in {"hash", "delay", "peer", "report"} /\ UNCHANGED <<fifo, host>>
  BY DEF VerifyPin, PinDelay, Report, Compute
<1>2. hsm.op = host.cmd /\ host.cmd \in Commands /\ ~hsm.handler /\ hsm \in Hsm
  BY <1>1, WorkingTalk
<1>3. ASSUME NEW pc \in {"delay", "peer", "report"}, Compute(Wait(hsm, pc)), toHost' = toHost,
             pc = "peer" => hsm.op # "L"
      PROVE  Talk'
  <2>1. hsm' = Wait(hsm, pc)
    BY <1>3 DEF Compute
  <2> QED
    BY <1>1, <1>3, <2>1, StaysWorking
<1>4. CASE VerifyPin
  <2>1. CASE \E n \in 0 .. NUM_SLOTS :
             /\ hsm.op = "L" /\ Compute([Wait(hsm, "headAck") EXCEPT !.body = ListBody("L", n)])
             /\ toHost' = Append(toHost, Reply("L", ListLength(n)))
    <3>1. PICK n \in 0 .. NUM_SLOTS :
             /\ hsm.op = "L" /\ Compute([Wait(hsm, "headAck") EXCEPT !.body = ListBody("L", n)])
             /\ toHost' = Append(toHost, Reply("L", ListLength(n)))
      BY <2>1
    <3> DEFINE b == ListBody("L", n)
    <3>2. hsm' = [Wait(hsm, "headAck") EXCEPT !.body = b]
      BY <3>1 DEF Compute
    <3> HIDE DEF b
    <3>3. /\ hsm'.pc = "headAck" /\ hsm'.need = 4 /\ hsm'.op = "L" /\ hsm'.body = b
          /\ ~hsm'.handler
      BY <1>2, <3>1, <3>2 DEF Hsm, Wait
    <3>4. Sized' /\ hsm'.body.sent = 0 /\ Announced' = ListLength(n)
      BY <3>3, ListSized DEF b
    <3> QED
      BY <1>1, <1>2, <3>1, <3>3, <3>4, HeadingTalk
  <2> QED
    BY <1>3, <1>4, <2>1 DEF VerifyPin
<1>5. CASE PinDelay
  BY <1>3, <1>5 DEF PinDelay
<1>6. CASE Report
  <2> DEFINE b == ErrorBody
  <2>1. hsm' = [Wait(hsm, "headAck") EXCEPT !.op = "E", !.body = b]
    BY <1>6 DEF Report, Compute
  <2> HIDE DEF b
  <2>2. hsm'.pc = "headAck" /\ hsm'.need = 4 /\ hsm'.op = "E" /\ hsm'.body = b /\ ~hsm'.handler
    BY <1>2, <2>1 DEF Hsm, Wait
  <2>3. Sized' /\ hsm'.body.sent = 0 /\ Announced' = ERROR_LENGTH
    BY <2>2, ErrorSized DEF b
  <2>4. toHost' = Append(toHost, Reply("E", ERROR_LENGTH))
    BY <1>6 DEF Report
  <2> QED
    BY <1>1, <2>2, <2>3, <2>4, HeadingTalk
<1> QED
  BY <1>4, <1>5, <1>6

LEMMA PeerDoneTalk ==
  ASSUME SizesMeet, Typed, Talk, PeerDone
  PROVE  Talk'
<1>1. hsm.pc = "peer" /\ UNCHANGED <<fifo, host>>
  BY DEF PeerDone, GoOn
<1>2. hsm.op = host.cmd /\ host.cmd \in Commands /\ ~hsm.handler /\ hsm \in Hsm /\ hsm.op # "L"
  BY <1>1, WorkingTalk DEF Working
<1>3. CASE GoOn(Wait(hsm, "report")) /\ UNCHANGED toHost
  <2>1. hsm' = Wait(hsm, "report")
    BY <1>3 DEF GoOn
  <2> QED
    BY <1>1, <1>3, <2>1, StaysWorking
<1>4. CASE hsm.op # "I" /\ GoOn(Wait(hsm, "headAck")) /\ toHost' = Append(toHost, Reply(hsm.op, 0))
  <2>1. hsm' = Wait(hsm, "headAck")
    BY <1>4 DEF GoOn
  <2>2. hsm'.pc = "headAck" /\ hsm'.need = 4 /\ hsm'.op = hsm.op /\ ~hsm'.handler
    BY <1>2, <2>1 DEF Hsm, Wait
  <2>3. hsm.op \in {"C", "N"}
    BY <1>2, <1>4 DEF Commands
  <2>4. Announced' = 0
    BY <2>2, <2>3 DEF Announced
  <2> QED
    BY <1>1, <1>2, <1>4, <2>2, <2>3, <2>4, HeadingTalk
<1>5. CASE \E n \in 0 .. NUM_SLOTS :
             /\ hsm.op = "I" /\ GoOn([Wait(hsm, "headAck") EXCEPT !.body = ListBody("I", n)])
             /\ toHost' = Append(toHost, Reply("I", ListLength(n)))
  <2>1. PICK n \in 0 .. NUM_SLOTS :
             /\ hsm.op = "I" /\ GoOn([Wait(hsm, "headAck") EXCEPT !.body = ListBody("I", n)])
             /\ toHost' = Append(toHost, Reply("I", ListLength(n)))
    BY <1>5
  <2> DEFINE b == ListBody("I", n)
  <2>2. hsm' = [Wait(hsm, "headAck") EXCEPT !.body = b]
    BY <2>1 DEF GoOn
  <2> HIDE DEF b
  <2>3. /\ hsm'.pc = "headAck" /\ hsm'.need = 4 /\ hsm'.op = "I" /\ hsm'.body = b
        /\ ~hsm'.handler
    BY <1>2, <2>1, <2>2 DEF Hsm, Wait
  <2>4. Sized' /\ hsm'.body.sent = 0 /\ Announced' = ListLength(n)
    BY <2>3, ListSized DEF b
  <2> QED
    BY <1>1, <1>2, <2>1, <2>3, <2>4, HeadingTalk
<1> QED
  BY <1>3, <1>4, <1>5 DEF PeerDone

LEMMA BodyTalk ==
  ASSUME Typed, Talk, hsm.pc \in {"count", "body"}
  PROVE  /\ Counting \/ Sending \/ AckDue \/ Ended
         /\ fifo = <<>> /\ ~hsm.handler /\ hsm \in Hsm
         /\ host.wait # "none" => host.cmd \in Commands
BY DEF Talk, Typed, Asking, Telling, Working, Heading, Counting, Sending, AckDue, Ended, Reading

LEMMA AppendTwo == \A a, b : Append(<<a>>, b) = <<a, b>>
<1> TAKE a, b
<1> DEFINE s == <<a>>
           t == Append(s, b)
           u == <<a, b>>
           S == {a, b}
<1>1. s \in Seq(S) /\ Len(s) = 1 /\ s[1] = a
  OBVIOUS
<1>2. u \in Seq(S) /\ Len(u) = 2 /\ u[1] = a /\ u[2] = b
  OBVIOUS
<1>3. b \in S
  OBVIOUS
<1> HIDE DEF s, u, S
<1>4. t \in Seq(S) /\ Len(t) = 2 /\ t[1] = a /\ t[2] = b
  <2>1. /\ t \in Seq(S) /\ Len(t) = Len(s) + 1 /\ t[Len(s) + 1] = b
        /\ \A i \in 1 .. Len(s) : t[i] = s[i]
    BY <1>1, <1>3, AppendProperties, Zenon
  <2> HIDE DEF t
  <2> QED
    BY <1>1, <2>1
<1> HIDE DEF t
<1>5. \A i \in 1 .. Len(t) : t[i] = u[i]
  BY <1>2, <1>4
<1>6. t = u
  BY <1>2, <1>4, <1>5, SeqEqual
<1> QED
  BY <1>6 DEF t, s, u

LEMMA SmallRest ==
  ASSUME SizesMeet, NEW i \in Nat, 0 < i, i <= COUNT_SIZE
  PROVE  i % CHUNK_SIZE # 0
<1>1. CHUNK_SIZE \in Nat \ {0} /\ i < CHUNK_SIZE
  BY HostAssumption DEF SizesMeet
<1>2. i % CHUNK_SIZE = i
  BY <1>1
<1> QED
  BY <1>2

LEMMA SendCountTalk ==
  ASSUME SizesMeet, Typed, Talk, SendCount
  PROVE  Talk'
<1>1. hsm.pc = "count" /\ UNCHANGED <<fifo, host>>
  BY DEF SendCount, GoOn
<1>2. fifo = <<>> /\ ~hsm.handler /\ hsm \in Hsm /\ (host.wait # "none" => host.cmd \in Commands)
  BY <1>1, BodyTalk
<1>3. Counting
  BY <1>1, BodyTalk DEF Sending, AckDue, Ended
<1>4. /\ hsm.body.sent = 0 /\ hsm.body.offset = COUNT_SIZE /\ Sized
      /\ hsm.body.length \in Nat /\ COUNT_SIZE \in Nat /\ 0 < COUNT_SIZE /\ Total = COUNT_SIZE + hsm.body.length
  BY <1>2, <1>3, BodyFacts, HostAssumption DEF Counting, Sized, SizesMeet, Total
<1>5. /\ toHost = <<>> /\ Stream = <<>> /\ host.wait = "body" /\ host.length = Total /\ host.got = 0
  <2>1. Comes("A", 0) = <<>>
    BY ComesEnds, CommandBytes
  <2>2. Total > 0
    BY <1>4
  <2> QED
    BY <1>3, <1>4, <2>1, <2>2 DEF Counting, Taken
<1>6. hsm' = [hsm EXCEPT !.pc = "body"] /\ toHost' = Append(toHost, Text(COUNT_SIZE))
  BY DEF SendCount, GoOn
<1>7. hsm'.pc = "body" /\ hsm'.body = hsm.body /\ hsm'.op = hsm.op /\ ~hsm'.handler
  BY <1>2, <1>6 DEF Hsm
<1>8. Total' = Total /\ Place' = COUNT_SIZE /\ Sized' /\ Stream' = <<>>
  BY <1>1, <1>4, <1>5, <1>7 DEF Total, Place, Sized, Stream
<1>9. toHost' = <<Text(COUNT_SIZE)>>
  BY <1>5, <1>6, AppendOne
<1>10. CASE hsm.body.length > 0
  <2>1. Sending'
    BY <1>1, <1>4, <1>5, <1>7, <1>8, <1>9, <1>10 DEF Sending
  <2> QED
    BY <1>1, <1>2, <1>7, <2>1 DEF Talk
<1>11. CASE hsm.body.length = 0
  <2>1. Place' = Total' /\ FinalAck(hsm.body)'
    BY <1>4, <1>7, <1>8, <1>11 DEF FinalAck
  <2>2. \A i \in 0 + 1 .. COUNT_SIZE - 1 : i % CHUNK_SIZE # 0
    BY <1>4, SmallRest
  <2>3. Unread'
    BY <1>1, <1>4, <1>5, <1>8, <1>9, <2>2 DEF Unread
  <2>4. AckDue'
    BY <1>7, <1>8, <2>1, <2>3 DEF AckDue
  <2> QED
    BY <1>1, <1>2, <1>7, <2>4 DEF Talk
<1> QED
  BY <1>4, <1>10, <1>11

LEMMA SendRunTalk ==
  ASSUME SizesMeet, Typed, Talk, SendRun
  PROVE  Talk'
<1>1. hsm.pc = "body" /\ UNCHANGED <<fifo, host>> /\ hsm.body.sent < hsm.body.length
  BY DEF SendRun, GoOn
<1>2. fifo = <<>> /\ ~hsm.handler /\ hsm \in Hsm /\ (host.wait # "none" => host.cmd \in Commands)
  BY <1>1, BodyTalk
<1>3. /\ hsm.body.sent \in Nat /\ hsm.body.length \in Nat /\ hsm.body.offset \in Nat
      /\ Total \in Nat /\ Place \in Nat /\ hsm.body \in Body
  BY <1>2, BodyFacts
<1>4. Sending /\ Place < Total
  <2>1. Place < Total
    BY <1>1, <1>3 DEF Place, Total
  <2> QED
    BY <1>1, <1>3, <2>1, BodyTalk DEF Counting, AckDue, Ended
<1>5. /\ Sized /\ Stream = <<>> /\ host.wait = "body" /\ host.length = Total
      /\ \/ toHost = <<>> /\ host.got = Place
         \/ toHost = <<Text(COUNT_SIZE)>> /\ host.got = 0 /\ Place = COUNT_SIZE
  <2>1. Comes("A", 0) = <<>>
    BY ComesEnds, CommandBytes
  <2> QED
    BY <1>3, <1>4, <2>1 DEF Sending, Taken
<1> DEFINE stop == NextStop(hsm.body)
           next == [hsm.body EXCEPT !.sent = stop]
           pc == IF AtChunk(next) THEN "chunkAck" ELSE "body"
           run == next.sent - hsm.body.sent
<1>6. /\ hsm' = [hsm EXCEPT !.body = next, !.need = 4, !.pc = pc]
      /\ toHost' = Append(toHost, Text(run))
  BY DEF SendRun, GoOn
<1>7. /\ stop \in hsm.body.sent + 1 .. hsm.body.length
      /\ stop = hsm.body.length \/ (hsm.body.offset + stop) % CHUNK_SIZE = 0
      /\ \A i \in hsm.body.sent + 1 .. stop - 1 : (hsm.body.offset + i) % CHUNK_SIZE # 0
  BY <1>1, <1>3, NextStopIs
<1> HIDE DEF stop
<1>8. /\ next.sent = stop /\ next.offset = hsm.body.offset /\ next.length = hsm.body.length
      /\ run = stop - hsm.body.sent
  BY <1>3 DEF Body
<1> HIDE DEF next, run
<1>9. hsm'.pc = pc /\ hsm'.body = next /\ hsm'.op = hsm.op /\ hsm'.need = 4 /\ ~hsm'.handler
  <2> HIDE DEF pc
  <2> QED
    BY <1>2, <1>6 DEF Hsm
<1> DEFINE place == hsm.body.offset + stop
<1>10. Total' = Total /\ Place' = place /\ Stream' = <<>> /\ (FinalAck(hsm.body)' <=> FinalAck(hsm.body))
  BY <1>1, <1>5, <1>8, <1>9 DEF Total, Place, Stream, FinalAck
<1>11. Sized'
  BY <1>5, <1>8, <1>9, <1>10 DEF Sized
<1>12. Place \in Nat /\ place \in Nat /\ Place < place /\ run = place - Place /\ place <= Total
  BY <1>3, <1>7, <1>8 DEF Place, Total
<1>13. \A i \in Place + 1 .. place - 1 : i % CHUNK_SIZE # 0
  <2> TAKE i \in Place + 1 .. place - 1
  <2> DEFINE j == i - hsm.body.offset
  <2>1. j \in hsm.body.sent + 1 .. stop - 1 /\ hsm.body.offset + j = i
    BY <1>3, <1>7 DEF Place
  <2> HIDE DEF j
  <2> QED
    BY <1>7, <2>1
<1> HIDE DEF place
<1>14. Unread'
  <2>1. CASE toHost = <<>> /\ host.got = Place
    <3>1. toHost' = <<Text(run)>>
      BY <1>6, <2>1, AppendOne
    <3> QED
      BY <1>1, <1>5, <1>10, <1>12, <1>13, <2>1, <3>1 DEF Unread
  <2>2. CASE toHost = <<Text(COUNT_SIZE)>> /\ host.got = 0 /\ Place = COUNT_SIZE
    <3>1. toHost' = <<Text(COUNT_SIZE), Text(place - COUNT_SIZE)>>
      <4> DEFINE a == Text(COUNT_SIZE)
                 b == Text(run)
      <4>1. Append(<<a>>, b) = <<a, b>>
        BY AppendTwo
      <4> QED
        BY <1>6, <1>12, <2>2, <4>1
    <3>2. \A i \in 0 + 1 .. place - 1 : i % CHUNK_SIZE # 0
      <4> TAKE i \in 0 + 1 .. place - 1
      <4>1. i <= COUNT_SIZE \/ i \in Place + 1 .. place - 1
        BY <1>12, <2>2
      <4> QED
        BY <1>12, <1>13, <4>1, SmallRest
    <3> QED
      BY <1>1, <1>5, <1>10, <1>12, <2>2, <3>1, <3>2 DEF Unread
  <2> QED
    BY <1>5, <2>1, <2>2
<1>15. \/ hsm'.pc = "chunkAck" /\ place % CHUNK_SIZE = 0
       \/ hsm'.pc = "body" /\ place = Total /\ FinalAck(hsm.body)
  <2>1. AtChunk(next) <=> place % CHUNK_SIZE = 0
    BY <1>3, <1>7, <1>8 DEF AtChunk, place
  <2>2. CASE place % CHUNK_SIZE = 0
    BY <1>9, <2>1, <2>2
  <2>3. CASE place % CHUNK_SIZE # 0
    <3>1. place = Total
      BY <1>7, <2>3 DEF place, Total
    <3> QED
      BY <1>5, <1>9, <2>1, <2>3, <3>1 DEF Sized
  <2> QED
    BY <2>2, <2>3
<1>16. AckDue'
  BY <1>9, <1>10, <1>11, <1>14, <1>15 DEF AckDue
<1> QED
  BY <1>1, <1>2, <1>9, <1>16 DEF Talk

LEMMA EndBodyTalk ==
  ASSUME Typed, Talk, EndBody
  PROVE  Talk'
<1>1. hsm.pc = "body" /\ UNCHANGED <<fifo, toHost, host>> /\ hsm.body.sent = hsm.body.length
  BY DEF EndBody, GoOn
<1>2. fifo = <<>> /\ ~hsm.handler /\ hsm \in Hsm /\ (host.wait # "none" => host.cmd \in Commands)
  BY <1>1, BodyTalk
<1>3. AckDue \/ Ended
  BY <1>1, <1>2, BodyTalk, BodyFacts DEF Counting, Sending
<1>4. CASE AckDue
  <2>1. FinalAck(hsm.body) /\ Place = Total
    BY <1>1, <1>4 DEF AckDue
  <2>2. hsm' = Wait(hsm, "finalAck")
    BY <2>1 DEF EndBody, GoOn
  <2>3. /\ hsm'.pc = "finalAck" /\ hsm'.need = 4 /\ hsm'.body = hsm.body /\ hsm'.op = hsm.op
        /\ ~hsm'.handler
    BY <1>2, <2>2 DEF Hsm, Wait
  <2>4. /\ Total' = Total /\ Place' = Place /\ Stream' = Stream /\ (Sized' <=> Sized)
        /\ FinalAck(hsm.body)'
    BY <1>1, <2>1, <2>3 DEF Total, Place, Sized, Stream, FinalAck
  <2>5. Unread \/ Taken(Place, Total, 4)
    BY <1>1, <1>4 DEF AckDue
  <2>6. Unread' \/ Taken(Place, Total, hsm.need)'
    <3>1. Unread => Unread'
      BY <1>1, <2>4 DEF Unread
    <3>2. Taken(Place, Total, 4) => Taken(Place, Total, hsm.need)'
      BY <1>1, <2>3, <2>4 DEF Taken, Served
    <3> QED
      BY <2>5, <3>1, <3>2
  <2>7. AckDue'
    BY <1>4, <2>1, <2>3, <2>4, <2>6 DEF AckDue
  <2> QED
    BY <1>1, <1>2, <2>3, <2>7 DEF Talk
<1>5. CASE Ended
  <2>1. hsm' = HsmIdle
    BY <1>2, <1>5 DEF Ended, EndBody, GoOn, Done
  <2>2. PICK t \in Nat : t = Total
    BY <1>2, BodyFacts
  <2>3. Taken(t, t, 0)'
    BY <1>1, <1>5, <2>2 DEF Ended, Taken, Served, Stream
  <2>4. Asking' /\ ~hsm'.handler
    BY <2>1, <2>3, IdleTalk
  <2> QED
    BY <1>1, <1>2, <2>4 DEF Talk
<1> QED
  BY <1>3, <1>4, <1>5

\* Only bytes have moved.
LEMMA SameTalk ==
  ASSUME Talk, hsm' = hsm, toHost' = toHost, Stream' = Stream, host'.cmd = host.cmd,
         host'.wait = host.wait, host'.length = host.length, host'.got = host.got,
         Len(fifo') <= 1, fifo' # <<>> => Reading
  PROVE  Talk'
<1>1. Total' = Total /\ Place' = Place /\ Announced' = Announced /\ (Sized' <=> Sized)
      /\ (FinalAck(hsm.body)' <=> FinalAck(hsm.body)) /\ (Reading' <=> Reading)
  BY DEF Total, Place, Announced, Sized, FinalAck, Reading
<1>2. \A s : Served(s)' <=> Served(s)
  BY DEF Served
<1>3. \A p, t, n : Taken(p, t, n)' <=> Taken(p, t, n)
  BY DEF Taken, Served
<1>4. \A s : Hears(s)' <=> Hears(s)
  BY DEF Hears
<1>5. Asking' <=> Asking
  BY DEF Asking, Served
<1>6. Telling' <=> Telling
  BY DEF Telling
<1>7. Working' <=> Working
  BY DEF Working, Hears
<1>8. Heading' <=> Heading
  BY <1>1 DEF Heading, Hears, Taken, Served
<1>9. (Counting' <=> Counting) /\ (Sending' <=> Sending)
  BY <1>1 DEF Counting, Sending, Taken, Served
<1>10. (Ended' <=> Ended)
  BY <1>1 DEF Ended, Taken, Served
<1>11. AckDue' <=> AckDue
  BY <1>1 DEF AckDue, Unread, Taken, Served
<1> QED
  BY <1>1, <1>5, <1>6, <1>7, <1>8, <1>9, <1>10, <1>11 DEF Talk

\* A byte is sent only to a program that polls for it.
LEMMA HostSendTalk ==
  ASSUME Typed, Talk, HostSend
  PROVE  Talk'
<1>1. /\ fifo \in Seq(Bytes) /\ host.out \in Seq(Bytes) /\ host.out # <<>> /\ hsm \in Hsm
      /\ host \in Host /\ ~hsm.handler /\ Arrive(Head(host.out))
      /\ host' = [host EXCEPT !.out = Tail(host.out)]
  BY DEF Typed, Host, HostSend, Talk
<1>2. Stream # <<>>
  BY <1>1, ConcatEmpty DEF Stream
<1>3. Comes("A", 0) = <<>>
  BY ComesEnds, CommandBytes
<1>4. ~Instant /\ now \in Nat /\ now < WATCHDOG /\ WATCHDOG \in Nat
  BY <1>1, HostAssumption DEF Arrive, Typed
<1>5. ASSUME Busy = 0 PROVE ~Expires
  BY <1>4, <1>5 DEF Expires
<1>6. Reading
  <2>1. ~Counting /\ ~Sending /\ ~Working
    BY <1>2, <1>3, <1>1, BodyFacts DEF Counting, Sending, Working, Hears, Taken, Served, Sized, Total, Place
  <2>2. CASE hsm.pc = "body"
    <3>1. Place = Total
      BY <2>1, <2>2, <1>1, BodyTalk DEF Counting, AckDue, Ended
    <3>2. hsm.body.sent = hsm.body.length
      BY <1>1, <3>1, BodyFacts DEF Place, Total
    <3>3. ~Expires
      BY <1>5, <2>2 DEF Busy
    <3> QED
      BY <1>4, <2>2, <3>2, <3>3 DEF Instant
  <2>3. CASE hsm.pc # "body"
    BY <2>1, <2>3 DEF Talk, Asking, Telling, Heading, AckDue, Ended, Reading
  <2> QED
    BY <2>2, <2>3
<1>7. fifo = <<>>
  <2>1. ~Expires
    BY <1>5, <1>6 DEF Busy, Reading
  <2> QED
    BY <1>4, <1>6, <2>1 DEF Instant, CanRead
<1>8. fifo' = <<Head(host.out)>> /\ hsm' = hsm /\ toHost' = toHost
  <2>1. Len(fifo) < FIFO_DEPTH
    BY <1>7, HostAssumption
  <2> QED
    BY <1>1, <1>7, <2>1 DEF Arrive
<1>9. /\ host'.out = Tail(host.out) /\ host'.cmd = host.cmd /\ host'.wait = host.wait
      /\ host'.length = host.length /\ host'.got = host.got
  BY <1>1 DEF Host
<1>10. Stream' = Stream
  <2>1. <<Head(host.out)>> \o Tail(host.out) = host.out
    <3> DEFINE s == host.out
    <3> HIDE DEF s
    <3>1. s \in Seq(Bytes) /\ s # <<>>
      BY <1>1 DEF s
    <3>2. <<Head(s)>> \o Tail(s) = s
      BY <3>1
    <3> QED
      BY <3>2 DEF s
  <2>2. <<>> \o host.out = host.out
    BY <1>1
  <2> QED
    BY <1>7, <1>8, <1>9, <2>1, <2>2 DEF Stream
<1>11. Len(fifo') <= 1
  BY <1>8
<1> QED
  BY <1>6, <1>8, <1>9, <1>10, <1>11, SameTalk

LEMMA HostStartTalk ==
  ASSUME Typed, Placed(hsm), TalkInv, HostStart
  PROVE  TalkInv'
<1>1. /\ host.wait = "none" /\ host.out = <<>> /\ UNCHANGED <<fifo, toHost, hsm>>
      /\ fifo \in Seq(Bytes)
  BY DEF HostStart, Typed
<1>2. PICK cmd \in Commands : host' = [HostIdle EXCEPT !.cmd = cmd, !.wait = "ack", !.out = Header(cmd)]
  BY DEF HostStart
<1>3. host'.wait = "ack" /\ host'.cmd = cmd /\ host'.out = Header(cmd)
  <2> DEFINE h == Header(cmd)
  <2> HIDE DEF h
  <2>1. host' = [HostIdle EXCEPT !.cmd = cmd, !.wait = "ack", !.out = h]
    BY <1>2 DEF h
  <2>2. host'.wait = "ack" /\ host'.cmd = cmd /\ host'.out = h
    BY <2>1 DEF HostIdle
  <2> QED
    BY <2>2 DEF h
<1>4. Stream = fifo /\ Stream' = fifo \o Header(cmd)
  BY <1>1, <1>3 DEF Stream
<1>5. CASE clean
  <2>1. Talk
    BY <1>5 DEF TalkInv
  <2>2. \A s : Served(s) => Served(s)'
    BY <1>1, <1>3, <1>4 DEF Served
  <2>3. /\ Total' = Total /\ Place' = Place /\ Announced' = Announced /\ (Sized' <=> Sized)
        /\ (FinalAck(hsm.body)' <=> FinalAck(hsm.body)) /\ (Reading' <=> Reading)
    BY <1>1 DEF Total, Place, Announced, Sized, FinalAck, Reading
  <2>4. Asking => Asking'
    BY <1>1, <1>3, <1>4 DEF Asking, Served
  <2>5. Heading => Heading'
    BY <1>1, <1>3, <1>4, <2>3 DEF Heading, Hears, Taken, Served
  <2>6. AckDue => AckDue'
    BY <1>1, <1>3, <1>4, <2>3 DEF AckDue, Unread, Taken, Served
  <2>7. Ended => Ended'
    BY <1>1, <1>3, <1>4, <2>3 DEF Ended, Taken, Served
  <2>8. ~Telling /\ ~Working /\ ~Counting /\ ~Sending
    <3>1. hsm \in Hsm
      BY DEF Typed
    <3> QED
      BY <1>1, <3>1, BodyFacts DEF Telling, Working, Hears, Counting, Sending, Taken, Sized, Total, Place
  <2> QED
    BY <1>1, <1>3, <2>1, <2>3, <2>4, <2>5, <2>6, <2>7, <2>8 DEF Talk, TalkInv
<1>6. CASE ~clean /\ clean'
  <2>1. InLoop /\ fifo = <<>> /\ toHost = <<>>
    BY <1>6 DEF HostStart
  <2>2. <<>> \o Header(cmd) = Header(cmd) /\ Len(<<>>) = 0
    BY HeaderTyped, CommandBytes, EmptyConcat
  <2>3. Asking'
    BY <1>1, <1>3, <1>4, <2>1, <2>2 DEF Asking, Served, InLoop
  <2>4. ~hsm'.handler
    BY <1>1, <2>1 DEF InLoop, Placed
  <2>5. Talk'
    BY <1>1, <1>3, <2>1, <2>2, <2>3, <2>4 DEF Talk
  <2> QED
    BY <2>5 DEF TalkInv
<1>7. CASE ~clean'
  BY <1>7 DEF TalkInv
<1> QED
  BY <1>5, <1>6, <1>7

-----------------------------------------------------------------------------
\* A host that takes a text which ends at the next chunk boundary, if at one, owes
\* one ACK for that boundary or for the end of the reply.
LEMMA OwedIs ==
  ASSUME host \in Host, NEW n \in Nat \ {0},
         \A i \in host.got + 1 .. host.got + n - 1 : i % CHUNK_SIZE # 0
  PROVE  Owed(n) = IF (host.got + n) % CHUNK_SIZE = 0 \/ host.got + n = host.length THEN 1 ELSE 0
<1> DEFINE got == host.got + n
           chunks == {i \in host.got + 1 .. got : i % CHUNK_SIZE = 0}
           rest == IF got = host.length /\ got % CHUNK_SIZE # 0 THEN 1 ELSE 0
<1>1. Owed(n) = Cardinality(chunks) + rest
  BY DEF Owed
<1>2. host.got \in Nat
  BY DEF Host
<1>3. got \in host.got + 1 .. got /\ \A i \in host.got + 1 .. got : i = got \/ i % CHUNK_SIZE # 0
  BY <1>2
<1>4. CASE got % CHUNK_SIZE = 0
  <2>1. chunks = {got}
    <3> HIDE DEF got
    <3> QED
      BY <1>3, <1>4
  <2>2. Cardinality({got}) = 1
    BY FS_Singleton
  <2>3. rest = 0
    BY <1>4
  <2> HIDE DEF chunks, rest
  <2>4. Owed(n) = 1
    BY <1>1, <2>1, <2>2, <2>3
  <2> QED
    BY <1>4, <2>4
<1>5. CASE got % CHUNK_SIZE # 0
  <2>1. chunks = {}
    <3> HIDE DEF got
    <3> QED
      BY <1>3, <1>5
  <2>2. Cardinality({}) = 0
    BY FS_EmptySet
  <2>3. rest = IF got = host.length THEN 1 ELSE 0
    BY <1>5
  <2> HIDE DEF chunks, rest
  <2>4. Owed(n) = IF got = host.length THEN 1 ELSE 0
    BY <1>1, <2>1, <2>2, <2>3
  <2> QED
    BY <1>5, <2>4
<1> QED
  BY <1>4, <1>5

\* What the host finds on the line while it keeps in step.
LEMMA MailTalk ==
  ASSUME Typed, Talk, toHost # <<>>
  PROVE  /\ Stream = <<>> /\ fifo = <<>> /\ host.out = <<>> /\ host.cmd \in Commands /\ host.wait # "none"
         /\ hsm \in Hsm /\ host \in Host /\ ~hsm.handler
         /\ \/ Telling /\ host.wait = "ack" /\ toHost = <<Ack>>
            \/ /\ Working /\ toHost = <<Ack>>
               /\ host.wait = (IF HasPin(host.cmd) THEN "ack2" ELSE "ack")
            \/ /\ Heading /\ hsm.need = 4 /\ hsm.op \in {host.cmd, "E"}
               /\ Hears(<<Reply(hsm.op, Announced)>>)
            \/ Sending /\ host.wait = "body" /\ toHost = <<Text(COUNT_SIZE)>>
               /\ host.length = Total /\ host.got = 0 /\ Place = COUNT_SIZE
            \/ AckDue /\ Unread /\ (hsm.pc # "body" => hsm.need = 4)
<1>1. hsm \in Hsm /\ host \in Host /\ ~hsm.handler /\ fifo \in Seq(Bytes) /\ host.out \in Seq(Bytes)
      /\ (host.wait # "none" => host.cmd \in Commands)
  BY DEF Typed, Host, Talk
<1>2. /\ Stream = <<>> /\ host.wait # "none"
      /\ \/ Telling /\ host.wait = "ack" /\ toHost = <<Ack>>
         \/ /\ Working /\ toHost = <<Ack>>
            /\ host.wait = (IF HasPin(host.cmd) THEN "ack2" ELSE "ack")
         \/ /\ Heading /\ hsm.need = 4 /\ hsm.op \in {host.cmd, "E"}
            /\ Hears(<<Reply(hsm.op, Announced)>>)
         \/ Sending /\ host.wait = "body" /\ toHost = <<Text(COUNT_SIZE)>>
            /\ host.length = Total /\ host.got = 0 /\ Place = COUNT_SIZE
         \/ AckDue /\ Unread /\ (hsm.pc # "body" => hsm.need = 4)
  <2>1. CASE Asking \/ Counting \/ Ended
    BY <2>1 DEF Asking, Counting, Ended, Taken
  <2>2. CASE Telling
    BY <2>2 DEF Telling
  <2>3. CASE Working
    BY <2>3, AppendOne DEF Working, Hears
  <2>4. CASE Heading
    BY <2>4 DEF Heading, Hears, Taken
  <2>5. CASE Sending
    BY <2>5 DEF Sending, Taken
  <2>6. CASE AckDue
    BY <2>6 DEF AckDue, Unread, Taken
  <2> QED
    BY <2>1, <2>2, <2>3, <2>4, <2>5, <2>6 DEF Talk
<1>3. fifo = <<>> /\ host.out = <<>>
  BY <1>1, <1>2, ConcatEmpty DEF Stream
<1> QED
  BY <1>1, <1>2, <1>3

LEMMA MailHead ==
  \A a, b : /\ Head(<<a>>) = a /\ Tail(<<a>>) = <<>>
            /\ Head(<<a, b>>) = a /\ Tail(<<a, b>>) = <<b>>
            /\ Head(<<a>> \o <<b>>) = a /\ Tail(<<a>> \o <<b>>) = <<b>>
<1> TAKE a, b
<1>1. Head(<<a>>) = a /\ Tail(<<a>>) = <<>>
  OBVIOUS
<1>2. \A s, t \in Seq({a, b}) : s # <<>> => Head(s \o t) = Head(s) /\ Tail(s \o t) = Tail(s) \o t
  OBVIOUS
<1>3. <<a>> \in Seq({a, b}) /\ <<b>> \in Seq({a, b}) /\ <<a>> # <<>> /\ <<>> \o <<b>> = <<b>>
  OBVIOUS
<1>4. Head(<<a>> \o <<b>>) = a /\ Tail(<<a>> \o <<b>>) = <<b>>
  BY <1>1, <1>2, <1>3
<1>5. <<a>> \o <<b>> = Append(<<a>>, b)
  OBVIOUS
<1>6. <<a, b>> = Append(<<a>>, b)
  BY AppendTwo
<1> QED
  BY <1>1, <1>4, <1>5, <1>6

LEMMA Kinds ==
  /\ \A op, n : /\ op # "A" => Reply(op, n) # Ack
                /\ Reply(op, n).type = "head" /\ Reply(op, n).op = op /\ Reply(op, n).length = n
  /\ \A n : Text(n) # Ack /\ Text(n).type = "text" /\ Text(n).length = n
  /\ Ack.type = "head" /\ Ack.op = "A"
  /\ "A" \notin Commands \cup {"E"}
BY DEF Reply, Ack, Text, Commands

\* The host reads an ACK: it sends the PIN and the arguments, or waits for the reply.
LEMMA HostAckedTalk ==
  ASSUME Typed, Talk, HostAcked
  PROVE  Talk'
<1>1. /\ toHost # <<>> /\ Head(toHost) = Ack /\ host.wait \in {"ack", "ack2"}
      /\ UNCHANGED <<fifo, hsm>> /\ toHost' = Tail(toHost)
  BY DEF HostAcked, HostReads
<1>2. /\ Stream = <<>> /\ fifo = <<>> /\ host.out = <<>> /\ host.cmd \in Commands
      /\ hsm \in Hsm /\ host \in Host /\ ~hsm.handler
  BY <1>1, MailTalk
<1>3. /\ Len(fifo') <= 1 /\ fifo' = <<>> /\ ~hsm'.handler /\ Total' = Total /\ Announced' = Announced
      /\ (Sized' <=> Sized)
  BY <1>1, <1>2 DEF Total, Announced, Sized
<1>4. CASE Telling /\ host.wait = "ack" /\ toHost = <<Ack>>
  <2>1. HasPin(host.cmd) /\ hsm.op = host.cmd /\ hsm.pc = "pin"
    BY <1>4 DEF Telling
  <2>2. hsm.need = PIN_LENGTH + Arguments(host.cmd)
    BY <1>4, Kinds DEF Telling
  <2>3. PICK pin \in Pins :
             host' = [host EXCEPT !.wait = "ack2",
                                  !.out = pin \o [i \in 1 .. Arguments(host.cmd) |-> "0"]]
    BY <1>4, <2>1 DEF HostAcked, HostReads
  <2> DEFINE n == Arguments(host.cmd)
             zeros == [i \in 1 .. n |-> "0"]
             out == pin \o zeros
  <2>4. n \in Nat /\ PIN_LENGTH \in Nat
    BY HostAssumption DEF Arguments
  <2> HIDE DEF n
  <2>5. pin \in Seq(Bytes) /\ zeros \in Seq(Bytes) /\ Len(pin) = PIN_LENGTH /\ Len(zeros) = n
    <3>1. Digits \cup {"x"} \subseteq Bytes /\ "0" \in Bytes
      BY DEF Bytes, Digits
    <3>2. pin \in [1 .. PIN_LENGTH -> Bytes] /\ zeros \in [1 .. n -> Bytes]
      BY <3>1 DEF Pins
    <3> HIDE DEF zeros
    <3> QED
      BY <2>4, <3>2
  <2> HIDE DEF zeros
  <2>6. Len(out) = PIN_LENGTH + n /\ <<>> \o out = out
    BY <2>5
  <2>7. host' = [host EXCEPT !.wait = "ack2", !.out = out]
    BY <2>3 DEF zeros, n
  <2> HIDE DEF out
  <2>8. host'.wait = "ack2" /\ host'.out = out /\ host'.cmd = host.cmd
    BY <1>2, <2>7 DEF Host
  <2>9. toHost' = <<>>
    BY <1>1, <1>4, MailHead
  <2>10. Len(Stream') = hsm'.need
    BY <1>3, <2>2, <2>6, <2>8, <1>1 DEF Stream, n
  <2>11. Telling'
    BY <1>1, <2>1, <2>8, <2>9, <2>10 DEF Telling
  <2> QED
    BY <1>2, <1>3, <2>8, <2>11 DEF Talk
<1>5. CASE ~Telling /\ host.wait = (IF HasPin(host.cmd) THEN "ack2" ELSE "ack")
  <2>1. host' = [host EXCEPT !.wait = "reply"]
    BY <1>5 DEF HostAcked, HostReads
  <2>2. host'.wait = "reply" /\ host'.out = host.out /\ host'.cmd = host.cmd
    BY <1>2, <2>1 DEF Host
  <2>3. Stream' = <<>>
    BY <1>1, <1>2, <2>2 DEF Stream
  <2>4. CASE Working /\ toHost = <<Ack>>
    <3>1. toHost' = <<>>
      BY <1>1, <2>4, MailHead
    <3>2. Working'
      BY <1>1, <2>2, <2>3, <2>4, <3>1 DEF Working, Hears
    <3> QED
      BY <1>2, <1>3, <2>2, <3>2 DEF Talk
  <2>5. CASE /\ Heading /\ hsm.need = 4 /\ hsm.op \in {host.cmd, "E"}
             /\ Hears(<<Reply(hsm.op, Announced)>>)
    <3> DEFINE m == Reply(hsm.op, Announced)
    <3>1. toHost = <<Ack>> \o <<m>>
      BY <1>1, <2>5 DEF Hears
    <3>2. toHost' = <<m>>
      <4> HIDE DEF m
      <4> QED
        BY <1>1, <3>1, MailHead
    <3>3. Hears(<<Reply(hsm.op, Announced)>>)'
      BY <1>1, <1>3, <2>2, <2>3, <3>2 DEF Hears
    <3>4. Heading'
      BY <1>1, <1>3, <2>2, <2>5, <3>3 DEF Heading
    <3> QED
      BY <1>2, <1>3, <2>2, <3>4 DEF Talk
  <2> QED
    BY <1>1, <1>5, <2>4, <2>5, MailTalk DEF Unread
<1> QED
  BY <1>1, <1>4, <1>5, MailTalk DEF Unread, Heading, Hears, Telling, Working

\* The host reads the head of a reply or of an error, and acknowledges it.
LEMMA HostReplyTalk ==
  ASSUME Typed, Talk, HostReply
  PROVE  Talk'
<1> DEFINE m == Head(toHost)
<1>1. /\ toHost # <<>> /\ Expected(m) /\ UNCHANGED <<fifo, hsm>> /\ toHost' = Tail(toHost)
      /\ host' = [host EXCEPT !.wait = IF m.length = 0 THEN "none" ELSE "body",
                              !.out = Header("A"), !.length = m.length, !.got = 0]
  BY DEF HostReply, HostReads
<1>2. /\ Stream = <<>> /\ fifo = <<>> /\ host.out = <<>> /\ host.cmd \in Commands
      /\ hsm \in Hsm /\ host \in Host /\ ~hsm.handler
  BY <1>1, MailTalk
<1>3. /\ Len(fifo') <= 1 /\ fifo' = <<>> /\ ~hsm'.handler /\ Total' = Total /\ Announced' = Announced
      /\ (Sized' <=> Sized)
  BY <1>1, <1>2 DEF Total, Announced, Sized
<1>4. m.op \in {"E", host.cmd} /\ host.wait \in {"ack", "ack2", "reply"} /\ m.op # "A"
      /\ (m.op # "E" => host.wait = "reply")
  BY <1>1, <1>2, Kinds DEF Expected
<1>5. m # Ack
  BY <1>4, Kinds
<1>6. /\ Heading /\ hsm.need = 4 /\ hsm.op \in {host.cmd, "E"}
      /\ Hears(<<Reply(hsm.op, Announced)>>)
  <2>1. toHost # <<Ack>>
    BY <1>5, MailHead
  <2> QED
    BY <1>1, <1>4, <2>1, MailTalk DEF Unread
<1>7. toHost = <<Reply(hsm.op, Announced)>>
  BY <1>5, <1>6, MailHead DEF Hears
<1>8. toHost' = <<>> /\ m = Reply(hsm.op, Announced) /\ m.length = Announced
  <2> DEFINE r == Reply(hsm.op, Announced)
  <2>1. r.length = Announced
    BY Kinds
  <2> HIDE DEF r
  <2>2. toHost = <<r>>
    BY <1>7 DEF r
  <2>3. Tail(toHost) = <<>> /\ Head(toHost) = r
    BY <2>2, MailHead
  <2> QED
    BY <1>1, <2>1, <2>3 DEF r
<1> HIDE DEF m
<1> DEFINE wait == IF m.length = 0 THEN "none" ELSE "body"
           out == Header("A")
<1>9. host' = [host EXCEPT !.wait = wait, !.out = out, !.length = m.length, !.got = 0]
  BY <1>1 DEF m
<1>10. out = Comes("A", 4) /\ <<>> \o out = out
  BY ComesEnds, HeaderTyped, CommandBytes
<1> HIDE DEF out
<1>11. /\ host'.wait = wait /\ host'.out = out /\ host'.length = Announced /\ host'.got = 0
       /\ host'.cmd = host.cmd
  <2> HIDE DEF wait
  <2> QED
    BY <1>2, <1>8, <1>9 DEF Host
<1>12. Stream' = Comes("A", 4)
  BY <1>3, <1>10, <1>11 DEF Stream
<1>13. Announced \in Nat
  BY <1>2, BodyFacts
<1>14. Taken(0, Announced, hsm.need)'
  BY <1>1, <1>3, <1>6, <1>8, <1>11, <1>12, <1>13 DEF Taken, Served
<1>15. hsm.op \in {"L", "C", "I", "N", "E"}
  BY <1>2, <1>6 DEF Commands
<1>16. Heading'
  BY <1>1, <1>3, <1>6, <1>14, <1>15 DEF Heading
<1> QED
  BY <1>2, <1>3, <1>11, <1>16 DEF Talk

\* What the host has taken after a part of a body, when it acknowledges it or not.
LEMMA HostTakes ==
  ASSUME Typed, HostBody, fifo = <<>>, host.out = <<>>, Head(toHost).length \in 0 .. CHUNK_SIZE,
         NEW n, n = Head(toHost).length, NEW o \in 0 .. 1, Owed(n) = o
  PROVE  /\ host'.cmd = host.cmd /\ host'.length = host.length /\ host'.got = host.got + n
         /\ host'.wait = IF host.got + n = host.length THEN "none" ELSE "body"
         /\ Stream' = IF o = 0 THEN <<>> ELSE Comes("A", 4)
<1> DEFINE flat == FlattenSeq([i \in 1 .. Owed(n) |-> Header("A")])
           out == host.out \o flat
           wait == IF host.got + n = host.length THEN "none" ELSE host.wait
           got == host.got + n
<1>1. host' = [host EXCEPT !.got = got, !.wait = wait, !.out = out]
  BY DEF HostBody, HostReads
<1>2. flat = IF o = 0 THEN <<>> ELSE Comes("A", 4)
  <2> DEFINE h == Header("A")
  <2>1. h = Comes("A", 4)
    BY ComesEnds, CommandBytes
  <2> HIDE DEF h
  <2>2. o \in 0 .. 2
    OBVIOUS
  <2>3. FlattenSeq([i \in 1 .. o |-> h]) = IF o = 0 THEN <<>> ELSE IF o = 1 THEN h ELSE h \o h
    BY <2>2, FlattenFew
  <2>4. flat = FlattenSeq([i \in 1 .. o |-> h])
    BY DEF h
  <2> HIDE DEF flat
  <2> QED
    BY <2>1, <2>3, <2>4
<1>3. Comes("A", 4) \in Seq(Bytes) /\ <<>> \in Seq(Bytes)
  BY ComesTail, CommandBytes
<1> HIDE DEF flat
<1>4. out = flat /\ <<>> \o out = out
  BY <1>2, <1>3, EmptyConcat
<1> HIDE DEF out, wait, got
<1>5. /\ host'.got = got /\ host'.wait = wait /\ host'.out = out
      /\ host'.cmd = host.cmd /\ host'.length = host.length
  BY <1>1 DEF Typed, Host
<1>6. Stream' = flat
  BY <1>4, <1>5 DEF Stream, HostBody, HostReads
<1>7. host.wait = "body"
  BY DEF HostBody
<1> QED
  BY <1>2, <1>5, <1>6, <1>7 DEF got, wait

\* The host reads a part of a body; HSM and host agree on where the ACKs are due.
LEMMA HostBodyTalk ==
  ASSUME SizesMeet, Typed, Talk, HostBody
  PROVE  Talk'
<1> DEFINE m == Head(toHost)
<1>1. /\ toHost # <<>> /\ m.type = "text" /\ host.wait = "body"
      /\ UNCHANGED <<fifo, hsm>> /\ toHost' = Tail(toHost)
  BY DEF HostBody, HostReads
<1>2. /\ Stream = <<>> /\ fifo = <<>> /\ host.out = <<>> /\ host.cmd \in Commands
      /\ hsm \in Hsm /\ host \in Host /\ ~hsm.handler
  BY <1>1, MailTalk
<1>3. /\ Len(fifo') <= 1 /\ fifo' = <<>> /\ ~hsm'.handler /\ Total' = Total /\ Place' = Place
      /\ (Sized' <=> Sized) /\ (FinalAck(hsm.body)' <=> FinalAck(hsm.body))
  BY <1>1, <1>2 DEF Total, Place, Sized, FinalAck
<1>4. /\ Total \in Nat /\ Place \in Nat /\ Place <= Total /\ COUNT_SIZE \in Nat \ {0}
      /\ CHUNK_SIZE \in Nat /\ COUNT_SIZE < CHUNK_SIZE
  BY <1>2, BodyFacts, HostAssumption DEF SizesMeet
<1>5. m.length \in 0 .. CHUNK_SIZE
  <2>1. m \in Message
    BY <1>1, HeadTyped
  <2> HIDE DEF m
  <2> QED
    BY <1>1, <2>1, <1>4 DEF Message
<1>6. Comes("A", 0) = <<>>
  BY ComesEnds, CommandBytes
\* The counter of interrogate, after which the body goes on.
<1>7. ASSUME host.got = 0, host.length = Total, m = Text(COUNT_SIZE), COUNT_SIZE < Total
      PROVE  /\ host'.cmd = host.cmd /\ host'.length = Total /\ host'.got = COUNT_SIZE
             /\ host'.wait = "body" /\ Stream' = <<>>
  <2>1. m.length = COUNT_SIZE
    BY <1>7, Kinds
  <2>2. \A i \in host.got + 1 .. host.got + COUNT_SIZE : i % CHUNK_SIZE # 0
    BY <1>4, <1>7, SmallRest
  <2>3. /\ host.got + COUNT_SIZE = COUNT_SIZE
        /\ \A i \in host.got + 1 .. host.got + COUNT_SIZE - 1 : i % CHUNK_SIZE # 0
        /\ COUNT_SIZE % CHUNK_SIZE # 0
    BY <1>4, <1>7, <2>2
  <2>4. Owed(COUNT_SIZE) = 0
    BY <1>2, <1>4, <1>7, <2>3, OwedIs
  <2> QED
    BY <1>2, <1>4, <1>5, <1>7, <2>1, <2>3, <2>4, HostTakes
<1>8. CASE /\ Sending /\ toHost = <<Text(COUNT_SIZE)>>
           /\ host.length = Total /\ host.got = 0 /\ Place = COUNT_SIZE
  <2>1. Place < Total
    <3>1. hsm.body.sent < hsm.body.length
      BY <1>8 DEF Sending
    <3> QED
      BY <1>2, <3>1, BodyFacts DEF Place, Total
  <2>2. m = Text(COUNT_SIZE) /\ toHost' = <<>>
    BY <1>1, <1>8, MailHead
  <2> HIDE DEF m
  <2>3. /\ host'.cmd = host.cmd /\ host'.length = Total /\ host'.got = COUNT_SIZE
        /\ host'.wait = "body" /\ Stream' = <<>>
    BY <1>7, <1>8, <2>1, <2>2
  <2>4. Taken(Place, Total, 0)'
    BY <1>3, <1>6, <1>8, <2>1, <2>2, <2>3 DEF Taken
  <2>5. Sending'
    BY <1>1, <1>3, <1>8, <2>4 DEF Sending
  <2> QED
    BY <1>2, <1>3, <2>3, <2>5 DEF Talk
<1>9. CASE AckDue /\ Unread /\ (hsm.pc # "body" => hsm.need = 4)
  <2>1. /\ host.length = Total /\ host.got < Place /\ host.got \in Nat
        /\ \A i \in host.got + 1 .. Place - 1 : i % CHUNK_SIZE # 0
        /\ Sized /\ (Place % CHUNK_SIZE = 0 \/ Place = Total)
    BY <1>2, <1>9 DEF Unread, AckDue, Host
  <2>2. ASSUME Unread' \/ Taken(Place, Total, 4)', host'.cmd = host.cmd
        PROVE  Talk'
    <3>1. Taken(Place, Total, 4)' => Taken(Place, Total, IF hsm.pc = "body" THEN 4 ELSE hsm.need)'
      BY <1>1, <1>9 DEF Taken, Served
    <3>2. AckDue'
      BY <1>1, <1>3, <1>9, <2>2, <3>1 DEF AckDue
    <3> QED
      BY <1>2, <1>3, <2>2, <3>2 DEF Talk
  <2>3. CASE toHost = <<Text(Place - host.got)>>
    <3> DEFINE n == Place - host.got
    <3>1. n \in Nat \ {0} /\ host.got + n = Place
      BY <1>4, <2>1
    <3>2. m = Text(n) /\ toHost' = <<>> /\ m.length = n
      BY <1>1, <2>3, MailHead, Kinds
    <3> HIDE DEF n, m
    <3>3. Owed(n) = 1
      BY <1>2, <2>1, <3>1, OwedIs
    <3>4. /\ host'.cmd = host.cmd /\ host'.length = Total /\ host'.got = Place
          /\ host'.wait = (IF Place = Total THEN "none" ELSE "body") /\ Stream' = Comes("A", 4)
      <4> DEFINE o == 1
      <4>1. o \in 0 .. 1 /\ Owed(n) = o
        BY <3>3
      <4>2. Head(toHost).length \in 0 .. CHUNK_SIZE /\ n = Head(toHost).length
        BY <1>5, <3>2 DEF m
      <4> HIDE DEF o
      <4>3. /\ host'.cmd = host.cmd /\ host'.length = host.length /\ host'.got = host.got + n
            /\ host'.wait = (IF host.got + n = host.length THEN "none" ELSE "body")
            /\ Stream' = IF o = 0 THEN <<>> ELSE Comes("A", 4)
        BY <1>2, <4>1, <4>2, HostTakes
      <4> QED
        BY <2>1, <3>1, <4>3 DEF o
    <3>5. Taken(Place, Total, 4)'
      BY <1>3, <1>4, <3>2, <3>4 DEF Taken, Served
    <3> QED
      BY <2>2, <3>4, <3>5
  <2>4. CASE /\ host.got = 0 /\ COUNT_SIZE < Place
             /\ toHost = <<Text(COUNT_SIZE), Text(Place - COUNT_SIZE)>>
    <3> DEFINE a == Text(COUNT_SIZE)
               b == Text(Place - COUNT_SIZE)
    <3>1. m = a /\ toHost' = <<b>>
      <4>1. toHost = <<a, b>>
        BY <2>4
      <4> HIDE DEF a, b
      <4> QED
        BY <1>1, <4>1, MailHead
    <3> HIDE DEF m
    <3>2. /\ host'.cmd = host.cmd /\ host'.length = Total /\ host'.got = COUNT_SIZE
          /\ host'.wait = "body" /\ Stream' = <<>>
      BY <1>4, <1>7, <2>1, <2>4, <3>1
    <3>3. \A i \in COUNT_SIZE + 1 .. Place - 1 : i % CHUNK_SIZE # 0
      BY <1>4, <2>1, <2>4
    <3>4. Unread'
      BY <1>3, <2>4, <3>1, <3>2, <3>3 DEF Unread
    <3> QED
      BY <2>2, <3>2, <3>4
  <2> QED
    BY <1>9, <2>3, <2>4 DEF Unread
<1> QED
  BY <1>1, <1>8, <1>9, MailTalk, Kinds DEF Hears

\* Nothing the host reads confuses it.
LEMMA NeverConfused ==
  ASSUME SizesMeet, Typed, Talk, HostConfused
  PROVE  FALSE
<1> DEFINE m == Head(toHost)
<1>1. /\ toHost # <<>> /\ ~(m = Ack /\ host.wait \in {"ack", "ack2"}) /\ ~Expected(m)
      /\ ~(m.type = "text" /\ host.wait = "body" /\ host.got + m.length <= host.length)
  BY DEF HostConfused
<1>2. hsm \in Hsm /\ host \in Host /\ host.cmd \in Commands
  BY <1>1, MailTalk
<1>3. /\ Total \in Nat /\ Place \in Nat /\ Place <= Total /\ COUNT_SIZE \in Nat
      /\ hsm.body.sent \in Nat /\ hsm.body.length \in Nat /\ hsm.body.offset \in Nat
  BY <1>2, BodyFacts, HostAssumption
<1>4. ASSUME NEW n, m = Text(n), host.wait = "body", host.got + n <= host.length PROVE FALSE
  BY <1>1, <1>4, Kinds
<1>5. CASE toHost = <<Ack>> /\ host.wait \in {"ack", "ack2"}
  BY <1>1, <1>5, MailHead
<1>6. CASE Hears(<<Reply(hsm.op, Announced)>>) /\ hsm.op \in {host.cmd, "E"}
  <2> DEFINE r == Reply(hsm.op, Announced)
  <2>1. r.type = "head" /\ r.op = hsm.op
    BY Kinds
  <2> HIDE DEF r
  <2>2. \/ host.wait = "reply" /\ toHost = <<r>>
        \/ host.wait \in {"ack", "ack2"} /\ toHost = <<Ack>> \o <<r>>
    BY <1>6 DEF Hears, r
  <2>3. \/ host.wait = "reply" /\ m = r
        \/ host.wait \in {"ack", "ack2"} /\ m = Ack
    BY <2>2, MailHead
  <2> HIDE DEF m
  <2> QED
    BY <1>1, <1>6, <2>1, <2>3 DEF Expected
<1>7. CASE Sending /\ toHost = <<Text(COUNT_SIZE)>> /\ host.length = Total /\ host.got = 0 /\ Place = COUNT_SIZE
           /\ host.wait = "body"
  <2>1. m = Text(COUNT_SIZE)
    BY <1>7, MailHead
  <2> QED
    BY <1>3, <1>4, <1>7, <2>1
<1>8. CASE Unread
  <2>1. \/ m = Text(Place - host.got)
        \/ host.got = 0 /\ COUNT_SIZE < Place /\ m = Text(COUNT_SIZE)
    BY <1>8, MailHead DEF Unread
  <2> HIDE DEF m
  <2>2. host.got \in Nat /\ host.length = Total /\ host.wait = "body" /\ host.got < Place
    BY <1>2, <1>8 DEF Host, Unread
  <2> QED
    BY <1>3, <1>4, <2>1, <2>2
<1> QED
  BY <1>1, <1>5, <1>6, <1>7, <1>8, MailTalk

LEMMA TalkInit == HostInit => TalkInv
<1> SUFFICES ASSUME HostInit PROVE Talk
  BY DEF TalkInv
<1>1. fifo = <<>> /\ toHost = <<>> /\ hsm = HsmIdle /\ host.wait = "none" /\ host.out = <<>>
  BY DEF HostInit, HostIdle
<1>2. <<>> \o <<>> = <<>> /\ Len(<<>>) = 0
  OBVIOUS
<1>3. Stream = <<>>
  BY <1>1, <1>2 DEF Stream
<1>4. Asking /\ ~hsm.handler
  BY <1>1, <1>3 DEF Asking, Served, HsmIdle
<1> QED
  BY <1>1, <1>2, <1>4 DEF Talk

LEMMA ProgramTalk ==
  ASSUME SizesMeet, Typed, Talk, Program, ~Restart
  PROVE  Talk'
<1>1. CASE ReadMagic \/ ReadHeader \/ EndAck \/ Dispatch
  <2>1. hsm.pc \in {"idle", "headAck", "chunkAck", "finalAck"}
    BY <1>1 DEF ReadMagic, ReadHeader, EndAck, Dispatch, CanRead, Reading
  <2>2. CASE hsm.pc = "idle"
    BY <1>1, <2>2, AskingTalk DEF EndAck
  <2>3. CASE hsm.pc # "idle"
    BY <1>1, <2>1, <2>3, AckReadTalk DEF Dispatch
  <2> QED
    BY <2>2, <2>3
<1>2. CASE ReadPin
  BY <1>2, ReadPinTalk
<1>3. CASE VerifyPin \/ PinDelay \/ Report
  BY <1>3, ComputingTalk
<1>4. CASE SendCount \/ SendRun \/ EndBody
  BY <1>4, SendCountTalk, SendRunTalk, EndBodyTalk
<1> QED
  BY <1>1, <1>2, <1>3, <1>4 DEF Program

LEMMA TalkNext ==
  ASSUME SizesMeet, Typed, Placed(hsm), TalkInv, [HostNext]_hostVars
  PROVE  TalkInv'
<1>1. CASE HostStart
  BY <1>1, HostStartTalk
<1>2. CASE ~clean'
  BY <1>2 DEF TalkInv
<1>3. CASE ~HostStart /\ clean'
  <2>1. ~Restart /\ ~Watchdog /\ ~HostGivesUp /\ ~HostJunk /\ ~Disturbed
    BY <1>3 DEF Restart, Watchdog, Reset, HostGivesUp, HostJunk, Disturbed
  <2>2. clean
    <3>1. CASE Program
      <4>1. ASSUME NEW h, GoOn(h) \/ Compute(h) PROVE clean' = clean
        BY <4>1 DEF GoOn, Compute
      <4> QED
        BY <1>3, <2>1, <3>1, <4>1
           DEF Program, ReadMagic, ReadHeader, EndAck, Dispatch, ReadPin, VerifyPin, PinDelay,
               Report, SendCount, SendRun, EndBody
    <3>2. CASE PeerDone \/ Tick
      BY <1>3, <3>2 DEF PeerDone, GoOn, Tick
    <3>3. CASE HostSend \/ HostAcked \/ HostReply \/ HostBody \/ HostConfused
      BY <1>3, <3>3 DEF HostSend, HostAcked, HostReply, HostBody, HostConfused, HostReads
    <3>4. CASE Poll \/ UNCHANGED hostVars
      BY <1>3, <3>4 DEF Poll, hostVars
    <3> QED
      BY <1>3, <2>1, <3>1, <3>2, <3>3, <3>4 DEF HostNext
  <2>3. Talk
    BY <2>2 DEF TalkInv
  <2>4. CASE Program
    BY <2>1, <2>3, <2>4, ProgramTalk DEF TalkInv
  <2>5. CASE PeerDone
    BY <2>3, <2>5, PeerDoneTalk DEF TalkInv
  <2>6. CASE HostSend
    BY <2>3, <2>6, HostSendTalk DEF TalkInv
  <2>7. CASE HostAcked \/ HostReply \/ HostBody \/ HostConfused
    BY <2>3, <2>7, HostAckedTalk, HostReplyTalk, HostBodyTalk, NeverConfused DEF TalkInv
  <2>8. CASE Tick \/ Poll \/ UNCHANGED hostVars
    <3>1. UNCHANGED <<fifo, toHost, hsm, host>>
      BY <2>8 DEF Tick, Poll, hostVars
    <3>2. Stream' = Stream
      BY <3>1 DEF Stream
    <3>3. Talk'
      BY <2>3, <3>1, <3>2, SameTalk DEF Talk
    <3> QED
      BY <3>3 DEF TalkInv
  <2> QED
    BY <1>3, <2>1, <2>4, <2>5, <2>6, <2>7, <2>8 DEF HostNext
<1> QED
  BY <1>1, <1>2, <1>3

LEMMA TalkInStep == Typed /\ TalkInv => InStep
<1> SUFFICES ASSUME Typed, Talk
             PROVE  /\ host.wait # "confused" /\ ~hsm.handler
                    /\ host.out = <<>> /\ fifo = <<>> /\ toHost = <<>> /\ Reading
                         => (InLoop <=> host.wait = "none")
                    /\ host.out = <<>> /\ host.wait = "none" /\ InLoop => fifo = <<>> /\ toHost = <<>>
                    /\ hsm.pc = "idle" /\ ~InLoop => host.wait = "ack"
  BY DEF TalkInv, InStep
<1>1. fifo \in Seq(Bytes) /\ host.out \in Seq(Bytes) /\ hsm \in Hsm
  BY DEF Typed, Host
<1>2. ~hsm.handler
  BY DEF Talk
<1>3. host.wait # "confused"
  BY DEF Talk, Asking, Telling, Working, Heading, Counting, Sending, AckDue, Ended, Taken, Served,
         Unread, Hears
<1>4. Stream = <<>> <=> fifo = <<>> /\ host.out = <<>>
  BY <1>1, ConcatEmpty DEF Stream
<1>5. hsm.pc = "idle" => Asking
  BY DEF Talk, Asking, Telling, Working, Heading, Counting, Sending, AckDue, Ended
<1>6. ASSUME NEW op \in Bytes, NEW n \in 1 .. 4 PROVE Comes(op, n) # <<>> /\ Comes(op, n) \in Seq(Bytes)
  BY ComesTail
<1>7. ASSUME host.cmd \in Bytes PROVE Header(host.cmd) # <<>> /\ Header(host.cmd) \in Seq(Bytes)
  <2> DEFINE s == Header(host.cmd)
  <2>1. s \in Seq(Bytes) /\ Len(s) = 4
    BY <1>7, HeaderTyped
  <2> HIDE DEF s
  <2>2. s # <<>> /\ s \in Seq(Bytes)
    BY <2>1
  <2> QED
    BY <2>2 DEF s
<1>8. host.wait # "none" => host.cmd \in Bytes
  BY CommandBytes DEF Talk
\* While an ACK is to come the line is not empty.
<1>9. ASSUME NEW p, NEW t, NEW n \in 1 .. 4, Taken(p, t, n) PROVE Stream # <<>>
  <2>1. Comes("A", n) # <<>> /\ Comes("A", n) \in Seq(Bytes)
    BY <1>6, CommandBytes
  <2>2. CASE host.wait = "ack"
    <3>1. Header(host.cmd) \in Seq(Bytes)
      BY <1>7, <1>8, <2>2
    <3>2. Comes("A", n) \o Header(host.cmd) # <<>>
      BY <2>1, <3>1, ConcatEmpty
    <3> QED
      BY <1>9, <2>1, <2>2, <3>2 DEF Taken, Served
  <2>3. CASE host.wait # "ack"
    <3>1. Stream = Comes("A", n)
      BY <1>9, <2>3 DEF Taken, Served
    <3> QED
      BY <2>1, <3>1
  <2> QED
    BY <2>2, <2>3
<1>10. InLoop => /\ toHost = <<>>
                 /\ host.wait \in {"none", "ack"}
                 /\ host.wait = "none" => Stream = <<>>
                 /\ host.wait = "ack" => Stream # <<>>
  <2> HAVE InLoop
  <2>1. hsm.need = 4 /\ Asking
    BY <1>5 DEF InLoop
  <2>2. toHost = <<>> /\ (Served(<<>>))
    BY <2>1 DEF Asking
  <2>3. host.wait = "ack" => <<>> \o Header(host.cmd) # <<>>
    BY <1>7, <1>8, ConcatEmpty, <<>> \in Seq(Bytes)
  <2> QED
    BY <2>2, <2>3 DEF Served
<1>11. hsm.pc = "idle" /\ ~InLoop => host.wait = "ack" /\ Stream # <<>>
  <2> HAVE hsm.pc = "idle" /\ ~InLoop
  <2>1. hsm.need \in 1 .. 3 /\ host.wait = "ack" /\ Stream = Comes(host.cmd, hsm.need)
    BY <1>5 DEF Asking, InLoop
  <2>2. PICK op \in Bytes, n \in 1 .. 4 : op = host.cmd /\ n = hsm.need
    BY <1>8, <2>1
  <2>3. Stream = Comes(op, n)
    BY <2>1, <2>2
  <2> QED
    BY <1>6, <2>1, <2>3
<1>12. ASSUME Stream = <<>>, toHost = <<>>, hsm.pc = "pin" PROVE FALSE
  <2>1. Telling
    BY <1>12 DEF Talk, Asking, Telling, Working, Heading, Counting, Sending, AckDue, Ended
  <2>2. Len(Stream) = hsm.need /\ hsm.need > 0
    BY <1>12, <2>1 DEF Telling, Typed
  <2> QED
    BY <1>12, <2>2
<1>13. ASSUME Stream = <<>>, toHost = <<>>, hsm.pc \in {"headAck", "chunkAck", "finalAck"} PROVE FALSE
  <2>1. Heading \/ AckDue
    BY <1>13 DEF Talk, Asking, Telling, Working, Heading, Counting, Sending, AckDue, Ended
  <2>2. hsm.need \in 1 .. 4
    BY <1>13, <2>1 DEF Heading, AckDue
  <2>3. PICK n \in 1 .. 4 : n = hsm.need
    BY <2>2
  <2>4. \E p, t : Taken(p, t, n)
    <3>1. <<Ack>> \o <<Reply(hsm.op, Announced)>> # <<>>
      <4>1. \A a, b : <<a>> \o <<b>> # <<>>
        OBVIOUS
      <4> QED
        BY <4>1
    <3> QED
      BY <1>13, <2>1, <2>3, <3>1 DEF Heading, AckDue, Hears, Unread
  <2> QED
    BY <1>9, <1>13, <2>4
<1> QED
  BY <1>2, <1>3, <1>4, <1>10, <1>11, <1>12, <1>13 DEF Reading, InLoop

-----------------------------------------------------------------------------
LEMMA TalkAlways ==
  ASSUME HASH <= PIN_DELAY, SizesMeet
  PROVE  HostSpec => [](Typed /\ TimeInv /\ TalkInv)
<1>1. HostInit => Typed /\ TimeInv /\ TalkInv
  BY TypedInit, TimeInit, TalkInit
<1>2. Typed /\ TimeInv /\ TalkInv /\ [HostNext]_hostVars => Typed' /\ TimeInv' /\ TalkInv'
  <2> SUFFICES ASSUME Typed, TimeInv, TalkInv, [HostNext]_hostVars
               PROVE  Typed' /\ TimeInv' /\ TalkInv'
    OBVIOUS
  <2>1. COUNT_SIZE <= CHUNK_SIZE
    BY HostAssumption DEF SizesMeet
  <2> QED
    BY <2>1, TypedNext, TimeNext, TalkNext DEF TimeInv
<1> QED
  BY <1>1, <1>2, PTL DEF HostSpec

\* utils.c, message.h and the commands against the host tools: while the host keeps to
\* the protocol and the line is good, program, line and host are in one of the phases
\* of Talk; in each the next byte or message is the one its reader waits for.
THEOREM TalkInvariant ==
  ASSUME HASH <= PIN_DELAY, SizesMeet
  PROVE  HostSpec => []TalkInv
BY TalkAlways, PTL

\* InStep: such a host is never met by something it does not expect, HSM and host count
\* the same ACKs, and a finished command leaves nothing on the line.
THEOREM HostsStayInStep ==
  ASSUME HASH <= PIN_DELAY, SizesMeet
  PROVE  HostSpec => []InStep
BY TalkAlways, TalkInStep, PTL

\* The sizes of the firmware meet: 4 + 35 n never is a multiple of 256 for n <= 8, nor
\* is 35 n unless the list is empty, in which case the empty buffer is acknowledged.
THEOREM FirmwareSizesMeet ==
  ASSUME CHUNK_SIZE = 256, NUM_SLOTS = 8, ENTRY_SIZE = 35, COUNT_SIZE = 4, ERROR_LENGTH \in Nat \ {0}
  PROVE  SizesMeet
<1>1. \A n \in 0 .. 8 : (n * 35) % 256 # 0 \/ n * 35 = 0 <=> (4 + n * 35) % 256 # 0
  <2> TAKE n \in 0 .. 8
  <2>1. n * 35 \in 0 .. 280 /\ (n * 35 = 0 \/ n * 35 \in 35 .. 245 \/ n * 35 = 280)
    OBVIOUS
  <2> DEFINE x == n * 35
  <2>2. x # 252 /\ x # 256
    OBVIOUS
  <2> HIDE DEF x
  <2>3. x \in 0 .. 280
    BY <2>1 DEF x
  <2>4. x % 256 # 0 \/ x = 0
    BY <2>2, <2>3
  <2>5. (4 + x) % 256 # 0
    BY <2>2, <2>3
  <2> QED
    BY <2>4, <2>5 DEF x
<1>2. \A n \in 0 .. NUM_SLOTS : FinalAck(ListBody("I", n)) <=> ListLength(n) % CHUNK_SIZE # 0
  <2> TAKE n \in 0 .. NUM_SLOTS
  <2> DEFINE b == ListBody("I", n)
  <2>1. b.length = n * 35 /\ ListLength(n) = 4 + n * 35
    BY DEF ListBody, ListLength
  <2> HIDE DEF b
  <2>2. FinalAck(b) <=> (n * 35) % 256 # 0 \/ n * 35 = 0
    BY <2>1 DEF FinalAck
  <2> QED
    BY <1>1, <2>1, <2>2 DEF b
<1> QED
  BY <1>2 DEF SizesMeet
=============================================================================
