---------------------------- MODULE HsmTurnsProofs ----------------------------
(***************************************************************************)
(* The turns of an undisturbed dialogue, for any sizes, slots and groups:  *)
(* as long as no device is reset and every ask meets one listen, the two   *)
(* programs and the two lines are in one of the few stages below, so what  *)
(* each side tells its host is true, nothing is left behind and no FIFO    *)
(* of four bytes overruns.                                                 *)
(***************************************************************************)
EXTENDS HsmLinkProofs

At(a, l, toAsker, toListener) ==
  /\ asker.pc = a /\ listener.pc = l
  /\ line["asker"] = toAsker /\ line["listener"] = toListener

\* What belongs to the dialogue number `asks`.
Offer == Payload("offer", <<asks, asker.slot>>)
Data == Payload("data", <<asks, asker.slot>>)
Info == Payload("info", <<asks>>)
Answer == Header(IF asker.slot \in Held THEN MESSAGE_RECEIVE ELSE MESSAGE_ERROR)

Receives == asker.cmd = MESSAGE_RECEIVE
Interrogates == asker.cmd = MESSAGE_INTERROGATE
Keyed == asker.key = Offer /\ asker.slot \in Transferable
Fetched == Keyed /\ asker.image = Data

\* The asker while no listen command is at work on its request: between commands, with the
\* tag to verify, or waiting for an offer the listener has given up.
Apart ==
  /\ line["asker"] = <<>> /\ line["listener"] = <<>>
  /\ \/ asker.pc = "idle"
     \/ Receives /\ asker.pc = "verify" /\ Fetched
     \/ Receives /\ asker.pc = "offer" /\ asker.slot \in Held \ Known

\* The stages of a receive.
Naming ==
  \/ At("requested", "slot", ACK, <<>>)
  \/ At("sent", "slot", <<>>, <<Plain(asker.slot)>>)
Answering ==
  /\ listener.slot = asker.slot
  /\ \/ At("sent", "looking", ACK, <<>>)
     \/ At("answer", "looking", <<>>, <<>>)
     \/ At("sent", "answered", ACK \o Answer, <<>>)
     \/ At("answer", "answered", Answer, <<>>)
     \/ asker.slot \in Held /\ At("offer", "answered", <<>>, ACK)
     \/ asker.slot \notin Held /\ At("idle", "answered", <<>>, ACK)
Offering ==
  /\ listener.slot = asker.slot /\ asker.slot \in Held \cap Known
  /\ \E l \in {"deriving", "encrypted"} :
       \/ At("offer", l, Offer, <<>>)
       \/ asker.slot \notin Permitted /\ At("idle", l, <<>>, <<>>)
       \/ Keyed /\ At("deriving", l, <<>>, <<>>)
       \/ Keyed /\ At("data", l, <<>>, ACK)
Delivering ==
  \/ Keyed /\ At("data", "delivered", Data, <<>>)
  \/ Fetched /\ At("verify", "delivered", <<>>, ACK)
  \/ asker.image = Data /\ At("idle", "delivered", <<>>, ACK)

\* The stages of an interrogation.
Matching ==
  \/ At("requested", "list", ACK, <<>>)
  \/ At("sent", "list", <<>>, Payload("list", <<>>))
  \/ At("sent", "matching", ACK, <<>>)
  \/ At("answer", "matching", <<>>, <<>>)
Informing ==
  \/ At("sent", "matched", ACK \o Header(MESSAGE_INTERROGATE), <<>>)
  \/ At("answer", "matched", Header(MESSAGE_INTERROGATE), <<>>)
  \/ At("info", "matched", <<>>, ACK)
  \/ At("info", "delivered", Info, <<>>)
  \/ asker.image = Info /\ At("idle", "delivered", <<>>, ACK)

Dialogue ==
  \/ At("requested", "request", <<>>, Request(asker.cmd))
  \/ Receives /\ (Naming \/ Answering \/ Offering \/ Delivering)
  \/ Interrogates /\ (Matching \/ Informing)
  \/ listener.pc = "idle" /\ Apart

\* A result is told only at the end.
Pending ==
  /\ asker.pc # "idle" => asker.result = "none"
  /\ listener.pc # "idle" => listener.result = "none" /\ listener.session = listens

InTurn ==
  \/ asks = listens /\ Dialogue
  \/ asks = listens + 1 /\ At("requested", "idle", <<>>, Request(asker.cmd))
  \/ listens = asks + 1 /\ listener.pc = "request" /\ Apart

\* What each side has told its host.
AskerTells ==
  /\ asker.result = "ok" /\ Receives =>
       stored[Len(stored)] = [asked |-> asker.slot, image |-> Data]
  /\ asker.result = "ok" /\ Interrogates => asker.image = Info
  /\ asker.result = "error" => Receives /\ asker.slot \notin Transferable
ListenerTells ==
  /\ listener.result = "ok" /\ listens = asks => asker.image # <<>>
  /\ listener.result = "error" /\ listens = asks => Receives /\ asker.slot \notin Transferable

TurnInv == Pending /\ (clean => InTurn /\ AskerTells /\ ListenerTells)
-----------------------------------------------------------------------------
(* Reading and sending. *)

IsHeader(h, op) == Len(h) = 4 /\ h[1] = Plain(MAGIC) /\ h[2] = Plain(op)

LEMMA Headers ==
  /\ \A op : IsHeader(Header(op), op) /\ IsHeader(ACK, MESSAGE_ACK)
  /\ \A cmd : IsHeader(Request(cmd), cmd)
<1>1. \A op : IsHeader(Header(op), op)
  BY DEF IsHeader, Header
<1>2. \A cmd : IsHeader(Request(cmd), cmd)
  <2> SUFFICES ASSUME NEW cmd PROVE IsHeader(Request(cmd), cmd)
    OBVIOUS
  <2>1. \E b : Request(cmd) = <<Plain(MAGIC), Plain(cmd), b, Plain(0)>>
    BY DEF Request, Header
  <2> QED
    BY <2>1 DEF IsHeader
<1> QED
  BY <1>1, <1>2 DEF ACK

LEMMA NothingParses == Parses(<<>>) = {}
BY DEF Parses

LEMMA HeaderParses ==
  ASSUME NEW S, NEW q \in Seq(S), NEW op, Len(q) >= 4, q[1] = Plain(MAGIC), q[2] = Plain(op),
         NEW p \in Parses(q)
  PROVE  p.used = 4 /\ p.op = op
<1>1. Values(q[1]) = {MAGIC} /\ Values(q[2]) = {op}
  BY DEF Values, Plain
<1>2. q # <<>>
  OBVIOUS
<1>3. Parses(q) = {[used |-> 4, op |-> op]}
  BY <1>1, <1>2 DEF Parses
<1> QED
  BY <1>3

LEMMA Concats ==
  ASSUME NEW S, NEW x \in Seq(S), NEW y \in Seq(S)
  PROVE  /\ SubSeq(x \o y, Len(x) + 1, Len(x \o y)) = y
         /\ SubSeq(x, Len(x) + 1, Len(x)) = <<>> /\ SubSeq(x, 1, Len(x)) = x
         /\ SubSeq(x, 0 + 1, Len(x)) = x
         /\ <<>> \o x = x /\ x \o <<>> = x
<1> DEFINE q == x \o y  n == Len(x)  m == Len(y)
<1>1. /\ q \in Seq(S) /\ Len(q) = n + m /\ n \in Nat /\ m \in Nat
      /\ \A i \in 1 .. n + m : q[i] = IF i <= n THEN x[i] ELSE y[i - n]
  BY ConcatProperties, LenProperties
<1> HIDE DEF q
<1>2. SubSeq(q, n + 1, Len(q)) = y
  <2> DEFINE r == SubSeq(q, n + 1, Len(q))
  <2>1. /\ r \in Seq(S) /\ Len(r) = m /\ \A i \in 1 .. m : r[i] = q[i + n]
    <3>1. \A i \in n + 1 .. n + m : q[i] \in S
      BY <1>1
    <3>2. /\ r \in Seq(S) /\ Len(r) = IF n + 1 <= n + m THEN n + m - (n + 1) + 1 ELSE 0
          /\ \A i \in 1 .. n + m - (n + 1) + 1 : r[i] = q[n + 1 + i - 1]
      BY <1>1, <3>1, SubSeqProperties
    <3> HIDE DEF r, n, m
    <3>3. n + m - (n + 1) + 1 = m /\ \A i \in 1 .. m : n + 1 + i - 1 = i + n
      BY <1>1
    <3>4. Len(r) = m
      BY <1>1, <3>2
    <3> QED
      BY <3>2, <3>3, <3>4
  <2> HIDE DEF r
  <2>2. \A i \in 1 .. m : r[i] = y[i]
    <3> SUFFICES ASSUME NEW i \in 1 .. m PROVE r[i] = y[i]
      OBVIOUS
    <3>1. i + n \in 1 .. n + m /\ ~(i + n <= n) /\ i + n - n = i
      BY <1>1
    <3> QED
      BY <1>1, <2>1, <3>1
  <2>3. r = y
    BY <2>1, <2>2, SeqEqual
  <2> QED
    BY <2>3 DEF r
<1>3. SubSeq(x, Len(x) + 1, Len(x)) = <<>> /\ SubSeq(x, 1, Len(x)) = x
  OBVIOUS
<1>4. <<>> \o x = x /\ x \o <<>> = x
  OBVIOUS
<1>5. 0 + 1 = 1
  OBVIOUS
<1> QED
  BY <1>2, <1>3, <1>4, <1>5 DEF q

\* One side reads exactly x and sends some bytes.
LEMMA Reads ==
  ASSUME LinkInv, NEW x \in Seq(Byte(listens)), NEW y \in Seq(Byte(listens)),
         NEW bytes \in Seq(Byte(listens))
  PROVE  /\ line["asker"] = x \o y /\ line["listener"] = <<>> /\ Exchange("asker", Len(x), bytes)
              => line'["asker"] = y /\ line'["listener"] = bytes
         /\ line["listener"] = x \o y /\ line["asker"] = <<>> /\ Exchange("listener", Len(x), bytes)
              => line'["listener"] = y /\ line'["asker"] = bytes
<1>1. line \in [Devices -> Seq(Byte(listens))] /\ Devices = {"asker", "listener"}
  BY DEF LinkInv, LinkTypes, Devices
<1>2. SubSeq(x \o y, Len(x) + 1, Len(x \o y)) = y /\ <<>> \o bytes = bytes
  BY Concats
<1> QED
  BY <1>1, <1>2 DEF Exchange, Peer

LEMMA ReadsAll ==
  ASSUME LinkInv, NEW x \in Seq(Byte(listens)), NEW bytes \in Seq(Byte(listens))
  PROVE  /\ line["asker"] = x /\ line["listener"] = <<>> /\ Exchange("asker", Len(x), bytes)
              => line'["asker"] = <<>> /\ line'["listener"] = bytes
         /\ line["listener"] = x /\ line["asker"] = <<>> /\ Exchange("listener", Len(x), bytes)
              => line'["listener"] = <<>> /\ line'["asker"] = bytes
<1>1. <<>> \in Seq(Byte(listens)) /\ x \o <<>> = x
  OBVIOUS
<1> QED
  BY <1>1, Reads

LEMMA Sends ==
  ASSUME LinkInv, NEW bytes \in Seq(Byte(listens))
  PROVE  /\ Exchange("asker", 0, bytes)
              => line'["asker"] = line["asker"] /\ line'["listener"] = line["listener"] \o bytes
         /\ Exchange("listener", 0, bytes)
              => line'["listener"] = line["listener"] /\ line'["asker"] = line["asker"] \o bytes
         /\ <<>> \o bytes = bytes
<1>1. /\ line \in [Devices -> Seq(Byte(listens))] /\ Devices = {"asker", "listener"}
      /\ line["asker"] \in Seq(Byte(listens)) /\ line["listener"] \in Seq(Byte(listens))
  BY DEF LinkInv, LinkTypes, Devices
<1>2. /\ SubSeq(line["asker"], 0 + 1, Len(line["asker"])) = line["asker"]
      /\ SubSeq(line["listener"], 0 + 1, Len(line["listener"])) = line["listener"]
      /\ <<>> \o bytes = bytes
  BY <1>1, Concats
<1> QED
  BY <1>1, <1>2 DEF Exchange, Peer

\* A header is read whole, whatever follows it.
LEMMA LongHeaderParses ==
  \A h, y \in Seq(Byte(listens)) : \A op \in 0 .. 255 : \A p \in Parses(h \o y) :
    IsHeader(h, op) => p.used = Len(h) /\ p.op = op
<1> TAKE h, y \in Seq(Byte(listens))
<1> TAKE op \in 0 .. 255
<1> TAKE p \in Parses(h \o y)
<1> HAVE IsHeader(h, op)
<1> DEFINE q == h \o y
<1>1. q \in Seq(Byte(listens)) /\ Len(q) = Len(h) + Len(y)
      /\ \A i \in 1 .. Len(h) + Len(y) : q[i] = IF i <= Len(h) THEN h[i] ELSE y[i - Len(h)]
  BY ConcatProperties, Zenon
<1>2. Len(h) = 4 /\ Len(y) \in Nat /\ p \in Parses(q)
  BY DEF IsHeader
<1> HIDE DEF q
<1>3. 1 \in 1 .. 4 + Len(y) /\ 2 \in 1 .. 4 + Len(y) /\ 4 + Len(y) >= 4
  BY <1>2
<1>4. Len(q) >= 4 /\ q[1] = Plain(MAGIC) /\ q[2] = Plain(op)
  BY <1>1, <1>2, <1>3 DEF IsHeader
<1> QED
  BY <1>1, <1>2, <1>4, HeaderParses

\* One side reads a header of the other's.
LEMMA AskerReads ==
  ASSUME LinkInv, NEW h \in Seq(Byte(listens)), NEW op \in 0 .. 255, IsHeader(h, op),
         NEW y \in Seq(Byte(listens)), NEW bytes \in Seq(Byte(listens)),
         line["asker"] = h \o y, line["listener"] = <<>>,
         NEW p \in Parses(line["asker"]), Exchange("asker", p.used, bytes)
  PROVE  p.op = op /\ line'["asker"] = y /\ line'["listener"] = bytes
<1>0. p \in Parses(h \o y)
  OBVIOUS
<1>1. p.used = Len(h) /\ p.op = op
  BY <1>0, LongHeaderParses, Zenon
<1>2. Exchange("asker", Len(h), bytes)
  BY <1>1 DEF Exchange
<1> QED
  BY <1>1, <1>2, Reads

LEMMA AskerReadsAll ==
  ASSUME LinkInv, NEW h \in Seq(Byte(listens)), NEW op \in 0 .. 255, IsHeader(h, op),
         NEW bytes \in Seq(Byte(listens)), line["asker"] = h, line["listener"] = <<>>,
         NEW p \in Parses(line["asker"]), Exchange("asker", p.used, bytes)
  PROVE  p.op = op /\ line'["asker"] = <<>> /\ line'["listener"] = bytes
<1>1. <<>> \in Seq(Byte(listens)) /\ h \o <<>> = h
  BY Concats
<1> QED
  BY <1>1, AskerReads

LEMMA ListenerReads ==
  ASSUME LinkInv, NEW h \in Seq(Byte(listens)), NEW op \in 0 .. 255, IsHeader(h, op),
         NEW y \in Seq(Byte(listens)), NEW bytes \in Seq(Byte(listens)),
         line["listener"] = h \o y, line["asker"] = <<>>,
         NEW p \in Parses(line["listener"]), Exchange("listener", p.used, bytes)
  PROVE  p.op = op /\ line'["listener"] = y /\ line'["asker"] = bytes
<1>0. p \in Parses(h \o y)
  OBVIOUS
<1>1. p.used = Len(h) /\ p.op = op
  BY <1>0, LongHeaderParses, Zenon
<1>2. Exchange("listener", Len(h), bytes)
  BY <1>1 DEF Exchange
<1> QED
  BY <1>1, <1>2, Reads

LEMMA ListenerReadsAll ==
  ASSUME LinkInv, NEW h \in Seq(Byte(listens)), NEW op \in 0 .. 255, IsHeader(h, op),
         NEW bytes \in Seq(Byte(listens)), line["listener"] = h, line["asker"] = <<>>,
         NEW p \in Parses(line["listener"]), Exchange("listener", p.used, bytes)
  PROVE  p.op = op /\ line'["listener"] = <<>> /\ line'["asker"] = bytes
<1>1. <<>> \in Seq(Byte(listens)) /\ h \o <<>> = h
  BY Concats
<1> QED
  BY <1>1, ListenerReads
-----------------------------------------------------------------------------
(* The messages. *)

LEMMA Operations ==
  /\ MESSAGE_ACK \in 0 .. 255 /\ MESSAGE_RECEIVE \in 0 .. 255 /\ MESSAGE_INTERROGATE \in 0 .. 255
  /\ MESSAGE_ERROR \in 0 .. 255 /\ MESSAGE_RECEIVE # MESSAGE_ERROR
  /\ MESSAGE_RECEIVE # MESSAGE_INTERROGATE /\ MESSAGE_INTERROGATE # MESSAGE_ERROR
  /\ \A op \in 0 .. 255 : op # Malformed
BY DEF MESSAGE_ACK, MESSAGE_RECEIVE, MESSAGE_INTERROGATE, MESSAGE_ERROR, Malformed

LEMMA Messages ==
  ASSUME LinkInv
  PROVE  LET B == Seq(Byte(listens)) IN
         /\ <<>> \in B /\ ACK \in B /\ Answer \in B /\ <<Plain(asker.slot)>> \in B
         /\ Request(asker.cmd) \in B /\ Header(MESSAGE_INTERROGATE) \in B
         /\ Payload("list", <<>>) \in B
         /\ asks \in 1 .. listens => Info \in B
         /\ asks \in 1 .. listens /\ asker.slot \in Held \cap Known => Offer \in B /\ Data \in B
<1>1. listens \in Nat /\ asker.slot \in 0 .. 255 /\ asker.cmd \in {MESSAGE_RECEIVE, MESSAGE_INTERROGATE}
  <2>1. asker \in AskerType(listens) /\ listens \in Nat
    BY LinkFacts
  <2>2. Slots \subseteq 0 .. 255
    BY LinkAssumption DEF Slots
  <2> QED
    BY <2>1, <2>2 DEF AskerType
<1>2. Answer \in Seq(Byte(listens)) /\ Header(MESSAGE_INTERROGATE) \in Seq(Byte(listens))
  BY <1>1, Operations, PlainBytes DEF Answer
<1>3. asks \in 1 .. listens => Info \in Seq(Byte(listens))
  BY <1>1, PayloadTypes DEF Info
<1>4. asks \in 1 .. listens /\ asker.slot \in Held \cap Known =>
        Offer \in Seq(Byte(listens)) /\ Data \in Seq(Byte(listens))
  BY <1>1, PayloadTypes DEF Offer, Data
<1>5. /\ ACK \in Seq(Byte(listens)) /\ Request(asker.cmd) \in Seq(Byte(listens))
      /\ <<Plain(asker.slot)>> \in Seq(Byte(listens))
  BY <1>1, PlainBytes
<1>6. Payload("list", <<>>) \in Seq(Byte(listens)) /\ <<>> \in Seq(Byte(listens))
  BY <1>1, PayloadTypes
<1> QED
  BY <1>2, <1>3, <1>4, <1>5, <1>6

LEMMA Lengths ==
  /\ \A k \in Kinds : \A what : Len(Payload(k, what)) = Size[k] /\ Payload(k, what) # <<>>
  /\ \A k \in Kinds : ~(Len(<<>>) >= Size[k])
<1>1. ASSUME NEW k \in Kinds, NEW what
      PROVE  Len(Payload(k, what)) = Size[k] /\ Payload(k, what) # <<>>
  <2>1. Len(Payload(k, what)) = Size[k] /\ Size[k] \in Nat \ {0}
    BY PayloadBytes
  <2> QED
    BY <2>1
<1>2. \A k \in Kinds : ~(Len(<<>>) >= Size[k])
  BY Sizes
<1> QED
  BY <1>1, <1>2

\* The same dialogue goes on.
LEMMA SameDialogue ==
  ASSUME asks' = asks, asker'.slot = asker.slot
  PROVE  Offer' = Offer /\ Data' = Data /\ Info' = Info /\ Answer' = Answer
BY DEF Offer, Data, Info, Answer
-----------------------------------------------------------------------------
(* The asker's steps. *)

LEMMA SendBodyTurns == ASSUME LinkInv, TurnInv, SendBody PROVE TurnInv'
<1>1. /\ asker.pc = "requested" /\ asker' = [asker EXCEPT !.pc = "sent"]
      /\ listener' = listener /\ stored' = stored /\ asks' = asks /\ listens' = listens
      /\ clean' = clean
  BY DEF SendBody, AskerIs
<1>2. asker \in AskerType(listens)
  BY LinkFacts
<1>3. Pending'
  BY <1>1, <1>2 DEF TurnInv, Pending, AskerType
<1> SUFFICES ASSUME clean PROVE InTurn' /\ AskerTells' /\ ListenerTells'
  BY <1>1, <1>3 DEF TurnInv
<1>4. PICK p \in Parses(line["asker"]) :
        Exchange("asker", p.used, IF Receives THEN <<Plain(asker.slot)>> ELSE Payload("list", <<>>))
  BY DEF SendBody, Receives
<1>5. /\ asks = listens /\ line["asker"] = ACK /\ line["listener"] = <<>>
      /\ \/ Receives /\ listener.pc = "slot"
         \/ Interrogates /\ listener.pc = "list"
  BY <1>1, <1>4, NothingParses DEF TurnInv, InTurn, Dialogue, At, Naming, Answering, Offering,
     Delivering, Matching, Informing, Apart
<1>6. /\ line'["asker"] = <<>>
      /\ line'["listener"] = IF Receives THEN <<Plain(asker.slot)>> ELSE Payload("list", <<>>)
  <2> DEFINE bytes == IF Receives THEN <<Plain(asker.slot)>> ELSE Payload("list", <<>>)
  <2>1. bytes \in Seq(Byte(listens)) /\ ACK \in Seq(Byte(listens))
    BY Messages
  <2>2. IsHeader(ACK, MESSAGE_ACK) /\ MESSAGE_ACK \in 0 .. 255
    BY Headers, Operations
  <2>3. Exchange("asker", p.used, bytes)
    BY <1>4
  <2> HIDE DEF bytes
  <2>4. line'["asker"] = <<>> /\ line'["listener"] = bytes
    BY <1>5, <2>1, <2>2, <2>3, AskerReadsAll
  <2> QED
    BY <2>4 DEF bytes
<1>7. Dialogue'
  BY <1>1, <1>2, <1>5, <1>6, Operations DEF Dialogue, At, Naming, Matching, AskerType, Receives, Interrogates
<1> QED
  BY <1>1, <1>2, <1>5, <1>7 DEF InTurn, AskerTells, ListenerTells, AskerType, TurnInv, Pending

LEMMA AwaitBodyAckTurns == ASSUME LinkInv, TurnInv, AwaitBodyAck PROVE TurnInv'
<1>1. /\ asker.pc = "sent" /\ asker' = [asker EXCEPT !.pc = "answer"]
      /\ listener' = listener /\ stored' = stored /\ asks' = asks /\ listens' = listens
      /\ clean' = clean
  BY DEF AwaitBodyAck, AskerIs
<1>2. asker \in AskerType(listens)
  BY LinkFacts
<1>3. Pending'
  BY <1>1, <1>2 DEF TurnInv, Pending, AskerType
<1> SUFFICES ASSUME clean PROVE InTurn' /\ AskerTells' /\ ListenerTells'
  BY <1>1, <1>3 DEF TurnInv
<1>4. PICK p \in Parses(line["asker"]) : Exchange("asker", p.used, <<>>)
  BY DEF AwaitBodyAck
<1>5. /\ asks = listens /\ line["listener"] = <<>>
      /\ \/ /\ line["asker"] = ACK
            /\ \/ Receives /\ listener.pc = "looking" /\ listener.slot = asker.slot
               \/ Interrogates /\ listener.pc = "matching"
         \/ /\ Receives /\ listener.pc = "answered" /\ listener.slot = asker.slot
            /\ line["asker"] = ACK \o Answer
         \/ /\ Interrogates /\ listener.pc = "matched"
            /\ line["asker"] = ACK \o Header(MESSAGE_INTERROGATE)
  BY <1>1, <1>4, NothingParses DEF TurnInv, InTurn, Dialogue, At, Naming, Answering, Offering,
     Delivering, Matching, Informing, Apart
<1>6. /\ line["asker"] = ACK => line'["asker"] = <<>> /\ line'["listener"] = <<>>
      /\ line["asker"] = ACK \o Answer => line'["asker"] = Answer /\ line'["listener"] = <<>>
      /\ line["asker"] = ACK \o Header(MESSAGE_INTERROGATE) =>
           line'["asker"] = Header(MESSAGE_INTERROGATE) /\ line'["listener"] = <<>>
  <2>1. /\ ACK \in Seq(Byte(listens)) /\ Answer \in Seq(Byte(listens)) /\ <<>> \in Seq(Byte(listens))
        /\ Header(MESSAGE_INTERROGATE) \in Seq(Byte(listens))
        /\ IsHeader(ACK, MESSAGE_ACK) /\ MESSAGE_ACK \in 0 .. 255
    BY Messages, Headers, Operations
  <2>2. line["asker"] = ACK => line'["asker"] = <<>> /\ line'["listener"] = <<>>
    BY <1>4, <1>5, <2>1, AskerReadsAll
  <2>3. line["asker"] = ACK \o Answer => line'["asker"] = Answer /\ line'["listener"] = <<>>
    BY <1>4, <1>5, <2>1, AskerReads
  <2>4. line["asker"] = ACK \o Header(MESSAGE_INTERROGATE) =>
          line'["asker"] = Header(MESSAGE_INTERROGATE) /\ line'["listener"] = <<>>
    BY <1>4, <1>5, <2>1, AskerReads
  <2> QED
    BY <2>2, <2>3, <2>4
<1>7. asker'.slot = asker.slot /\ asker'.pc = "answer" /\ asker'.cmd = asker.cmd /\ Answer' = Answer
      /\ asker'.result = asker.result
  BY <1>1, <1>2, SameDialogue DEF AskerType
<1>8. Dialogue'
  BY <1>1, <1>5, <1>6, <1>7 DEF Dialogue, At, Answering, Matching, Informing, Receives, Interrogates
<1> QED
  BY <1>1, <1>5, <1>7, <1>8 DEF InTurn, AskerTells, ListenerTells, TurnInv, Pending

LEMMA TakeAnswerTurns == ASSUME LinkInv, TurnInv, TakeAnswer PROVE TurnInv'
<1>1. /\ asker.pc = "answer"
      /\ listener' = listener /\ stored' = stored /\ asks' = asks /\ listens' = listens
      /\ clean' = clean
  BY DEF TakeAnswer, AskerIs
<1>2. asker \in AskerType(listens)
  BY LinkFacts
<1>a. PICK p \in Parses(line["asker"]) : \E op \in AnswerOps(p.op) :
        /\ Exchange("asker", p.used, ACK)
        /\ asker' = IF op # asker.cmd THEN AskerEnds("error", <<>>)
                    ELSE [asker EXCEPT !.pc = IF asker.cmd = MESSAGE_RECEIVE THEN "offer" ELSE "info"]
  BY DEF TakeAnswer
<1>3. PICK op \in AnswerOps(p.op) :
        /\ Exchange("asker", p.used, ACK)
        /\ asker' = IF op # asker.cmd THEN AskerEnds("error", <<>>)
                    ELSE [asker EXCEPT !.pc = IF asker.cmd = MESSAGE_RECEIVE THEN "offer" ELSE "info"]
  BY <1>a
<1>4. /\ asker'.slot = asker.slot /\ asker'.cmd = asker.cmd
      /\ op # asker.cmd => asker'.pc = "idle" /\ asker'.result = "error"
      /\ op = asker.cmd =>
           /\ asker'.pc = (IF asker.cmd = MESSAGE_RECEIVE THEN "offer" ELSE "info")
           /\ asker'.result = asker.result
  BY <1>2, <1>3 DEF AskerEnds, AskerType
<1>5. Pending'
  BY <1>1, <1>4 DEF TurnInv, Pending
<1> SUFFICES ASSUME clean PROVE InTurn' /\ AskerTells' /\ ListenerTells'
  BY <1>1, <1>5 DEF TurnInv
<1>6. /\ asks = listens /\ line["listener"] = <<>>
      /\ \/ /\ Receives /\ listener.pc = "answered" /\ listener.slot = asker.slot
            /\ line["asker"] = Answer
         \/ /\ Interrogates /\ listener.pc = "matched"
            /\ line["asker"] = Header(MESSAGE_INTERROGATE)
  BY <1>1, <1>3, NothingParses DEF TurnInv, InTurn, Dialogue, At, Naming, Answering,
     Offering, Delivering, Matching, Informing, Apart
<1> DEFINE held == asker.slot \in Held
           sent == IF Receives THEN IF held THEN MESSAGE_RECEIVE ELSE MESSAGE_ERROR
                                 ELSE MESSAGE_INTERROGATE
<1>8. p.op = sent /\ line'["asker"] = <<>> /\ line'["listener"] = ACK
  <2>1. ACK \in Seq(Byte(listens)) /\ line["asker"] \in Seq(Byte(listens))
    BY Messages, LinkFacts
  <2>2. IsHeader(line["asker"], sent) /\ sent \in 0 .. 255
    BY <1>6, Headers, Operations DEF Answer, Receives, Interrogates
  <2> HIDE DEF sent
  <2> QED
    BY <1>3, <1>6, <2>1, <2>2, AskerReadsAll
<1>9. op = sent
  BY <1>8, Operations DEF AnswerOps
<1>10. /\ op = asker.cmd <=> (Receives => held)
       /\ Receives <=> asker.cmd = MESSAGE_RECEIVE
  BY <1>2, <1>6, <1>9, Operations DEF Receives, Interrogates
<1>11. Dialogue'
  <2>1. CASE Receives
    <3>1. Answering'
      BY <1>1, <1>4, <1>6, <1>8, <1>10, <2>1, Operations DEF At, Answering, Receives, Interrogates
    <3> QED
      BY <1>4, <2>1, <3>1 DEF Dialogue, Receives
  <2>2. CASE ~Receives
    <3>1. Interrogates /\ asker'.pc = "info" /\ listener.pc = "matched"
      BY <1>4, <1>6, <1>10, <2>2
    <3> QED
      BY <1>1, <1>4, <1>8, <3>1 DEF Dialogue, Informing, At, Interrogates
  <2> QED
    BY <2>1, <2>2
<1>12. AskerTells'
  BY <1>4, <1>5, <1>10, Operations DEF AskerTells, Receives, Interrogates, Transferable, Pending
<1> QED
  BY <1>1, <1>6, <1>11, <1>12 DEF InTurn, ListenerTells, TurnInv, Pending

LEMMA TakeOfferTurns == ASSUME LinkInv, TurnInv, TakeOffer PROVE TurnInv'
<1>1. /\ asker.pc = "offer" /\ Len(line["asker"]) >= Size["offer"]
      /\ listener' = listener /\ stored' = stored /\ asks' = asks /\ listens' = listens
      /\ clean' = clean /\ Exchange("asker", Size["offer"], <<>>)
  BY DEF TakeOffer, AskerIs
<1>2. asker \in AskerType(listens) /\ asks \in Nat \ {0} /\ asks <= MaxEvents /\ MaxEvents \in Nat
  BY <1>1, LinkFacts
<1> DEFINE offer == Taken("asker", "offer")
<1>3. \/ /\ Whole("offer", offer) => offer[1].of[3] \in Permitted
         /\ asker' = [asker EXCEPT !.pc = "deriving", !.key = offer]
      \/ /\ Whole("offer", offer) => offer[1].of[3] \notin Permitted
         /\ asker' = AskerEnds("error", <<>>)
  BY DEF TakeOffer
<1> HIDE DEF offer
<1>4. /\ asker'.slot = asker.slot /\ asker'.cmd = asker.cmd
      /\ \/ asker'.pc = "deriving" /\ asker'.result = asker.result /\ asker'.key = offer
         \/ asker'.pc = "idle" /\ asker'.result = "error"
  BY <1>2, <1>3 DEF AskerEnds, AskerType
<1>5. Pending'
  BY <1>1, <1>4 DEF TurnInv, Pending
<1> SUFFICES ASSUME clean PROVE InTurn' /\ AskerTells' /\ ListenerTells'
  BY <1>1, <1>5 DEF TurnInv
<1>6. "offer" \in Kinds
  BY DEF Kinds
<1>7. /\ asks = listens /\ line["listener"] = <<>> /\ line["asker"] = Offer /\ Receives
      /\ listener.slot = asker.slot /\ asker.slot \in Held \cap Known
      /\ listener.pc \in {"deriving", "encrypted"}
  BY <1>1, <1>6, Lengths DEF TurnInv, InTurn, Dialogue, At, Naming, Answering,
     Offering, Delivering, Matching, Informing, Apart
<1>8. Offer \in Seq(Byte(listens)) /\ Len(Offer) = Size["offer"]
  BY <1>2, <1>6, <1>7, Messages, Lengths DEF Offer
<1>9. offer = Offer /\ line'["asker"] = <<>> /\ line'["listener"] = <<>>
  <2>1. offer = Offer
    BY <1>7, <1>8, Concats DEF offer, Taken
  <2>2. <<>> \in Seq(Byte(listens)) /\ Exchange("asker", Len(Offer), <<>>)
    BY <1>1, <1>8
  <2> QED
    BY <1>7, <1>8, <2>1, <2>2, ReadsAll
<1>10. Whole("offer", Offer) /\ Offer[1].of[3] = asker.slot
  <2>1. asks \in 0 .. MaxEvents /\ asker.slot \in Slots
    BY <1>2 DEF AskerType
  <2> QED
    BY <1>8, <2>1, OfferBytes DEF Whole, Offer
<1>11. /\ asker'.pc = "deriving" => asker.slot \in Permitted
       /\ asker'.pc = "idle" => asker.slot \notin Permitted
  BY <1>2, <1>3, <1>9, <1>10 DEF AskerEnds, AskerType
<1>12. Keyed' <=> asker'.key = Offer /\ asker.slot \in Transferable
  BY <1>1, <1>4, SameDialogue DEF Keyed
<1>13. Dialogue'
  BY <1>1, <1>4, <1>7, <1>9, <1>11, <1>12 DEF Dialogue, At, Offering, Receives, Transferable
<1>14. AskerTells'
  BY <1>4, <1>5, <1>7, <1>11, Operations DEF AskerTells, Receives, Interrogates, Transferable, Pending
<1> QED
  BY <1>1, <1>7, <1>13, <1>14 DEF InTurn, ListenerTells, TurnInv, Pending

LEMMA DeriveKeyTurns == ASSUME LinkInv, TurnInv, DeriveKey PROVE TurnInv'
<1>1. /\ asker.pc = "deriving" /\ asker' = [asker EXCEPT !.pc = "data"]
      /\ listener' = listener /\ stored' = stored /\ asks' = asks /\ listens' = listens
      /\ clean' = clean /\ Exchange("asker", 0, ACK)
  BY DEF DeriveKey, AskerIs
<1>2. asker \in AskerType(listens)
  BY LinkFacts
<1>3. /\ asker'.slot = asker.slot /\ asker'.cmd = asker.cmd /\ asker'.pc = "data"
      /\ asker'.result = asker.result /\ asker'.key = asker.key
  BY <1>1, <1>2 DEF AskerType
<1>4. Pending'
  BY <1>1, <1>3 DEF TurnInv, Pending
<1> SUFFICES ASSUME clean PROVE InTurn' /\ AskerTells' /\ ListenerTells'
  BY <1>1, <1>4 DEF TurnInv
<1>5. /\ asks = listens /\ line["listener"] = <<>> /\ line["asker"] = <<>> /\ Receives /\ Keyed
      /\ listener.slot = asker.slot /\ asker.slot \in Held \cap Known
      /\ listener.pc \in {"deriving", "encrypted"}
  BY <1>1 DEF TurnInv, InTurn, Dialogue, At, Naming, Answering,
     Offering, Delivering, Matching, Informing, Apart
<1>6. line'["asker"] = <<>> /\ line'["listener"] = ACK
  BY <1>1, <1>5, Sends, Messages
<1>7. Keyed'
  BY <1>1, <1>3, <1>5, SameDialogue DEF Keyed
<1>8. Dialogue'
  BY <1>1, <1>3, <1>5, <1>6, <1>7 DEF Dialogue, At, Offering, Receives
<1> QED
  BY <1>1, <1>3, <1>5, <1>8 DEF InTurn, AskerTells, ListenerTells, TurnInv, Pending

LEMMA TakeDataTurns == ASSUME LinkInv, TurnInv, TakeData PROVE TurnInv'
<1>1. /\ asker.pc = "data" /\ Len(line["asker"]) >= Size["data"]
      /\ listener' = listener /\ stored' = stored /\ asks' = asks /\ listens' = listens
      /\ clean' = clean /\ Exchange("asker", Size["data"], ACK)
      /\ asker' = [asker EXCEPT !.pc = "verify", !.image = Taken("asker", "data")]
  BY DEF TakeData, AskerIs
<1>2. asker \in AskerType(listens) /\ asks \in Nat \ {0}
  BY <1>1, LinkFacts
<1>3. /\ asker'.slot = asker.slot /\ asker'.cmd = asker.cmd /\ asker'.pc = "verify"
      /\ asker'.result = asker.result /\ asker'.key = asker.key
      /\ asker'.image = Taken("asker", "data")
  BY <1>1, <1>2 DEF AskerType
<1>4. Pending'
  BY <1>1, <1>3 DEF TurnInv, Pending
<1> SUFFICES ASSUME clean PROVE InTurn' /\ AskerTells' /\ ListenerTells'
  BY <1>1, <1>4 DEF TurnInv
<1>5. "data" \in Kinds
  BY DEF Kinds
<1>6. /\ asks = listens /\ line["listener"] = <<>> /\ line["asker"] = Data /\ Receives /\ Keyed
      /\ listener.pc = "delivered"
  BY <1>1, <1>5, Lengths DEF TurnInv, InTurn, Dialogue, At, Naming, Answering,
     Offering, Delivering, Matching, Informing, Apart
<1>7. Data \in Seq(Byte(listens)) /\ Len(Data) = Size["data"]
  BY <1>2, <1>5, <1>6, Messages, Lengths DEF Data, Keyed, Transferable
<1>8. Taken("asker", "data") = Data /\ line'["asker"] = <<>> /\ line'["listener"] = ACK
  <2>1. Taken("asker", "data") = Data
    BY <1>6, <1>7, Concats DEF Taken
  <2>2. ACK \in Seq(Byte(listens)) /\ Exchange("asker", Len(Data), ACK)
    BY <1>1, <1>7, Messages
  <2> QED
    BY <1>6, <1>7, <2>1, <2>2, ReadsAll
<1>9. Fetched'
  BY <1>1, <1>3, <1>6, <1>8, SameDialogue DEF Fetched, Keyed
<1>10. Dialogue'
  BY <1>1, <1>3, <1>6, <1>8, <1>9 DEF Dialogue, At, Delivering, Receives
<1> QED
  BY <1>1, <1>3, <1>6, <1>10 DEF InTurn, AskerTells, ListenerTells, TurnInv, Pending

\* The asker verifies only what it asked for.
LEMMA Verifying ==
  ASSUME LinkInv, TurnInv, clean, asker.pc = "verify"
  PROVE  /\ Receives /\ Fetched /\ line["asker"] = <<>>
         /\ \/ asks = listens /\ listener.pc = "delivered" /\ line["listener"] = ACK
            \/ asks = listens /\ listener.pc = "idle" /\ line["listener"] = <<>>
            \/ listens = asks + 1 /\ listener.pc = "request" /\ line["listener"] = <<>>
BY DEF TurnInv, InTurn, Dialogue, At, Naming, Answering,
     Offering, Delivering, Matching, Informing, Apart

LEMMA StoreFileTurns == ASSUME LinkInv, TurnInv, StoreFile PROVE TurnInv'
<1> DEFINE file == [asked |-> asker.slot, image |-> asker.image]
<1>1. /\ asker.pc = "verify" /\ Verified /\ asker' = AskerEnds("ok", asker.image)
      /\ stored' = Append(stored, file) /\ line' = line
      /\ listener' = listener /\ asks' = asks /\ listens' = listens /\ clean' = clean
  BY DEF StoreFile, AskerIs
<1>2. asker \in AskerType(listens) /\ asks \in Nat /\ listens \in Nat
  BY LinkFacts
<1>3. /\ asker'.slot = asker.slot /\ asker'.cmd = asker.cmd /\ asker'.pc = "idle"
      /\ asker'.result = "ok" /\ asker'.image = asker.image
  BY <1>1, <1>2 DEF AskerEnds, AskerType
<1>4. Pending'
  BY <1>1, <1>3 DEF TurnInv, Pending
<1> SUFFICES ASSUME clean PROVE InTurn' /\ AskerTells' /\ ListenerTells'
  BY <1>1, <1>4 DEF TurnInv
<1>5. Offer' = Offer /\ Data' = Data /\ Receives'
  BY <1>1, <1>3, SameDialogue, Verifying DEF Receives
<1>6. asker.image = Data /\ Data # <<>>
  BY <1>1, Verifying, Lengths DEF Fetched, Data, Kinds
<1>7. InTurn'
  <2>1. CASE asks = listens /\ listener.pc = "delivered" /\ line["listener"] = ACK
    <3>1. line'["asker"] = <<>> /\ line'["listener"] = ACK /\ listener'.pc = "delivered"
      BY <1>1, <2>1, Verifying
    <3> QED
      BY <1>1, <1>3, <1>5, <1>6, <2>1, <3>1 DEF InTurn, Dialogue, Delivering, At
  <2>2. CASE line["listener"] = <<>>
    <3>1. Apart'
      BY <1>1, <1>3, <2>2, Verifying DEF Apart
    <3>2. \/ asks' = listens' /\ listener'.pc = "idle"
          \/ listens' = asks' + 1 /\ listener'.pc = "request"
          \/ asks = listens /\ listener.pc = "delivered" /\ line["listener"] = ACK
      BY <1>1, Verifying
    <3> QED
      BY <2>1, <3>1, <3>2 DEF InTurn, Dialogue
  <2> QED
    BY <1>1, <2>1, <2>2, Verifying
<1>8. stored'[Len(stored')] = file
  <2>1. stored \in Seq(Files(listens))
    BY DEF LinkInv, LinkTypes
  <2>2. Len(Append(stored, file)) = Len(stored) + 1 /\ Append(stored, file)[Len(stored) + 1] = file
    BY <2>1
  <2> QED
    BY <1>1, <2>2
<1>9. AskerTells'
  BY <1>3, <1>5, <1>6, <1>8, Operations DEF AskerTells, Receives, Interrogates
<1>10. ListenerTells'
  <2>1. ListenerTells
    BY DEF TurnInv
  <2> QED
    BY <1>1, <1>3, <1>6, <2>1 DEF ListenerTells, Receives
<1> QED
  BY <1>7, <1>9, <1>10

LEMMA RejectFileTurns == ASSUME LinkInv, TurnInv, RejectFile PROVE TurnInv'
<1>1. /\ asker.pc = "verify" /\ ~Verified /\ asker' = AskerEnds("error", <<>>)
      /\ listener' = listener /\ asks' = asks /\ listens' = listens /\ clean' = clean
  BY DEF RejectFile, AskerIs
<1>2. /\ asker \in AskerType(listens) /\ asks \in Nat \ {0} /\ asks <= MaxEvents /\ MaxEvents \in Nat
      /\ listens \in Nat
  BY <1>1, LinkFacts
<1>3. asker'.pc = "idle"
  BY <1>1, <1>2 DEF AskerEnds, AskerType
<1>4. Pending'
  BY <1>1, <1>3 DEF TurnInv, Pending
<1>5. ASSUME clean PROVE FALSE
  <2>1. Fetched /\ asks \in 1 .. listens /\ asker.slot \in Held \cap Known
    BY <1>1, <1>2, <1>5, Verifying DEF Fetched, Keyed, Transferable
  <2>2. Offer \in Seq(Byte(listens))
    BY <2>1, Messages
  <2>3. Offer[1].of[2] = asks /\ Offer[1].of[3] = asker.slot
    BY <2>2, OfferBytes DEF Offer
  <2>4. asks \in 0 .. MaxEvents /\ asker.slot \in Slots
    BY <1>2 DEF AskerType
  <2>5. Whole("offer", asker.key)
    BY <2>1, <2>4 DEF Whole, Fetched, Keyed, Offer
  <2> QED
    BY <1>1, <2>1, <2>3, <2>5 DEF Verified, Fetched, Keyed, Data
<1> QED
  BY <1>1, <1>4, <1>5 DEF TurnInv

LEMMA TakeInfoTurns == ASSUME LinkInv, TurnInv, TakeInfo PROVE TurnInv'
<1> DEFINE info == Taken("asker", "info")
<1>1. /\ asker.pc = "info" /\ Len(line["asker"]) >= Size["info"]
      /\ listener' = listener /\ stored' = stored /\ asks' = asks /\ listens' = listens
      /\ clean' = clean /\ Exchange("asker", Size["info"], ACK)
      /\ asker' = IF \E s \in 0 .. MaxEvents : info = Payload("info", <<s>>)
                  THEN AskerEnds("ok", info) ELSE AskerEnds("error", <<>>)
  BY DEF TakeInfo, AskerIs
<1> HIDE DEF info
<1>2. /\ asker \in AskerType(listens) /\ asks \in Nat \ {0} /\ asks <= MaxEvents /\ MaxEvents \in Nat
      /\ listens \in Nat
  BY <1>1, LinkFacts
<1>3. asker'.slot = asker.slot /\ asker'.cmd = asker.cmd /\ asker'.pc = "idle"
  BY <1>1, <1>2 DEF AskerEnds, AskerType
<1>4. Pending'
  BY <1>1, <1>3 DEF TurnInv, Pending
<1> SUFFICES ASSUME clean PROVE InTurn' /\ AskerTells' /\ ListenerTells'
  BY <1>1, <1>4 DEF TurnInv
<1>5. "info" \in Kinds
  BY DEF Kinds
<1>6. /\ asks = listens /\ line["listener"] = <<>> /\ line["asker"] = Info /\ Interrogates
      /\ listener.pc = "delivered"
  BY <1>1, <1>5, Lengths DEF TurnInv, InTurn, Dialogue, At, Naming, Answering,
     Offering, Delivering, Matching, Informing, Apart
<1>7. Info \in Seq(Byte(listens)) /\ Len(Info) = Size["info"] /\ Info # <<>>
  BY <1>2, <1>5, <1>6, Messages, Lengths DEF Info
<1>8. info = Info /\ line'["asker"] = <<>> /\ line'["listener"] = ACK
  <2>1. info = Info
    BY <1>6, <1>7, Concats DEF info, Taken
  <2>2. ACK \in Seq(Byte(listens)) /\ Exchange("asker", Len(Info), ACK)
    BY <1>1, <1>7, Messages
  <2> QED
    BY <1>6, <1>7, <2>1, <2>2, ReadsAll
<1>9. asker'.result = "ok" /\ asker'.image = Info
  <2>1. asks \in 0 .. MaxEvents
    BY <1>2
  <2>2. asker' = AskerEnds("ok", Info)
    BY <1>1, <1>8, <2>1 DEF Info
  <2> QED
    BY <1>2, <2>2 DEF AskerEnds, AskerType
<1>10. Info' = Info /\ Interrogates' /\ ~Receives'
  BY <1>1, <1>3, <1>6, SameDialogue, Operations DEF Interrogates, Receives
<1>11. Dialogue'
  BY <1>1, <1>3, <1>6, <1>8, <1>9, <1>10 DEF Dialogue, At, Informing
<1>12. AskerTells'
  BY <1>9, <1>10 DEF AskerTells
<1> QED
  BY <1>1, <1>6, <1>11, <1>12 DEF InTurn, ListenerTells, TurnInv, Pending
-----------------------------------------------------------------------------
(* The listener's steps. *)

\* A listener that is in its turn and goes on, or ends.
LEMMA ListenerGoesOn ==
  ASSUME LinkInv, TurnInv, listener.pc # "idle",
         asker' = asker, stored' = stored, asks' = asks, listens' = listens, clean' = clean,
         \/ listener'.pc = "idle"
         \/ listener'.result = listener.result /\ listener'.session = listener.session,
         clean => asks = listens /\ Dialogue' /\ ListenerTells'
  PROVE  TurnInv'
<1>1. Pending'
  BY DEF TurnInv, Pending
<1>2. AskerTells => AskerTells'
  BY SameDialogue DEF AskerTells, Receives, Interrogates
<1> QED
  BY <1>1, <1>2 DEF TurnInv, InTurn

LEMMA ListenerFields ==
  ASSUME LinkInv, TurnInv
  PROVE  /\ \A pc : listener' = [listener EXCEPT !.pc = pc] =>
              /\ listener'.pc = pc /\ listener'.slot = listener.slot
              /\ listener'.result = listener.result /\ listener'.session = listener.session
         /\ \A result : listener' = ListenerEnds(result) =>
              listener'.pc = "idle" /\ listener'.result = result
         /\ listener.pc # "idle" => listener.result = "none"
<1>1. listener \in ListenerType(listens)
  BY LinkFacts
<1> QED
  BY <1>1 DEF ListenerType, ListenerEnds, TurnInv, Pending

LEMMA TakeRequestTurns == ASSUME LinkInv, TurnInv, TakeRequest PROVE TurnInv'
<1>1. /\ listener.pc = "request" /\ asker' = asker /\ stored' = stored
      /\ asks' = asks /\ listens' = listens /\ clean' = clean
  BY DEF TakeRequest, ListenerIs
<1>2. listener \in ListenerType(listens)
  BY LinkFacts
<1>3. PICK p \in Parses(line["listener"]) : \E op \in RequestOps(p.op) :
        \/ /\ op = MESSAGE_RECEIVE /\ Exchange("listener", p.used, ACK)
           /\ listener' = [listener EXCEPT !.pc = "slot"]
        \/ /\ op = MESSAGE_INTERROGATE /\ Exchange("listener", p.used, ACK)
           /\ listener' = [listener EXCEPT !.pc = "list"]
        \/ /\ op \notin {MESSAGE_RECEIVE, MESSAGE_INTERROGATE} /\ Exchange("listener", p.used, <<>>)
           /\ listener' = ListenerEnds("ok")
  BY Operations DEF TakeRequest
<1>4. PICK op \in RequestOps(p.op) :
        \/ /\ op = MESSAGE_RECEIVE /\ Exchange("listener", p.used, ACK)
           /\ listener' = [listener EXCEPT !.pc = "slot"]
        \/ /\ op = MESSAGE_INTERROGATE /\ Exchange("listener", p.used, ACK)
           /\ listener' = [listener EXCEPT !.pc = "list"]
        \/ /\ op \notin {MESSAGE_RECEIVE, MESSAGE_INTERROGATE} /\ Exchange("listener", p.used, <<>>)
           /\ listener' = ListenerEnds("ok")
  BY <1>3
<1>5. \/ listener'.pc = "idle"
      \/ listener'.result = listener.result /\ listener'.session = listener.session
  BY <1>4, ListenerFields DEF ListenerEnds
<1>6. ASSUME clean PROVE asks = listens /\ Dialogue' /\ ListenerTells'
  <2>1. /\ asks = listens /\ asker.pc = "requested" /\ line["asker"] = <<>>
        /\ line["listener"] = Request(asker.cmd)
    BY <1>1, <1>3, <1>6, NothingParses DEF TurnInv, InTurn, Dialogue, At, Naming, Answering,
     Offering, Delivering, Matching, Informing, Apart
  <2>2. asker.cmd \in {MESSAGE_RECEIVE, MESSAGE_INTERROGATE}
    BY LinkFacts DEF AskerType
  <2>3. ASSUME NEW bytes \in Seq(Byte(listens)), Exchange("listener", p.used, bytes)
        PROVE  p.op = asker.cmd /\ line'["listener"] = <<>> /\ line'["asker"] = bytes
    <3> DEFINE h == Request(asker.cmd)  o == asker.cmd
    <3>1. h \in Seq(Byte(listens))
      BY Messages
    <3>2. IsHeader(h, o) /\ o \in 0 .. 255 /\ line["listener"] = h /\ line["asker"] = <<>>
      BY <2>1, <2>2, Headers, Operations
    <3> HIDE DEF h, o
    <3>3. p.op = o /\ line'["listener"] = <<>> /\ line'["asker"] = bytes
      BY <2>3, <3>1, <3>2, ListenerReadsAll
    <3> QED
      BY <3>3 DEF o
  <2>4. p.op = asker.cmd
    <3>1. ACK \in Seq(Byte(listens)) /\ <<>> \in Seq(Byte(listens))
      BY Messages
    <3>2. CASE Exchange("listener", p.used, ACK)
      BY <2>3, <3>1, <3>2
    <3>3. CASE Exchange("listener", p.used, <<>>)
      BY <2>3, <3>1, <3>3
    <3> QED
      BY <1>4, <3>2, <3>3
  <2>5. op = asker.cmd
    BY <2>2, <2>4, Operations DEF RequestOps
  <2>6. /\ Exchange("listener", p.used, ACK)
        /\ listener' = [listener EXCEPT !.pc = IF Receives THEN "slot" ELSE "list"]
    BY <1>4, <2>2, <2>5, Operations DEF Receives
  <2>7. line'["listener"] = <<>> /\ line'["asker"] = ACK
    BY <2>3, <2>6, Messages
  <2>8. Dialogue'
    BY <1>1, <1>2, <2>1, <2>2, <2>6, <2>7 DEF Dialogue, At, Naming, Matching, Receives, Interrogates, ListenerType
  <2>9. listener'.result = "none"
    BY <1>1, <1>2, <2>6 DEF TurnInv, Pending, ListenerType
  <2> QED
    BY <2>1, <2>8, <2>9 DEF ListenerTells
<1> QED
  BY <1>1, <1>5, <1>6, ListenerGoesOn

LEMMA TakeSlotTurns == ASSUME LinkInv, TurnInv, TakeSlot PROVE TurnInv'
<1>1. /\ listener.pc = "slot" /\ asker' = asker /\ stored' = stored
      /\ asks' = asks /\ listens' = listens /\ clean' = clean
      /\ line["listener"] # <<>> /\ Exchange("listener", 1, ACK)
  BY DEF TakeSlot, ListenerIs
<1>2. listener \in ListenerType(listens) /\ asker \in AskerType(listens)
  BY LinkFacts
<1>3. PICK v \in Values(Head(line["listener"])) :
        listener' = [listener EXCEPT !.pc = "looking", !.slot = IF v \in Slots THEN v ELSE NoSlot]
  BY DEF TakeSlot
<1>4. listener'.result = listener.result /\ listener'.session = listener.session
  BY <1>2, <1>3 DEF ListenerType
<1>5. ASSUME clean PROVE asks = listens /\ Dialogue' /\ ListenerTells'
  <2>1. /\ asks = listens /\ asker.pc = "sent" /\ line["asker"] = <<>> /\ Receives
        /\ line["listener"] = <<Plain(asker.slot)>>
    BY <1>1, <1>5 DEF TurnInv, InTurn, Dialogue, At, Naming, Answering,
     Offering, Delivering, Matching, Informing, Apart
  <2>2. v = asker.slot
    BY <2>1 DEF Values, Plain
  <2>3. line'["listener"] = <<>> /\ line'["asker"] = ACK
    <3>1. Len(<<Plain(asker.slot)>>) = 1
      OBVIOUS
    <3>2. <<Plain(asker.slot)>> \in Seq(Byte(listens)) /\ ACK \in Seq(Byte(listens))
      BY Messages
    <3>3. Exchange("listener", Len(<<Plain(asker.slot)>>), ACK)
      BY <1>1, <3>1
    <3> QED
      BY <2>1, <3>2, <3>3, ReadsAll
  <2>4. asker.slot \in Slots
    BY <1>2 DEF AskerType
  <2>5. listener'.slot = asker.slot /\ listener'.pc = "looking" /\ listener'.result = "none"
    BY <1>1, <1>2, <1>3, <2>2, <2>4 DEF ListenerType, TurnInv, Pending
  <2>6. Dialogue'
    BY <1>1, <2>1, <2>3, <2>5 DEF Dialogue, At, Answering, Receives
  <2> QED
    BY <2>1, <2>5, <2>6 DEF ListenerTells
<1> QED
  BY <1>1, <1>4, <1>5, ListenerGoesOn

LEMMA AnswerReceiveTurns == ASSUME LinkInv, TurnInv, AnswerReceive PROVE TurnInv'
<1> DEFINE answer == Header(IF Found THEN MESSAGE_RECEIVE ELSE MESSAGE_ERROR)
<1>1. /\ listener.pc = "looking" /\ asker' = asker /\ stored' = stored
      /\ asks' = asks /\ listens' = listens /\ clean' = clean
      /\ Exchange("listener", 0, answer) /\ listener' = [listener EXCEPT !.pc = "answered"]
  BY DEF AnswerReceive, ListenerIs
<1> HIDE DEF answer
<1>2. /\ listener'.pc = "answered" /\ listener'.slot = listener.slot
      /\ listener'.result = listener.result /\ listener'.session = listener.session
      /\ listener.result = "none"
  BY <1>1, ListenerFields
<1>3. ASSUME clean PROVE asks = listens /\ Dialogue' /\ ListenerTells'
  <2>1. /\ asks = listens /\ Receives /\ listener.slot = asker.slot /\ line["listener"] = <<>>
        /\ \/ asker.pc = "sent" /\ line["asker"] = ACK
           \/ asker.pc = "answer" /\ line["asker"] = <<>>
    BY <1>1, <1>3 DEF TurnInv, InTurn, Dialogue, At, Naming, Answering,
     Offering, Delivering, Matching, Informing, Apart
  <2>2. answer = Answer
    BY <2>1 DEF answer, Answer, Found
  <2>3. line'["listener"] = <<>> /\ line'["asker"] = line["asker"] \o Answer /\ <<>> \o Answer = Answer
    BY <1>1, <2>1, <2>2, Sends, Messages
  <2>4. Answering'
    BY <1>1, <1>2, <2>1, <2>3, SameDialogue DEF At, Answering
  <2> QED
    BY <1>1, <1>2, <2>1, <2>4 DEF Dialogue, Receives, ListenerTells
<1> QED
  BY <1>1, <1>2, <1>3, ListenerGoesOn

LEMMA SendOfferTurns == ASSUME LinkInv, TurnInv, SendOffer PROVE TurnInv'
<1>1. /\ listener.pc = "answered" /\ asker' = asker /\ stored' = stored
      /\ asks' = asks /\ listens' = listens /\ clean' = clean
  BY DEF SendOffer, ListenerIs
<1> DEFINE offered == Found /\ listener.slot \in Known
           offer == Payload("offer", <<listener.session, listener.slot>>)
<1>2. PICK p \in Parses(line["listener"]) :
        IF offered
        THEN Exchange("listener", p.used, offer) /\ listener' = [listener EXCEPT !.pc = "deriving"]
        ELSE Exchange("listener", p.used, <<>>) /\ listener' = ListenerEnds("error")
  BY DEF SendOffer
<1>3. /\ offered => /\ listener'.pc = "deriving" /\ listener'.slot = listener.slot
                    /\ listener'.result = listener.result /\ listener'.session = listener.session
      /\ ~offered => listener'.pc = "idle" /\ listener'.result = "error"
      /\ listener.result = "none"
  BY <1>1, <1>2, ListenerFields DEF ListenerEnds
<1>4. ASSUME clean PROVE asks = listens /\ Dialogue' /\ ListenerTells'
  <2>1. /\ asks = listens /\ Receives /\ listener.slot = asker.slot /\ listener.session = listens
        /\ line["asker"] = <<>> /\ line["listener"] = ACK
        /\ \/ asker.pc = "offer" /\ asker.slot \in Held
           \/ asker.pc = "idle" /\ asker.slot \notin Held
    BY <1>1, <1>2, <1>4, NothingParses DEF TurnInv, InTurn, Dialogue, At, Naming, Answering,
     Offering, Delivering, Matching, Informing, Apart, Pending
  <2>2. ACK \in Seq(Byte(listens)) /\ IsHeader(ACK, MESSAGE_ACK) /\ MESSAGE_ACK \in 0 .. 255
    BY Messages, Headers, Operations
  <2>3. offer = Offer /\ (offered <=> asker.slot \in Held \cap Known)
    BY <2>1 DEF Offer, Found
  <2>4. CASE asker.slot \in Held \cap Known
    <3>1. asks \in 1 .. listens
      BY <2>1, <2>4, LinkFacts
    <3>2. Offer \in Seq(Byte(listens)) /\ Exchange("listener", p.used, Offer)
      BY <1>2, <2>3, <2>4, <3>1, Messages
    <3>3. line'["listener"] = <<>> /\ line'["asker"] = Offer
      BY <2>1, <2>2, <3>2, ListenerReadsAll
    <3>4. listener'.pc = "deriving" /\ listener'.slot = asker.slot /\ listener'.result = "none"
      BY <1>3, <2>1, <2>3, <2>4
    <3>5. Offering'
      BY <1>1, <2>1, <2>4, <3>3, <3>4, SameDialogue DEF At, Offering
    <3> QED
      BY <1>1, <2>1, <3>4, <3>5 DEF Dialogue, Receives, ListenerTells
  <2>5. CASE asker.slot \notin Held \cap Known
    <3>1. <<>> \in Seq(Byte(listens)) /\ Exchange("listener", p.used, <<>>)
      BY <1>2, <2>3, <2>5, Messages
    <3>2. line'["listener"] = <<>> /\ line'["asker"] = <<>>
      BY <2>1, <2>2, <3>1, ListenerReadsAll
    <3>3. listener'.pc = "idle" /\ listener'.result = "error"
      BY <1>3, <2>3, <2>5
    <3>4. Apart' /\ Receives'
      BY <1>1, <2>1, <2>5, <3>2 DEF Apart, Receives
    <3> QED
      BY <1>1, <2>1, <2>5, <3>3, <3>4 DEF Dialogue, ListenerTells, Transferable
  <2> QED
    BY <2>4, <2>5
<1>5. \/ listener'.pc = "idle"
      \/ listener'.result = listener.result /\ listener'.session = listener.session
  BY <1>3
<1> QED
  BY <1>1, <1>4, <1>5, ListenerGoesOn

LEMMA EncryptFileTurns == ASSUME LinkInv, TurnInv, EncryptFile PROVE TurnInv'
<1>1. /\ listener.pc = "deriving" /\ asker' = asker /\ stored' = stored /\ line' = line
      /\ asks' = asks /\ listens' = listens /\ clean' = clean
      /\ listener' = [listener EXCEPT !.pc = "encrypted"]
  BY DEF EncryptFile, ListenerIs
<1>2. /\ listener'.pc = "encrypted" /\ listener'.slot = listener.slot
      /\ listener'.result = listener.result /\ listener'.session = listener.session
      /\ listener.result = "none"
  BY <1>1, ListenerFields
<1>3. ASSUME clean PROVE asks = listens /\ Dialogue' /\ ListenerTells'
  <2>1. /\ asks = listens /\ Receives /\ listener.slot = asker.slot
        /\ asker.slot \in Held \cap Known
        /\ \/ At("offer", "deriving", Offer, <<>>)
           \/ asker.slot \notin Permitted /\ At("idle", "deriving", <<>>, <<>>)
           \/ Keyed /\ At("deriving", "deriving", <<>>, <<>>)
           \/ Keyed /\ At("data", "deriving", <<>>, ACK)
    BY <1>1, <1>3 DEF TurnInv, InTurn, Dialogue, At, Naming, Answering,
     Offering, Delivering, Matching, Informing, Apart
  <2>2. Keyed => Keyed'
    BY <1>1, SameDialogue DEF Keyed
  <2>3. Offering'
    BY <1>1, <1>2, <2>1, <2>2, SameDialogue DEF At, Offering
  <2> QED
    BY <1>1, <1>2, <2>1, <2>3 DEF Dialogue, Receives, ListenerTells
<1> QED
  BY <1>1, <1>2, <1>3, ListenerGoesOn

LEMMA SendFileTurns == ASSUME LinkInv, TurnInv, SendFile PROVE TurnInv'
<1> DEFINE file == Payload("data", <<listener.session, listener.slot>>)
<1>1. /\ listener.pc = "encrypted" /\ asker' = asker /\ stored' = stored
      /\ asks' = asks /\ listens' = listens /\ clean' = clean
      /\ listener' = [listener EXCEPT !.pc = "delivered"]
  BY DEF SendFile, ListenerIs
<1>2. PICK p \in Parses(line["listener"]) : Exchange("listener", p.used, file)
  BY DEF SendFile
<1>3. /\ listener'.pc = "delivered" /\ listener'.slot = listener.slot
      /\ listener'.result = listener.result /\ listener'.session = listener.session
      /\ listener.result = "none"
  BY <1>1, ListenerFields
<1>4. ASSUME clean PROVE asks = listens /\ Dialogue' /\ ListenerTells'
  <2>1. /\ asks = listens /\ Receives /\ listener.slot = asker.slot /\ listener.session = listens
        /\ asker.slot \in Held \cap Known /\ Keyed /\ asker.pc = "data"
        /\ line["asker"] = <<>> /\ line["listener"] = ACK
    BY <1>1, <1>2, <1>4, NothingParses DEF TurnInv, InTurn, Dialogue, At, Naming, Answering,
     Offering, Delivering, Matching, Informing, Apart, Pending
  <2>2. ACK \in Seq(Byte(listens)) /\ IsHeader(ACK, MESSAGE_ACK) /\ MESSAGE_ACK \in 0 .. 255
    BY Messages, Headers, Operations
  <2>3. asks \in 1 .. listens
    BY <2>1, LinkFacts
  <2>4. Data \in Seq(Byte(listens)) /\ Exchange("listener", p.used, Data)
    BY <1>2, <2>1, <2>3, Messages DEF Data
  <2>5. line'["listener"] = <<>> /\ line'["asker"] = Data
    BY <2>1, <2>2, <2>4, ListenerReadsAll
  <2>6. Keyed' /\ Data' = Data
    BY <1>1, <2>1, SameDialogue DEF Keyed
  <2>7. Delivering'
    BY <1>1, <1>3, <2>1, <2>5, <2>6 DEF At, Delivering
  <2> QED
    BY <1>1, <1>3, <2>1, <2>7 DEF Dialogue, Receives, ListenerTells
<1> QED
  BY <1>1, <1>3, <1>4, ListenerGoesOn

LEMMA TakeListTurns == ASSUME LinkInv, TurnInv, TakeList PROVE TurnInv'
<1> DEFINE pc == IF Taken("listener", "list") = Payload("list", <<>>) THEN "matching" ELSE "badList"
<1>1. /\ listener.pc = "list" /\ asker' = asker /\ stored' = stored
      /\ asks' = asks /\ listens' = listens /\ clean' = clean
      /\ Len(line["listener"]) >= Size["list"] /\ Exchange("listener", Size["list"], ACK)
      /\ listener' = [listener EXCEPT !.pc = pc]
  BY DEF TakeList, ListenerIs
<1> HIDE DEF pc
<1>2. /\ listener'.pc = pc /\ listener'.slot = listener.slot
      /\ listener'.result = listener.result /\ listener'.session = listener.session
      /\ listener.result = "none"
  BY <1>1, ListenerFields
<1>3. ASSUME clean PROVE asks = listens /\ Dialogue' /\ ListenerTells'
  <2> DEFINE list == Payload("list", <<>>)
  <2>1. "list" \in Kinds
    BY DEF Kinds
  <2>2. /\ asks = listens /\ Interrogates /\ asker.pc = "sent"
        /\ line["asker"] = <<>> /\ line["listener"] = list
    BY <1>1, <1>3, <2>1, Lengths DEF TurnInv, InTurn, Dialogue, At, Naming, Answering,
     Offering, Delivering, Matching, Informing, Apart
  <2>3. list \in Seq(Byte(listens)) /\ Len(list) = Size["list"]
    BY <2>1, Messages, Lengths
  <2>4. pc = "matching"
    BY <2>2, <2>3, Concats DEF pc, Taken
  <2>5. line'["listener"] = <<>> /\ line'["asker"] = ACK
    <3>1. ACK \in Seq(Byte(listens)) /\ Exchange("listener", Len(list), ACK)
      BY <1>1, <2>3, Messages
    <3> HIDE DEF list
    <3> QED
      BY <2>2, <2>3, <3>1, ReadsAll
  <2>6. Matching'
    BY <1>1, <1>2, <2>2, <2>4, <2>5 DEF At, Matching
  <2> QED
    BY <1>1, <1>2, <2>2, <2>6 DEF Dialogue, Interrogates, ListenerTells
<1> QED
  BY <1>1, <1>2, <1>3, ListenerGoesOn

LEMMA AnswerInterrogateTurns == ASSUME LinkInv, TurnInv, AnswerInterrogate PROVE TurnInv'
<1> DEFINE answer == Header(MESSAGE_INTERROGATE)
<1>1. /\ listener.pc = "matching" /\ asker' = asker /\ stored' = stored
      /\ asks' = asks /\ listens' = listens /\ clean' = clean
      /\ Exchange("listener", 0, answer) /\ listener' = [listener EXCEPT !.pc = "matched"]
  BY DEF AnswerInterrogate, ListenerIs
<1>2. /\ listener'.pc = "matched" /\ listener'.slot = listener.slot
      /\ listener'.result = listener.result /\ listener'.session = listener.session
      /\ listener.result = "none"
  BY <1>1, ListenerFields
<1>3. ASSUME clean PROVE asks = listens /\ Dialogue' /\ ListenerTells'
  <2>1. /\ asks = listens /\ Interrogates /\ line["listener"] = <<>>
        /\ \/ asker.pc = "sent" /\ line["asker"] = ACK
           \/ asker.pc = "answer" /\ line["asker"] = <<>>
    BY <1>1, <1>3 DEF TurnInv, InTurn, Dialogue, At, Naming, Answering,
     Offering, Delivering, Matching, Informing, Apart
  <2>2. line'["listener"] = <<>> /\ line'["asker"] = line["asker"] \o answer /\ <<>> \o answer = answer
    BY <1>1, <2>1, Sends, Messages
  <2>3. Informing'
    BY <1>1, <1>2, <2>1, <2>2 DEF At, Informing
  <2> QED
    BY <1>1, <1>2, <2>1, <2>3 DEF Dialogue, Interrogates, ListenerTells
<1> QED
  BY <1>1, <1>2, <1>3, ListenerGoesOn

LEMMA RejectListTurns == ASSUME LinkInv, TurnInv, RejectList PROVE TurnInv'
<1>1. /\ listener.pc = "badList" /\ asker' = asker /\ stored' = stored
      /\ asks' = asks /\ listens' = listens /\ clean' = clean /\ listener' = ListenerEnds("error")
  BY DEF RejectList, ListenerIs
<1>2. ~clean
  BY <1>1 DEF TurnInv, InTurn, Dialogue, At, Naming, Answering,
     Offering, Delivering, Matching, Informing, Apart
<1>3. listener'.pc = "idle"
  BY <1>1, ListenerFields DEF ListenerEnds
<1> QED
  BY <1>1, <1>2, <1>3, ListenerGoesOn

LEMMA SendInfoTurns == ASSUME LinkInv, TurnInv, SendInfo PROVE TurnInv'
<1> DEFINE info == Payload("info", <<listener.session>>)
<1>1. /\ listener.pc = "matched" /\ asker' = asker /\ stored' = stored
      /\ asks' = asks /\ listens' = listens /\ clean' = clean
      /\ listener' = [listener EXCEPT !.pc = "delivered"]
  BY DEF SendInfo, ListenerIs
<1>2. PICK p \in Parses(line["listener"]) : Exchange("listener", p.used, info)
  BY DEF SendInfo
<1>3. /\ listener'.pc = "delivered" /\ listener'.slot = listener.slot
      /\ listener'.result = listener.result /\ listener'.session = listener.session
      /\ listener.result = "none"
  BY <1>1, ListenerFields
<1>4. ASSUME clean PROVE asks = listens /\ Dialogue' /\ ListenerTells'
  <2>1. /\ asks = listens /\ Interrogates /\ listener.session = listens /\ asker.pc = "info"
        /\ line["asker"] = <<>> /\ line["listener"] = ACK
    BY <1>1, <1>2, <1>4, NothingParses DEF TurnInv, InTurn, Dialogue, At, Naming, Answering,
     Offering, Delivering, Matching, Informing, Apart, Pending
  <2>2. ACK \in Seq(Byte(listens)) /\ IsHeader(ACK, MESSAGE_ACK) /\ MESSAGE_ACK \in 0 .. 255
    BY Messages, Headers, Operations
  <2>3. asks \in 1 .. listens
    BY <2>1, LinkFacts
  <2>4. Info \in Seq(Byte(listens)) /\ Exchange("listener", p.used, Info)
    BY <1>2, <2>1, <2>3, Messages DEF Info
  <2>5. line'["listener"] = <<>> /\ line'["asker"] = Info
    BY <2>1, <2>2, <2>4, ListenerReadsAll
  <2>6. Informing'
    BY <1>1, <1>3, <2>1, <2>5, SameDialogue DEF At, Informing
  <2> QED
    BY <1>1, <1>3, <2>1, <2>6 DEF Dialogue, Interrogates, ListenerTells
<1> QED
  BY <1>1, <1>3, <1>4, ListenerGoesOn

LEMMA FinishListenTurns == ASSUME LinkInv, TurnInv, FinishListen PROVE TurnInv'
<1>1. /\ listener.pc = "delivered" /\ asker' = asker /\ stored' = stored
      /\ asks' = asks /\ listens' = listens /\ clean' = clean /\ listener' = ListenerEnds("ok")
  BY DEF FinishListen, ListenerIs
<1>2. PICK p \in Parses(line["listener"]) : Exchange("listener", p.used, <<>>)
  BY DEF FinishListen
<1>3. listener'.pc = "idle" /\ listener'.result = "ok"
  BY <1>1, ListenerFields DEF ListenerEnds
<1>4. ASSUME clean PROVE asks = listens /\ Dialogue' /\ ListenerTells'
  <2>1. /\ asks = listens /\ line["asker"] = <<>> /\ line["listener"] = ACK
        /\ \/ Receives /\ Fetched /\ asker.pc = "verify"
           \/ asker.pc = "idle" /\ asker.image \in {Data, Info}
    BY <1>1, <1>2, <1>4, NothingParses DEF TurnInv, InTurn, Dialogue, At, Naming, Answering,
     Offering, Delivering, Matching, Informing, Apart
  <2>2. asker.image # <<>>
    <3>1. Data # <<>> /\ Info # <<>>
      BY Lengths DEF Data, Info, Kinds
    <3> QED
      BY <2>1, <3>1 DEF Fetched
  <2>3. line'["listener"] = <<>> /\ line'["asker"] = <<>>
    <3>1. /\ ACK \in Seq(Byte(listens)) /\ <<>> \in Seq(Byte(listens))
          /\ IsHeader(ACK, MESSAGE_ACK) /\ MESSAGE_ACK \in 0 .. 255
      BY Messages, Headers, Operations
    <3> QED
      BY <1>2, <2>1, <3>1, ListenerReadsAll
  <2>4. Fetched => Fetched'
    BY <1>1, SameDialogue DEF Fetched, Keyed
  <2>5. Apart'
    BY <1>1, <2>1, <2>3, <2>4 DEF Apart, Receives
  <2> QED
    BY <1>1, <1>3, <2>1, <2>2, <2>5 DEF Dialogue, ListenerTells
<1> QED
  BY <1>1, <1>3, <1>4, ListenerGoesOn
-----------------------------------------------------------------------------
(* Commands, resets and lost bytes. *)

LEMMA AskTurns ==
  ASSUME LinkInv, TurnInv, NEW cmd \in {MESSAGE_RECEIVE, MESSAGE_INTERROGATE}, NEW slot \in Slots,
         Ask(cmd, slot)
  PROVE  TurnInv'
<1>1. /\ asker.pc = "idle" /\ asks' = asks + 1 /\ listens' = listens
      /\ listener' = listener /\ Exchange("asker", 0, Request(cmd))
      /\ clean' = (clean /\ PairedAsk)
  BY DEF Ask
<1>2. asker'.pc = "requested" /\ asker'.cmd = cmd /\ asker'.result = "none"
  BY DEF Ask, NoAsk
<1>3. Pending'
  BY <1>1, <1>2 DEF TurnInv, Pending
<1>4. asks \in Nat /\ listens \in Nat
  BY LinkFacts
<1>5. ASSUME clean, PairedAsk PROVE InTurn' /\ AskerTells' /\ ListenerTells'
  <2>1. /\ line["asker"] = <<>> /\ line["listener"] = <<>>
        /\ \/ listens = asks /\ listener.pc = "idle"
           \/ listens = asks + 1 /\ listener.pc = "request"
    BY <1>1, <1>4, <1>5 DEF PairedAsk, TurnInv, InTurn, Dialogue, At, Naming, Answering,
     Offering, Delivering, Matching, Informing, Apart
  <2>2. line'["asker"] = <<>> /\ line'["listener"] = Request(cmd)
    <3>1. Request(cmd) \in Seq(Byte(listens))
      BY <1>4, PlainBytes
    <3> QED
      BY <1>1, <2>1, <3>1, Sends
  <2>3. InTurn'
    <3>1. CASE listens = asks /\ listener.pc = "idle"
      BY <1>1, <1>2, <1>4, <2>2, <3>1 DEF InTurn, At
    <3>2. CASE listens = asks + 1 /\ listener.pc = "request"
      BY <1>1, <1>2, <1>4, <2>2, <3>2 DEF InTurn, Dialogue, At
    <3> QED
      BY <2>1, <3>1, <3>2
  <2>4. ListenerTells'
    <3>1. CASE listens = asks
      BY <1>1, <1>4, <3>1 DEF ListenerTells
    <3>2. CASE listener.pc = "request"
      BY <1>1, <3>2 DEF ListenerTells, TurnInv, Pending
    <3> QED
      BY <2>1, <3>1, <3>2
  <2> QED
    BY <1>2, <2>3, <2>4 DEF AskerTells
<1> QED
  BY <1>1, <1>3, <1>5 DEF TurnInv

LEMMA ListenTurns == ASSUME LinkInv, TurnInv, Listen PROVE TurnInv'
<1>1. /\ listener.pc = "idle" /\ listens' = listens + 1 /\ asks' = asks
      /\ line' = line /\ asker' = asker /\ stored' = stored
      /\ clean' = (clean /\ asks \in {listens, listens + 1})
  BY DEF Listen
<1>2. listener'.pc = "request" /\ listener'.session = listens + 1 /\ listener'.result = "none"
  BY DEF Listen, NoListen
<1>3. Pending'
  BY <1>1, <1>2 DEF TurnInv, Pending
<1>4. asks \in Nat /\ listens \in Nat
  BY LinkFacts
<1>5. ASSUME clean, asks \in {listens, listens + 1} PROVE InTurn' /\ AskerTells' /\ ListenerTells'
  <2>1. \/ asks = listens /\ Apart
        \/ asks = listens + 1 /\ At("requested", "idle", <<>>, Request(asker.cmd))
    BY <1>1, <1>4, <1>5 DEF TurnInv, InTurn, Dialogue, At, Naming, Answering,
     Offering, Delivering, Matching, Informing, Apart
  <2>2. ASSUME asks = listens, Apart PROVE InTurn'
    <3>1. Apart'
      BY <1>1, <2>2, SameDialogue DEF Apart, Fetched, Keyed, Receives
    <3> QED
      BY <1>1, <1>2, <2>2, <3>1 DEF InTurn
  <2>3. ASSUME asks = listens + 1, At("requested", "idle", <<>>, Request(asker.cmd)) PROVE InTurn'
    BY <1>1, <1>2, <2>3 DEF InTurn, Dialogue, At
  <2>4. AskerTells'
    BY <1>1, <1>5, SameDialogue DEF TurnInv, AskerTells, Receives, Interrogates
  <2> QED
    BY <1>2, <2>1, <2>2, <2>3, <2>4 DEF ListenerTells
<1> QED
  BY <1>1, <1>3, <1>5 DEF TurnInv

LEMMA ResetTurns == ASSUME LinkInv, TurnInv, ResetAsker \/ ResetListener PROVE TurnInv'
<1>1. asker \in AskerType(listens)
  BY LinkFacts
<1>2. clean' = FALSE
  BY DEF ResetAsker, ResetListener
<1>3. ~clean'
  BY <1>2
<1>4. CASE ResetAsker
  <2>1. Pending'
    BY <1>4 DEF ResetAsker, NoAsk, TurnInv, Pending
  <2> QED
    BY <1>3, <2>1 DEF TurnInv
<1>5. CASE ResetListener
  <2>1. Pending'
    BY <1>1, <1>5 DEF ResetListener, NoListen, TurnInv, Pending, AskerType
  <2> QED
    BY <1>3, <2>1 DEF TurnInv
<1> QED
  BY <1>4, <1>5

\* A device that computes is sent at most one header meanwhile.
LEMMA Fits ==
  ASSUME LinkInv, TurnInv, clean
  PROVE  \A d \in Devices : Deaf(d) => Len(line[d]) \in 0 .. 4
<1> TAKE d \in Devices
<1> HAVE Deaf(d)
<1>1. Len(ACK) = 4 /\ Len(Request(asker.cmd)) = 4 /\ Len(<<>>) = 0
  BY Headers DEF IsHeader
<1>2. d = "asker" => line["asker"] = <<>>
  BY DEF Deaf, TurnInv, InTurn, Dialogue, At, Naming, Answering,
     Offering, Delivering, Matching, Informing, Apart
<1>3. d = "listener" => line["listener"] \in {<<>>, ACK, Request(asker.cmd)}
  BY DEF Deaf, TurnInv, InTurn, Dialogue, At, Naming, Answering,
     Offering, Delivering, Matching, Informing, Apart
<1> QED
  BY <1>1, <1>2, <1>3 DEF Devices

LEMMA OverrunTurns ==
  ASSUME LinkInv, TurnInv, FIFO_DEPTH >= 4, NEW d \in Devices, Overrun(d)
  PROVE  TurnInv'
<1> DEFINE n == Len(line[d])
<1>1. Deaf(d) /\ n > FIFO_DEPTH /\ FIFO_DEPTH \in Nat
  BY LinkAssumption DEF Overrun
<1>2. clean => n \in 0 .. 4
  BY <1>1, Fits DEF Deaf
<1> HIDE DEF n
<1>3. ~clean
  BY <1>1, <1>2
<1> QED
  BY <1>3 DEF Overrun, TurnInv, Pending
-----------------------------------------------------------------------------
(* The invariant, and what follows. *)

LEMMA InitTurns == LinkInit => TurnInv
<1> SUFFICES ASSUME LinkInit PROVE TurnInv
  OBVIOUS
<1>1. /\ asks = 0 /\ listens = 0 /\ asker = NoAsk /\ listener = NoListen
      /\ line["asker"] = <<>> /\ line["listener"] = <<>>
  BY DEF LinkInit, Devices
<1>2. Apart /\ Pending
  BY <1>1 DEF Apart, Pending, NoAsk, NoListen
<1>3. AskerTells /\ ListenerTells
  BY <1>1 DEF AskerTells, ListenerTells, NoAsk, NoListen
<1> QED
  BY <1>1, <1>2, <1>3 DEF TurnInv, InTurn, Dialogue, NoListen

LEMMA NextTurns ==
  ASSUME FIFO_DEPTH >= 4
  PROVE  LinkInv /\ TurnInv /\ [LinkNext]_linkVars => TurnInv'
<1> SUFFICES ASSUME LinkInv, TurnInv, [LinkNext]_linkVars PROVE TurnInv'
  OBVIOUS
<1>1. ASSUME NEW cmd \in {MESSAGE_RECEIVE, MESSAGE_INTERROGATE}, NEW slot \in Slots, Ask(cmd, slot)
      PROVE  TurnInv'
  BY <1>1, AskTurns
<1>2. CASE Listen
  BY <1>2, ListenTurns
<1>3. CASE AskerStep
  BY <1>3, SendBodyTurns, AwaitBodyAckTurns, TakeAnswerTurns, TakeOfferTurns, DeriveKeyTurns,
     TakeDataTurns, StoreFileTurns, RejectFileTurns, TakeInfoTurns DEF AskerStep
<1>4. CASE ListenerStep
  BY <1>4, TakeRequestTurns, TakeSlotTurns, AnswerReceiveTurns, SendOfferTurns, EncryptFileTurns,
     SendFileTurns, TakeListTurns, AnswerInterrogateTurns, RejectListTurns, SendInfoTurns,
     FinishListenTurns DEF ListenerStep
<1>5. ASSUME NEW d \in Devices, Overrun(d) PROVE TurnInv'
  BY <1>5, OverrunTurns
<1>6. CASE ResetAsker \/ ResetListener
  BY <1>6, ResetTurns
<1>7. CASE UNCHANGED linkVars
  BY <1>7 DEF linkVars, TurnInv, Pending, InTurn, Dialogue, At, Naming, Answering, Offering,
     Delivering, Matching, Informing, Apart, AskerTells, ListenerTells, Keyed, Fetched, Receives,
     Interrogates, Offer, Data, Info, Answer
<1> QED
  BY <1>1, <1>2, <1>3, <1>4, <1>5, <1>6, <1>7 DEF LinkNext

\* The turns of the dialogue, with the FIFO of four entries the device has
\* (receive.c:59-182, interrogate.c:58-163, listen.c:30-247).
THEOREM TurnInvariant ==
  ASSUME FIFO_DEPTH >= 4
  PROVE  LinkSpec => []TurnInv
<1>1. LinkInit => TurnInv
  BY InitTurns
<1>2. LinkInv /\ TurnInv /\ [LinkNext]_linkVars => TurnInv'
  BY NextTurns
<1> QED
  BY <1>1, <1>2, LinkInvariant, PTL DEF LinkSpec

\* Undisturbed, both sides tell their hosts what happened: the file asked for is stored,
\* the answer shown is this listener's, a success is one for both, and only a file that
\* may not be transferred fails (receive.c:59-182, interrogate.c:58-163, listen.c:30-247).
THEOREM DialogueIsTruthful ==
  ASSUME FIFO_DEPTH >= 4
  PROVE  LinkSpec => []CleanDialogue
<1>1. TurnInv => CleanDialogue
  BY DEF TurnInv, CleanDialogue, AskerTells, ListenerTells, Receives, Interrogates, Data, Info
<1> QED
  BY <1>1, TurnInvariant, PTL

\* A dialogue both sides have ended leaves both lines empty, whichever way it ended
\* (header.c:69-82, receive.c:65-72, listen.c:175-184).
THEOREM LinesAreLeftEmpty ==
  ASSUME FIFO_DEPTH >= 4
  PROVE  LinkSpec => []NothingLeftBehind
<1>1. LinkInv /\ TurnInv => NothingLeftBehind
  <2> SUFFICES ASSUME LinkInv, TurnInv, clean, asker.pc = "idle", asks = listens, listener.pc = "idle",
                      NEW d \in Devices
               PROVE  line[d] = <<>>
    BY DEF NothingLeftBehind
  <2>1. asks # listens + 1 /\ listens # asks + 1
    BY LinkFacts
  <2>2. line["asker"] = <<>> /\ line["listener"] = <<>>
    BY <2>1 DEF TurnInv, InTurn, Dialogue, At, Naming, Answering,
     Offering, Delivering, Matching, Informing, Apart
  <2> QED
    BY <2>2 DEF Devices
<1> QED
  BY <1>1, LinkInvariant, TurnInvariant, PTL

\* Four entries are enough: while a device computes, the other sends it no more than one
\* header (receive.c:99-112, listen.c:146-175, 199-240).
THEOREM FourEntriesSuffice ==
  ASSUME FIFO_DEPTH >= 4
  PROVE  LinkSpec => []FifoSuffices
<1>1. LinkInv /\ TurnInv => FifoSuffices
  <2> SUFFICES ASSUME LinkInv, TurnInv, clean, NEW d \in Devices, Deaf(d)
               PROVE  Len(line[d]) <= FIFO_DEPTH
    BY DEF FifoSuffices
  <2> DEFINE n == Len(line[d])
  <2>1. n \in 0 .. 4
    BY Fits DEF Deaf
  <2> HIDE DEF n
  <2>2. n <= FIFO_DEPTH
    BY <2>1, LinkAssumption
  <2> QED
    BY <2>2 DEF n
<1> QED
  BY <1>1, LinkInvariant, TurnInvariant, PTL
-----------------------------------------------------------------------------
(* Nobody waits for ever. *)

\* Steps either program has left at most.
AskerLeft ==
  [requested |-> 7, sent |-> 6, answer |-> 5, offer |-> 4, deriving |-> 3, data |-> 2,
   verify |-> 1, info |-> 1, idle |-> 0][asker.pc]
ListenerLeft ==
  [request |-> 7, slot |-> 6, looking |-> 5, answered |-> 4, deriving |-> 3, encrypted |-> 2,
   list |-> 4, matching |-> 3, badList |-> 1, matched |-> 2, delivered |-> 1, idle |-> 0][listener.pc]

\* A step of either program brings both nearer to their ends.
StepsCountDown ==
  AskerStep \/ ListenerStep =>
    /\ AskerLeft + ListenerLeft \in 1 .. 14
    /\ AskerLeft' + ListenerLeft' < AskerLeft + ListenerLeft

\* A poll for a header returns once one has arrived.
LEMMA HeaderIsHeard ==
  ASSUME NEW S, NEW q \in Seq(S), NEW op, Len(q) >= 4, q[1] = Plain(MAGIC), q[2] = Plain(op)
  PROVE  Parses(q) # {}
<1>1. Values(q[1]) = {MAGIC} /\ Values(q[2]) = {op}
  BY DEF Values, Plain
<1>2. q # <<>>
  OBVIOUS
<1>3. [used |-> 4, op |-> op] \in Parses(q)
  BY <1>1, <1>2 DEF Parses
<1> QED
  BY <1>3

LEMMA HeadersAreHeard ==
  ASSUME LinkInv, NEW h \in Seq(Byte(listens)), NEW op, IsHeader(h, op)
  PROVE  /\ Parses(h) # {}
         /\ \A y \in Seq(Byte(listens)) : Parses(h \o y) # {}
<1>1. Parses(h) # {}
  BY HeaderIsHeard DEF IsHeader
<1>2. ASSUME NEW y \in Seq(Byte(listens)) PROVE Parses(h \o y) # {}
  <2> DEFINE q == h \o y
  <2>1. /\ q \in Seq(Byte(listens)) /\ Len(q) = Len(h) + Len(y)
        /\ \A i \in 1 .. Len(h) + Len(y) : q[i] = IF i <= Len(h) THEN h[i] ELSE y[i - Len(h)]
    BY ConcatProperties, Zenon
  <2>2. Len(h) = 4 /\ Len(y) \in Nat
    BY DEF IsHeader
  <2> HIDE DEF q
  <2>3. 1 \in 1 .. 4 + Len(y) /\ 2 \in 1 .. 4 + Len(y) /\ 4 + Len(y) >= 4
    BY <2>2
  <2>4. Len(q) >= 4 /\ q[1] = Plain(MAGIC) /\ q[2] = Plain(op)
    BY <2>1, <2>2, <2>3 DEF IsHeader
  <2>5. Parses(q) # {}
    BY <2>1, <2>4, HeaderIsHeard
  <2> QED
    BY <2>5 DEF q
<1> QED
  BY <1>1, <1>2

LEMMA TurnsNeverStick == LinkInv /\ TurnInv => NeverStuck
<1> SUFFICES ASSUME LinkInv, TurnInv, clean, asks = listens
             PROVE  \/ AskerReady \/ ListenerReady
                    \/ asker.pc = "idle" /\ listener.pc = "idle"
                    \/ /\ Receives
                       /\ \/ asker.pc = "offer" /\ listener.pc = "idle" /\ asker.slot \in Held \ Known
                          \/ asker.pc = "idle" /\ listener.pc = "encrypted" /\ asker.slot \notin Permitted
  BY DEF NeverStuck, Receives
<1>1. Dialogue
  <2>1. asks # listens + 1 /\ listens # asks + 1
    BY LinkFacts
  <2> QED
    BY <2>1 DEF TurnInv, InTurn
<1> DEFINE I == Header(MESSAGE_INTERROGATE)
<1>2. /\ Parses(ACK) # {} /\ Parses(Answer) # {} /\ Parses(Request(asker.cmd)) # {}
      /\ Parses(I) # {} /\ Parses(ACK \o Answer) # {} /\ Parses(ACK \o I) # {}
  <2>1. /\ ACK \in Seq(Byte(listens)) /\ Answer \in Seq(Byte(listens))
        /\ Request(asker.cmd) \in Seq(Byte(listens)) /\ I \in Seq(Byte(listens))
    BY Messages
  <2>2. /\ IsHeader(ACK, MESSAGE_ACK) /\ IsHeader(Request(asker.cmd), asker.cmd)
        /\ IsHeader(I, MESSAGE_INTERROGATE)
        /\ IsHeader(Answer, IF asker.slot \in Held THEN MESSAGE_RECEIVE ELSE MESSAGE_ERROR)
    BY Headers DEF Answer
  <2> HIDE DEF I
  <2> QED
    BY <2>1, <2>2, HeadersAreHeard, Zenon
<1> HIDE DEF I
<1>3. /\ <<Plain(asker.slot)>> # <<>> /\ Len(Payload("list", <<>>)) >= Size["list"]
      /\ Len(Offer) >= Size["offer"] /\ Len(Data) >= Size["data"] /\ Len(Info) >= Size["info"]
  BY Lengths, Sizes DEF Offer, Data, Info, Kinds
<1>4. CASE At("requested", "request", <<>>, Request(asker.cmd))
  BY <1>2, <1>4 DEF At, ListenerReady
<1>5. CASE Receives /\ Naming
  BY <1>2, <1>3, <1>5 DEF Naming, At, AskerReady, ListenerReady
<1>6. CASE Receives /\ Answering
  BY <1>2, <1>6 DEF Answering, At, AskerReady, ListenerReady
<1>7. CASE Receives /\ Offering
  BY <1>2, <1>3, <1>7 DEF Offering, At, AskerReady, ListenerReady
<1>8. CASE Receives /\ Delivering
  BY <1>2, <1>3, <1>8 DEF Delivering, At, AskerReady, ListenerReady
<1>9. CASE Interrogates /\ Matching
  BY <1>2, <1>3, <1>9 DEF Matching, At, AskerReady, ListenerReady
<1>10. CASE Interrogates /\ Informing
  BY <1>2, <1>3, <1>10 DEF Informing, At, AskerReady, ListenerReady, I
<1>11. CASE listener.pc = "idle" /\ Apart
  BY <1>11 DEF Apart, AskerReady
<1> QED
  BY <1>1, <1>4, <1>5, <1>6, <1>7, <1>8, <1>9, <1>10, <1>11 DEF Dialogue

LEMMA NextCountsDown == LinkInv /\ [LinkNext]_linkVars => StepsCountDown
<1> SUFFICES ASSUME LinkInv, AskerStep \/ ListenerStep
             PROVE  /\ AskerLeft + ListenerLeft \in 1 .. 14
                    /\ AskerLeft' + ListenerLeft' < AskerLeft + ListenerLeft
  BY DEF StepsCountDown
<1>1. /\ asker.pc \in AskerPcs /\ listener.pc \in ListenerPcs
      /\ DOMAIN asker = {"pc", "cmd", "slot", "key", "image", "result", "met"}
      /\ asker = [a \in DOMAIN asker |-> asker[a]]
      /\ DOMAIN listener = {"pc", "session", "since", "slot", "result"}
      /\ listener = [a \in DOMAIN listener |-> listener[a]]
  BY LinkFacts DEF AskerType, ListenerType
<1>2. AskerLeft \in 0 .. 7 /\ ListenerLeft \in 0 .. 7
  BY <1>1 DEF AskerLeft, ListenerLeft, AskerPcs, ListenerPcs
<1>0. \A a, b, c \in 0 .. 7 :
        c < a => a + b \in 1 .. 14 /\ b + a \in 1 .. 14 /\ c + b < a + b /\ b + c < b + a
  OBVIOUS
<1>3. CASE AskerStep
  <2>1. listener' = listener
    BY <1>3 DEF AskerStep, SendBody, AwaitBodyAck, TakeAnswer, TakeOffer, DeriveKey, TakeData,
       StoreFile, RejectFile, TakeInfo
  <2>2. ListenerLeft' = ListenerLeft
    BY <2>1 DEF ListenerLeft
  <2>3. \/ asker.pc = "requested" /\ asker'.pc = "sent"
        \/ asker.pc = "sent" /\ asker'.pc = "answer"
        \/ asker.pc = "answer" /\ asker'.pc \in {"idle", "offer", "info"}
        \/ asker.pc = "offer" /\ asker'.pc \in {"idle", "deriving"}
        \/ asker.pc = "deriving" /\ asker'.pc = "data"
        \/ asker.pc = "data" /\ asker'.pc = "verify"
        \/ asker.pc \in {"verify", "info"} /\ asker'.pc = "idle"
    BY <1>1, <1>3 DEF AskerStep, SendBody, AwaitBodyAck, TakeAnswer, TakeOffer, DeriveKey, TakeData,
       StoreFile, RejectFile, TakeInfo, AskerIs, AskerEnds
  <2>4. AskerLeft' < AskerLeft
    BY <2>3 DEF AskerLeft
  <2>5. AskerLeft' \in 0 .. 7
    BY <2>3 DEF AskerLeft
  <2> QED
    BY <1>0, <1>2, <2>2, <2>4, <2>5, Zenon
<1>4. CASE ListenerStep
  <2>1. asker' = asker
    BY <1>4 DEF ListenerStep, TakeRequest, TakeSlot, AnswerReceive, SendOffer, EncryptFile,
       SendFile, TakeList, AnswerInterrogate, RejectList, SendInfo, FinishListen
  <2>2. AskerLeft' = AskerLeft
    BY <2>1 DEF AskerLeft
  <2>3. \/ listener.pc = "request" /\ listener'.pc \in {"idle", "slot", "list"}
        \/ listener.pc = "slot" /\ listener'.pc = "looking"
        \/ listener.pc = "looking" /\ listener'.pc = "answered"
        \/ listener.pc = "answered" /\ listener'.pc \in {"idle", "deriving"}
        \/ listener.pc = "deriving" /\ listener'.pc = "encrypted"
        \/ listener.pc = "encrypted" /\ listener'.pc = "delivered"
        \/ listener.pc = "list" /\ listener'.pc \in {"matching", "badList"}
        \/ listener.pc = "matching" /\ listener'.pc = "matched"
        \/ listener.pc = "matched" /\ listener'.pc = "delivered"
        \/ listener.pc \in {"badList", "delivered"} /\ listener'.pc = "idle"
    BY <1>1, <1>4 DEF ListenerStep, TakeRequest, TakeSlot, AnswerReceive, SendOffer, EncryptFile,
       SendFile, TakeList, AnswerInterrogate, RejectList, SendInfo, FinishListen, ListenerIs, ListenerEnds
  <2>4. ListenerLeft' < ListenerLeft /\ ListenerLeft' \in 0 .. 7
    BY <2>3 DEF ListenerLeft
  <2> QED
    BY <1>0, <1>2, <2>2, <2>4, Zenon
<1> QED
  BY <1>3, <1>4

(* What can be said of the end of a dialogue without fairness: undisturbed, *)
(* one of the two can always go on, unless both have ended or one gave up   *)
(* silently, and they go on at most 14 times (receive.c:59-182,             *)
(* interrogate.c:58-163, listen.c:30-247).                                  *)
THEOREM NobodyWaitsForEver ==
  ASSUME FIFO_DEPTH >= 4
  PROVE  LinkSpec => []NeverStuck /\ [][StepsCountDown]_linkVars
<1>1. LinkInv /\ TurnInv => NeverStuck
  BY TurnsNeverStick
<1>2. LinkInv /\ [LinkNext]_linkVars => StepsCountDown
  BY NextCountsDown
<1> QED
  BY <1>1, <1>2, LinkInvariant, TurnInvariant, PTL DEF LinkSpec
=============================================================================
