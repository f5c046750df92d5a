---------------------------- MODULE HsmLinkProofs ----------------------------
(***************************************************************************)
(* What receive stores, for any sizes, slots and groups and any number of  *)
(* dialogues, resets and lost bytes.  Two ideas carry the proof: every     *)
(* encrypted byte anywhere came from a listen command that admitted its    *)
(* slot (Byte), and the first byte of the file one listen command sends is *)
(* in at most one place: on the line, in the image receive verifies, or in *)
(* flash (FoundOnce).                                                      *)
(***************************************************************************)
EXTENDS HsmLink, SequenceTheorems, TLAPS

AskerPcs ==
  {"idle", "requested", "sent", "answer", "offer", "deriving", "data", "verify", "info"}
ListenerPcs ==
  {"idle", "request", "slot", "looking", "answered", "deriving", "encrypted", "list",
   "matching", "badList", "matched", "delivered"}

\* What can be on a line once `l` listen commands were given.
Labelled(k, labels) == {[val |-> i, of |-> label] : i \in 1 .. Size[k], label \in labels}
Sent(k, l) == {<<k, s, n>> : s \in 1 .. l, n \in Held \cap Known}
Byte(l) ==
  {Plain(v) : v \in 0 .. 255}
  \cup Labelled("list", {<<"list">>}) \cup Labelled("info", {<<"info", s>> : s \in 1 .. l})
  \cup Labelled("offer", Sent("offer", l)) \cup Labelled("data", Sent("data", l))

\* The first byte of a file, and the listen command that sent it.
IsHead(b) == b.val = 1 /\ b.of # <<>> /\ b.of[1] = "data"
SessionOf(b) == b.of[2]
Sessions(q) == {SessionOf(q[i]) : i \in {i \in 1 .. Len(q) : IsHead(q[i])}}
Once(q) ==
  \A i, j \in 1 .. Len(q) :
    IsHead(q[i]) /\ IsHead(q[j]) /\ SessionOf(q[i]) = SessionOf(q[j]) => i = j

\* Where they may be.
OnLine == Sessions(line["asker"])
InImage == IF asker.pc = "verify" THEN Sessions(asker.image) ELSE {}
InFlash == {SessionOf(stored[i].image[1]) : i \in 1 .. Len(stored)}
SentSessions ==
  {s \in 1 .. listens : listener.pc \in {"idle", "delivered"} \/ s # listener.session}

Images(l) == {Payload("data", <<s, n>>) : s \in 1 .. l, n \in Transferable}

AskerType(l) ==
  [pc : AskerPcs, cmd : {MESSAGE_RECEIVE, MESSAGE_INTERROGATE}, slot : Slots, key : Seq(Byte(l)),
   image : Seq(Byte(l)), result : {"none", "ok", "error"}, met : BOOLEAN]
ListenerType(l) ==
  [pc : ListenerPcs, session : 0 .. l, since : Nat, slot : Slots \cup {NoSlot},
   result : {"none", "ok", "error"}]
Files(l) == [asked : Slots, image : Images(l)]

LinkTypes ==
  /\ asks \in Nat /\ listens \in Nat /\ resets \in Nat /\ asks + listens + resets <= MaxEvents
  /\ line \in [Devices -> Seq(Byte(listens))]
  /\ asker \in AskerType(listens) /\ listener \in ListenerType(listens)
  /\ stored \in Seq(Files(listens))
  /\ Len(stored) + (IF asker.pc = "idle" THEN 0 ELSE 1) <= asks

\* The listener sends only files whose size and group it admits.
Admits ==
  /\ listener.pc # "idle" => listener.session # 0
  /\ listener.pc \in {"deriving", "encrypted"} => listener.slot \in Held \cap Known

\* The asker goes on with a key only if it may transfer the group.
MayTransfer ==
  asker.pc \in {"deriving", "data", "verify"} /\ Whole("offer", asker.key) =>
    asker.key[1].of[3] \in Permitted

FoundOnce ==
  /\ OnLine \cup InImage \cup InFlash \subseteq SentSessions
  /\ OnLine \cap InImage = {} /\ OnLine \cap InFlash = {} /\ InImage \cap InFlash = {}
  /\ Once(line["asker"])
  /\ \A i, j \in 1 .. Len(stored) :
       SessionOf(stored[i].image[1]) = SessionOf(stored[j].image[1]) => i = j

LinkInv == LinkTypes /\ Admits /\ MayTransfer /\ FoundOnce
-----------------------------------------------------------------------------
(* Bytes and what they belong to. *)

LEMMA Prefixed ==
  ASSUME NEW k, NEW S, NEW t \in Seq(S), NEW r \in Seq(S), k \in S, Len(r) = 1 + Len(t), r[1] = k,
         \A i \in 1 .. Len(t) : r[i + 1] = t[i]
  PROVE  <<k>> \o t = r
<1> DEFINE p == <<k>>
<1>1. p \in Seq(S) /\ Len(p) = 1 /\ p[1] = k
  OBVIOUS
<1> HIDE DEF p
<1>2. /\ p \o t \in Seq(S) /\ Len(p \o t) = Len(p) + Len(t)
      /\ \A i \in 1 .. Len(p) + Len(t) : (p \o t)[i] = IF i <= Len(p) THEN p[i] ELSE t[i - Len(p)]
  BY <1>1, ConcatProperties, Zenon
<1>3. ASSUME NEW i \in 1 .. Len(r) PROVE (p \o t)[i] = r[i]
  <2>1. Len(t) \in Nat /\ i \in 1 .. Len(p) + Len(t)
    BY <1>1
  <2>2. CASE i = 1
    BY <1>1, <1>2, <2>1, <2>2
  <2>3. CASE i # 1
    <3>1. i - 1 \in 1 .. Len(t) /\ (i - 1) + 1 = i
      BY <2>1, <2>3
    <3>2. ~(i <= 1) /\ Len(p) = 1
      BY <1>1, <2>1, <2>3
    <3>3. (p \o t)[i] = t[i - 1]
      BY <1>2, <2>1, <3>2
    <3>4. r[(i - 1) + 1] = t[i - 1]
      BY <3>1
    <3> QED
      BY <3>1, <3>3, <3>4
  <2> QED
    BY <2>2, <2>3
<1>4. p \o t = r
  BY <1>1, <1>2, <1>3, SeqEqual
<1> QED
  BY <1>4 DEF p

LEMMA Labels ==
  ASSUME NEW k, NEW s, NEW n
  PROVE  <<k>> \o <<s, n>> = <<k, s, n>> /\ <<k>> \o <<s>> = <<k, s>> /\ <<k>> \o <<>> = <<k>>
<1> DEFINE S == {k, s, n}
<1>1. <<k>> \o <<s, n>> = <<k, s, n>>
  <2> DEFINE t == <<s, n>>  r == <<k, s, n>>
  <2>1. /\ t \in Seq(S) /\ r \in Seq(S) /\ k \in S /\ Len(r) = 3 /\ Len(t) = 2
        /\ r[1] = k /\ r[2] = s /\ r[3] = n /\ t[1] = s /\ t[2] = n
    OBVIOUS
  <2> HIDE DEF S, t, r
  <2>2. Len(r) = 1 + Len(t) /\ \A i \in 1 .. Len(t) : r[i + 1] = t[i]
    BY <2>1
  <2>3. <<k>> \o t = r
    BY <2>1, <2>2, Prefixed, Zenon
  <2> QED
    BY <2>3 DEF t, r
<1>2. <<k>> \o <<s>> = <<k, s>>
  <2> DEFINE t == <<s>>  r == <<k, s>>
  <2>1. /\ t \in Seq(S) /\ r \in Seq(S) /\ k \in S /\ Len(r) = 2 /\ Len(t) = 1
        /\ r[1] = k /\ r[2] = s /\ t[1] = s
    OBVIOUS
  <2> HIDE DEF S, t, r
  <2>2. Len(r) = 1 + Len(t) /\ \A i \in 1 .. Len(t) : r[i + 1] = t[i]
    BY <2>1
  <2>3. <<k>> \o t = r
    BY <2>1, <2>2, Prefixed, Zenon
  <2> QED
    BY <2>3 DEF t, r
<1>3. <<k>> \o <<>> = <<k>>
  OBVIOUS
<1> QED
  BY <1>1, <1>2, <1>3

LEMMA LabelsDiffer ==
  ASSUME NEW k, NEW s, NEW n, NEW j, NEW t
  PROVE  <<k, s, n>> # <<>> /\ <<k, s, n>> # <<j>> /\ <<k, s, n>> # <<j, t>>
<1>1. Len(<<k, s, n>>) = 3 /\ Len(<<>>) = 0 /\ Len(<<j>>) = 1 /\ Len(<<j, t>>) = 2
  OBVIOUS
<1> QED
  BY <1>1

LEMMA Sizes == \A k \in Kinds : Size[k] \in Nat \ {0}
BY LinkAssumption

\* A payload's bytes, by number.
LEMMA PayloadBytes ==
  ASSUME NEW k \in Kinds, NEW what
  PROVE  /\ Len(Payload(k, what)) = Size[k] /\ Size[k] \in Nat \ {0}
         /\ \A i \in 1 .. Size[k] :
              Payload(k, what)[i].val = i /\ Payload(k, what)[i].of = <<k>> \o what
<1> DEFINE n == Size[k]  label == <<k>> \o what  q == [i \in 1 .. n |-> [val |-> i, of |-> label]]
<1>1. n \in Nat \ {0}
  BY Sizes
<1>2. Payload(k, what) = q
  BY DEF Payload
<1> HIDE DEF n, label
<1>3. DOMAIN q = 1 .. n /\ \A i \in 1 .. n : q[i].val = i /\ q[i].of = label
  OBVIOUS
<1>4. Len(q) = n
  BY <1>1
<1> QED
  BY <1>1, <1>2, <1>3, <1>4 DEF n, label

LEMMA PayloadSeq ==
  ASSUME NEW k \in Kinds, NEW what, NEW S, \A i \in 1 .. Size[k] : [val |-> i, of |-> <<k>> \o what] \in S
  PROVE  Payload(k, what) \in Seq(S)
<1> DEFINE n == Size[k]  label == <<k>> \o what
<1>1. n \in Nat
  BY Sizes
<1>2. Payload(k, what) = [i \in 1 .. n |-> [val |-> i, of |-> label]]
  BY DEF Payload
<1> HIDE DEF n, label
<1>3. \A i \in 1 .. n : [val |-> i, of |-> label] \in S
  BY DEF n, label
<1>4. [i \in 1 .. n |-> [val |-> i, of |-> label]] \in Seq(S)
  BY <1>1, <1>3
<1> QED
  BY <1>2, <1>4

NoHead(q) == \A i \in 1 .. Len(q) : ~IsHead(q[i])

LEMMA NoHeads ==
  ASSUME NEW q, NoHead(q) PROVE Sessions(q) = {} /\ Once(q)
BY DEF NoHead, Sessions, Once

LEMMA PlainBytes ==
  ASSUME NEW l \in Nat
  PROVE  /\ \A v \in 0 .. 255 : Plain(v) \in Byte(l) /\ ~IsHead(Plain(v))
         /\ \A op \in 0 .. 255 : Header(op) \in Seq(Byte(l)) /\ NoHead(Header(op))
         /\ ACK \in Seq(Byte(l)) /\ NoHead(ACK)
         /\ \A cmd \in {MESSAGE_RECEIVE, MESSAGE_INTERROGATE} : Request(cmd) \in Seq(Byte(l))
         /\ \A v \in 0 .. 255 : <<Plain(v)>> \in Seq(Byte(l))
<1>1. \A v \in 0 .. 255 : Plain(v) \in Byte(l) /\ ~IsHead(Plain(v))
  <2>1. \A v \in 0 .. 255 : Plain(v) \in Byte(l)
    BY DEF Byte
  <2>2. \A v \in 0 .. 255 : ~IsHead(Plain(v))
    BY DEF IsHead, Plain
  <2> QED
    BY <2>1, <2>2
<1>2. ASSUME NEW a \in 0 .. 255, NEW b \in 0 .. 255
      PROVE  LET h == <<Plain(MAGIC), Plain(a), Plain(b), Plain(0)>>
             IN  h \in Seq(Byte(l)) /\ NoHead(h)
  <2> DEFINE h == <<Plain(MAGIC), Plain(a), Plain(b), Plain(0)>>
  <2>1. MAGIC \in 0 .. 255
    BY DEF MAGIC
  <2>2. h \in Seq(Byte(l)) /\ Len(h) = 4
    BY <1>1, <2>1
  <2>3. \A i \in 1 .. 4 : ~IsHead(h[i])
    <3>1. ~IsHead(h[1]) /\ ~IsHead(h[2]) /\ ~IsHead(h[3]) /\ ~IsHead(h[4])
      BY <1>1, <2>1
    <3>2. 1 .. 4 = {1, 2, 3, 4}
      OBVIOUS
    <3> QED
      BY <3>1, <3>2
  <2> QED
    BY <2>2, <2>3 DEF NoHead
<1>3. ASSUME NEW op \in 0 .. 255 PROVE Header(op) \in Seq(Byte(l)) /\ NoHead(Header(op))
  <2>1. Header(op) = <<Plain(MAGIC), Plain(op), Plain(0), Plain(0)>> /\ 0 \in 0 .. 255
    BY DEF Header
  <2> QED
    BY <1>2, <2>1
<1>4. ACK \in Seq(Byte(l)) /\ NoHead(ACK)
  BY <1>3 DEF ACK, MESSAGE_ACK
<1>5. ASSUME NEW cmd \in {MESSAGE_RECEIVE, MESSAGE_INTERROGATE} PROVE Request(cmd) \in Seq(Byte(l))
  <2>1. cmd \in 0 .. 255 /\ LIST_LENGTH \in 0 .. 255
    BY DEF MESSAGE_RECEIVE, MESSAGE_INTERROGATE, LIST_LENGTH
  <2>2. PICK v \in 0 .. 255 : Request(cmd) = <<Plain(MAGIC), Plain(cmd), Plain(v), Plain(0)>>
    BY <2>1 DEF Request, Header
  <2> QED
    BY <1>2, <2>1, <2>2
<1>6. \A v \in 0 .. 255 : <<Plain(v)>> \in Seq(Byte(l))
  BY <1>1
<1> QED
  BY <1>1, <1>3, <1>4, <1>5, <1>6

LEMMA LabelledHas ==
  ASSUME NEW k, NEW labels, NEW label \in labels
  PROVE  \A i \in 1 .. Size[k] : [val |-> i, of |-> label] \in Labelled(k, labels)
BY DEF Labelled

LEMMA Unheaded ==
  ASSUME NEW k \in Kinds, NEW what, (<<k>> \o what)[1] # "data"
  PROVE  NoHead(Payload(k, what))
<1> DEFINE label == <<k>> \o what
<1> HIDE DEF label
<1>1. /\ Len(Payload(k, what)) = Size[k] /\ label[1] # "data"
      /\ \A i \in 1 .. Size[k] : Payload(k, what)[i].of = label
  BY PayloadBytes DEF label
<1> QED
  BY <1>1 DEF NoHead, IsHead

LEMMA PayloadTypes ==
  ASSUME NEW l \in Nat
  PROVE  /\ Payload("list", <<>>) \in Seq(Byte(l)) /\ NoHead(Payload("list", <<>>))
         /\ \A s \in 1 .. l :
              Payload("info", <<s>>) \in Seq(Byte(l)) /\ NoHead(Payload("info", <<s>>))
         /\ \A s \in 1 .. l, n \in Held \cap Known :
              /\ Payload("offer", <<s, n>>) \in Seq(Byte(l)) /\ NoHead(Payload("offer", <<s, n>>))
              /\ Payload("data", <<s, n>>) \in Seq(Byte(l))
<1> DEFINE B == Byte(l)
<1>1. "list" \in Kinds /\ "info" \in Kinds /\ "offer" \in Kinds /\ "data" \in Kinds
  BY DEF Kinds
<1>2. /\ \A i \in 1 .. Size["list"] : [val |-> i, of |-> <<"list">>] \in B
      /\ \A s \in 1 .. l : \A i \in 1 .. Size["info"] : [val |-> i, of |-> <<"info", s>>] \in B
  <2>1. /\ Labelled("list", {<<"list">>}) \subseteq B
        /\ Labelled("info", {<<"info", s>> : s \in 1 .. l}) \subseteq B
    BY DEF Byte
  <2>2. \A i \in 1 .. Size["list"] : [val |-> i, of |-> <<"list">>] \in B
    BY <2>1, LabelledHas, Zenon
  <2>3. \A s \in 1 .. l : \A i \in 1 .. Size["info"] : [val |-> i, of |-> <<"info", s>>] \in B
    BY <2>1, LabelledHas, Zenon
  <2> QED
    BY <2>2, <2>3
<1>3. \A k \in {"offer", "data"} : \A s \in 1 .. l, n \in Held \cap Known :
        \A i \in 1 .. Size[k] : [val |-> i, of |-> <<k, s, n>>] \in B
  <2>1. \A k \in {"offer", "data"} : Labelled(k, Sent(k, l)) \subseteq B
    BY DEF Byte
  <2>2. \A k : \A s \in 1 .. l, n \in Held \cap Known : <<k, s, n>> \in Sent(k, l)
    BY DEF Sent
  <2> QED
    BY <2>1, <2>2, LabelledHas, Zenon
<1> HIDE DEF B
<1>4. Payload("list", <<>>) \in Seq(B) /\ NoHead(Payload("list", <<>>))
  <2>1. <<"list">> \o <<>> = <<"list">>
    BY Labels
  <2>2. \A i \in 1 .. Size["list"] : [val |-> i, of |-> <<"list">> \o <<>>] \in B
    BY <1>2, <2>1
  <2>3. (<<"list">> \o <<>>)[1] # "data"
    BY <2>1
  <2> QED
    BY <1>1, <2>2, <2>3, PayloadSeq, Unheaded
<1>5. ASSUME NEW s \in 1 .. l
      PROVE  Payload("info", <<s>>) \in Seq(B) /\ NoHead(Payload("info", <<s>>))
  <2>1. <<"info">> \o <<s>> = <<"info", s>>
    BY Labels
  <2>2. \A i \in 1 .. Size["info"] : [val |-> i, of |-> <<"info">> \o <<s>>] \in B
    BY <1>2, <2>1
  <2>3. (<<"info">> \o <<s>>)[1] # "data"
    BY <2>1
  <2> QED
    BY <1>1, <2>2, <2>3, PayloadSeq, Unheaded
<1>6. ASSUME NEW s \in 1 .. l, NEW n \in Held \cap Known
      PROVE  Payload("offer", <<s, n>>) \in Seq(B) /\ NoHead(Payload("offer", <<s, n>>))
  <2>1. <<"offer">> \o <<s, n>> = <<"offer", s, n>>
    BY Labels
  <2>2. \A i \in 1 .. Size["offer"] : [val |-> i, of |-> <<"offer">> \o <<s, n>>] \in B
    BY <1>3, <2>1
  <2>3. (<<"offer">> \o <<s, n>>)[1] # "data"
    BY <2>1
  <2> QED
    BY <1>1, <2>2, <2>3, PayloadSeq, Unheaded
<1>7. ASSUME NEW s \in 1 .. l, NEW n \in Held \cap Known
      PROVE  Payload("data", <<s, n>>) \in Seq(B)
  <2>1. <<"data">> \o <<s, n>> = <<"data", s, n>>
    BY Labels
  <2>2. \A i \in 1 .. Size["data"] : [val |-> i, of |-> <<"data">> \o <<s, n>>] \in B
    BY <1>3, <2>1
  <2> QED
    BY <1>1, <2>2, PayloadSeq
<1> QED
  BY <1>4, <1>5, <1>6, <1>7 DEF B

\* One file, one first byte.
LEMMA DataHeads ==
  ASSUME NEW s, NEW n
  PROVE  LET q == Payload("data", <<s, n>>)
         IN  Sessions(q) = {s} /\ Once(q) /\ IsHead(q[1]) /\ SessionOf(q[1]) = s
<1> DEFINE q == Payload("data", <<s, n>>)  label == <<"data", s, n>>  m == Size["data"]
<1>1. label[1] = "data" /\ label[2] = s /\ label # <<>>
  BY LabelsDiffer
<1>2. "data" \in Kinds
  BY DEF Kinds
<1>3. <<"data">> \o <<s, n>> = label
  BY Labels
<1> HIDE DEF label
<1>4. Len(q) = m /\ m \in Nat \ {0} /\ \A i \in 1 .. m : q[i].val = i /\ q[i].of = label
  <2>1. Len(q) = m /\ m \in Nat \ {0} /\ \A i \in 1 .. m : q[i].of = label
    BY <1>2, <1>3, PayloadBytes
  <2>2. \A i \in 1 .. m : q[i].val = i
    <3> DEFINE what == <<"data">> \o <<s, n>>
    <3>1. q = [i \in 1 .. m |-> [val |-> i, of |-> what]]
      BY DEF Payload
    <3> HIDE DEF what, m, q
    <3> QED
      BY <3>1
  <2> QED
    BY <2>1, <2>2
<1> HIDE DEF q, m
<1>5. \A i \in 1 .. m : (IsHead(q[i]) <=> i = 1) /\ SessionOf(q[i]) = s
  BY <1>1, <1>4 DEF IsHead, SessionOf
<1>6. 1 \in 1 .. m
  BY <1>4
<1>7. Sessions(q) = {s} /\ Once(q) /\ IsHead(q[1]) /\ SessionOf(q[1]) = s
  BY <1>4, <1>5, <1>6 DEF Sessions, Once
<1> QED
  BY <1>7 DEF q

\* What the bytes of a whole offer say.
LEMMA OfferBytes ==
  ASSUME NEW s, NEW n, NEW l, Payload("offer", <<s, n>>) \in Seq(Byte(l))
  PROVE  LET b == Payload("offer", <<s, n>>)[1]
         IN  b.of[2] = s /\ b.of[3] = n /\ s \in 1 .. l /\ n \in Held \cap Known
<1> DEFINE q == Payload("offer", <<s, n>>)  b == q[1]  label == <<"offer", s, n>>
<1>1. <<"offer">> \o <<s, n>> = label
  BY Labels
<1> HIDE DEF label
<1>2. "offer" \in Kinds
  BY DEF Kinds
<1>3. /\ Len(q) = Size["offer"] /\ Size["offer"] \in Nat \ {0}
      /\ \A i \in 1 .. Size["offer"] : q[i].of = label
  BY <1>1, <1>2, PayloadBytes
<1> HIDE DEF q
<1>4. b.of = <<"offer", s, n>> /\ b \in Byte(l)
  <2>1. 1 \in 1 .. Size["offer"]
    BY <1>3
  <2>2. b.of = label
    BY <1>3, <2>1
  <2>3. b \in Byte(l)
    BY <1>3, <2>1 DEF q
  <2> QED
    BY <2>2, <2>3 DEF label
<1> HIDE DEF b
<1>5. \/ b.of = <<>> \/ b.of = <<"list">> \/ (\E t \in 1 .. l : b.of = <<"info", t>>)
      \/ \E k \in {"offer", "data"}, t \in 1 .. l, m \in Held \cap Known : b.of = <<k, t, m>>
  <2>1. CASE b \in {Plain(v) : v \in 0 .. 255}
    BY <2>1 DEF Plain
  <2>2. ASSUME NEW k, NEW labels, b \in Labelled(k, labels) PROVE b.of \in labels
    BY <2>2 DEF Labelled
  <2>3. CASE b \in Labelled("list", {<<"list">>})
    <3>1. b.of \in {<<"list">>}
      BY <2>2, <2>3, Zenon
    <3> QED
      BY <3>1
  <2>4. CASE b \in Labelled("info", {<<"info", t>> : t \in 1 .. l})
    <3>1. b.of \in {<<"info", t>> : t \in 1 .. l}
      BY <2>2, <2>4, Zenon
    <3> QED
      BY <3>1
  <2>5. ASSUME NEW k \in {"offer", "data"}, b \in Labelled(k, Sent(k, l))
        PROVE  \E t \in 1 .. l, m \in Held \cap Known : b.of = <<k, t, m>>
    <3>1. b.of \in Sent(k, l)
      BY <2>2, <2>5, Zenon
    <3> QED
      BY <3>1 DEF Sent
  <2> QED
    BY <1>4, <2>1, <2>3, <2>4, <2>5, Zenon DEF Byte
<1>6. PICK k \in {"offer", "data"}, t \in 1 .. l, m \in Held \cap Known : b.of = <<k, t, m>>
  BY <1>4, <1>5, LabelsDiffer, Zenon
<1>7. s = t /\ n = m /\ b.of[2] = s /\ b.of[3] = n
  <2>1. <<"offer", s, n>> = <<k, t, m>>
    BY <1>4, <1>6
  <2>2. <<"offer", s, n>>[2] = s /\ <<k, t, m>>[2] = t /\ <<"offer", s, n>>[3] = n /\ <<k, t, m>>[3] = m
    OBVIOUS
  <2> QED
    BY <1>4, <2>1, <2>2, Zenon
<1> QED
  BY <1>6, <1>7 DEF b, q

LEMMA MoreListens ==
  ASSUME NEW l \in Nat
  PROVE  /\ Byte(l) \subseteq Byte(l + 1) /\ Images(l) \subseteq Images(l + 1)
         /\ Seq(Byte(l)) \subseteq Seq(Byte(l + 1))
<1>1. 1 .. l \subseteq 1 .. l + 1
  OBVIOUS
<1>2. Byte(l) \subseteq Byte(l + 1)
  <2>1. \A k, S, T : S \subseteq T => Labelled(k, S) \subseteq Labelled(k, T)
    BY DEF Labelled
  <2>2. \A k : Sent(k, l) \subseteq Sent(k, l + 1)
    BY <1>1 DEF Sent
  <2>3. {<<"info", s>> : s \in 1 .. l} \subseteq {<<"info", s>> : s \in 1 .. l + 1}
    BY <1>1
  <2> QED
    BY <2>1, <2>2, <2>3 DEF Byte
<1>3. Images(l) \subseteq Images(l + 1)
  BY <1>1 DEF Images
<1> QED
  BY <1>2, <1>3
-----------------------------------------------------------------------------
(* Lines: parts of one, and two joined. *)

LEMMA Pieces ==
  ASSUME NEW S, NEW q \in Seq(S), NEW n \in 0 .. Len(q), NEW m \in n .. Len(q)
  PROVE  /\ SubSeq(q, 1, n) \in Seq(S) /\ SubSeq(q, m + 1, Len(q)) \in Seq(S)
         /\ Sessions(SubSeq(q, 1, n)) \subseteq Sessions(q)
         /\ Sessions(SubSeq(q, m + 1, Len(q))) \subseteq Sessions(q)
         /\ Once(q) => /\ Once(SubSeq(q, 1, n)) /\ Once(SubSeq(q, m + 1, Len(q)))
                       /\ Sessions(SubSeq(q, 1, n)) \cap Sessions(SubSeq(q, m + 1, Len(q))) = {}
<1> DEFINE N == Len(q)  first == SubSeq(q, 1, n)  rest == SubSeq(q, m + 1, Len(q))
<1>1. N \in Nat /\ n \in Nat /\ m \in Nat /\ n <= m /\ m <= N /\ \A i \in 1 .. N : q[i] \in S
  OBVIOUS
<1>2. first \in Seq(S) /\ Len(first) = n /\ \A i \in 1 .. n : first[i] = q[i]
  <2>1. \A i \in 1 .. n : q[i] \in S
    BY <1>1
  <2>2. /\ first \in Seq(S) /\ Len(first) = IF 1 <= n THEN n - 1 + 1 ELSE 0
        /\ \A i \in 1 .. n - 1 + 1 : first[i] = q[1 + i - 1]
    BY <1>1, <2>1, SubSeqProperties
  <2> HIDE DEF first
  <2>3. \A i \in 1 .. n : 1 + i - 1 = i /\ i \in 1 .. n - 1 + 1
    BY <1>1
  <2> QED
    BY <1>1, <2>2, <2>3
<1>3. rest \in Seq(S) /\ Len(rest) = N - m /\ \A i \in 1 .. N - m : rest[i] = q[i + m]
  <2>1. \A i \in m + 1 .. N : q[i] \in S
    BY <1>1
  <2>2. /\ rest \in Seq(S) /\ Len(rest) = IF m + 1 <= N THEN N - (m + 1) + 1 ELSE 0
        /\ \A i \in 1 .. N - (m + 1) + 1 : rest[i] = q[m + 1 + i - 1]
    BY <1>1, <2>1, SubSeqProperties
  <2> HIDE DEF rest, N
  <2>3. \A i \in 1 .. N - m : m + 1 + i - 1 = i + m /\ i \in 1 .. N - (m + 1) + 1
    BY <1>1
  <2> QED
    BY <1>1, <2>2, <2>3
<1> HIDE DEF first, rest, N
<1>4. \A i \in 1 .. n : i \in 1 .. N /\ \A j \in 1 .. N - m : j + m \in 1 .. N /\ i # j + m
  BY <1>1
<1>5. \A j \in 1 .. N - m : j + m \in 1 .. N
  BY <1>1
<1>6. Sessions(first) \subseteq Sessions(q)
  BY <1>2, <1>4 DEF Sessions, N
<1>7. Sessions(rest) \subseteq Sessions(q)
  BY <1>3, <1>5 DEF Sessions, N
<1>8. Once(q) => Once(first)
  BY <1>2, <1>4 DEF Once, N
<1>9. Once(q) => Once(rest)
  <2> SUFFICES ASSUME Once(q), NEW i \in 1 .. N - m, NEW j \in 1 .. N - m,
                      IsHead(rest[i]), IsHead(rest[j]), SessionOf(rest[i]) = SessionOf(rest[j])
               PROVE  i = j
    BY <1>3 DEF Once
  <2>1. i + m = j + m
    BY <1>3, <1>5 DEF Once, N
  <2> QED
    BY <1>1, <2>1
<1>10. Once(q) => Sessions(first) \cap Sessions(rest) = {}
  BY <1>2, <1>3, <1>4 DEF Sessions, Once, N
<1> QED
  BY <1>2, <1>3, <1>6, <1>7, <1>8, <1>9, <1>10 DEF first, rest

LEMMA Joined ==
  ASSUME NEW S, NEW p \in Seq(S), NEW q \in Seq(S)
  PROVE  /\ p \o q \in Seq(S) /\ Sessions(p \o q) = Sessions(p) \cup Sessions(q)
         /\ Once(p) /\ Once(q) /\ Sessions(p) \cap Sessions(q) = {} => Once(p \o q)
<1> DEFINE n == Len(p)  m == Len(q)  r == p \o q
<1>1. r \in Seq(S) /\ Len(r) = n + m /\ n \in Nat /\ m \in Nat
      /\ \A i \in 1 .. n + m : r[i] = IF i <= n THEN p[i] ELSE q[i - n]
  BY ConcatProperties, LenProperties
<1> HIDE DEF r
<1>2. \A i \in 1 .. n : i \in 1 .. n + m /\ r[i] = p[i]
  BY <1>1
<1>3. \A j \in 1 .. m : j + n \in 1 .. n + m /\ r[j + n] = q[j]
  <2> SUFFICES ASSUME NEW j \in 1 .. m PROVE j + n \in 1 .. n + m /\ r[j + n] = q[j]
    OBVIOUS
  <2>1. j + n \in 1 .. n + m /\ ~(j + n <= n) /\ j + n - n = j
    BY <1>1
  <2> QED
    BY <1>1, <2>1
<1>4. \A i \in 1 .. n + m : i \in 1 .. n \/ (i - n \in 1 .. m /\ (i - n) + n = i)
  BY <1>1
<1> HIDE DEF n, m
<1>5. Sessions(r) = Sessions(p) \cup Sessions(q)
  <2>1. Sessions(p) \subseteq Sessions(r)
    BY <1>1, <1>2 DEF Sessions, n
  <2>2. Sessions(q) \subseteq Sessions(r)
    BY <1>1, <1>3 DEF Sessions, m
  <2>3. Sessions(r) \subseteq Sessions(p) \cup Sessions(q)
    <3> SUFFICES ASSUME NEW i \in 1 .. n + m, IsHead(r[i])
                 PROVE  SessionOf(r[i]) \in Sessions(p) \cup Sessions(q)
      BY <1>1 DEF Sessions
    <3>1. CASE i \in 1 .. n
      BY <1>2, <3>1 DEF Sessions, n
    <3>2. CASE i - n \in 1 .. m /\ (i - n) + n = i
      <4>1. r[i] = q[i - n]
        BY <1>3, <3>2
      <4> QED
        BY <3>2, <4>1 DEF Sessions, m
    <3> QED
      BY <1>4, <3>1, <3>2
  <2> QED
    BY <2>1, <2>2, <2>3
<1>6. ASSUME Once(p), Once(q), Sessions(p) \cap Sessions(q) = {} PROVE Once(r)
  <2> SUFFICES ASSUME NEW i \in 1 .. n + m, NEW j \in 1 .. n + m,
                      IsHead(r[i]), IsHead(r[j]), SessionOf(r[i]) = SessionOf(r[j])
               PROVE  i = j
    BY <1>1 DEF Once
  <2>1. ASSUME NEW a \in 1 .. n + m, a \in 1 .. n, IsHead(r[a])
        PROVE  r[a] = p[a] /\ SessionOf(r[a]) \in Sessions(p)
    BY <1>2, <2>1 DEF Sessions, n
  <2>2. ASSUME NEW a \in 1 .. n + m, a - n \in 1 .. m, (a - n) + n = a, IsHead(r[a])
        PROVE  r[a] = q[a - n] /\ SessionOf(r[a]) \in Sessions(q)
    <3>1. r[a] = q[a - n]
      BY <1>3, <2>2
    <3> QED
      BY <2>2, <3>1 DEF Sessions, m
  <2>3. CASE i \in 1 .. n /\ j \in 1 .. n
    BY <1>6, <2>1, <2>3 DEF Once, n
  <2>4. CASE i - n \in 1 .. m /\ (i - n) + n = i /\ j - n \in 1 .. m /\ (j - n) + n = j
    <3>1. r[i] = q[i - n] /\ r[j] = q[j - n]
      BY <2>2, <2>4
    <3>2. i - n = j - n
      BY <1>6, <2>4, <3>1 DEF Once, m
    <3> QED
      BY <2>4, <3>2
  <2>5. CASE i \in 1 .. n /\ j - n \in 1 .. m /\ (j - n) + n = j
    BY <1>6, <2>1, <2>2, <2>5
  <2>6. CASE j \in 1 .. n /\ i - n \in 1 .. m /\ (i - n) + n = i
    BY <1>6, <2>1, <2>2, <2>6
  <2> QED
    BY <1>4, <2>3, <2>4, <2>5, <2>6
<1> QED
  BY <1>1, <1>5, <1>6 DEF r

\* How the line of the asker changes when one of the two reads n bytes and sends some.
LEMMA AskerExchanges ==
  ASSUME NEW l \in Nat, line \in [Devices -> Seq(Byte(l))],
         NEW n \in 0 .. Len(line["asker"]), NEW bytes \in Seq(Byte(l)),
         Exchange("asker", n, bytes)
  PROVE  /\ line' \in [Devices -> Seq(Byte(l))]
         /\ line'["asker"] = SubSeq(line["asker"], n + 1, Len(line["asker"]))
         /\ Sessions(line'["asker"]) \subseteq Sessions(line["asker"])
         /\ Once(line["asker"]) => Once(line'["asker"])
<1> DEFINE q == line["asker"]
<1>1. q \in Seq(Byte(l)) /\ line["listener"] \in Seq(Byte(l)) /\ Devices = {"asker", "listener"}
  BY DEF Devices
<1>2. /\ line' = [line EXCEPT !["asker"] = SubSeq(q, n + 1, Len(q)),
                              !["listener"] = line["listener"] \o bytes]
  BY DEF Exchange, Peer
<1>3. line'["asker"] = SubSeq(q, n + 1, Len(q)) /\ line'["listener"] = line["listener"] \o bytes
  BY <1>1, <1>2
<1>4. /\ SubSeq(q, n + 1, Len(q)) \in Seq(Byte(l))
      /\ Sessions(SubSeq(q, n + 1, Len(q))) \subseteq Sessions(q)
      /\ Once(q) => Once(SubSeq(q, n + 1, Len(q)))
  BY <1>1, Pieces
<1>5. line["listener"] \o bytes \in Seq(Byte(l))
  BY <1>1, Joined
<1>6. line' \in [Devices -> Seq(Byte(l))]
  BY <1>1, <1>2, <1>4, <1>5
<1> QED
  BY <1>3, <1>4, <1>6

LEMMA ListenerExchanges ==
  ASSUME NEW l \in Nat, line \in [Devices -> Seq(Byte(l))],
         NEW n \in 0 .. Len(line["listener"]), NEW bytes \in Seq(Byte(l)),
         Exchange("listener", n, bytes)
  PROVE  /\ line' \in [Devices -> Seq(Byte(l))]
         /\ Sessions(line'["asker"]) = Sessions(line["asker"]) \cup Sessions(bytes)
         /\ Once(line["asker"]) /\ Once(bytes) /\ Sessions(line["asker"]) \cap Sessions(bytes) = {}
              => Once(line'["asker"])
<1> DEFINE q == line["listener"]
<1>1. q \in Seq(Byte(l)) /\ line["asker"] \in Seq(Byte(l)) /\ Devices = {"asker", "listener"}
  BY DEF Devices
<1>2. /\ line' = [line EXCEPT !["listener"] = SubSeq(q, n + 1, Len(q)),
                              !["asker"] = line["asker"] \o bytes]
  BY DEF Exchange, Peer
<1>3. line'["asker"] = line["asker"] \o bytes
  BY <1>1, <1>2
<1>4. SubSeq(q, n + 1, Len(q)) \in Seq(Byte(l))
  BY <1>1, Pieces
<1>5. /\ line["asker"] \o bytes \in Seq(Byte(l))
      /\ Sessions(line["asker"] \o bytes) = Sessions(line["asker"]) \cup Sessions(bytes)
      /\ Once(line["asker"]) /\ Once(bytes) /\ Sessions(line["asker"]) \cap Sessions(bytes) = {}
           => Once(line["asker"] \o bytes)
  BY <1>1, Joined
<1>6. line' \in [Devices -> Seq(Byte(l))]
  BY <1>1, <1>2, <1>4, <1>5
<1> QED
  BY <1>3, <1>5, <1>6
-----------------------------------------------------------------------------
(* What preserves the invariant. *)

LEMMA ParseUsed ==
  ASSUME NEW S, NEW q \in Seq(S), NEW p \in Parses(q)
  PROVE  p.used \in 0 .. Len(q)
<1>1. q # <<>> /\ (p.used = 1 \/ (p.used = 4 /\ Len(q) >= 4))
  BY DEF Parses
<1>2. Len(q) \in Nat \ {0}
  BY <1>1
<1> QED
  BY <1>1, <1>2

\* The asker reads and sends, but neither takes a file nor stores one.
LEMMA AskerMoves ==
  ASSUME LinkInv, NEW n \in 0 .. Len(line["asker"]), NEW bytes \in Seq(Byte(listens)),
         Exchange("asker", n, bytes) \/ line' = line,
         listener' = listener, stored' = stored, listens' = listens,
         asks' \in Nat, resets' \in Nat, asks' + listens + resets' <= MaxEvents,
         asker' \in AskerType(listens), asker'.pc # "verify",
         Len(stored) + (IF asker'.pc = "idle" THEN 0 ELSE 1) <= asks',
         asker'.pc \in {"deriving", "data"} /\ Whole("offer", asker'.key) =>
           asker'.key[1].of[3] \in Permitted
  PROVE  LinkInv'
<1>1. /\ listens \in Nat /\ line \in [Devices -> Seq(Byte(listens))] /\ Once(line["asker"])
  BY DEF LinkInv, LinkTypes, FoundOnce
<1>2. /\ line' \in [Devices -> Seq(Byte(listens))]
      /\ Sessions(line'["asker"]) \subseteq Sessions(line["asker"]) /\ Once(line'["asker"])
  BY <1>1, AskerExchanges
<1>3. LinkTypes'
  BY <1>2 DEF LinkInv, LinkTypes
<1>4. Admits' /\ MayTransfer'
  BY DEF LinkInv, Admits, MayTransfer
<1>5. OnLine' \subseteq OnLine /\ InImage' = {} /\ InFlash' = InFlash /\ SentSessions' = SentSessions
  BY <1>2 DEF OnLine, InImage, InFlash, SentSessions
<1>6. FoundOnce'
  BY <1>2, <1>5 DEF LinkInv, FoundOnce
<1> QED
  BY <1>3, <1>4, <1>6 DEF LinkInv

\* The listener reads and sends, but no file.
LEMMA ListenerMoves ==
  ASSUME LinkInv, NEW n \in 0 .. Len(line["listener"]), NEW bytes \in Seq(Byte(listens)),
         Exchange("listener", n, bytes) \/ line' = line, NoHead(bytes),
         stored' = stored, asks' = asks, listens' = listens,
         resets' \in Nat, asks + listens + resets' <= MaxEvents,
         asker' \in AskerType(listens), asker'.pc = asker.pc, asker'.key = asker.key,
         asker'.image = asker.image,
         listener' \in ListenerType(listens),
         listener'.pc # "idle" => listener'.session # 0,
         listener'.pc \in {"deriving", "encrypted"} => listener'.slot \in Held \cap Known,
         \/ listener'.pc \in {"idle", "delivered"}
         \/ listener.pc \notin {"idle", "delivered"} /\ listener'.session = listener.session
  PROVE  LinkInv'
<1>1. /\ listens \in Nat /\ line \in [Devices -> Seq(Byte(listens))] /\ Once(line["asker"])
  BY DEF LinkInv, LinkTypes, FoundOnce
<1>2. Sessions(bytes) = {} /\ Once(bytes)
  BY NoHeads
<1>3. /\ line' \in [Devices -> Seq(Byte(listens))]
      /\ Sessions(line'["asker"]) = Sessions(line["asker"]) /\ Once(line'["asker"])
  BY <1>1, <1>2, ListenerExchanges
<1>4. LinkTypes'
  BY <1>3 DEF LinkInv, LinkTypes
<1>5. Admits' /\ MayTransfer'
  BY DEF LinkInv, Admits, MayTransfer
<1>6. OnLine' = OnLine /\ InImage' = InImage /\ InFlash' = InFlash /\ SentSessions \subseteq SentSessions'
  BY <1>3 DEF OnLine, InImage, InFlash, SentSessions
<1>7. FoundOnce'
  BY <1>3, <1>6 DEF LinkInv, FoundOnce
<1> QED
  BY <1>4, <1>5, <1>7 DEF LinkInv

LEMMA LinkFacts ==
  ASSUME LinkInv
  PROVE  /\ asks \in Nat /\ listens \in Nat /\ resets \in Nat /\ asks + listens + resets <= MaxEvents
         /\ line["asker"] \in Seq(Byte(listens)) /\ line["listener"] \in Seq(Byte(listens))
         /\ asker \in AskerType(listens) /\ listener \in ListenerType(listens)
         /\ Len(stored) \in Nat /\ Len(stored) + (IF asker.pc = "idle" THEN 0 ELSE 1) <= asks
         /\ \A p \in Parses(line["asker"]) : p.used \in 0 .. Len(line["asker"])
         /\ \A p \in Parses(line["listener"]) : p.used \in 0 .. Len(line["listener"])
         /\ <<>> \in Seq(Byte(listens)) /\ NoHead(<<>>) /\ 0 \in 0 .. Len(line["asker"])
         /\ 0 \in 0 .. Len(line["listener"]) /\ MaxEvents \in Nat
<1>1. /\ asks \in Nat /\ listens \in Nat /\ resets \in Nat /\ asks + listens + resets <= MaxEvents
      /\ line["asker"] \in Seq(Byte(listens)) /\ line["listener"] \in Seq(Byte(listens))
      /\ asker \in AskerType(listens) /\ listener \in ListenerType(listens)
      /\ Len(stored) \in Nat /\ Len(stored) + (IF asker.pc = "idle" THEN 0 ELSE 1) <= asks
  BY DEF LinkInv, LinkTypes, Devices
<1>2. /\ \A p \in Parses(line["asker"]) : p.used \in 0 .. Len(line["asker"])
      /\ \A p \in Parses(line["listener"]) : p.used \in 0 .. Len(line["listener"])
  BY <1>1, ParseUsed
<1>3. <<>> \in Seq(Byte(listens)) /\ NoHead(<<>>)
  BY DEF NoHead
<1>4. 0 \in 0 .. Len(line["asker"]) /\ 0 \in 0 .. Len(line["listener"])
  BY <1>1
<1> QED
  BY <1>1, <1>2, <1>3, <1>4, LinkAssumption
-----------------------------------------------------------------------------
(* Each step. *)

LEMMA InitHolds == LinkInit => LinkInv
<1> SUFFICES ASSUME LinkInit PROVE LinkInv
  OBVIOUS
<1>1. /\ asks = 0 /\ listens = 0 /\ resets = 0 /\ stored = <<>> /\ MaxEvents \in Nat
      /\ line = [d \in Devices |-> <<>>] /\ asker = NoAsk /\ listener = NoListen
  BY LinkAssumption DEF LinkInit
<1>2. asker \in AskerType(0) /\ listener \in ListenerType(0)
  <2>1. 0 \in Slots /\ NoSlot \in Slots \cup {NoSlot}
    BY LinkAssumption DEF Slots
  <2> QED
    BY <1>1, <2>1 DEF NoAsk, NoListen, AskerType, ListenerType, AskerPcs, ListenerPcs
<1>3. line \in [Devices -> Seq(Byte(0))] /\ stored \in Seq(Files(0)) /\ Len(stored) = 0
  BY <1>1
<1>4. LinkTypes
  BY <1>1, <1>2, <1>3 DEF LinkTypes, NoAsk
<1>5. Admits /\ MayTransfer
  BY <1>1 DEF Admits, MayTransfer, NoAsk, NoListen
<1>6. line["asker"] = <<>>
  BY <1>1 DEF Devices
<1>7. OnLine = {} /\ InImage = {} /\ InFlash = {} /\ Once(line["asker"])
  <2>1. OnLine = {} /\ Once(line["asker"])
    BY <1>6 DEF OnLine, Sessions, Once
  <2>2. InImage = {}
    BY <1>1 DEF InImage, NoAsk
  <2>3. InFlash = {}
    BY <1>1 DEF InFlash
  <2> QED
    BY <2>1, <2>2, <2>3
<1>8. FoundOnce
  BY <1>3, <1>7 DEF FoundOnce
<1> QED
  BY <1>4, <1>5, <1>8 DEF LinkInv

LEMMA AskKeeps ==
  ASSUME LinkInv, NEW cmd \in {MESSAGE_RECEIVE, MESSAGE_INTERROGATE}, NEW slot \in Slots,
         Ask(cmd, slot)
  PROVE  LinkInv'
<1> DEFINE met == listener.pc # "idle" /\ listener.since = asks
<1>1. met \in BOOLEAN
  OBVIOUS
<1>2. asker' = [NoAsk EXCEPT !.pc = "requested", !.cmd = cmd, !.slot = slot, !.met = met]
  BY DEF Ask
<1> HIDE DEF met
<1>3. asker' \in AskerType(listens) /\ asker'.pc = "requested"
  <2>1. <<>> \in Seq(Byte(listens))
    OBVIOUS
  <2> QED
    BY <1>1, <1>2, <2>1 DEF NoAsk, AskerType, AskerPcs
<1>4. /\ asks' = asks + 1 /\ Exchange("asker", 0, Request(cmd)) /\ asker.pc = "idle"
      /\ asks + listens + resets < MaxEvents
      /\ listener' = listener /\ stored' = stored /\ listens' = listens /\ resets' = resets
  BY DEF Ask, Budget
<1>5. Request(cmd) \in Seq(Byte(listens))
  BY LinkFacts, PlainBytes
<1>6. /\ asks' \in Nat /\ resets' \in Nat /\ asks' + listens + resets' <= MaxEvents
      /\ Len(stored) + 1 <= asks'
  BY <1>4, LinkFacts
<1>7. 0 \in 0 .. Len(line["asker"])
  BY LinkFacts
<1> QED
  BY <1>3, <1>4, <1>5, <1>6, <1>7, AskerMoves

LEMMA SendBodyKeeps == ASSUME LinkInv, SendBody PROVE LinkInv'
<1>1. PICK p \in Parses(line["asker"]) :
        Exchange("asker", p.used, IF asker.cmd = MESSAGE_RECEIVE THEN <<Plain(asker.slot)>>
                                                                ELSE Payload("list", <<>>))
  BY DEF SendBody
<1>2. /\ p.used \in 0 .. Len(line["asker"]) /\ listens \in Nat /\ asker \in AskerType(listens)
      /\ Len(stored) + (IF asker.pc = "idle" THEN 0 ELSE 1) <= asks
      /\ asks \in Nat /\ resets \in Nat /\ asks + listens + resets <= MaxEvents
  BY LinkFacts
<1>3. <<Plain(asker.slot)>> \in Seq(Byte(listens)) /\ Payload("list", <<>>) \in Seq(Byte(listens))
  <2>1. asker.slot \in 0 .. 255
    <3>1. asker.slot \in Slots
      BY <1>2 DEF AskerType
    <3> QED
      BY <3>1, LinkAssumption DEF Slots
  <2>2. <<Plain(asker.slot)>> \in Seq(Byte(listens))
    BY <1>2, <2>1, PlainBytes, Zenon
  <2> QED
    BY <1>2, <2>2, PayloadTypes
<1>4. PICK bytes \in Seq(Byte(listens)) : Exchange("asker", p.used, bytes)
  BY <1>1, <1>3
<1>5. /\ asker.pc = "requested" /\ asker' = [asker EXCEPT !.pc = "sent"] /\ listener' = listener
      /\ stored' = stored /\ asks' = asks /\ listens' = listens /\ resets' = resets
  BY DEF SendBody, AskerIs
<1>6. asker' \in AskerType(listens) /\ asker'.pc = "sent"
  BY <1>2, <1>5 DEF AskerType, AskerPcs
<1> QED
  BY <1>2, <1>4, <1>5, <1>6, AskerMoves

LEMMA AwaitBodyAckKeeps == ASSUME LinkInv, AwaitBodyAck PROVE LinkInv'
<1>1. PICK p \in Parses(line["asker"]) : Exchange("asker", p.used, <<>>)
  BY DEF AwaitBodyAck
<1>2. /\ p.used \in 0 .. Len(line["asker"]) /\ asker \in AskerType(listens)
      /\ <<>> \in Seq(Byte(listens))
      /\ Len(stored) + (IF asker.pc = "idle" THEN 0 ELSE 1) <= asks
      /\ asks \in Nat /\ resets \in Nat /\ asks + listens + resets <= MaxEvents
  BY LinkFacts
<1>3. /\ asker.pc = "sent" /\ asker' = [asker EXCEPT !.pc = "answer"] /\ listener' = listener
      /\ stored' = stored /\ asks' = asks /\ listens' = listens /\ resets' = resets
  BY DEF AwaitBodyAck, AskerIs
<1>4. asker' \in AskerType(listens) /\ asker'.pc = "answer"
  BY <1>2, <1>3 DEF AskerType, AskerPcs
<1> QED
  BY <1>1, <1>2, <1>3, <1>4, AskerMoves

\* How a receive or an interrogation ends.
LEMMA Ended ==
  ASSUME NEW l, NEW result \in {"ok", "error"}, NEW image \in Seq(Byte(l)), asker \in AskerType(l)
  PROVE  AskerEnds(result, image) \in AskerType(l) /\ AskerEnds(result, image).pc = "idle"
<1>1. <<>> \in Seq(Byte(l))
  OBVIOUS
<1>2. "idle" \in AskerPcs /\ result \in {"none", "ok", "error"}
  BY DEF AskerPcs
<1> HIDE DEF AskerPcs
<1>3. AskerEnds(result, image) \in AskerType(l)
  BY <1>1, <1>2 DEF AskerEnds, AskerType
<1>4. AskerEnds(result, image).pc = "idle"
  BY DEF AskerEnds, AskerType
<1> QED
  BY <1>3, <1>4

LEMMA TakeAnswerKeeps == ASSUME LinkInv, TakeAnswer PROVE LinkInv'
<1>1. PICK p \in Parses(line["asker"]) : \E op \in AnswerOps(p.op) :
        /\ Exchange("asker", p.used, ACK)
        /\ asker' = IF op # asker.cmd THEN AskerEnds("error", <<>>)
                    ELSE [asker EXCEPT !.pc =
                           IF asker.cmd = MESSAGE_RECEIVE THEN "offer" ELSE "info"]
  BY DEF TakeAnswer
<1>2. /\ p.used \in 0 .. Len(line["asker"]) /\ asker \in AskerType(listens)
      /\ listens \in Nat /\ <<>> \in Seq(Byte(listens))
      /\ Len(stored) \in Nat /\ Len(stored) + (IF asker.pc = "idle" THEN 0 ELSE 1) <= asks
      /\ asks \in Nat /\ resets \in Nat /\ asks + listens + resets <= MaxEvents
  BY LinkFacts
<1>3. /\ asker.pc = "answer" /\ listener' = listener
      /\ stored' = stored /\ asks' = asks /\ listens' = listens /\ resets' = resets
  BY DEF TakeAnswer, AskerIs
<1>4. ACK \in Seq(Byte(listens))
  BY <1>2, PlainBytes
<1>5. asker' \in AskerType(listens) /\ asker'.pc \in {"idle", "offer", "info"}
  <2>1. CASE asker' = AskerEnds("error", <<>>)
    BY <1>2, <2>1, Ended
  <2>2. CASE \E pc \in {"offer", "info"} : asker' = [asker EXCEPT !.pc = pc]
    BY <1>2, <2>2 DEF AskerType, AskerPcs
  <2> QED
    BY <1>1, <2>1, <2>2
<1>6. Len(stored) + (IF asker'.pc = "idle" THEN 0 ELSE 1) <= asks'
  BY <1>2, <1>3
<1> QED
  BY <1>1, <1>2, <1>3, <1>4, <1>5, <1>6, AskerMoves

LEMMA TakeOfferKeeps == ASSUME LinkInv, TakeOffer PROVE LinkInv'
<1> DEFINE offer == Taken("asker", "offer")  n == Size["offer"]  q == line["asker"]
<1>1. /\ asker.pc = "offer" /\ listener' = listener /\ Len(q) >= n /\ Exchange("asker", n, <<>>)
      /\ stored' = stored /\ asks' = asks /\ listens' = listens /\ resets' = resets
  BY DEF TakeOffer, AskerIs
<1>2. /\ q \in Seq(Byte(listens)) /\ asker \in AskerType(listens) /\ <<>> \in Seq(Byte(listens))
      /\ Len(stored) \in Nat /\ Len(stored) + (IF asker.pc = "idle" THEN 0 ELSE 1) <= asks
      /\ asks \in Nat /\ resets \in Nat /\ asks + listens + resets <= MaxEvents
  BY LinkFacts
<1>3. n \in 0 .. Len(q)
  BY <1>1, <1>2, Sizes DEF Kinds
<1>4. offer \in Seq(Byte(listens))
  BY <1>2, <1>3, Pieces DEF Taken
<1>5. \/ /\ Whole("offer", offer) => offer[1].of[3] \in Permitted
         /\ asker' = [asker EXCEPT !.pc = "deriving", !.key = offer]
      \/ asker' = AskerEnds("error", <<>>)
  BY DEF TakeOffer
<1> HIDE DEF offer, n, q
<1>6. /\ asker' \in AskerType(listens) /\ asker'.pc \in {"idle", "deriving"}
      /\ asker'.pc = "deriving" /\ Whole("offer", asker'.key) => asker'.key[1].of[3] \in Permitted
  <2>1. CASE asker' = AskerEnds("error", <<>>)
    BY <1>2, <2>1, Ended
  <2>2. CASE /\ Whole("offer", offer) => offer[1].of[3] \in Permitted
             /\ asker' = [asker EXCEPT !.pc = "deriving", !.key = offer]
    <3>1. asker' \in AskerType(listens) /\ asker'.pc = "deriving" /\ asker'.key = offer
      BY <1>2, <1>4, <2>2 DEF AskerType, AskerPcs
    <3> QED
      BY <2>2, <3>1
  <2> QED
    BY <1>5, <2>1, <2>2
<1>7. Len(stored) + (IF asker'.pc = "idle" THEN 0 ELSE 1) <= asks'
  BY <1>1, <1>2
<1> QED
  BY <1>1, <1>2, <1>3, <1>6, <1>7, AskerMoves DEF q

LEMMA DeriveKeyKeeps == ASSUME LinkInv, DeriveKey PROVE LinkInv'
<1>1. /\ asker.pc = "deriving" /\ asker' = [asker EXCEPT !.pc = "data"] /\ listener' = listener
      /\ stored' = stored /\ asks' = asks /\ listens' = listens /\ resets' = resets
      /\ Exchange("asker", 0, ACK)
  BY DEF DeriveKey, AskerIs
<1>2. /\ asker \in AskerType(listens) /\ listens \in Nat /\ 0 \in 0 .. Len(line["asker"])
      /\ Len(stored) + (IF asker.pc = "idle" THEN 0 ELSE 1) <= asks
      /\ asks \in Nat /\ resets \in Nat /\ asks + listens + resets <= MaxEvents
  BY LinkFacts
<1>3. ACK \in Seq(Byte(listens))
  BY <1>2, PlainBytes
<1>4. asker' \in AskerType(listens) /\ asker'.pc = "data" /\ asker'.key = asker.key
  BY <1>1, <1>2 DEF AskerType, AskerPcs
<1>5. Whole("offer", asker.key) => asker.key[1].of[3] \in Permitted
  BY <1>1 DEF LinkInv, MayTransfer
<1>6. asker'.pc # "verify" /\ Len(stored) + (IF asker'.pc = "idle" THEN 0 ELSE 1) <= asks'
  BY <1>1, <1>2, <1>4
<1>7. Whole("offer", asker'.key) => asker'.key[1].of[3] \in Permitted
  BY <1>4, <1>5
<1> QED
  BY <1>1, <1>2, <1>3, <1>4, <1>6, <1>7, AskerMoves

LEMMA RejectFileKeeps == ASSUME LinkInv, RejectFile PROVE LinkInv'
<1>1. /\ asker.pc = "verify" /\ asker' = AskerEnds("error", <<>>) /\ listener' = listener
      /\ stored' = stored /\ asks' = asks /\ listens' = listens /\ resets' = resets /\ line' = line
  BY DEF RejectFile, AskerIs
<1>2. /\ asker \in AskerType(listens) /\ <<>> \in Seq(Byte(listens)) /\ 0 \in 0 .. Len(line["asker"])
      /\ Len(stored) \in Nat /\ Len(stored) + (IF asker.pc = "idle" THEN 0 ELSE 1) <= asks
      /\ asks \in Nat /\ resets \in Nat /\ asks + listens + resets <= MaxEvents
  BY LinkFacts
<1>3. asker' \in AskerType(listens) /\ asker'.pc = "idle"
  BY <1>1, <1>2, Ended
<1>4. Len(stored) + (IF asker'.pc = "idle" THEN 0 ELSE 1) <= asks'
  BY <1>1, <1>2, <1>3
<1> QED
  BY <1>1, <1>2, <1>3, <1>4, AskerMoves

LEMMA TakeInfoKeeps == ASSUME LinkInv, TakeInfo PROVE LinkInv'
<1> DEFINE info == Taken("asker", "info")  n == Size["info"]  q == line["asker"]
<1>1. /\ asker.pc = "info" /\ listener' = listener /\ Len(q) >= n /\ Exchange("asker", n, ACK)
      /\ stored' = stored /\ asks' = asks /\ listens' = listens /\ resets' = resets
  BY DEF TakeInfo, AskerIs
<1>2. /\ q \in Seq(Byte(listens)) /\ asker \in AskerType(listens) /\ <<>> \in Seq(Byte(listens))
      /\ listens \in Nat
      /\ Len(stored) \in Nat /\ Len(stored) + (IF asker.pc = "idle" THEN 0 ELSE 1) <= asks
      /\ asks \in Nat /\ resets \in Nat /\ asks + listens + resets <= MaxEvents
  BY LinkFacts
<1>3. n \in 0 .. Len(q) /\ ACK \in Seq(Byte(listens))
  <2>1. ACK \in Seq(Byte(listens))
    BY <1>2, PlainBytes
  <2>2. n \in Nat
    BY Sizes DEF Kinds
  <2>3. n \in 0 .. Len(q)
    BY <1>1, <1>2, <2>2
  <2> QED
    BY <2>1, <2>3
<1>4. info \in Seq(Byte(listens))
  BY <1>2, <1>3, Pieces DEF Taken
<1>5. asker' = AskerEnds("ok", info) \/ asker' = AskerEnds("error", <<>>)
  BY DEF TakeInfo
<1> HIDE DEF info, n, q
<1>6. asker' \in AskerType(listens) /\ asker'.pc = "idle"
  BY <1>2, <1>4, <1>5, Ended
<1>7. Len(stored) + (IF asker'.pc = "idle" THEN 0 ELSE 1) <= asks'
  BY <1>1, <1>2, <1>6
<1> QED
  BY <1>1, <1>2, <1>3, <1>6, <1>7, AskerMoves DEF q

LEMMA ResetAskerKeeps == ASSUME LinkInv, ResetAsker PROVE LinkInv'
<1>1. PICK n \in 0 .. Len(line["asker"]) : Exchange("asker", n, <<>>)
  BY DEF ResetAsker
<1>2. /\ asker' = NoAsk /\ listener' = listener /\ resets' = resets + 1
      /\ stored' = stored /\ asks' = asks /\ listens' = listens
      /\ asks + listens + resets < MaxEvents
  BY DEF ResetAsker, Budget
<1>3. /\ <<>> \in Seq(Byte(listens)) /\ listens \in Nat /\ MaxEvents \in Nat
      /\ Len(stored) \in Nat /\ Len(stored) + (IF asker.pc = "idle" THEN 0 ELSE 1) <= asks
      /\ asks \in Nat /\ resets \in Nat
  BY LinkFacts
<1>4. asker' \in AskerType(listens) /\ asker'.pc = "idle"
  <2>1. 0 \in Slots
    BY LinkAssumption DEF Slots
  <2> QED
    BY <1>2, <1>3, <2>1 DEF NoAsk, AskerType, AskerPcs
<1>5. /\ asks' \in Nat /\ resets' \in Nat /\ asks' + listens + resets' <= MaxEvents
      /\ Len(stored) + (IF asker'.pc = "idle" THEN 0 ELSE 1) <= asks'
  BY <1>2, <1>3, <1>4
<1> QED
  BY <1>1, <1>2, <1>3, <1>4, <1>5, AskerMoves

\* What leaves the line for the image is gone from the line.
LEMMA TakeDataKeeps == ASSUME LinkInv, TakeData PROVE LinkInv'
<1> DEFINE n == Size["data"]  q == line["asker"]  image == SubSeq(q, 1, n)
<1>1. /\ asker.pc = "data" /\ listener' = listener /\ Len(q) >= n /\ Exchange("asker", n, ACK)
      /\ asker' = [asker EXCEPT !.pc = "verify", !.image = image]
      /\ stored' = stored /\ asks' = asks /\ listens' = listens /\ resets' = resets
  BY DEF TakeData, AskerIs, Taken
<1>2. /\ q \in Seq(Byte(listens)) /\ asker \in AskerType(listens) /\ listens \in Nat
      /\ line \in [Devices -> Seq(Byte(listens))] /\ Once(q)
      /\ Len(stored) + (IF asker.pc = "idle" THEN 0 ELSE 1) <= asks
  BY DEF LinkInv, LinkTypes, FoundOnce, Devices
<1>3. n \in 0 .. Len(q)
  <2>1. n \in Nat
    BY Sizes DEF Kinds
  <2> QED
    BY <1>1, <1>2, <2>1
<1>4. ACK \in Seq(Byte(listens))
  BY <1>2, PlainBytes
<1>5. /\ line' \in [Devices -> Seq(Byte(listens))] /\ line'["asker"] = SubSeq(q, n + 1, Len(q))
      /\ Sessions(line'["asker"]) \subseteq Sessions(q) /\ Once(line'["asker"])
  BY <1>1, <1>2, <1>3, <1>4, AskerExchanges
<1>6. /\ image \in Seq(Byte(listens)) /\ Sessions(image) \subseteq Sessions(q)
      /\ Sessions(image) \cap Sessions(SubSeq(q, n + 1, Len(q))) = {}
  BY <1>2, <1>3, Pieces
<1> HIDE DEF image, n
<1>7. /\ asker' \in AskerType(listens) /\ asker'.pc = "verify" /\ asker'.key = asker.key
      /\ asker'.image = image
  BY <1>1, <1>2, <1>6 DEF AskerType, AskerPcs
<1>8. LinkTypes'
  BY <1>1, <1>2, <1>5, <1>7 DEF LinkInv, LinkTypes
<1>9. Admits' /\ MayTransfer'
  BY <1>1, <1>7 DEF LinkInv, Admits, MayTransfer
<1>10. /\ OnLine' \cup InImage' \subseteq OnLine /\ OnLine' \cap InImage' = {}
       /\ InFlash' = InFlash /\ SentSessions' = SentSessions
  BY <1>1, <1>5, <1>6, <1>7 DEF OnLine, InImage, InFlash, SentSessions
<1>11. FoundOnce'
  BY <1>1, <1>5, <1>10 DEF LinkInv, FoundOnce
<1> QED
  BY <1>8, <1>9, <1>11 DEF LinkInv

\* What the tag accepts is one file of one listen command.
LEMMA VerifiedImage ==
  ASSUME LinkInv, asker.pc = "verify", Verified
  PROVE  \E s \in 1 .. listens, n \in Transferable : asker.image = Payload("data", <<s, n>>)
<1>1. PICK s \in 0 .. MaxEvents, n \in Slots : asker.key = Payload("offer", <<s, n>>)
  BY DEF Verified, Whole
<1>2. asker.key \in Seq(Byte(listens))
  BY LinkFacts DEF AskerType
<1>3. /\ asker.key[1].of[2] = s /\ asker.key[1].of[3] = n
      /\ s \in 1 .. listens /\ n \in Held \cap Known
  BY <1>1, <1>2, OfferBytes
<1>4. n \in Permitted
  BY <1>3 DEF LinkInv, MayTransfer, Verified
<1>5. n \in Transferable
  BY <1>3, <1>4 DEF Transferable
<1>6. asker.image = Payload("data", <<s, n>>)
  BY <1>3 DEF Verified
<1> QED
  BY <1>3, <1>5, <1>6

LEMMA StoreFileKeeps == ASSUME LinkInv, StoreFile PROVE LinkInv'
<1> DEFINE image == asker.image  file == [asked |-> asker.slot, image |-> image]  N == Len(stored)
<1>1. /\ asker.pc = "verify" /\ asker' = AskerEnds("ok", image) /\ stored' = Append(stored, file)
      /\ line' = line /\ listener' = listener
      /\ asks' = asks /\ listens' = listens /\ resets' = resets
  BY DEF StoreFile, AskerIs
<1>2. PICK s \in 1 .. listens, n \in Transferable : image = Payload("data", <<s, n>>)
  BY <1>1, VerifiedImage DEF StoreFile
<1>3. Sessions(image) = {s} /\ SessionOf(image[1]) = s
  BY <1>2, DataHeads
<1>4. /\ asker \in AskerType(listens) /\ stored \in Seq(Files(listens))
      /\ N + (IF asker.pc = "idle" THEN 0 ELSE 1) <= asks /\ asks \in Nat
  BY DEF LinkInv, LinkTypes
<1>5. file \in Files(listens) /\ file.image = image
  <2>1. image \in Images(listens)
    BY <1>2 DEF Images
  <2>2. asker.slot \in Slots
    BY <1>4 DEF AskerType
  <2> HIDE DEF image
  <2> QED
    BY <2>1, <2>2 DEF Files
<1> HIDE DEF file
<1>6. /\ stored' \in Seq(Files(listens)) /\ Len(stored') = N + 1 /\ N \in Nat
      /\ stored'[N + 1] = file /\ \A i \in 1 .. N : stored'[i] = stored[i]
  BY <1>1, <1>4, <1>5, AppendProperties
<1>7. asker' \in AskerType(listens) /\ asker'.pc = "idle"
  <2>1. image \in Seq(Byte(listens))
    BY <1>4 DEF AskerType
  <2> QED
    BY <1>1, <1>4, <2>1, Ended
<1> HIDE DEF image, N
<1>8. LinkTypes'
  <2>1. Len(stored') + (IF asker'.pc = "idle" THEN 0 ELSE 1) <= asks
    BY <1>1, <1>4, <1>6, <1>7
  <2> QED
    BY <1>1, <1>6, <1>7, <2>1 DEF LinkInv, LinkTypes
<1>9. Admits' /\ MayTransfer'
  BY <1>1, <1>7 DEF LinkInv, Admits, MayTransfer
<1>10. InImage = {s} /\ s \notin OnLine /\ s \notin InFlash /\ s \in SentSessions
  <2>1. InImage = {s}
    BY <1>1, <1>3 DEF InImage, image
  <2> QED
    BY <2>1 DEF LinkInv, FoundOnce
<1>11. \A i \in 1 .. N + 1 :
         SessionOf(stored'[i].image[1]) = IF i = N + 1 THEN s ELSE SessionOf(stored[i].image[1])
  <2>1. SessionOf(stored'[N + 1].image[1]) = s
    BY <1>3, <1>5, <1>6
  <2>2. \A i \in 1 .. N + 1 : i = N + 1 \/ i \in 1 .. N
    BY <1>6
  <2>3. N + 1 \notin 1 .. N
    BY <1>6
  <2> QED
    BY <1>6, <2>1, <2>2, <2>3
<1>12. \A i \in 1 .. N + 1 : i # N + 1 => i \in 1 .. N /\ SessionOf(stored[i].image[1]) \in InFlash
  BY <1>6 DEF InFlash, N
<1>13. InFlash' \subseteq InFlash \cup {s}
  BY <1>6, <1>11, <1>12 DEF InFlash
<1>14. ASSUME NEW i \in 1 .. Len(stored'), NEW j \in 1 .. Len(stored'),
              SessionOf(stored'[i].image[1]) = SessionOf(stored'[j].image[1])
       PROVE  i = j
  <2>1. CASE i = N + 1 \/ j = N + 1
    BY <1>6, <1>10, <1>11, <1>12, <1>14, <2>1
  <2>2. CASE i # N + 1 /\ j # N + 1
    <3>1. i \in 1 .. N /\ j \in 1 .. N
      BY <1>6, <1>12, <2>2
    <3>2. SessionOf(stored[i].image[1]) = SessionOf(stored[j].image[1])
      BY <1>6, <1>11, <1>14, <2>2
    <3> QED
      BY <3>1, <3>2 DEF LinkInv, FoundOnce, N
  <2> QED
    BY <2>1, <2>2
<1>15. InImage' = {} /\ OnLine' = OnLine /\ SentSessions' = SentSessions
  BY <1>1, <1>7 DEF InImage, OnLine, SentSessions
<1>16. FoundOnce'
  <2>1. OnLine' \cup InImage' \cup InFlash' \subseteq SentSessions'
    BY <1>10, <1>13, <1>15 DEF LinkInv, FoundOnce
  <2>2. OnLine' \cap InFlash' = {}
    BY <1>10, <1>13, <1>15 DEF LinkInv, FoundOnce
  <2>3. Once(line'["asker"])
    BY <1>1 DEF LinkInv, FoundOnce
  <2> QED
    BY <1>14, <1>15, <2>1, <2>2, <2>3 DEF FoundOnce
<1> QED
  BY <1>8, <1>9, <1>16 DEF LinkInv

LEMMA ListenFacts ==
  ASSUME LinkInv, asks' = asks, listens' = listens, resets' = resets
  PROVE  /\ resets' \in Nat /\ asks + listens + resets' <= MaxEvents
         /\ asker \in AskerType(listens)
         /\ listens \in Nat /\ listener \in ListenerType(listens)
         /\ <<>> \in Seq(Byte(listens)) /\ NoHead(<<>>) /\ 0 \in 0 .. Len(line["listener"])
         /\ \A p \in Parses(line["listener"]) : p.used \in 0 .. Len(line["listener"])
         /\ ACK \in Seq(Byte(listens)) /\ NoHead(ACK)
         /\ listener.pc # "idle" => listener.session \in 1 .. listens
         /\ listener.pc \in {"deriving", "encrypted"} => listener.slot \in Held \cap Known
<1>1. listens \in Nat /\ listener \in ListenerType(listens)
  BY LinkFacts
<1>2. ACK \in Seq(Byte(listens)) /\ NoHead(ACK)
  BY <1>1, PlainBytes
<1>3. listener.session \in 0 .. listens
  BY <1>1 DEF ListenerType
<1>4. listener.pc # "idle" => listener.session \in 1 .. listens
  <2>1. listener.pc # "idle" => listener.session # 0
    BY DEF LinkInv, Admits
  <2> QED
    BY <1>1, <1>3, <2>1
<1>5. listener.pc \in {"deriving", "encrypted"} => listener.slot \in Held \cap Known
  BY DEF LinkInv, Admits
<1> QED
  BY <1>1, <1>2, <1>4, <1>5, LinkFacts

\* How a listener goes on, and how it ends.
LEMMA GoesOn ==
  ASSUME NEW l, NEW pc \in ListenerPcs, listener \in ListenerType(l)
  PROVE  LET next == [listener EXCEPT !.pc = pc]
         IN  /\ next \in ListenerType(l) /\ next.pc = pc
             /\ next.session = listener.session /\ next.slot = listener.slot
BY DEF ListenerType

LEMMA ListenEnded ==
  ASSUME NEW l, NEW result \in {"ok", "error"}, listener \in ListenerType(l)
  PROVE  ListenerEnds(result) \in ListenerType(l) /\ ListenerEnds(result).pc = "idle"
BY DEF ListenerEnds, ListenerType, ListenerPcs

\* A listener that goes on to another command state, or ends.
LEMMA ListenerTurns ==
  ASSUME LinkInv, listener.pc \notin {"idle", "delivered"},
         NEW n \in 0 .. Len(line["listener"]), NEW bytes \in Seq(Byte(listens)),
         Exchange("listener", n, bytes) \/ line' = line, NoHead(bytes),
         asker' = asker, stored' = stored, asks' = asks, listens' = listens, resets' = resets,
         \/ \E pc \in ListenerPcs \ {"idle"} :
              /\ pc \in {"deriving", "encrypted"} => listener.slot \in Held \cap Known
              /\ listener' = [listener EXCEPT !.pc = pc]
         \/ \E result \in {"ok", "error"} : listener' = ListenerEnds(result)
  PROVE  LinkInv'
<1>1. /\ resets' \in Nat /\ asks + listens + resets' <= MaxEvents /\ asker \in AskerType(listens)
      /\ listener \in ListenerType(listens) /\ listener.session # 0
  BY ListenFacts
<1>2. ASSUME NEW pc \in ListenerPcs \ {"idle"}, listener' = [listener EXCEPT !.pc = pc],
             pc \in {"deriving", "encrypted"} => listener.slot \in Held \cap Known
      PROVE  LinkInv'
  <2>1. /\ listener' \in ListenerType(listens) /\ listener'.pc = pc
        /\ listener'.session = listener.session /\ listener'.slot = listener.slot
    BY <1>1, <1>2, GoesOn
  <2>2. /\ listener'.session # 0 /\ asker' \in AskerType(listens)
        /\ listener'.pc \in {"deriving", "encrypted"} => listener'.slot \in Held \cap Known
    BY <1>1, <1>2, <2>1
  <2>3. /\ asker'.pc = asker.pc /\ asker'.key = asker.key /\ asker'.image = asker.image
    OBVIOUS
  <2> QED
    BY <1>1, <2>1, <2>2, <2>3, ListenerMoves
<1>3. CASE \E result \in {"ok", "error"} : listener' = ListenerEnds(result)
  <2>1. listener' \in ListenerType(listens) /\ listener'.pc = "idle"
    BY <1>1, <1>3, ListenEnded
  <2> QED
    BY <1>1, <2>1, ListenerMoves
<1> QED
  BY <1>2, <1>3

LEMMA TakeRequestKeeps == ASSUME LinkInv, TakeRequest PROVE LinkInv'
<1>1. /\ listener.pc = "request" /\ asker' = asker /\ stored' = stored
      /\ asks' = asks /\ listens' = listens /\ resets' = resets
  BY DEF TakeRequest, ListenerIs
<1>2. PICK p \in Parses(line["listener"]) :
        /\ Exchange("listener", p.used, ACK) \/ Exchange("listener", p.used, <<>>)
        /\ \/ listener' = [listener EXCEPT !.pc = "slot"]
           \/ listener' = [listener EXCEPT !.pc = "list"]
           \/ listener' = ListenerEnds("ok")
  BY DEF TakeRequest
<1>3. /\ p.used \in 0 .. Len(line["listener"]) /\ <<>> \in Seq(Byte(listens)) /\ NoHead(<<>>)
      /\ ACK \in Seq(Byte(listens)) /\ NoHead(ACK)
  BY <1>1, ListenFacts
<1>4. "slot" \in ListenerPcs \ {"idle"} /\ "list" \in ListenerPcs \ {"idle"}
  BY DEF ListenerPcs
<1>5. PICK bytes \in Seq(Byte(listens)) : Exchange("listener", p.used, bytes) /\ NoHead(bytes)
  BY <1>2, <1>3
<1>6. \/ \E pc \in {"slot", "list"} : listener' = [listener EXCEPT !.pc = pc]
      \/ \E result \in {"ok", "error"} : listener' = ListenerEnds(result)
  BY <1>2
<1> QED
  BY <1>1, <1>3, <1>4, <1>5, <1>6, ListenerTurns

LEMMA TakeSlotKeeps == ASSUME LinkInv, TakeSlot PROVE LinkInv'
<1>1. /\ listener.pc = "slot" /\ asker' = asker /\ stored' = stored
      /\ asks' = asks /\ listens' = listens /\ resets' = resets
      /\ Exchange("listener", 1, ACK) /\ line["listener"] # <<>>
  BY DEF TakeSlot, ListenerIs
<1>2. PICK v : listener' = [listener EXCEPT !.pc = "looking", !.slot = IF v \in Slots THEN v ELSE NoSlot]
  BY DEF TakeSlot
<1>3. /\ resets' \in Nat /\ asks + listens + resets' <= MaxEvents /\ asker \in AskerType(listens)
      /\ listener \in ListenerType(listens) /\ listener.session # 0
      /\ ACK \in Seq(Byte(listens)) /\ NoHead(ACK)
  BY <1>1, ListenFacts
<1>4. 1 \in 0 .. Len(line["listener"])
  <2>1. line["listener"] \in Seq(Byte(listens))
    BY LinkFacts
  <2> QED
    BY <1>1, <2>1
<1>5. /\ listener' \in ListenerType(listens) /\ listener'.pc = "looking"
      /\ listener'.session = listener.session
  BY <1>2, <1>3 DEF ListenerType, ListenerPcs
<1> QED
  BY <1>1, <1>3, <1>4, <1>5, ListenerMoves

LEMMA AnswerReceiveKeeps == ASSUME LinkInv, AnswerReceive PROVE LinkInv'
<1>1. /\ listener.pc = "looking" /\ asker' = asker /\ stored' = stored
      /\ asks' = asks /\ listens' = listens /\ resets' = resets
      /\ listener' = [listener EXCEPT !.pc = "answered"]
      /\ Exchange("listener", 0, Header(IF Found THEN MESSAGE_RECEIVE ELSE MESSAGE_ERROR))
  BY DEF AnswerReceive, ListenerIs
<1>2. PICK op \in {MESSAGE_RECEIVE, MESSAGE_ERROR} : Exchange("listener", 0, Header(op))
  BY <1>1
<1>3. listens \in Nat /\ 0 \in 0 .. Len(line["listener"])
  BY <1>1, ListenFacts
<1>4. Header(op) \in Seq(Byte(listens)) /\ NoHead(Header(op))
  <2>1. op \in 0 .. 255
    BY DEF MESSAGE_RECEIVE, MESSAGE_ERROR
  <2> QED
    BY <1>3, <2>1, PlainBytes
<1>5. "answered" \in ListenerPcs \ {"idle"}
  BY DEF ListenerPcs
<1> QED
  BY <1>1, <1>2, <1>3, <1>4, <1>5, ListenerTurns

LEMMA SendOfferKeeps == ASSUME LinkInv, SendOffer PROVE LinkInv'
<1> DEFINE offer == Payload("offer", <<listener.session, listener.slot>>)
<1>1. /\ listener.pc = "answered" /\ asker' = asker /\ stored' = stored
      /\ asks' = asks /\ listens' = listens /\ resets' = resets
  BY DEF SendOffer, ListenerIs
<1>2. PICK p \in Parses(line["listener"]) :
        \/ /\ Found /\ listener.slot \in Known
           /\ Exchange("listener", p.used, offer)
           /\ listener' = [listener EXCEPT !.pc = "deriving"]
        \/ Exchange("listener", p.used, <<>>) /\ listener' = ListenerEnds("error")
  BY DEF SendOffer
<1>3. /\ p.used \in 0 .. Len(line["listener"]) /\ <<>> \in Seq(Byte(listens)) /\ NoHead(<<>>)
      /\ listens \in Nat /\ listener.session \in 1 .. listens
  BY <1>1, ListenFacts
<1>4. "deriving" \in ListenerPcs \ {"idle"}
  BY DEF ListenerPcs
<1>5. CASE /\ Found /\ listener.slot \in Known
           /\ Exchange("listener", p.used, offer)
           /\ listener' = [listener EXCEPT !.pc = "deriving"]
  <2>1. listener.slot \in Held \cap Known
    BY <1>5 DEF Found
  <2>2. offer \in Seq(Byte(listens)) /\ NoHead(offer)
    BY <1>3, <2>1, PayloadTypes
  <2> HIDE DEF offer
  <2> QED
    BY <1>1, <1>3, <1>4, <1>5, <2>1, <2>2, ListenerTurns
<1>6. CASE Exchange("listener", p.used, <<>>) /\ listener' = ListenerEnds("error")
  BY <1>1, <1>3, <1>6, ListenerTurns
<1> QED
  BY <1>2, <1>5, <1>6

LEMMA EncryptFileKeeps == ASSUME LinkInv, EncryptFile PROVE LinkInv'
<1>1. /\ listener.pc = "deriving" /\ asker' = asker /\ stored' = stored /\ line' = line
      /\ asks' = asks /\ listens' = listens /\ resets' = resets
      /\ listener' = [listener EXCEPT !.pc = "encrypted"]
  BY DEF EncryptFile, ListenerIs
<1>2. /\ 0 \in 0 .. Len(line["listener"]) /\ <<>> \in Seq(Byte(listens)) /\ NoHead(<<>>)
      /\ listener.slot \in Held \cap Known
  BY <1>1, ListenFacts
<1>3. "encrypted" \in ListenerPcs \ {"idle"}
  BY DEF ListenerPcs
<1> QED
  BY <1>1, <1>2, <1>3, ListenerTurns

LEMMA TakeListKeeps == ASSUME LinkInv, TakeList PROVE LinkInv'
<1> DEFINE n == Size["list"]  q == line["listener"]
<1>1. /\ listener.pc = "list" /\ asker' = asker /\ stored' = stored
      /\ asks' = asks /\ listens' = listens /\ resets' = resets
      /\ Len(q) >= n /\ Exchange("listener", n, ACK)
  BY DEF TakeList, ListenerIs
<1>2. PICK pc \in {"matching", "badList"} : listener' = [listener EXCEPT !.pc = pc]
  BY DEF TakeList
<1>3. ACK \in Seq(Byte(listens)) /\ NoHead(ACK)
  BY <1>1, ListenFacts
<1>4. n \in 0 .. Len(q)
  <2>1. n \in Nat
    BY Sizes DEF Kinds
  <2>2. q \in Seq(Byte(listens))
    BY LinkFacts
  <2> QED
    BY <1>1, <2>1, <2>2
<1>5. pc \in ListenerPcs \ {"idle"}
  BY DEF ListenerPcs
<1> QED
  BY <1>1, <1>2, <1>3, <1>4, <1>5, ListenerTurns

LEMMA AnswerInterrogateKeeps == ASSUME LinkInv, AnswerInterrogate PROVE LinkInv'
<1>1. /\ listener.pc = "matching" /\ asker' = asker /\ stored' = stored
      /\ asks' = asks /\ listens' = listens /\ resets' = resets
      /\ listener' = [listener EXCEPT !.pc = "matched"]
      /\ Exchange("listener", 0, Header(MESSAGE_INTERROGATE))
  BY DEF AnswerInterrogate, ListenerIs
<1>2. listens \in Nat /\ 0 \in 0 .. Len(line["listener"])
  BY <1>1, ListenFacts
<1>3. Header(MESSAGE_INTERROGATE) \in Seq(Byte(listens)) /\ NoHead(Header(MESSAGE_INTERROGATE))
  <2>1. MESSAGE_INTERROGATE \in 0 .. 255
    BY DEF MESSAGE_INTERROGATE
  <2> QED
    BY <1>2, <2>1, PlainBytes
<1>4. "matched" \in ListenerPcs \ {"idle"}
  BY DEF ListenerPcs
<1> QED
  BY <1>1, <1>2, <1>3, <1>4, ListenerTurns

LEMMA RejectListKeeps == ASSUME LinkInv, RejectList PROVE LinkInv'
<1>1. /\ listener.pc = "badList" /\ asker' = asker /\ stored' = stored /\ line' = line
      /\ asks' = asks /\ listens' = listens /\ resets' = resets
      /\ listener' = ListenerEnds("error")
  BY DEF RejectList, ListenerIs
<1>2. 0 \in 0 .. Len(line["listener"]) /\ <<>> \in Seq(Byte(listens)) /\ NoHead(<<>>)
  BY <1>1, ListenFacts
<1> QED
  BY <1>1, <1>2, ListenerTurns

LEMMA SendInfoKeeps == ASSUME LinkInv, SendInfo PROVE LinkInv'
<1> DEFINE info == Payload("info", <<listener.session>>)
<1>1. /\ listener.pc = "matched" /\ asker' = asker /\ stored' = stored
      /\ asks' = asks /\ listens' = listens /\ resets' = resets
      /\ listener' = [listener EXCEPT !.pc = "delivered"]
  BY DEF SendInfo, ListenerIs
<1>2. PICK p \in Parses(line["listener"]) : Exchange("listener", p.used, info)
  BY DEF SendInfo
<1>3. /\ p.used \in 0 .. Len(line["listener"]) /\ listens \in Nat
      /\ listener.session \in 1 .. listens
  BY <1>1, ListenFacts
<1>4. info \in Seq(Byte(listens)) /\ NoHead(info)
  BY <1>3, PayloadTypes
<1>5. "delivered" \in ListenerPcs \ {"idle"}
  BY DEF ListenerPcs
<1> HIDE DEF info
<1> QED
  BY <1>1, <1>2, <1>3, <1>4, <1>5, ListenerTurns

LEMMA FinishListenKeeps == ASSUME LinkInv, FinishListen PROVE LinkInv'
<1>1. /\ listener.pc = "delivered" /\ asker' = asker /\ stored' = stored
      /\ asks' = asks /\ listens' = listens /\ resets' = resets
      /\ listener' = ListenerEnds("ok")
  BY DEF FinishListen, ListenerIs
<1>2. PICK p \in Parses(line["listener"]) : Exchange("listener", p.used, <<>>)
  BY DEF FinishListen
<1>3. /\ resets' \in Nat /\ asks + listens + resets' <= MaxEvents /\ asker \in AskerType(listens)
      /\ p.used \in 0 .. Len(line["listener"]) /\ <<>> \in Seq(Byte(listens)) /\ NoHead(<<>>)
      /\ listener \in ListenerType(listens)
  BY <1>1, ListenFacts
<1>4. listener' \in ListenerType(listens) /\ listener'.pc = "idle"
  BY <1>1, <1>3, ListenEnded
<1> QED
  BY <1>1, <1>2, <1>3, <1>4, ListenerMoves

LEMMA ResetListenerKeeps == ASSUME LinkInv, ResetListener PROVE LinkInv'
<1>1. PICK n \in 0 .. Len(line["listener"]) : Exchange("listener", n, <<>>)
  BY DEF ResetListener
<1>2. /\ asker' = [asker EXCEPT !.met = FALSE] /\ listener' = NoListen /\ resets' = resets + 1
      /\ stored' = stored /\ asks' = asks /\ listens' = listens
      /\ asks + listens + resets < MaxEvents
  BY DEF ResetListener, Budget
<1>3. /\ <<>> \in Seq(Byte(listens)) /\ NoHead(<<>>) /\ listens \in Nat /\ MaxEvents \in Nat
      /\ asks \in Nat /\ resets \in Nat /\ asker \in AskerType(listens)
  BY LinkFacts
<1>4. /\ asker' \in AskerType(listens) /\ asker'.pc = asker.pc /\ asker'.key = asker.key
      /\ asker'.image = asker.image
  BY <1>2, <1>3 DEF AskerType
<1>5. listener' \in ListenerType(listens) /\ listener'.pc = "idle"
  BY <1>2, <1>3 DEF NoListen, ListenerType, ListenerPcs
<1>6. resets' \in Nat /\ asks + listens + resets' <= MaxEvents
  BY <1>2, <1>3
<1> QED
  BY <1>1, <1>2, <1>3, <1>4, <1>5, <1>6, ListenerMoves

\* The only step that sends a file: once for a listen command.
LEMMA SendFileKeeps == ASSUME LinkInv, SendFile PROVE LinkInv'
<1> DEFINE s == listener.session  data == Payload("data", <<s, listener.slot>>)
<1>1. /\ listener.pc = "encrypted" /\ asker' = asker /\ stored' = stored
      /\ asks' = asks /\ listens' = listens /\ resets' = resets
      /\ listener' = [listener EXCEPT !.pc = "delivered"]
  BY DEF SendFile, ListenerIs
<1>2. PICK p \in Parses(line["listener"]) : Exchange("listener", p.used, data)
  BY DEF SendFile
<1>3. /\ p.used \in 0 .. Len(line["listener"]) /\ listens \in Nat /\ s \in 1 .. listens
      /\ listener.slot \in Held \cap Known /\ listener \in ListenerType(listens)
  BY <1>1, ListenFacts
<1>4. data \in Seq(Byte(listens)) /\ Sessions(data) = {s} /\ Once(data)
  BY <1>3, PayloadTypes, DataHeads
<1> HIDE DEF data
<1>5. line \in [Devices -> Seq(Byte(listens))] /\ Once(line["asker"])
  BY DEF LinkInv, LinkTypes, FoundOnce
<1>6. s \notin SentSessions /\ s \notin OnLine /\ s \notin InImage /\ s \notin InFlash
  <2>1. s \notin SentSessions
    BY <1>1 DEF SentSessions
  <2> QED
    BY <2>1 DEF LinkInv, FoundOnce
<1>7. line' \in [Devices -> Seq(Byte(listens))] /\ OnLine' = OnLine \cup {s} /\ Once(line'["asker"])
  <2>1. Sessions(line["asker"]) \cap Sessions(data) = {}
    BY <1>4, <1>6 DEF OnLine
  <2> QED
    BY <1>2, <1>3, <1>4, <1>5, <2>1, ListenerExchanges DEF OnLine
<1>8. "delivered" \in ListenerPcs
  BY DEF ListenerPcs
<1>9. listener' \in ListenerType(listens) /\ listener'.pc = "delivered" /\ listener'.session = s
  BY <1>1, <1>3, <1>8, GoesOn
<1>10. LinkTypes'
  BY <1>1, <1>7, <1>9 DEF LinkInv, LinkTypes
<1>11. Admits' /\ MayTransfer'
  <2>1. s # 0
    BY <1>3
  <2> QED
    BY <1>1, <1>9, <2>1 DEF LinkInv, Admits, MayTransfer
<1>12. /\ InImage' = InImage /\ InFlash' = InFlash
       /\ SentSessions \subseteq SentSessions' /\ s \in SentSessions'
  BY <1>1, <1>3, <1>9 DEF InImage, InFlash, SentSessions
<1>13. FoundOnce'
  <2>1. /\ OnLine' \cup InImage' \cup InFlash' \subseteq SentSessions'
        /\ OnLine' \cap InImage' = {} /\ OnLine' \cap InFlash' = {} /\ InImage' \cap InFlash' = {}
    BY <1>6, <1>7, <1>12 DEF LinkInv, FoundOnce
  <2> QED
    BY <1>1, <1>7, <2>1 DEF LinkInv, FoundOnce
<1> QED
  BY <1>10, <1>11, <1>13 DEF LinkInv

\* A new listen command has sent nothing yet.
LEMMA ListenKeeps == ASSUME LinkInv, Listen PROVE LinkInv'
<1> DEFINE l == listens
<1>1. /\ listener.pc = "idle" /\ asks + l + resets < MaxEvents /\ listens' = l + 1
      /\ listener' = [NoListen EXCEPT !.pc = "request", !.session = l + 1, !.since = asks]
      /\ line' = line /\ asker' = asker /\ stored' = stored /\ asks' = asks /\ resets' = resets
  BY DEF Listen, Budget
<1>2. /\ asks \in Nat /\ l \in Nat /\ resets \in Nat /\ MaxEvents \in Nat
  BY LinkFacts
<1>3. /\ Byte(l) \subseteq Byte(l + 1) /\ Images(l) \subseteq Images(l + 1)
      /\ Seq(Byte(l)) \subseteq Seq(Byte(l + 1))
  BY <1>2, MoreListens
<1>4. /\ line \in [Devices -> Seq(Byte(l))] /\ asker \in AskerType(l) /\ stored \in Seq(Files(l))
      /\ Len(stored) + (IF asker.pc = "idle" THEN 0 ELSE 1) <= asks
  BY DEF LinkInv, LinkTypes
<1>5. line \in [Devices -> Seq(Byte(l + 1))] /\ asker \in AskerType(l + 1)
  <2>1. line \in [Devices -> Seq(Byte(l + 1))]
    BY <1>3, <1>4
  <2>2. asker \in AskerType(l + 1)
    BY <1>3, <1>4 DEF AskerType
  <2> QED
    BY <2>1, <2>2
<1>6. stored \in Seq(Files(l + 1))
  <2>1. Files(l) \subseteq Files(l + 1)
    BY <1>3 DEF Files
  <2> QED
    BY <1>4, <2>1
<1>7. listener' \in ListenerType(l + 1) /\ listener'.pc = "request" /\ listener'.session = l + 1
  <2>1. l + 1 \in 0 .. l + 1 /\ asks \in Nat /\ "request" \in ListenerPcs
    BY <1>2 DEF ListenerPcs
  <2>2. listener' = [pc |-> "request", session |-> l + 1, since |-> asks, slot |-> NoSlot,
                     result |-> "none"]
    BY <1>1 DEF NoListen
  <2> QED
    BY <2>1, <2>2 DEF ListenerType
<1>8. asks' + listens' + resets' <= MaxEvents /\ listens' \in Nat
  BY <1>1, <1>2
<1>9. LinkTypes'
  BY <1>1, <1>2, <1>4, <1>5, <1>6, <1>7, <1>8 DEF LinkTypes
<1>10. Admits' /\ MayTransfer'
  <2>1. l + 1 # 0
    BY <1>2
  <2> QED
    BY <1>1, <1>7, <2>1 DEF LinkInv, Admits, MayTransfer
<1>11. OnLine' = OnLine /\ InImage' = InImage /\ InFlash' = InFlash
  BY <1>1 DEF OnLine, InImage, InFlash
<1>12. SentSessions \subseteq SentSessions'
  <2>1. \A s \in 1 .. l : s \in 1 .. l + 1 /\ s # l + 1
    BY <1>2
  <2> QED
    BY <1>1, <1>7, <2>1 DEF SentSessions
<1>13. FoundOnce'
  BY <1>1, <1>11, <1>12 DEF LinkInv, FoundOnce
<1> QED
  BY <1>9, <1>10, <1>13 DEF LinkInv

\* A byte that is lost appears nowhere else.
LEMMA OverrunKeeps == ASSUME LinkInv, NEW d \in Devices, Overrun(d) PROVE LinkInv'
<1> DEFINE q == line[d]  n == FIFO_DEPTH  first == SubSeq(q, 1, n)
           rest == SubSeq(q, n + 2, Len(q))  B == Byte(listens)
<1>1. /\ Len(q) > n /\ line' = [line EXCEPT ![d] = first \o rest]
      /\ asker' = asker /\ listener' = listener /\ stored' = stored
      /\ asks' = asks /\ listens' = listens /\ resets' = resets
  BY DEF Overrun
<1>2. line \in [Devices -> Seq(B)] /\ Once(line["asker"])
  BY DEF LinkInv, LinkTypes, FoundOnce
<1> HIDE DEF B
<1>3. q \in Seq(B) /\ n \in 0 .. Len(q) /\ n + 1 \in n .. Len(q) /\ n + 2 = (n + 1) + 1
  <2>1. q \in Seq(B)
    BY <1>2
  <2>2. n \in Nat
    BY LinkAssumption
  <2> QED
    BY <1>1, <2>1, <2>2
<1>4. /\ first \in Seq(B) /\ rest \in Seq(B)
      /\ Sessions(first) \subseteq Sessions(q) /\ Sessions(rest) \subseteq Sessions(q)
      /\ Once(q) => Once(first) /\ Once(rest) /\ Sessions(first) \cap Sessions(rest) = {}
  <2> DEFINE m == n + 1
  <2>1. m \in n .. Len(q) /\ rest = SubSeq(q, m + 1, Len(q))
    BY <1>3
  <2> HIDE DEF m, n, q
  <2> QED
    BY <1>3, <2>1, Pieces
<1> HIDE DEF first, rest
<1>5. /\ first \o rest \in Seq(B) /\ Sessions(first \o rest) \subseteq Sessions(q)
      /\ Once(q) => Once(first \o rest)
  BY <1>4, Joined
<1>6. line' \in [Devices -> Seq(B)]
  BY <1>1, <1>2, <1>5
<1>7. Once(line'["asker"]) /\ OnLine' \subseteq OnLine
  <2>1. "asker" \in Devices
    BY DEF Devices
  <2>2. CASE d = "asker"
    BY <1>1, <1>2, <1>5, <2>1, <2>2 DEF OnLine
  <2>3. CASE d # "asker"
    BY <1>1, <1>2, <2>1, <2>3 DEF OnLine
  <2> QED
    BY <2>2, <2>3
<1>8. LinkTypes'
  BY <1>1, <1>6 DEF LinkInv, LinkTypes, B
<1>9. Admits' /\ MayTransfer'
  BY <1>1 DEF LinkInv, Admits, MayTransfer
<1>10. InImage' = InImage /\ InFlash' = InFlash /\ SentSessions' = SentSessions
  BY <1>1 DEF InImage, InFlash, SentSessions
<1>11. FoundOnce'
  BY <1>1, <1>7, <1>10 DEF LinkInv, FoundOnce
<1> QED
  BY <1>8, <1>9, <1>11 DEF LinkInv

LEMMA StepKeeps == LinkInv /\ [LinkNext]_linkVars => LinkInv'
<1> SUFFICES ASSUME LinkInv, [LinkNext]_linkVars PROVE LinkInv'
  OBVIOUS
<1>1. ASSUME NEW cmd \in {MESSAGE_RECEIVE, MESSAGE_INTERROGATE}, NEW slot \in Slots, Ask(cmd, slot)
      PROVE  LinkInv'
  BY <1>1, AskKeeps
<1>2. CASE Listen
  BY <1>2, ListenKeeps
<1>3. CASE AskerStep
  BY <1>3, SendBodyKeeps, AwaitBodyAckKeeps, TakeAnswerKeeps, TakeOfferKeeps, DeriveKeyKeeps,
     TakeDataKeeps, StoreFileKeeps, RejectFileKeeps, TakeInfoKeeps DEF AskerStep
<1>4. CASE ListenerStep
  BY <1>4, TakeRequestKeeps, TakeSlotKeeps, AnswerReceiveKeeps, SendOfferKeeps, EncryptFileKeeps,
     SendFileKeeps, TakeListKeeps, AnswerInterrogateKeeps, RejectListKeeps, SendInfoKeeps,
     FinishListenKeeps DEF ListenerStep
<1>5. ASSUME NEW d \in Devices, Overrun(d) PROVE LinkInv'
  BY <1>5, OverrunKeeps
<1>6. CASE ResetAsker
  BY <1>6, ResetAskerKeeps
<1>7. CASE ResetListener
  BY <1>7, ResetListenerKeeps
<1>8. CASE UNCHANGED linkVars
  BY <1>8 DEF linkVars, LinkInv, LinkTypes, Admits, MayTransfer, FoundOnce, OnLine, InImage,
     InFlash, SentSessions
<1> QED
  BY <1>1, <1>2, <1>3, <1>4, <1>5, <1>6, <1>7, <1>8 DEF LinkNext
-----------------------------------------------------------------------------
(* The two devices' dialogues, however they are interrupted, keep the      *)
(* invariant (receive.c:33-182, interrogate.c:38-163, listen.c:23-247).    *)
THEOREM LinkInvariant == LinkSpec => []LinkInv
<1>1. LinkInit => LinkInv
  BY InitHolds
<1>2. LinkInv /\ [LinkNext]_linkVars => LinkInv'
  BY StepKeeps
<1> QED
  BY <1>1, <1>2, PTL DEF LinkSpec

(* Every byte in the clear on either line is a byte, and the listener      *)
(* encrypts only slots it admits, for any sizes of the payloads            *)
(* (listen.c:143-180, header.c:29-67).                                     *)
THEOREM LinkTypesHold == LinkSpec => []LinkTypeOK
<1>1. ASSUME NEW l \in Nat, NEW b \in Byte(l), b.of = <<>> PROVE b.val \in 0 .. 255
  <2>1. CASE b \in {Plain(v) : v \in 0 .. 255}
    <3>1. PICK v \in 0 .. 255 : b = Plain(v)
      BY <2>1
    <3>2. Plain(v).val = v
      BY DEF Plain
    <3> QED
      BY <3>1, <3>2
  <2>2. ASSUME NEW k, NEW labels, <<>> \notin labels PROVE b \notin Labelled(k, labels)
    BY <1>1, <2>2 DEF Labelled
  <2>3. <<>> \notin {<<"list">>} /\ <<>> \notin {<<"info", s>> : s \in 1 .. l}
    OBVIOUS
  <2>4. <<>> \notin Sent("offer", l) /\ <<>> \notin Sent("data", l)
    BY LabelsDiffer DEF Sent
  <2>5. /\ b \notin Labelled("list", {<<"list">>})
        /\ b \notin Labelled("info", {<<"info", s>> : s \in 1 .. l})
        /\ b \notin Labelled("offer", Sent("offer", l)) /\ b \notin Labelled("data", Sent("data", l))
    BY <2>2, <2>3, <2>4, Zenon
  <2> QED
    BY <1>1, <2>1, <2>5 DEF Byte
<1>2. LinkInv => LinkTypeOK
  <2> SUFFICES ASSUME LinkInv PROVE LinkTypeOK
    OBVIOUS
  <2>1. /\ line \in [Devices -> Seq(Byte(listens))] /\ listens \in Nat
        /\ asker \in AskerType(listens) /\ listener \in ListenerType(listens)
        /\ Len(stored) \in Nat /\ Len(stored) + (IF asker.pc = "idle" THEN 0 ELSE 1) <= asks
        /\ asks \in Nat
    BY LinkFacts DEF LinkInv, LinkTypes
  <2>2. ASSUME NEW d \in Devices, NEW i \in 1 .. Len(line[d]), line[d][i].of = <<>>
        PROVE  line[d][i].val \in 0 .. 255
    <3>1. line[d][i] \in Byte(listens)
      BY <2>1
    <3> QED
      BY <1>1, <2>1, <2>2, <3>1
  <2>3. listener.pc \in {"deriving", "encrypted"} => listener.slot \in Held
    BY DEF LinkInv, Admits
  <2>4. /\ asker.cmd \in {MESSAGE_RECEIVE, MESSAGE_INTERROGATE} /\ asker.slot \in Slots
        /\ asker.result \in {"none", "ok", "error"} /\ listener.result \in {"none", "ok", "error"}
        /\ listener.session \in 0 .. listens
    BY <2>1 DEF AskerType, ListenerType
  <2>5. Len(stored) <= asks
    BY <2>1
  <2> QED
    BY <2>2, <2>3, <2>4, <2>5 DEF LinkTypeOK
<1> QED
  BY <1>2, LinkInvariant, PTL

\* An image of the data files is one of them.
LEMMA WholeImages ==
  ASSUME NEW l, NEW image \in Images(l)
  PROVE  \E s \in 1 .. l, n \in Transferable : image = Payload("data", <<s, n>>)
  BY SMT DEF Images

(* Whatever is reset, lost or left over, and for any sizes, slots and      *)
(* groups: receive stores only one whole file of one listen command, of a  *)
(* slot and a group both sides admit, and no such file twice               *)
(* (receive.c:99-178, listen.c:143-244).                                   *)
THEOREM OnlySentFilesAreStored == LinkSpec => []OnlySentIsStored
<1>1. LinkInv => OnlySentIsStored
  <2> SUFFICES ASSUME LinkInv PROVE OnlySentIsStored
    OBVIOUS
  <2>1. ASSUME NEW i \in 1 .. Len(stored)
        PROVE  \E s \in 1 .. listens, n \in Transferable : stored[i].image = Payload("data", <<s, n>>)
    <3>1. stored[i] \in Files(listens)
      BY DEF LinkInv, LinkTypes
    <3>2. stored[i].image \in Images(listens)
      BY <3>1 DEF Files
    <3> QED
      BY <3>2, WholeImages
  <2>2. \A i, j \in 1 .. Len(stored) : i # j => stored[i].image # stored[j].image
    BY DEF LinkInv, FoundOnce
  <2> QED
    BY <2>1, <2>2 DEF OnlySentIsStored
<1> QED
  BY <1>1, LinkInvariant, PTL

\* A whole file tells its listen command and slot.
LEMMA SourceIs == \A s, n : Source(Payload("data", <<s, n>>)) = <<s, n>>
<1> SUFFICES ASSUME NEW s, NEW n PROVE Source(Payload("data", <<s, n>>)) = <<s, n>>
  OBVIOUS
<1> DEFINE q == Payload("data", <<s, n>>)  label == <<"data", s, n>>
<1>1. Len(label) = 3 /\ label[2] = s /\ label[3] = n
  OBVIOUS
<1>2. <<"data">> \o <<s, n>> = label
  BY Labels
<1> HIDE DEF label
<1>3. q[1].of = label
  <2>1. /\ Size["data"] \in Nat \ {0}
        /\ \A i \in 1 .. Size["data"] : q[i].of = <<"data">> \o <<s, n>>
    BY PayloadBytes DEF Kinds
  <2>2. 1 \in 1 .. Size["data"]
    BY <2>1
  <2> QED
    BY <1>2, <2>1, <2>2
<1> HIDE DEF q
<1>4. Source(q) = IF Len(label) = 3 /\ q = Payload("data", <<label[2], label[3]>>)
                  THEN <<label[2], label[3]>> ELSE <<0, NoSlot>>
  BY <1>3 DEF Source
<1>5. q = Payload("data", <<label[2], label[3]>>)
  BY <1>1 DEF q
<1> QED
  BY <1>1, <1>4, <1>5 DEF q

Delivered == [i \in 1 .. Len(stored) |-> Source(stored[i].image)]

LEMMA DeliveredSeq ==
  ASSUME LinkInv
  PROVE  /\ Delivered \in Seq((1 .. listens) \X Transferable) /\ Len(Delivered) = Len(stored)
         /\ \A i \in 1 .. Len(stored) : Delivered[i][1] \in InFlash
<1>1. Len(stored) \in Nat /\ \A i \in 1 .. Len(stored) : stored[i] \in Files(listens)
  BY DEF LinkInv, LinkTypes
<1>2. ASSUME NEW i \in 1 .. Len(stored)
      PROVE  /\ Source(stored[i].image) \in (1 .. listens) \X Transferable
             /\ Source(stored[i].image)[1] = SessionOf(stored[i].image[1])
  <2>0. stored[i].image \in Images(listens)
    <3>1. stored[i] \in Files(listens)
      BY <1>1
    <3> QED
      BY <3>1 DEF Files
  <2>1. PICK s \in 1 .. listens, n \in Transferable : stored[i].image = Payload("data", <<s, n>>)
    BY <2>0, WholeImages
  <2>2. Source(stored[i].image) = <<s, n>>
    BY <2>1, SourceIs
  <2>3. SessionOf(stored[i].image[1]) = s
    BY <2>1, DataHeads
  <2> QED
    BY <2>2, <2>3
<1>3. \A i \in 1 .. Len(stored) : Delivered[i] = Source(stored[i].image)
  BY DEF Delivered
<1>4. Delivered \in Seq((1 .. listens) \X Transferable) /\ Len(Delivered) = Len(stored)
  BY <1>1, <1>2 DEF Delivered
<1> QED
  BY <1>2, <1>3, <1>4 DEF InFlash

\* Only receive takes an offer, a key and a file (receive.c:65-118).
Receiving == asker.pc # "idle" /\ asker.cmd = MESSAGE_RECEIVE
ReceiveTakes == asker.pc \in {"offer", "deriving", "data", "verify"} => asker.cmd = MESSAGE_RECEIVE

LEMMA StoreDelivers ==
  ASSUME LinkInv, ReceiveTakes, StoreFile
  PROVE  \E s \in 1 .. listens, n \in Transferable : Transfer!Deliver(s, n)
<1> DEFINE image == asker.image  file == [asked |-> asker.slot, image |-> image]  N == Len(stored)
<1>1. /\ asker.pc = "verify" /\ stored' = Append(stored, file) /\ listens' = listens
      /\ Receiving /\ ~Receiving'
  <2>1. asker.pc = "verify" /\ stored' = Append(stored, file) /\ listens' = listens
        /\ asker' = AskerEnds("ok", image)
    BY DEF StoreFile, AskerIs
  <2>2. asker'.pc = "idle"
    BY <2>1, LinkFacts DEF AskerEnds, AskerType
  <2> QED
    BY <2>1, <2>2 DEF ReceiveTakes, Receiving
<1>2. PICK s \in 1 .. listens, n \in Transferable : image = Payload("data", <<s, n>>)
  BY <1>1, VerifiedImage DEF StoreFile
<1>3. Sessions(image) = {s}
  BY <1>2, DataHeads
<1>4. s \notin InFlash
  BY <1>1, <1>3 DEF LinkInv, FoundOnce, InImage
<1>5. N \in Nat /\ stored \in Seq(Files(listens))
  BY DEF LinkInv, LinkTypes
<1>6. /\ Len(stored') = N + 1 /\ stored'[N + 1].image = image
      /\ \A i \in 1 .. N : stored'[i] = stored[i]
  <2>1. /\ Len(stored') = N + 1 /\ stored'[N + 1] = file /\ \A i \in 1 .. N : stored'[i] = stored[i]
    BY <1>1, <1>5
  <2>2. file.image = image
    OBVIOUS
  <2> QED
    BY <2>1, <2>2
<1> HIDE DEF image, N
<1>7. Delivered' = Append(Delivered, <<s, n>>)
  <2>1. Source(stored'[N + 1].image) = <<s, n>>
    BY <1>2, <1>6, SourceIs
  <2>2. DOMAIN Delivered' = 1 .. N + 1 /\ \A i \in 1 .. N + 1 : Delivered'[i] = Source(stored'[i].image)
    BY <1>6 DEF Delivered
  <2>3. /\ Delivered \in Seq((1 .. listens) \X Transferable) /\ Len(Delivered) = N
        /\ \A i \in 1 .. N : Delivered[i] = Source(stored[i].image)
    BY DeliveredSeq DEF Delivered, N
  <2> DEFINE d == Append(Delivered, <<s, n>>)
  <2>4. /\ DOMAIN d = 1 .. N + 1 /\ d[N + 1] = <<s, n>>
        /\ \A i \in 1 .. N : d[i] = Delivered[i]
    <3>1. /\ d \in Seq((1 .. listens) \X Transferable) /\ Len(d) = N + 1
          /\ \A i \in 1 .. N : d[i] = Delivered[i] /\ d[N + 1] = <<s, n>>
      BY <2>3, AppendProperties
    <3> QED
      BY <2>3, <3>1
  <2> HIDE DEF d
  <2>5. \A i \in 1 .. N + 1 : i = N + 1 \/ i \in 1 .. N
    BY <1>5
  <2>6. \A i \in 1 .. N + 1 : Delivered'[i] = d[i]
    BY <1>6, <2>1, <2>2, <2>3, <2>4, <2>5
  <2>7. DOMAIN Delivered' = DOMAIN d
    BY <2>2, <2>4
  <2>8. Delivered' = [i \in 1 .. N + 1 |-> Delivered'[i]] /\ d = [i \in 1 .. N + 1 |-> d[i]]
    BY <2>2, <2>4, <1>6 DEF Delivered, d
  <2> QED
    BY <2>6, <2>8 DEF d
<1>8. Len(Delivered) = N /\ \A i \in 1 .. N : Delivered[i][1] # s
  BY <1>4, DeliveredSeq DEF N
<1>9. Transfer!Deliver(s, n)
  BY <1>1, <1>7, <1>8 DEF Transfer!Deliver, Delivered, Receiving
<1> QED
  BY <1>9

LEMMA ReceiveTakesKept == LinkInv /\ ReceiveTakes /\ [LinkNext]_linkVars => ReceiveTakes'
<1> SUFFICES ASSUME LinkInv, ReceiveTakes, [LinkNext]_linkVars PROVE ReceiveTakes'
  OBVIOUS
<1>1. /\ DOMAIN asker = {"pc", "cmd", "slot", "key", "image", "result", "met"}
      /\ asker = [a \in DOMAIN asker |-> asker[a]]
  BY LinkFacts DEF AskerType
<1>2. ASSUME asker'.pc = "idle" PROVE ReceiveTakes'
  BY <1>2 DEF ReceiveTakes
<1>3. ASSUME NEW result, NEW image, asker' = AskerEnds(result, image) PROVE ReceiveTakes'
  BY <1>1, <1>2, <1>3 DEF AskerEnds
<1>4. ASSUME NEW cmd, NEW slot, Ask(cmd, slot) PROVE ReceiveTakes'
  BY <1>4 DEF Ask, NoAsk, ReceiveTakes
<1>5. CASE SendBody \/ AwaitBodyAck
  BY <1>1, <1>5 DEF SendBody, AwaitBodyAck, ReceiveTakes
<1>6. CASE TakeAnswer
  <2>0. PICK p \in Parses(line["asker"]) : \E op \in AnswerOps(p.op) :
          /\ Exchange("asker", p.used, ACK)
          /\ asker' = IF op # asker.cmd THEN AskerEnds("error", <<>>)
                      ELSE [asker EXCEPT !.pc =
                             IF asker.cmd = MESSAGE_RECEIVE THEN "offer" ELSE "info"]
    BY <1>6 DEF TakeAnswer
  <2>1. PICK op \in AnswerOps(p.op) :
          asker' = IF op # asker.cmd THEN AskerEnds("error", <<>>)
                   ELSE [asker EXCEPT !.pc =
                          IF asker.cmd = MESSAGE_RECEIVE THEN "offer" ELSE "info"]
    BY <2>0, Zenon
  <2>2. CASE op # asker.cmd
    BY <1>3, <2>1, <2>2
  <2>3. CASE op = asker.cmd
    BY <1>1, <2>1, <2>3 DEF ReceiveTakes
  <2> QED
    BY <2>2, <2>3
<1>7. CASE TakeOffer
  <2>1. CASE asker' = AskerEnds("error", <<>>)
    BY <1>3, <2>1
  <2>2. CASE asker' = [asker EXCEPT !.pc = "deriving", !.key = Taken("asker", "offer")]
    BY <1>1, <1>7, <2>2 DEF TakeOffer, AskerIs, ReceiveTakes
  <2> QED
    BY <1>7, <2>1, <2>2 DEF TakeOffer
<1>8. CASE DeriveKey \/ TakeData
  BY <1>1, <1>8 DEF DeriveKey, TakeData, AskerIs, ReceiveTakes
<1>9. CASE StoreFile \/ RejectFile \/ TakeInfo
  BY <1>3, <1>9 DEF StoreFile, RejectFile, TakeInfo
<1>10. CASE ListenerStep \/ Listen \/ (\E d \in Devices : Overrun(d)) \/ UNCHANGED linkVars
  <2>1. asker' = asker
    BY <1>10 DEF ListenerStep, TakeRequest, TakeSlot, AnswerReceive, SendOffer, EncryptFile,
       SendFile, TakeList, AnswerInterrogate, RejectList, SendInfo, FinishListen, Listen, Overrun,
       linkVars
  <2> QED
    BY <2>1 DEF ReceiveTakes
<1>11. CASE ResetAsker
  BY <1>2, <1>11 DEF ResetAsker, NoAsk
<1>12. CASE ResetListener
  BY <1>1, <1>12 DEF ResetListener, ReceiveTakes
<1> QED
  BY <1>4, <1>5, <1>6, <1>7, <1>8, <1>9, <1>10, <1>11, <1>12 DEF LinkNext, AskerStep

\* Every other step begins or ends a receive command, gives a listen command or shows nothing.
LEMMA NextTransfers ==
  LinkInv /\ ReceiveTakes /\ [LinkNext]_linkVars => [Transfer!Next]_(Transfer!vars)
<1> SUFFICES ASSUME LinkInv, ReceiveTakes, [LinkNext]_linkVars
             PROVE  [Transfer!Next]_(Transfer!vars)
  OBVIOUS
<1>1. ASSUME stored' = stored PROVE Delivered' = Delivered
  BY <1>1 DEF Delivered
<1>2. ASSUME NEW cmd, NEW slot, Ask(cmd, slot) PROVE [Transfer!Next]_(Transfer!vars)
  <2>1. listens' = listens /\ stored' = stored /\ asker.pc = "idle"
    BY <1>2 DEF Ask
  <2>2. ~Receiving
    BY <2>1 DEF Receiving
  <2>3. Delivered' = Delivered
    BY <1>1, <2>1
  <2>4. CASE Receiving'
    BY <2>1, <2>2, <2>3, <2>4 DEF Transfer!Next, Transfer!Receive, Delivered, Receiving
  <2>5. CASE ~Receiving'
    BY <2>1, <2>2, <2>3, <2>5 DEF Transfer!vars, Delivered, Receiving
  <2> QED
    BY <2>4, <2>5
<1>3. ASSUME Listen PROVE Transfer!Next
  <2>1. listens' = listens + 1 /\ asker' = asker /\ stored' = stored
    BY <1>3 DEF Listen
  <2> QED
    BY <1>1, <2>1 DEF Transfer!Next, Transfer!Listen, Delivered
<1>4. ASSUME StoreFile PROVE Transfer!Next
  BY <1>4, StoreDelivers DEF Transfer!Next
<1>5. ASSUME listens' = listens, stored' = stored, ~(~Receiving /\ Receiving')
      PROVE  [Transfer!Next]_(Transfer!vars)
  <2>1. Delivered' = Delivered
    BY <1>1, <1>5
  <2>2. CASE Receiving /\ ~Receiving'
    BY <1>5, <2>1, <2>2 DEF Transfer!Next, Transfer!GiveUp, Delivered, Receiving
  <2>3. CASE Receiving = Receiving'
    BY <1>5, <2>1, <2>3 DEF Transfer!vars, Delivered, Receiving
  <2> QED
    BY <1>5, <2>2, <2>3 DEF Receiving
<1>6. CASE \/ SendBody \/ AwaitBodyAck \/ TakeAnswer \/ TakeOffer \/ DeriveKey \/ TakeData
           \/ RejectFile \/ TakeInfo
  <2>1. listens' = listens /\ stored' = stored /\ asker.pc # "idle"
    BY <1>6 DEF SendBody, AwaitBodyAck, TakeAnswer, TakeOffer, DeriveKey, TakeData,
       RejectFile, TakeInfo, AskerIs
  <2>2. asker'.cmd = asker.cmd
    <3>1. /\ DOMAIN asker = {"pc", "cmd", "slot", "key", "image", "result", "met"}
          /\ asker = [a \in DOMAIN asker |-> asker[a]]
      BY LinkFacts DEF AskerType
    <3> QED
      BY <1>6, <3>1 DEF SendBody, AwaitBodyAck, TakeAnswer, TakeOffer, DeriveKey, TakeData,
         RejectFile, TakeInfo, AskerEnds
  <2> QED
    BY <1>5, <2>1, <2>2 DEF Receiving
<1>7. CASE ListenerStep \/ (\E d \in Devices : Overrun(d)) \/ UNCHANGED linkVars
  <2>1. asker' = asker /\ listens' = listens /\ stored' = stored
    BY <1>7 DEF ListenerStep, TakeRequest, TakeSlot, AnswerReceive, SendOffer, EncryptFile,
       SendFile, TakeList, AnswerInterrogate, RejectList, SendInfo, FinishListen, ListenerIs,
       Overrun, linkVars
  <2> QED
    BY <1>5, <2>1 DEF Receiving
<1>8. CASE ResetAsker
  <2>1. listens' = listens /\ stored' = stored /\ asker'.pc = "idle"
    BY <1>8 DEF ResetAsker, NoAsk
  <2> QED
    BY <1>5, <2>1 DEF Receiving
<1>9. CASE ResetListener
  <2>1. /\ DOMAIN asker = {"pc", "cmd", "slot", "key", "image", "result", "met"}
        /\ asker = [a \in DOMAIN asker |-> asker[a]]
    BY LinkFacts DEF AskerType
  <2>2. listens' = listens /\ stored' = stored /\ asker'.pc = asker.pc /\ asker'.cmd = asker.cmd
    BY <1>9, <2>1 DEF ResetListener
  <2> QED
    BY <1>5, <2>2 DEF Receiving
<1> QED
  BY <1>2, <1>3, <1>4, <1>6, <1>7, <1>8, <1>9 DEF LinkNext, AskerStep

(* Through any resets and lost or left-over bytes, the two programs do no  *)
(* more than FileTransfer allows: each listen command gives away at most   *)
(* one file, whole and transferable, and each is stored at most once, by a *)
(* receive command of its own (receive.c:99-178, listen.c:143-244).        *)
THEOREM LinkImplementsFileTransfer == LinkSpec => KeepsFileTransfer
<1>1. LinkInit => Transfer!Init
  <2> SUFFICES ASSUME LinkInit PROVE Transfer!Init
    OBVIOUS
  <2>1. listens = 0 /\ stored = <<>> /\ asker.pc = "idle"
    BY DEF LinkInit, NoAsk
  <2>2. [i \in 1 .. Len(stored) |-> Source(stored[i].image)] = <<>>
    BY <2>1
  <2> QED
    BY <2>1, <2>2 DEF Transfer!Init
<1>2. LinkInit => ReceiveTakes
  BY DEF LinkInit, NoAsk, ReceiveTakes
<1> QED
  BY <1>1, <1>2, LinkInvariant, ReceiveTakesKept, NextTransfers, PTL
  DEF LinkSpec, KeepsFileTransfer, Transfer!Spec
=============================================================================
