------------------------------- MODULE HsmLink -------------------------------
(***************************************************************************)
(* The dialogue of two HSMs over UART1: message/receive.c or               *)
(* message/interrogate.c on the "asker", message/listen.c on the           *)
(* "listener".  Every read is a blocking poll without a timeout, headers   *)
(* are found by their magic byte alone, and nothing is ever flushed, so    *)
(* what one side leaves unread the next dialogue reads.                    *)
(*                                                                         *)
(* line[d] is what was sent to device d and is unread: its first bytes are *)
(* in d's FIFO, the rest on the wire.  A device that polls reads bytes as  *)
(* they come; a deaf one (computing, or between commands) holds FIFO_DEPTH *)
(* bytes and loses the next.  A reset, by the watchdog or by power, clears *)
(* the FIFO of that device only.                                           *)
(* Operators marked "Fault" are wrong variants no specification uses.      *)
(***************************************************************************)
EXTENDS Integers, Sequences

CONSTANTS
  NUM_SLOTS,   \* the highest slot number the code admits
  FIFO_DEPTH,  \* entries of a receive FIFO
  Size,        \* bytes of an "offer" (group and key), a file, a list, an info
  Held,        \* slots whose file_size the listener finds plausible
  Known,       \* slots whose group the listener has
  Permitted,   \* slots whose group the asker has with transfer permission
  Ciphertext,  \* values an encrypted byte may have
  MaxEvents    \* bound on the commands and resets in all

Kinds == {"offer", "data", "list", "info"}
Slots == 0 .. NUM_SLOTS
NoSlot == -1

ASSUME LinkAssumption ==
  /\ NUM_SLOTS \in 0 .. 36 /\ FIFO_DEPTH \in Nat
  /\ Size \in [Kinds -> Nat \ {0}]
  /\ Held \subseteq Slots /\ Known \subseteq Slots /\ Permitted \subseteq Slots
  /\ Ciphertext \subseteq 0 .. 255
  /\ MaxEvents \in Nat

VARIABLES
  line,      \* bytes sent to each device and not yet read
  asker,     \* message_recieve or message_interrogate
  listener,  \* message_listen
  stored,    \* history: what receive programmed into its slot
  asks,      \* history: commands given to the asker
  listens,   \* history: listen commands; numbers the ephemeral keys
  resets,    \* history: resets of either device
  clean      \* history: no reset, and every ask was met by one listen

linkVars == <<line, asker, listener, stored, asks, listens, resets, clean>>

Devices == {"asker", "listener"}
Peer(d) == IF d = "asker" THEN "listener" ELSE "asker"

-----------------------------------------------------------------------------
(* Bytes.  Ciphertext may have any value; `of` says what it belongs to.    *)

MAGIC == 37
MESSAGE_RECEIVE == 67
MESSAGE_INTERROGATE == 73
MESSAGE_ACK == 65
MESSAGE_ERROR == 69
Malformed == -1  \* header not recognised: the operation is left as it was

Plain(v) == [val |-> v, of |-> <<>>]
Values(b) == IF b.of = <<>> THEN {b.val} ELSE Ciphertext

Header(op) == <<Plain(MAGIC), Plain(op), Plain(0), Plain(0)>>
Payload(kind, what) ==
  [i \in 1 .. Size[kind] |-> [val |-> i, of |-> <<kind>> \o what]]
ACK == Header(MESSAGE_ACK)

\* interrogate announces the length of its list, which is no slot number.
LIST_LENGTH == 64
Request(cmd) ==
  [Header(cmd) EXCEPT ![3] = Plain(IF cmd = MESSAGE_INTERROGATE THEN LIST_LENGTH ELSE 0)]

\* message_header_request: how many bytes of q it reads, and the operation.
Parses(q) ==
  IF q = <<>> THEN {} ELSE
  {[used |-> 1, op |-> Malformed] : v \in Values(q[1]) \ {MAGIC}}
  \cup (IF MAGIC \in Values(q[1]) /\ Len(q) >= 4
        THEN {[used |-> 4, op |-> v] : v \in Values(q[2])} ELSE {})

\* Device d reads n bytes and sends some.
Exchange(d, n, bytes) ==
  line' = [line EXCEPT ![d] = SubSeq(@, n + 1, Len(@)), ![Peer(d)] = @ \o bytes]

\* What device d finds when it reads a payload of that kind.
Taken(d, kind) == SubSeq(line[d], 1, Size[kind])

AskerIs(p) == asker.pc = p /\ UNCHANGED <<asks, listens, resets, clean>>
ListenerIs(p) == listener.pc = p /\ UNCHANGED <<asks, listens, resets, clean>>

AskerEnds(result, image) ==
  [asker EXCEPT !.pc = "idle", !.key = <<>>, !.image = image, !.result = result]
ListenerEnds(result) ==
  [listener EXCEPT !.pc = "idle", !.slot = NoSlot, !.result = result]

-----------------------------------------------------------------------------
Budget == asks + listens + resets < MaxEvents

NoAsk == [pc |-> "idle", cmd |-> MESSAGE_RECEIVE, slot |-> 0, key |-> <<>>,
          image |-> <<>>, result |-> "none", met |-> FALSE]
NoListen == [pc |-> "idle", session |-> 0, since |-> 0, slot |-> NoSlot, result |-> "none"]

LinkInit ==
  /\ line = [d \in Devices |-> <<>>]
  /\ asker = NoAsk /\ listener = NoListen /\ stored = <<>>
  /\ asks = 0 /\ listens = 0 /\ resets = 0 /\ clean = TRUE

(* message_recieve and message_interrogate, after their PIN and slot       *)
(* checks.  met: the listener listens, and this is the first ask it gets.  *)

\* A listen was given for this ask, or will be.
PairedAsk ==
  \/ listens = asks + 1
  \/ listens = asks /\ listener.pc = "idle"

\* Fault: the slot follows the request without waiting for the ACK.
Ask_eager(cmd, slot) ==
  /\ asker.pc = "idle" /\ Budget /\ asks' = asks + 1
  /\ asker' = [NoAsk EXCEPT !.pc = "requested", !.cmd = cmd, !.slot = slot,
                            !.met = listener.pc # "idle" /\ listener.since = asks]
  /\ Exchange("asker", 0, Append(Request(cmd), Plain(slot)))
  /\ clean' = (clean /\ PairedAsk)
  /\ UNCHANGED <<listener, stored, listens, resets>>

Ask(cmd, slot) ==
  /\ asker.pc = "idle" /\ Budget /\ asks' = asks + 1
  /\ asker' = [NoAsk EXCEPT !.pc = "requested", !.cmd = cmd, !.slot = slot,
                            !.met = listener.pc # "idle" /\ listener.since = asks]
  /\ Exchange("asker", 0, Request(cmd))
  /\ clean' = (clean /\ PairedAsk)
  /\ UNCHANGED <<listener, stored, listens, resets>>

\* After the first ACK, whatever it was, the slot number or the group list.
SendBody ==
  /\ AskerIs("requested")
  /\ \E p \in Parses(line["asker"]) :
       Exchange("asker", p.used,
                IF asker.cmd = MESSAGE_RECEIVE THEN <<Plain(asker.slot)>>
                                               ELSE Payload("list", <<>>))
  /\ asker' = [asker EXCEPT !.pc = "sent"]
  /\ UNCHANGED <<listener, stored>>

AwaitBodyAck ==
  /\ AskerIs("sent")
  /\ \E p \in Parses(line["asker"]) : Exchange("asker", p.used, <<>>)
  /\ asker' = [asker EXCEPT !.pc = "answer"]
  /\ UNCHANGED <<listener, stored>>

\* The operation the asker goes by: a malformed answer leaves receive its own
\* request, and interrogate a header it never initialised.
AnswerOps(op) ==
  IF op # Malformed THEN {op}
  ELSE IF asker.cmd = MESSAGE_RECEIVE THEN {MESSAGE_RECEIVE}
  ELSE {MESSAGE_INTERROGATE, Malformed}

\* Fault: the answer is checked before it is acknowledged.
TakeAnswer_checksFirst ==
  /\ AskerIs("answer")
  /\ \E p \in Parses(line["asker"]) : \E op \in AnswerOps(p.op) :
       /\ Exchange("asker", p.used, IF op = asker.cmd THEN ACK ELSE <<>>)
       /\ asker' = IF op # asker.cmd THEN AskerEnds("error", <<>>)
                   ELSE [asker EXCEPT !.pc =
                          IF asker.cmd = MESSAGE_RECEIVE THEN "offer" ELSE "info"]
  /\ UNCHANGED <<listener, stored>>

TakeAnswer ==
  /\ AskerIs("answer")
  /\ \E p \in Parses(line["asker"]) : \E op \in AnswerOps(p.op) :
       /\ Exchange("asker", p.used, ACK)
       /\ asker' = IF op # asker.cmd THEN AskerEnds("error", <<>>)
                   ELSE [asker EXCEPT !.pc =
                          IF asker.cmd = MESSAGE_RECEIVE THEN "offer" ELSE "info"]
  /\ UNCHANGED <<listener, stored>>

\* The group id of an offer that arrived whole is the slot's; of shifted
\* bytes it may be any.
Whole(kind, bytes) == \E s \in 0 .. MaxEvents, n \in Slots :
                        bytes = Payload(kind, <<s, n>>)

TakeOffer ==
  /\ AskerIs("offer") /\ Len(line["asker"]) >= Size["offer"]
  /\ Exchange("asker", Size["offer"], <<>>)
  /\ LET offer == Taken("asker", "offer") IN
     \/ /\ Whole("offer", offer) => offer[1].of[3] \in Permitted
        /\ asker' = [asker EXCEPT !.pc = "deriving", !.key = offer]
     \/ /\ Whole("offer", offer) => offer[1].of[3] \notin Permitted
        /\ asker' = AskerEnds("error", <<>>)  \* the listener is not told
  /\ UNCHANGED <<listener, stored>>

\* Fault: the ACK for the key is forgotten.
DeriveKey_silent ==
  /\ AskerIs("deriving")
  /\ asker' = [asker EXCEPT !.pc = "data"]
  /\ UNCHANGED <<line, listener, stored>>

DeriveKey ==
  /\ AskerIs("deriving")
  /\ Exchange("asker", 0, ACK)
  /\ asker' = [asker EXCEPT !.pc = "data"]
  /\ UNCHANGED <<listener, stored>>

TakeData ==
  /\ AskerIs("data") /\ Len(line["asker"]) >= Size["data"]
  /\ Exchange("asker", Size["data"], ACK)
  /\ asker' = [asker EXCEPT !.pc = "verify", !.image = Taken("asker", "data")]
  /\ UNCHANGED <<listener, stored>>

\* Fault: the first bytes are taken for the whole.
Verified_byHead ==
  /\ Whole("offer", asker.key)
  /\ asker.image[1] = Payload("data", <<asker.key[1].of[2], asker.key[1].of[3]>>)[1]

\* The tag: the image is whole and encrypted under the key of the offer.  The two HSMs
\* share their transfer keys; Deployment has those that do not.
Verified ==
  /\ Whole("offer", asker.key)
  /\ asker.image = Payload("data", <<asker.key[1].of[2], asker.key[1].of[3]>>)

StoreFile ==
  /\ AskerIs("verify") /\ Verified
  /\ stored' = Append(stored, [asked |-> asker.slot, image |-> asker.image])
  /\ asker' = AskerEnds("ok", asker.image)
  /\ UNCHANGED <<line, listener>>

RejectFile ==
  /\ AskerIs("verify") /\ ~Verified
  /\ asker' = AskerEnds("error", <<>>)
  /\ UNCHANGED <<line, listener, stored>>

\* Interrogate reports what it verified under the one static TRANSFER_KEY.
TakeInfo ==
  /\ AskerIs("info") /\ Len(line["asker"]) >= Size["info"]
  /\ Exchange("asker", Size["info"], ACK)
  /\ LET info == Taken("asker", "info") IN
     asker' = IF \E s \in 0 .. MaxEvents : info = Payload("info", <<s>>)
              THEN AskerEnds("ok", info) ELSE AskerEnds("error", <<>>)
  /\ UNCHANGED <<listener, stored>>

AskerStep ==
  \/ SendBody \/ AwaitBodyAck \/ TakeAnswer \/ TakeOffer \/ DeriveKey
  \/ TakeData \/ StoreFile \/ RejectFile \/ TakeInfo
-----------------------------------------------------------------------------
(* message_listen.                                                         *)

Listen ==
  /\ listener.pc = "idle" /\ Budget /\ listens' = listens + 1
  /\ listener' = [NoListen EXCEPT !.pc = "request", !.session = listens + 1,
                                   !.since = asks]
  /\ clean' = (clean /\ asks \in {listens, listens + 1})
  /\ UNCHANGED <<line, asker, stored, asks, resets>>

\* A malformed request leaves the operation uninitialised.
RequestOps(op) ==
  IF op # Malformed THEN {op} ELSE {MESSAGE_RECEIVE, MESSAGE_INTERROGATE, Malformed}

\* Any other operation is answered with success to the host.
TakeRequest ==
  /\ ListenerIs("request")
  /\ \E p \in Parses(line["listener"]) : \E op \in RequestOps(p.op) :
       CASE op = MESSAGE_RECEIVE ->
              /\ Exchange("listener", p.used, ACK)
              /\ listener' = [listener EXCEPT !.pc = "slot"]
         [] op = MESSAGE_INTERROGATE ->
              /\ Exchange("listener", p.used, ACK)
              /\ listener' = [listener EXCEPT !.pc = "list"]
         [] OTHER ->
              /\ Exchange("listener", p.used, <<>>)
              /\ listener' = ListenerEnds("ok")
  /\ UNCHANGED <<asker, stored>>

TakeSlot ==
  /\ ListenerIs("slot") /\ line["listener"] # <<>>
  /\ \E v \in Values(Head(line["listener"])) :
       listener' = [listener EXCEPT !.pc = "looking",
                                         !.slot = IF v \in Slots THEN v ELSE NoSlot]
  /\ Exchange("listener", 1, ACK)
  /\ UNCHANGED <<asker, stored>>

\* Fault: the size of the file is not looked at.
Found_anySlot == listener.slot \in Slots

Found == listener.slot \in Held

AnswerReceive ==
  /\ ListenerIs("looking")
  /\ Exchange("listener", 0, Header(IF Found THEN MESSAGE_RECEIVE ELSE MESSAGE_ERROR))
  /\ listener' = [listener EXCEPT !.pc = "answered"]
  /\ UNCHANGED <<asker, stored>>

\* The asker has acknowledged the answer; an unknown group ends the listen
\* without a word to it.
SendOffer ==
  /\ ListenerIs("answered")
  /\ \E p \in Parses(line["listener"]) :
       IF Found /\ listener.slot \in Known
       THEN /\ Exchange("listener", p.used,
                        Payload("offer", <<listener.session, listener.slot>>))
            /\ listener' = [listener EXCEPT !.pc = "deriving"]
       ELSE /\ Exchange("listener", p.used, <<>>)
            /\ listener' = ListenerEnds("error")
  /\ UNCHANGED <<asker, stored>>

EncryptFile ==
  /\ ListenerIs("deriving")
  /\ listener' = [listener EXCEPT !.pc = "encrypted"]
  /\ UNCHANGED <<line, asker, stored>>

\* Fault: the file leaves under a key the asker has not derived yet.
SendFile_unasked ==
  /\ ListenerIs("encrypted")
  /\ Exchange("listener", 0, Payload("data", <<listener.session, listener.slot>>))
  /\ listener' = [listener EXCEPT !.pc = "delivered"]
  /\ UNCHANGED <<asker, stored>>

SendFile ==
  /\ ListenerIs("encrypted")
  /\ \E p \in Parses(line["listener"]) :
       Exchange("listener", p.used, Payload("data", <<listener.session, listener.slot>>))
  /\ listener' = [listener EXCEPT !.pc = "delivered"]
  /\ UNCHANGED <<asker, stored>>

TakeList ==
  /\ ListenerIs("list") /\ Len(line["listener"]) >= Size["list"]
  /\ Exchange("listener", Size["list"], ACK)
  /\ listener' = [listener EXCEPT
       !.pc = IF Taken("listener", "list") = Payload("list", <<>>)
              THEN "matching" ELSE "badList"]
  /\ UNCHANGED <<asker, stored>>

AnswerInterrogate ==
  /\ ListenerIs("matching")
  /\ Exchange("listener", 0, Header(MESSAGE_INTERROGATE))
  /\ listener' = [listener EXCEPT !.pc = "matched"]
  /\ UNCHANGED <<asker, stored>>

RejectList ==
  /\ ListenerIs("badList")
  /\ listener' = ListenerEnds("error")
  /\ UNCHANGED <<line, asker, stored>>

SendInfo ==
  /\ ListenerIs("matched")
  /\ \E p \in Parses(line["listener"]) :
       Exchange("listener", p.used, Payload("info", <<listener.session>>))
  /\ listener' = [listener EXCEPT !.pc = "delivered"]
  /\ UNCHANGED <<asker, stored>>

\* Fault: the last ACK stays in the FIFO.
FinishListen_early ==
  /\ ListenerIs("delivered")
  /\ listener' = ListenerEnds("ok")
  /\ UNCHANGED <<line, asker, stored>>

FinishListen ==
  /\ ListenerIs("delivered")
  /\ \E p \in Parses(line["listener"]) : Exchange("listener", p.used, <<>>)
  /\ listener' = ListenerEnds("ok")
  /\ UNCHANGED <<asker, stored>>

ListenerStep ==
  \/ TakeRequest \/ TakeSlot \/ AnswerReceive \/ SendOffer \/ EncryptFile
  \/ SendFile \/ TakeList \/ AnswerInterrogate \/ RejectList \/ SendInfo
  \/ FinishListen
-----------------------------------------------------------------------------
Deaf(d) ==
  IF d = "asker" THEN asker.pc \in {"idle", "deriving", "verify"}
  ELSE listener.pc \in {"idle", "looking", "deriving", "matching", "badList"}

\* The FIFO of a deaf device is full and the next byte arrives.
Overrun(d) ==
  /\ Deaf(d) /\ Len(line[d]) > FIFO_DEPTH
  /\ line' = [line EXCEPT ![d] = SubSeq(@, 1, FIFO_DEPTH)
                                 \o SubSeq(@, FIFO_DEPTH + 2, Len(@))]
  /\ UNCHANGED <<asker, listener, stored, asks, listens, resets, clean>>

\* The watchdog or a power loss: what had arrived is lost, what is still on
\* the wire is not, and the other device notices nothing.
ResetAsker ==
  /\ Budget /\ resets' = resets + 1
  /\ asker' = NoAsk
  /\ \E n \in 0 .. Len(line["asker"]) : Exchange("asker", n, <<>>)
  /\ clean' = FALSE
  /\ UNCHANGED <<listener, stored, asks, listens>>

ResetListener ==
  /\ Budget /\ resets' = resets + 1
  /\ listener' = NoListen
  /\ \E n \in 0 .. Len(line["listener"]) : Exchange("listener", n, <<>>)
  /\ asker' = [asker EXCEPT !.met = FALSE]
  /\ clean' = FALSE
  /\ UNCHANGED <<stored, asks, listens>>

LinkNext ==
  \/ \E cmd \in {MESSAGE_RECEIVE, MESSAGE_INTERROGATE}, slot \in Slots : Ask(cmd, slot)
  \/ Listen
  \/ AskerStep \/ ListenerStep
  \/ \E d \in Devices : Overrun(d)
  \/ ResetAsker \/ ResetListener

LinkSpec == LinkInit /\ [][LinkNext]_linkVars

\* Both devices keep running; nobody is obliged to give a command or to reset.
LinkFairSpec ==
  LinkSpec /\ WF_linkVars(AskerStep) /\ WF_linkVars(ListenerStep)
-----------------------------------------------------------------------------
(* Type invariant: numbers in range, and the listener encrypts only slots  *)
(* it admits (listen.c:148, 180).  The value of a byte in the clear is a   *)
(* byte; an encrypted one has a number in its payload instead.             *)
LinkTypeOK ==
  /\ \A d \in Devices : \A i \in 1 .. Len(line[d]) :
       line[d][i].of = <<>> => line[d][i].val \in 0 .. 255
  /\ asker.cmd \in {MESSAGE_RECEIVE, MESSAGE_INTERROGATE} /\ asker.slot \in Slots
  /\ asker.result \in {"none", "ok", "error"}
  /\ listener.result \in {"none", "ok", "error"}
  /\ listener.session \in 0 .. listens
  /\ listener.pc \in {"deriving", "encrypted"} => listener.slot \in Held
  /\ Len(stored) <= asks

\* A file the two devices may exchange.
Transferable == Held \cap Known \cap Permitted
Servable == asker.cmd = MESSAGE_INTERROGATE \/ asker.slot \in Transferable

(* Whatever resets, lost bytes and stale bytes do to the dialogue, receive *)
(* stores only one whole file of one listen command, of a slot the         *)
(* listener admits and a group the asker may transfer, and never the image *)
(* of one listen twice (receive.c:147-178, listen.c:201-244).              *)
OnlySentIsStored ==
  /\ \A i \in 1 .. Len(stored) :
       \E s \in 1 .. listens, n \in Transferable :
         stored[i].image = Payload("data", <<s, n>>)
  /\ \A i, j \in 1 .. Len(stored) : i # j => stored[i].image # stored[j].image

(* Whatever happens to the dialogue, the two programs keep FileTransfer:   *)
(* one file per listen command, whole, transferable, and stored by one     *)
(* receive command (receive.c:147-178, listen.c:201-244).  What was given  *)
(* away can be told from the first byte of an image, if the image is whole.*)
Source(image) ==
  LET of == image[1].of
  IN  IF Len(of) = 3 /\ image = Payload("data", <<of[2], of[3]>>)
      THEN <<of[2], of[3]>> ELSE <<0, NoSlot>>

Transfer == INSTANCE FileTransfer WITH
  receiving <- asker.pc # "idle" /\ asker.cmd = MESSAGE_RECEIVE,
  delivered <- [i \in 1 .. Len(stored) |-> Source(stored[i].image)]

KeepsFileTransfer == Transfer!Spec

(* Without resets, and with one listen to each ask, what the two devices   *)
(* tell their hosts agrees with what happened: receive stores the slot     *)
(* asked for from this listen, interrogate shows this listen's answer, the *)
(* listener reports success only after the asker took everything, and no   *)
(* dialogue about a transferable file or a list fails                      *)
(* (listen.c:35-247, receive.c:59-182, interrogate.c:58-163).              *)
CleanDialogue ==
  clean =>
    /\ asker.result = "ok" /\ asker.cmd = MESSAGE_RECEIVE =>
         stored[Len(stored)] = [asked |-> asker.slot,
                                image |-> Payload("data", <<asks, asker.slot>>)]
    /\ asker.result = "ok" /\ asker.cmd = MESSAGE_INTERROGATE =>
         asker.image = Payload("info", <<asks>>)
    /\ asker.result = "error" =>
         asker.cmd = MESSAGE_RECEIVE /\ asker.slot \notin Transferable
    /\ listener.result = "ok" /\ listens = asks => asker.image # <<>>
    /\ listener.result = "error" /\ listens = asks =>
         asker.cmd = MESSAGE_RECEIVE /\ asker.slot \notin Transferable

(* A clean dialogue both sides have ended leaves no byte behind for the    *)
(* next one (header.c:69-82, receive.c:65-72, listen.c:175-184).           *)
NothingLeftBehind ==
  clean /\ asker.pc = "idle" /\ asks = listens /\ listener.pc = "idle" =>
    \A d \in Devices : line[d] = <<>>

(* In clean dialogues the turns are so taken that no device is sent more   *)
(* than its FIFO holds while it computes (receive.c:99-112,                *)
(* listen.c:146-175, 199-240).                                             *)
FifoSuffices == clean => \A d \in Devices : Deaf(d) => Len(line[d]) <= FIFO_DEPTH

(* In a clean dialogue the two sides never wait for each other, except     *)
(* where one of them gave up without a word: listen has announced a file   *)
(* of a group it does not know (listen.c:188-192), or receive lacks the    *)
(* permission for the offer (receive.c:85-95).  HSMs of two deployments    *)
(* would add listen.c:75-79, a list that fails its tag.  A device that     *)
(* computes, or has received what it polls for, is ready.                  *)
AskerReady ==
  \/ asker.pc \in {"deriving", "verify"}
  \/ asker.pc \in {"requested", "sent", "answer"} /\ Parses(line["asker"]) # {}
  \/ asker.pc \in {"offer", "data", "info"} /\ Len(line["asker"]) >= Size[asker.pc]
ListenerReady ==
  \/ listener.pc \in {"looking", "deriving", "matching", "badList"}
  \/ listener.pc \in {"request", "answered", "encrypted", "matched", "delivered"}
     /\ Parses(line["listener"]) # {}
  \/ listener.pc = "slot" /\ line["listener"] # <<>>
  \/ listener.pc = "list" /\ Len(line["listener"]) >= Size["list"]
NeverStuck ==
  clean /\ asks = listens =>
    \/ AskerReady \/ ListenerReady
    \/ asker.pc = "idle" /\ listener.pc = "idle"
    \/ /\ asker.cmd = MESSAGE_RECEIVE
       /\ \/ asker.pc = "offer" /\ listener.pc = "idle" /\ asker.slot \in Held \ Known
          \/ asker.pc = "idle" /\ listener.pc = "encrypted" /\ asker.slot \notin Permitted

(* A clean dialogue about a transferable file, or an interrogation, comes  *)
(* to its end on both sides (listen.c:35-247, receive.c:59-182).           *)
DialogueEnds ==
  (clean /\ asks = listens /\ asks > 0 /\ Servable) ~>
    (~clean \/ asks # listens \/ (asker.result = "ok" /\ listener.result = "ok"))

(* docs/misc.md:7 has the watchdog make "any issues with incomplete        *)
(* messages or other errors recoverable": after whatever happened, asking  *)
(* an HSM that listens, and was not asked since it does, for a file it may *)
(* send does not fail (receive.c:59-72, listen.c:32-33, 143-152).          *)
TroubleIsOver ==
  asker.met /\ Servable => asker.result # "error"
=============================================================================
