--------------------------- MODULE ReadStreamProofs ---------------------------
(***************************************************************************)
(* The double buffer of read.c for every chunk, block and header length    *)
(* and every file.  The invariant says for each place in the program which *)
(* chunk of the plaintext each buffer holds (Holds), how far the channel   *)
(* has come with the one it sends (Sending), and which ACK is under way;   *)
(* that chunks meet where the host acknowledges is arithmetic of multiples.*)
(***************************************************************************)
EXTENDS ReadStream, Integers, TLAPS

Quiet == ~tx.active /\ owes = 0 /\ acks = 0
AckDue == ~tx.active /\ owes + acks = 1

\* Buffer b is laid out for a chunk of the plaintext: whole blocks, from the beginning
\* (after the name) or from where the host acknowledged.
Chunk(b) ==
  LET r == bufs[b] IN
  /\ r.start % AES_BLOCK = 0 /\ r.length % AES_BLOCK = 0 /\ r.done % AES_BLOCK = 0
  /\ 0 < r.length /\ r.done <= r.length
  /\ \/ r.start = 0 /\ r.length <= CHUNK_SIZE - READ_HEADER_LENGTH
     \/ (READ_HEADER_LENGTH + r.start) % CHUNK_SIZE = 0 /\ r.length <= CHUNK_SIZE

\* ... and it is the last one prepared.
Latest(b) ==
  /\ Chunk(b) /\ file.length > 0
  /\ read = bufs[b].start + bufs[b].length /\ read <= Padded(file.length)
  /\ read = Padded(file.length) \/ (READ_HEADER_LENGTH + read) % CHUNK_SIZE = 0

Holds(b) == Chunk(b) /\ bufs[b].done = bufs[b].length

\* The channel sends that many bytes of buffer b, and has sent pos of them.
Sending(b, bytes) ==
  LET from == READ_HEADER_LENGTH + bufs[b].start IN
  /\ Holds(b)
  /\ tx.active => /\ tx.buf = b /\ tx.left > 0 /\ tx.pos + tx.left = bytes
                  /\ got = from + tx.pos /\ owes = 0 /\ acks = 0
  /\ ~tx.active => AckDue /\ got = from + bytes

\* The tag has failed, and the host acknowledges no more than the end of the body.
TagFailed ==
  /\ ~file.intact /\ file.length > 0
  /\ \A n \in got + 1 .. Body : n % CHUNK_SIZE = 0 => n = Body

\* An error in answer to the request gets its ACKs; one in the middle of the body gets
\* one, for its header, if that fills the body, and none for its text.
ErrorStage ==
  /\ pc = "error" => Quiet /\ (got = 0 \/ TagFailed)
  /\ pc = "errorHeader" =>
       /\ ~tx.active /\ (got = 0 => AckDue)
       /\ got # 0 => /\ TagFailed /\ owes + acks <= 1
                     /\ owes + acks = 1 => Body <= got + HEADER_SIZE
  /\ pc = "errorText" => (got = 0 /\ AckDue) \/ (got # 0 /\ Quiet /\ TagFailed)

Stage ==
  /\ pc = "idle" => Quiet
  /\ pc = "name" => AckDue /\ got = 0 /\ read = 0 /\ aes = 1
                    /\ bufs = [b \in {1, 2} |-> EmptyBuffer]
  /\ pc = "first" => Quiet /\ got = READ_HEADER_LENGTH /\ Latest(aes) /\ bufs[aes].start = 0
  /\ pc = "loop" => Quiet /\ Latest(uart) /\ Holds(uart)
                    /\ got = READ_HEADER_LENGTH + bufs[uart].start
  /\ pc = "decrypt" => /\ Latest(aes) /\ Sending(uart, bufs[uart].length)
                       /\ bufs[aes].start = bufs[uart].start + bufs[uart].length
                       /\ (READ_HEADER_LENGTH + bufs[aes].start) % CHUNK_SIZE = 0
  /\ pc = "last" => /\ Latest(uart) /\ read = Padded(file.length) /\ file.intact
                    /\ Sending(uart, file.length - bufs[uart].start)
  /\ pc = "finish" => AckDue /\ got = Body /\ (file.intact \/ file.length = 0)

ReadInv ==
  /\ ReadTypeOK /\ DeliveredInOrder /\ TagGuardsLastChunk /\ Stage /\ ErrorStage

-----------------------------------------------------------------------------
\* Multiples of d.
LEMMA MultipleForm ==
  ASSUME NEW d \in Nat \ {0}, NEW x \in Int
  PROVE  x % d = 0 <=> \E q \in Int : x = q * d
<1>1. ASSUME x % d = 0 PROVE \E q \in Int : x = q * d
  <2>1. x = d * (x \div d) + (x % d) /\ x \div d \in Int
    OBVIOUS
  <2>2. x = (x \div d) * d
    BY <1>1, <2>1
  <2> QED
    BY <2>1, <2>2
<1>2. ASSUME NEW q \in Int, x = q * d PROVE x % d = 0
  BY <1>2
<1> QED
  BY <1>1, <1>2

LEMMA ProductGap ==
  ASSUME NEW d \in Nat \ {0}, NEW p \in Int, NEW q \in Int, p < q
  PROVE  p * d + d <= q * d
<1>1. (q - p - 1) * d >= 0
  OBVIOUS
<1>2. (q - p - 1) * d = q * d - p * d - d
  OBVIOUS
<1> QED
  BY <1>1, <1>2

LEMMA MultipleGap ==
  ASSUME NEW d \in Nat \ {0}, NEW x \in Int, NEW y \in Int, x % d = 0, y % d = 0, x < y
  PROVE  x + d <= y
<1>1. PICK p \in Int : x = p * d
  BY MultipleForm
<1>2. PICK q \in Int : y = q * d
  BY MultipleForm
<1>3. p < q
  <2>1. SUFFICES ASSUME q <= p PROVE FALSE
    OBVIOUS
  <2>2. q = p \/ q < p
    BY <2>1
  <2> QED
    BY <1>1, <1>2, <2>2, ProductGap
<1> QED
  BY <1>1, <1>2, <1>3, ProductGap

LEMMA MultipleSum ==
  ASSUME NEW d \in Nat \ {0}, NEW x \in Int, NEW y \in Int, x % d = 0, y % d = 0
  PROVE  (x + y) % d = 0 /\ (x - y) % d = 0
<1>1. PICK p \in Int : x = p * d
  BY MultipleForm
<1>2. PICK q \in Int : y = q * d
  BY MultipleForm
<1>3. x + y = (p + q) * d /\ x - y = (p - q) * d /\ p + q \in Int /\ p - q \in Int
  BY <1>1, <1>2
<1>4. (x + y) % d = 0
  <2>1. \E r \in Int : x + y = r * d
    BY <1>3, Zenon
  <2> QED
    BY <2>1, MultipleForm, x + y \in Int, Zenon
<1>5. (x - y) % d = 0
  <2>1. \E r \in Int : x - y = r * d
    BY <1>3, Zenon
  <2> QED
    BY <2>1, MultipleForm, x - y \in Int, Zenon
<1> QED
  BY <1>4, <1>5

\* The last multiple of d up to x.
LEMMA MultipleFloor ==
  ASSUME NEW d \in Nat \ {0}, NEW m \in Nat, NEW x \in Nat, m % d = 0, m <= x
  PROVE  m <= d * (x \div d)
<1>1. x = d * (x \div d) + (x % d) /\ x \div d \in Int /\ x % d \in 0 .. d - 1
  OBVIOUS
<1>2. (d * (x \div d)) % d = 0
  <2>1. d * (x \div d) = (x \div d) * d /\ d * (x \div d) \in Int
    BY <1>1
  <2> QED
    BY <1>1, <2>1, MultipleForm, Zenon
<1>3. SUFFICES ASSUME d * (x \div d) < m PROVE FALSE
  BY <1>1
<1> QED
  BY <1>1, <1>2, <1>3, MultipleGap

LEMMA MultipleSelf == ASSUME NEW d \in Nat \ {0} PROVE d % d = 0 /\ 0 % d = 0
OBVIOUS

\* Rounding up to whole blocks.
LEMMA PaddedFacts ==
  ASSUME NEW n \in Nat
  PROVE  /\ Padded(n) \in Nat /\ Padded(n) % AES_BLOCK = 0
         /\ n <= Padded(n) /\ Padded(n) < n + AES_BLOCK
<1> DEFINE B == AES_BLOCK
<1>1. B \in Nat \ {0} /\ n % B \in 0 .. B - 1
  BY ReadAssumption
<1>2. CASE n % B = 0
  BY <1>1, <1>2 DEF Padded
<1>3. CASE n % B # 0
  <2>1. Padded(n) = n + B - (n % B)
    BY <1>3 DEF Padded
  <2>2. n = B * (n \div B) + (n % B) /\ n \div B \in Int
    BY <1>1
  <2>3. Padded(n) = (n \div B) * B + B
    BY <1>1, <2>1, <2>2
  <2> DEFINE q == n \div B  m == q * B
  <2>4. m % B = 0 /\ m \in Int
    <3>1. q \in Int /\ m \in Int
      BY <1>1, <2>2
    <3> QED
      BY <1>1, <3>1, MultipleForm, Zenon
  <2>5. Padded(n) % B = 0
    <3> HIDE DEF m, q
    <3> QED
      BY <1>1, <2>3, <2>4, MultipleSum, MultipleSelf DEF m, q
  <2> QED
    BY <1>1, <1>3, <2>1, <2>5
<1> QED
  BY <1>2, <1>3

\* The next chunk fills the room, or takes what is left.
LEMMA NextLengthFacts ==
  ASSUME file.length \in Nat, read \in Nat, read % AES_BLOCK = 0, read < Padded(file.length),
         NEW room \in Nat \ {0}, room % AES_BLOCK = 0
  PROVE  LET l == NextLength(room)
         IN  /\ l \in Nat /\ 0 < l /\ l <= room /\ l % AES_BLOCK = 0
             /\ read + l <= Padded(file.length)
             /\ read + l = Padded(file.length) \/ l = room
<1>1. AES_BLOCK \in Nat \ {0} /\ Padded(file.length) \in Nat
      /\ Padded(file.length) % AES_BLOCK = 0
  BY ReadAssumption, PaddedFacts
<1>2. (Padded(file.length) - read) % AES_BLOCK = 0
  BY <1>1, MultipleSum
<1> QED
  BY <1>1, <1>2 DEF NextLength

\* Inside a chunk there is no place where the host acknowledges.
LEMMA NoAckInside ==
  ASSUME NEW b, Chunk(b), bufs[b] \in [start : Nat, length : Nat, done : Nat],
         NEW k \in 1 .. bufs[b].length,
         (READ_HEADER_LENGTH + bufs[b].start + k) % CHUNK_SIZE = 0
  PROVE  k = bufs[b].length
<1> DEFINE H == READ_HEADER_LENGTH  C == CHUNK_SIZE  r == bufs[b]  at == H + r.start + k
<1>1. C \in Nat \ {0} /\ H \in Nat \ {0} /\ H < C /\ r.start \in Nat /\ r.length \in Nat
  BY ReadAssumption
<1>2. CASE r.start = 0 /\ r.length <= C - H
  <2>1. C <= at
    BY <1>1, MultipleGap, MultipleSelf
  <2> QED
    BY <1>1, <1>2, <2>1
<1>3. CASE (H + r.start) % C = 0 /\ r.length <= C
  <2>1. H + r.start \in Int /\ at \in Int /\ H + r.start < at /\ at % C = 0
    BY <1>1
  <2>2. H + r.start + C <= at
    BY <1>1, <1>3, <2>1, MultipleGap, Zenon
  <2> QED
    BY <1>1, <1>3, <2>2
<1> QED
  BY <1>2, <1>3 DEF Chunk

\* A chunk is never all padding.
LEMMA ChunkIsUsed ==
  ASSUME NEW n \in Nat, NEW start \in Nat, start % AES_BLOCK = 0, start < Padded(n)
  PROVE  start < n
<1>1. AES_BLOCK \in Nat \ {0} /\ Padded(n) \in Nat /\ Padded(n) % AES_BLOCK = 0
      /\ Padded(n) < n + AES_BLOCK
  BY ReadAssumption, PaddedFacts
<1>2. start + AES_BLOCK <= Padded(n)
  BY <1>1, MultipleGap
<1> QED
  BY <1>1, <1>2

-----------------------------------------------------------------------------
(* The steps. *)

LEMMA Sizes ==
  /\ AES_BLOCK \in Nat \ {0} /\ CHUNK_SIZE \in Nat \ {0} /\ READ_HEADER_LENGTH \in Nat \ {0}
  /\ CHUNK_SIZE % AES_BLOCK = 0 /\ READ_HEADER_LENGTH % AES_BLOCK = 0
  /\ READ_HEADER_LENGTH < CHUNK_SIZE
  /\ CHUNK_SIZE - READ_HEADER_LENGTH \in Nat \ {0}
  /\ (CHUNK_SIZE - READ_HEADER_LENGTH) % AES_BLOCK = 0
  /\ HEADER_SIZE \in Nat \ {0} /\ ERROR_LENGTH \in Nat \ {0}
<1>1. /\ AES_BLOCK \in Nat \ {0} /\ CHUNK_SIZE \in Nat \ {0} /\ READ_HEADER_LENGTH \in Nat \ {0}
      /\ CHUNK_SIZE % AES_BLOCK = 0 /\ READ_HEADER_LENGTH % AES_BLOCK = 0
      /\ READ_HEADER_LENGTH < CHUNK_SIZE
      /\ HEADER_SIZE \in Nat \ {0} /\ ERROR_LENGTH \in Nat \ {0}
  BY ReadAssumption
<1>2. (CHUNK_SIZE - READ_HEADER_LENGTH) % AES_BLOCK = 0
  <2>1. CHUNK_SIZE \in Int /\ READ_HEADER_LENGTH \in Int
    BY <1>1
  <2> QED
    BY <1>1, <2>1, MultipleSum, Zenon
<1> QED
  BY <1>1, <1>2

\* What the type invariant says of the parts.
LEMMA Parts ==
  ASSUME ReadTypeOK
  PROVE  /\ file.length \in Nat /\ file.intact \in BOOLEAN
         /\ \A b \in {1, 2} : bufs[b] \in [start : Nat, length : Nat, done : Nat]
         /\ aes \in {1, 2} /\ uart \in {1, 2} /\ uart # aes
<1>1. file.length \in Nat /\ file.intact \in BOOLEAN
  <2>1. FileLengths \cup {0} \subseteq Nat
    BY ReadAssumption
  <2>2. file \in [length : FileLengths \cup {0}, intact : BOOLEAN]
    BY DEF ReadTypeOK
  <2> QED
    BY <2>1, <2>2
<1>2. \A b \in {1, 2} : bufs[b] \in [start : Nat, length : Nat, done : Nat]
  <2>1. 0 .. CHUNK_SIZE \subseteq Nat
    BY Sizes
  <2> QED
    BY <2>1 DEF ReadTypeOK
<1> QED
  BY <1>1, <1>2 DEF ReadTypeOK, uart

\* Where no error is reported nothing is to be said of one.
LEMMA NoErrorStage ==
  ASSUME pc' \in {"idle", "name", "first", "loop", "decrypt", "last", "finish"}
  PROVE  ErrorStage'
BY DEF ErrorStage

LEMMA ReadInitInv == ReadInit => ReadInv
<1> SUFFICES ASSUME ReadInit PROVE ReadInv
  OBVIOUS
<1>1. ReadTypeOK
  BY Sizes DEF ReadInit, ReadTypeOK, EmptyBuffer, TxOff
<1>2. DeliveredInOrder /\ TagGuardsLastChunk /\ Stage /\ ErrorStage
  BY Sizes DEF ReadInit, DeliveredInOrder, TagGuardsLastChunk, Stage, ErrorStage, Body, Quiet, TxOff
<1> QED
  BY <1>1, <1>2 DEF ReadInv

LEMMA BeginReadInv ==
  ASSUME ReadInv, NEW n \in FileLengths, NEW intact \in BOOLEAN, NEW admitted \in BOOLEAN,
         BeginRead(n, intact, admitted)
  PROVE  ReadInv'
<1>1. n \in Nat /\ Quiet
  BY ReadAssumption DEF BeginRead, ReadInv, Stage
<1>2. ReadTypeOK'
  BY <1>1, Sizes DEF BeginRead, ReadInv, ReadTypeOK, EmptyBuffer, Quiet
<1>3. DeliveredInOrder' /\ TagGuardsLastChunk'
  BY <1>1, Sizes DEF BeginRead, DeliveredInOrder, TagGuardsLastChunk, Body
<1>4. Stage' /\ ErrorStage'
  BY <1>1 DEF BeginRead, Stage, ErrorStage, Quiet, AckDue
<1> QED
  BY <1>2, <1>3, <1>4 DEF ReadInv

LEMMA SendNameInv == ASSUME ReadInv, SendName PROVE ReadInv'
<1> DEFINE H == READ_HEADER_LENGTH  C == CHUNK_SIZE  P == Padded(file.length)
           first == NextLength(C - H)
<1>1. /\ AckDue /\ got = 0 /\ read = 0 /\ aes = 1 /\ bufs = [b \in {1, 2} |-> EmptyBuffer]
      /\ owes = 0 /\ acks = 1 /\ ~tx.active
  BY DEF ReadInv, Stage, SendName, TakeAck, AckDue, ReadTypeOK
<1>2. acks' = 0 /\ got' = H /\ owes' = Due(H) /\ file' = file /\ aes' = 1 /\ tx' = tx
      /\ sound' = sound
  BY <1>1 DEF SendName, TakeAck, Due
<1>3. Due(H) = IF file.length = 0 THEN 1 ELSE 0
  BY Sizes, Parts DEF Due, Body, ReadInv
<1>4. TagGuardsLastChunk'
  BY <1>2, Sizes DEF TagGuardsLastChunk
<1>5. CASE file.length = 0
  <2>1. pc' = "finish" /\ bufs' = bufs /\ read' = read /\ owes' = 1
    BY <1>2, <1>3, <1>5 DEF SendName
  <2>2. ReadTypeOK'
    BY <1>1, <1>2, <2>1, Sizes DEF ReadInv, ReadTypeOK
  <2>3. DeliveredInOrder' /\ Stage'
    BY <1>1, <1>2, <1>5, <2>1, Sizes DEF ReadInv, DeliveredInOrder, Stage, Body, AckDue
  <2> QED
    BY <1>4, <2>1, <2>2, <2>3, NoErrorStage DEF ReadInv
<1>6. CASE file.length # 0
  <2>1. pc' = "first" /\ bufs' = [bufs EXCEPT ![1].length = first] /\ read' = first /\ owes' = 0
    BY <1>1, <1>2, <1>3, <1>6 DEF SendName
  <2>2. P \in Nat /\ 0 < P /\ read % AES_BLOCK = 0
    BY <1>1, <1>6, Parts, PaddedFacts, Sizes, MultipleSelf DEF ReadInv
  <2>3. /\ first \in Nat /\ 0 < first /\ first <= C - H /\ first % AES_BLOCK = 0
        /\ first <= P /\ (first = P \/ first = C - H)
    BY <1>1, <2>2, Parts, Sizes, NextLengthFacts DEF ReadInv
  <2>4. bufs'[1] = [start |-> 0, length |-> first, done |-> 0] /\ bufs'[2] = EmptyBuffer
    BY <1>1, <2>1 DEF EmptyBuffer
  <2>5. bufs' \in [{1, 2} -> [start : Nat, length : 0 .. C, done : 0 .. C]]
    BY <1>1, <2>1, <2>3, Sizes DEF EmptyBuffer
  <2>6. ReadTypeOK'
    BY <1>1, <1>2, <2>1, <2>3, <2>5, Sizes DEF ReadInv, ReadTypeOK
  <2>7. H + (C - H) = C /\ C % C = 0 /\ 0 % AES_BLOCK = 0
    BY Sizes, MultipleSelf
  <2>8. Latest(1)'
    <3>1. Chunk(1)'
      BY <2>3, <2>4, <2>7, Sizes DEF Chunk
    <3>2. file.length > 0 /\ P' = P
      BY <1>2, <1>6, Parts DEF ReadInv
    <3> QED
      BY <1>2, <2>1, <2>3, <2>4, <2>7, <3>1, <3>2 DEF Latest
  <2>9. DeliveredInOrder' /\ Stage'
    BY <1>1, <1>2, <1>6, <2>1, <2>4, <2>8, Parts, Sizes
    DEF ReadInv, DeliveredInOrder, Stage, Body, Quiet
  <2> QED
    BY <1>4, <2>1, <2>6, <2>9, NoErrorStage DEF ReadInv
<1> QED
  BY <1>5, <1>6

LEMMA DecryptBlockInv == ASSUME ReadInv, DecryptBlock PROVE ReadInv'
<1> DEFINE r == bufs[aes]
<1>1. /\ bufs' = [bufs EXCEPT ![aes].done = @ + AES_BLOCK]
      /\ UNCHANGED <<pc, file, aes, read, tx, got, sound, owes, acks>> /\ r.done < r.length
      /\ pc \in {"first", "decrypt"}
  BY DEF DecryptBlock
<1>2. Chunk(aes) /\ r \in [start : Nat, length : 0 .. CHUNK_SIZE, done : 0 .. CHUNK_SIZE]
  BY <1>1 DEF ReadInv, Stage, Latest, ReadTypeOK
<1>3. r.done + AES_BLOCK <= r.length /\ (r.done + AES_BLOCK) % AES_BLOCK = 0
  <2>1. /\ r.done \in Nat /\ r.length \in Nat /\ r.done < r.length
        /\ r.done % AES_BLOCK = 0 /\ r.length % AES_BLOCK = 0
    BY <1>1, <1>2, Sizes DEF Chunk
  <2> HIDE DEF r
  <2> QED
    BY <2>1, Sizes, MultipleGap, MultipleSum, MultipleSelf
<1>4. /\ bufs'[aes] = [r EXCEPT !.done = @ + AES_BLOCK] /\ bufs'[uart] = bufs[uart]
      /\ bufs' \in [{1, 2} -> [start : Nat, length : 0 .. CHUNK_SIZE, done : 0 .. CHUNK_SIZE]]
  BY <1>1, <1>2, <1>3, Sizes, Parts DEF ReadInv, ReadTypeOK
<1>5. ReadTypeOK' /\ DeliveredInOrder' /\ TagGuardsLastChunk'
  BY <1>1, <1>4 DEF ReadInv, ReadTypeOK, DeliveredInOrder, TagGuardsLastChunk, Body
<1>6. bufs'[aes].start = r.start /\ bufs'[aes].length = r.length
      /\ bufs'[aes].done = r.done + AES_BLOCK
  BY <1>2, <1>4
<1>7. Chunk(aes)' /\ (Latest(aes) => Latest(aes)')
  BY <1>1, <1>2, <1>3, <1>6 DEF Chunk, Latest
<1>8. (pc = "decrypt" => Sending(uart, bufs[uart].length)') /\ uart' = uart
  BY <1>1, <1>4 DEF ReadInv, Stage, Sending, Holds, Chunk, AckDue, uart
<1>9. Stage'
  BY <1>1, <1>4, <1>6, <1>7, <1>8 DEF ReadInv, Stage, Quiet
<1> QED
  BY <1>1, <1>5, <1>9, NoErrorStage DEF ReadInv

\* Nothing but where the program stands changes in the conjuncts other than Stage.
LEMMA FirstDecryptedInv == ASSUME ReadInv, FirstDecrypted PROVE ReadInv'
<1>1. /\ aes' = uart /\ pc' = "loop" /\ pc = "first" /\ bufs[aes].done = bufs[aes].length
      /\ UNCHANGED <<file, bufs, read, tx, got, sound, owes, acks>>
  BY DEF FirstDecrypted, Swap
<1>2. uart' = aes /\ aes' \in {1, 2}
  BY <1>1, Parts DEF ReadInv, uart
<1>3. ReadTypeOK' /\ DeliveredInOrder' /\ TagGuardsLastChunk'
  BY <1>1, <1>2 DEF ReadInv, ReadTypeOK, DeliveredInOrder, TagGuardsLastChunk, Body
<1>4. Latest(uart)' /\ Holds(uart)' /\ Quiet' /\ (bufs[uart].start)' = 0
  BY <1>1, <1>2 DEF ReadInv, Stage, Latest, Holds, Chunk, Quiet
<1>5. Stage'
  BY <1>1, <1>4, Sizes DEF ReadInv, Stage
<1> QED
  BY <1>1, <1>3, <1>5, NoErrorStage DEF ReadInv

LEMMA ChunkDoneInv == ASSUME ReadInv, ChunkDone PROVE ReadInv'
<1>1. /\ aes' = uart /\ pc' = "loop" /\ pc = "decrypt" /\ bufs[aes].done = bufs[aes].length
      /\ UNCHANGED <<file, bufs, read, tx, got, sound, owes>>
      /\ ~tx.active /\ acks > 0 /\ acks' = acks - 1
  BY DEF ChunkDone, Swap, TakeAck
<1>2. uart' = aes /\ aes' \in {1, 2}
  BY <1>1, Parts DEF ReadInv, uart
<1>3. owes = 0 /\ acks = 1 /\ got = READ_HEADER_LENGTH + bufs[aes].start
  <2>1. /\ AckDue /\ got = READ_HEADER_LENGTH + bufs[uart].start + bufs[uart].length
        /\ bufs[aes].start = bufs[uart].start + bufs[uart].length
    BY <1>1 DEF ReadInv, Stage, Sending
  <2> QED
    BY <1>1, <2>1, Parts, Sizes DEF AckDue, ReadInv, ReadTypeOK
<1>4. ReadTypeOK' /\ DeliveredInOrder' /\ TagGuardsLastChunk'
  BY <1>1, <1>2, <1>3 DEF ReadInv, ReadTypeOK, DeliveredInOrder, TagGuardsLastChunk, Body
<1>5. Latest(uart)' /\ Holds(uart)' /\ Quiet'
  BY <1>1, <1>2, <1>3 DEF ReadInv, Stage, Latest, Holds, Chunk, Quiet
<1>6. Stage'
  BY <1>1, <1>2, <1>3, <1>5 DEF Stage
<1> QED
  BY <1>1, <1>4, <1>6, NoErrorStage DEF ReadInv

LEMMA NextChunkInv == ASSUME ReadInv, NextChunk PROVE ReadInv'
<1> DEFINE length == NextLength(CHUNK_SIZE)  fresh == [start |-> read, length |-> length, done |-> 0]
<1>1. /\ pc = "loop" /\ read < Padded(file.length) /\ bufs' = [bufs EXCEPT ![aes] = fresh]
      /\ read' = read + length /\ pc' = "decrypt"
      /\ tx' = [active |-> TRUE, buf |-> uart, pos |-> 0, left |-> bufs[uart].length]
      /\ UNCHANGED <<file, aes, got, sound, owes, acks>>
  BY DEF NextChunk, Transmit
<1>2. Quiet /\ Latest(uart) /\ Holds(uart) /\ got = READ_HEADER_LENGTH + bufs[uart].start
  BY <1>1 DEF ReadInv, Stage
<1>3. /\ bufs[uart].start % AES_BLOCK = 0 /\ bufs[uart].length % AES_BLOCK = 0
      /\ read = bufs[uart].start + bufs[uart].length /\ 0 < bufs[uart].length
      /\ bufs[uart].start \in Nat /\ bufs[uart].length \in Nat
      /\ (READ_HEADER_LENGTH + read) % CHUNK_SIZE = 0
  BY <1>1, <1>2, Parts DEF ReadInv, Latest, Chunk
<1>4. read % AES_BLOCK = 0 /\ read \in Nat
  <2>1. bufs[uart].start \in Int /\ bufs[uart].length \in Int /\ AES_BLOCK \in Nat \ {0}
    BY <1>3, Sizes
  <2> QED
    BY <1>3, <2>1, MultipleSum, Zenon DEF ReadInv, ReadTypeOK
<1>5. /\ length \in Nat /\ 0 < length /\ length <= CHUNK_SIZE /\ length % AES_BLOCK = 0
      /\ read + length <= Padded(file.length)
      /\ read + length = Padded(file.length) \/ length = CHUNK_SIZE
  BY <1>1, <1>4, Parts, Sizes, NextLengthFacts DEF ReadInv
<1> HIDE DEF length
<1>6. /\ bufs'[aes] = fresh /\ bufs'[uart] = bufs[uart] /\ uart' = uart
      /\ bufs' \in [{1, 2} -> [start : Nat, length : 0 .. CHUNK_SIZE, done : 0 .. CHUNK_SIZE]]
  BY <1>1, <1>4, <1>5, Sizes, Parts DEF ReadInv, ReadTypeOK, uart
<1>7. ReadTypeOK'
  BY <1>1, <1>4, <1>5, <1>6, Sizes, Parts DEF ReadInv, ReadTypeOK
<1>8. DeliveredInOrder' /\ TagGuardsLastChunk'
  BY <1>1 DEF ReadInv, DeliveredInOrder, TagGuardsLastChunk, Body
<1>9. Latest(aes)'
  <2>1. Chunk(aes)'
    BY <1>1, <1>3, <1>4, <1>5, <1>6, Sizes, MultipleSelf DEF Chunk
  <2>2. (READ_HEADER_LENGTH + (read + CHUNK_SIZE)) % CHUNK_SIZE = 0
    <3> DEFINE x == READ_HEADER_LENGTH + read
    <3>1. x \in Int /\ x % CHUNK_SIZE = 0 /\ CHUNK_SIZE \in Int /\ CHUNK_SIZE \in Nat \ {0}
      BY <1>3, <1>4, Sizes
    <3>2. READ_HEADER_LENGTH + (read + CHUNK_SIZE) = x + CHUNK_SIZE
      BY <1>4, Sizes
    <3> HIDE DEF x
    <3>3. (x + CHUNK_SIZE) % CHUNK_SIZE = 0
      BY <3>1, MultipleSelf, MultipleSum, Zenon
    <3> QED
      BY <3>2, <3>3
  <2>3. file'.length > 0 /\ Padded(file.length)' = Padded(file.length)
    BY <1>1, <1>2 DEF Latest
  <2> QED
    BY <1>1, <1>5, <1>6, <2>1, <2>2, <2>3 DEF Latest
<1>10. Sending(uart, bufs[uart].length)'
  <2>1. Holds(uart)'
    BY <1>2, <1>6 DEF Holds, Chunk
  <2> QED
    BY <1>1, <1>2, <1>3, <1>6, <2>1, Sizes DEF Sending, Quiet
<1>11. Stage'
  BY <1>1, <1>3, <1>6, <1>9, <1>10 DEF Stage
<1> QED
  BY <1>1, <1>7, <1>8, <1>11, NoErrorStage DEF ReadInv

LEMMA CheckTagInv == ASSUME ReadInv, CheckTag PROVE ReadInv'
<1> DEFINE P == Padded(file.length)  bytes == bufs[uart].length - (P - file.length)
<1>1. /\ pc = "loop" /\ read = P
      /\ UNCHANGED <<file, bufs, aes, read, got, sound, owes, acks>>
  BY DEF CheckTag
<1>2. Quiet /\ Latest(uart) /\ Holds(uart) /\ got = READ_HEADER_LENGTH + bufs[uart].start
  BY <1>1 DEF ReadInv, Stage
<1>3. /\ bufs[uart].start \in Nat /\ bufs[uart].length \in 0 .. CHUNK_SIZE
      /\ bufs[uart].start % AES_BLOCK = 0 /\ 0 < bufs[uart].length
      /\ P = bufs[uart].start + bufs[uart].length /\ file.length \in Nat
  BY <1>1, <1>2, Parts DEF ReadInv, Latest, Chunk, ReadTypeOK
<1>4. bytes = file.length - bufs[uart].start /\ 0 < bytes /\ bytes \in 0 .. CHUNK_SIZE
  <2> DEFINE start == bufs[uart].start  n == file.length
  <2>1. start < P /\ n <= P /\ P \in Nat
    BY <1>3, PaddedFacts
  <2>2. start < n
    BY <1>3, <2>1, ChunkIsUsed, Zenon
  <2> QED
    BY <1>3, <2>1, <2>2, Sizes
<1>5. DeliveredInOrder' /\ TagGuardsLastChunk' /\ uart' = uart
  <2>1. pc' \in {"last", "error"}
    BY DEF CheckTag
  <2> QED
    BY <1>1, <2>1 DEF ReadInv, DeliveredInOrder, TagGuardsLastChunk, Body, uart
<1>6. CASE file.intact
  <2>1. pc' = "last" /\ tx' = [active |-> TRUE, buf |-> uart, pos |-> 0, left |-> bytes]
    BY <1>6 DEF CheckTag, Transmit
  <2>2. ReadTypeOK'
    BY <1>1, <1>4, <2>1, Sizes, Parts DEF ReadInv, ReadTypeOK
  <2>3. Latest(uart)' /\ Holds(uart)'
    BY <1>1, <1>2, <1>5 DEF Latest, Holds, Chunk
  <2>4. Sending(uart, file.length - bufs[uart].start)'
    BY <1>1, <1>2, <1>3, <1>4, <1>5, <2>1, <2>3, Sizes DEF Sending, Quiet
  <2>5. Stage'
    BY <1>1, <1>6, <2>1, <2>3, <2>4 DEF Stage
  <2> QED
    BY <1>5, <2>1, <2>2, <2>5, NoErrorStage DEF ReadInv
<1>7. CASE ~file.intact
  <2>1. pc' = "error" /\ tx' = tx
    BY <1>7 DEF CheckTag
  <2>2. ReadTypeOK'
    BY <1>1, <2>1 DEF ReadInv, ReadTypeOK
  <2>3. TagFailed
    <3>1. file.length > 0
      BY <1>2 DEF Latest
    <3>2. ASSUME NEW m \in got + 1 .. Body, m % CHUNK_SIZE = 0 PROVE m = Body
      <4> DEFINE k == m - got
      <4>1. /\ got \in Int /\ got = READ_HEADER_LENGTH + bufs[uart].start
            /\ Body = READ_HEADER_LENGTH + file.length /\ file.length <= P /\ P \in Nat
        BY <1>2, <1>3, Sizes, PaddedFacts DEF Body
      <4>2. /\ k \in 1 .. bufs[uart].length /\ m = READ_HEADER_LENGTH + bufs[uart].start + k
            /\ m \in Int
        BY <1>3, <4>1, Sizes
      <4>3. bufs[uart] \in [start : Nat, length : Nat, done : Nat] /\ Chunk(uart)
        BY <1>2, Parts DEF ReadInv, Latest
      <4> HIDE DEF k
      <4>4. k = bufs[uart].length
        <5>1. (READ_HEADER_LENGTH + bufs[uart].start + k) % CHUNK_SIZE = 0
          BY <3>2, <4>2, Zenon
        <5> QED
          BY <4>2, <4>3, <5>1, NoAckInside
      <4> QED
        BY <1>3, <4>1, <4>2, <4>4, Sizes
    <3> QED
      BY <1>7, <3>1, <3>2 DEF TagFailed
  <2>4. Stage' /\ ErrorStage'
    BY <1>1, <1>2, <2>1, <2>3 DEF Stage, ErrorStage, TagFailed, Quiet, Body
  <2> QED
    BY <1>5, <2>2, <2>4 DEF ReadInv
<1> QED
  BY <1>6, <1>7

LEMMA LastSentInv == ASSUME ReadInv, LastSent PROVE ReadInv'
<1>1. /\ pc = "last" /\ ~tx.active /\ pc' = "finish"
      /\ UNCHANGED <<file, bufs, aes, read, tx, got, sound, owes, acks>>
  BY DEF LastSent
<1>2. /\ AckDue /\ file.intact
      /\ got = READ_HEADER_LENGTH + bufs[uart].start + (file.length - bufs[uart].start)
  BY <1>1 DEF ReadInv, Stage, Sending
<1>3. got = Body
  BY <1>2, Parts, Sizes DEF Body, ReadInv
<1>4. ReadTypeOK' /\ DeliveredInOrder' /\ TagGuardsLastChunk'
  BY <1>1, <1>3 DEF ReadInv, ReadTypeOK, DeliveredInOrder, TagGuardsLastChunk, Body
<1>5. Stage'
  BY <1>1, <1>2, <1>3 DEF Stage, AckDue, Body
<1> QED
  BY <1>1, <1>4, <1>5, NoErrorStage DEF ReadInv

LEMMA FinishReadInv == ASSUME ReadInv, FinishRead \/ FinishError PROVE ReadInv'
<1>1. /\ pc \in {"finish", "errorText"} /\ pc' = "idle" /\ acks > 0 /\ acks' = acks - 1
      /\ UNCHANGED <<file, bufs, aes, read, tx, got, sound, owes>>
  BY DEF FinishRead, FinishError, TakeAck
<1>2. ~tx.active /\ owes = 0 /\ acks' = 0
  BY <1>1 DEF ReadInv, Stage, ErrorStage, AckDue, Quiet, ReadTypeOK
<1>3. ReadTypeOK' /\ DeliveredInOrder' /\ TagGuardsLastChunk'
  BY <1>1, <1>2 DEF ReadInv, ReadTypeOK, DeliveredInOrder, TagGuardsLastChunk, Body
<1>4. Stage'
  BY <1>1, <1>2 DEF Stage, Quiet
<1> QED
  BY <1>1, <1>3, <1>4, NoErrorStage DEF ReadInv

\* Of the bytes of an error header the host acknowledges the last of the body, if they
\* reach it, and nothing else.
LEMMA ReportErrorInv == ASSUME ReadInv, ReportError PROVE ReadInv'
<1> DEFINE due == DueForError(0, HEADER_SIZE)
<1>1. /\ pc = "error" /\ pc' = "errorHeader" /\ owes' = owes + due
      /\ UNCHANGED <<file, bufs, aes, read, tx, got, sound, acks>>
  BY DEF ReportError
<1>2. Quiet /\ (got = 0 \/ TagFailed) /\ owes = 0 /\ acks = 0 /\ ~tx.active
  BY <1>1 DEF ReadInv, ErrorStage, Quiet
<1>3. due \in {0, 1} /\ (got = 0 => due = 1)
  BY DEF DueForError
<1>4. got # 0 /\ due = 1 => Body <= got + HEADER_SIZE
  <2>1. SUFFICES ASSUME got # 0, due = 1 PROVE Body <= got + HEADER_SIZE
    OBVIOUS
  <2>2. got \in Nat /\ Body \in Nat /\ HEADER_SIZE \in Nat
    BY Parts, Sizes DEF ReadInv, ReadTypeOK, Body
  <2>3. PICK m \in got + 0 + 1 .. got + 0 + HEADER_SIZE : m <= Body /\ Due(m) = 1
    BY <2>1 DEF DueForError
  <2>4. m % CHUNK_SIZE = 0 \/ m = Body
    BY <2>3 DEF Due
  <2>5. m \in got + 1 .. Body
    BY <2>2, <2>3
  <2>6. m = Body
    BY <1>2, <2>1, <2>4, <2>5 DEF TagFailed
  <2> QED
    BY <2>2, <2>3, <2>6
<1> HIDE DEF due
<1>5. owes' = due /\ acks' = 0
  BY <1>1, <1>2, <1>3
<1>6. ReadTypeOK' /\ DeliveredInOrder' /\ TagGuardsLastChunk' /\ Body' = Body
  BY <1>1, <1>3, <1>5 DEF ReadInv, ReadTypeOK, DeliveredInOrder, TagGuardsLastChunk, Body
<1>7. TagFailed => TagFailed'
  BY <1>1, <1>6 DEF TagFailed
<1>8. Stage' /\ ErrorStage'
  BY <1>1, <1>2, <1>3, <1>4, <1>5, <1>6, <1>7 DEF Stage, ErrorStage, AckDue
<1> QED
  BY <1>6, <1>8 DEF ReadInv

\* With the body complete the host counts nothing of the text.
LEMMA SendErrorTextInv == ASSUME ReadInv, SendErrorText PROVE ReadInv'
<1> DEFINE due == DueForError(HEADER_SIZE, ERROR_LENGTH)
<1>1. /\ pc = "errorHeader" /\ pc' = "errorText" /\ owes' = owes + due
      /\ acks > 0 /\ acks' = acks - 1
      /\ UNCHANGED <<file, bufs, aes, read, tx, got, sound>>
  BY DEF SendErrorText, TakeAck
<1>2. owes = 0 /\ acks = 1 /\ ~tx.active
  BY <1>1 DEF ReadInv, ErrorStage, AckDue, ReadTypeOK
<1>3. got # 0 => TagFailed /\ Body <= got + HEADER_SIZE
  BY <1>1, <1>2 DEF ReadInv, ErrorStage
<1>4. due = IF got = 0 THEN 1 ELSE 0
  <2>1. CASE got = 0
    BY <2>1 DEF DueForError
  <2>2. CASE got # 0
    <3>1. got \in Nat /\ Body \in Nat /\ HEADER_SIZE \in Nat /\ ERROR_LENGTH \in Nat
      BY Parts, Sizes DEF ReadInv, ReadTypeOK, Body
    <3>2. ASSUME NEW m \in got + HEADER_SIZE + 1 .. got + HEADER_SIZE + ERROR_LENGTH, m <= Body
          PROVE  FALSE
      BY <1>3, <2>2, <3>1, <3>2
    <3> QED
      BY <2>2, <3>2 DEF DueForError
  <2> QED
    BY <2>1, <2>2
<1> HIDE DEF due
<1>5. owes' = due /\ acks' = 0
  BY <1>1, <1>2, <1>4
<1>6. ReadTypeOK' /\ DeliveredInOrder' /\ TagGuardsLastChunk' /\ Body' = Body
  BY <1>1, <1>4, <1>5 DEF ReadInv, ReadTypeOK, DeliveredInOrder, TagGuardsLastChunk, Body
<1>7. TagFailed => TagFailed'
  BY <1>1, <1>6 DEF TagFailed
<1>8. Stage' /\ ErrorStage'
  BY <1>1, <1>2, <1>3, <1>4, <1>5, <1>7 DEF Stage, ErrorStage, AckDue, Quiet
<1> QED
  BY <1>6, <1>8 DEF ReadInv

LEMMA ReadResetInv == ASSUME ReadInv, ReadReset PROVE ReadInv'
<1>1. /\ pc' = "idle" /\ tx' = TxOff /\ owes' = 0 /\ acks' = 0
      /\ UNCHANGED <<file, bufs, aes, read, got, sound>>
  BY DEF ReadReset
<1>2. ReadTypeOK' /\ DeliveredInOrder' /\ TagGuardsLastChunk'
  BY <1>1, Sizes DEF ReadInv, ReadTypeOK, DeliveredInOrder, TagGuardsLastChunk, Body, TxOff
<1>3. Stage'
  BY <1>1 DEF Stage, Quiet, TxOff
<1> QED
  BY <1>1, <1>2, <1>3, NoErrorStage DEF ReadInv

\* Where the program waits for an ACK, it has been asked for once.
LEMMA HostAckInv == ASSUME ReadInv, HostAck PROVE ReadInv'
<1>1. /\ owes > 0 /\ owes' = owes - 1 /\ acks' = acks + 1
      /\ UNCHANGED <<pc, file, bufs, aes, read, tx, got, sound>>
  BY DEF HostAck
<1>2. /\ pc \in {"name", "decrypt", "last", "finish", "errorHeader", "errorText"}
      /\ ~tx.active /\ AckDue
  BY <1>1 DEF ReadInv, ReadTypeOK, Stage, ErrorStage, Quiet, Sending, AckDue
<1>3. owes' = 0 /\ acks' = 1
  BY <1>1, <1>2 DEF AckDue, ReadInv, ReadTypeOK
<1>4. ReadTypeOK' /\ DeliveredInOrder' /\ TagGuardsLastChunk'
  BY <1>1, <1>3 DEF ReadInv, ReadTypeOK, DeliveredInOrder, TagGuardsLastChunk, Body
<1>5. \A b \in {1, 2}, n \in Int : ~tx.active /\ Sending(b, n) => Sending(b, n)'
  BY <1>1, <1>3 DEF Sending, Holds, Chunk, AckDue
<1>6. (Latest(aes) => Latest(aes)') /\ (Latest(uart) => Latest(uart)') /\ uart' = uart
  BY <1>1 DEF Latest, Chunk, uart
<1>7. Stage'
  <2>1. CASE pc = "name"
    BY <1>1, <1>2, <1>3, <2>1 DEF ReadInv, Stage, AckDue
  <2>2. CASE pc = "decrypt"
    BY <1>1, <1>2, <1>5, <1>6, <2>2, Parts DEF ReadInv, Stage
  <2>3. CASE pc = "last"
    BY <1>1, <1>2, <1>5, <1>6, <2>3, Parts DEF ReadInv, Stage
  <2>4. CASE pc = "finish"
    BY <1>1, <1>2, <1>3, <2>4 DEF ReadInv, Stage, AckDue, Body
  <2>5. CASE pc \in {"errorHeader", "errorText"}
    BY <1>1, <2>5 DEF Stage
  <2> QED
    BY <1>2, <2>1, <2>2, <2>3, <2>4, <2>5
<1>8. ErrorStage'
  <2>1. Body' = Body
    BY <1>1 DEF Body
  <2>2. TagFailed => TagFailed'
    BY <1>1, <2>1 DEF TagFailed
  <2> QED
    BY <1>1, <1>2, <1>3, <2>1, <2>2 DEF ReadInv, ErrorStage, AckDue, Quiet
<1> QED
  BY <1>4, <1>7, <1>8 DEF ReadInv

\* One more byte of a chunk: it is the right one, and the host owes an ACK exactly if it
\* is the last one sent.
LEMMA SendingMoves ==
  ASSUME ReadInv, TxMove, NEW bytes \in Nat, Sending(uart, bytes), bytes <= bufs[uart].length,
         READ_HEADER_LENGTH + bufs[uart].start + bytes <= Body,
         \/ READ_HEADER_LENGTH + bufs[uart].start + bytes = Body
         \/ (READ_HEADER_LENGTH + bufs[uart].start + bytes) % CHUNK_SIZE = 0
  PROVE  /\ Sending(uart, bytes)' /\ ReadTypeOK' /\ DeliveredInOrder'
         /\ got' = got + 1 /\ got' <= READ_HEADER_LENGTH + bufs[uart].start + bytes
<1> DEFINE r == bufs[uart]  from == READ_HEADER_LENGTH + r.start
<1>1. /\ tx.active /\ tx.buf = uart /\ tx.left > 0 /\ tx.pos + tx.left = bytes
      /\ got = from + tx.pos /\ owes = 0 /\ acks = 0 /\ Holds(uart)
  BY DEF Sending, TxMove
<1>2. /\ tx.pos \in 0 .. CHUNK_SIZE /\ tx.left \in 0 .. CHUNK_SIZE /\ uart \in {1, 2}
      /\ r.start \in Nat /\ r.length \in 0 .. CHUNK_SIZE /\ r.done = r.length
      /\ from \in Nat /\ Body \in Nat /\ sound
  BY <1>1, Parts, Sizes DEF ReadInv, ReadTypeOK, Holds, DeliveredInOrder, Body
<1>3. /\ tx' = [tx EXCEPT !.pos = @ + 1, !.left = @ - 1, !.active = (tx.left > 1)]
      /\ sound' = (sound /\ tx.pos < r.done /\ r.start + tx.pos = got - READ_HEADER_LENGTH)
      /\ got' = got + 1 /\ owes' = owes + Due(got + 1)
      /\ UNCHANGED <<pc, file, bufs, aes, read, acks>>
  BY <1>1 DEF TxMove
<1>4. /\ tx'.buf = uart /\ tx'.pos = tx.pos + 1 /\ tx'.left = tx.left - 1
      /\ tx'.active = (tx.left > 1)
      /\ tx' \in [active : BOOLEAN, buf : {1, 2}, pos : 0 .. CHUNK_SIZE, left : 0 .. CHUNK_SIZE]
  <2>1. tx \in [active : BOOLEAN, buf : {1, 2}, pos : 0 .. CHUNK_SIZE, left : 0 .. CHUNK_SIZE]
    BY DEF ReadInv, ReadTypeOK
  <2>2. tx.pos + 1 \in 0 .. CHUNK_SIZE /\ tx.left - 1 \in 0 .. CHUNK_SIZE
    BY <1>1, <1>2, Sizes
  <2> DEFINE more == tx.left > 1
  <2>3. more \in BOOLEAN /\ tx' = [tx EXCEPT !.pos = @ + 1, !.left = @ - 1, !.active = more]
    BY <1>3
  <2> HIDE DEF more
  <2>4. /\ tx'.buf = uart /\ tx'.pos = tx.pos + 1 /\ tx'.left = tx.left - 1 /\ tx'.active = more
        /\ tx' \in [active : BOOLEAN, buf : {1, 2}, pos : 0 .. CHUNK_SIZE, left : 0 .. CHUNK_SIZE]
    BY <1>1, <2>1, <2>2, <2>3
  <2> QED
    BY <2>4, Zenon DEF more
<1>5. sound' = TRUE
  <2>1. sound = TRUE
    BY <1>2 DEF ReadInv, ReadTypeOK
  <2>2. tx.pos < r.done /\ r.start + tx.pos = got - READ_HEADER_LENGTH
    BY <1>1, <1>2, Sizes
  <2> QED
    BY <1>3, <2>1, <2>2, Zenon
<1>6. Due(got + 1) = IF tx.left = 1 THEN 1 ELSE 0
  <2>1. CASE tx.left = 1
    <3>1. got + 1 = from + bytes
      BY <1>1, <1>2, <2>1
    <3> QED
      BY <2>1, <3>1 DEF Due
  <2>2. CASE tx.left # 1
    <3>1. tx.pos + 1 \in 1 .. r.length /\ tx.pos + 1 < bytes /\ tx.pos + 1 # r.length
      BY <1>1, <1>2, <2>2
    <3>2. got + 1 # Body
      BY <1>1, <1>2, <3>1
    <3>3. got + 1 = READ_HEADER_LENGTH + r.start + (tx.pos + 1)
      BY <1>1, <1>2, Sizes
    <3>4. r \in [start : Nat, length : Nat, done : Nat] /\ Chunk(uart)
      BY <1>1, <1>2, Parts DEF ReadInv, Holds
    <3>5. (got + 1) % CHUNK_SIZE # 0
      BY <3>1, <3>3, <3>4, NoAckInside
    <3> QED
      BY <2>2, <3>2, <3>5 DEF Due
  <2> QED
    BY <2>1, <2>2
<1>7. ReadTypeOK'
  BY <1>1, <1>2, <1>3, <1>4, <1>5, <1>6 DEF ReadInv, ReadTypeOK
<1>8. Body' = Body /\ uart' = uart /\ pc \notin {"finish"}
  BY <1>1, <1>3 DEF Body, uart, ReadInv, Stage, AckDue
<1>9. got' <= from + bytes
  BY <1>1, <1>2, <1>3
<1>10. DeliveredInOrder'
  BY <1>1, <1>2, <1>3, <1>5, <1>8, <1>9 DEF DeliveredInOrder
<1>11. Sending(uart, bytes)'
  <2>1. Holds(uart)'
    BY <1>1, <1>3, <1>8 DEF Holds, Chunk
  <2>2. tx.left > 1 => got' = from + tx'.pos /\ tx'.pos + tx'.left = bytes /\ owes' = 0
    BY <1>1, <1>2, <1>3, <1>4, <1>6
  <2>3. ~(tx.left > 1) => got' = from + bytes /\ owes' + acks' = 1
    BY <1>1, <1>2, <1>3, <1>6
  <2>4. tx'.active <=> tx.left > 1
    BY <1>4
  <2>5. tx.left > 1 => tx'.left > 0
    BY <1>2, <1>4
  <2>6. acks' = 0 /\ (from = READ_HEADER_LENGTH + bufs[uart].start)' /\ from' = from
    BY <1>1, <1>3, <1>8
  <2> QED
    BY <1>4, <1>8, <2>1, <2>2, <2>3, <2>4, <2>5, <2>6 DEF Sending, AckDue
<1> QED
  BY <1>3, <1>7, <1>9, <1>10, <1>11

LEMMA TxMoveInv == ASSUME ReadInv, TxMove PROVE ReadInv'
<1> DEFINE H == READ_HEADER_LENGTH  C == CHUNK_SIZE  n == file.length
<1>1. tx.active /\ pc \in {"decrypt", "last"} /\ UNCHANGED <<pc, file, bufs, aes, read, acks>>
  BY DEF TxMove, ReadInv, ReadTypeOK, Stage, ErrorStage, Quiet, AckDue
<1>2. /\ n \in Nat /\ H \in Nat /\ C \in Nat \ {0} /\ Body = H + n /\ Body' = Body
      /\ uart' = uart /\ uart \in {1, 2} /\ aes \in {1, 2}
      /\ \A b \in {1, 2} : bufs[b].start \in Nat /\ bufs[b].length \in Nat
      /\ got \in Nat
  BY <1>1, Parts, Sizes DEF ReadInv, ReadTypeOK, Body, uart
<1>3. (Latest(aes) => Latest(aes)') /\ (Latest(uart) => Latest(uart)')
  BY <1>1, <1>2 DEF Latest, Chunk
<1>4. CASE pc = "decrypt"
  <2> DEFINE next == H + bufs[aes].start
  <2>1. /\ Latest(aes) /\ Sending(uart, bufs[uart].length)
        /\ bufs[aes].start = bufs[uart].start + bufs[uart].length /\ next % C = 0
    BY <1>4 DEF ReadInv, Stage
  <2>2. bufs[aes].start < n
    <3>1. /\ bufs[aes].start % AES_BLOCK = 0 /\ bufs[aes].start < Padded(n)
      BY <1>2, <2>1, PaddedFacts DEF Latest, Chunk
    <3> QED
      BY <1>2, <3>1, ChunkIsUsed
  <2>3. H + bufs[uart].start + bufs[uart].length = next /\ next \in Nat /\ next < Body
    <3>1. bufs[uart].start \in Nat /\ bufs[uart].length \in Nat /\ bufs[aes].start \in Nat
      BY <1>2
    <3>2. bufs[aes].start = bufs[uart].start + bufs[uart].length
      BY <2>1
    <3> QED
      BY <1>2, <2>2, <3>1, <3>2
  <2>4. /\ Sending(uart, bufs[uart].length)' /\ ReadTypeOK' /\ DeliveredInOrder'
        /\ got' = got + 1 /\ got' <= next
    <3> DEFINE bytes == bufs[uart].length
    <3>1. bytes \in Nat /\ Sending(uart, bytes) /\ H + bufs[uart].start + bytes = next
      BY <1>2, <2>1, <2>3
    <3>2. /\ Sending(uart, bytes)' /\ ReadTypeOK' /\ DeliveredInOrder'
          /\ got' = got + 1 /\ got' <= next
      <4>1. bytes <= bufs[uart].length /\ next <= Body
        BY <1>2, <2>3
      <4>2. bytes' = bytes
        BY <1>1, <1>2
      <4> QED
        BY <1>1, <2>1, <3>1, <4>1, <4>2, SendingMoves DEF Sending
    <3> QED
      BY <1>1, <1>2, <3>2
  <2>5. TagGuardsLastChunk'
    <3> DEFINE before == C * ((Body - 1) \div C)
    <3>1. Body - 1 \in Nat /\ next <= Body - 1
      BY <1>2, <2>3
    <3>2. next <= before
      BY <1>2, <2>1, <2>3, <3>1, MultipleFloor
    <3>3. (Body - 1) \div C \in Int
      BY <1>2, <3>1
    <3>4. before \in Int /\ before' = before
      BY <1>2, <3>3
    <3>5. got' <= before
      BY <1>2, <2>3, <2>4, <3>2, <3>4
    <3> QED
      BY <1>1, <3>4, <3>5 DEF TagGuardsLastChunk
  <2>6. Stage'
    BY <1>1, <1>2, <1>3, <1>4, <2>1, <2>4 DEF Stage
  <2> QED
    BY <1>1, <2>4, <2>5, <2>6, NoErrorStage DEF ReadInv
<1>5. CASE pc = "last"
  <2> DEFINE bytes == n - bufs[uart].start
  <2>1. /\ Latest(uart) /\ read = Padded(n) /\ file.intact /\ Sending(uart, bytes)
    BY <1>5 DEF ReadInv, Stage
  <2>2. bufs[uart].start < n /\ Padded(n) = bufs[uart].start + bufs[uart].length /\ n <= Padded(n)
    <3>1. /\ bufs[uart].start % AES_BLOCK = 0 /\ bufs[uart].start < Padded(n) /\ n <= Padded(n)
          /\ Padded(n) = bufs[uart].start + bufs[uart].length
      BY <1>2, <2>1, PaddedFacts DEF Latest, Chunk
    <3> QED
      BY <1>2, <3>1, ChunkIsUsed
  <2>3. bytes \in Nat /\ bytes <= bufs[uart].length /\ H + bufs[uart].start + bytes = Body
    BY <1>2, <2>2
  <2>4. /\ Sending(uart, bytes)' /\ ReadTypeOK' /\ DeliveredInOrder'
    BY <1>1, <1>2, <2>1, <2>3, SendingMoves
  <2>5. TagGuardsLastChunk'
    BY <1>1, <2>1 DEF TagGuardsLastChunk
  <2>6. Stage'
    BY <1>1, <1>2, <1>3, <1>5, <2>1, <2>4 DEF Stage
  <2> QED
    BY <1>1, <2>4, <2>5, <2>6, NoErrorStage DEF ReadInv
<1> QED
  BY <1>1, <1>4, <1>5

LEMMA ReadNextInv == ReadInv /\ [ReadNext]_readVars => ReadInv'
<1> SUFFICES ASSUME ReadInv, [ReadNext]_readVars PROVE ReadInv'
  OBVIOUS
<1>1. ASSUME NEW n \in FileLengths, NEW intact \in BOOLEAN, NEW admitted \in BOOLEAN,
             BeginRead(n, intact, admitted)
      PROVE  ReadInv'
  BY <1>1, BeginReadInv
<1>2. CASE Cpu
  BY <1>2, SendNameInv, DecryptBlockInv, FirstDecryptedInv, NextChunkInv, ChunkDoneInv,
     CheckTagInv, LastSentInv, FinishReadInv, ReportErrorInv, SendErrorTextInv DEF Cpu
<1>3. CASE UNCHANGED readVars
  BY <1>3 DEF readVars, ReadInv, ReadTypeOK, DeliveredInOrder, TagGuardsLastChunk, Stage, ErrorStage,
              TagFailed, Quiet, AckDue, Latest, Holds, Sending, Chunk, Body, uart
<1> QED
  BY <1>1, <1>2, <1>3, TxMoveInv, HostAckInv, ReadResetInv DEF ReadNext

-----------------------------------------------------------------------------
(* The theorems. *)

\* Every state of read.c is one of the stages: what the buffers hold, what the
\* channel sends and which ACK is due follow from where the program stands.
THEOREM ReadInvariant == ReadSpec => []ReadInv
BY ReadInitInv, ReadNextInv, PTL DEF ReadSpec

\* The types hold throughout a read (read.c:30-282).
THEOREM ReadTypes == ReadSpec => []ReadTypeOK
<1>1. ReadInv => ReadTypeOK
  BY DEF ReadInv
<1> QED
  BY <1>1, ReadInvariant, PTL

\* For every chunk and block size, DMA never sends the buffer the CPU decrypts
\* into (read.c:199-241).
THEOREM BuffersNeverRace == ReadSpec => []NoBufferRace
<1>1. ReadInv => NoBufferRace
  BY Parts DEF ReadInv, NoBufferRace, Stage, ErrorStage, Quiet, AckDue, Sending, ReadTypeOK
<1> QED
  BY <1>1, ReadInvariant, PTL

\* For every file the host gets name and plaintext in order, each byte once and none
\* of the padding, and all of it when the read succeeds (read.c:166-275).
THEOREM PlaintextInOrder == ReadSpec => []DeliveredInOrder
<1>1. ReadInv => DeliveredInOrder
  BY DEF ReadInv
<1> QED
  BY <1>1, ReadInvariant, PTL

\* The last chunk of a file whose tag does not verify never leaves the device,
\* whatever its length (read.c:23-24, 242-258).
THEOREM LastChunkIsGuarded == ReadSpec => []TagGuardsLastChunk
<1>1. ReadInv => TagGuardsLastChunk
  BY DEF ReadInv
<1> QED
  BY <1>1, ReadInvariant, PTL

\* For every length HSM and host count the same ACKs: none is left over when the
\* program polls for the next command (read.c:218-275).
THEOREM NoAckIsLeft == ReadSpec => []NoStrayAck
<1>1. ReadInv => NoStrayAck
  BY DEF ReadInv, NoStrayAck, Stage, Quiet
<1> QED
  BY <1>1, ReadInvariant, PTL
-----------------------------------------------------------------------------
(* Nobody waits for ever, unless a tag fails. *)

\* The place the program is at has what it waits for, or the channel or the host is busy.
ReadReady ==
  \/ owes > 0 \/ tx.active
  \/ pc \in {"name", "finish", "errorHeader", "errorText"} /\ acks > 0
  \/ pc \in {"first", "loop"}
  \/ pc = "decrypt" /\ (bufs[aes].done < bufs[aes].length \/ acks > 0)
  \/ pc \in {"last", "error"}

\* Places still to come, padded bytes still to be laid out for a buffer, bytes of that
\* buffer still to be decrypted.
StageLeft == [name |-> 9, first |-> 8, loop |-> 7, decrypt |-> 7, last |-> 3, finish |-> 2,
              error |-> 6, errorHeader |-> 3, errorText |-> 1, idle |-> 0][pc]
ToPrepare ==
  IF pc \in {"name", "first", "loop", "decrypt"} THEN Padded(file.length) - read ELSE 0
ToDecrypt == IF pc \in {"first", "decrypt"} THEN bufs[aes].length - bufs[aes].done ELSE 0
\* How many steps of HSM, channel and host are left at most.
ReadLeft == StageLeft + 3 * ToPrepare + ToDecrypt + 3 * (Body - got) + 2 * owes + acks

\* HSM and host never both wait: for the channel (read.c:232, 260) or an ACK (170, 234, 263;
\* header.c:46, utils.c:27), except in the error for a bad tag.
ReadGoesOn == /\ pc # "idle" => ReadReady \/ (ErrorInBody /\ ~file.intact)
              /\ ReadLeft \in Nat
\* The loops of read.c (193, 206, 221) make progress with every step of anybody.
ReadCountsDown == Cpu \/ TxMove \/ HostAck => ReadLeft' < ReadLeft

LEMMA ReadCounts ==
  ASSUME ReadInv
  PROVE  /\ StageLeft \in Nat /\ ToPrepare \in Nat /\ ToDecrypt \in Nat /\ Body - got \in Nat
         /\ owes \in Nat /\ acks \in Nat /\ read \in Nat /\ got \in Nat /\ Padded(file.length) \in Nat
         /\ file.length \in Nat /\ ReadLeft \in Nat
<1>1. /\ owes \in Nat /\ acks \in Nat /\ read \in Nat /\ got \in Nat /\ file.length \in Nat
      /\ aes \in {1, 2} /\ uart \in {1, 2}
      /\ \A b \in {1, 2} : bufs[b] \in [start : Nat, length : Nat, done : Nat]
  BY Parts DEF ReadInv, ReadTypeOK
<1>2. Padded(file.length) \in Nat
  BY <1>1, PaddedFacts
<1>3. StageLeft \in Nat
  BY DEF ReadInv, ReadTypeOK, StageLeft
<1>4. Body - got \in Nat
  BY <1>1, Sizes DEF ReadInv, DeliveredInOrder, Body
<1>5. ToPrepare \in Nat
  <2>1. pc \in {"first", "loop", "decrypt"} => read <= Padded(file.length)
    BY DEF ReadInv, Stage, Latest
  <2>2. pc = "name" => read = 0
    BY DEF ReadInv, Stage
  <2> QED
    BY <1>1, <1>2, <2>1, <2>2 DEF ToPrepare
<1>6. ToDecrypt \in Nat
  <2>1. pc \in {"first", "decrypt"} => bufs[aes].done <= bufs[aes].length
    BY DEF ReadInv, Stage, Latest, Chunk
  <2> QED
    BY <1>1, <2>1 DEF ToDecrypt
<1>7. ReadLeft \in Nat
  BY <1>1, <1>3, <1>4, <1>5, <1>6 DEF ReadLeft
<1> QED
  BY <1>1, <1>2, <1>3, <1>4, <1>5, <1>6, <1>7

LEMMA ReadsGoOn == ReadInv => ReadGoesOn
<1> SUFFICES ASSUME ReadInv, pc # "idle"
             PROVE  ReadReady \/ (ErrorInBody /\ ~file.intact)
  BY ReadCounts DEF ReadGoesOn
<1>1. pc \in {"name", "first", "loop", "decrypt", "last", "finish", "error", "errorHeader",
              "errorText"}
  BY DEF ReadInv, ReadTypeOK
<1>2. AckDue => owes > 0 \/ acks > 0
  BY ReadCounts DEF AckDue
<1>3. pc \in {"name", "finish"} => AckDue
  BY DEF ReadInv, Stage
<1>4. pc = "decrypt" => tx.active \/ AckDue
  BY DEF ReadInv, Stage, Sending
<1>5. pc \in {"errorHeader", "errorText"} => AckDue \/ (ErrorInBody /\ ~file.intact)
  BY ReadCounts DEF ReadInv, ErrorStage, ErrorInBody, TagFailed
<1> QED
  BY <1>1, <1>2, <1>3, <1>4, <1>5 DEF ReadReady

LEMMA ReadsCountDown == ReadInv => ReadCountsDown
<1> SUFFICES ASSUME ReadInv, Cpu \/ TxMove \/ HostAck PROVE ReadLeft' < ReadLeft
  BY DEF ReadCountsDown
<1>1. /\ StageLeft \in Nat /\ ToPrepare \in Nat /\ ToDecrypt \in Nat /\ Body - got \in Nat
      /\ owes \in Nat /\ acks \in Nat /\ read \in Nat /\ got \in Nat /\ Padded(file.length) \in Nat
      /\ file.length \in Nat
  BY ReadCounts
<1> DEFINE P == Padded(file.length)
<1>2. file' = file /\ Body' = Body /\ Padded(file.length)' = P
  BY DEF Cpu, SendName, DecryptBlock, FirstDecrypted, NextChunk, ChunkDone, CheckTag, LastSent,
     FinishRead, ReportError, SendErrorText, FinishError, TxMove, HostAck, Body, Padded
<1>3. Body \in Nat /\ \A n : Due(n) \in {0, 1}
  BY <1>1, Sizes DEF Body, Due
<1>4. /\ aes \in {1, 2} /\ uart \in {1, 2} /\ uart # aes
      /\ \A b \in {1, 2} : bufs[b] \in [start : Nat, length : Nat, done : Nat]
      /\ DOMAIN bufs = {1, 2}
  BY Parts DEF ReadInv, ReadTypeOK
<1>5. CASE SendName
  <2> DEFINE first == NextLength(CHUNK_SIZE - READ_HEADER_LENGTH)
  <2>1. /\ pc = "name" /\ acks' = acks - 1 /\ got' = READ_HEADER_LENGTH
        /\ owes' = owes + Due(READ_HEADER_LENGTH)
        /\ \/ pc' = "finish" /\ read' = read
           \/ /\ file.length # 0 /\ pc' = "first" /\ aes' = aes
              /\ bufs' = [bufs EXCEPT ![aes].length = first] /\ read' = first
    BY <1>5 DEF SendName, TakeAck
  <2>2. got = 0 /\ read = 0 /\ aes = 1 /\ bufs[aes].done = 0
    BY <2>1 DEF ReadInv, Stage, EmptyBuffer
  <2>3. StageLeft = 9 /\ ToPrepare = P /\ ToDecrypt = 0
    BY <2>1, <2>2, <1>1 DEF StageLeft, ToPrepare, ToDecrypt
  <2>4. got' >= 1 /\ got' \in Nat /\ owes' <= owes + 1 /\ owes' \in Nat
    BY <2>1, <1>1, <1>3, Sizes
  <2>5. CASE pc' = "finish"
    <3>1. StageLeft' = 2 /\ ToPrepare' = 0 /\ ToDecrypt' = 0
      BY <2>5 DEF StageLeft, ToPrepare, ToDecrypt
    <3> QED
      BY <1>1, <1>2, <1>3, <2>1, <2>2, <2>3, <2>4, <3>1 DEF ReadLeft
  <2>6. CASE pc' = "first"
    <3>1. /\ file.length # 0 /\ aes' = aes /\ bufs' = [bufs EXCEPT ![aes].length = first]
          /\ read' = first
      BY <2>1, <2>6
    <3>2. first \in Nat
      <4>1. CHUNK_SIZE - READ_HEADER_LENGTH \in Nat /\ P - read \in Nat
        BY <1>1, <2>2, Sizes
      <4> QED
        BY <4>1 DEF NextLength
    <3> HIDE DEF first
    <3>3. bufs'[aes'].length = first /\ bufs'[aes'].done = 0
      BY <1>4, <2>2, <3>1, <3>2
    <3>4. StageLeft' = 8 /\ ToPrepare' = P - first /\ ToDecrypt' = first
      BY <1>2, <2>6, <3>1, <3>2, <3>3 DEF StageLeft, ToPrepare, ToDecrypt
    <3> QED
      BY <1>1, <1>2, <1>3, <2>1, <2>2, <2>3, <2>4, <3>2, <3>4 DEF ReadLeft
  <2> QED
    BY <2>1, <2>5, <2>6
<1>6. CASE DecryptBlock
  <2>1. /\ bufs' = [bufs EXCEPT ![aes].done = @ + AES_BLOCK] /\ pc \in {"first", "decrypt"}
        /\ UNCHANGED <<pc, file, aes, read, tx, got, sound, owes, acks>>
    BY <1>6 DEF DecryptBlock
  <2>2. bufs'[aes].length = bufs[aes].length /\ bufs'[aes].done = bufs[aes].done + AES_BLOCK
    BY <1>4, <2>1
  <2>3. ToDecrypt' = ToDecrypt - AES_BLOCK
    BY <1>4, <2>1, <2>2, Sizes DEF ToDecrypt
  <2>4. StageLeft' = StageLeft /\ ToPrepare' = ToPrepare
    BY <1>2, <2>1 DEF StageLeft, ToPrepare
  <2> QED
    BY <1>1, <1>2, <1>3, <2>1, <2>3, <2>4, Sizes DEF ReadLeft
<1>7. CASE FirstDecrypted
  <2>1. /\ pc = "first" /\ pc' = "loop" /\ read' = read /\ got' = got /\ owes' = owes /\ acks' = acks
        /\ bufs[aes].done = bufs[aes].length
    BY <1>7 DEF FirstDecrypted, Swap
  <2>2. StageLeft = 8 /\ StageLeft' = 7 /\ ToPrepare' = ToPrepare /\ ToDecrypt' = 0
    BY <1>2, <2>1 DEF StageLeft, ToPrepare, ToDecrypt
  <2> QED
    BY <1>1, <1>2, <1>3, <2>1, <2>2 DEF ReadLeft
<1>8. CASE NextChunk
  <2> DEFINE length == NextLength(CHUNK_SIZE)
  <2>1. /\ pc = "loop" /\ pc' = "decrypt" /\ read < P /\ read' = read + length /\ aes' = aes
        /\ bufs' = [bufs EXCEPT ![aes] = [start |-> read, length |-> length, done |-> 0]]
        /\ got' = got /\ owes' = owes /\ acks' = acks
    BY <1>8 DEF NextChunk
  <2>2. length \in Nat /\ length > 0
    BY <1>1, <2>1, Sizes DEF NextLength
  <2>3. ReadLeft' = StageLeft' + 3 * ToPrepare' + ToDecrypt' + 3 * (Body - got) + 2 * owes + acks
    BY <1>2, <2>1 DEF ReadLeft
  <2>4. 3 * (Body - got) \in Int /\ 2 * owes \in Int /\ acks \in Int
    BY <1>1
  <2>5. P \in Nat /\ read \in Nat
    BY <1>1
  <2> HIDE DEF length, P
  <2>6. bufs'[aes'].length = length /\ bufs'[aes'].done = 0
    BY <1>4, <2>1
  <2>7. /\ StageLeft = 7 /\ StageLeft' = 7 /\ ToPrepare = P - read /\ ToPrepare' = P - (read + length)
        /\ ToDecrypt = 0 /\ ToDecrypt' = length
    BY <1>2, <2>1, <2>2, <2>6 DEF StageLeft, ToPrepare, ToDecrypt, P
  <2>8. \A p, r, l, x, y, z \in Int : l > 0 =>
          7 + 3 * (p - (r + l)) + l + x + y + z < 7 + 3 * (p - r) + 0 + x + y + z
    OBVIOUS
  <2>9. 7 + 3 * (P - (read + length)) + length + 3 * (Body - got) + 2 * owes + acks
           < 7 + 3 * (P - read) + 0 + 3 * (Body - got) + 2 * owes + acks
    <3>1. P \in Int /\ read \in Int /\ length \in Int
      BY <2>2, <2>5
    <3> QED
      BY <2>2, <2>4, <2>8, <3>1, Zenon
  <2>10. ReadLeft = 7 + 3 * (P - read) + 0 + 3 * (Body - got) + 2 * owes + acks
    BY <2>7, Zenon DEF ReadLeft
  <2>11. ReadLeft' = 7 + 3 * (P - (read + length)) + length + 3 * (Body - got) + 2 * owes + acks
    BY <2>3, <2>7, Zenon
  <2> QED
    BY <2>9, <2>10, <2>11, Zenon
<1>9. CASE ChunkDone
  <2>1. /\ pc = "decrypt" /\ pc' = "loop" /\ read' = read /\ got' = got /\ owes' = owes
        /\ acks' = acks - 1
    BY <1>9 DEF ChunkDone, Swap, TakeAck
  <2>2. StageLeft = 7 /\ StageLeft' = 7 /\ ToPrepare' = ToPrepare /\ ToDecrypt' = 0
    BY <1>2, <2>1 DEF StageLeft, ToPrepare, ToDecrypt
  <2> QED
    BY <1>1, <1>2, <1>3, <2>1, <2>2 DEF ReadLeft
<1>10. CASE CheckTag \/ LastSent
  <2>1. /\ read' = read /\ got' = got /\ owes' = owes /\ acks' = acks
        /\ \/ pc = "loop" /\ pc' \in {"last", "error"}
           \/ pc = "last" /\ pc' = "finish"
    BY <1>10 DEF CheckTag, LastSent
  <2>2. StageLeft' < StageLeft /\ StageLeft' \in Nat /\ ToPrepare' = 0 /\ ToDecrypt' = 0
    BY <2>1 DEF StageLeft, ToPrepare, ToDecrypt
  <2>3. ReadLeft' = StageLeft' + 3 * 0 + 0 + 3 * (Body - got) + 2 * owes + acks
    BY <1>2, <2>1, <2>2 DEF ReadLeft
  <2>4. \A x, y, p, d, g, o, c \in Nat : y < x =>
          y + 3 * 0 + 0 + 3 * g + 2 * o + c < x + 3 * p + d + 3 * g + 2 * o + c
    OBVIOUS
  <2>5. StageLeft' + 3 * 0 + 0 + 3 * (Body - got) + 2 * owes + acks < ReadLeft
    BY <1>1, <2>2, <2>4, Zenon DEF ReadLeft
  <2> QED
    BY <2>3, <2>5, Zenon
<1>11. CASE FinishRead \/ FinishError
  <2>1. /\ read' = read /\ got' = got /\ owes' = owes /\ acks' = acks - 1
        /\ pc \in {"finish", "errorText"} /\ pc' = "idle"
    BY <1>11 DEF FinishRead, FinishError, TakeAck
  <2>2. StageLeft >= 1 /\ StageLeft' = 0 /\ ToPrepare' = 0 /\ ToDecrypt' = 0
    BY <2>1 DEF StageLeft, ToPrepare, ToDecrypt
  <2> QED
    BY <1>1, <1>2, <1>3, <2>1, <2>2 DEF ReadLeft
<1>12. CASE TxMove
  <2>1. /\ UNCHANGED <<pc, file, bufs, aes, read, acks>> /\ got' = got + 1
        /\ owes' = owes + Due(got + 1)
    BY <1>12 DEF TxMove
  <2>2. StageLeft' = StageLeft /\ ToPrepare' = ToPrepare /\ ToDecrypt' = ToDecrypt
    BY <1>2, <2>1 DEF StageLeft, ToPrepare, ToDecrypt
  <2>3. owes' \in Nat /\ owes' <= owes + 1
    BY <1>1, <1>3, <2>1
  <2> QED
    BY <1>1, <1>2, <1>3, <2>1, <2>2, <2>3 DEF ReadLeft
<1>13. CASE HostAck
  <2>1. /\ UNCHANGED <<pc, file, bufs, aes, read, got>> /\ owes' = owes - 1 /\ acks' = acks + 1
    BY <1>13 DEF HostAck
  <2>2. StageLeft' = StageLeft /\ ToPrepare' = ToPrepare /\ ToDecrypt' = ToDecrypt
    BY <1>2, <2>1 DEF StageLeft, ToPrepare, ToDecrypt
  <2> QED
    BY <1>1, <1>2, <1>3, <2>1, <2>2 DEF ReadLeft
<1>14. CASE ReportError \/ SendErrorText
  <2>1. /\ read' = read /\ got' = got /\ owes' \in Nat /\ owes' <= owes + 1
        /\ acks' \in Nat /\ acks' <= acks
        /\ \/ pc = "error" /\ pc' = "errorHeader"
           \/ pc = "errorHeader" /\ pc' = "errorText" /\ acks' = acks - 1
    BY <1>1, <1>14 DEF ReportError, SendErrorText, TakeAck, DueForError
  <2>2. /\ ToPrepare = 0 /\ ToPrepare' = 0 /\ ToDecrypt = 0 /\ ToDecrypt' = 0
        /\ \/ StageLeft = 6 /\ StageLeft' = 3
           \/ StageLeft = 3 /\ StageLeft' = 1 /\ acks' = acks - 1
    BY <2>1 DEF StageLeft, ToPrepare, ToDecrypt
  <2> QED
    BY <1>1, <1>2, <1>3, <2>1, <2>2 DEF ReadLeft
<1> QED
  BY <1>5, <1>6, <1>7, <1>8, <1>9, <1>10, <1>11, <1>12, <1>13, <1>14 DEF Cpu

\* A read of a file of any length is over after a bounded number of steps of HSM, channel
\* and host, and until then one of them can be taken (read.c:168-267), unless the error for
\* a tag that failed is under way: what ReadReturns needs besides fairness.
THEOREM ReadRunsOut == ReadSpec => []ReadGoesOn /\ [][ReadCountsDown]_readVars
  BY ReadInvariant, ReadsGoOn, ReadsCountDown, PTL

\* The read of a file whose tag does not verify comes to its end by a reset.
OnlyResetEnds == pc # "idle" /\ pc' = "idle" /\ got > 0 /\ file.length > 0 /\ ~file.intact
                 => ReadReset

\* Once the transfer of such a file has begun nothing but a reset ends it (read.c:247-250):
\* the host waits for the rest of the body, the HSM for an ACK to its error (header.c:46,
\* utils.c:27).
THEOREM CorruptedReadsHang == ReadSpec => [][OnlyResetEnds]_readVars
<1>1. ASSUME ReadInv, [ReadNext]_readVars PROVE [OnlyResetEnds]_readVars
  <2> SUFFICES ASSUME pc # "idle", pc' = "idle", got > 0, file.length > 0, ~file.intact, ~ReadReset
               PROVE  FALSE
    BY DEF OnlyResetEnds
  <2>1. FinishRead \/ FinishError
    BY <1>1 DEF ReadNext, readVars, BeginRead, Cpu, SendName, DecryptBlock, FirstDecrypted, Swap,
       NextChunk, ChunkDone, CheckTag, LastSent, ReportError, SendErrorText, TxMove, HostAck
  <2>2. CASE FinishRead
    BY <1>1, <2>2 DEF ReadInv, Stage, FinishRead
  <2>3. CASE FinishError
    BY <1>1, <2>3, Parts DEF ReadInv, ReadTypeOK, ErrorStage, Quiet, FinishError, TakeAck
  <2> QED
    BY <2>1, <2>2, <2>3
<1> QED
  BY <1>1, ReadInvariant, PTL DEF ReadSpec
=============================================================================
