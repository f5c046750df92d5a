----------------------------- MODULE ReadStream -----------------------------
(***************************************************************************)
(* message/read.c: a file is decrypted block by block into one buffer      *)
(* while DMA sends the other to the host; the buffers are swapped when the *)
(* CPU is done, the DMA channel has drained and the host has acknowledged. *)
(* The GCM tag is known only after the last block, so the last chunk is    *)
(* held back until it is checked.                                          *)
(*                                                                         *)
(* The CPU, the DMA channel and the host interleave.  The host follows     *)
(* utils_send_buffer: it acknowledges the header, every CHUNK_SIZE body    *)
(* bytes, and the end of the body.  All it knows of a body is its length:  *)
(* an error sent in the middle of one counts as body.                      *)
(* Operators marked "Fault" are wrong variants no specification uses.      *)
(***************************************************************************)
EXTENDS Naturals

CONSTANTS CHUNK_SIZE, READ_HEADER_LENGTH,
          AES_BLOCK,     \* bytes decrypted at a time
          HEADER_SIZE,   \* of a message header
          ERROR_LENGTH,  \* of the text of an error
          FileLengths,   \* lengths of files in the slots
          Resets         \* whether power loss and watchdog resets are modelled

ASSUME ReadAssumption ==
  /\ AES_BLOCK \in Nat \ {0} /\ CHUNK_SIZE \in Nat /\ READ_HEADER_LENGTH \in Nat \ {0}
  /\ CHUNK_SIZE % AES_BLOCK = 0 /\ READ_HEADER_LENGTH % AES_BLOCK = 0
  /\ READ_HEADER_LENGTH < CHUNK_SIZE
  /\ HEADER_SIZE \in Nat \ {0} /\ ERROR_LENGTH \in 1 .. CHUNK_SIZE - 1
  /\ FileLengths \subseteq Nat
  /\ Resets \in BOOLEAN

VARIABLES
  pc,       \* where message_read_response stands
  file,     \* the file read: length, and whether its tag will verify
  bufs,     \* buffers[2]: offset of the plaintext held, length, bytes decrypted
  aes,      \* which one aes_buffer points to; uart_buffer is the other
  read,     \* bytes_read
  tx,       \* DMA channel: active, buffer, position, bytes left
  got,      \* bytes of name and file the host has received
  sound,    \* history: each was the right byte of name and plaintext
  owes,     \* ACKs the host has yet to send
  acks      \* ACKs on their way to the HSM

readVars == <<pc, file, bufs, aes, read, tx, got, sound, owes, acks>>

uart == 3 - aes
EmptyBuffer == [start |-> 0, length |-> 0, done |-> 0]
TxOff == [active |-> FALSE, buf |-> 1, pos |-> 0, left |-> 0]

\* Fault: the length is not rounded up to whole blocks.
Padded_unrounded(n) == n

Padded(n) == IF n % AES_BLOCK = 0 THEN n ELSE n + AES_BLOCK - (n % AES_BLOCK)
Body == READ_HEADER_LENGTH + file.length
NextLength(room) ==
  IF Padded(file.length) - read < room THEN Padded(file.length) - read ELSE room

\* The host owes an ACK at a chunk boundary and at the end.
Due(received) == IF received % CHUNK_SIZE = 0 \/ received = Body THEN 1 ELSE 0

\* What it owes for the next bytes of an error, some of which it has: one ACK if that is
\* its answer; those of the body if it waits for the rest of one.
DueForError(before, bytes) ==
  IF got = 0 \/ \E n \in got + before + 1 .. got + before + bytes : n <= Body /\ Due(n) = 1
  THEN 1 ELSE 0

ReadInit ==
  /\ pc = "idle" /\ file = [length |-> 0, intact |-> TRUE]
  /\ bufs = [b \in {1, 2} |-> EmptyBuffer] /\ aes = 1 /\ read = 0 /\ tx = TxOff
  /\ got = 0 /\ sound = TRUE /\ owes = 0 /\ acks = 0

-----------------------------------------------------------------------------
(* The CPU. *)

\* The command is admitted (PIN, slot, group, permission, size and signature
\* hold) and the response header is sent, or it is answered with an error.
BeginRead(length, intact, admitted) ==
  /\ pc = "idle"
  /\ pc' = IF admitted THEN "name" ELSE "error"
  /\ file' = [length |-> length, intact |-> intact]
  /\ bufs' = [b \in {1, 2} |-> EmptyBuffer] /\ aes' = 1 /\ read' = 0
  /\ got' = 0 /\ sound' = TRUE
  /\ owes' = IF admitted THEN 1 ELSE 0
  /\ UNCHANGED <<tx, acks>>

\* message_header_receive_ack.
TakeAck == acks > 0 /\ acks' = acks - 1

\* Once the header is acknowledged the name goes out, and the first chunk, which
\* shares a CHUNK_SIZE with the name, is sized.
SendName ==
  LET first == NextLength(CHUNK_SIZE - READ_HEADER_LENGTH) IN
  /\ pc = "name" /\ TakeAck
  /\ got' = READ_HEADER_LENGTH /\ owes' = owes + Due(READ_HEADER_LENGTH)
  /\ IF file.length = 0
     THEN pc' = "finish" /\ UNCHANGED <<bufs, read>>
     ELSE pc' = "first" /\ bufs' = [bufs EXCEPT ![aes].length = first] /\ read' = first
  /\ UNCHANGED <<file, aes, tx, sound>>

DecryptBlock ==
  /\ pc \in {"first", "decrypt"} /\ bufs[aes].done < bufs[aes].length
  /\ bufs' = [bufs EXCEPT ![aes].done = @ + AES_BLOCK]
  /\ UNCHANGED <<pc, file, aes, read, tx, got, sound, owes, acks>>

Swap == aes' = uart /\ pc' = "loop"

FirstDecrypted ==
  /\ pc = "first" /\ bufs[aes].done = bufs[aes].length
  /\ Swap
  /\ UNCHANGED <<file, bufs, read, tx, got, sound, owes, acks>>

\* Fault: the channel is pointed at the buffer being filled.
Transmit_wrongBuffer(bytes) == tx' = [active |-> TRUE, buf |-> aes, pos |-> 0, left |-> bytes]

Transmit(bytes) == tx' = [active |-> TRUE, buf |-> uart, pos |-> 0, left |-> bytes]

\* More to decrypt: send the buffer that is ready, and go on with the other.
NextChunk ==
  LET length == NextLength(CHUNK_SIZE) IN
  /\ pc = "loop" /\ read < Padded(file.length)
  /\ bufs' = [bufs EXCEPT ![aes] = [start |-> read, length |-> length, done |-> 0]]
  /\ read' = read + length
  /\ Transmit(bufs[uart].length)
  /\ pc' = "decrypt"
  /\ UNCHANGED <<file, aes, got, sound, owes, acks>>

\* Fault: the ACK is not read.
ChunkDone_ackUnread ==
  /\ pc = "decrypt" /\ bufs[aes].done = bufs[aes].length
  /\ ~tx.active /\ acks > 0
  /\ Swap
  /\ UNCHANGED <<file, bufs, read, tx, got, sound, owes, acks>>

\* Decrypted, sent, and acknowledged.
ChunkDone ==
  /\ pc = "decrypt" /\ bufs[aes].done = bufs[aes].length
  /\ ~tx.active /\ TakeAck
  /\ Swap
  /\ UNCHANGED <<file, bufs, read, tx, got, sound, owes>>

\* Fault: the result of crypto_verify16 is not looked at.
CheckTag_unchecked ==
  /\ pc = "loop" /\ read = Padded(file.length)
  /\ Transmit(bufs[uart].length - (Padded(file.length) - file.length))
  /\ pc' = "last"
  /\ UNCHANGED <<file, bufs, aes, read, got, sound, owes, acks>>

\* Fault: the padding is sent as well.
CheckTag_sendsPadding ==
  /\ pc = "loop" /\ read = Padded(file.length)
  /\ IF file.intact
     THEN Transmit(bufs[uart].length) /\ pc' = "last"
     ELSE pc' = "error" /\ UNCHANGED tx
  /\ UNCHANGED <<file, bufs, aes, read, got, sound, owes, acks>>

\* The last chunk leaves, without the padding, only if the tag verifies.
CheckTag ==
  /\ pc = "loop" /\ read = Padded(file.length)
  /\ IF file.intact
     THEN /\ Transmit(bufs[uart].length - (Padded(file.length) - file.length))
          /\ pc' = "last"
     ELSE pc' = "error" /\ UNCHANGED tx
  /\ UNCHANGED <<file, bufs, aes, read, got, sound, owes, acks>>

\* Fault: the final ACK is not waited for.
LastSent_returns ==
  /\ pc = "last" /\ ~tx.active
  /\ pc' = "idle"
  /\ UNCHANGED <<file, bufs, aes, read, tx, got, sound, owes, acks>>

LastSent ==
  /\ pc = "last" /\ ~tx.active
  /\ pc' = "finish"
  /\ UNCHANGED <<file, bufs, aes, read, tx, got, sound, owes, acks>>

FinishRead ==
  /\ pc = "finish" /\ TakeAck
  /\ pc' = "idle"
  /\ UNCHANGED <<file, bufs, aes, read, tx, got, sound, owes>>

\* message_header_send_error: header, ACK, text, ACK.
ReportError ==
  /\ pc = "error"
  /\ pc' = "errorHeader" /\ owes' = owes + DueForError(0, HEADER_SIZE)
  /\ UNCHANGED <<file, bufs, aes, read, tx, got, sound, acks>>

SendErrorText ==
  /\ pc = "errorHeader" /\ TakeAck
  /\ pc' = "errorText" /\ owes' = owes + DueForError(HEADER_SIZE, ERROR_LENGTH)
  /\ UNCHANGED <<file, bufs, aes, read, tx, got, sound>>

FinishError ==
  /\ pc = "errorText" /\ TakeAck
  /\ pc' = "idle"
  /\ UNCHANGED <<file, bufs, aes, read, tx, got, sound, owes>>

-----------------------------------------------------------------------------
(* The DMA channel and the host. *)

\* One byte to the host: the right one if the buffer holds that offset already.
TxMove ==
  LET b == bufs[tx.buf] IN
  /\ tx.active
  /\ tx' = [tx EXCEPT !.pos = @ + 1, !.left = @ - 1, !.active = (tx.left > 1)]
  /\ sound' = (sound /\ tx.pos < b.done /\ b.start + tx.pos = got - READ_HEADER_LENGTH)
  /\ got' = got + 1 /\ owes' = owes + Due(got + 1)
  /\ UNCHANGED <<pc, file, bufs, aes, read, acks>>

HostAck ==
  /\ owes > 0
  /\ owes' = owes - 1 /\ acks' = acks + 1
  /\ UNCHANGED <<pc, file, bufs, aes, read, tx, got, sound>>

ReadReset ==
  /\ Resets /\ pc # "idle"
  /\ pc' = "idle" /\ tx' = TxOff /\ owes' = 0 /\ acks' = 0
  /\ UNCHANGED <<file, bufs, aes, read, got, sound>>

Cpu == SendName \/ DecryptBlock \/ FirstDecrypted \/ NextChunk \/ ChunkDone \/ CheckTag
       \/ LastSent \/ FinishRead \/ ReportError \/ SendErrorText \/ FinishError

ReadNext ==
  \/ \E n \in FileLengths, intact \in BOOLEAN, admitted \in BOOLEAN :
       BeginRead(n, intact, admitted)
  \/ Cpu \/ TxMove \/ HostAck \/ ReadReset

ReadSpec == ReadInit /\ [][ReadNext]_readVars

\* CPU, DMA and host go on while they can.
ReadFairSpec ==
  ReadSpec /\ WF_readVars(Cpu) /\ WF_readVars(TxMove) /\ WF_readVars(HostAck)

-----------------------------------------------------------------------------
(* Properties. *)

ReadTypeOK ==
  /\ pc \in {"idle", "name", "first", "loop", "decrypt", "last", "finish", "error",
            "errorHeader", "errorText"}
  /\ file \in [length : FileLengths \cup {0}, intact : BOOLEAN]
  /\ bufs \in [{1, 2} -> [start : Nat, length : 0 .. CHUNK_SIZE, done : 0 .. CHUNK_SIZE]]
  /\ aes \in {1, 2} /\ read \in Nat
  /\ tx \in [active : BOOLEAN, buf : {1, 2}, pos : 0 .. CHUNK_SIZE, left : 0 .. CHUNK_SIZE]
  /\ got \in Nat /\ sound \in BOOLEAN /\ owes \in {0, 1} /\ acks \in {0, 1}

\* The CPU never decrypts into the buffer DMA is sending.
NoBufferRace == tx.active => tx.buf # aes

\* The host receives name and plaintext in order, each byte once, none of the
\* padding and none before it is decrypted, and all of it in a read that succeeds.
DeliveredInOrder == sound /\ got <= Body /\ (pc = "finish" => got = Body)

\* read.c:23-24: of a file whose tag does not verify the last chunk never
\* leaves, however the transfer of the others is interleaved.
TagGuardsLastChunk ==
  LET before == CHUNK_SIZE * ((Body - 1) \div CHUNK_SIZE)
  IN  ~file.intact /\ file.length > 0 => got <= before \/ got <= READ_HEADER_LENGTH

\* HSM and host count the same ACKs, for every length: when the HSM is back in
\* its polling loop no ACK is left that it would parse as a command.
NoStrayAck == pc = "idle" => acks = 0 /\ owes = 0 /\ ~tx.active

\* The error for a bad tag is under way in the middle of the body (read.c:249).
ErrorInBody == pc \in {"errorHeader", "errorText"} /\ got > 0

\* Whatever the length, a read comes back to the polling loop, or to the error for a tag
\* that failed: HSM and host never both wait for the other's ACK or data before that.
ReadReturns == (pc # "idle") ~> (pc = "idle" \/ (ErrorInBody /\ ~file.intact))
=============================================================================
