-------------------------- MODULE ChunkedTransfer --------------------------
(***************************************************************************)
(* What a chunked upload promises its sender, without DMA, interrupts or   *)
(* threads: the file is acknowledged chunk by chunk, the first chunk being *)
(* shortened by the command header that travels in it, and the transfer    *)
(* ends either complete (every byte acknowledged) or halted.  This is the  *)
(* contract of async_uart.h; AsyncUart implements it.                      *)
(***************************************************************************)
EXTENDS Naturals

CONSTANTS CHUNK_SIZE,         \* bytes between two acknowledgements
          WRITE_HEADER_SIZE,  \* header bytes carried by the first chunk
          FileLengths         \* lengths a sender may announce

VARIABLES status,   \* "idle", "moving", "complete" or "halted"
          total,    \* announced length
          acked     \* file bytes acknowledged so far

vars == <<status, total, acked>>

FirstChunk == CHUNK_SIZE - WRITE_HEADER_SIZE

\* File offset up to which the next acknowledgement reaches.
NextAck ==
  LET room == IF acked = 0 THEN FirstChunk ELSE CHUNK_SIZE
  IN  IF total - acked <= room THEN total ELSE acked + room

Init == status = "idle" /\ total = 0 /\ acked = 0

Begin(n) ==
  /\ status = "idle"
  /\ status' = "moving" /\ total' = n /\ acked' = 0

\* A whole chunk has arrived and is acknowledged; the last one completes.
Ack ==
  /\ status = "moving"
  /\ acked' = NextAck
  /\ status' = IF NextAck = total THEN "complete" ELSE "moving"
  /\ UNCHANGED total

\* The receiver gives up at a chunk boundary, without acknowledging it.
Halt ==
  /\ status = "moving"
  /\ status' = "halted"
  /\ UNCHANGED <<total, acked>>

\* The receiver lets go of the buffer (or is reset).
End ==
  /\ status # "idle"
  /\ status' = "idle" /\ total' = 0 /\ acked' = 0

Next == Ack \/ Halt \/ End \/ \E n \in FileLengths : Begin(n)

Spec == Init /\ [][Next]_vars
=============================================================================
