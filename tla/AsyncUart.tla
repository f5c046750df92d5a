----------------------------- MODULE AsyncUart -----------------------------
(***************************************************************************)
(* async_uart.c: an upload is moved from the host UART into RAM by a DMA   *)
(* channel, one chunk per DMA transfer; the completion interrupt of each   *)
(* chunk re-arms the channel and acknowledges the chunk to the host, so    *)
(* that the CPU can derive keys meanwhile.  The client may raise ctx.stop  *)
(* at any time; the next interrupt then halts the transfer.                *)
(*                                                                         *)
(* Three actors interleave: the host (HostSendByte, HostReadAck), the DMA  *)
(* hardware (DmaMove) and the CPU, which runs either the interrupt handler *)
(* (the Isr actions) or its client.  The client modelled here is the most  *)
(* general one; WriteCommand is the client of the firmware.                *)
(*                                                                         *)
(* Operators marked "Fault" are wrong variants of the definition they      *)
(* precede; no specification uses them.  They show which mistake each      *)
(* property would notice.                                                  *)
(***************************************************************************)
EXTENDS Naturals

CONSTANTS CHUNK_SIZE, WRITE_HEADER_SIZE, MAX_FILE_SIZE,
          FileLengths   \* file lengths hosts announce (0 .. 2^16-1 in C)

ASSUME SizesAssumption ==
  /\ CHUNK_SIZE \in Nat /\ WRITE_HEADER_SIZE \in Nat /\ MAX_FILE_SIZE \in Nat
  /\ WRITE_HEADER_SIZE < CHUNK_SIZE
  /\ CHUNK_SIZE - WRITE_HEADER_SIZE <= MAX_FILE_SIZE
  /\ FileLengths \subseteq Nat

VARIABLES
  ctx,      \* async_uart_ctx: total, transfered (armed so far), stop, stopped, complete
  live,     \* the frame of ctx and its buffer exists and transfers[] refers to it
  dma,      \* channel: active, bytes left, interrupt enabled / pending, UART RX event
  isr,      \* "none", or where DMA_IRQHandler stands: "ack", "final"
  filled,   \* bytes DMA has stored in ctx.buffer
  rxFifo,   \* bytes in the UART receive FIFO
  host,     \* sender: bytes sent, and the offset it may send up to (quota)
  acks,     \* ACK messages the host has not read yet
  acked     \* history: file bytes acknowledged

asyncVars == <<ctx, live, dma, isr, filled, rxFifo, host, acks, acked>>

FirstChunk == CHUNK_SIZE - WRITE_HEADER_SIZE
Least(a, b) == IF a < b THEN a ELSE b

NoCtx == [total |-> 0, transfered |-> 0, stop |-> FALSE, stopped |-> FALSE, complete |-> FALSE]
DmaOff == [active |-> FALSE, left |-> 0, irqOn |-> FALSE, irq |-> FALSE, rxEvent |-> FALSE]
HostIdle == [sent |-> 0, quota |-> 0]

\* State of the peripherals and of an absent upload after a device reset.
AsyncInit ==
  /\ ctx = NoCtx /\ live = FALSE /\ dma = DmaOff /\ isr = "none"
  /\ filled = 0 /\ rxFifo = 0 /\ host = HostIdle /\ acks = 0 /\ acked = 0

-----------------------------------------------------------------------------
(* The client, on the CPU outside the interrupt handler. *)

\* async_uart_receive, for an upload of n bytes whose command header has just
\* been parsed.  stopNow is the caller raising stop right after the call: the
\* few instructions in between are far shorter than one chunk on the wire.
AsyncReceive(n, stopNow) ==
  LET first == IF n < FirstChunk THEN n ELSE FirstChunk IN
  /\ ~live /\ acks = 0   \* a host starts a command after it read the last answer
  /\ live' = TRUE
  /\ ctx' = [NoCtx EXCEPT !.total = n, !.transfered = first, !.stop = stopNow]
  /\ dma' = [active |-> TRUE, left |-> first, irqOn |-> TRUE, irq |-> FALSE, rxEvent |-> TRUE]
  /\ host' = [sent |-> 0, quota |-> Least(n, FirstChunk)]
  /\ filled' = 0 /\ acked' = 0
  /\ UNCHANGED <<isr, rxFifo, acks>>

RaiseStop ==
  /\ isr = "none"
  /\ ctx' = [ctx EXCEPT !.stop = TRUE]
  /\ UNCHANGED <<live, dma, isr, filled, rxFifo, host, acks, acked>>

\* The client returns once the transfer is stopped and the host caught up.
Release ==
  /\ live /\ ctx.stopped /\ isr = "none" /\ acks = 0
  /\ live' = FALSE /\ host' = HostIdle
  /\ ctx' = NoCtx /\ filled' = 0 /\ acked' = 0
  /\ UNCHANGED <<dma, isr, rxFifo, acks>>

-----------------------------------------------------------------------------
(* DMA_IRQHandler.  It preempts the client and is itself overtaken only by *)
(* the hardware, so it is split where the hardware or the host can react.  *)

IsrEnter == isr = "none" /\ dma.irq /\ dma.irqOn
\* Fault: one byte too few.
BytesRemaining_offByOne == ctx.total - ctx.transfered - 1

BytesRemaining == ctx.total - ctx.transfered

\* Fault: DL_DMA_clearInterruptStatus forgotten.
DmaSilenced_stillPending == [dma EXCEPT !.irqOn = FALSE, !.rxEvent = FALSE]

DmaSilenced == [dma EXCEPT !.irqOn = FALSE, !.rxEvent = FALSE, !.irq = FALSE]

\* Fault: the waiting client is not told.
IsrStop_untold ==
  /\ IsrEnter /\ ctx.stop
  /\ dma' = DmaSilenced
  /\ UNCHANGED <<ctx, live, isr, filled, rxFifo, host, acks, acked>>

\* Fault: the chunk given up is acknowledged all the same.
IsrStop_acks ==
  /\ IsrEnter /\ ctx.stop
  /\ dma' = DmaSilenced
  /\ ctx' = [ctx EXCEPT !.stopped = TRUE]
  /\ acks' = acks + 1 /\ acked' = filled
  /\ UNCHANGED <<live, isr, filled, rxFifo, host>>

\* Fault: the channel's interrupt stays enabled.
IsrStop_stillEnabled ==
  /\ IsrEnter /\ ctx.stop
  /\ dma' = [dma EXCEPT !.rxEvent = FALSE, !.irq = FALSE]
  /\ ctx' = [ctx EXCEPT !.stopped = TRUE]
  /\ UNCHANGED <<live, isr, filled, rxFifo, host, acks, acked>>

IsrStop ==
  /\ IsrEnter /\ ctx.stop
  /\ dma' = DmaSilenced
  /\ ctx' = [ctx EXCEPT !.stopped = TRUE]
  /\ UNCHANGED <<live, isr, filled, rxFifo, host, acks, acked>>

\* Fault: a short last chunk is taken for the end.
IsrFinalAck_early ==
  /\ IsrEnter /\ ~ctx.stop /\ BytesRemaining < CHUNK_SIZE
  /\ isr' = "final"
  /\ acks' = acks + 1 /\ acked' = ctx.total
  /\ UNCHANGED <<ctx, live, dma, filled, rxFifo, host>>

\* Last chunk: the ACK goes out first, the peripheral is silenced after it.
IsrFinalAck ==
  /\ IsrEnter /\ ~ctx.stop /\ BytesRemaining = 0
  /\ isr' = "final"
  /\ acks' = acks + 1 /\ acked' = ctx.total
  /\ UNCHANGED <<ctx, live, dma, filled, rxFifo, host>>

IsrFinish ==
  /\ isr = "final"
  /\ isr' = "none"
  /\ dma' = DmaSilenced
  /\ ctx' = [ctx EXCEPT !.complete = TRUE, !.stopped = TRUE]
  /\ UNCHANGED <<live, filled, rxFifo, host, acks, acked>>

\* Fault: stop is not looked at.
IsrRearm_ignoresStop ==
  LET chunk == IF BytesRemaining < CHUNK_SIZE THEN BytesRemaining ELSE CHUNK_SIZE IN
  /\ IsrEnter /\ BytesRemaining # 0
  /\ dma' = [dma EXCEPT !.active = TRUE, !.left = chunk, !.irq = FALSE]
  /\ ctx' = [ctx EXCEPT !.transfered = @ + chunk]
  /\ isr' = "ack"
  /\ UNCHANGED <<live, filled, rxFifo, host, acks, acked>>

\* Fault: DL_DMA_enableChannel forgotten.
IsrRearm_notArmed ==
  LET chunk == IF BytesRemaining < CHUNK_SIZE THEN BytesRemaining ELSE CHUNK_SIZE IN
  /\ IsrEnter /\ ~ctx.stop /\ BytesRemaining # 0
  /\ dma' = [dma EXCEPT !.left = chunk, !.irq = FALSE]
  /\ ctx' = [ctx EXCEPT !.transfered = @ + chunk]
  /\ isr' = "ack"
  /\ UNCHANGED <<live, filled, rxFifo, host, acks, acked>>

\* Another chunk: the status is cleared and the channel re-armed before the ACK.
IsrRearm ==
  LET chunk == IF BytesRemaining < CHUNK_SIZE THEN BytesRemaining ELSE CHUNK_SIZE IN
  /\ IsrEnter /\ ~ctx.stop /\ BytesRemaining # 0
  /\ dma' = [dma EXCEPT !.active = TRUE, !.left = chunk, !.irq = FALSE]
  /\ ctx' = [ctx EXCEPT !.transfered = @ + chunk]
  /\ isr' = "ack"
  /\ UNCHANGED <<live, filled, rxFifo, host, acks, acked>>

IsrAck ==
  /\ isr = "ack"
  /\ isr' = "none"
  /\ acks' = acks + 1 /\ acked' = filled
  /\ UNCHANGED <<ctx, live, dma, filled, rxFifo, host>>

-----------------------------------------------------------------------------
(* Hardware and host. *)

DmaReady == dma.active /\ dma.rxEvent /\ rxFifo > 0

\* One byte from the FIFO to the buffer; the last one of a transfer disables
\* the channel and raises its interrupt.
DmaMove ==
  /\ DmaReady
  /\ dma' = [dma EXCEPT !.left = @ - 1, !.active = (dma.left > 1), !.irq = (dma.left = 1)]
  /\ rxFifo' = rxFifo - 1
  /\ filled' = filled + 1
  /\ UNCHANGED <<ctx, live, isr, host, acks, acked>>

\* A byte lasts thousands of CPU cycles on the wire: a byte that DMA can take
\* is taken before the next one is complete.
HostSendByte ==
  /\ ~DmaReady
  /\ host.sent < host.quota
  /\ host' = [host EXCEPT !.sent = @ + 1]
  /\ rxFifo' = rxFifo + 1
  /\ UNCHANGED <<ctx, live, dma, isr, filled, acks, acked>>

\* The host goes on with the next chunk of the file it announced.
HostReadAck ==
  /\ acks > 0
  /\ acks' = acks - 1
  /\ host' = [host EXCEPT !.quota = Least(ctx.total, @ + CHUNK_SIZE)]
  /\ UNCHANGED <<ctx, live, dma, isr, filled, rxFifo, acked>>

\* Watchdog, power loss or a fault handler: RAM and peripherals start over and
\* the host gives its upload up.
AsyncReset ==
  /\ ctx' = NoCtx /\ live' = FALSE /\ dma' = DmaOff /\ isr' = "none"
  /\ filled' = 0 /\ rxFifo' = 0 /\ host' = HostIdle /\ acks' = 0 /\ acked' = 0

Hardware == \/ IsrStop \/ IsrFinalAck \/ IsrFinish \/ IsrRearm \/ IsrAck
            \/ DmaMove \/ HostSendByte \/ HostReadAck

\* The client acknowledges an empty file itself: no transfer is started for it.
AckEmptyFile ==
  /\ ~live /\ isr = "none" /\ acks = 0
  /\ acks' = 1
  /\ UNCHANGED <<ctx, live, dma, isr, filled, rxFifo, host, acked>>

\* A transfer longer than the buffer is one the client stops at once.
Client == \/ \E n \in FileLengths \ {0}, stopNow \in BOOLEAN :
                (n > MAX_FILE_SIZE => stopNow) /\ AsyncReceive(n, stopNow)
          \/ RaiseStop \/ Release \/ AckEmptyFile

AsyncNext == Hardware \/ Client \/ AsyncReset

AsyncSpec == AsyncInit /\ [][AsyncNext]_asyncVars

\* The handler and the DMA controller run when they are due, and a host that
\* announced a file goes on sending it and reading its acknowledgements.
AsyncFairness ==
  /\ WF_asyncVars(IsrStop) /\ WF_asyncVars(IsrFinalAck) /\ WF_asyncVars(IsrFinish)
  /\ WF_asyncVars(IsrRearm) /\ WF_asyncVars(IsrAck) /\ WF_asyncVars(DmaMove)
  /\ WF_asyncVars(HostSendByte) /\ WF_asyncVars(HostReadAck)

AsyncFairSpec == AsyncSpec /\ AsyncFairness

-----------------------------------------------------------------------------
(* Properties. *)

AsyncTypeOK ==
  /\ ctx \in [total : Nat, transfered : Nat, stop : BOOLEAN,
              stopped : BOOLEAN, complete : BOOLEAN]
  /\ live \in BOOLEAN
  /\ dma \in [active : BOOLEAN, left : Nat, irqOn : BOOLEAN, irq : BOOLEAN, rxEvent : BOOLEAN]
  /\ isr \in {"none", "ack", "final"}
  /\ filled \in Nat /\ rxFifo \in Nat /\ acks \in Nat /\ acked \in Nat
  /\ host \in [sent : Nat, quota : Nat]

\* The buffer holds MAX_FILE_SIZE bytes, yet the channel is started before the
\* announced length is checked (write.c:72-89): what DMA has been armed for
\* never runs past the buffer's end.
BufferBound == ctx.transfered <= MAX_FILE_SIZE

\* async_uart.h:42-44: transfer_complete says the buffer holds the whole file.
CompleteMeansFilled == ctx.complete => filled = ctx.total

\* async_uart.h:50-52: once stopped, the channel takes no further byte and no
\* interrupt of it can run, so the caller may return and give up the buffer;
\* and after it has, no transfer refers to its dead stack frame.
StoppedMeansHalted ==
  (ctx.stopped \/ ~live) => /\ ~dma.active /\ dma.left = 0 /\ ~dma.irqOn /\ ~dma.irq
                           /\ isr = "none"

\* The handler arms the next chunk before it acknowledges the last one: bytes
\* never wait in the FIFO (4 deep) for a channel that is not armed.
NoOverrun == rxFifo <= 1 /\ (rxFifo = 1 => dma.active)

\* Only bytes that are in RAM are acknowledged, and the host is never more
\* than one chunk ahead of what it knows to have arrived.
AcknowledgedIsStored == acked <= filled /\ host.sent <= acked + CHUNK_SIZE

\* An upload that is not cut off by a reset always gets to its end.
UploadStops == live ~> (ctx.stopped \/ ~live)

\* AsyncUart keeps the contract of ChunkedTransfer: one acknowledgement per
\* chunk, the first shortened by the header, the last one exactly at the end.
Transfer == INSTANCE ChunkedTransfer WITH
  status <- IF ~live THEN "idle" ELSE IF acked = ctx.total THEN "complete"
            ELSE IF ctx.stopped THEN "halted" ELSE "moving",
  total <- IF live THEN ctx.total ELSE 0

KeepsTransferContract == Transfer!Spec
=============================================================================
