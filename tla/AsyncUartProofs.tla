-------------------------- MODULE AsyncUartProofs --------------------------
(***************************************************************************)
(* What AsyncUart guarantees for every chunk size, header size, buffer and *)
(* set of file lengths.  The invariant says which of five phases a live    *)
(* transfer is in, and how the five byte counters relate in each.          *)
(***************************************************************************)
EXTENDS AsyncUart, TLAPS

ChannelOn  == dma.irqOn /\ dma.rxEvent
ChannelOff == ~dma.active /\ dma.left = 0 /\ ~dma.irqOn /\ ~dma.irq /\ ~dma.rxEvent

\* Everything armed has arrived, and nothing else is under way.
AllArrived == /\ filled = ctx.transfered /\ host.sent = filled /\ host.quota = filled
              /\ rxFifo = 0

\* No upload: nothing refers to a context.
Absent ==
  /\ ~live /\ ChannelOff /\ isr = "none"
  /\ ctx.total = 0 /\ ctx.transfered = 0 /\ ~ctx.stopped /\ ~ctx.complete
  /\ filled = 0 /\ rxFifo = 0 /\ host = HostIdle /\ acked = 0 /\ acks \in {0, 1}

\* A chunk is armed and arriving, its predecessor's ACK read or about to be.
Moving ==
  /\ live /\ isr = "none" /\ ChannelOn /\ dma.active /\ dma.left > 0 /\ ~dma.irq
  /\ ~ctx.stopped /\ ~ctx.complete
  /\ acked < ctx.transfered /\ ctx.transfered = Transfer!NextAck
  /\ filled + dma.left = ctx.transfered /\ host.sent = filled + rxFifo
  /\ rxFifo \in {0, 1} /\ acked <= filled
  /\ \/ acks = 0 /\ host.quota = ctx.transfered /\ host.sent <= host.quota
     \/ /\ acks = 1 /\ host.sent = host.quota /\ rxFifo = 0
        /\ ctx.transfered = Least(ctx.total, host.quota + CHUNK_SIZE)

\* A chunk is complete and its interrupt pending.
Pending ==
  /\ live /\ isr = "none" /\ ChannelOn /\ ~dma.active /\ dma.left = 0 /\ dma.irq
  /\ ~ctx.stopped /\ ~ctx.complete /\ AllArrived /\ acks = 0
  /\ acked < ctx.transfered /\ ctx.transfered = Transfer!NextAck

\* The next chunk is armed, the ACK that lets the host send it is not out yet.
Acking ==
  /\ live /\ isr = "ack" /\ ChannelOn /\ dma.active /\ dma.left > 0 /\ ~dma.irq
  /\ ~ctx.stopped /\ ~ctx.complete /\ ~ctx.stop /\ acks = 0
  /\ host.sent = filled /\ host.quota = filled /\ rxFifo = 0
  /\ filled + dma.left = ctx.transfered
  /\ acked < filled /\ filled = Transfer!NextAck
  /\ ctx.transfered = Least(ctx.total, filled + CHUNK_SIZE)

\* The whole file is acknowledged, the peripheral not silenced yet.
Finishing ==
  /\ live /\ isr = "final" /\ ChannelOn /\ ~dma.active /\ dma.left = 0
  /\ ~ctx.stopped /\ ~ctx.complete /\ AllArrived /\ acks \in {0, 1}
  /\ ctx.transfered = ctx.total /\ acked = ctx.total

Halted ==
  /\ live /\ isr = "none" /\ ChannelOff /\ ctx.stopped /\ AllArrived /\ acks \in {0, 1}
  /\ IF ctx.complete THEN ctx.transfered = ctx.total /\ acked = ctx.total
                     ELSE /\ acked < ctx.transfered /\ acks = 0
                          /\ ctx.transfered = Transfer!NextAck

\* A file that does not fit is never armed past its first chunk.
Fits == /\ ctx.transfered <= ctx.total
        /\ ctx.total > MAX_FILE_SIZE => ctx.stop /\ ctx.transfered <= FirstChunk

\* Why the upload is right at every step: its phase, and the size limit.
AsyncInv ==
  /\ AsyncTypeOK /\ Fits
  /\ Absent \/ Moving \/ Pending \/ Acking \/ Finishing \/ Halted
-----------------------------------------------------------------------------
\* The device starts without an upload.
LEMMA InitAsyncInv == AsyncInit => AsyncInv
<1> SUFFICES ASSUME AsyncInit PROVE AsyncInv
  OBVIOUS
<1> USE SizesAssumption DEF AsyncInit, NoCtx, DmaOff, HostIdle
<1>1. AsyncTypeOK
  BY DEF AsyncTypeOK
<1>2. Fits
  BY DEF Fits
<1>3. Absent
  BY DEF Absent, ChannelOff
<1> QED
  BY <1>1, <1>2, <1>3 DEF AsyncInv

\* Every step, of whichever actor, keeps the transfer in one of its phases.
LEMMA NextAsyncInv == AsyncInv /\ [AsyncNext]_asyncVars => AsyncInv'
<1> SUFFICES ASSUME AsyncInv, [AsyncNext]_asyncVars PROVE AsyncInv'
  OBVIOUS
<1> USE SizesAssumption
<1>1. ASSUME NEW n \in FileLengths \ {0}, NEW stopNow \in BOOLEAN,
             n > MAX_FILE_SIZE => stopNow, AsyncReceive(n, stopNow)
      PROVE  AsyncInv'
  <2>1. Absent /\ AsyncTypeOK
    BY <1>1 DEF AsyncInv, AsyncReceive, Moving, Pending, Acking, Finishing, Halted
  <2>2. Moving'
    BY <1>1, <2>1 DEF AsyncReceive, Absent, Moving, ChannelOn, NoCtx, HostIdle, FirstChunk,
       Least, Transfer!NextAck, Transfer!FirstChunk, AsyncTypeOK
  <2>3. AsyncTypeOK'
    <3>1. (IF n < FirstChunk THEN n ELSE FirstChunk) \in Nat /\ Least(n, FirstChunk) \in Nat
      BY DEF FirstChunk, Least
    <3> QED
      BY <1>1, <2>1, <3>1 DEF AsyncTypeOK, AsyncReceive, NoCtx
  <2>4. Fits'
    BY <1>1, <2>1 DEF Fits, AsyncTypeOK, AsyncReceive, NoCtx, FirstChunk, Least
  <2> QED
    BY <2>2, <2>3, <2>4 DEF AsyncInv
<1>2. CASE RaiseStop
  BY <1>2 DEF RaiseStop, AsyncInv, AsyncTypeOK, Fits, Absent, Moving, Pending, Acking,
     Finishing, Halted, ChannelOn, ChannelOff, AllArrived, Transfer!NextAck
<1>3. CASE Release
  <2> USE <1>3 DEF Release
  <2>1. Halted /\ AsyncTypeOK
    BY DEF AsyncInv, Absent, Moving, Pending, Acking, Finishing
  <2>2. AsyncTypeOK'
    BY <2>1 DEF AsyncTypeOK, NoCtx, HostIdle
  <2>3. Absent' /\ Fits'
    BY <2>1 DEF Halted, AllArrived, ChannelOff, Absent, Fits, NoCtx, HostIdle
  <2> QED
    BY <2>2, <2>3 DEF AsyncInv
<1>4. CASE AckEmptyFile
  BY <1>4 DEF AckEmptyFile, AsyncInv, AsyncTypeOK, Fits, Absent, Moving, Pending, Acking,
     Finishing, Halted, ChannelOn, ChannelOff
<1>5. CASE IsrStop
  BY <1>5 DEF IsrStop, IsrEnter, DmaSilenced, AsyncInv, AsyncTypeOK, Fits, Absent, Moving,
     Pending, Acking, Finishing, Halted, ChannelOn, ChannelOff, AllArrived, Transfer!NextAck
<1>6. CASE IsrFinalAck
  BY <1>6 DEF IsrFinalAck, IsrEnter, BytesRemaining, AsyncInv, AsyncTypeOK, Fits, Absent,
     Moving, Pending, Acking, Finishing, Halted, ChannelOn, ChannelOff, AllArrived
<1>7. CASE IsrFinish
  BY <1>7 DEF IsrFinish, DmaSilenced, AsyncInv, AsyncTypeOK, Fits, Absent, Moving,
     Pending, Acking, Finishing, Halted, ChannelOn, ChannelOff, AllArrived
<1>8. CASE IsrRearm
  <2> USE <1>8 DEF IsrRearm, IsrEnter, BytesRemaining
  <2>1. Pending /\ AsyncTypeOK /\ Fits
    BY DEF AsyncInv, Absent, Moving, Acking, Finishing, Halted, ChannelOff
  <2>2. AsyncTypeOK' /\ Fits'
    <3> DEFINE chunk == IF BytesRemaining < CHUNK_SIZE THEN BytesRemaining ELSE CHUNK_SIZE
    <3>1. /\ chunk \in Nat /\ ctx.transfered + chunk \in Nat
          /\ ctx.transfered + chunk <= ctx.total
      BY <2>1 DEF AsyncTypeOK, Fits
    <3>2. AsyncTypeOK'
      BY <2>1, <3>1 DEF AsyncTypeOK
    <3>3. Fits'
      BY <2>1, <3>1 DEF AsyncTypeOK, Fits
    <3> QED
      BY <3>2, <3>3
  <2>3. Acking'
    BY <2>1 DEF AsyncTypeOK, Fits, Pending, AllArrived, Acking, ChannelOn, Least,
       Transfer!NextAck
  <2> QED
    BY <2>2, <2>3 DEF AsyncInv
<1>9. CASE IsrAck
  <2> USE <1>9 DEF IsrAck
  <2>1. Acking /\ AsyncTypeOK /\ Fits
    BY DEF AsyncInv, Absent, Moving, Pending, Finishing, Halted
  <2>2. AsyncTypeOK' /\ Fits'
    BY <2>1 DEF AsyncTypeOK, Fits
  <2>3. ctx.transfered = Transfer!NextAck'
    <3>1. ctx.total \in Nat
      BY <2>1 DEF AsyncTypeOK
    <3>2. filled \in Nat /\ filled # 0 /\ live
      BY <2>1 DEF AsyncTypeOK, Acking
    <3>3. Transfer!NextAck' = IF ctx.total - filled <= CHUNK_SIZE
                              THEN ctx.total ELSE filled + CHUNK_SIZE
      BY <3>2 DEF Transfer!NextAck
    <3> QED
      BY <2>1, <3>1, <3>2, <3>3 DEF Acking, Least
  <2>4. Moving'
    BY <2>1, <2>3 DEF AsyncTypeOK, Acking, Moving, ChannelOn, Least
  <2> QED
    BY <2>2, <2>4 DEF AsyncInv
<1>10. CASE DmaMove
  <2> USE <1>10 DEF DmaMove, DmaReady
  <2>1. Moving /\ AsyncTypeOK /\ Fits
    BY DEF AsyncInv, Absent, Pending, Acking, Finishing, Halted, ChannelOff
  <2>2. AsyncTypeOK' /\ Fits'
    <3>1. dma.left - 1 \in Nat /\ rxFifo - 1 \in Nat
      BY <2>1 DEF AsyncTypeOK, Moving
    <3>2. (dma.left > 1) \in BOOLEAN /\ (dma.left = 1) \in BOOLEAN
      OBVIOUS
    <3>3. dma' \in [active : BOOLEAN, left : Nat, irqOn : BOOLEAN, irq : BOOLEAN,
                    rxEvent : BOOLEAN]
      BY <2>1, <3>1, <3>2, Zenon DEF AsyncTypeOK
    <3>4. AsyncTypeOK'
      BY <2>1, <3>1, <3>3 DEF AsyncTypeOK
    <3> QED
      BY <2>1, <3>4 DEF Fits
  <2>3. CASE dma.left = 1
    <3>1. Pending'
      BY <2>1, <2>3 DEF AsyncTypeOK, Moving, Pending, AllArrived, ChannelOn, Transfer!NextAck
    <3> QED
      BY <2>2, <3>1 DEF AsyncInv
  <2>4. CASE dma.left > 1
    <3>1. Moving'
      BY <2>1, <2>4 DEF AsyncTypeOK, Moving, ChannelOn, Transfer!NextAck
    <3> QED
      BY <2>2, <3>1 DEF AsyncInv
  <2> QED
    BY <2>1, <2>3, <2>4 DEF Moving, AsyncTypeOK
<1>11. CASE HostSendByte
  <2> USE <1>11 DEF HostSendByte, DmaReady
  <2>1. Moving /\ AsyncTypeOK /\ Fits
    <3>1. host.sent # host.quota /\ isr \in {"none", "ack", "final"}
      BY DEF AsyncInv, AsyncTypeOK
    <3> QED
      BY <3>1 DEF AsyncInv, Absent, Pending, Acking, Finishing, Halted, AllArrived, HostIdle
  <2>2. AsyncTypeOK' /\ Fits'
    BY <2>1 DEF AsyncTypeOK, Fits
  <2>3. Moving'
    BY <2>1 DEF AsyncTypeOK, Moving, ChannelOn, Transfer!NextAck
  <2> QED
    BY <2>2, <2>3 DEF AsyncInv
<1>12. CASE HostReadAck
  BY <1>12 DEF HostReadAck, AsyncInv, AsyncTypeOK, Fits, Absent, Moving, Pending, Acking,
     Finishing, Halted, ChannelOn, ChannelOff, AllArrived, Least, Transfer!NextAck, HostIdle
<1>13. CASE AsyncReset
  <2>1. AsyncTypeOK'
    BY <1>13 DEF AsyncReset, AsyncTypeOK, NoCtx, DmaOff, HostIdle
  <2>2. Absent' /\ Fits'
    BY <1>13 DEF AsyncReset, Absent, Fits, ChannelOff, NoCtx, DmaOff, HostIdle
  <2> QED
    BY <2>1, <2>2 DEF AsyncInv
<1>14. CASE UNCHANGED asyncVars
  BY <1>14 DEF asyncVars, AsyncInv, AsyncTypeOK, Fits, Absent, Moving, Pending, Acking,
     Finishing, Halted, ChannelOn, ChannelOff, AllArrived, Transfer!NextAck
<1> QED
  BY <1>1, <1>2, <1>3, <1>4, <1>5, <1>6, <1>7, <1>8, <1>9, <1>10, <1>11, <1>12, <1>13, <1>14
     DEF AsyncNext, Hardware, Client

\* In every run, the transfer is in one of its phases.
THEOREM AsyncInvariant == AsyncSpec => []AsyncInv
  BY InitAsyncInv, NextAsyncInv, PTL DEF AsyncSpec

-----------------------------------------------------------------------------
\* The phases imply the safety properties of AsyncUart.
LEMMA PhasesAreSafe ==
  AsyncInv => /\ AsyncTypeOK /\ BufferBound /\ CompleteMeansFilled
              /\ StoppedMeansHalted /\ NoOverrun /\ AcknowledgedIsStored
<1> SUFFICES ASSUME AsyncInv PROVE /\ BufferBound /\ CompleteMeansFilled
                                   /\ StoppedMeansHalted /\ NoOverrun /\ AcknowledgedIsStored
  BY DEF AsyncInv
<1> USE SizesAssumption
<1>1. AsyncTypeOK /\ Fits
  BY DEF AsyncInv
<1>2. BufferBound
  BY <1>1 DEF BufferBound, Fits, AsyncTypeOK, FirstChunk
<1>3. CompleteMeansFilled
  BY DEF AsyncInv, CompleteMeansFilled, Absent, Moving, Pending, Acking, Finishing, Halted,
     AllArrived
<1>4. StoppedMeansHalted
  BY DEF AsyncInv, StoppedMeansHalted, Absent, Moving, Pending, Acking, Finishing, Halted,
     ChannelOff
<1>5. NoOverrun
  BY DEF AsyncInv, NoOverrun, Absent, Moving, Pending, Acking, Finishing, Halted, AllArrived
<1>6. AcknowledgedIsStored
  <2>1. CASE Absent
    BY <2>1 DEF Absent, AcknowledgedIsStored, HostIdle
  <2>2. CASE Moving \/ Pending \/ Acking
    BY <1>1, <2>2 DEF AsyncTypeOK, Fits, Moving, Pending, Acking, AllArrived,
       AcknowledgedIsStored, Transfer!NextAck, Transfer!FirstChunk
  <2>3. CASE Finishing \/ Halted
    BY <1>1, <2>3 DEF AsyncTypeOK, Fits, Finishing, Halted, AllArrived, AcknowledgedIsStored,
       Transfer!NextAck, Transfer!FirstChunk
  <2> QED
    BY <2>1, <2>2, <2>3 DEF AsyncInv
<1> QED
  BY <1>2, <1>3, <1>4, <1>5, <1>6

\* No upload, of whatever announced length, is armed past the end of its buffer.
THEOREM UploadFitsBuffer == AsyncSpec => []BufferBound
  BY AsyncInvariant, PhasesAreSafe, PTL

\* A transfer reported complete has put the whole file in RAM.
THEOREM CompleteIsWhole == AsyncSpec => []CompleteMeansFilled
  BY AsyncInvariant, PhasesAreSafe, PTL

\* A caller that saw stopped may free its buffer: no DMA, no interrupt follows.
THEOREM StoppedIsHalted == AsyncSpec => []StoppedMeansHalted
  BY AsyncInvariant, PhasesAreSafe, PTL

\* The receive FIFO never holds more than the byte being taken.
THEOREM FifoNeverOverruns == AsyncSpec => []NoOverrun
  BY AsyncInvariant, PhasesAreSafe, PTL

\* Nothing is acknowledged before it is in RAM.
THEOREM OnlyStoredIsAcknowledged == AsyncSpec => []AcknowledgedIsStored
  BY AsyncInvariant, PhasesAreSafe, PTL

-----------------------------------------------------------------------------
(* Refinement: the DMA-driven upload implements the chunked transfer. *)

\* Nothing is being transferred at first.
LEMMA InitTransfer == AsyncInit => Transfer!Init
  BY DEF AsyncInit, Transfer!Init

\* A step is Begin, Ack, Halt or End of the transfer, or invisible to it.
LEMMA NextTransfer ==
  AsyncInv /\ AsyncInv' /\ [AsyncNext]_asyncVars => [Transfer!Next]_(Transfer!vars)
<1> SUFFICES ASSUME AsyncInv, AsyncInv', [AsyncNext]_asyncVars
             PROVE  [Transfer!Next]_(Transfer!vars)
  OBVIOUS
<1> USE SizesAssumption
<1>0. AsyncTypeOK /\ Fits
  BY DEF AsyncInv
<1>1. ASSUME NEW n \in FileLengths \ {0}, NEW stopNow \in BOOLEAN, AsyncReceive(n, stopNow)
      PROVE  Transfer!Begin(n)
  BY <1>1 DEF AsyncReceive, Transfer!Begin, NoCtx
<1>2. CASE RaiseStop
  BY <1>0, <1>2 DEF RaiseStop, AsyncTypeOK, Transfer!vars
<1>3. CASE Release \/ (AsyncReset /\ live)
  <2>1. Transfer!End
    BY <1>3 DEF Release, AsyncReset, Transfer!End
  <2> QED
    BY <2>1 DEF Transfer!Next
<1>4. CASE AckEmptyFile \/ HostReadAck \/ HostSendByte \/ DmaMove
  BY <1>4 DEF AckEmptyFile, HostReadAck, HostSendByte, DmaMove, Transfer!vars
<1>5. CASE IsrStop
  <2>1. Pending
    BY <1>5 DEF IsrStop, IsrEnter, AsyncInv, Absent, Moving, Acking, Finishing, Halted, ChannelOff
  <2>2. Transfer!Halt
    BY <1>0, <1>5, <2>1 DEF IsrStop, Pending, AsyncTypeOK, Fits, Transfer!Halt
  <2> QED
    BY <2>2 DEF Transfer!Next
<1>6. CASE IsrFinalAck
  <2>1. Pending
    BY <1>6 DEF IsrFinalAck, IsrEnter, AsyncInv, Absent, Moving, Acking, Finishing, Halted,
       ChannelOff
  <2>2. ctx.transfered = ctx.total
    BY <1>0, <1>6 DEF IsrFinalAck, BytesRemaining, AsyncTypeOK, Fits
  <2>3. Transfer!Ack
    BY <1>0, <1>6, <2>1, <2>2 DEF IsrFinalAck, Pending, AsyncTypeOK, Transfer!Ack
  <2> QED
    BY <2>3 DEF Transfer!Next
<1>7. CASE IsrFinish
  <2>1. Finishing
    BY <1>7 DEF IsrFinish, AsyncInv, Absent, Moving, Pending, Acking, Halted
  <2> QED
    BY <1>0, <1>7, <2>1 DEF IsrFinish, Finishing, AsyncTypeOK, Transfer!vars
<1>8. CASE IsrRearm
  BY <1>0, <1>8 DEF IsrRearm, AsyncTypeOK, Transfer!vars
<1>9. CASE IsrAck
  <2>1. Acking
    BY <1>9 DEF IsrAck, AsyncInv, Absent, Moving, Pending, Finishing, Halted
  <2>2. Transfer!Ack
    BY <1>0, <1>9, <2>1 DEF IsrAck, Acking, AsyncTypeOK, Fits, Transfer!Ack
  <2> QED
    BY <2>2 DEF Transfer!Next
<1>10. CASE AsyncReset /\ ~live
  <2>1. acked = 0
    BY <1>10 DEF AsyncInv, Absent, Moving, Pending, Acking, Finishing, Halted
  <2> QED
    BY <1>10, <2>1 DEF AsyncReset, Transfer!vars
<1>11. CASE UNCHANGED asyncVars
  BY <1>11 DEF asyncVars, Transfer!vars
<1> QED
  BY <1>1, <1>2, <1>3, <1>4, <1>5, <1>6, <1>7, <1>8, <1>9, <1>10, <1>11
     DEF AsyncNext, Hardware, Client, Transfer!Next

\* The upload acknowledges chunk by chunk and ends complete or halted, whatever
\* the interleaving of host, DMA, handler and client.
THEOREM AsyncImplementsTransfer == AsyncSpec => KeepsTransferContract
  BY AsyncInvariant, InitTransfer, NextTransfer, PTL DEF AsyncSpec, Transfer!Spec,
     KeepsTransferContract
-----------------------------------------------------------------------------
(* Nobody waits for ever. *)

\* One of the steps of handler, DMA, host and line can be taken.
HardwareReady ==
  isr # "none" \/ IsrEnter \/ DmaReady \/ host.sent < host.quota \/ acks > 0

\* How many of those steps are left at most: every byte is still to be armed, sent and
\* stored, and every re-arming (async_uart.c:88-100) is an interrupt, an ACK and a byte or more.
HardwareLeft ==
  3 * (ctx.total - ctx.transfered) + (ctx.total - filled) + (ctx.total - host.sent) + acks
  + (IF ctx.stopped THEN 0 ELSE IF isr = "final" THEN 1 ELSE IF isr = "ack" THEN 5 ELSE 3)

\* Until stopped is set, handler, DMA and host never all wait for each other.
UploadGoesOn ==
  /\ live /\ ~ctx.stopped => HardwareReady
  /\ live => HardwareLeft \in Nat
\* No step of theirs is taken in a circle: each brings the upload nearer to its end.
HardwareCountsDown == live /\ Hardware => HardwareLeft' < HardwareLeft

LEMMA UploadsGoOn == AsyncInv => UploadGoesOn
<1> SUFFICES ASSUME AsyncInv, live PROVE (~ctx.stopped => HardwareReady) /\ HardwareLeft \in Nat
  BY DEF UploadGoesOn
<1> USE SizesAssumption
<1>1. Moving \/ Pending \/ Acking \/ Finishing \/ Halted
  BY DEF AsyncInv, Absent
<1>2. ~ctx.stopped => HardwareReady
  BY <1>1 DEF AsyncInv, AsyncTypeOK, Moving, Pending, Acking, Finishing, Halted, ChannelOn,
     HardwareReady, IsrEnter, DmaReady
<1>3. /\ ctx.total \in Nat /\ ctx.transfered \in Nat /\ filled \in Nat /\ host.sent \in Nat /\ acks \in Nat
      /\ ctx.transfered <= ctx.total /\ filled <= ctx.transfered /\ host.sent <= ctx.transfered
  BY <1>1 DEF AsyncInv, AsyncTypeOK, Fits, Moving, Pending, Acking, Finishing, Halted, AllArrived
<1>4. HardwareLeft \in Nat
  BY <1>3 DEF HardwareLeft
<1> QED
  BY <1>2, <1>4

LEMMA UploadsCountDown == AsyncInv => HardwareCountsDown
<1> SUFFICES ASSUME AsyncInv, live, Hardware PROVE HardwareLeft' < HardwareLeft
  BY DEF HardwareCountsDown
<1> USE SizesAssumption
<1>1. /\ ctx.total \in Nat /\ ctx.transfered \in Nat /\ filled \in Nat /\ host.sent \in Nat /\ acks \in Nat
      /\ ctx.transfered <= ctx.total /\ AsyncTypeOK
      /\ dma.irq /\ isr = "none" => ~ctx.stopped
      /\ isr # "none" => ~ctx.stopped
  BY DEF AsyncInv, AsyncTypeOK, Fits, Absent, Moving, Pending, Acking, Finishing, Halted, ChannelOff
<1>2. CASE IsrStop
  BY <1>1, <1>2 DEF IsrStop, IsrEnter, HardwareLeft, AsyncTypeOK
<1>3. CASE IsrFinalAck
  BY <1>1, <1>3 DEF IsrFinalAck, IsrEnter, HardwareLeft
<1>4. CASE IsrFinish
  BY <1>1, <1>4 DEF IsrFinish, HardwareLeft, AsyncTypeOK
<1>5. CASE IsrRearm
  <2> DEFINE chunk == IF BytesRemaining < CHUNK_SIZE THEN BytesRemaining ELSE CHUNK_SIZE
  <2>1. chunk \in Nat \ {0} /\ chunk <= ctx.total - ctx.transfered
    BY <1>1, <1>5 DEF IsrRearm, BytesRemaining
  <2>2. /\ ctx'.transfered = ctx.transfered + chunk /\ ctx'.total = ctx.total
        /\ ctx'.stopped = ctx.stopped /\ isr = "none" /\ isr' = "ack" /\ ~ctx.stopped
        /\ filled' = filled /\ host' = host /\ acks' = acks
    BY <1>1, <1>5 DEF IsrRearm, IsrEnter, AsyncTypeOK
  <2> HIDE DEF chunk
  <2> QED
    BY <1>1, <2>1, <2>2 DEF HardwareLeft
<1>6. CASE IsrAck
  BY <1>1, <1>6 DEF IsrAck, HardwareLeft
<1>7. CASE DmaMove
  BY <1>1, <1>7 DEF DmaMove, HardwareLeft
<1>8. CASE HostSendByte
  BY <1>1, <1>8 DEF HostSendByte, HardwareLeft, AsyncTypeOK
<1>9. CASE HostReadAck
  BY <1>1, <1>9 DEF HostReadAck, HardwareLeft, AsyncTypeOK
<1> QED
  BY <1>2, <1>3, <1>4, <1>5, <1>6, <1>7, <1>8, <1>9 DEF Hardware

\* An upload of any length is over after a bounded number of steps of DMA_IRQHandler
\* (async_uart.c:63-103), DMA and host, and until then one of them can be taken: what
\* UploadStops needs besides fairness.
THEOREM UploadRunsOut == AsyncSpec => []UploadGoesOn /\ [][HardwareCountsDown]_asyncVars
  BY AsyncInvariant, UploadsGoOn, UploadsCountDown, PTL
=============================================================================
