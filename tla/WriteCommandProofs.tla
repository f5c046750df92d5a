------------------------- MODULE WriteCommandProofs -------------------------
(***************************************************************************)
(* The write command for every chunk, buffer and file size: it is a client *)
(* AsyncUart allows, hence inherits its invariant, and from that follow    *)
(* the properties of the command itself.                                   *)
(***************************************************************************)
EXTENDS WriteCommand, AsyncUartProofs

\* Where each step of the command may find the transfer and the slot.
WriteInv ==
  /\ WriteTypeOK
  /\ isr # "none" => live
  /\ pc = "idle" => ~live /\ acks = 0 /\ reply = "none"
  /\ pc # "idle" => (live <=> req.len > 0) /\ (live => ctx.total = req.len)
  /\ ~live /\ pc # "reporting" => acks = 0
  /\ pc \in {"pin", "target", "stopping"} => slot = "kept" /\ reply = "none"
  /\ pc \in {"pin", "target", "erase", "program"} => req.len <= MAX_FILE_SIZE /\ reply = "none"
  /\ pc \in {"target", "erase", "program"} => req.pinOk
  /\ pc \in {"erase", "program"} => req.groupOk /\ req.slotOk /\ slot \in {"kept", "erased"}
  /\ pc = "reporting" => /\ live => ctx.stopped
                         /\ \/ reply = "error" /\ slot = "kept"
                            \/ /\ reply = "done" /\ slot = "whole" /\ Acceptable(req)
                               /\ live => ctx.complete
  /\ slot # "torn"

-----------------------------------------------------------------------------
\* Every step of the command is one AsyncUart allows its client.
LEMMA WriteStepIsAsync ==
  AsyncInv /\ WriteInv /\ [WriteNext]_writeVars => [AsyncNext]_asyncVars
<1> SUFFICES ASSUME AsyncInv, WriteInv, [WriteNext]_writeVars
             PROVE  [AsyncNext]_asyncVars
  OBVIOUS
<1>1. ASSUME NEW r \in Requests, BeginWrite(r) PROVE [AsyncNext]_asyncVars
  <2>1. CASE r.len > 0
    <3>1. r.len \in FileLengths \ {0}
      BY <2>1, SizesAssumption DEF Requests
    <3>2. (r.len > MAX_FILE_SIZE) \in BOOLEAN
      OBVIOUS
    <3>3. AsyncReceive(r.len, r.len > MAX_FILE_SIZE)
      BY <1>1, <2>1 DEF BeginWrite
    <3> QED
      BY <3>1, <3>2, <3>3, Zenon DEF AsyncNext, Client
  <2> QED
    BY <1>1, <2>1 DEF BeginWrite
<1>2. CASE Command
  <2>1. CASE VerifyPin \/ CheckTarget
    BY <2>1 DEF VerifyPin, CheckTarget, Continue, Reject, AsyncNext, Client
  <2>2. CASE EraseSlot \/ ReportError
    BY <2>2 DEF EraseSlot, ReportError
  <2>3. CASE ProgramSlot
    BY <2>3 DEF ProgramSlot, AsyncNext, Client
  <2>4. CASE FinishWrite
    BY <2>4 DEF FinishWrite, AsyncNext, Client
  <2> QED
    BY <1>2, <2>1, <2>2, <2>3, <2>4 DEF Command
<1>3. CASE Hardware
  BY <1>3 DEF AsyncNext
<1>4. CASE WriteReset
  BY <1>4 DEF WriteReset, AsyncNext
<1>5. CASE UNCHANGED writeVars
  BY <1>5 DEF writeVars
<1> QED
  BY <1>1, <1>2, <1>3, <1>4, <1>5 DEF WriteNext

\* The command starts idle.
LEMMA InitWriteInv == WriteInit => WriteInv
<1> SUFFICES ASSUME WriteInit PROVE WriteInv
  OBVIOUS
<1>1. WriteTypeOK
  BY DEF WriteInit, WriteTypeOK, NoRequest
<1> QED
  BY <1>1 DEF WriteInit, AsyncInit, WriteInv

\* Command, interrupt handler, hardware and resets preserve it.
LEMMA NextWriteInv == AsyncInv /\ WriteInv /\ [WriteNext]_writeVars => WriteInv'
<1> SUFFICES ASSUME AsyncInv, WriteInv, [WriteNext]_writeVars PROVE WriteInv'
  OBVIOUS
<1> USE SizesAssumption
<1>0. AsyncTypeOK /\ WriteTypeOK
  BY DEF AsyncInv, WriteInv
<1>1. ASSUME NEW r \in Requests, BeginWrite(r) PROVE WriteInv'
  <2>1. r.len \in Nat /\ r \in [len : Nat, pinOk : BOOLEAN, groupOk : BOOLEAN, slotOk : BOOLEAN]
    BY DEF Requests
  <2>2. WriteTypeOK'
    BY <1>1, <2>1 DEF BeginWrite, WriteTypeOK
  <2>3. CASE r.len > 0
    <3>1. AsyncReceive(r.len, r.len > MAX_FILE_SIZE)
      BY <1>1, <2>3 DEF BeginWrite
    <3>2. live' /\ ctx'.total = r.len /\ isr' = isr
      BY <3>1 DEF AsyncReceive, NoCtx
    <3>3. /\ req' = r /\ reply' = "none" /\ slot' = "kept" /\ isr = "none"
          /\ pc' = IF r.len > MAX_FILE_SIZE THEN "stopping" ELSE "pin"
      BY <1>1 DEF BeginWrite, At
    <3> QED
      BY <2>1, <2>2, <2>3, <3>2, <3>3 DEF WriteInv
  <2>4. CASE r.len = 0
    BY <1>1, <2>1, <2>2, <2>4 DEF BeginWrite, At, WriteInv, asyncVars
  <2> QED
    BY <2>1, <2>3, <2>4
<1>2. CASE VerifyPin
  BY <1>0, <1>2 DEF VerifyPin, At, Continue, Reject, RaiseStop, asyncVars, WriteInv,
     WriteTypeOK, AsyncTypeOK
<1>3. CASE CheckTarget
  BY <1>0, <1>3 DEF CheckTarget, At, Continue, Reject, RaiseStop, asyncVars, WriteInv,
     WriteTypeOK, AsyncTypeOK
<1>4. CASE EraseSlot
  BY <1>0, <1>4 DEF EraseSlot, At, asyncVars, WriteInv, WriteTypeOK
<1>5. CASE ProgramSlot
  <2>1. WriteTypeOK' /\ filled = req.len
    BY <1>0, <1>5 DEF ProgramSlot, At, WriteInv, WriteTypeOK, AsyncTypeOK, AsyncInv, Absent,
       Moving, Pending, Acking, Finishing, Halted, AllArrived, Fits, AckEmptyFile
  <2>2. CASE req.len > 0
    <3>1. ctx.stopped
      BY <1>5, <2>2 DEF ProgramSlot, AsyncInv, Absent, Moving, Pending, Acking, Finishing, Halted
    <3> QED
      BY <1>0, <1>5, <2>1, <2>2, <3>1 DEF ProgramSlot, At, WriteInv, asyncVars, Acceptable
  <2>3. CASE req.len = 0
    BY <1>0, <1>5, <2>1, <2>3 DEF ProgramSlot, At, WriteInv, AckEmptyFile, Acceptable
  <2> QED
    BY <1>0, <2>2, <2>3 DEF WriteTypeOK
<1>6. CASE ReportError
  BY <1>0, <1>6 DEF ReportError, At, asyncVars, WriteInv, WriteTypeOK
<1>7. CASE FinishWrite
  BY <1>0, <1>7 DEF FinishWrite, At, Release, asyncVars, WriteInv, WriteTypeOK
<1>8. CASE Hardware /\ UNCHANGED <<pc, req, reply, slot>>
  <2>1. CASE live
    <3>1. live' /\ ctx'.total = ctx.total /\ (ctx.stopped => ctx'.stopped)
          /\ (ctx.complete => ctx'.complete)
      BY <1>0, <1>8, <2>1 DEF Hardware, IsrStop, IsrFinalAck, IsrFinish, IsrRearm, IsrAck,
         DmaMove, HostSendByte, HostReadAck, AsyncTypeOK
    <3> QED
      BY <1>0, <1>8, <2>1, <3>1 DEF WriteInv, WriteTypeOK, Acceptable
  <2>2. CASE ~live
    <3>1. Absent
      BY <2>2 DEF AsyncInv, Moving, Pending, Acking, Finishing, Halted
    <3>2. HostReadAck
      BY <1>8, <3>1 DEF Hardware, IsrStop, IsrFinalAck, IsrFinish, IsrRearm, IsrAck, IsrEnter,
         DmaMove, DmaReady, HostSendByte, Absent, ChannelOff, HostIdle
    <3> QED
      BY <1>0, <1>8, <2>2, <3>1, <3>2 DEF HostReadAck, WriteInv, WriteTypeOK, Acceptable, Absent
  <2> QED
    BY <2>1, <2>2
<1>9. CASE WriteReset
  BY <1>0, <1>9 DEF WriteReset, AsyncReset, WriteInv, WriteTypeOK
<1>10. CASE UNCHANGED writeVars
  BY <1>0, <1>10 DEF writeVars, asyncVars, WriteInv, WriteTypeOK, Acceptable
<1> QED
  BY <1>1, <1>2, <1>3, <1>4, <1>5, <1>6, <1>7, <1>8, <1>9, <1>10 DEF WriteNext, Command

-----------------------------------------------------------------------------
\* The transfer keeps its phases under the command, and the command its own.
THEOREM WriteInvariant == WriteSpec => [](AsyncInv /\ WriteInv)
<1>1. WriteInit => AsyncInv /\ WriteInv
  BY InitAsyncInv, InitWriteInv DEF WriteInit
<1>2. AsyncInv /\ WriteInv /\ [WriteNext]_writeVars => (AsyncInv /\ WriteInv)'
  BY WriteStepIsAsync, NextAsyncInv, NextWriteInv
<1> QED
  BY <1>1, <1>2, PTL DEF WriteSpec

\* The write command is a client within the rules of async_uart.h.
THEOREM WriteImplementsAsync == WriteSpec => UsesAsyncUart
<1>1. WriteInit => AsyncInit
  BY DEF WriteInit
<1> QED
  BY <1>1, WriteInvariant, WriteStepIsAsync, PTL DEF WriteSpec, AsyncSpec, UsesAsyncUart

\* A rejected write never touches the slot, and no write stores part of a file.
THEOREM RejectionIsHarmless == WriteSpec => []RejectionKeepsSlot
<1>1. WriteInv => RejectionKeepsSlot
  BY DEF WriteInv, WriteTypeOK, RejectionKeepsSlot, Acceptable
<1> QED
  BY <1>1, WriteInvariant, PTL

\* A success reply is sent only for a file that is stored whole.
THEOREM SuccessIsStored == WriteSpec => []SuccessMeansStored
<1>1. AsyncInv /\ WriteInv => SuccessMeansStored
  BY DEF WriteInv, WriteTypeOK, SuccessMeansStored, AsyncInv, Absent, Moving, Pending, Acking,
     Finishing, Halted, AllArrived
<1> QED
  BY <1>1, WriteInvariant, PTL

\* The reply has the UART to itself, in both directions.
THEOREM ReplyHasTheUart == WriteSpec => []ReplyIsExclusive
<1>1. AsyncInv /\ WriteInv => ReplyIsExclusive
  BY DEF WriteInv, ReplyIsExclusive, AsyncInv, Absent, Moving, Pending, Acking, Finishing,
     Halted, AllArrived, ChannelOff, HostIdle
<1> QED
  BY <1>1, WriteInvariant, PTL
=============================================================================
