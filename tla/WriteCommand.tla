---------------------------- MODULE WriteCommand ----------------------------
(***************************************************************************)
(* message/write.c: the write command, the client of AsyncUart.  While DMA *)
(* fills the buffer, the CPU hashes the PIN, looks the group up, checks    *)
(* the slot and erases it; a rejected command first halts the upload, an   *)
(* accepted one waits for its last byte before it encrypts and programs.   *)
(*                                                                         *)
(* Each action of the command is the straight-line code between two points *)
(* where an interrupt makes a difference to it; the interrupt handler, the *)
(* DMA controller and the host of AsyncUart interleave with all of them.   *)
(* Operators marked "Fault" are wrong variants no specification uses.      *)
(***************************************************************************)
EXTENDS AsyncUart

CONSTANT Resets   \* whether power loss, watchdog and fault resets are modelled

ASSUME ResetsAssumption == Resets \in BOOLEAN

VARIABLES
  pc,     \* where message_write_response stands; "idle" is main's polling loop
  req,    \* the parsed header: length, and what the checks will find
  reply,  \* what the host is sent: "none", "error" or "done"
  slot    \* the addressed slot since the command began: "kept", "erased",
          \* "whole" (programmed with the whole file) or "torn" (with less)

writeVars == <<pc, req, reply, slot, asyncVars>>

Requests == [len : FileLengths, pinOk : BOOLEAN, groupOk : BOOLEAN, slotOk : BOOLEAN]
NoRequest == [len |-> 0, pinOk |-> FALSE, groupOk |-> FALSE, slotOk |-> FALSE]

Acceptable(r) == r.len <= MAX_FILE_SIZE /\ r.pinOk /\ r.groupOk /\ r.slotOk

WriteInit ==
  /\ AsyncInit
  /\ pc = "idle" /\ req = NoRequest /\ reply = "none" /\ slot = "kept"

\* The CPU runs message_write_response only outside the interrupt handler.
At(label) == pc = label /\ isr = "none"

\* uart_ctx.stop = true, then while(!stopped).
Reject == RaiseStop /\ pc' = "stopping" /\ UNCHANGED <<req, reply, slot>>

Continue(label) == pc' = label /\ UNCHANGED <<asyncVars, req, reply, slot>>

\* Fault: the announced length is not checked.
BeginWrite_anySize(r) ==
  /\ At("idle")
  /\ IF r.len > 0 THEN AsyncReceive(r.len, FALSE) ELSE UNCHANGED asyncVars
  /\ pc' = "pin"
  /\ req' = r /\ reply' = "none" /\ slot' = "kept"

\* Header, DMA start and size check.  An empty file starts no transfer.  The error of
\* write.c:75-81 is left out: async_uart_receive returns -1 only for a UART it does not know
\* (async_uart.c:30-40), and HOST_INST is UART0.
BeginWrite(r) ==
  /\ At("idle")
  /\ IF r.len > 0 THEN AsyncReceive(r.len, r.len > MAX_FILE_SIZE) ELSE UNCHANGED asyncVars
  /\ pc' = IF r.len > MAX_FILE_SIZE THEN "stopping" ELSE "pin"
  /\ req' = r /\ reply' = "none" /\ slot' = "kept"

VerifyPin ==
  /\ At("pin")
  /\ IF req.pinOk THEN Continue("target") ELSE Reject

\* Fault: the write permission is not looked at.
CheckTarget_anyGroup ==
  /\ At("target")
  /\ IF req.slotOk THEN Continue("erase") ELSE Reject

\* Fault: the slot is erased before it is known to be addressed rightfully.
CheckTarget_erasesFirst ==
  /\ At("target")
  /\ IF req.groupOk /\ req.slotOk
     THEN Continue("erase")
     ELSE RaiseStop /\ pc' = "stopping" /\ slot' = "erased" /\ UNCHANGED <<req, reply>>

\* Group, write permission and slot number.
CheckTarget ==
  /\ At("target")
  /\ IF req.groupOk /\ req.slotOk THEN Continue("erase") ELSE Reject

\* Erase the slot and enter the file into the FAT (FlashStore has the details).
EraseSlot ==
  /\ At("erase")
  /\ slot' = "erased" /\ pc' = "program"
  /\ UNCHANGED <<asyncVars, req, reply>>

\* Fault: it does not wait for transfer_complete.
ProgramSlot_early ==
  /\ At("program")
  /\ IF req.len > 0 THEN UNCHANGED asyncVars ELSE AckEmptyFile
  /\ slot' = IF filled = req.len THEN "whole" ELSE "torn"
  /\ reply' = "done" /\ pc' = "reporting"
  /\ UNCHANGED req

\* while(!transfer_complete), then encrypt and program data and metadata; an
\* empty file is acknowledged here.
ProgramSlot ==
  /\ At("program")
  /\ IF req.len > 0 THEN ctx.complete /\ UNCHANGED asyncVars ELSE AckEmptyFile
  /\ slot' = IF filled = req.len THEN "whole" ELSE "torn"
  /\ reply' = "done" /\ pc' = "reporting"
  /\ UNCHANGED req

\* Fault: it does not wait for stopped.
ReportError_early ==
  /\ At("stopping")
  /\ reply' = "error" /\ pc' = "reporting"
  /\ UNCHANGED <<asyncVars, req, slot>>

\* The transfer has halted: the error can go out.
ReportError ==
  /\ At("stopping") /\ ctx.stopped
  /\ reply' = "error" /\ pc' = "reporting"
  /\ UNCHANGED <<asyncVars, req, slot>>

\* The host has read its ACKs and then the answer, and the command returns.
FinishWrite ==
  /\ At("reporting") /\ acks = 0
  /\ IF live THEN Release ELSE UNCHANGED asyncVars
  /\ pc' = "idle" /\ reply' = "none"
  /\ UNCHANGED <<req, slot>>

\* A reset in the middle of the command.
WriteReset ==
  /\ Resets
  /\ AsyncReset
  /\ pc' = "idle" /\ reply' = "none"
  /\ UNCHANGED <<req, slot>>

Command == VerifyPin \/ CheckTarget \/ EraseSlot \/ ProgramSlot \/ ReportError \/ FinishWrite

WriteNext ==
  \/ \E r \in Requests : BeginWrite(r)
  \/ Command
  \/ Hardware /\ UNCHANGED <<pc, req, reply, slot>>
  \/ WriteReset

WriteSpec == WriteInit /\ [][WriteNext]_writeVars

\* The CPU goes on when it can, and so do the actors of AsyncUart.
WriteFairness == WF_writeVars(Command) /\ AsyncFairness

WriteFairSpec == WriteSpec /\ WriteFairness

-----------------------------------------------------------------------------
(* Properties. *)

WriteTypeOK ==
  /\ pc \in {"idle", "pin", "target", "erase", "program", "stopping", "reporting"}
  /\ req \in [len : Nat, pinOk : BOOLEAN, groupOk : BOOLEAN, slotOk : BOOLEAN]
  /\ reply \in {"none", "error", "done"}
  /\ slot \in {"kept", "erased", "whole", "torn"}

\* Checks run while the upload is under way; one that fails must still leave the
\* slot as it was, however far the transfer has come, and an accepted command does not
\* program its slot before the file is there.  (What a reset leaves of a slot that is
\* being programmed is the matter of FlashStore: ProgramSlot is one step here.)
RejectionKeepsSlot ==
  /\ reply = "error" => slot = "kept"
  /\ pc # "idle" /\ ~Acceptable(req) => slot = "kept" /\ reply # "done"
  /\ slot # "torn"

\* A success reply says that every announced byte was received, acknowledged
\* and programmed.
SuccessMeansStored ==
  reply = "done" => slot = "whole" /\ filled = req.len /\ acked = req.len

\* From the first byte of the reply on, no ACK of the handler can cut into it
\* (the handler preempts the CPU and writes to the same UART), and the host has
\* no upload byte on its way that the CPU would take for the host's ACK.
ReplyIsExclusive ==
  pc = "reporting" => /\ isr = "none" /\ ~dma.irqOn /\ ~dma.active
                      /\ rxFifo = 0 /\ host.sent = host.quota

\* The command uses async_uart.h within its rules.
UsesAsyncUart == AsyncSpec

\* A write that carries data, or is accepted, comes back to the polling loop (a
\* reset may cut it short; none is needed).
WriteReturns == (pc = "pin" /\ (req.len > 0 \/ Acceptable(req))) ~> (pc = "idle")

\* docs/plantuml/states.pu:24, WriteFile --> WaitingForHost: every write command,
\* rejected or not, ends with its answer (write.c:244 provides for empty files).
\* The way out of a command that hangs is the watchdog, which answers nothing.
EveryWriteIsAnswered == (pc = "pin") ~> (reply # "none")
=============================================================================
