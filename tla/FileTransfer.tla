---------------------------- MODULE FileTransfer ----------------------------
(***************************************************************************)
(* What two HSMs promise of the files they exchange, without lines, FIFOs  *)
(* or keys: a receive command stores at most one file, which one listen    *)
(* command gave away, and a listen command gives away at most one, of a    *)
(* slot that may be transferred.  Resets, lost and stale bytes only keep   *)
(* files from arriving.  HsmLink implements this.                          *)
(***************************************************************************)
EXTENDS Naturals, Sequences

\* Slots whose file both sides let go.
CONSTANT Transferable

VARIABLES
  receiving,  \* a receive command is under way
  listens,    \* listen commands given
  delivered   \* the listen command and the slot of each file stored

vars == <<receiving, listens, delivered>>

Init == receiving = FALSE /\ listens = 0 /\ delivered = <<>>

Receive == ~receiving /\ receiving' = TRUE /\ UNCHANGED <<listens, delivered>>

GiveUp == receiving /\ receiving' = FALSE /\ UNCHANGED <<listens, delivered>>

Listen == listens' = listens + 1 /\ UNCHANGED <<receiving, delivered>>

Deliver(listen, slot) ==
  /\ receiving /\ receiving' = FALSE
  /\ \A i \in 1 .. Len(delivered) : delivered[i][1] # listen
  /\ delivered' = Append(delivered, <<listen, slot>>)
  /\ UNCHANGED listens

Next ==
  \/ Receive \/ GiveUp \/ Listen
  \/ \E listen \in 1 .. listens, slot \in Transferable : Deliver(listen, slot)

Spec == Init /\ [][Next]_vars
=============================================================================
