------------------------------ MODULE MCHsmLink ------------------------------
(* Instances of HsmLink.  Slot 0 can be sent; the asker lacks permission for *)
(* slot 1, the listener the group of slot 2; slot 3 = NUM_SLOTS lies past    *)
(* the array and has no plausible size, whatever its group.                  *)
EXTENDS HsmLink

MCHeld == {0, 1, 2}
MCKnown == {0, 1, 3}
MCPermitted == {0, 2}

\* A slot number, the magic byte and an operation.
MCCiphertext == {0, MAGIC, MESSAGE_RECEIVE}

\* Everything but a header is longer than the FIFO.
MCSize == [k \in Kinds |-> FIFO_DEPTH + 1]
=============================================================================
