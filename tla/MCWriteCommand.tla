--------------------------- MODULE MCWriteCommand ---------------------------
(* Instances of WriteCommand with the sizes of MCAsyncUart. *)
EXTENDS WriteCommandProofs

\* Empty; inside, at and past the first chunk (3); two chunks (7); the buffer
\* (12, four transfers); one byte too long; a chunk and more too long.
MCFileLengths == {0, 1, 3, 4, 7, 8, 12, 13, 17}
=============================================================================
