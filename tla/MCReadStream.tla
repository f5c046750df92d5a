---------------------------- MODULE MCReadStream ----------------------------
(* Instances of ReadStream: two-byte blocks, eight-byte chunks, a name of one *)
(* block, so that chunks end at plaintext offsets 6, 14 and 22.  A last chunk *)
(* may be shorter than the header of an error, end in its text, or be longer. *)
EXTENDS ReadStream

\* Empty to four chunks: every boundary, and one byte to either side of it.
MCFileLengths == 0 .. 23
=============================================================================
