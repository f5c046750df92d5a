----------------------------- MODULE MCAsyncUart -----------------------------
(* Instances of AsyncUart: a 4-byte chunk with a 1-byte header and a 12-byte *)
(* buffer give a short first chunk, two full ones and a partial last one.    *)
EXTENDS AsyncUartProofs

\* Below, at and above every boundary: the first chunk (3), the first two (7),
\* three (11), the buffer (12), and uploads up to a chunk too long for it.
MCFileLengths == 0 .. 16
=============================================================================
