---------------------------- MODULE MCTransport ----------------------------
(* BufferedDTXTransport with two messages and a buffer of four bytes. *)
EXTENDS BufferedDTXTransport

Two == 1..2

\* The first message fills the buffer exactly, has a chunk of the buffer's size
\* and leaves a byte for the last Flush; the second runs over the end of the
\* buffer in the middle of a chunk and has a large chunk behind a filled buffer.
TwoChunks == <<<<2, 2, 4, 1>>, <<3, 3, 6>>>>

=============================================================================
