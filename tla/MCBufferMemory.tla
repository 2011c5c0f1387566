--------------------------- MODULE MCBufferMemory ---------------------------
(* BufferMemory on short streams. *)
EXTENDS BufferMemory
=============================================================================
