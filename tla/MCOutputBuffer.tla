--------------------------- MODULE MCOutputBuffer ---------------------------
(* OutputBuffer with a Buffer of two bytes that grows to the limit and past *)
(* it, and a kernel that holds less than a block.                          *)
EXTENDS OutputBuffer

=============================================================================
