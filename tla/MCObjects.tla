----------------------------- MODULE MCObjects -----------------------------
(* Objects in a memory with room for a list, a matrix with a lable in it and *)
(* what an earlier call has left behind.                                   *)
EXTENDS Objects

=============================================================================
