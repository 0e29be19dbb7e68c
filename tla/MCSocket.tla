------------------------------ MODULE MCSocket ------------------------------
(* Two Sockets and three descriptors: a Socket can lose its descriptor to   *)
(* the other one or to the rest of the process.                            *)
EXTENDS Socket, TLC

CONSTANTS a, b

MCFds == 0 .. 2

Symmetry == Permutations(Socks)

=============================================================================
