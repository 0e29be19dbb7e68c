--------------------------- MODULE MCSmartPointer ---------------------------
(* SmartPointer with two threads: w owns the variable both may copy, which   *)
(* it assigns meanwhile, and one of its own; r owns two.                     *)
EXTENDS SmartPointer, TLC

CONSTANTS w, r, shared, mine, copy1, copy2

MCOwner == (shared :> w) @@ (mine :> w) @@ (copy1 :> r) @@ (copy2 :> r)

=============================================================================
