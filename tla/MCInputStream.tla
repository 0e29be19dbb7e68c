--------------------------- MODULE MCInputStream ---------------------------
(* InputStream with a buffer of a few bytes, thresholds in the same order   *)
(* as in the code (LowWater < InitCap < MaxCap), and lengths below, at and  *)
(* above the capacities.                                                   *)
EXTENDS InputStream

\* Blocks of bytes and of units, several times what the buffer holds, and a
\* unit that is refused.
MCBlocks == {<<2, 2>>, <<4, 1>>}

=============================================================================
