----------------------------- MODULE ByteSink -----------------------------
(***************************************************************************)
(* What the sending side of a connection promises to its caller: a byte    *)
(* handed over leaves once and in order, or is lost; a lost byte leaves a  *)
(* gap that nothing else fills.  A byte is named by its number in the      *)
(* order in which the bytes were handed over.  OutputBuffer implements     *)
(* this module.                                                            *)
(***************************************************************************)
EXTENDS Integers, Sequences

CONSTANTS Lengths,   \* how many bytes are handed over at a time
          MaxAsked   \* bound on the number of bytes (for TLC)

VARIABLES asked,  \* how many bytes were handed over
          wire,   \* the bytes that have left, in order
          lost    \* the bytes that never will

vars == <<asked, wire, lost>>

Left    == {wire[i] : i \in 1 .. Len(wire)}
Pending == (1 .. asked) \ (Left \cup lost)

Init == asked = 0 /\ wire = <<>> /\ lost = {}

Ask ==
  /\ \E n \in Lengths : asked + n =< MaxAsked /\ asked' = asked + n
  /\ lost' \in {lost, lost \cup asked + 1 .. asked'}
  /\ UNCHANGED wire

\* The first of the pending bytes leave, in order; the others may be lost by
\* that.
Leave ==
  /\ \E n \in 1 .. asked :
       /\ Len(wire') = Len(wire) + n
       /\ \A i \in 1 .. Len(wire) : wire'[i] = wire[i]
       /\ \A i \in Len(wire) + 1 .. Len(wire') :
            /\ wire'[i] \in Pending
            /\ \A j \in Len(wire) + 1 .. i - 1 : wire'[j] < wire'[i]
            /\ \A k \in Pending : k < wire'[i] =>
                 \E j \in Len(wire) + 1 .. i - 1 : wire'[j] = k
  /\ lost' \in {lost, lost \cup (Pending \ {wire'[i] : i \in 1 .. Len(wire')})}
  /\ UNCHANGED asked

\* What is lost at once is all that was pending.
Lose ==
  /\ Pending # {} /\ lost' = lost \cup Pending
  /\ UNCHANGED <<asked, wire>>

Next == Ask \/ Leave \/ Lose

Spec == Init /\ [][Next]_vars
=============================================================================
