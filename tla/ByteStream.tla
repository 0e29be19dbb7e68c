---------------------------- MODULE ByteStream ----------------------------
(***************************************************************************)
(* What the receiving side of a connection promises to its caller: the     *)
(* peer's bytes, in order, each delivered once.  No buffer, no recv():     *)
(* a read looks at the stream itself.  InputStream implements this module. *)
(*                                                                         *)
(*   readLine, readString    the bytes up to the FIRST terminator, without *)
(*                           it and without one carriage return before it  *)
(*   readBytes               exactly the bytes asked for                   *)
(*   peekLine, peekBuffer,   the same values, and the position stays       *)
(*   bufferBytes                                                           *)
(*   readBlock               whole units of the block asked for: all of    *)
(*                           them, or with an error those that are here    *)
(*                                                                         *)
(* A read that fails takes nothing else from the stream.                   *)
(***************************************************************************)
EXTENDS Integers, Sequences

CONSTANTS Byte,         \* the bytes the peer can send
          LF, NUL, CR,  \* '\n', '\0' and '\r', three of them
          MaxCap,       \* MAX_CAPACITY, the longest read that can succeed
          Calls,        \* the calls the caller makes
          Lengths,      \* the lengths the caller asks for
          Blocks,       \* the blocks it asks for, <<unit length, units>>
          Modes,        \* the modes of the socket, TRUE is blocking
          MaxSent       \* bound on the number of bytes sent (for TLC)

VARIABLES sent,      \* every byte the peer has sent, in order
          conn,      \* "open", or the peer's "fin" or "reset"
          blocking,  \* a read waits for the peer
          closed,    \* this side has closed the stream
          pos,       \* how many bytes have been delivered
          op,        \* the call in progress, or "none"
          need,      \* the length it asks for
          unit,      \* the unit of readBlock
          ret,       \* IO_ERR of the last call
          value      \* what the last call stored in its caller's variable

vars == <<sent, conn, blocking, closed, pos, op, need, unit, ret, value>>

UntilOps == {"readLine", "readString", "peekLine"}
ExactOps == {"readBytes", "peekBuffer", "bufferBytes"}
Peeks    == {"peekLine", "peekBuffer", "bufferBytes"}

EndChar(o) == IF o = "readString" THEN NUL ELSE LF

\* A '\r' right before the terminator is not part of the value.
Chop(s) == IF s # <<>> /\ s[Len(s)] = CR THEN SubSeq(s, 1, Len(s) - 1) ELSE s

\* The bytes sent but not delivered, and the terminators among them.
Pending == pos + 1 .. Len(sent)
Ends    == {k \in Pending : sent[k] = EndChar(op)}

\* What is here of the stream cannot satisfy the call.
Short ==
  \/ op \in UntilOps /\ Ends = {}
  \/ op \in ExactOps \cup {"readBlock"} /\ pos + need > Len(sent)

TypeOK ==
  /\ sent \in Seq(Byte) /\ conn \in {"open", "fin", "reset"} /\ closed \in BOOLEAN
  /\ blocking \in Modes /\ pos \in 0 .. Len(sent)
  /\ op \in UntilOps \cup ExactOps \cup {"readBlock", "none"} /\ need \in Nat /\ unit \in Nat \ {0}
  /\ ret \in {"OK", "DISCONNECTED", "NODATA", "OTHERERR", "TOO_LARGE_DATA"}
  /\ value \in Seq(Byte)

Init ==
  /\ sent = <<>> /\ conn = "open" /\ blocking \in Modes /\ closed = FALSE
  /\ pos = 0 /\ op = "none" /\ need = 0 /\ unit = 1 /\ ret = "OK" /\ value = <<>>

Arrive ==
  /\ conn = "open" /\ ~closed /\ Len(sent) < MaxSent
  /\ \E b \in Byte : sent' = Append(sent, b)
  /\ UNCHANGED <<conn, blocking, closed, pos, op, need, unit, ret, value>>

Hangup ==
  /\ conn = "open" /\ conn' \in {"fin", "reset"}
  /\ UNCHANGED <<sent, blocking, closed, pos, op, need, unit, ret, value>>

Close ==
  /\ op = "none" /\ ~closed
  /\ closed' = TRUE
  /\ UNCHANGED <<sent, conn, blocking, pos, op, need, unit, ret, value>>

Call(o, n, u) ==
  /\ op = "none"
  /\ op' = o /\ need' = n /\ unit' = u /\ value' = <<>>
  /\ UNCHANGED <<sent, conn, blocking, closed, pos, ret>>

Return(code, v, newPos) ==
  /\ ret' = code /\ value' = v /\ pos' = newPos
  /\ op' = "none" /\ need' = 0 /\ unit' = 1
  /\ UNCHANGED <<sent, conn, blocking, closed>>

\* A failed call returns nothing, a failed readBlock n whole units.
Fail(code, n) == Return(code, SubSeq(sent, pos + 1, pos + n), pos + n)

Part == IF op = "readBlock" THEN {n \in 0 .. Len(sent) - pos : n =< need /\ n % unit = 0} ELSE {0}
Here == {n \in Part : \A m \in Part : m =< n}

ReturnLine ==
  /\ op \in UntilOps
  /\ \E k \in Ends :
       /\ \A j \in Ends : k =< j
       /\ k - pos =< MaxCap
       /\ Return("OK", Chop(SubSeq(sent, pos + 1, k - 1)), IF op \in Peeks THEN pos ELSE k)

ReturnBytes ==
  /\ op \in ExactOps \cup {"readBlock"} /\ pos + need =< Len(sent)
  /\ Return("OK",
            IF op = "bufferBytes" THEN <<>> ELSE SubSeq(sent, pos + 1, pos + need),
            IF op \in Peeks THEN pos ELSE pos + need)

\* MaxCap bytes without a terminator, more than MaxCap bytes wanted, or a unit
\* that long.
ReturnTooLarge ==
  /\ \/ /\ op \in UntilOps /\ pos + MaxCap =< Len(sent)
        /\ \A k \in Ends : k - pos > MaxCap
     \/ op \in ExactOps /\ need > MaxCap
     \/ op = "readBlock" /\ unit > MaxCap
  /\ Fail("TOO_LARGE_DATA", 0)

\* The end of the stream is reported only when what is left of it cannot
\* satisfy the call.
ReturnEnd ==
  /\ conn = "fin" /\ Short
  /\ \E n \in Here : Fail("DISCONNECTED", n)

\* A read that does not wait finds the stream too short for the call.
ReturnNoData ==
  /\ ~blocking /\ conn = "open" /\ ~closed /\ Short
  /\ \E n \in Here : Fail("NODATA", n)

\* After a reset, or on a handle that was closed, what the kernel held is lost.
ReturnLost ==
  /\ op # "none" /\ (conn = "reset" \/ closed)
  /\ \E code \in {"DISCONNECTED", "OTHERERR"}, n \in Part : Fail(code, n)

Next ==
  \/ Arrive \/ Hangup \/ Close
  \/ \E o \in UntilOps \cap Calls : Call(o, 0, 1)
  \/ \E o \in ExactOps \cap Calls, n \in Lengths : Call(o, n, 1)
  \/ \E b \in Blocks : Call("readBlock", b[1] * b[2], b[1])
  \/ ReturnLine \/ ReturnBytes \/ ReturnTooLarge \/ ReturnEnd \/ ReturnNoData \/ ReturnLost

Spec == Init /\ [][Next]_vars
=============================================================================
