---------------------------- MODULE InputStream ----------------------------
(***************************************************************************)
(* DataInputStream over a Socket (include/Socket/SysIO.h), the only input  *)
(* path of the client: every reply line, flag, length and value passes     *)
(* through its buffer.  The buffer is memory: buf[i] is the byte at *)
(* offset i, compaction is a memmove and growth a new allocation, so that  *)
(* an offset that is off by one reads a wrong or an uninitialized byte.    *)
(*                                                                         *)
(* The peer sends bytes and hangs up at any moment between two steps of a  *)
(* call.  recv() takes any positive number of the bytes that have arrived  *)
(* and fit; with no room left it returns 0, which Socket::read reports as  *)
(* DISCONNECTED.  The Rcpp_Connector's socket is blocking; on one that is  *)
(* not, recv() of nothing is NODATA and the caller calls again later.      *)
(***************************************************************************)
EXTENDS Integers, Sequences

CONSTANTS Byte, LF, NUL, CR,  \* the bytes the peer can send; '\n', '\0', '\r'
          Junk,               \* an uninitialized byte of a new buffer
          InitCap,            \* bufSize of the constructor (2048)
          LowWater,           \* free room that is worth a recv (1024)
          MaxCap,             \* MAX_CAPACITY (65536)
          Calls,              \* the calls made, of those below
          Lengths,            \* the lengths readBytes and the peeks are called with
          Blocks,             \* the blocks asked for, <<unitLength, length>>
          Modes,              \* blocking_ of the socket
          MaxSent             \* bound on the number of bytes sent (for TLC)

ASSUME ByteAssumption ==
  /\ {LF, NUL, CR} \subseteq Byte
  /\ Junk \notin Byte

ASSUME SizeAssumption ==
  /\ InitCap \in Nat \ {0} /\ LowWater \in Nat \ {0} /\ MaxCap \in Nat
  /\ InitCap =< MaxCap
  /\ Lengths \subseteq Nat /\ MaxSent \in Nat
  /\ Modes \subseteq BOOLEAN

\* What is left of a block in units is put back into the buffer as it is: a
\* caller's unit fits the buffer, or is refused for its size.
ASSUME BlockAssumption ==
  /\ Blocks \subseteq (Nat \ {0}) \X Nat
  /\ \A b \in Blocks : b[1] =< InitCap \/ b[1] > MaxCap

VARIABLES sent,       \* every byte the peer has sent, in order
          conn,       \* "open", or the peer's "fin" or "reset"
          rcvd,       \* how many of them recv() has returned
          buf,        \* buf_, a function on 0 .. capacity_ - 1
          capacity_, size_, cursor_, closed_,
          pc,         \* where the call in progress is
          blocking_,  \* the mode of the socket
          op, need,   \* its name and the length it asks for
          unit,       \* unitLength of a block
          searched,   \* searchedSize of prepareBytesEndWith
          ret,        \* IO_ERR of the last call
          value       \* what it stored in its caller's variable

peer == <<sent, conn, blocking_>>
mem  == <<buf, capacity_, cursor_>>
call == <<op, need, unit>>
vars == <<sent, conn, blocking_, rcvd, buf, capacity_, size_, cursor_, closed_,
          pc, op, need, unit, searched, ret, value>>

UntilOps == {"readLine", "readString", "peekLine"}
ExactOps == {"readBytes", "peekBuffer", "bufferBytes"}
Peeks    == {"peekLine", "peekBuffer", "bufferBytes"}

EndChar(o) == IF o = "readString" THEN NUL ELSE LF

\* The room behind the unread bytes, and the bytes at offsets a .. b - 1.
Room        == capacity_ - (cursor_ + size_)
Bytes(a, b) == [i \in 1 .. b - a |-> buf[a + i - 1]]

Init ==
  /\ sent = <<>> /\ conn = "open" /\ rcvd = 0 /\ blocking_ \in Modes
  /\ capacity_ = InitCap /\ buf = [i \in 0 .. InitCap - 1 |-> Junk]
  /\ size_ = 0 /\ cursor_ = 0 /\ closed_ = FALSE
  /\ pc = "idle" /\ op = "none" /\ need = 0 /\ unit = 1 /\ searched = 0
  /\ ret = "OK" /\ value = <<>>

-----------------------------------------------------------------------------
(* The peer and the network.                                               *)

Arrive ==
  /\ conn = "open" /\ ~closed_ /\ Len(sent) < MaxSent
  /\ \E b \in Byte : sent' = Append(sent, b)
  /\ UNCHANGED <<conn, blocking_, rcvd, mem, size_, closed_, pc, call, searched, ret, value>>

Hangup ==
  /\ conn = "open" /\ conn' \in {"fin", "reset"}
  /\ UNCHANGED <<sent, blocking_, rcvd, mem, size_, closed_, pc, call, searched, ret, value>>

-----------------------------------------------------------------------------
(* The calls.  The caller's variable is a fresh one.                       *)

Call(o, n, u, start) ==
  /\ pc = "idle" /\ pc' = start
  /\ op' = o /\ need' = n /\ unit' = u /\ searched' = 0 /\ value' = <<>>
  /\ UNCHANGED <<peer, rcvd, mem, size_, closed_, ret>>

ReadUntil == \E o \in UntilOps \cap Calls : Call(o, 0, 1, "scan")
ReadBytes == \E o \in ExactOps \cap Calls, n \in Lengths : Call(o, n, 1, "prepare")
ReadBlock == \E b \in Blocks : Call("readBlock", b[1] * b[2], b[1], "block")

Return(code, v) ==
  /\ ret' = code /\ value' = v
  /\ pc' = "idle" /\ op' = "none" /\ need' = 0 /\ unit' = 1 /\ searched' = 0

\* The bytes of a block that make whole units, and those that are left over.
Left  == Len(value) % unit
Whole == Len(value) - Left

\* A block in units keeps the bytes of a unit that is not complete, at the
\* front of a buffer that is empty by then.
PutBack ==
  \/ Left = 0 /\ UNCHANGED <<buf, cursor_, size_>>
  \/ /\ Left > 0
     /\ cursor_' = 0 /\ size_' = Left
     /\ buf' = [i \in 0 .. capacity_ - 1 |-> IF i < Left THEN value[Whole + 1 + i] ELSE buf[i]]

\* No other call has stored anything in its caller's variable yet.
Fail(code) ==
  /\ Return(code, SubSeq(value, 1, Whole))
  /\ PutBack
  /\ UNCHANGED <<peer, rcvd, capacity_, closed_>>

\* DataInputStream::close closes the socket, once.
Close ==
  /\ pc = "idle" /\ ~closed_
  /\ closed_' = TRUE
  /\ UNCHANGED <<peer, rcvd, mem, size_, pc, call, searched, ret, value>>

-----------------------------------------------------------------------------
(* Where the unread bytes go when room is needed behind them.              *)

\* A mutant: the cursor is not reset.
CompactKeepsCursor ==
  /\ buf' = [i \in 0 .. capacity_ - 1 |-> IF i < size_ THEN buf[cursor_ + i] ELSE buf[i]]
  /\ UNCHANGED <<cursor_, capacity_>>

\* memmove(buf_, buf_ + cursor_, size_): the bytes behind them stay as they are.
Compact ==
  /\ buf' = [i \in 0 .. capacity_ - 1 |-> IF i < size_ THEN buf[cursor_ + i] ELSE buf[i]]
  /\ cursor_' = 0
  /\ UNCHANGED capacity_

\* new char[c], memcpy(tmp, buf_ + cursor_, size_).
Reallocate(c) ==
  /\ buf' = [i \in 0 .. c - 1 |-> IF i < size_ THEN buf[cursor_ + i] ELSE Junk]
  /\ cursor_' = 0
  /\ capacity_' = c

\* A mutant: growth is not capped.
DoubledUncapped == 2 * capacity_

Doubled == IF 2 * capacity_ < MaxCap THEN 2 * capacity_ ELSE MaxCap

-----------------------------------------------------------------------------
(* readLine, readString, peekLine: prepareBytesEndWith, then the value is  *)
(* taken.                                                                  *)

\* The search resumes behind the bytes already searched and stops at the
\* first terminator.
Found(endPos) ==
  /\ buf[endPos] = EndChar(op)
  /\ \A i \in cursor_ + searched .. endPos - 1 : buf[i] # EndChar(op)

NotFound == \A i \in cursor_ + searched .. cursor_ + size_ - 1 : buf[i] # EndChar(op)

\* A mutant: the '\r' is kept.
LineEndKeepsCR(endPos) == endPos

\* A '\r' right before the terminator is not part of the value.
LineEnd(endPos) ==
  IF endPos > cursor_ /\ buf[endPos - 1] = CR THEN endPos - 1 ELSE endPos

\* n bytes have been read, unless the call only looks at them.
Consume(n) ==
  IF op \in Peeks THEN UNCHANGED <<size_, cursor_>>
  ELSE size_' = size_ - n /\ cursor_' = cursor_ + n

TakeLine ==
  /\ pc = "scan"
  /\ \E endPos \in cursor_ + searched .. cursor_ + size_ - 1 :
       /\ Found(endPos)
       /\ Consume(endPos - cursor_ + 1)
       /\ Return("OK", Bytes(cursor_, LineEnd(endPos)))
  /\ UNCHANGED <<peer, rcvd, buf, capacity_, closed_>>

\* A mutant: the search resumes one byte too far.
MakeRoomSkipsOne ==
  /\ pc = "scan" /\ NotFound
  /\ \/ Room >= LowWater /\ UNCHANGED mem
     \/ Room < LowWater /\ cursor_ >= LowWater /\ Compact
     \/ Room < LowWater /\ cursor_ < LowWater /\ size_ < MaxCap /\ Reallocate(Doubled)
  /\ searched' = size_ + 1 /\ pc' = "recv"
  /\ UNCHANGED <<peer, rcvd, size_, closed_, call, ret, value>>

MakeRoom ==
  /\ pc = "scan" /\ NotFound
  /\ \/ Room >= LowWater /\ UNCHANGED mem
     \/ Room < LowWater /\ cursor_ >= LowWater /\ Compact
     \/ Room < LowWater /\ cursor_ < LowWater /\ size_ < MaxCap /\ Reallocate(Doubled)
  /\ searched' = size_ /\ pc' = "recv"
  /\ UNCHANGED <<peer, rcvd, size_, closed_, call, ret, value>>

LineTooLarge ==
  /\ pc = "scan" /\ NotFound
  /\ Room < LowWater /\ cursor_ < LowWater /\ size_ >= MaxCap
  /\ Fail("TOO_LARGE_DATA")

-----------------------------------------------------------------------------
(* readBytes and readString of a length, peekBuffer, bufferBytes:          *)
(* prepareBytes unless the buffer has the bytes already, then copy.        *)

\* A mutant: a buffer that is large enough is never compacted.
PrepareBytesInPlace ==
  /\ pc = "prepare" /\ pc' = "recv"
  /\ \/ size_ >= need /\ UNCHANGED mem
     \/ size_ < need /\ capacity_ < need /\ need =< MaxCap /\ Reallocate(need)
     \/ size_ < need /\ capacity_ >= need /\ UNCHANGED mem
  /\ UNCHANGED <<peer, rcvd, size_, closed_, call, searched, ret, value>>

\* The buffer is rearranged once, before the first recv of the call.
PrepareBytes ==
  /\ pc = "prepare" /\ pc' = "recv"
  /\ \/ size_ >= need /\ UNCHANGED mem
     \/ size_ < need /\ capacity_ < need /\ need =< MaxCap /\ Reallocate(need)
     \/ size_ < need /\ capacity_ >= need /\ capacity_ - cursor_ < need /\ Compact
     \/ size_ < need /\ capacity_ >= need /\ capacity_ - cursor_ >= need /\ UNCHANGED mem
  /\ UNCHANGED <<peer, rcvd, size_, closed_, call, searched, ret, value>>

BytesTooLarge ==
  /\ pc = "prepare"
  /\ size_ < need /\ capacity_ < need /\ need > MaxCap
  /\ Fail("TOO_LARGE_DATA")

TakeBytes ==
  /\ pc = "recv" /\ op \in ExactOps /\ size_ >= need
  /\ Consume(need)
  /\ Return("OK", IF op = "bufferBytes" THEN <<>> ELSE Bytes(cursor_, cursor_ + need))
  /\ UNCHANGED <<peer, rcvd, buf, capacity_, closed_>>

-----------------------------------------------------------------------------
(* The block reads: what the buffer has, then recv() into the caller's     *)
(* memory.                                                                 *)

UnitTooLarge ==
  /\ pc = "block" /\ unit > MaxCap /\ unit # 1
  /\ Fail("TOO_LARGE_DATA")

TakeBuffered ==
  LET count == IF size_ < need THEN size_ ELSE need
  IN /\ pc = "block" /\ (unit =< MaxCap \/ unit = 1)
     /\ value' = Bytes(cursor_, cursor_ + count)
     /\ size_' = size_ - count /\ cursor_' = cursor_ + count
     /\ pc' = "fill"
     /\ UNCHANGED <<peer, rcvd, buf, capacity_, closed_, call, searched, ret>>

BlockFilled ==
  /\ pc = "fill" /\ Len(value) = need
  /\ Return("OK", value)
  /\ UNCHANGED <<peer, rcvd, mem, size_, closed_>>

-----------------------------------------------------------------------------
(* Socket::read, called by the three loops.                                *)

WantsData ==
  \/ pc = "recv" /\ (op \in ExactOps => size_ < need)
  \/ pc = "fill" /\ Len(value) < need

Recv ==
  /\ pc = "recv" /\ WantsData /\ ~closed_ /\ conn # "reset"
  /\ \E n \in 1 .. Room :
       /\ rcvd + n =< Len(sent)
       /\ buf' = [i \in 0 .. capacity_ - 1 |->
                    IF i \in cursor_ + size_ .. cursor_ + size_ + n - 1
                    THEN sent[rcvd + 1 + i - (cursor_ + size_)] ELSE buf[i]]
       /\ size_' = size_ + n
       /\ rcvd' = rcvd + n
  /\ pc' = IF op \in ExactOps THEN "recv" ELSE "scan"
  /\ UNCHANGED <<peer, capacity_, cursor_, closed_, call, searched, ret, value>>

\* A mutant: a recv() starts one byte before the end of what the block holds.
RecvOverwrites ==
  /\ pc = "fill" /\ WantsData /\ ~closed_ /\ conn # "reset"
  /\ \E n \in 1 .. need - Len(value) :
       /\ rcvd + n =< Len(sent)
       /\ value' = SubSeq(value, 1, Len(value) - 1) \o SubSeq(sent, rcvd + 1, rcvd + n)
       /\ rcvd' = rcvd + n
  /\ UNCHANGED <<peer, mem, size_, closed_, pc, call, searched, ret>>

RecvBlock ==
  /\ pc = "fill" /\ WantsData /\ ~closed_ /\ conn # "reset"
  /\ \E n \in 1 .. need - Len(value) :
       /\ rcvd + n =< Len(sent)
       /\ value' = value \o SubSeq(sent, rcvd + 1, rcvd + n)
       /\ rcvd' = rcvd + n
  /\ UNCHANGED <<peer, mem, size_, closed_, pc, call, searched, ret>>

\* A mutant: the end of the stream is taken for "no data yet" and tried again.
RecvZeroRetries ==
  /\ WantsData /\ ~closed_
  /\ (pc = "recv" /\ Room = 0) \/ conn = "reset"
  /\ Fail("DISCONNECTED")

\* recv() returned 0: the peer has finished (or was reset before this call),
\* or there was no room to fill.
RecvZero ==
  /\ WantsData /\ ~closed_
  /\ (pc = "recv" /\ Room = 0) \/ (conn = "fin" /\ rcvd = Len(sent)) \/ conn = "reset"
  /\ Fail("DISCONNECTED")

\* Nothing has arrived and the socket does not wait: EAGAIN.
RecvNothing ==
  /\ WantsData /\ ~closed_ /\ conn = "open"
  /\ ~blocking_ /\ rcvd = Len(sent) /\ (pc = "recv" => Room > 0)
  /\ Fail("NODATA")

\* recv() failed: the connection was reset, or the handle is closed.
RecvError ==
  /\ WantsData
  /\ conn = "reset" \/ closed_
  /\ Fail("OTHERERR")

-----------------------------------------------------------------------------
Reader ==
  \/ TakeLine \/ MakeRoom \/ LineTooLarge
  \/ PrepareBytes \/ BytesTooLarge \/ TakeBytes
  \/ UnitTooLarge \/ TakeBuffered \/ BlockFilled
  \/ Recv \/ RecvBlock \/ RecvZero \/ RecvNothing \/ RecvError

Next == Arrive \/ Hangup \/ ReadUntil \/ ReadBytes \/ ReadBlock \/ Close \/ Reader

Spec == Init /\ [][Next]_vars

\* A call in progress keeps running: the thread that made it does nothing else.
FairSpec == Spec /\ WF_vars(Reader)

-----------------------------------------------------------------------------
(* Correctness.                                                            *)

\* The domains of the variables: buf_ has exactly capacity_ bytes, and no
\* operation of SysIO.h lets capacity_ pass MAX_CAPACITY.
TypeOK ==
  /\ sent \in Seq(Byte) /\ conn \in {"open", "fin", "reset"} /\ rcvd \in Nat
  /\ blocking_ \in BOOLEAN
  /\ capacity_ \in 1 .. MaxCap /\ size_ \in Nat /\ cursor_ \in Nat /\ closed_ \in BOOLEAN
  /\ buf \in [0 .. capacity_ - 1 -> Byte \cup {Junk}]
  /\ pc \in {"idle", "scan", "prepare", "recv", "block", "fill"}
  /\ op \in UntilOps \cup ExactOps \cup {"readBlock", "none"} /\ need \in Nat
  /\ unit \in Nat \ {0} /\ searched \in Nat
  /\ ret \in {"OK", "DISCONNECTED", "NODATA", "OTHERERR", "TOO_LARGE_DATA"}
  /\ value \in Seq(Byte)

\* The unread part of the buffer lies inside it and holds exactly the bytes
\* of the stream received and not yet delivered, in order: no compaction,
\* growth or short recv of prepareBytes and prepareBytesEndWith and no unit
\* put back by a block read loses, moves or repeats one, and none of them is
\* an uninitialized byte.
WindowHolds ==
  /\ cursor_ + size_ =< capacity_
  /\ size_ =< rcvd /\ rcvd =< Len(sent)
  /\ \A i \in 0 .. size_ - 1 : buf[cursor_ + i] = sent[rcvd - size_ + 1 + i]

\* recv() is never called with no room behind the unread bytes: a recv of
\* length 0 returns 0, which Socket::read would report as a disconnection
\* of a connection that is alive.  The room is also enough for the call to
\* end: prepareBytes never needs to rearrange the buffer a second time.
RecvHasRoom ==
  /\ pc = "recv" /\ op \in UntilOps => Room > 0
  /\ pc = "recv" /\ op \in ExactOps => cursor_ + need =< capacity_

\* prepareBytesEndWith resumes its search at cursor_ + searchedSize after
\* the buffer was rearranged and filled: the bytes it skips are unread bytes
\* that hold no terminator, so the line returned ends at the first one.
SkippedHasNoEnd ==
  pc \in {"scan", "recv"} /\ op \in UntilOps =>
    /\ searched =< size_
    /\ \A i \in 0 .. searched - 1 : buf[cursor_ + i] # EndChar(op)

\* While a block is filled directly from the socket the caller's memory holds
\* the bytes of the stream that precede the buffered ones, and the buffer is
\* empty unless it alone had the block: what is put back at the end of the
\* call overwrites no unread byte.
BlockHolds ==
  pc = "fill" =>
    /\ Len(value) =< need /\ size_ + Len(value) =< rcvd
    /\ size_ = 0 \/ Len(value) = need
    /\ \A i \in 1 .. Len(value) : value[i] = sent[rcvd - size_ - Len(value) + i]

\* What the caller of the stream may rely on (ByteStream): lines end at the
\* first terminator, bytes come once and in order, a peek and a failed read
\* consume nothing, so that a call answered NODATA can be made again, and the
\* end of the stream, the want of data or a too large line is reported only
\* when it is one.  A block on its way to the caller is not delivered yet.
OnItsWay == IF pc = "fill" THEN Len(value) ELSE 0

Promise == INSTANCE ByteStream WITH
  pos <- rcvd - size_ - OnItsWay, closed <- closed_, blocking <- blocking_,
  value <- IF pc = "fill" THEN <<>> ELSE value

ImplementsByteStream == Promise!Spec

\* Every call of the reader returns once the peer has hung up, and on a socket
\* that does not wait whatever the peer does: the three loops around
\* Socket::read end.
ReadsReturn == (pc # "idle" /\ (conn # "open" \/ ~blocking_)) ~> (pc = "idle")

\* A line that has arrived is delivered: with its terminator within
\* MAX_CAPACITY bytes of the unread position, readLine and readString return
\* without another byte of the peer, however recv() cuts the stream.
LineHere ==
  /\ pc # "idle" /\ op \in UntilOps
  /\ \E k \in 1 .. Len(sent) :
       rcvd - size_ < k /\ k =< rcvd - size_ + MaxCap /\ sent[k] = EndChar(op)

ArrivedLineIsRead == LineHere ~> (pc = "idle")
=============================================================================
