------------------------- MODULE InputStreamProofs -------------------------
(***************************************************************************)
(* The invariants of InputStream, and that it implements ByteStream, for   *)
(* every buffer size, threshold, alphabet and length of the stream.        *)
(***************************************************************************)
EXTENDS InputStream, TLAPS

\* Which call is in progress at which program point.
CallShape ==
  /\ pc = "idle" <=> op = "none"
  /\ pc = "scan" => op \in UntilOps
  /\ pc = "prepare" => op \in ExactOps
  /\ pc = "recv" => op \in UntilOps \cup ExactOps
  /\ pc \in {"block", "fill"} <=> op = "readBlock"

\* Only a block read stores bytes before it returns, and what is left of its
\* units fits the buffer.
BlockShape ==
  /\ pc \in {"scan", "prepare", "recv", "block"} => value = <<>>
  /\ pc = "fill" => unit =< InitCap
  /\ pc = "block" => unit =< InitCap \/ unit > MaxCap
  /\ InitCap =< capacity_

\* The inductive invariant: the five invariants need each other (a byte of
\* the window is inside buf because the window is inside the capacity),
\* CallShape says which loop a recv() belongs to, and BlockShape that a unit
\* put back fits.
IInv ==
  /\ TypeOK /\ WindowHolds /\ RecvHasRoom /\ SkippedHasNoEnd /\ BlockHolds
  /\ CallShape /\ BlockShape

LEMMA InitIInv == Init => IInv
BY ByteAssumption, SizeAssumption
   DEF Init, IInv, TypeOK, WindowHolds, RecvHasRoom, SkippedHasNoEnd, BlockHolds, CallShape,
       BlockShape, Room, UntilOps, ExactOps

LEMMA ArriveIInv == IInv /\ Arrive => IInv'
<1>. SUFFICES ASSUME IInv, Arrive
              PROVE  IInv'
  OBVIOUS
<1>1. /\ sent' \in Seq(Byte) /\ Len(sent') = Len(sent) + 1
      /\ \A k \in 1 .. Len(sent) : sent'[k] = sent[k]
  BY DEF IInv, TypeOK, Arrive
<1>2. UNCHANGED <<conn, blocking_, rcvd, mem, size_, closed_, pc, call, searched, ret, value>>
  BY DEF Arrive
<1>3. TypeOK'
  BY <1>1, <1>2 DEF IInv, TypeOK, mem, call
<1>4. WindowHolds'
  <2>1. ASSUME NEW i \in 0 .. size_ - 1
        PROVE  buf[cursor_ + i] = sent'[rcvd - size_ + 1 + i]
    <3>1. rcvd - size_ + 1 + i \in 1 .. Len(sent)
      BY DEF IInv, TypeOK, WindowHolds
    <3>2. buf[cursor_ + i] = sent[rcvd - size_ + 1 + i]
      BY DEF IInv, WindowHolds
    <3>. QED  BY <1>1, <3>1, <3>2
  <2>2. rcvd =< Len(sent')
    BY <1>1 DEF IInv, TypeOK, WindowHolds
  <2>. QED  BY <1>2, <2>1, <2>2 DEF IInv, WindowHolds, mem
<1>5. RecvHasRoom' /\ SkippedHasNoEnd' /\ CallShape' /\ BlockShape'
  BY <1>2 DEF IInv, RecvHasRoom, SkippedHasNoEnd, CallShape, BlockShape, Room, mem, call, EndChar
<1>6. BlockHolds'
  <2>. SUFFICES ASSUME pc = "fill", NEW i \in 1 .. Len(value)
                PROVE  value[i] = sent'[rcvd - size_ - Len(value) + i]
    BY <1>2 DEF IInv, BlockHolds, mem, call
  <2>1. rcvd - size_ - Len(value) + i \in 1 .. Len(sent)
    BY DEF IInv, TypeOK, WindowHolds, BlockHolds
  <2>. QED  BY <1>1, <2>1 DEF IInv, BlockHolds
<1>. QED  BY <1>3, <1>4, <1>5, <1>6 DEF IInv

LEMMA HangupIInv == IInv /\ Hangup => IInv'
<1>. SUFFICES ASSUME IInv, Hangup
              PROVE  IInv'
  OBVIOUS
<1>1. /\ conn' \in {"fin", "reset"}
      /\ UNCHANGED <<sent, blocking_, rcvd, mem, size_, closed_, pc, call, searched, ret, value>>
  BY DEF Hangup
<1>2. TypeOK'
  BY <1>1 DEF IInv, TypeOK, mem, call
<1>3. WindowHolds' /\ BlockHolds'
  BY <1>1 DEF IInv, WindowHolds, BlockHolds, mem, call
<1>4. RecvHasRoom' /\ SkippedHasNoEnd'
  BY <1>1 DEF IInv, RecvHasRoom, SkippedHasNoEnd, Room, EndChar, mem, call
<1>5. CallShape' /\ BlockShape'
  BY <1>1 DEF IInv, CallShape, BlockShape, mem, call
<1>. QED  BY <1>2, <1>3, <1>4, <1>5 DEF IInv

-----------------------------------------------------------------------------
(* Rearranging the buffer moves its window and changes nothing in it.      *)

Moved ==
  \/ UNCHANGED mem
  \/ Compact
  \/ \E c \in 1 .. MaxCap : size_ =< c /\ Reallocate(c)

LEMMA MovedWindow ==
  ASSUME TypeOK, WindowHolds, Moved
  PROVE  /\ capacity_' \in 1 .. MaxCap /\ cursor_' \in Nat
         /\ buf' \in [0 .. capacity_' - 1 -> Byte \cup {Junk}]
         /\ cursor_' + size_ =< capacity_'
         /\ \A i \in 0 .. size_ - 1 : buf'[cursor_' + i] = buf[cursor_ + i]
<1>1. CASE UNCHANGED mem
  BY <1>1 DEF mem, TypeOK, WindowHolds
<1>2. CASE Compact
  BY <1>2 DEF Compact, TypeOK, WindowHolds
<1>3. CASE \E c \in 1 .. MaxCap : size_ =< c /\ Reallocate(c)
  BY <1>3, SizeAssumption DEF Reallocate, TypeOK, WindowHolds
<1>. QED  BY <1>1, <1>2, <1>3 DEF Moved

\* The buffer never shrinks.
LEMMA MovedCapacity ==
  ASSUME IInv, MakeRoom \/ PrepareBytes
  PROVE  capacity_' >= capacity_
<1>1. Doubled >= capacity_
  BY SizeAssumption DEF Doubled, IInv, TypeOK
<1>. QED  BY <1>1 DEF MakeRoom, PrepareBytes, Reallocate, Compact, mem, IInv, TypeOK

\* A step outside the block reads keeps BlockHolds: there is no block.
LEMMA NoBlockHolds ==
  ASSUME pc' # "fill"
  PROVE  BlockHolds'
BY DEF BlockHolds

\* A step that rearranges the buffer and leaves the peer, the kernel and
\* size_ alone keeps WindowHolds.
LEMMA MovedHolds ==
  ASSUME TypeOK, WindowHolds, Moved, UNCHANGED <<peer, rcvd, size_>>
  PROVE  WindowHolds'
BY MovedWindow DEF WindowHolds, peer

-----------------------------------------------------------------------------
(* Taking bytes off the front of the window delivers the next bytes of the *)
(* stream, whatever the buffer looks like.                                 *)

LEMMA BytesAreNext ==
  ASSUME TypeOK, WindowHolds, NEW n \in 0 .. size_
  PROVE  /\ Bytes(cursor_, cursor_ + n) = SubSeq(sent, rcvd - size_ + 1, rcvd - size_ + n)
         /\ Bytes(cursor_, cursor_ + n) \in Seq(Byte)
<1>1. \A i \in 1 .. n : buf[cursor_ + i - 1] = sent[rcvd - size_ + i]
  <2>. SUFFICES ASSUME NEW i \in 1 .. n
                PROVE  buf[cursor_ + i - 1] = sent[rcvd - size_ + i]
    OBVIOUS
  <2>1. i - 1 \in 0 .. size_ - 1 => buf[cursor_ + (i - 1)] = sent[rcvd - size_ + 1 + (i - 1)]
    BY DEF WindowHolds
  <2>2. /\ i - 1 \in 0 .. size_ - 1
        /\ cursor_ + (i - 1) = cursor_ + i - 1
        /\ rcvd - size_ + 1 + (i - 1) = rcvd - size_ + i
    BY DEF TypeOK
  <2>. QED  BY <2>1, <2>2
<1>2. Bytes(cursor_, cursor_ + n) = [i \in 1 .. n |-> buf[cursor_ + i - 1]]
  BY DEF Bytes, TypeOK
<1>3. \A i \in 1 .. n : sent[rcvd - size_ + i] \in Byte
  BY DEF TypeOK, WindowHolds
<1>4. SubSeq(sent, rcvd - size_ + 1, rcvd - size_ + n)
        = [i \in 1 .. n |-> sent[rcvd - size_ + i]]
  BY DEF TypeOK, WindowHolds
<1>5. [i \in 1 .. n |-> sent[rcvd - size_ + i]] \in Seq(Byte)
  BY <1>3
<1>. QED  BY <1>1, <1>2, <1>4, <1>5

\* The window left after n bytes are taken is the rest of the old one.
LEMMA TakenHolds ==
  ASSUME TypeOK, WindowHolds, NEW n \in 0 .. size_,
         size_' = size_ - n, cursor_' = cursor_ + n,
         UNCHANGED <<peer, rcvd, buf, capacity_>>
  PROVE  size_' \in Nat /\ cursor_' \in Nat /\ WindowHolds'
<1>1. size_' \in Nat /\ cursor_' \in Nat /\ cursor_' + size_' = cursor_ + size_ /\ size_' =< size_
  BY DEF TypeOK
<1>2. ASSUME NEW i \in 0 .. size_' - 1
      PROVE  buf[cursor_' + i] = sent[rcvd - size_' + 1 + i]
  <2>1. n + i \in 0 .. size_ - 1
    BY DEF TypeOK
  <2>2. buf[cursor_ + (n + i)] = sent[rcvd - size_ + 1 + (n + i)]
    BY <2>1 DEF WindowHolds
  <2>3. cursor_ + (n + i) = cursor_' + i /\ rcvd - size_ + 1 + (n + i) = rcvd - size_' + 1 + i
    BY <2>1 DEF TypeOK, WindowHolds
  <2>. QED  BY <2>2, <2>3
<1>. QED  BY <1>1, <1>2 DEF WindowHolds, TypeOK, peer

-----------------------------------------------------------------------------
(* One lemma per action.                                                   *)

Starts(o, u, start) ==
  \/ o \in UntilOps /\ start = "scan"
  \/ o \in ExactOps /\ start = "prepare"
  \/ o = "readBlock" /\ start = "block" /\ (u =< InitCap \/ u > MaxCap)

LEMMA CallStarts ==
  ASSUME ReadUntil \/ ReadBytes \/ ReadBlock
  PROVE  \E o \in UntilOps \cup ExactOps \cup {"readBlock"}, n \in Nat, u \in Nat \ {0},
            start \in {"scan", "prepare", "block"} : Starts(o, u, start) /\ Call(o, n, u, start)
<1>1. CASE ReadUntil
  BY <1>1 DEF ReadUntil, Starts
<1>2. CASE ReadBytes
  BY <1>2, SizeAssumption DEF ReadBytes, Starts
<1>3. CASE ReadBlock
  <2>1. PICK b \in Blocks : Call("readBlock", b[1] * b[2], b[1], "block")
    BY <1>3 DEF ReadBlock
  <2>2. b[1] \in Nat \ {0} /\ b[2] \in Nat /\ (b[1] =< InitCap \/ b[1] > MaxCap)
    BY BlockAssumption
  <2>3. b[1] * b[2] \in Nat
    BY <2>2
  <2>4. Starts("readBlock", b[1], "block")
    BY <2>2 DEF Starts
  <2>. QED  BY <2>1, <2>2, <2>3, <2>4
<1>. QED  BY <1>1, <1>2, <1>3

LEMMA CallIInv == IInv /\ (ReadUntil \/ ReadBytes \/ ReadBlock) => IInv'
<1>. SUFFICES ASSUME IInv,
                     NEW o \in UntilOps \cup ExactOps \cup {"readBlock"},
                     NEW n \in Nat, NEW u \in Nat \ {0},
                     NEW start \in {"scan", "prepare", "block"},
                     Starts(o, u, start), Call(o, n, u, start)
              PROVE  IInv'
  BY CallStarts
<1>1. TypeOK'
  BY DEF IInv, TypeOK, Call, mem, peer
<1>2. WindowHolds'
  BY DEF IInv, WindowHolds, Call, mem, peer
<1>3. RecvHasRoom' /\ SkippedHasNoEnd' /\ BlockHolds'
  BY DEF IInv, TypeOK, RecvHasRoom, SkippedHasNoEnd, BlockHolds, Call, mem, peer
<1>4. CallShape'
  BY DEF Starts, CallShape, Call, UntilOps, ExactOps
<1>5. BlockShape'
  BY DEF Starts, IInv, BlockShape, Call, mem, UntilOps, ExactOps
<1>. QED  BY <1>1, <1>2, <1>3, <1>4, <1>5 DEF IInv

LEMMA CloseIInv == IInv /\ Close => IInv'
BY DEF IInv, Close, mem, peer, call, TypeOK, WindowHolds, RecvHasRoom, SkippedHasNoEnd, BlockHolds,
       CallShape, BlockShape, Room, UntilOps, ExactOps, EndChar

\* The bytes left over from whole units.
LEMMA LeftOver ==
  ASSUME NEW n \in Nat, NEW u \in Nat \ {0}
  PROVE  n % u \in 0 .. u - 1 /\ n % u =< n
<1>1. n = u * (n \div u) + (n % u)
  OBVIOUS
<1>2. u * (n \div u) >= 0
  <2>1. n \div u >= 0
    OBVIOUS
  <2>. QED  BY <2>1
<1>. QED  BY <1>1, <1>2

\* What a failed block read puts back is the unread part of the stream, and
\* what it returns are bytes.
LEMMA PutBackHolds ==
  ASSUME IInv, PutBack, pc # "idle", pc = "fill" => Len(value) < need,
         UNCHANGED <<peer, rcvd, capacity_>>
  PROVE  /\ WindowHolds' /\ size_' \in Nat /\ cursor_' \in Nat
         /\ buf' \in [0 .. capacity_ - 1 -> Byte \cup {Junk}]
         /\ SubSeq(value, 1, Whole) \in Seq(Byte)
<1>1. /\ Len(value) \in Nat /\ unit \in Nat \ {0} /\ value \in Seq(Byte)
      /\ Left \in 0 .. unit - 1 /\ Left =< Len(value)
  <2>1. Len(value) \in Nat /\ unit \in Nat \ {0} /\ value \in Seq(Byte)
    BY DEF IInv, TypeOK
  <2>2. Left \in 0 .. unit - 1 /\ Left =< Len(value)
    BY <2>1, LeftOver DEF Left
  <2>. QED  BY <2>1, <2>2
<1>2. SubSeq(value, 1, Whole) \in Seq(Byte)
  BY <1>1 DEF Whole
<1>3. CASE Left = 0
  BY <1>1, <1>2, <1>3 DEF PutBack, IInv, TypeOK, WindowHolds, peer
<1>4. CASE Left > 0
  <2>1. pc = "fill" /\ size_ = 0 /\ unit =< capacity_
    <3>1. value # <<>>
      BY <1>1, <1>4
    <3>2. pc = "fill"
      BY <3>1 DEF IInv, TypeOK, BlockShape
    <3>. QED  BY <1>1, <3>2, SizeAssumption DEF IInv, TypeOK, BlockHolds, BlockShape
  <2>2. /\ cursor_' = 0 /\ size_' = Left
        /\ buf' = [i \in 0 .. capacity_ - 1 |-> IF i < Left THEN value[Whole + 1 + i] ELSE buf[i]]
    BY <1>4 DEF PutBack
  <2>3. \A i \in 0 .. Left - 1 : Whole + 1 + i \in 1 .. Len(value)
    BY <1>1 DEF Whole
  <2>4. buf' \in [0 .. capacity_ - 1 -> Byte \cup {Junk}]
    BY <1>1, <2>2, <2>3 DEF IInv, TypeOK
  <2>5. \A i \in 0 .. Left - 1 : buf'[0 + i] = sent[rcvd - Left + 1 + i]
    <3>. SUFFICES ASSUME NEW i \in 0 .. Left - 1
                  PROVE  buf'[i] = sent[rcvd - Left + 1 + i]
      OBVIOUS
    <3>1. buf'[i] = value[Whole + 1 + i]
      BY <1>1, <2>1, <2>2 DEF IInv, TypeOK
    <3>2. value[Whole + 1 + i] = sent[rcvd - size_ - Len(value) + (Whole + 1 + i)]
      BY <2>1, <2>3 DEF IInv, BlockHolds
    <3>3. rcvd - size_ - Len(value) + (Whole + 1 + i) = rcvd - Left + 1 + i
      BY <1>1, <2>1 DEF Whole, IInv, TypeOK
    <3>. QED  BY <3>1, <3>2, <3>3
  <2>6. Left =< capacity_ /\ Left =< rcvd /\ rcvd =< Len(sent)
    BY <1>1, <2>1 DEF IInv, TypeOK, WindowHolds, BlockHolds
  <2>7. /\ cursor_' = 0 /\ size_' = Left /\ capacity_' = capacity_ /\ rcvd' = rcvd /\ sent' = sent
    BY <2>2 DEF peer
  <2>8. WindowHolds'
    BY <1>1, <2>5, <2>6, <2>7 DEF WindowHolds
  <2>. QED  BY <1>1, <1>2, <2>2, <2>4, <2>8
<1>. QED  BY <1>1, <1>3, <1>4

LEMMA FailIInv ==
  ASSUME IInv, NEW code \in {"DISCONNECTED", "NODATA", "OTHERERR", "TOO_LARGE_DATA"},
         pc # "idle", pc = "fill" => Len(value) < need, Fail(code)
  PROVE  IInv'
<1>1. /\ Return(code, SubSeq(value, 1, Whole)) /\ PutBack
      /\ UNCHANGED <<peer, rcvd, capacity_, closed_>>
  BY DEF Fail
<1>2. /\ WindowHolds' /\ size_' \in Nat /\ cursor_' \in Nat
      /\ buf' \in [0 .. capacity_ - 1 -> Byte \cup {Junk}]
      /\ SubSeq(value, 1, Whole) \in Seq(Byte)
  BY <1>1, PutBackHolds
<1>3. TypeOK'
  BY <1>1, <1>2 DEF IInv, TypeOK, Return, peer
<1>4. RecvHasRoom' /\ SkippedHasNoEnd' /\ BlockHolds' /\ CallShape' /\ BlockShape'
  BY <1>1 DEF IInv, Return, RecvHasRoom, SkippedHasNoEnd, BlockHolds, CallShape, BlockShape,
              UntilOps, ExactOps
<1>. QED  BY <1>2, <1>3, <1>4 DEF IInv

\* A call that returns leaves only the window and the types to be checked.
LEMMA ReturnShape ==
  ASSUME NEW code, NEW v, Return(code, v), IInv, UNCHANGED capacity_
  PROVE  /\ RecvHasRoom' /\ SkippedHasNoEnd' /\ BlockHolds' /\ CallShape' /\ BlockShape'
BY DEF IInv, Return, RecvHasRoom, SkippedHasNoEnd, BlockHolds, CallShape, BlockShape,
       UntilOps, ExactOps

\* Consuming n bytes of the window, or only looking at them.
LEMMA ConsumeHolds ==
  ASSUME TypeOK, WindowHolds, NEW n \in 0 .. size_, Consume(n),
         UNCHANGED <<peer, rcvd, buf, capacity_>>
  PROVE  size_' \in Nat /\ cursor_' \in Nat /\ WindowHolds'
<1>1. CASE op \in Peeks
  BY <1>1 DEF Consume, TypeOK, WindowHolds, peer
<1>2. CASE op \notin Peeks
  BY <1>2, TakenHolds DEF Consume
<1>. QED  BY <1>1, <1>2

LEMMA TakeLineIInv == IInv /\ TakeLine => IInv'
<1>. SUFFICES ASSUME IInv, TakeLine
              PROVE  IInv'
  OBVIOUS
<1>1. PICK endPos \in cursor_ + searched .. cursor_ + size_ - 1 :
        /\ Consume(endPos - cursor_ + 1)
        /\ Return("OK", Bytes(cursor_, LineEnd(endPos)))
  BY DEF TakeLine
<1>2. UNCHANGED <<peer, rcvd, buf, capacity_, closed_>>
  BY DEF TakeLine
<1>3. endPos - cursor_ + 1 \in 0 .. size_
  BY <1>1 DEF IInv, TypeOK
<1>4. size_' \in Nat /\ cursor_' \in Nat /\ WindowHolds'
  BY <1>1, <1>2, <1>3, ConsumeHolds DEF IInv
<1>5. value' \in Seq(Byte)
  <2>1. LineEnd(endPos) - cursor_ \in 0 .. size_
        /\ LineEnd(endPos) = cursor_ + (LineEnd(endPos) - cursor_)
    BY <1>1 DEF LineEnd, IInv, TypeOK
  <2>. QED  BY <1>1, <2>1, BytesAreNext DEF IInv, Return
<1>6. TypeOK'
  BY <1>1, <1>2, <1>4, <1>5 DEF IInv, TypeOK, Return, peer
<1>. QED  BY <1>1, <1>2, <1>4, <1>6, ReturnShape DEF IInv

LEMMA TakeBytesIInv == IInv /\ TakeBytes => IInv'
<1>. SUFFICES ASSUME IInv, TakeBytes
              PROVE  IInv'
  OBVIOUS
<1>1. need \in 0 .. size_
  BY DEF IInv, TypeOK, TakeBytes
<1>2. size_' \in Nat /\ cursor_' \in Nat /\ WindowHolds'
  BY <1>1, ConsumeHolds DEF IInv, TakeBytes
<1>3. value' \in Seq(Byte)
  BY <1>1, BytesAreNext DEF IInv, TakeBytes, Return
<1>4. TypeOK'
  BY <1>2, <1>3 DEF IInv, TypeOK, TakeBytes, Return, peer
<1>. QED  BY <1>2, <1>4, ReturnShape DEF IInv, TakeBytes

LEMMA TakeBufferedIInv == IInv /\ TakeBuffered => IInv'
<1>. SUFFICES ASSUME IInv, TakeBuffered
              PROVE  IInv'
  OBVIOUS
<1>. DEFINE count == IF size_ < need THEN size_ ELSE need
<1>1. /\ pc = "block" /\ pc' = "fill" /\ (unit =< MaxCap \/ unit = 1)
      /\ value' = Bytes(cursor_, cursor_ + count)
      /\ size_' = size_ - count /\ cursor_' = cursor_ + count
      /\ UNCHANGED <<peer, rcvd, buf, capacity_, closed_, call, searched, ret>>
  BY DEF TakeBuffered
<1>2. count \in 0 .. size_ /\ count =< need
  BY DEF IInv, TypeOK
<1>3. size_' \in Nat /\ cursor_' \in Nat /\ WindowHolds'
  BY <1>1, <1>2, TakenHolds DEF IInv
<1>4. /\ value' = SubSeq(sent, rcvd - size_ + 1, rcvd - size_ + count)
      /\ value' \in Seq(Byte)
  BY <1>1, <1>2, BytesAreNext DEF IInv
<1>5. TypeOK'
  BY <1>1, <1>3, <1>4 DEF IInv, TypeOK, peer, call
<1>6. BlockHolds'
  <2>1. Len(value') = count /\ \A i \in 1 .. count : value'[i] = sent[rcvd - size_ + i]
    <3>. DEFINE p == rcvd - size_
    <3>1. p \in Nat /\ count \in Nat /\ p + count =< Len(sent) /\ sent \in Seq(Byte)
      BY <1>2 DEF IInv, TypeOK, WindowHolds
    <3>2. value' = SubSeq(sent, p + 1, p + count)
      BY <1>4
    <3>. HIDE DEF p, count
    <3>3. /\ Len(SubSeq(sent, p + 1, p + count)) = count
          /\ \A i \in 1 .. count : SubSeq(sent, p + 1, p + count)[i] = sent[p + i]
      BY <3>1
    <3>4. Len(value') = count /\ \A i \in 1 .. count : value'[i] = sent[p + i]
      BY <3>2, <3>3
    <3>. QED  BY <3>4 DEF p
  <2>2. size_' = 0 \/ count = need
    BY <1>1 DEF IInv, TypeOK
  <2>3. rcvd - size_' - count = rcvd - size_ /\ size_' + count =< rcvd
    BY <1>1, <1>2 DEF IInv, TypeOK, WindowHolds
  <2>. QED  BY <1>1, <1>2, <2>1, <2>2, <2>3 DEF BlockHolds, call, peer
<1>7. RecvHasRoom' /\ SkippedHasNoEnd' /\ CallShape'
  BY <1>1 DEF IInv, RecvHasRoom, SkippedHasNoEnd, CallShape, call, UntilOps, ExactOps
<1>8. BlockShape'
  BY <1>1, SizeAssumption DEF IInv, TypeOK, BlockShape, call
<1>. QED  BY <1>3, <1>5, <1>6, <1>7, <1>8 DEF IInv

LEMMA BlockFilledIInv == IInv /\ BlockFilled => IInv'
<1>. SUFFICES ASSUME IInv, BlockFilled
              PROVE  IInv'
  OBVIOUS
<1>1. Return("OK", value) /\ UNCHANGED <<peer, rcvd, mem, size_, closed_>>
  BY DEF BlockFilled
<1>2. TypeOK' /\ WindowHolds'
  BY <1>1 DEF IInv, TypeOK, WindowHolds, Return, peer, mem
<1>. QED  BY <1>1, <1>2, ReturnShape DEF IInv, mem

LEMMA RecvBlockIInv == IInv /\ RecvBlock => IInv'
<1>. SUFFICES ASSUME IInv, RecvBlock
              PROVE  IInv'
  OBVIOUS
<1>1. PICK n \in 1 .. need - Len(value) :
        /\ rcvd + n =< Len(sent)
        /\ value' = value \o SubSeq(sent, rcvd + 1, rcvd + n)
        /\ rcvd' = rcvd + n
  BY DEF RecvBlock
<1>2. /\ pc = "fill" /\ Len(value) < need
      /\ UNCHANGED <<peer, mem, size_, closed_, pc, call, searched, ret>>
  BY DEF RecvBlock, WantsData
<1>3. /\ n \in Nat \ {0} /\ size_ = 0 /\ Len(value) \in Nat /\ Len(value) =< rcvd
      /\ rcvd \in Nat /\ value \in Seq(Byte) /\ sent \in Seq(Byte) /\ need \in Nat
  BY <1>1, <1>2 DEF IInv, TypeOK, BlockHolds
<1>4. LET new == SubSeq(sent, rcvd + 1, rcvd + n)
      IN  /\ new \in Seq(Byte) /\ Len(new) = n
          /\ \A i \in 1 .. n : new[i] = sent[rcvd + i]
  BY <1>1, <1>3
<1>5. /\ value' \in Seq(Byte) /\ Len(value') = Len(value) + n
      /\ \A i \in 1 .. Len(value) : value'[i] = value[i]
      /\ \A i \in 1 .. n : value'[Len(value) + i] = sent[rcvd + i]
  BY <1>1, <1>3, <1>4
<1>6. TypeOK'
  BY <1>1, <1>2, <1>3, <1>5 DEF IInv, TypeOK, peer, call, mem
<1>7. WindowHolds'
  BY <1>1, <1>2, <1>3 DEF IInv, TypeOK, WindowHolds, peer, mem
<1>8. BlockHolds'
  <2>1. ASSUME NEW i \in 1 .. Len(value) + n
        PROVE  value'[i] = sent[rcvd - Len(value) + i]
    <3>1. CASE i =< Len(value)
      <4>1. value[i] = sent[rcvd - size_ - Len(value) + i]
        BY <1>2, <1>3, <3>1 DEF IInv, BlockHolds
      <4>. QED  BY <1>3, <1>5, <3>1, <4>1
    <3>2. CASE i > Len(value)
      <4>1. i - Len(value) \in 1 .. n
        BY <1>3, <3>2
      <4>2. value'[Len(value) + (i - Len(value))] = sent[rcvd + (i - Len(value))]
        BY <1>5, <4>1
      <4>. QED  BY <1>3, <4>2
    <3>. QED  BY <1>3, <3>1, <3>2
  <2>2. rcvd' - size_' - Len(value') = rcvd - Len(value)
    BY <1>1, <1>2, <1>3, <1>5
  <2>3. size_' = 0 /\ rcvd' = rcvd + n /\ sent' = sent /\ need' = need
    BY <1>1, <1>2, <1>3 DEF peer, call
  <2>4. Len(value') =< need' /\ size_' + Len(value') =< rcvd'
    <3>1. n =< need - Len(value)
      BY <1>1, <1>2, <1>3
    <3>2. Len(value) + n =< need /\ 0 + (Len(value) + n) =< rcvd + n
      BY <1>3, <3>1
    <3>. QED  BY <1>3, <1>5, <2>3, <3>2
  <2>5. \A i \in 1 .. Len(value') : value'[i] = sent'[rcvd' - size_' - Len(value') + i]
    BY <1>5, <2>1, <2>2, <2>3
  <2>. QED  BY <2>3, <2>4, <2>5 DEF BlockHolds
<1>9. RecvHasRoom' /\ SkippedHasNoEnd' /\ CallShape' /\ BlockShape'
  BY <1>2 DEF IInv, RecvHasRoom, SkippedHasNoEnd, CallShape, BlockShape, mem, call, UntilOps,
              ExactOps
<1>. QED  BY <1>6, <1>7, <1>8, <1>9 DEF IInv

LEMMA MakeRoomMoves == IInv /\ MakeRoom => Moved /\ Room' > 0
<1>. SUFFICES ASSUME IInv, MakeRoom
              PROVE  Moved /\ Room' > 0
  OBVIOUS
<1>1. size_' = size_
  BY DEF MakeRoom
<1>2. CASE Room >= LowWater /\ UNCHANGED mem
  BY <1>1, <1>2, SizeAssumption DEF Moved, mem, Room, IInv, TypeOK
<1>3. CASE Room < LowWater /\ cursor_ >= LowWater /\ Compact
  BY <1>1, <1>3, SizeAssumption DEF Moved, Compact, Room, IInv, TypeOK, WindowHolds
<1>4. CASE Room < LowWater /\ cursor_ < LowWater /\ size_ < MaxCap /\ Reallocate(Doubled)
  <2>1. Doubled \in 1 .. MaxCap /\ size_ < Doubled
    BY <1>4, SizeAssumption DEF Doubled, IInv, TypeOK, WindowHolds
  <2>. QED  BY <1>1, <1>4, <2>1 DEF Moved, Reallocate, Room, IInv, TypeOK
<1>. QED  BY <1>2, <1>3, <1>4 DEF MakeRoom

LEMMA MakeRoomIInv == IInv /\ MakeRoom => IInv'
<1>. SUFFICES ASSUME IInv, MakeRoom
              PROVE  IInv'
  OBVIOUS
<1>1. /\ UNCHANGED <<peer, rcvd, size_, closed_, call, ret, value>>
      /\ searched' = size_ /\ pc' = "recv" /\ op \in UntilOps
  BY DEF MakeRoom, IInv, CallShape
<1>2. Moved /\ Room' > 0
  BY MakeRoomMoves
<1>3. WindowHolds'
  BY <1>1, <1>2, MovedHolds DEF IInv
<1>4. TypeOK'
  BY <1>1, <1>2, MovedWindow DEF IInv, TypeOK, peer, call
<1>5. RecvHasRoom'
  BY <1>1, <1>2 DEF RecvHasRoom, call, UntilOps, ExactOps
<1>6. SkippedHasNoEnd'
  <2>1. \A i \in 0 .. size_ - 1 : buf[cursor_ + i] # EndChar(op)
    <3>. SUFFICES ASSUME NEW i \in 0 .. size_ - 1
                  PROVE  buf[cursor_ + i] # EndChar(op)
      OBVIOUS
    <3>1. CASE i < searched
      <4>1. i \in 0 .. searched - 1
        BY <3>1 DEF IInv, TypeOK
      <4>2. \A j \in 0 .. searched - 1 : buf[cursor_ + j] # EndChar(op)
        BY DEF MakeRoom, IInv, SkippedHasNoEnd, CallShape
      <4>. QED  BY <4>1, <4>2
    <3>2. CASE i >= searched
      <4>1. cursor_ + i \in cursor_ + searched .. cursor_ + size_ - 1
        BY <3>2 DEF IInv, TypeOK
      <4>2. NotFound
        BY DEF MakeRoom
      <4>. QED  BY <4>1, <4>2 DEF NotFound
    <3>. QED  BY <3>1, <3>2 DEF IInv, TypeOK
  <2>2. \A i \in 0 .. size_ - 1 : buf'[cursor_' + i] = buf[cursor_ + i]
    BY <1>2, MovedWindow DEF IInv
  <2>3. searched' = size_ /\ size_' = size_ /\ op' = op
    BY <1>1 DEF call
  <2>. QED  BY <2>1, <2>2, <2>3 DEF SkippedHasNoEnd, EndChar, IInv, TypeOK
<1>7. CallShape'
  BY <1>1 DEF IInv, CallShape, call, UntilOps
<1>8. BlockHolds' /\ BlockShape'
  <2>1. capacity_' >= capacity_ /\ capacity_' \in Nat
    BY <1>2, MovedCapacity, MovedWindow DEF IInv
  <2>2. pc = "scan"
    BY DEF MakeRoom
  <2>. QED  BY <1>1, <2>1, <2>2, NoBlockHolds, SizeAssumption DEF IInv, TypeOK, BlockShape
<1>. QED  BY <1>3, <1>4, <1>5, <1>6, <1>7, <1>8 DEF IInv

LEMMA PrepareBytesIInv == IInv /\ PrepareBytes => IInv'
<1>. SUFFICES ASSUME IInv, PrepareBytes
              PROVE  IInv'
  OBVIOUS
<1>1. /\ UNCHANGED <<peer, rcvd, size_, closed_, call, searched, ret, value>>
      /\ pc' = "recv" /\ op \in ExactOps /\ need \in Nat
  BY DEF PrepareBytes, IInv, CallShape, TypeOK
<1>2. Moved /\ cursor_' + need =< capacity_'
  <2>1. CASE size_ >= need /\ UNCHANGED mem
    BY <1>1, <2>1 DEF Moved, mem, IInv, TypeOK, WindowHolds
  <2>2. CASE size_ < need /\ capacity_ < need /\ need =< MaxCap /\ Reallocate(need)
    BY <1>1, <2>2, SizeAssumption DEF Moved, Reallocate, IInv, TypeOK, WindowHolds
  <2>3. CASE size_ < need /\ capacity_ >= need /\ capacity_ - cursor_ < need /\ Compact
    BY <1>1, <2>3 DEF Moved, Compact, IInv, TypeOK, WindowHolds
  <2>4. CASE size_ < need /\ capacity_ >= need /\ capacity_ - cursor_ >= need /\ UNCHANGED mem
    BY <1>1, <2>4 DEF Moved, mem, IInv, TypeOK, WindowHolds
  <2>. QED  BY <2>1, <2>2, <2>3, <2>4 DEF PrepareBytes
<1>3. WindowHolds'
  BY <1>1, <1>2, MovedHolds DEF IInv
<1>4. TypeOK'
  BY <1>1, <1>2, MovedWindow DEF IInv, TypeOK, peer, call
<1>5. RecvHasRoom' /\ SkippedHasNoEnd' /\ CallShape'
  BY <1>1, <1>2 DEF IInv, RecvHasRoom, SkippedHasNoEnd, CallShape, call, UntilOps, ExactOps
<1>6. BlockHolds' /\ BlockShape'
  <2>1. capacity_' >= capacity_ /\ capacity_' \in Nat
    BY <1>2, MovedCapacity, MovedWindow DEF IInv
  <2>2. pc = "prepare"
    BY DEF PrepareBytes
  <2>. QED  BY <1>1, <2>1, <2>2, NoBlockHolds, SizeAssumption DEF IInv, TypeOK, BlockShape
<1>. QED  BY <1>3, <1>4, <1>5, <1>6 DEF IInv

LEMMA RecvIInv == IInv /\ Recv => IInv'
<1>. SUFFICES ASSUME IInv, Recv
              PROVE  IInv'
  OBVIOUS
<1>1. PICK n \in 1 .. Room :
        /\ rcvd + n =< Len(sent)
        /\ buf' = [i \in 0 .. capacity_ - 1 |->
                     IF i \in cursor_ + size_ .. cursor_ + size_ + n - 1
                     THEN sent[rcvd + 1 + i - (cursor_ + size_)] ELSE buf[i]]
        /\ size_' = size_ + n
        /\ rcvd' = rcvd + n
  BY DEF Recv
<1>2. /\ UNCHANGED <<peer, capacity_, cursor_, closed_, call, searched, ret, value>>
      /\ pc' = IF op \in ExactOps THEN "recv" ELSE "scan"
      /\ pc = "recv" /\ op \in UntilOps \cup ExactOps
  BY DEF Recv, WantsData, IInv, CallShape
<1>3. n \in Nat /\ cursor_ + size_ + n =< capacity_
  BY <1>1 DEF Room, IInv, TypeOK, WindowHolds
<1>4. TypeOK'
  <2>1. \A i \in cursor_ + size_ .. cursor_ + size_ + n - 1 :
          sent[rcvd + 1 + i - (cursor_ + size_)] \in Byte
    <3>. SUFFICES ASSUME NEW i \in cursor_ + size_ .. cursor_ + size_ + n - 1
                  PROVE  rcvd + 1 + i - (cursor_ + size_) \in 1 .. Len(sent)
      BY DEF IInv, TypeOK
    <3>. QED  BY <1>1, <1>3 DEF IInv, TypeOK
  <2>2. buf' \in [0 .. capacity_ - 1 -> Byte \cup {Junk}]
    BY <1>1, <2>1 DEF IInv, TypeOK
  <2>. QED  BY <1>1, <1>2, <1>3, <2>2 DEF IInv, TypeOK, peer, call
<1>5. WindowHolds'
  <2>1. ASSUME NEW i \in 0 .. size_ + n - 1
        PROVE  buf'[cursor_ + i] = sent[rcvd - size_ + 1 + i]
    <3>1. cursor_ + i \in 0 .. capacity_ - 1
      BY <1>3 DEF IInv, TypeOK
    <3>2. CASE i < size_
      <4>1. cursor_ + i \notin cursor_ + size_ .. cursor_ + size_ + n - 1
        BY <3>2 DEF IInv, TypeOK
      <4>2. buf[cursor_ + i] = sent[rcvd - size_ + 1 + i]
        <5>1. i \in 0 .. size_ - 1
          BY <3>2 DEF IInv, TypeOK
        <5>. QED  BY <5>1 DEF IInv, WindowHolds
      <4>. QED  BY <1>1, <3>1, <4>1, <4>2
    <3>3. CASE i >= size_
      <4>1. cursor_ + i \in cursor_ + size_ .. cursor_ + size_ + n - 1
        BY <1>3, <3>3 DEF IInv, TypeOK
      <4>2. rcvd + 1 + (cursor_ + i) - (cursor_ + size_) = rcvd - size_ + 1 + i
        BY DEF IInv, TypeOK
      <4>3. buf'[cursor_ + i] = sent[rcvd + 1 + (cursor_ + i) - (cursor_ + size_)]
        BY <1>1, <3>1, <4>1
      <4>. QED  BY <4>2, <4>3
    <3>. QED  BY <3>2, <3>3 DEF IInv, TypeOK
  <2>2. rcvd' - size_' = rcvd - size_
    BY <1>1, <1>3 DEF IInv, TypeOK
  <2>3. \A i \in 0 .. size_' - 1 : buf'[cursor_' + i] = sent'[rcvd' - size_' + 1 + i]
    <3>1. size_' = size_ + n /\ cursor_' = cursor_ /\ sent' = sent
      BY <1>1, <1>2 DEF peer
    <3>. SUFFICES ASSUME NEW i \in 0 .. size_ + n - 1
                  PROVE  buf'[cursor_ + i] = sent[rcvd' - size_' + 1 + i]
      BY <3>1, <1>3 DEF IInv, TypeOK
    <3>2. rcvd' - size_' + 1 + i = rcvd - size_ + 1 + i
      BY <1>1, <1>3 DEF IInv, TypeOK
    <3>. QED  BY <2>1, <3>2
  <2>4. cursor_' + size_' =< capacity_' /\ size_' =< rcvd' /\ rcvd' =< Len(sent')
    BY <1>1, <1>2, <1>3 DEF IInv, TypeOK, WindowHolds, peer
  <2>. QED  BY <2>3, <2>4 DEF WindowHolds
<1>6. RecvHasRoom'
  BY <1>2 DEF IInv, RecvHasRoom, call, UntilOps, ExactOps
<1>7. SkippedHasNoEnd'
  <2>. SUFFICES ASSUME op \in UntilOps
                PROVE  /\ searched =< size_ + n
                       /\ \A i \in 0 .. searched - 1 : buf'[cursor_ + i] # EndChar(op)
    BY <1>1, <1>2 DEF SkippedHasNoEnd, call, EndChar
  <2>1. searched =< size_ /\ \A i \in 0 .. searched - 1 : buf[cursor_ + i] # EndChar(op)
    BY <1>2 DEF IInv, SkippedHasNoEnd
  <2>2. \A i \in 0 .. searched - 1 :
          /\ cursor_ + i \in 0 .. capacity_ - 1
          /\ cursor_ + i \notin cursor_ + size_ .. cursor_ + size_ + n - 1
    BY <1>3, <2>1 DEF IInv, TypeOK
  <2>3. \A i \in 0 .. searched - 1 : buf'[cursor_ + i] = buf[cursor_ + i]
    BY <1>1, <2>2
  <2>4. searched =< size_ + n
    BY <1>3, <2>1 DEF IInv, TypeOK
  <2>. QED  BY <2>1, <2>3, <2>4
<1>8. CallShape'
  BY <1>2 DEF IInv, CallShape, TypeOK, call, UntilOps, ExactOps
<1>9. BlockHolds' /\ BlockShape'
  BY <1>2, NoBlockHolds DEF IInv, BlockShape
<1>. QED  BY <1>4, <1>5, <1>6, <1>7, <1>8, <1>9 DEF IInv

-----------------------------------------------------------------------------
(* The theorems.                                                           *)

LEMMA NextIInv == IInv /\ [Next]_vars => IInv'
<1>. SUFFICES ASSUME IInv, [Next]_vars
              PROVE  IInv'
  OBVIOUS
<1>1. CASE Arrive  BY <1>1, ArriveIInv
<1>2. CASE Hangup  BY <1>2, HangupIInv
<1>3. CASE ReadUntil \/ ReadBytes \/ ReadBlock  BY <1>3, CallIInv
<1>4. CASE Close  BY <1>4, CloseIInv
<1>5. CASE TakeLine  BY <1>5, TakeLineIInv
<1>6. CASE MakeRoom  BY <1>6, MakeRoomIInv
<1>7. CASE LineTooLarge  BY <1>7, FailIInv DEF LineTooLarge
<1>8. CASE PrepareBytes  BY <1>8, PrepareBytesIInv
<1>9. CASE BytesTooLarge  BY <1>9, FailIInv DEF BytesTooLarge
<1>10. CASE TakeBytes  BY <1>10, TakeBytesIInv
<1>11. CASE UnitTooLarge  BY <1>11, FailIInv DEF UnitTooLarge
<1>12. CASE TakeBuffered  BY <1>12, TakeBufferedIInv
<1>13. CASE BlockFilled  BY <1>13, BlockFilledIInv
<1>14. CASE Recv  BY <1>14, RecvIInv
<1>15. CASE RecvBlock  BY <1>15, RecvBlockIInv
<1>16. CASE RecvZero  BY <1>16, FailIInv DEF RecvZero, WantsData
<1>17. CASE RecvNothing  BY <1>17, FailIInv DEF RecvNothing, WantsData
<1>18. CASE RecvError  BY <1>18, FailIInv DEF RecvError, WantsData
<1>19. CASE UNCHANGED vars
  BY <1>19 DEF IInv, vars, TypeOK, WindowHolds, RecvHasRoom, SkippedHasNoEnd, BlockHolds,
               CallShape, BlockShape, Room, EndChar
<1>. QED  BY <1>1, <1>2, <1>3, <1>4, <1>5, <1>6, <1>7, <1>8, <1>9, <1>10, <1>11, <1>12,
             <1>13, <1>14, <1>15, <1>16, <1>17, <1>18, <1>19 DEF Next, Reader

LEMMA SpecIInv == Spec => []IInv
BY InitIInv, NextIInv, PTL DEF Spec

\* Every variable stays in its domain; in particular the buffer never
\* outgrows MAX_CAPACITY, whatever line or length the peer makes it hold.
THEOREM TypeCorrect == Spec => []TypeOK
BY SpecIInv, PTL DEF IInv

\* The unread part of the buffer is the unread part of the stream.
THEOREM WindowCorrect == Spec => []WindowHolds
BY SpecIInv, PTL DEF IInv

\* No recv() has length 0, so DISCONNECTED is never reported for want of room.
THEOREM RoomForRecv == Spec => []RecvHasRoom
BY SpecIInv, PTL DEF IInv

\* The part of the line a search skips holds no terminator.
THEOREM SkippedCorrect == Spec => []SkippedHasNoEnd
BY SpecIInv, PTL DEF IInv

\* What a block read holds is the stream, and putting a unit back loses nothing.
THEOREM BlockCorrect == Spec => []BlockHolds
BY SpecIInv, PTL DEF IInv

-----------------------------------------------------------------------------
(* InputStream implements ByteStream: every step of the buffer is a step   *)
(* of the stream it promises, or none.                                     *)

\* A recv() for a line is made only when all of the window was searched, so
\* that its failure reports the want of a terminator and not of a search.
SearchedAll == pc = "recv" /\ op \in UntilOps => searched = size_

RInv == IInv /\ SearchedAll

LEMMA InitRInv == Init => RInv
BY InitIInv DEF Init, RInv, SearchedAll

LEMMA NextRInv == RInv /\ [Next]_vars => RInv'
<1>. SUFFICES ASSUME RInv, [Next]_vars
              PROVE  SearchedAll'
  BY NextIInv DEF RInv
<1>. USE DEF RInv, SearchedAll
<1>1. CASE Arrive \/ Hangup \/ Close
  BY <1>1 DEF Arrive, Hangup, Close, mem, call
<1>2. CASE ReadUntil \/ ReadBytes \/ ReadBlock
  BY <1>2, CallStarts DEF Call
<1>3. CASE MakeRoom
  BY <1>3 DEF MakeRoom
<1>4. CASE PrepareBytes
  BY <1>4 DEF PrepareBytes, IInv, CallShape, call, UntilOps, ExactOps
<1>5. CASE Recv
  BY <1>5 DEF Recv, WantsData, IInv, CallShape, call, UntilOps, ExactOps
<1>6. CASE TakeBuffered \/ RecvBlock
  BY <1>6 DEF TakeBuffered, RecvBlock
<1>7. CASE \/ TakeLine \/ LineTooLarge \/ BytesTooLarge \/ TakeBytes \/ UnitTooLarge
           \/ BlockFilled \/ RecvZero \/ RecvNothing \/ RecvError
  BY <1>7 DEF TakeLine, LineTooLarge, BytesTooLarge, TakeBytes, UnitTooLarge, BlockFilled,
              RecvZero, RecvNothing, RecvError, Fail, Return
<1>8. CASE UNCHANGED vars
  BY <1>8 DEF vars
<1>. QED  BY <1>1, <1>2, <1>3, <1>4, <1>5, <1>6, <1>7, <1>8 DEF Next, Reader

-----------------------------------------------------------------------------
(* Where the reader of the abstract stream is.                             *)

Pos == rcvd - size_ - OnItsWay

\* The position is in the stream, and what has been received and not delivered
\* is on its way or in the buffer.
LEMMA PosInStream ==
  ASSUME IInv
  PROVE  /\ Pos \in 0 .. Len(sent) /\ OnItsWay \in Nat
         /\ Pos + OnItsWay + size_ = rcvd /\ rcvd =< Len(sent)
BY DEF Pos, OnItsWay, IInv, TypeOK, WindowHolds, BlockHolds

\* The end of the window is searched: no terminator among the first n bytes.
LEMMA NoEndBefore ==
  ASSUME IInv, op \in UntilOps, pc \in {"scan", "recv"}, NEW n \in 0 .. size_,
         \A i \in 0 .. n - 1 : buf[cursor_ + i] # EndChar(op)
  PROVE  \A k \in Promise!Ends : k > Pos + n
<1>. SUFFICES ASSUME NEW k \in Promise!Ends, k =< Pos + n
              PROVE  FALSE
  BY PosInStream DEF Promise!Ends, Promise!Pending, Pos
<1>1. /\ k \in Pos + 1 .. Len(sent) /\ sent[k] = EndChar(op)
  BY DEF Promise!Ends, Promise!Pending, Promise!EndChar, EndChar, Pos
<1>2. Pos = rcvd - size_
  BY DEF Pos, OnItsWay, IInv, TypeOK
<1>. DEFINE i == k - Pos - 1
<1>3. i \in 0 .. n - 1 /\ i \in 0 .. size_ - 1 /\ rcvd - size_ + 1 + i = k
  BY <1>1, <1>2 DEF IInv, TypeOK, WindowHolds
<1>4. buf[cursor_ + i] = sent[rcvd - size_ + 1 + i]
  BY <1>3 DEF IInv, WindowHolds
<1>. QED  BY <1>1, <1>3, <1>4
-----------------------------------------------------------------------------
(* Steps the abstract stream takes too.                                    *)

LEMMA ArriveMaps == IInv /\ Arrive => Promise!Arrive
BY DEF Arrive, Promise!Arrive, OnItsWay, mem, call

LEMMA HangupMaps == IInv /\ Hangup => Promise!Hangup
BY DEF Hangup, Promise!Hangup, OnItsWay, mem, call

LEMMA CloseMaps == IInv /\ Close => Promise!Close
BY DEF IInv, CallShape, Close, Promise!Close, OnItsWay, peer, mem, call

LEMMA CallMaps ==
  ASSUME IInv, NEW o, NEW n, NEW u, NEW start \in {"scan", "prepare", "block"},
         Call(o, n, u, start)
  PROVE  Promise!Call(o, n, u)
BY DEF IInv, TypeOK, CallShape, Call, Promise!Call, OnItsWay, peer, mem

LEMMA ReadCallMaps == IInv /\ (ReadUntil \/ ReadBytes \/ ReadBlock) => Promise!Next
<1>. SUFFICES ASSUME IInv, ReadUntil \/ ReadBytes \/ ReadBlock
              PROVE  Promise!Next
  OBVIOUS
<1>1. CASE ReadUntil
  <2>1. PICK o \in UntilOps \cap Calls : Call(o, 0, 1, "scan")
    BY <1>1 DEF ReadUntil
  <2>2. Promise!Call(o, 0, 1)
    BY <2>1, CallMaps
  <2>. QED  BY <2>1, <2>2 DEF Promise!Next, UntilOps, Promise!UntilOps
<1>2. CASE ReadBytes
  <2>1. PICK o \in ExactOps \cap Calls, n \in Lengths : Call(o, n, 1, "prepare")
    BY <1>2 DEF ReadBytes
  <2>2. Promise!Call(o, n, 1)
    BY <2>1, CallMaps
  <2>. QED  BY <2>1, <2>2 DEF Promise!Next, ExactOps, Promise!ExactOps
<1>3. CASE ReadBlock
  <2>1. PICK b \in Blocks : Call("readBlock", b[1] * b[2], b[1], "block")
    BY <1>3 DEF ReadBlock
  <2>2. Promise!Call("readBlock", b[1] * b[2], b[1])
    BY <2>1, CallMaps
  <2>. QED  BY <2>1, <2>2 DEF Promise!Next
<1>. QED  BY <1>1, <1>2, <1>3

-----------------------------------------------------------------------------
(* Steps it does not see: bytes move between the kernel, the buffer and the *)
(* caller's memory, none of them is delivered.                             *)

LEMMA RearrangeHidden == IInv /\ (MakeRoom \/ PrepareBytes) => UNCHANGED Promise!vars
BY DEF MakeRoom, PrepareBytes, Promise!vars, OnItsWay, peer, call

LEMMA RecvHidden == IInv /\ Recv => UNCHANGED Promise!vars
<1>. SUFFICES ASSUME IInv, Recv
              PROVE  UNCHANGED Promise!vars
  OBVIOUS
<1>1. PICK n \in 1 .. Room : size_' = size_ + n /\ rcvd' = rcvd + n
  BY DEF Recv
<1>2. /\ UNCHANGED <<peer, closed_, call, ret, value>>
      /\ pc = "recv" /\ pc' # "fill"
  BY DEF Recv
<1>3. n \in Nat /\ rcvd \in Nat /\ size_ \in Nat
  BY DEF Room, IInv, TypeOK
<1>4. rcvd' - size_' = rcvd - size_
  BY <1>1, <1>3
<1>. QED  BY <1>2, <1>4 DEF Promise!vars, OnItsWay, peer, call

LEMMA TakeBufferedHidden == IInv /\ TakeBuffered => UNCHANGED Promise!vars
<1>. SUFFICES ASSUME IInv, TakeBuffered
              PROVE  UNCHANGED Promise!vars
  OBVIOUS
<1>. DEFINE count == IF size_ < need THEN size_ ELSE need
<1>1. /\ pc = "block" /\ pc' = "fill" /\ value = <<>>
      /\ value' = Bytes(cursor_, cursor_ + count) /\ size_' = size_ - count
      /\ UNCHANGED <<peer, rcvd, closed_, call, ret>>
  BY DEF TakeBuffered, IInv, BlockShape
<1>2. count \in 0 .. size_ /\ size_ \in Nat /\ rcvd \in Nat /\ cursor_ \in Nat
  BY DEF IInv, TypeOK
<1>. HIDE DEF count
<1>3. Len(value') = count
  BY <1>1, <1>2 DEF Bytes
<1>4. rcvd' - size_' - Len(value') = rcvd - size_ - 0
  BY <1>1, <1>2, <1>3
<1>. QED  BY <1>1, <1>4 DEF Promise!vars, OnItsWay, peer, call

LEMMA RecvBlockHidden == IInv /\ RecvBlock => UNCHANGED Promise!vars
<1>. SUFFICES ASSUME IInv, RecvBlock
              PROVE  UNCHANGED Promise!vars
  OBVIOUS
<1>1. PICK n \in 1 .. need - Len(value) :
        /\ rcvd + n =< Len(sent)
        /\ value' = value \o SubSeq(sent, rcvd + 1, rcvd + n)
        /\ rcvd' = rcvd + n
  BY DEF RecvBlock
<1>2. pc = "fill" /\ UNCHANGED <<peer, mem, size_, closed_, pc, call, ret>>
  BY DEF RecvBlock
<1>3. /\ n \in Nat /\ rcvd \in Nat /\ size_ \in Nat /\ Len(value) \in Nat
      /\ value \in Seq(Byte) /\ sent \in Seq(Byte)
  BY DEF IInv, TypeOK
<1>4. SubSeq(sent, rcvd + 1, rcvd + n) \in Seq(Byte) /\ Len(SubSeq(sent, rcvd + 1, rcvd + n)) = n
  BY <1>1, <1>3
<1>5. Len(value') = Len(value) + n
  BY <1>1, <1>3, <1>4
<1>6. rcvd' - size_' - Len(value') = rcvd - size_ - Len(value)
  BY <1>1, <1>2, <1>3, <1>5
<1>. QED  BY <1>2, <1>6 DEF Promise!vars, OnItsWay, peer, call

-----------------------------------------------------------------------------
(* Calls that return.                                                      *)

\* The bytes taken off the window are those behind the position.
LEMMA TakenAtPos ==
  ASSUME IInv, pc # "fill", NEW n \in 0 .. size_
  PROVE  /\ Pos = rcvd - size_ /\ Pos + n =< Len(sent)
         /\ Bytes(cursor_, cursor_ + n) = SubSeq(sent, Pos + 1, Pos + n)
<1>1. Pos = rcvd - size_ /\ Pos + n =< Len(sent)
  BY DEF Pos, OnItsWay, IInv, TypeOK, WindowHolds
<1>2. Bytes(cursor_, cursor_ + n) = SubSeq(sent, rcvd - size_ + 1, rcvd - size_ + n)
  BY BytesAreNext DEF IInv
<1>. QED  BY <1>1, <1>2

\* A call that returns has nothing on its way any more.
LEMMA ReturnMaps ==
  ASSUME NEW code, NEW v, Return(code, v), rcvd' \in Nat, size_' \in Nat,
         UNCHANGED <<peer, closed_>>
  PROVE  Promise!Return(code, v, rcvd' - size_')
<1>1. pc' = "idle" /\ OnItsWay' = 0
  BY DEF Return, OnItsWay
<1>2. rcvd' - size_' - OnItsWay' = rcvd' - size_'
  BY <1>1
<1>. QED  BY <1>1, <1>2 DEF Return, Promise!Return, peer

\* The line in the buffer without its '\r' is the line in the stream without it.
LEMMA LineWithoutCR ==
  ASSUME IInv, pc = "scan", NEW n \in 0 .. size_ - 1
  PROVE  Bytes(cursor_, LineEnd(cursor_ + n)) = Promise!Chop(SubSeq(sent, Pos + 1, Pos + n))
<1>. DEFINE s == Bytes(cursor_, cursor_ + n)
<1>1. n \in 0 .. size_ /\ n \in Nat /\ size_ \in Nat /\ cursor_ \in Nat
  BY DEF IInv, TypeOK
<1>2. s = SubSeq(sent, Pos + 1, Pos + n) /\ s \in Seq(Byte)
  BY <1>1, TakenAtPos, BytesAreNext DEF IInv
<1>3. s = [i \in 1 .. n |-> buf[cursor_ + i - 1]] /\ Len(s) = n
  BY <1>1 DEF Bytes
<1>. HIDE DEF s
<1>4. CASE n > 0 /\ s[n] = CR
  <2>1. buf[cursor_ + n - 1] = CR
    BY <1>1, <1>3, <1>4
  <2>2. LineEnd(cursor_ + n) = cursor_ + (n - 1)
    BY <1>1, <1>4, <2>1 DEF LineEnd
  <2>3. Bytes(cursor_, cursor_ + (n - 1)) = [i \in 1 .. n - 1 |-> buf[cursor_ + i - 1]]
    BY <1>1 DEF Bytes
  <2>4. SubSeq(s, 1, n - 1) = [i \in 1 .. n - 1 |-> s[i]]
    BY <1>1, <1>2, <1>3, <1>4
  <2>5. \A i \in 1 .. n - 1 : s[i] = buf[cursor_ + i - 1]
    BY <1>1, <1>3
  <2>6. Promise!Chop(s) = SubSeq(s, 1, n - 1)
    <3>1. Len(s) # 0 => s # <<>>
      OBVIOUS
    <3>2. s # <<>> /\ s[Len(s)] = CR
      BY <1>1, <1>3, <1>4, <3>1
    <3>. QED  BY <1>3, <3>2 DEF Promise!Chop
  <2>. QED  BY <1>2, <2>2, <2>3, <2>4, <2>5, <2>6
<1>5. CASE n = 0
  <2>1. LineEnd(cursor_ + n) = cursor_ + n
    BY <1>1, <1>5 DEF LineEnd
  <2>2. s = <<>>
    BY <1>2, <1>3, <1>5
  <2>. QED  BY <1>2, <2>1, <2>2 DEF Promise!Chop, s
<1>6. CASE n > 0 /\ s[n] # CR
  <2>1. buf[cursor_ + n - 1] # CR
    BY <1>1, <1>3, <1>6
  <2>2. LineEnd(cursor_ + n) = cursor_ + n
    BY <1>1, <2>1 DEF LineEnd
  <2>3. Promise!Chop(s) = s
    BY <1>3, <1>6 DEF Promise!Chop
  <2>. QED  BY <1>2, <2>2, <2>3 DEF s
<1>. QED  BY <1>1, <1>4, <1>5, <1>6

\* The terminator found is the first one behind the position.
LEMMA TakeLineMaps == IInv /\ TakeLine => Promise!ReturnLine
<1>. SUFFICES ASSUME IInv, TakeLine
              PROVE  Promise!ReturnLine
  OBVIOUS
<1>1. PICK endPos \in cursor_ + searched .. cursor_ + size_ - 1 :
        /\ Found(endPos)
        /\ Consume(endPos - cursor_ + 1)
        /\ Return("OK", Bytes(cursor_, LineEnd(endPos)))
  BY DEF TakeLine
<1>2. UNCHANGED <<peer, rcvd, buf, capacity_, closed_>> /\ pc = "scan" /\ op \in UntilOps
  BY DEF TakeLine, IInv, CallShape
<1>. DEFINE n == endPos - cursor_
            k == Pos + n + 1
<1>3. /\ n \in 0 .. size_ - 1 /\ n >= searched /\ endPos = cursor_ + n
      /\ Pos = rcvd - size_ /\ Pos \in Nat /\ size_ \in Nat /\ rcvd \in Nat
      /\ Pos + size_ =< Len(sent)
  BY <1>1, <1>2 DEF IInv, TypeOK, WindowHolds, Pos, OnItsWay
<1>4. buf[cursor_ + n] = EndChar(op) /\ buf[cursor_ + n] = sent[k]
  BY <1>1, <1>3 DEF IInv, WindowHolds, Found
<1>5. k \in Promise!Ends
  BY <1>3, <1>4 DEF Promise!Ends, Promise!Pending, Promise!EndChar, EndChar, Pos
<1>6. \A j \in Promise!Ends : k =< j
  <2>1. \A i \in 0 .. n - 1 : buf[cursor_ + i] # EndChar(op)
    <3>. SUFFICES ASSUME NEW i \in 0 .. n - 1
                  PROVE  buf[cursor_ + i] # EndChar(op)
      OBVIOUS
    <3>1. CASE i < searched
      <4>1. i \in 0 .. searched - 1
        BY <3>1 DEF IInv, TypeOK
      <4>2. \A j \in 0 .. searched - 1 : buf[cursor_ + j] # EndChar(op)
        BY <1>2 DEF IInv, SkippedHasNoEnd
      <4>. QED  BY <4>1, <4>2
    <3>2. CASE i >= searched
      <4>1. cursor_ + i \in cursor_ + searched .. endPos - 1
        BY <1>3, <3>2 DEF IInv, TypeOK
      <4>. QED  BY <1>1, <4>1 DEF Found
    <3>. QED  BY <3>1, <3>2 DEF IInv, TypeOK
  <2>2. \A j \in Promise!Ends : j > Pos + n
    BY <1>2, <1>3, <2>1, NoEndBefore
  <2>. QED  BY <1>3, <2>2 DEF Promise!Ends, Promise!Pending
<1>7. k - Pos =< MaxCap
  BY <1>3, SizeAssumption DEF IInv, TypeOK, WindowHolds
<1>8. Bytes(cursor_, LineEnd(endPos)) = Promise!Chop(SubSeq(sent, Pos + 1, k - 1))
  <2>1. k - 1 = Pos + n
    BY <1>3
  <2>2. Bytes(cursor_, LineEnd(cursor_ + n)) = Promise!Chop(SubSeq(sent, Pos + 1, Pos + n))
    BY <1>2, <1>3, LineWithoutCR
  <2>. QED  BY <1>3, <2>1, <2>2
<1>9. rcvd' - size_' = IF op \in Peeks THEN Pos ELSE k
  BY <1>1, <1>2, <1>3 DEF Consume
<1>10. rcvd' \in Nat /\ size_' \in Nat
  BY <1>1, <1>2, <1>3 DEF Consume
<1>11. Promise!Return("OK", Bytes(cursor_, LineEnd(endPos)), rcvd' - size_')
  BY <1>1, <1>2, <1>10, ReturnMaps
<1>. HIDE DEF n, k
<1>12. Promise!Return("OK", Promise!Chop(SubSeq(sent, Pos + 1, k - 1)), IF op \in Peeks THEN Pos ELSE k)
  BY <1>8, <1>9, <1>11
<1>. QED  BY <1>2, <1>5, <1>6, <1>7, <1>12 DEF Promise!ReturnLine, UntilOps, Promise!UntilOps, Pos, Peeks, Promise!Peeks

-----------------------------------------------------------------------------
(* Whole units of a block.                                                 *)

\* Two multiples of u that are less than u apart are the same.
LEMMA MultiplesApart ==
  ASSUME NEW u \in Nat \ {0}, NEW a \in Int, NEW b \in Int,
         u * a - u * b < u, u * b - u * a < u
  PROVE  a = b
<1>1. CASE a > b
  <2>1. u * (a - b) >= u
    <3>1. a - b - 1 >= 0 /\ a - b - 1 \in Int
      BY <1>1
    <3>2. u * (a - b - 1) >= 0
      BY <3>1
    <3>. QED  BY <3>2
  <2>. QED  BY <2>1
<1>2. CASE b > a
  <2>1. u * (b - a) >= u
    <3>1. b - a - 1 >= 0 /\ b - a - 1 \in Int
      BY <1>2
    <3>2. u * (b - a - 1) >= 0
      BY <3>1
    <3>. QED  BY <3>2
  <2>. QED  BY <2>1
<1>. QED  BY <1>1, <1>2

\* What is left when the odd bytes are cut off is the largest multiple of u.
LEMMA WholeUnits ==
  ASSUME NEW n \in Nat, NEW u \in Nat \ {0}
  PROVE  /\ n - (n % u) \in 0 .. n /\ (n - (n % u)) % u = 0
         /\ \A m \in 0 .. n : m % u = 0 => m =< n - (n % u)
<1>1. n % u \in 0 .. u - 1 /\ n % u =< n
  BY LeftOver
<1>. DEFINE w == n - (n % u)
<1>2. w \in 0 .. n
  BY <1>1
<1>3. /\ n \div u \in Int /\ n = u * (n \div u) + (n % u) /\ w = u * (n \div u)
  OBVIOUS
<1>4. /\ w \div u \in Int /\ w % u \in 0 .. u - 1 /\ w = u * (w \div u) + (w % u)
  BY <1>2
<1>5. w % u = 0
  <2>1. /\ u * (n \div u) - u * (w \div u) < u
        /\ u * (w \div u) - u * (n \div u) < u
    <3>1. u * (n \div u) - u * (w \div u) = w % u
      BY <1>3, <1>4
    <3>. QED  BY <1>3, <1>4, <3>1
  <2>2. n \div u = w \div u
    BY <1>3, <1>4, <2>1, MultiplesApart
  <2>. QED  BY <1>3, <1>4, <2>2
<1>6. ASSUME NEW m \in 0 .. n, m % u = 0, m > w
      PROVE  FALSE
  <2>1. m = u * (m \div u) + (m % u) /\ m \div u \in Int
    OBVIOUS
  <2>2. m = u * (m \div u)
    BY <1>6, <2>1
  <2>3. m - w < u /\ w - m < u
    BY <1>1, <1>6
  <2>4. m \div u = n \div u
    BY <1>3, <2>1, <2>2, <2>3, MultiplesApart
  <2>. QED  BY <1>3, <1>6, <2>2, <2>4
<1>. QED  BY <1>2, <1>5, <1>6

-----------------------------------------------------------------------------
(* Calls that fail.                                                        *)

LEMMA NothingTaken ==
  ASSUME IInv, pc \notin {"idle", "fill"}
  PROVE  value = <<>> /\ Left = 0 /\ Whole = 0 /\ OnItsWay = 0
<1>1. value = <<>> /\ Len(value) = 0 /\ unit \in Nat \ {0}
  BY DEF IInv, TypeOK, BlockShape
<1>2. 0 % unit \in 0 .. unit - 1 /\ 0 % unit =< 0
  BY <1>1, LeftOver
<1>. QED  BY <1>1, <1>2 DEF Left, Whole, OnItsWay

LEMMA BlockTaken ==
  ASSUME IInv, pc = "fill", Len(value) < need
  PROVE  /\ size_ = 0 /\ Pos = rcvd - Len(value) /\ OnItsWay = Len(value)
         /\ value = SubSeq(sent, Pos + 1, Pos + Len(value))
<1>1. /\ size_ = 0 /\ Len(value) =< rcvd /\ rcvd =< Len(sent) /\ rcvd \in Nat /\ Len(value) \in Nat
      /\ value \in Seq(Byte) /\ sent \in Seq(Byte)
      /\ \A i \in 1 .. Len(value) : value[i] = sent[rcvd - size_ - Len(value) + i]
  BY DEF IInv, TypeOK, WindowHolds, BlockHolds
<1>2. Pos = rcvd - Len(value) /\ OnItsWay = Len(value)
  BY <1>1 DEF Pos, OnItsWay
<1>3. \A i \in 1 .. Len(value) : value[i] = sent[Pos + i]
  BY <1>1, <1>2
<1>4. Pos \in Nat /\ Pos + Len(value) =< Len(sent)
  BY <1>1, <1>2
<1>. HIDE DEF Pos
<1>5. SubSeq(sent, Pos + 1, Pos + Len(value)) = [i \in 1 .. Len(value) |-> sent[Pos + i]]
  BY <1>1, <1>4
<1>6. value = [i \in 1 .. Len(value) |-> value[i]]
  BY <1>1
<1>. QED  BY <1>1, <1>2, <1>3, <1>5, <1>6

LEMMA FrontOfPart ==
  ASSUME NEW s \in Seq(Byte), NEW p \in Nat, NEW n \in Nat, p + n =< Len(s), NEW w \in 0 .. n
  PROVE  SubSeq(SubSeq(s, p + 1, p + n), 1, w) = SubSeq(s, p + 1, p + w)
<1>1. SubSeq(s, p + 1, p + n) = [i \in 1 .. n |-> s[p + i]]
  OBVIOUS
<1>2. SubSeq([i \in 1 .. n |-> s[p + i]], 1, w) = [i \in 1 .. w |-> s[p + i]]
  OBVIOUS
<1>3. SubSeq(s, p + 1, p + w) = [i \in 1 .. w |-> s[p + i]]
  OBVIOUS
<1>. QED  BY <1>1, <1>2, <1>3

\* A failed call returns the whole units it has, and the position is behind them.
LEMMA FailMaps ==
  ASSUME IInv, NEW code, pc # "idle", pc = "fill" => Len(value) < need, Fail(code)
  PROVE  Whole \in Promise!Part /\ Promise!Fail(code, Whole)
<1>1. /\ Return(code, SubSeq(value, 1, Whole)) /\ PutBack
      /\ UNCHANGED <<peer, rcvd, capacity_, closed_>>
  BY DEF Fail
<1>2. size_' \in Nat /\ rcvd' \in Nat
  BY <1>1, PutBackHolds DEF IInv, TypeOK
<1>3. Promise!Return(code, SubSeq(value, 1, Whole), rcvd' - size_')
  BY <1>1, <1>2, ReturnMaps
<1>4. CASE pc # "fill"
  <2>1. value = <<>> /\ Left = 0 /\ Whole = 0 /\ OnItsWay = 0
    BY <1>4, NothingTaken
  <2>2. rcvd' - size_' = Pos + Whole /\ Pos \in Nat /\ Pos =< Len(sent)
    BY <1>1, <2>1, PosInStream DEF PutBack, Pos, IInv, TypeOK
  <2>3. SubSeq(value, 1, Whole) = <<>>
    BY <2>1
  <2>4. SubSeq(sent, Pos + 1, Pos + Whole) = <<>>
    BY <2>1, <2>2 DEF IInv, TypeOK
  <2>5. 0 \in Promise!Part
    <3>1. 0 % unit = 0 /\ need \in Nat
      BY <2>1 DEF Left, IInv, TypeOK
    <3>. QED  BY <2>2, <3>1 DEF Promise!Part, Pos, IInv, TypeOK
  <2>6. Promise!Return(code, SubSeq(sent, Pos + 1, Pos + Whole), Pos + Whole)
    BY <1>3, <2>2, <2>3, <2>4
  <2>. QED  BY <2>1, <2>5, <2>6 DEF Promise!Fail, Pos
<1>5. CASE pc = "fill"
  <2>1. /\ size_ = 0 /\ Pos = rcvd - Len(value) /\ Len(value) \in Nat /\ unit \in Nat \ {0}
        /\ value = SubSeq(sent, Pos + 1, Pos + Len(value)) /\ op = "readBlock" /\ need \in Nat
        /\ Pos \in Nat /\ rcvd \in Nat /\ rcvd =< Len(sent) /\ sent \in Seq(Byte)
    <3>1. /\ size_ = 0 /\ Pos = rcvd - Len(value)
          /\ value = SubSeq(sent, Pos + 1, Pos + Len(value))
      BY <1>5, BlockTaken
    <3>2. Pos \in Nat /\ rcvd =< Len(sent)
      BY PosInStream
    <3>3. op = "readBlock"
      BY <1>5 DEF IInv, CallShape
    <3>4. /\ Len(value) \in Nat /\ unit \in Nat \ {0} /\ need \in Nat /\ rcvd \in Nat
          /\ sent \in Seq(Byte)
      BY DEF IInv, TypeOK
    <3>. QED  BY <3>1, <3>2, <3>3, <3>4
  <2>2. Whole \in 0 .. Len(value) /\ Whole % unit = 0 /\ Left = Len(value) - Whole /\ Left \in Nat
    <3>1. Left \in Nat /\ Whole = Len(value) - (Len(value) % unit)
      BY <2>1, LeftOver DEF Whole, Left
    <3>2. Whole \in 0 .. Len(value) /\ Whole % unit = 0
      BY <2>1, <3>1, WholeUnits
    <3>. QED  BY <2>1, <3>1, <3>2 DEF Whole
  <2>3. rcvd' - size_' = Pos + Whole
    BY <1>1, <2>1, <2>2 DEF PutBack
  <2>4. SubSeq(value, 1, Whole) = SubSeq(sent, Pos + 1, Pos + Whole)
    <3>1. Pos + Len(value) =< Len(sent)
      BY <2>1
    <3>. QED  BY <2>1, <2>2, <3>1, FrontOfPart
  <2>5. Whole =< need /\ Whole \in 0 .. Len(sent) - Pos
    BY <1>5, <2>1, <2>2
  <2>6. Whole \in Promise!Part
    BY <2>1, <2>2, <2>5 DEF Promise!Part, Pos
  <2>7. Promise!Return(code, SubSeq(sent, Pos + 1, Pos + Whole), Pos + Whole)
    BY <1>3, <2>3, <2>4
  <2>. QED  BY <2>6, <2>7 DEF Promise!Fail, Pos
<1>. QED  BY <1>4, <1>5

\* With nothing left in the kernel the stream is too short for the call.
LEMMA NothingLeftShort ==
  ASSUME RInv, WantsData, rcvd = Len(sent)
  PROVE  Promise!Short
<1>. USE DEF RInv
<1>1. /\ rcvd \in Nat /\ size_ \in Nat /\ need \in Nat /\ Len(value) \in Nat
      /\ Pos + OnItsWay + size_ = rcvd /\ Pos \in Nat
  BY PosInStream DEF IInv, TypeOK
<1>2. CASE pc = "recv" /\ op \in UntilOps
  <2>1. searched = size_ /\ \A i \in 0 .. searched - 1 : buf[cursor_ + i] # EndChar(op)
    BY <1>2 DEF SearchedAll, IInv, SkippedHasNoEnd
  <2>2. \A k \in Promise!Ends : k > Pos + size_
    BY <1>1, <1>2, <2>1, NoEndBefore
  <2>3. Pos + size_ = Len(sent)
    BY <1>1, <1>2 DEF OnItsWay
  <2>4. \A k \in Promise!Ends : k \in Nat /\ k =< Len(sent)
    BY <1>1 DEF Promise!Ends, Promise!Pending, Pos
  <2>5. Promise!Ends = {}
    BY <1>1, <2>2, <2>3, <2>4
  <2>. QED  BY <1>2, <2>5 DEF Promise!Short, UntilOps, Promise!UntilOps
<1>3. CASE pc = "recv" /\ op \in ExactOps
  <2>1. size_ < need /\ OnItsWay = 0
    BY <1>3 DEF WantsData, OnItsWay
  <2>2. Pos + need > Len(sent)
    BY <1>1, <2>1
  <2>. QED  BY <1>3, <2>2 DEF Promise!Short, ExactOps, Promise!ExactOps, Pos
<1>4. CASE pc = "fill"
  <2>1. Len(value) < need /\ OnItsWay = Len(value) /\ op = "readBlock"
    BY <1>4 DEF WantsData, OnItsWay, IInv, CallShape
  <2>2. Pos + need > Len(sent)
    <3>1. size_ = 0
      BY <1>4, <2>1, BlockTaken
    <3>. QED  BY <1>1, <2>1, <3>1
  <2>. QED  BY <2>1, <2>2 DEF Promise!Short, Pos
<1>. QED  BY <1>2, <1>3, <1>4 DEF WantsData, IInv, CallShape

\* And the whole units of the block are as many as are here of the stream.
LEMMA NothingLeftHere ==
  ASSUME IInv, WantsData, rcvd = Len(sent), Whole \in Promise!Part
  PROVE  Whole \in Promise!Here
<1>. SUFFICES ASSUME NEW m \in Promise!Part
              PROVE  m =< Whole
  BY DEF Promise!Here
<1>1. CASE pc = "recv"
  <2>1. op # "readBlock" /\ Whole = 0
    BY <1>1, NothingTaken DEF IInv, CallShape
  <2>2. m = 0
    BY <2>1 DEF Promise!Part
  <2>. QED  BY <2>1, <2>2
<1>2. CASE pc = "fill" /\ Len(value) < need
  <2>1. op = "readBlock" /\ Pos = rcvd - Len(value)
    BY <1>2, BlockTaken DEF IInv, CallShape
  <2>2. Len(value) \in Nat /\ unit \in Nat \ {0} /\ rcvd \in Nat
    BY DEF IInv, TypeOK
  <2>3. m \in 0 .. Len(sent) - Pos /\ m % unit = 0
    BY <2>1 DEF Promise!Part, Pos
  <2>4. m \in 0 .. Len(value)
    BY <2>1, <2>2, <2>3
  <2>5. m =< Len(value) - (Len(value) % unit)
    BY <2>2, <2>3, <2>4, WholeUnits
  <2>. QED  BY <2>5 DEF Whole, Left
<1>. QED  BY <1>1, <1>2 DEF WantsData

LEMMA RecvFailsMaps ==
  ASSUME RInv, WantsData, NEW code, Fail(code)
  PROVE  /\ Whole \in Promise!Part /\ Promise!Fail(code, Whole)
         /\ rcvd = Len(sent) => Promise!Short /\ Whole \in Promise!Here
         /\ op # "none"
<1>1. pc # "idle" /\ (pc = "fill" => Len(value) < need)
  BY DEF WantsData
<1>2. Whole \in Promise!Part /\ Promise!Fail(code, Whole)
  BY <1>1, FailMaps DEF RInv
<1>3. rcvd = Len(sent) => Promise!Short /\ Whole \in Promise!Here
  BY <1>2, NothingLeftShort, NothingLeftHere DEF RInv
<1>. QED  BY <1>1, <1>2, <1>3 DEF RInv, IInv, CallShape

\* recv() is never without room, so a 0 is the end of the stream.
LEMMA RecvZeroMaps == RInv /\ RecvZero => Promise!ReturnEnd \/ Promise!ReturnLost
<1>. SUFFICES ASSUME RInv, RecvZero
              PROVE  Promise!ReturnEnd \/ Promise!ReturnLost
  OBVIOUS
<1>1. WantsData /\ Fail("DISCONNECTED")
  BY DEF RecvZero
<1>2. ~(pc = "recv" /\ Room = 0)
  BY <1>1 DEF WantsData, RInv, IInv, TypeOK, CallShape, RecvHasRoom, Room
<1>3. CASE conn = "fin" /\ rcvd = Len(sent)
  BY <1>1, <1>3, RecvFailsMaps DEF Promise!ReturnEnd
<1>4. CASE conn = "reset"
  BY <1>1, <1>4, RecvFailsMaps DEF Promise!ReturnLost
<1>. QED  BY <1>2, <1>3, <1>4 DEF RecvZero

LEMMA RecvNothingMaps == RInv /\ RecvNothing => Promise!ReturnNoData
BY RecvFailsMaps DEF RecvNothing, Promise!ReturnNoData

LEMMA RecvErrorMaps == RInv /\ RecvError => Promise!ReturnLost
BY RecvFailsMaps DEF RecvError, Promise!ReturnLost

-----------------------------------------------------------------------------
(* Values that are too large, and those that are complete.                 *)

LEMMA TooLargeMaps ==
  ASSUME IInv, pc \notin {"idle", "fill"}, Fail("TOO_LARGE_DATA")
  PROVE  Promise!Fail("TOO_LARGE_DATA", 0)
BY FailMaps, NothingTaken

LEMMA LineTooLargeMaps == IInv /\ LineTooLarge => Promise!ReturnTooLarge
<1>. SUFFICES ASSUME IInv, LineTooLarge
              PROVE  Promise!ReturnTooLarge
  OBVIOUS
<1>1. pc = "scan" /\ op \in UntilOps /\ NotFound /\ size_ >= MaxCap
  BY DEF LineTooLarge, IInv, CallShape
<1>2. Promise!Fail("TOO_LARGE_DATA", 0)
  BY <1>1, TooLargeMaps DEF LineTooLarge
<1>3. /\ Pos + size_ = rcvd /\ rcvd =< Len(sent) /\ Pos \in Nat /\ size_ \in Nat /\ rcvd \in Nat
      /\ cursor_ \in Nat /\ searched \in Nat /\ Len(sent) \in Nat /\ MaxCap \in Nat
  BY <1>1, PosInStream, SizeAssumption DEF IInv, TypeOK, OnItsWay
<1>4. \A i \in 0 .. size_ - 1 : buf[cursor_ + i] # EndChar(op)
  <2>. SUFFICES ASSUME NEW i \in 0 .. size_ - 1
                PROVE  buf[cursor_ + i] # EndChar(op)
    OBVIOUS
  <2>1. CASE i < searched
    <3>1. i \in 0 .. searched - 1
      BY <1>3, <2>1
    <3>2. \A j \in 0 .. searched - 1 : buf[cursor_ + j] # EndChar(op)
      BY <1>1 DEF IInv, SkippedHasNoEnd
    <3>. QED  BY <3>1, <3>2
  <2>2. CASE i >= searched
    <3>1. cursor_ + i \in cursor_ + searched .. cursor_ + size_ - 1
      BY <1>3, <2>2
    <3>. QED  BY <1>1, <3>1 DEF NotFound
  <2>. QED  BY <1>3, <2>1, <2>2
<1>5. \A k \in Promise!Ends : k > Pos + size_
  <2>1. size_ \in 0 .. size_ /\ pc \in {"scan", "recv"}
    BY <1>1, <1>3
  <2>. QED  BY <1>1, <1>4, <2>1, NoEndBefore
<1>6. \A k \in Promise!Ends : k \in Nat /\ k - Pos > MaxCap
  <2>1. \A k \in Promise!Ends : k \in Nat
    BY <1>3 DEF Promise!Ends, Promise!Pending, Pos
  <2>. QED  BY <1>1, <1>3, <1>5, <2>1
<1>7. Pos + MaxCap =< Len(sent)
  BY <1>1, <1>3
<1>. QED  BY <1>1, <1>2, <1>6, <1>7 DEF Promise!ReturnTooLarge, UntilOps, Promise!UntilOps, Pos

LEMMA BytesTooLargeMaps == IInv /\ BytesTooLarge => Promise!ReturnTooLarge
<1>. SUFFICES ASSUME IInv, BytesTooLarge
              PROVE  Promise!ReturnTooLarge
  OBVIOUS
<1>1. op \in ExactOps /\ need > MaxCap
  BY DEF BytesTooLarge, IInv, CallShape
<1>2. Promise!Fail("TOO_LARGE_DATA", 0)
  BY TooLargeMaps DEF BytesTooLarge
<1>. QED  BY <1>1, <1>2 DEF Promise!ReturnTooLarge, ExactOps, Promise!ExactOps

LEMMA UnitTooLargeMaps == IInv /\ UnitTooLarge => Promise!ReturnTooLarge
<1>. SUFFICES ASSUME IInv, UnitTooLarge
              PROVE  Promise!ReturnTooLarge
  OBVIOUS
<1>1. op = "readBlock" /\ unit > MaxCap
  BY DEF UnitTooLarge, IInv, CallShape
<1>2. Promise!Fail("TOO_LARGE_DATA", 0)
  BY TooLargeMaps DEF UnitTooLarge
<1>. QED  BY <1>1, <1>2 DEF Promise!ReturnTooLarge

LEMMA TakeBytesMaps == IInv /\ TakeBytes => Promise!ReturnBytes
<1>. SUFFICES ASSUME IInv, TakeBytes
              PROVE  Promise!ReturnBytes
  OBVIOUS
<1>. DEFINE v == IF op = "bufferBytes" THEN <<>> ELSE Bytes(cursor_, cursor_ + need)
<1>1. /\ pc = "recv" /\ op \in ExactOps /\ Consume(need) /\ Return("OK", v)
      /\ UNCHANGED <<peer, rcvd, closed_>>
  BY DEF TakeBytes
<1>2. /\ need \in 0 .. size_ /\ need \in Nat /\ size_ \in Nat /\ rcvd \in Nat
  BY DEF TakeBytes, IInv, TypeOK
<1>3. /\ Pos = rcvd - size_ /\ Pos + need =< Len(sent)
      /\ Bytes(cursor_, cursor_ + need) = SubSeq(sent, Pos + 1, Pos + need)
  BY <1>1, <1>2, TakenAtPos
<1>4. rcvd' \in Nat /\ size_' \in Nat
  BY <1>1, <1>2 DEF Consume
<1>5. rcvd' - size_' = IF op \in Peeks THEN Pos ELSE Pos + need
  BY <1>1, <1>2, <1>3 DEF Consume
<1>6. Promise!Return("OK", v, rcvd' - size_')
  BY <1>1, <1>4, ReturnMaps
<1>7. v = IF op = "bufferBytes" THEN <<>> ELSE SubSeq(sent, Pos + 1, Pos + need)
  BY <1>3
<1>. HIDE DEF v
<1>8. Promise!Return("OK",
                     IF op = "bufferBytes" THEN <<>> ELSE SubSeq(sent, Pos + 1, Pos + need),
                     IF op \in Peeks THEN Pos ELSE Pos + need)
  BY <1>5, <1>6, <1>7
<1>. QED  BY <1>1, <1>3, <1>8
          DEF Promise!ReturnBytes, ExactOps, Promise!ExactOps, Peeks, Promise!Peeks, Pos

LEMMA BlockFilledMaps == IInv /\ BlockFilled => Promise!ReturnBytes
<1>. SUFFICES ASSUME IInv, BlockFilled
              PROVE  Promise!ReturnBytes
  OBVIOUS
<1>1. /\ pc = "fill" /\ Len(value) = need /\ op = "readBlock" /\ Return("OK", value)
      /\ UNCHANGED <<peer, rcvd, size_, closed_>>
  BY DEF BlockFilled, IInv, CallShape, mem
<1>2. /\ need \in Nat /\ size_ \in Nat /\ rcvd \in Nat /\ rcvd =< Len(sent)
      /\ size_ + need =< rcvd /\ value \in Seq(Byte) /\ sent \in Seq(Byte)
      /\ \A i \in 1 .. need : value[i] = sent[rcvd - size_ - need + i]
  BY <1>1 DEF IInv, TypeOK, WindowHolds, BlockHolds
<1>3. Pos = rcvd - size_ - need
  BY <1>1 DEF Pos, OnItsWay
<1>4. Pos \in Nat /\ Pos + need =< Len(sent) /\ Pos + need = rcvd - size_
  BY <1>2, <1>3
<1>5. value = SubSeq(sent, Pos + 1, Pos + need)
  <2>1. \A i \in 1 .. need : value[i] = sent[Pos + i]
    BY <1>2, <1>3
  <2>. HIDE DEF Pos
  <2>2. SubSeq(sent, Pos + 1, Pos + need) = [i \in 1 .. need |-> sent[Pos + i]]
    BY <1>2, <1>4
  <2>3. value = [i \in 1 .. need |-> value[i]]
    BY <1>1, <1>2
  <2>. QED  BY <2>1, <2>2, <2>3
<1>6. rcvd' \in Nat /\ size_' \in Nat /\ rcvd' - size_' = Pos + need
  BY <1>1, <1>2, <1>4
<1>7. Promise!Return("OK", SubSeq(sent, Pos + 1, Pos + need), Pos + need)
  <2>1. Promise!Return("OK", value, rcvd' - size_')
    BY <1>1, <1>6, ReturnMaps
  <2>. QED  BY <1>5, <1>6, <2>1
<1>. QED  BY <1>1, <1>4, <1>7 DEF Promise!ReturnBytes, Promise!Peeks, Pos

-----------------------------------------------------------------------------
LEMMA InitMaps == Init => Promise!Init
BY DEF Init, Promise!Init, OnItsWay

LEMMA NextMaps == RInv /\ [Next]_vars => [Promise!Next]_(Promise!vars)
<1>. SUFFICES ASSUME RInv, [Next]_vars
              PROVE  Promise!Next \/ UNCHANGED Promise!vars
  OBVIOUS
<1>. IInv
  BY DEF RInv
<1>1. CASE Arrive  BY <1>1, ArriveMaps DEF Promise!Next
<1>2. CASE Hangup  BY <1>2, HangupMaps DEF Promise!Next
<1>3. CASE Close  BY <1>3, CloseMaps DEF Promise!Next
<1>4. CASE ReadUntil \/ ReadBytes \/ ReadBlock  BY <1>4, ReadCallMaps
<1>5. CASE TakeLine  BY <1>5, TakeLineMaps DEF Promise!Next
<1>6. CASE MakeRoom \/ PrepareBytes  BY <1>6, RearrangeHidden
<1>7. CASE LineTooLarge  BY <1>7, LineTooLargeMaps DEF Promise!Next
<1>8. CASE BytesTooLarge  BY <1>8, BytesTooLargeMaps DEF Promise!Next
<1>9. CASE UnitTooLarge  BY <1>9, UnitTooLargeMaps DEF Promise!Next
<1>10. CASE TakeBytes  BY <1>10, TakeBytesMaps DEF Promise!Next
<1>11. CASE TakeBuffered  BY <1>11, TakeBufferedHidden
<1>12. CASE BlockFilled  BY <1>12, BlockFilledMaps DEF Promise!Next
<1>13. CASE Recv  BY <1>13, RecvHidden
<1>14. CASE RecvBlock  BY <1>14, RecvBlockHidden
<1>15. CASE RecvZero  BY <1>15, RecvZeroMaps DEF Promise!Next
<1>16. CASE RecvNothing  BY <1>16, RecvNothingMaps DEF Promise!Next
<1>17. CASE RecvError  BY <1>17, RecvErrorMaps DEF Promise!Next
<1>18. CASE UNCHANGED vars
  BY <1>18 DEF vars, Promise!vars, OnItsWay
<1>. QED  BY <1>1, <1>2, <1>3, <1>4, <1>5, <1>6, <1>7, <1>8, <1>9, <1>10, <1>11, <1>12,
             <1>13, <1>14, <1>15, <1>16, <1>17, <1>18 DEF Next, Reader

\* What a reader of the stream may rely on holds of the buffer: whatever the
\* sizes, the lines, lengths and blocks asked for and the cuts recv() makes,
\* every call returns what the stream itself would, and no other byte is lost.
THEOREM StreamPromise == Spec => ImplementsByteStream
<1>1. Spec => []RInv
  BY InitRInv, NextRInv, PTL DEF Spec
<1>. QED  BY <1>1, InitMaps, NextMaps, PTL DEF Spec, ImplementsByteStream, Promise!Spec
=============================================================================
