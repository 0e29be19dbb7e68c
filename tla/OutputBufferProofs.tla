------------------------- MODULE OutputBufferProofs -------------------------
(***************************************************************************)
(* The invariants of OutputBuffer, and that it implements ByteSink, for    *)
(* every capacity, limit, kernel and choice of values.                     *)
(***************************************************************************)
EXTENDS OutputBuffer, SequenceTheorems, TLAPS

\* The bytes that left, those that never will, and the others.
Left    == {wire[i] : i \in 1 .. Len(wire)}
Lost    == refused \cup cleared \cup cut
Pending == (1 .. asked) \ (Left \cup Lost)

\* Where a block is: an external Buffer keeps its room, no byte is in a Buffer
\* twice, and a write in progress is given the block to its end.
BlockShape ==
  /\ external_ => capacity_ = InitCap
  /\ size_ =< asked - first
  /\ pc = "build" => buffer_ = 0 /\ rest = 0
  /\ pc # "build" => buffer_ + rest = size_
  /\ ~blocking_ => copied = 0

\* Every byte handed over has left, is lost, or is in the part of the Buffer
\* that is still to be sent.
Accounted ==
  /\ Left \subseteq 1 .. asked /\ Lost \subseteq 1 .. asked
  /\ Pending = Bytes(buffer_ + copied, size_)

IInv == TypeOK /\ BufferHolds /\ WriterKeepsAll /\ BlockShape /\ Accounted

-----------------------------------------------------------------------------
(* The bytes of a part of the Buffer.                                      *)

LEMMA BytesOf ==
  ASSUME NEW a, NEW b, NEW y
  PROVE  y \in Bytes(a, b) <=> \E i \in a .. b - 1 : y = buf[i]
<1>. QED  BY DEF Bytes

\* A part is what is before some offset and what is behind it.
LEMMA BytesSplit ==
  ASSUME NEW a \in Nat, NEW b \in Nat, NEW c \in Nat, a =< b, b =< c
  PROVE  Bytes(a, c) = Bytes(a, b) \cup Bytes(b, c)
<1>1. \A i : i \in a .. c - 1 <=> i \in a .. b - 1 \/ i \in b .. c - 1
  OBVIOUS
<1>. QED  BY <1>1 DEF Bytes

\* Since the bytes are in order, none is in both.
LEMMA BytesApart ==
  ASSUME TypeOK, BufferHolds, NEW a \in Nat, NEW b \in Nat, NEW c \in Nat, a =< b, b =< c, c =< size_
  PROVE  Bytes(a, c) \ Bytes(a, b) = Bytes(b, c)
<1>1. \A i, j \in 0 .. size_ - 1 : i < j => buf[i] < buf[j]
  BY DEF BufferHolds
<1>2. \A i \in a .. b - 1, j \in b .. c - 1 : buf[i] # buf[j]
  <2>. SUFFICES ASSUME NEW i \in a .. b - 1, NEW j \in b .. c - 1
                PROVE  buf[i] # buf[j]
    OBVIOUS
  <2>1. i \in 0 .. size_ - 1 /\ j \in 0 .. size_ - 1 /\ i < j
    BY DEF TypeOK
  <2>2. buf[i] \in Nat /\ buf[j] \in Nat
    BY <2>1 DEF TypeOK
  <2>. QED  BY <1>1, <2>1, <2>2
<1>3. Bytes(a, c) = Bytes(a, b) \cup Bytes(b, c)
  BY BytesSplit
<1>4. Bytes(a, b) \cap Bytes(b, c) = {}
  BY <1>2 DEF Bytes
<1>. QED  BY <1>3, <1>4

\* What the bytes of the Buffer are numbered.
LEMMA BytesAsked ==
  ASSUME IInv, NEW a \in Nat, NEW b \in Nat, b =< size_
  PROVE  Bytes(a, b) \subseteq first + 1 .. asked /\ Bytes(a, b) \subseteq 1 .. asked
<1>1. \A i \in a .. b - 1 : i \in 0 .. size_ - 1
  BY DEF IInv, TypeOK
<1>2. Bytes(a, b) \subseteq Bytes(0, size_)
  BY <1>1 DEF Bytes
<1>3. Bytes(0, size_) \subseteq first + 1 .. asked
  BY DEF IInv, BufferHolds
<1>4. first \in Nat /\ asked \in Nat
  BY DEF IInv, TypeOK
<1>. QED  BY <1>2, <1>3, <1>4

\* A Buffer that grows has room for the value that made it grow.
LEMMA Growth ==
  ASSUME TypeOK, NEW n \in Nat, size_ + n > capacity_
  PROVE  NewCapacity(n) \in Nat \ {0} /\ NewCapacity(n) >= size_ + n /\ NewCapacity(n) >= capacity_
<1>. QED  BY DEF TypeOK, NewCapacity

\* What Buffer::write leaves in memory: the bytes that were there, and behind
\* them the new ones.
LEMMA Stored ==
  ASSUME TypeOK, NEW n \in Nat, NEW c \in Nat \ {0}, c >= capacity_, c >= size_ + n, Store(n, c)
  PROVE  /\ capacity_' = c /\ size_' = size_ + n /\ buf' \in [0 .. c - 1 -> Nat]
         /\ \A i \in 0 .. size_ - 1 : buf'[i] = buf[i]
         /\ \A i \in size_ .. size_ + n - 1 : buf'[i] = asked + 1 + i - size_
<1>1. /\ size_ \in Nat /\ capacity_ \in Nat /\ size_ =< capacity_ /\ asked \in Nat
      /\ \A i \in 0 .. capacity_ - 1 : buf[i] \in Nat
  BY DEF TypeOK
<1>2. buf' = [i \in 0 .. c - 1 |->
               IF i \in size_ .. size_ + n - 1 THEN asked + 1 + i - size_
               ELSE IF i < size_ \/ c = capacity_ THEN buf[i] ELSE 0]
      /\ capacity_' = c /\ size_' = size_ + n
  BY DEF Store
<1>3. \A i \in 0 .. c - 1 : buf'[i] \in Nat
  <2>. SUFFICES ASSUME NEW i \in 0 .. c - 1
                PROVE  buf'[i] \in Nat
    OBVIOUS
  <2>1. CASE i \in size_ .. size_ + n - 1
    BY <1>1, <1>2, <2>1
  <2>2. CASE ~(i \in size_ .. size_ + n - 1) /\ (i < size_ \/ c = capacity_)
    BY <1>1, <1>2, <2>2
  <2>3. CASE ~(i \in size_ .. size_ + n - 1) /\ ~(i < size_ \/ c = capacity_)
    BY <1>2, <2>3
  <2>. QED  BY <2>1, <2>2, <2>3
<1>4. buf' \in [0 .. c - 1 -> Nat]
  BY <1>2, <1>3
<1>5. \A i \in 0 .. size_ - 1 : buf'[i] = buf[i]
  BY <1>1, <1>2
<1>6. \A i \in size_ .. size_ + n - 1 : buf'[i] = asked + 1 + i - size_
  BY <1>1, <1>2
<1>. QED  BY <1>2, <1>4, <1>5, <1>6

\* The new bytes join those of the block.
LEMMA StoredBytes ==
  ASSUME TypeOK, NEW n \in Nat, NEW c \in Nat \ {0}, c >= capacity_, c >= size_ + n, Store(n, c)
  PROVE  Bytes(0, size_)' = Bytes(0, size_) \cup asked + 1 .. asked + n
<1>1. size_ \in Nat /\ asked \in Nat
  BY DEF TypeOK
<1>2. /\ size_' = size_ + n
      /\ \A i \in 0 .. size_ - 1 : buf'[i] = buf[i]
      /\ \A i \in size_ .. size_ + n - 1 : buf'[i] = asked + 1 + i - size_
  BY Stored
<1>3. ASSUME NEW y \in Bytes(0, size_)'
      PROVE  y \in Bytes(0, size_) \cup asked + 1 .. asked + n
  <2>1. PICK i \in 0 .. size_' - 1 : y = buf'[i]
    BY <1>3 DEF Bytes
  <2>2. CASE i \in 0 .. size_ - 1
    BY <1>2, <2>1, <2>2 DEF Bytes
  <2>3. CASE i \in size_ .. size_ + n - 1
    BY <1>1, <1>2, <2>1, <2>3
  <2>. QED  BY <1>1, <1>2, <2>2, <2>3
<1>4. ASSUME NEW y \in Bytes(0, size_)
      PROVE  y \in Bytes(0, size_)'
  <2>1. PICK i \in 0 .. size_ - 1 : y = buf[i]
    BY <1>4 DEF Bytes
  <2>2. y = buf'[i] /\ i \in 0 .. size_' - 1
    BY <1>1, <1>2, <2>1
  <2>. QED  BY <2>2 DEF Bytes
<1>5. ASSUME NEW y \in asked + 1 .. asked + n
      PROVE  y \in Bytes(0, size_)'
  <2>. DEFINE i == size_ + (y - asked - 1)
  <2>1. i \in size_ .. size_ + n - 1 /\ y = asked + 1 + i - size_
    BY <1>1, <1>5
  <2>2. y = buf'[i]
    BY <1>2, <2>1
  <2>3. i \in 0 .. size_' - 1
    BY <1>1, <1>2, <2>1
  <2>. QED  BY <2>2, <2>3 DEF Bytes
<1>. QED  BY <1>3, <1>4, <1>5

-----------------------------------------------------------------------------
(* Buffer::write and Buffer::clear.                                        *)

LEMMA StoreIInv ==
  ASSUME IInv, pc = "build", NEW n \in Nat, NEW c \in Nat \ {0}, c >= capacity_, c >= size_ + n,
         Store(n, c), asked' = asked + n, external_ => c = capacity_,
         UNCHANGED <<external_, first, fixed, pc, out, kernel, refused, cleared, cut>>
  PROVE  IInv'
<1>1. /\ TypeOK /\ asked \in Nat /\ first \in 0 .. asked /\ size_ \in Nat /\ capacity_ \in Nat \ {0}
      /\ refused \subseteq 1 .. asked /\ cleared \subseteq 1 .. asked /\ cut \subseteq 1 .. asked
      /\ buffer_ = 0 /\ rest = 0 /\ copied = 0 /\ size_ =< asked - first
  BY DEF IInv, TypeOK, Accounted, Lost, BlockShape
<1>2. /\ capacity_' = c /\ size_' = size_ + n /\ buf' \in [0 .. c - 1 -> Nat]
      /\ \A i \in 0 .. size_ - 1 : buf'[i] = buf[i]
      /\ \A i \in size_ .. size_ + n - 1 : buf'[i] = asked + 1 + i - size_
  BY <1>1, Stored
<1>3. Bytes(0, size_)' = Bytes(0, size_) \cup asked + 1 .. asked + n
  BY <1>1, StoredBytes
<1>4. /\ external_' = external_ /\ first' = first /\ caller' = caller /\ blocking_' = blocking_
      /\ pc' = pc /\ buffer_' = buffer_ /\ rest' = rest /\ copied' = copied
      /\ room' = room /\ conn' = conn /\ wire' = wire
      /\ refused' = refused /\ cleared' = cleared /\ cut' = cut
  BY DEF fixed, out, kernel
<1>5. TypeOK'
  BY <1>1, <1>2, <1>4 DEF TypeOK
<1>6. BufferHolds'
  <2>1. Bytes(0, size_)' = (first + 1 .. asked + n) \ refused
    <3>1. Bytes(0, size_) = (first + 1 .. asked) \ refused
      BY DEF IInv, BufferHolds
    <3>. QED  BY <1>1, <1>3, <3>1
  <2>2. \A i, j \in 0 .. size_' - 1 : i < j => buf'[i] < buf'[j]
    <3>. SUFFICES ASSUME NEW i \in 0 .. size_' - 1, NEW j \in 0 .. size_' - 1, i < j
                  PROVE  buf'[i] < buf'[j]
      OBVIOUS
    <3>1. CASE j \in 0 .. size_ - 1
      <4>1. i \in 0 .. size_ - 1 /\ buf[i] < buf[j]
        BY <1>1, <3>1 DEF IInv, BufferHolds
      <4>. QED  BY <1>2, <3>1, <4>1
    <3>2. CASE j \in size_ .. size_ + n - 1 /\ i \in 0 .. size_ - 1
      <4>1. buf[i] \in Bytes(0, size_)
        BY <3>2 DEF Bytes
      <4>2. Bytes(0, size_) \subseteq 1 .. asked
        BY <1>1, BytesAsked
      <4>. QED  BY <1>1, <1>2, <3>2, <4>1, <4>2
    <3>3. CASE j \in size_ .. size_ + n - 1 /\ i \in size_ .. size_ + n - 1
      BY <1>1, <1>2, <3>3
    <3>. QED  BY <1>1, <1>2, <3>1, <3>2, <3>3
  <2>3. refused \cap (first + 1 .. asked + n) # {} => asked + n - first > Limit
    <3>. HAVE refused \cap (first + 1 .. asked + n) # {}
    <3>1. refused \cap (first + 1 .. asked) # {}
      BY <1>1
    <3>2. asked - first > Limit
      BY <3>1 DEF IInv, BufferHolds
    <3>3. Limit \in Nat
      BY OutputAssumption DEF Limit
    <3>. QED  BY <1>1, <3>2, <3>3
  <2>4. Limit' = Limit
    BY <1>4 DEF Limit
  <2>5. Bytes(0, size_)' = (first' + 1 .. asked') \ refused'
    BY <1>4, <2>1
  <2>6. refused' \cap (first' + 1 .. asked') # {} => asked' - first' > Limit'
    BY <1>1, <1>4, <2>3, <2>4, OutputAssumption DEF Limit
  <2>. QED  BY <2>2, <2>5, <2>6 DEF BufferHolds
<1>7. WriterKeepsAll'
  BY <1>4 DEF IInv, WriterKeepsAll
<1>8. BlockShape'
  BY <1>1, <1>2, <1>4 DEF IInv, BlockShape
<1>9. Accounted'
  <2>1. Left' = Left /\ Lost' = Lost
    BY <1>4 DEF Left, Lost
  <2>2. Left \subseteq 1 .. asked /\ Lost \subseteq 1 .. asked
    BY DEF IInv, Accounted
  <2>3. Left \subseteq 1 .. asked + n /\ Lost \subseteq 1 .. asked + n
    BY <1>1, <2>2
  <2>4. (1 .. asked) \ (Left \cup Lost) = Bytes(0, size_)
    BY <1>1 DEF IInv, Accounted, Pending
  <2>5. (1 .. asked + n) \ (Left \cup Lost) = Bytes(0, size_) \cup asked + 1 .. asked + n
    BY <1>1, <2>2, <2>4
  <2>6. Bytes(buffer_ + copied, size_)' = Bytes(0, size_)'
    BY <1>1, <1>4 DEF Bytes
  <2>. QED  BY <1>3, <2>1, <2>3, <2>5, <2>6 DEF Accounted, Pending
<1>. QED  BY <1>5, <1>6, <1>7, <1>8, <1>9 DEF IInv

LEMMA RefuseIInv ==
  ASSUME IInv, pc = "build", NEW n \in Nat \ {0}, size_ + n > capacity_, ~MayGrow,
         asked' = asked + n, refused' = refused \cup asked + 1 .. asked + n,
         UNCHANGED <<buf, capacity_, size_, external_, first, fixed, pc, out, kernel, cleared, cut>>
  PROVE  IInv'
<1>1. /\ asked \in Nat /\ first \in 0 .. asked /\ size_ \in Nat /\ capacity_ \in Nat \ {0}
      /\ refused \subseteq 1 .. asked /\ cleared \subseteq 1 .. asked /\ cut \subseteq 1 .. asked
      /\ buffer_ = 0 /\ rest = 0 /\ copied = 0 /\ size_ =< asked - first
  BY DEF IInv, TypeOK, Accounted, Lost, BlockShape
<1>2. /\ buf' = buf /\ capacity_' = capacity_ /\ size_' = size_
      /\ external_' = external_ /\ first' = first /\ caller' = caller /\ blocking_' = blocking_
      /\ pc' = pc /\ buffer_' = buffer_ /\ rest' = rest /\ copied' = copied
      /\ room' = room /\ conn' = conn /\ wire' = wire
      /\ cleared' = cleared /\ cut' = cut
  BY DEF fixed, out, kernel
<1>3. TypeOK'
  BY <1>1, <1>2 DEF IInv, TypeOK
<1>4. BufferHolds'
  <2>1. Bytes(0, size_)' = Bytes(0, size_)
    BY <1>2 DEF Bytes
  <2>2. Bytes(0, size_) = (first + 1 .. asked) \ refused
    BY DEF IInv, BufferHolds
  <2>3. Bytes(0, size_) = (first + 1 .. asked + n) \ (refused \cup asked + 1 .. asked + n)
    BY <1>1, <2>2
  <2>4. \A i, j \in 0 .. size_ - 1 : i < j => buf[i] < buf[j]
    BY DEF IInv, BufferHolds
  <2>5. asked + n - first > Limit
    <3>1. CASE external_
      BY <1>1, <3>1, OutputAssumption DEF IInv, BlockShape, Limit
    <3>2. CASE ~external_
      BY <1>1, <3>2, OutputAssumption DEF MayGrow, Limit
    <3>. QED  BY <3>1, <3>2
  <2>6. Limit' = Limit
    BY <1>2 DEF Limit
  <2>7. Bytes(0, size_)' = (first' + 1 .. asked') \ refused'
    BY <1>2, <2>1, <2>3
  <2>8. refused' \cap (first' + 1 .. asked') # {} => asked' - first' > Limit'
    BY <1>1, <1>2, <2>5, <2>6, OutputAssumption DEF Limit
  <2>9. \A i, j \in 0 .. size_' - 1 : i < j => buf'[i] < buf'[j]
    BY <1>2, <2>4
  <2>. QED  BY <2>7, <2>8, <2>9 DEF BufferHolds
<1>5. WriterKeepsAll'
  BY <1>2 DEF IInv, WriterKeepsAll
<1>6. BlockShape'
  BY <1>1, <1>2 DEF IInv, BlockShape
<1>7. Accounted'
  <2>1. Left' = Left /\ Lost' = Lost \cup asked + 1 .. asked + n
    BY <1>2 DEF Left, Lost
  <2>2. Left \subseteq 1 .. asked /\ Lost \subseteq 1 .. asked
    BY DEF IInv, Accounted
  <2>3. Left' \subseteq 1 .. asked + n /\ Lost' \subseteq 1 .. asked + n
    BY <1>1, <2>1, <2>2
  <2>4. (1 .. asked) \ (Left \cup Lost) = Bytes(0, size_)
    BY <1>1 DEF IInv, Accounted, Pending
  <2>5. (1 .. asked + n) \ (Left' \cup Lost') = Bytes(0, size_)
    BY <1>1, <2>1, <2>2, <2>4
  <2>6. Bytes(buffer_ + copied, size_)' = Bytes(0, size_)
    BY <1>1, <1>2 DEF Bytes
  <2>. QED  BY <2>3, <2>5, <2>6 DEF Accounted, Pending
<1>. QED  BY <1>3, <1>4, <1>5, <1>6, <1>7 DEF IInv

LEMMA WriteIInv == ASSUME IInv, Write PROVE IInv'
<1>1. PICK n \in Lengths :
        /\ asked + n =< MaxAsked /\ asked' = asked + n
        /\ \/ /\ size_ + n =< capacity_
              /\ Store(n, capacity_)
              /\ UNCHANGED refused
           \/ /\ size_ + n > capacity_ /\ MayGrow
              /\ Store(n, NewCapacity(n))
              /\ UNCHANGED refused
           \/ /\ size_ + n > capacity_ /\ ~MayGrow
              /\ refused' = refused \cup asked + 1 .. asked + n
              /\ UNCHANGED <<buf, capacity_, size_>>
  BY DEF Write
<1>2. pc = "build" /\ UNCHANGED <<external_, first, fixed, pc, out, kernel, cleared, cut>>
  BY DEF Write
<1>3. n \in Nat \ {0} /\ TypeOK /\ capacity_ \in Nat \ {0} /\ size_ \in Nat
  BY OutputAssumption DEF IInv, TypeOK
<1>4. CASE size_ + n =< capacity_ /\ Store(n, capacity_) /\ UNCHANGED refused
  <2>1. UNCHANGED <<external_, first, fixed, pc, out, kernel, refused, cleared, cut>>
    BY <1>2, <1>4
  <2>. QED  BY <1>1, <1>2, <1>3, <1>4, <2>1, StoreIInv
<1>5. CASE size_ + n > capacity_ /\ MayGrow /\ Store(n, NewCapacity(n)) /\ UNCHANGED refused
  <2>1. UNCHANGED <<external_, first, fixed, pc, out, kernel, refused, cleared, cut>>
    BY <1>2, <1>5
  <2>2. /\ NewCapacity(n) \in Nat \ {0} /\ NewCapacity(n) >= size_ + n
        /\ NewCapacity(n) >= capacity_
    BY <1>3, <1>5, Growth
  <2>3. ~external_
    BY <1>5 DEF MayGrow
  <2>. QED  BY <1>1, <1>2, <1>3, <1>5, <2>1, <2>2, <2>3, StoreIInv
<1>6. CASE /\ size_ + n > capacity_ /\ ~MayGrow
           /\ refused' = refused \cup asked + 1 .. asked + n
           /\ UNCHANGED <<buf, capacity_, size_>>
  <2>1. UNCHANGED <<buf, capacity_, size_, external_, first, fixed, pc, out, kernel, cleared, cut>>
    BY <1>2, <1>6
  <2>. QED  BY <1>1, <1>2, <1>3, <1>6, <2>1, RefuseIInv
<1>. QED  BY <1>1, <1>4, <1>5, <1>6

\* An empty Buffer, in which the next block begins.
LEMMA EmptyHolds ==
  ASSUME IInv, size_' = 0, first' = asked, asked' = asked, refused' = refused
  PROVE  BufferHolds'
<1>1. asked \in Nat
  BY DEF IInv, TypeOK
<1>2. Bytes(0, size_)' = {}
  BY DEF Bytes
<1>3. first' + 1 .. asked' = {}
  BY <1>1
<1>4. \A i, j \in 0 .. size_' - 1 : i < j => buf'[i] < buf'[j]
  OBVIOUS
<1>. QED  BY <1>2, <1>3, <1>4 DEF BufferHolds

\* Everything that is not lost has left when nothing is pending.
LEMMA EmptyAccounted ==
  ASSUME IInv, size_' = 0, buffer_' = 0, copied' = 0, asked' = asked,
         Left' \subseteq 1 .. asked, Lost' \subseteq 1 .. asked,
         Left \subseteq Left', Lost \subseteq Lost', Pending \subseteq Left' \cup Lost'
  PROVE  Accounted'
<1>1. Bytes(buffer_ + copied, size_)' = {}
  BY DEF Bytes
<1>2. Pending' = {}
  BY DEF Pending
<1>. QED  BY <1>1, <1>2 DEF Accounted

LEMMA ClearIInv == ASSUME IInv, Clear PROVE IInv'
<1>1. /\ pc = "build" /\ size_' = 0 /\ first' = asked /\ cleared' = cleared \cup Bytes(0, size_)
      /\ asked' = asked /\ buf' = buf /\ capacity_' = capacity_ /\ external_' = external_
      /\ caller' = caller /\ blocking_' = blocking_
      /\ pc' = pc /\ buffer_' = buffer_ /\ rest' = rest /\ copied' = copied
      /\ room' = room /\ conn' = conn /\ wire' = wire
      /\ refused' = refused /\ cut' = cut
  BY DEF Clear, fixed, out, kernel
<1>2. /\ asked \in Nat /\ size_ \in Nat /\ capacity_ \in Nat
      /\ buffer_ = 0 /\ rest = 0 /\ copied = 0
  BY <1>1 DEF IInv, TypeOK, BlockShape
<1>3. Bytes(0, size_) \subseteq 1 .. asked
  BY <1>2, BytesAsked
<1>4. TypeOK'
  <2>1. /\ asked' \in Nat /\ first' \in 0 .. asked' /\ size_' \in 0 .. capacity_'
        /\ copied' \in 0 .. rest' /\ buffer_' + rest' =< size_'
    BY <1>1, <1>2
  <2>2. cleared \subseteq Nat /\ 1 .. asked \subseteq Nat
    BY <1>2 DEF IInv, TypeOK
  <2>3. cleared' \subseteq Nat
    BY <1>1, <1>3, <2>2
  <2>. QED  BY <1>1, <2>1, <2>3 DEF IInv, TypeOK
<1>5. BufferHolds'
  BY <1>1, EmptyHolds
<1>6. WriterKeepsAll'
  BY <1>1 DEF IInv, WriterKeepsAll
<1>7. BlockShape'
  BY <1>1, <1>2 DEF IInv, BlockShape
<1>8. Accounted'
  <2>1. Left' = Left /\ Lost' = Lost \cup Bytes(0, size_)
    BY <1>1 DEF Left, Lost
  <2>2. Left \subseteq 1 .. asked /\ Lost \subseteq 1 .. asked /\ Pending = Bytes(0, size_)
    BY <1>2 DEF IInv, Accounted
  <2>. QED  BY <1>1, <1>2, <1>3, <2>1, <2>2, EmptyAccounted
<1>. QED  BY <1>4, <1>5, <1>6, <1>7, <1>8 DEF IInv

-----------------------------------------------------------------------------
(* The peer, and the steps that begin a write or go on with it.            *)

\* The Buffer, and what is known of its bytes, stay as they are.
LEMMA SameHolds ==
  ASSUME IInv, UNCHANGED <<asked, buf, size_, first, external_, refused>>
  PROVE  BufferHolds'
<1>1. Bytes(0, size_)' = Bytes(0, size_)
  BY DEF Bytes
<1>2. Limit' = Limit
  BY DEF Limit
<1>. QED  BY <1>1, <1>2 DEF IInv, BufferHolds

LEMMA SameBytes ==
  ASSUME IInv, UNCHANGED <<asked, buf, size_, first, external_, refused, cleared, cut, wire>>,
         buffer_' + copied' = buffer_ + copied
  PROVE  BufferHolds' /\ Accounted'
<1>1. Bytes(buffer_ + copied, size_)' = Bytes(buffer_ + copied, size_)
  BY DEF Bytes
<1>2. Left' = Left /\ Lost' = Lost /\ Pending' = Pending
  BY DEF Left, Lost, Pending
<1>. QED  BY <1>1, <1>2, SameHolds DEF IInv, Accounted

LEMMA PeerIInv == ASSUME IInv, Drain \/ Hangup PROVE IInv'
<1>1. /\ UNCHANGED <<asked, store, fixed, pc, out, wire, fate>>
      /\ room' \in 0 .. KernelRoom /\ conn' \in {"open", "gone"} /\ (conn' = "open" => conn = "open")
  BY OutputAssumption DEF IInv, TypeOK, Drain, Hangup
<1>2. /\ asked' = asked /\ buf' = buf /\ capacity_' = capacity_ /\ size_' = size_
      /\ external_' = external_ /\ first' = first /\ caller' = caller /\ blocking_' = blocking_
      /\ pc' = pc /\ buffer_' = buffer_ /\ rest' = rest /\ copied' = copied /\ wire' = wire
      /\ refused' = refused /\ cleared' = cleared /\ cut' = cut
  BY <1>1 DEF store, fixed, out, fate
<1>3. TypeOK' /\ BlockShape' /\ WriterKeepsAll'
  BY <1>1, <1>2 DEF IInv, TypeOK, BlockShape, WriterKeepsAll
<1>. QED  BY <1>2, <1>3, SameBytes DEF IInv

LEMMA SendIInv == ASSUME IInv, Send \/ Resume PROVE IInv'
<1>1. /\ asked' = asked /\ buf' = buf /\ capacity_' = capacity_ /\ size_' = size_
      /\ external_' = external_ /\ first' = first /\ caller' = caller /\ blocking_' = blocking_
      /\ room' = room /\ conn' = conn /\ wire' = wire
      /\ refused' = refused /\ cleared' = cleared /\ cut' = cut /\ pc' = "send"
  BY DEF Send, Resume, store, fixed, kernel, fate
<1>2. /\ size_ \in Nat /\ (pc = "build" => buffer_ = 0 /\ rest = 0 /\ copied = 0)
      /\ (pc # "build" => buffer_ + rest = size_)
  BY DEF IInv, TypeOK, BlockShape
<1>3. \/ pc = "build" /\ buffer_' = 0 /\ rest' = size_ /\ copied' = 0
      \/ pc = "wait" /\ buffer_' = buffer_ /\ rest' = rest /\ copied' = copied
  BY DEF Send, Resume, out
<1>4. buffer_ \in Nat /\ rest \in Nat /\ copied \in Nat /\ copied =< rest
  BY DEF IInv, TypeOK
<1>5. /\ buffer_' \in Nat /\ rest' \in Nat /\ copied' \in 0 .. rest'
      /\ buffer_' + rest' = size_ /\ buffer_' + rest' =< size_
      /\ buffer_' + copied' = buffer_ + copied
  BY <1>2, <1>3, <1>4
<1>6. ~blocking_ => copied' = 0
  BY <1>3 DEF IInv, BlockShape
<1>7. TypeOK'
  BY <1>1, <1>5 DEF IInv, TypeOK
<1>8. BlockShape' /\ WriterKeepsAll'
  BY <1>1, <1>5, <1>6 DEF IInv, BlockShape, WriterKeepsAll
<1>. QED  BY <1>1, <1>5, <1>7, <1>8, SameBytes DEF IInv

-----------------------------------------------------------------------------
(* What a write sends, and what its caller does when it returns.           *)

\* Where the block that is being sent lies.
LEMMA Sending ==
  ASSUME IInv, pc # "build"
  PROVE  /\ asked \in Nat /\ first \in Nat /\ first =< asked /\ size_ \in Nat
         /\ buffer_ \in Nat /\ rest \in Nat /\ copied \in Nat /\ copied =< rest
         /\ buffer_ + rest = size_ /\ size_ =< asked - first
         /\ \A i \in 0 .. size_ - 1 : buf[i] \in Nat
         /\ Pending = Bytes(buffer_ + copied, size_)
<1>1. /\ asked \in Nat /\ first \in Nat /\ first =< asked /\ size_ \in Nat
      /\ buffer_ \in Nat /\ rest \in Nat /\ copied \in Nat /\ copied =< rest
  BY DEF IInv, TypeOK
<1>2. \A i \in 0 .. size_ - 1 : buf[i] \in Nat
  BY DEF IInv, TypeOK
<1>. QED  BY <1>1, <1>2 DEF IInv, BlockShape, Accounted

LEMMA Appended ==
  ASSUME NEW s \in Seq(Nat), NEW p \in Seq(Nat)
  PROVE  /\ s \o p \in Seq(Nat) /\ Len(s \o p) = Len(s) + Len(p) /\ Len(s) \in Nat
         /\ \A i \in 1 .. Len(s) : (s \o p)[i] = s[i]
         /\ \A i \in 1 .. Len(p) : (s \o p)[Len(s) + i] = p[i]
<1>1. Len(s) \in Nat /\ Len(p) \in Nat
  BY LenProperties
<1>2. /\ s \o p \in Seq(Nat) /\ Len(s \o p) = Len(s) + Len(p)
      /\ \A i \in 1 .. Len(s) + Len(p) : (s \o p)[i] = IF i =< Len(s) THEN s[i] ELSE p[i - Len(s)]
  BY ConcatProperties
<1>3. \A i \in 1 .. Len(s) : (s \o p)[i] = s[i]
  BY <1>1, <1>2
<1>4. ASSUME NEW i \in 1 .. Len(p)
      PROVE  (s \o p)[Len(s) + i] = p[i]
  <2>1. Len(s) + i \in 1 .. Len(s) + Len(p) /\ ~(Len(s) + i =< Len(s)) /\ (Len(s) + i) - Len(s) = i
    BY <1>1
  <2>. QED  BY <1>2, <2>1
<1>. QED  BY <1>1, <1>2, <1>3, <1>4

\* The kernel takes the next bytes of the block, in order.
LEMMA Taken ==
  ASSUME IInv, pc = "send", NEW n \in Nat, copied + n =< rest, Take(n)
  PROVE  /\ wire' \in Seq(Nat) /\ Len(wire') = Len(wire) + n /\ Len(wire) \in Nat
         /\ \A i \in 1 .. Len(wire) : wire'[i] = wire[i]
         /\ \A i \in 1 .. n : wire'[Len(wire) + i] = buf[buffer_ + copied + i - 1]
         /\ Left' = Left \cup Bytes(buffer_ + copied, buffer_ + copied + n)
         /\ room' \in 0 .. KernelRoom /\ conn' = conn
<1>. DEFINE a == buffer_ + copied
<1>1. a \in Nat /\ a + n \in Nat /\ (a + n) - a = n /\ \A i \in 1 .. n : buf[a + i - 1] \in Nat
  BY Sending
<1>2. wire' = wire \o Part(a, a + n) /\ room' = room - n /\ n =< room /\ conn' = conn
  BY DEF Take
<1>. HIDE DEF a
<1>3. Part(a, a + n) = [i \in 1 .. n |-> buf[a + i - 1]]
  BY <1>1 DEF Part
<1>. DEFINE p == Part(a, a + n)
<1>4. p \in Seq(Nat) /\ Len(p) = n /\ \A i \in 1 .. n : p[i] = buf[a + i - 1]
  <2>1. p \in [1 .. n -> Nat] /\ \A i \in 1 .. n : p[i] = buf[a + i - 1]
    BY <1>1, <1>3
  <2>2. p \in Seq(Nat)
    BY <2>1
  <2>3. Len(p) = n
    BY <2>1, <2>2, LenProperties
  <2>. QED  BY <2>1, <2>2, <2>3
<1>5. wire \in Seq(Nat)
  BY DEF IInv, TypeOK
<1>. HIDE DEF p
<1>6. wire' = wire \o p
  BY <1>2 DEF p
<1>7. /\ wire' \in Seq(Nat) /\ Len(wire') = Len(wire) + n /\ Len(wire) \in Nat
      /\ \A i \in 1 .. Len(wire) : wire'[i] = wire[i]
      /\ \A i \in 1 .. n : wire'[Len(wire) + i] = p[i]
  BY <1>4, <1>5, <1>6, Appended
<1>8. \A i \in 1 .. n : wire'[Len(wire) + i] = buf[a + i - 1]
  BY <1>4, <1>7
<1>9. Left' = Left \cup Bytes(a, a + n)
  <2>1. ASSUME NEW y \in Left'
        PROVE  y \in Left \cup Bytes(a, a + n)
    <3>1. PICK i \in 1 .. Len(wire') : y = wire'[i]
      BY <2>1 DEF Left
    <3>2. CASE i =< Len(wire)
      BY <1>7, <3>1, <3>2 DEF Left
    <3>3. CASE i > Len(wire)
      <4>. DEFINE k == i - Len(wire)
      <4>1. k \in 1 .. n /\ i = Len(wire) + k
        BY <1>7, <3>3
      <4>2. y = buf[a + k - 1]
        BY <1>8, <3>1, <4>1
      <4>3. a + k - 1 \in a .. (a + n) - 1
        BY <1>1, <4>1
      <4>. QED  BY <4>2, <4>3 DEF Bytes
    <3>. QED  BY <1>7, <3>2, <3>3
  <2>2. ASSUME NEW y \in Left
        PROVE  y \in Left'
    <3>1. PICK i \in 1 .. Len(wire) : y = wire[i]
      BY <2>2 DEF Left
    <3>2. i \in 1 .. Len(wire') /\ y = wire'[i]
      BY <1>7, <3>1
    <3>. QED  BY <3>2 DEF Left
  <2>3. ASSUME NEW y \in Bytes(a, a + n)
        PROVE  y \in Left'
    <3>1. PICK i \in a .. (a + n) - 1 : y = buf[i]
      BY <2>3 DEF Bytes
    <3>. DEFINE k == i - a + 1
    <3>2. k \in 1 .. n /\ i = a + k - 1
      BY <1>1, <3>1
    <3>3. y = wire'[Len(wire) + k] /\ Len(wire) + k \in 1 .. Len(wire')
      BY <1>7, <1>8, <3>1, <3>2
    <3>. QED  BY <3>3 DEF Left
  <2>. QED  BY <2>1, <2>2, <2>3
<1>10. room' \in 0 .. KernelRoom
  BY <1>2, OutputAssumption DEF IInv, TypeOK
<1>. QED  BY <1>2, <1>7, <1>8, <1>9, <1>10 DEF a

\* Pending bytes that left are pending no longer.
LEMMA StillPending ==
  ASSUME IInv, pc = "send", NEW n \in Nat, copied =< n, n =< rest
  PROVE  /\ Pending \ Bytes(buffer_ + copied, buffer_ + n) = Bytes(buffer_ + n, size_)
         /\ Bytes(buffer_ + n, buffer_ + rest) = Bytes(buffer_ + n, size_)
         /\ Pending = Bytes(buffer_ + copied, buffer_ + n) \cup Bytes(buffer_ + n, size_)
         /\ Bytes(buffer_ + copied, buffer_ + n) \subseteq 1 .. asked
         /\ Bytes(buffer_ + n, size_) \subseteq 1 .. asked
<1>1. /\ buffer_ + copied \in Nat /\ buffer_ + n \in Nat /\ size_ \in Nat
      /\ buffer_ + copied =< buffer_ + n /\ buffer_ + n =< size_ /\ buffer_ + rest = size_
      /\ Pending = Bytes(buffer_ + copied, size_)
  BY Sending
<1>2. TypeOK /\ BufferHolds
  BY DEF IInv
<1>. QED  BY <1>1, <1>2, BytesSplit, BytesApart, BytesAsked

\* The next block begins in a new Buffer; what the last write left out is cut.
LEMMA EndIInv ==
  ASSUME IInv, pc = "send", NEW n \in Nat, copied =< n, n =< rest, EndBlock,
         cut' = cut \cup Bytes(buffer_ + n, buffer_ + rest), UNCHANGED <<refused, cleared>>,
         UNCHANGED <<asked, fixed>>, room' \in 0 .. KernelRoom, conn' = conn, wire' \in Seq(Nat),
         Left' = Left \cup Bytes(buffer_ + copied, buffer_ + n),
         caller = "writer" /\ conn = "open" => n = rest
  PROVE  IInv'
<1>1. /\ pc' = "build" /\ buffer_' = 0 /\ rest' = 0 /\ copied' = 0
      /\ capacity_' = InitCap /\ size_' = 0 /\ buf' = [i \in 0 .. InitCap - 1 |-> 0]
      /\ first' = asked /\ external_' = external_
      /\ asked' = asked /\ caller' = caller /\ blocking_' = blocking_
  BY DEF EndBlock, fixed
<1>2. /\ Pending = Bytes(buffer_ + copied, buffer_ + n) \cup Bytes(buffer_ + n, size_)
      /\ Bytes(buffer_ + n, buffer_ + rest) = Bytes(buffer_ + n, size_)
      /\ Bytes(buffer_ + copied, buffer_ + n) \subseteq 1 .. asked
      /\ Bytes(buffer_ + n, size_) \subseteq 1 .. asked
  BY StillPending
<1>3. asked \in Nat /\ first \in Nat /\ 1 .. asked \subseteq Nat
  BY DEF IInv, TypeOK
<1>4. TypeOK'
  <2>1. /\ asked' \in Nat /\ first' \in 0 .. asked' /\ capacity_' \in Nat \ {0}
        /\ size_' \in 0 .. capacity_' /\ buffer_' \in Nat /\ rest' \in Nat /\ copied' \in 0 .. rest'
        /\ buffer_' + rest' =< size_'
    BY <1>1, <1>3, OutputAssumption
  <2>2. buf' \in [0 .. capacity_' - 1 -> Nat]
    BY <1>1
  <2>3. cut \subseteq Nat
    BY DEF IInv, TypeOK
  <2>4. cut' \subseteq Nat
    BY <1>2, <1>3, <2>3
  <2>. QED  BY <1>1, <2>1, <2>2, <2>4 DEF IInv, TypeOK
<1>5. BufferHolds'
  BY <1>1, EmptyHolds
<1>6. WriterKeepsAll'
  <2>. SUFFICES ASSUME caller = "writer", conn = "open"
                PROVE  cut' = {}
    BY <1>1 DEF WriterKeepsAll
  <2>1. cut = {}
    BY DEF IInv, WriterKeepsAll
  <2>2. n = rest /\ buffer_ + n \in Nat
    BY Sending
  <2>3. Bytes(buffer_ + n, buffer_ + rest) = {}
    BY <2>2 DEF Bytes
  <2>. QED  BY <2>1, <2>3
<1>7. BlockShape'
  BY <1>1, <1>3 DEF BlockShape
<1>8. Accounted'
  <2>1. Lost' = Lost \cup Bytes(buffer_ + n, size_)
    BY <1>2 DEF Lost
  <2>2. Left \subseteq 1 .. asked /\ Lost \subseteq 1 .. asked
    BY DEF IInv, Accounted
  <2>. QED  BY <1>1, <1>2, <2>1, <2>2, EmptyAccounted
<1>. QED  BY <1>4, <1>5, <1>6, <1>7, <1>8 DEF IInv

\* Socket::write has sent n bytes of what it was given, the last of them with
\* this step, or with steps before it.
LEMMA ReturnsIInv ==
  ASSUME IInv, pc = "send", NEW code, NEW n \in Nat, copied =< n, n =< rest, Returns(code, n),
         UNCHANGED <<asked, fixed>>, room' \in 0 .. KernelRoom, conn' = conn, wire' \in Seq(Nat),
         Left' = Left \cup Bytes(buffer_ + copied, buffer_ + n),
         code \notin {"OK", "NOSPACE"} => conn = "gone",
         code = "NOSPACE" => wire' = wire
  PROVE  IInv'
<1>1. asked' = asked /\ caller' = caller /\ blocking_' = blocking_
  BY DEF fixed
<1>2. CASE /\ code = "OK" /\ n < rest /\ caller = "writer"
           /\ buffer_' = buffer_ + n /\ rest' = rest - n /\ copied' = 0
           /\ UNCHANGED <<store, pc, fate>>
  <2>1. /\ buf' = buf /\ capacity_' = capacity_ /\ size_' = size_ /\ external_' = external_
        /\ first' = first /\ pc' = pc
        /\ refused' = refused /\ cleared' = cleared /\ cut' = cut
    BY <1>2 DEF store, fate
  <2>2. /\ buffer_' \in Nat /\ rest' \in Nat /\ copied' \in 0 .. rest' /\ buffer_' + rest' = size_'
        /\ buffer_' + rest' =< size_' /\ buffer_' + copied' = buffer_ + n
    <3>1. buffer_ \in Nat /\ rest \in Nat /\ buffer_ + rest = size_ /\ rest - n \in Nat
      BY <1>2, Sending
    <3>. QED  BY <1>2, <2>1, <3>1
  <2>3. TypeOK'
    BY <1>1, <2>1, <2>2 DEF IInv, TypeOK
  <2>4. BlockShape' /\ WriterKeepsAll'
    BY <1>1, <1>2, <2>1, <2>2 DEF IInv, BlockShape, WriterKeepsAll
  <2>5. BufferHolds'
    BY <1>1, <2>1, SameHolds
  <2>6. Accounted'
    <3>1. Left \subseteq 1 .. asked /\ Lost \subseteq 1 .. asked
      BY DEF IInv, Accounted
    <3>2. Lost' = Lost
      BY <2>1 DEF Lost
    <3>3. /\ Bytes(buffer_ + copied, buffer_ + n) \subseteq 1 .. asked
          /\ Pending \ Bytes(buffer_ + copied, buffer_ + n) = Bytes(buffer_ + n, size_)
      BY StillPending
    <3>4. Bytes(buffer_ + copied, size_)' = Bytes(buffer_ + n, size_)
      BY <2>1, <2>2 DEF Bytes
    <3>5. Pending' = Pending \ Bytes(buffer_ + copied, buffer_ + n)
      BY <1>1, <3>2 DEF Pending
    <3>. QED  BY <1>1, <3>1, <3>2, <3>3, <3>4, <3>5 DEF Accounted
  <2>. QED  BY <2>3, <2>4, <2>5, <2>6 DEF IInv
<1>3. CASE /\ code = "NOSPACE" /\ caller = "writer"
           /\ pc' = "wait"
           /\ UNCHANGED <<store, out, fate>>
  <2>1. /\ buf' = buf /\ capacity_' = capacity_ /\ size_' = size_ /\ external_' = external_
        /\ first' = first /\ buffer_' = buffer_ /\ rest' = rest /\ copied' = copied
        /\ refused' = refused /\ cleared' = cleared /\ cut' = cut
    BY <1>3 DEF store, out, fate
  <2>2. wire' = wire /\ pc' = "wait"
    BY <1>3
  <2>3. TypeOK'
    BY <1>1, <2>1, <2>2 DEF IInv, TypeOK
  <2>4. BlockShape' /\ WriterKeepsAll'
    BY <1>1, <2>1, <2>2 DEF IInv, BlockShape, WriterKeepsAll
  <2>. QED  BY <1>1, <2>1, <2>2, <2>3, <2>4, SameBytes DEF IInv
<1>4. CASE /\ caller = "once" \/ n = rest \/ code \notin {"OK", "NOSPACE"}
           /\ cut' = cut \cup Bytes(buffer_ + n, buffer_ + rest)
           /\ EndBlock
           /\ UNCHANGED <<refused, cleared>>
  <2>1. caller = "writer" /\ conn = "open" => n = rest
    BY <1>4
  <2>. QED  BY <1>4, <2>1, EndIInv
<1>. QED  BY <1>2, <1>3, <1>4 DEF Returns

\* A call that returns without taking any more.
LEMMA QuietReturnIInv ==
  ASSUME IInv, pc = "send", NEW code, Returns(code, copied), UNCHANGED <<asked, fixed, kernel>>,
         code \notin {"OK", "NOSPACE"} => conn = "gone"
  PROVE  IInv'
<1>1. copied \in Nat /\ copied =< rest /\ rest \in Nat /\ buffer_ + copied \in Nat
  BY Sending
<1>2. room' = room /\ conn' = conn /\ wire' = wire
  BY DEF kernel
<1>3. room' \in 0 .. KernelRoom /\ wire' \in Seq(Nat)
  BY <1>2 DEF IInv, TypeOK
<1>4. Bytes(buffer_ + copied, buffer_ + copied) = {}
  BY <1>1 DEF Bytes
<1>5. Left' = Left \cup Bytes(buffer_ + copied, buffer_ + copied)
  BY <1>2, <1>4 DEF Left
<1>. QED  BY <1>1, <1>2, <1>3, <1>5, ReturnsIInv

LEMMA QuietSendIInv == ASSUME IInv, SendAll \/ SendShort \/ SendNoSpace \/ SendFails PROVE IInv'
<1>1. CASE SendAll \/ SendShort
  <2>1. pc = "send" /\ Returns("OK", copied) /\ UNCHANGED <<asked, fixed, kernel>>
    BY <1>1 DEF SendAll, SendShort
  <2>. QED  BY <2>1, QuietReturnIInv
<1>2. CASE SendNoSpace
  <2>1. pc = "send" /\ copied = 0 /\ Returns("NOSPACE", 0) /\ UNCHANGED <<asked, fixed, kernel>>
    BY <1>2 DEF SendNoSpace, IInv, BlockShape
  <2>2. Returns("NOSPACE", copied)
    BY <2>1
  <2>. QED  BY <2>1, <2>2, QuietReturnIInv
<1>3. CASE SendFails
  <2>1. /\ pc = "send" /\ copied = 0 /\ Returns("DISCONNECTED", 0) /\ conn = "gone"
        /\ UNCHANGED <<asked, fixed, kernel>>
    BY <1>3 DEF SendFails
  <2>2. Returns("DISCONNECTED", copied)
    BY <2>1
  <2>. QED  BY <2>1, <2>2, QuietReturnIInv
<1>. QED  BY <1>1, <1>2, <1>3

LEMMA SendSomeIInv == ASSUME IInv, SendSome PROVE IInv'
<1>1. PICK n \in 1 .. rest : Take(n) /\ Returns("OK", n)
  BY DEF SendSome
<1>2. pc = "send" /\ copied = 0 /\ UNCHANGED <<asked, fixed>>
  BY DEF SendSome, IInv, BlockShape
<1>3. /\ n \in Nat /\ rest \in Nat /\ n =< rest /\ buffer_ \in Nat /\ copied =< n
      /\ copied + n =< rest /\ buffer_ + copied + n = buffer_ + n
  BY <1>2, Sending
<1>4. /\ wire' \in Seq(Nat) /\ room' \in 0 .. KernelRoom /\ conn' = conn
      /\ Left' = Left \cup Bytes(buffer_ + copied, buffer_ + copied + n)
  BY <1>1, <1>2, <1>3, Taken
<1>5. Left' = Left \cup Bytes(buffer_ + copied, buffer_ + n)
  BY <1>3, <1>4
<1>. QED  BY <1>1, <1>2, <1>3, <1>4, <1>5, ReturnsIInv

LEMMA CopyIInv == ASSUME IInv, Copy PROVE IInv'
<1>1. PICK n \in 1 .. rest - copied : Take(n) /\ copied' = copied + n
  BY DEF Copy
<1>2. /\ pc = "send" /\ blocking_
      /\ asked' = asked /\ buf' = buf /\ capacity_' = capacity_ /\ size_' = size_
      /\ external_' = external_ /\ first' = first /\ caller' = caller /\ blocking_' = blocking_
      /\ pc' = pc /\ buffer_' = buffer_ /\ rest' = rest
      /\ refused' = refused /\ cleared' = cleared /\ cut' = cut
  BY DEF Copy, store, fixed, fate
<1>3. /\ n \in Nat /\ copied \in Nat /\ rest \in Nat /\ copied + n =< rest /\ buffer_ \in Nat
      /\ buffer_ + (copied + n) = buffer_ + copied + n
  BY <1>2, Sending
<1>4. /\ wire' \in Seq(Nat) /\ room' \in 0 .. KernelRoom /\ conn' = conn
      /\ Left' = Left \cup Bytes(buffer_ + copied, buffer_ + copied + n)
  BY <1>1, <1>2, <1>3, Taken
<1>5. copied' \in 0 .. rest'
  BY <1>1, <1>2, <1>3
<1>6. TypeOK'
  BY <1>2, <1>4, <1>5 DEF IInv, TypeOK
<1>7. BlockShape' /\ WriterKeepsAll'
  BY <1>2, <1>4 DEF IInv, BlockShape, WriterKeepsAll
<1>8. BufferHolds'
  BY <1>2, SameHolds
<1>9. Accounted'
  <2>1. Left \subseteq 1 .. asked /\ Lost \subseteq 1 .. asked
    BY DEF IInv, Accounted
  <2>2. Lost' = Lost
    BY <1>2 DEF Lost
  <2>3. copied + n \in Nat /\ copied =< copied + n
    BY <1>3
  <2>4. /\ Bytes(buffer_ + copied, buffer_ + (copied + n)) \subseteq 1 .. asked
        /\ Pending \ Bytes(buffer_ + copied, buffer_ + (copied + n))
             = Bytes(buffer_ + (copied + n), size_)
    BY <1>2, <1>3, <2>3, StillPending
  <2>5. Bytes(buffer_ + copied, size_)' = Bytes(buffer_ + (copied + n), size_)
    BY <1>1, <1>2 DEF Bytes
  <2>6. Pending' = Pending \ Bytes(buffer_ + copied, buffer_ + (copied + n))
    BY <1>2, <1>3, <1>4, <2>2 DEF Pending
  <2>. QED  BY <1>2, <1>3, <1>4, <2>1, <2>2, <2>4, <2>5, <2>6 DEF Accounted
<1>. QED  BY <1>6, <1>7, <1>8, <1>9 DEF IInv

-----------------------------------------------------------------------------
(* The invariant, and what it says.                                        *)

LEMMA InitIInv == Init => IInv
<1>. SUFFICES ASSUME Init
              PROVE  IInv
  OBVIOUS
<1>1. Left = {} /\ Lost = {} /\ Pending = {} /\ wire \in Seq(Nat)
  BY DEF Init, Left, Lost, Pending
<1>2. Bytes(0, size_) = {} /\ Bytes(buffer_ + copied, size_) = {}
  BY DEF Init, Bytes
<1>3. TypeOK
  <2>1. buf \in [0 .. capacity_ - 1 -> Nat]
    BY DEF Init
  <2>2. external_ \in BOOLEAN /\ blocking_ \in BOOLEAN /\ caller \in Callers
    BY OutputAssumption DEF Init
  <2>. QED  BY <1>1, <2>1, <2>2, OutputAssumption DEF Init, TypeOK
<1>4. BufferHolds
  <2>1. first + 1 .. asked = {} /\ refused = {} /\ size_ = 0
    BY DEF Init
  <2>2. \A i, j \in 0 .. size_ - 1 : i < j => buf[i] < buf[j]
    BY <2>1
  <2>. QED  BY <1>2, <2>1, <2>2 DEF BufferHolds
<1>5. WriterKeepsAll /\ BlockShape
  BY DEF Init, WriterKeepsAll, BlockShape
<1>6. Accounted
  BY <1>1, <1>2 DEF Accounted
<1>. QED  BY <1>3, <1>4, <1>5, <1>6 DEF IInv

LEMMA NextIInv == IInv /\ [Next]_vars => IInv'
<1>. SUFFICES ASSUME IInv, [Next]_vars
              PROVE  IInv'
  OBVIOUS
<1>1. CASE UNCHANGED vars
  <2>1. TypeOK' /\ BlockShape' /\ WriterKeepsAll'
    BY <1>1 DEF vars, IInv, TypeOK, BlockShape, WriterKeepsAll
  <2>2. BufferHolds' /\ Accounted'
    BY <1>1, SameBytes DEF vars
  <2>. QED  BY <2>1, <2>2 DEF IInv
<1>2. CASE Next
  <2>1. CASE Write \/ Clear \/ Drain \/ Hangup \/ Send \/ Resume
    BY <2>1, WriteIInv, ClearIInv, PeerIInv, SendIInv
  <2>2. CASE Copy \/ SendAll \/ SendShort \/ SendSome \/ SendNoSpace \/ SendFails
    BY <2>2, CopyIInv, QuietSendIInv, SendSomeIInv
  <2>. QED  BY <1>2, <2>1, <2>2 DEF Next, Sender
<1>. QED  BY <1>1, <1>2

LEMMA SpecIInv == Spec => []IInv
<1>. QED  BY InitIInv, NextIInv, PTL DEF Spec

\* The Buffer is as large as it says, and a write is given no more than it holds.
THEOREM TypeCorrect == Spec => []TypeOK
<1>. QED  BY SpecIInv, PTL DEF IInv

\* Whatever values are written, and however the Buffer grows, it holds the
\* bytes of its block in order; a value is refused only in a block longer than
\* the limit.
THEOREM HoldsCorrect == Spec => []BufferHolds
<1>. QED  BY SpecIInv, PTL DEF IInv

\* A BufferWriter loses no byte while the connection is alive.
THEOREM WriterCorrect == Spec => []WriterKeepsAll
<1>. QED  BY SpecIInv, PTL DEF IInv

-----------------------------------------------------------------------------
(* ByteSink.                                                               *)

LEMMA PromisePending == Promise!Pending = Pending
<1>. QED  BY DEF Promise!Pending, Promise!Left, Pending, Left, Lost

\* Bytes handed over are kept, or all of them are refused.
LEMMA WriteAsks == ASSUME IInv, Write PROVE Promise!Ask
<1>1. PICK n \in Lengths :
        /\ asked + n =< MaxAsked /\ asked' = asked + n
        /\ \/ UNCHANGED refused
           \/ refused' = refused \cup asked + 1 .. asked + n
  BY DEF Write
<1>2. wire' = wire /\ cleared' = cleared /\ cut' = cut
  BY DEF Write, kernel
<1>3. (refused \cup cleared \cup cut)'
        \in {refused \cup cleared \cup cut, (refused \cup cleared \cup cut) \cup asked + 1 .. asked'}
  BY <1>1, <1>2
<1>. QED  BY <1>1, <1>2, <1>3 DEF Promise!Ask

\* What clear() drops, or a write leaves out, is all that was pending.
LEMMA Loses ==
  ASSUME asked' = asked, wire' = wire, Lost' = Lost \cup Pending
  PROVE  [Promise!Next]_Promise!vars
<1>1. CASE Pending = {}
  BY <1>1 DEF Promise!vars, Lost
<1>2. CASE Pending # {}
  BY <1>2, PromisePending DEF Promise!Next, Promise!Lose, Lost
<1>. QED  BY <1>1, <1>2

\* The first of the pending bytes leave, in the order of the Buffer.
LEMMA Leaves ==
  ASSUME IInv, pc = "send", NEW n \in Nat \ {0}, copied + n =< rest, Take(n), asked' = asked,
         Lost' = Lost \/ Lost' = Lost \cup (Pending \ Left')
  PROVE  Promise!Leave
<1>. DEFINE a == buffer_ + copied
            w == Len(wire)
<1>1. /\ asked \in Nat /\ size_ \in Nat /\ a \in Nat /\ a + n =< size_ /\ size_ =< asked
      /\ \A i \in 0 .. size_ - 1 : buf[i] \in Nat
      /\ Pending = Bytes(a, size_)
  BY Sending
<1>2. /\ w \in Nat /\ Len(wire') = w + n
      /\ \A i \in 1 .. w : wire'[i] = wire[i]
      /\ \A i \in 1 .. n : wire'[w + i] = buf[a + i - 1]
  BY Taken
<1>3. \A i, j \in 0 .. size_ - 1 : i < j => buf[i] < buf[j]
  BY DEF IInv, BufferHolds
<1>. HIDE DEF a, w
<1>4. n \in 1 .. asked
  BY <1>1
<1>5. \A i \in w + 1 .. w + n : /\ i - w \in 1 .. n /\ a + (i - w) - 1 \in a .. size_ - 1
                                /\ a + (i - w) - 1 \in 0 .. size_ - 1
                                /\ wire'[i] = buf[a + (i - w) - 1]
  <2>. SUFFICES ASSUME NEW i \in w + 1 .. w + n
                PROVE  /\ i - w \in 1 .. n /\ a + (i - w) - 1 \in a .. size_ - 1
                       /\ a + (i - w) - 1 \in 0 .. size_ - 1
                       /\ wire'[i] = buf[a + (i - w) - 1]
    OBVIOUS
  <2>1. i - w \in 1 .. n /\ w + (i - w) = i
    BY <1>2
  <2>2. wire'[w + (i - w)] = buf[a + (i - w) - 1]
    BY <1>2, <2>1
  <2>3. a + (i - w) - 1 \in a .. size_ - 1 /\ a + (i - w) - 1 \in 0 .. size_ - 1
    BY <1>1, <2>1
  <2>. QED  BY <2>1, <2>2, <2>3
<1>6. \A i \in w + 1 .. w + n : wire'[i] \in Pending
  BY <1>1, <1>5 DEF Bytes
<1>7. \A i \in w + 1 .. w + n : \A j \in w + 1 .. i - 1 : wire'[j] < wire'[i]
  <2>. SUFFICES ASSUME NEW i \in w + 1 .. w + n, NEW j \in w + 1 .. i - 1
                PROVE  wire'[j] < wire'[i]
    OBVIOUS
  <2>1. j \in w + 1 .. w + n /\ a + (j - w) - 1 < a + (i - w) - 1
    BY <1>1, <1>2
  <2>. QED  BY <1>3, <1>5, <2>1
<1>8. \A i \in w + 1 .. w + n : \A k \in Pending :
        k < wire'[i] => \E j \in w + 1 .. i - 1 : wire'[j] = k
  <2>. SUFFICES ASSUME NEW i \in w + 1 .. w + n, NEW k \in Pending, k < wire'[i]
                PROVE  \E j \in w + 1 .. i - 1 : wire'[j] = k
    OBVIOUS
  <2>1. PICK m \in a .. size_ - 1 : k = buf[m]
    BY <1>1 DEF Bytes
  <2>. DEFINE p == a + (i - w) - 1
  <2>2. /\ m \in 0 .. size_ - 1 /\ p \in 0 .. size_ - 1 /\ wire'[i] = buf[p]
        /\ buf[m] \in Nat /\ buf[p] \in Nat /\ m \in Nat /\ p \in Nat
    BY <1>1, <1>5, <2>1
  <2>3. m < p
    <3>1. CASE p < m
      <4>1. buf[p] < buf[m]
        BY <1>3, <2>2, <3>1
      <4>. QED  BY <2>1, <2>2, <4>1
    <3>2. CASE p = m
      BY <2>1, <2>2, <3>2
    <3>. QED  BY <2>2, <3>1, <3>2
  <2>. DEFINE j == w + (m - a) + 1
  <2>4. j \in w + 1 .. i - 1 /\ j \in w + 1 .. w + n /\ a + (j - w) - 1 = m
    BY <1>1, <1>2, <2>1, <2>3
  <2>5. wire'[j] = k
    BY <1>5, <2>1, <2>4
  <2>. QED  BY <2>4, <2>5
<1>9. (refused \cup cleared \cup cut)'
        \in {refused \cup cleared \cup cut,
             (refused \cup cleared \cup cut) \cup (Pending \ {wire'[i] : i \in 1 .. Len(wire')})}
  BY DEF Lost, Left
<1>10. \E m \in 1 .. asked :
         /\ Len(wire') = Len(wire) + m
         /\ \A i \in 1 .. Len(wire) : wire'[i] = wire[i]
         /\ \A i \in Len(wire) + 1 .. Len(wire') :
              /\ wire'[i] \in Pending
              /\ \A j \in Len(wire) + 1 .. i - 1 : wire'[j] < wire'[i]
              /\ \A k \in Pending : k < wire'[i] =>
                   \E j \in Len(wire) + 1 .. i - 1 : wire'[j] = k
  <2>. WITNESS n \in 1 .. asked
  <2>. QED  BY <1>2, <1>6, <1>7, <1>8 DEF w
<1>. QED  BY <1>9, <1>10, PromisePending DEF Promise!Leave

\* What the bytes are that a call leaves out.
LEMMA LeftOut ==
  ASSUME IInv, pc = "send", NEW code, NEW n \in Nat, copied =< n, n =< rest, Returns(code, n)
  PROVE  Lost' = Lost \/ Lost' = Lost \cup Bytes(buffer_ + n, size_)
<1>1. Bytes(buffer_ + n, buffer_ + rest) = Bytes(buffer_ + n, size_)
  BY StillPending
<1>2. CASE UNCHANGED fate
  BY <1>2 DEF fate, Lost
<1>3. CASE cut' = cut \cup Bytes(buffer_ + n, buffer_ + rest) /\ UNCHANGED <<refused, cleared>>
  BY <1>1, <1>3 DEF Lost
<1>. QED  BY <1>2, <1>3 DEF Returns

\* A call that returns without taking any more loses what is pending, or nothing.
LEMMA QuietReturnMaps ==
  ASSUME IInv, pc = "send", NEW code, Returns(code, copied), UNCHANGED <<asked, kernel>>
  PROVE  [Promise!Next]_Promise!vars
<1>1. copied \in Nat /\ copied =< rest /\ Pending = Bytes(buffer_ + copied, size_)
  BY Sending
<1>2. Lost' = Lost \/ Lost' = Lost \cup Pending
  BY <1>1, LeftOut
<1>3. asked' = asked /\ wire' = wire
  BY DEF kernel
<1>4. CASE Lost' = Lost
  BY <1>3, <1>4 DEF Promise!vars, Lost
<1>. QED  BY <1>2, <1>3, <1>4, Loses

LEMMA SendSomeMaps == ASSUME IInv, SendSome PROVE [Promise!Next]_Promise!vars
<1>1. PICK n \in 1 .. rest : Take(n) /\ Returns("OK", n)
  BY DEF SendSome
<1>2. pc = "send" /\ copied = 0 /\ asked' = asked
  BY DEF SendSome, IInv, BlockShape
<1>3. /\ n \in Nat \ {0} /\ rest \in Nat /\ n =< rest /\ buffer_ \in Nat /\ copied =< n
      /\ copied + n =< rest /\ buffer_ + copied + n = buffer_ + n
  BY <1>2, Sending
<1>4. Left' = Left \cup Bytes(buffer_ + copied, buffer_ + n)
  BY <1>1, <1>2, <1>3, Taken
<1>5. Pending \ Bytes(buffer_ + copied, buffer_ + n) = Bytes(buffer_ + n, size_)
  BY <1>2, <1>3, StillPending
<1>6. Pending \ Left' = Bytes(buffer_ + n, size_)
  BY <1>4, <1>5 DEF Pending
<1>7. Lost' = Lost \/ Lost' = Lost \cup Bytes(buffer_ + n, size_)
  BY <1>1, <1>2, <1>3, LeftOut
<1>. QED  BY <1>1, <1>2, <1>3, <1>6, <1>7, Leaves DEF Promise!Next

LEMMA CopyMaps == ASSUME IInv, Copy PROVE [Promise!Next]_Promise!vars
<1>1. PICK n \in 1 .. rest - copied : Take(n)
  BY DEF Copy
<1>2. pc = "send" /\ asked' = asked /\ Lost' = Lost
  BY DEF Copy, fate, Lost
<1>3. n \in Nat \ {0} /\ copied + n =< rest
  BY <1>2, Sending
<1>. QED  BY <1>1, <1>2, <1>3, Leaves DEF Promise!Next

LEMMA SendMaps ==
  ASSUME IInv, SendAll \/ SendShort \/ SendNoSpace \/ SendFails
  PROVE  [Promise!Next]_Promise!vars
<1>1. CASE SendAll \/ SendShort
  <2>1. pc = "send" /\ Returns("OK", copied) /\ UNCHANGED <<asked, kernel>>
    BY <1>1 DEF SendAll, SendShort
  <2>. QED  BY <2>1, QuietReturnMaps
<1>2. CASE SendNoSpace
  <2>1. pc = "send" /\ Returns("NOSPACE", copied) /\ UNCHANGED <<asked, kernel>>
    BY <1>2 DEF SendNoSpace, IInv, BlockShape
  <2>. QED  BY <2>1, QuietReturnMaps
<1>3. CASE SendFails
  <2>1. pc = "send" /\ Returns("DISCONNECTED", copied) /\ UNCHANGED <<asked, kernel>>
    BY <1>3 DEF SendFails
  <2>. QED  BY <2>1, QuietReturnMaps
<1>. QED  BY <1>1, <1>2, <1>3

LEMMA ClearMaps == ASSUME IInv, Clear PROVE [Promise!Next]_Promise!vars
<1>1. /\ pc = "build" /\ asked' = asked /\ wire' = wire
      /\ cleared' = cleared \cup Bytes(0, size_) /\ refused' = refused /\ cut' = cut
  BY DEF Clear, kernel
<1>2. buffer_ + copied = 0
  BY <1>1 DEF IInv, TypeOK, BlockShape
<1>3. Pending = Bytes(0, size_)
  BY <1>2 DEF IInv, Accounted
<1>4. Lost' = Lost \cup Pending
  BY <1>1, <1>3 DEF Lost
<1>. QED  BY <1>1, <1>4, Loses

\* The peer reads, or goes; a write begins, or goes on: ByteSink sees nothing.
LEMMA Hidden == ASSUME Drain \/ Hangup \/ Send \/ Resume PROVE UNCHANGED Promise!vars
<1>. QED  BY DEF Drain, Hangup, Send, Resume, kernel, fate, Promise!vars

LEMMA NextMaps == IInv /\ [Next]_vars => [Promise!Next]_Promise!vars
<1>. SUFFICES ASSUME IInv, [Next]_vars
              PROVE  [Promise!Next]_Promise!vars
  OBVIOUS
<1>1. CASE UNCHANGED vars
  BY <1>1 DEF vars, Promise!vars
<1>2. CASE Write
  BY <1>2, WriteAsks DEF Promise!Next
<1>3. CASE Clear \/ Drain \/ Hangup \/ Send \/ Resume
  BY <1>3, ClearMaps, Hidden
<1>4. CASE Copy \/ SendAll \/ SendShort \/ SendSome \/ SendNoSpace \/ SendFails
  BY <1>4, CopyMaps, SendMaps, SendSomeMaps
<1>. QED  BY <1>1, <1>2, <1>3, <1>4 DEF Next, Sender

\* The output path keeps the promise of ByteSink: bytes leave once and in
\* order, and the only gaps are the bytes that were refused, cleared, or left
\* out by a write that fell short.
THEOREM SinkPromise == Spec => ImplementsByteSink
<1>1. Init => Promise!Init
  BY DEF Init, Promise!Init
<1>. QED  BY <1>1, SpecIInv, NextMaps, PTL DEF Spec, ImplementsByteSink, Promise!Spec
=============================================================================
