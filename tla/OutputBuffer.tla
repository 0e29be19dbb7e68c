---------------------------- MODULE OutputBuffer ----------------------------
(***************************************************************************)
(* The output path of include/Socket/SysIO.h: a Buffer in which a block is *)
(* put together value by value, and Socket::write, which sends it.  Two    *)
(* callers send a block:                                                   *)
(*                                                                         *)
(*   "once"    every Upload* and Run*Init of Rcpp_Connector: one write,    *)
(*             whose result and count nobody looks at                      *)
(*   "writer"  a BufferWriter: start(), and resume() after each NOSPACE    *)
(*                                                                         *)
(* A byte is the number it has among the bytes handed to Buffer::write, so *)
(* that a byte lost, repeated or out of order shows.                       *)
(***************************************************************************)
EXTENDS Integers, Sequences

CONSTANTS Callers,    \* those of "once" and "writer" that are used
          Modes,      \* blocking_ of the socket
          Externals,  \* external_ of the Buffer
          InitCap,    \* its capacity (256)
          MaxArray,   \* MAX_ARRAY_BUFFER (16777216)
          KernelRoom, \* what the kernel holds of what was sent
          Lengths,    \* the lengths of the values
          MaxAsked    \* bound on the number of bytes (for TLC)

ASSUME OutputAssumption ==
  /\ Callers \subseteq {"once", "writer"} /\ Modes \subseteq BOOLEAN /\ Externals \subseteq BOOLEAN
  /\ InitCap \in Nat \ {0} /\ MaxArray \in Nat /\ KernelRoom \in Nat \ {0}
  /\ Lengths \subseteq Nat \ {0} /\ MaxAsked \in Nat

VARIABLES asked,       \* how many bytes were handed to Buffer::write
          buf, capacity_, size_, external_,  \* the Buffer
          first,       \* the bytes up to this one belong to earlier blocks
          caller, blocking_,
          pc,          \* "build", "send" or "wait"
          buffer_, rest,  \* buffer_ (an offset) and size_ of the BufferWriter,
                          \* or what the one write is given
          copied,      \* how much of it the send() in progress has taken
          room,        \* free room in the kernel
          conn,        \* "open" or "gone"
          wire,        \* the bytes the kernel took, in order
          refused, cleared, cut  \* the bytes that Buffer::write refused, that
                                 \* clear() dropped, and that a write left out

store == <<buf, capacity_, size_, external_, first>>
out   == <<buffer_, rest, copied>>
kernel == <<room, conn, wire>>
fate  == <<refused, cleared, cut>>
fixed == <<caller, blocking_>>
vars  == <<asked, buf, capacity_, size_, external_, first, caller, blocking_, pc, buffer_, rest,
           copied, room, conn, wire, refused, cleared, cut>>

\* What the bytes at offsets a .. b - 1 are.
Part(a, b)  == [i \in 1 .. b - a |-> buf[a + i - 1]]
Bytes(a, b) == {buf[i] : i \in a .. b - 1}

Init ==
  /\ asked = 0 /\ first = 0
  /\ external_ \in Externals /\ capacity_ = InitCap /\ size_ = 0
  /\ buf = [i \in 0 .. InitCap - 1 |-> 0]
  /\ caller \in Callers /\ blocking_ \in Modes
  /\ pc = "build" /\ buffer_ = 0 /\ rest = 0 /\ copied = 0
  /\ room = KernelRoom /\ conn = "open" /\ wire = <<>>
  /\ refused = {} /\ cleared = {} /\ cut = {}

-----------------------------------------------------------------------------
(* Buffer.                                                                 *)

\* A mutant: the new buffer is twice the old one, whatever the value.
NewCapacityDoubles(n) == 2 * capacity_

NewCapacity(n) == IF size_ + n > 2 * capacity_ THEN size_ + n ELSE 2 * capacity_

\* A mutant: a buffer that reaches the limit is refused growth before it is full.
MayGrowBelow == ~external_ /\ 2 * capacity_ =< MaxArray

MayGrow == ~external_ /\ capacity_ < MaxArray

\* Memory behind size_ + n is whatever it was, or uninitialized in a new buffer.
Store(n, c) ==
  /\ capacity_' = c /\ size_' = size_ + n
  /\ buf' = [i \in 0 .. c - 1 |->
               IF i \in size_ .. size_ + n - 1 THEN asked + 1 + i - size_
               ELSE IF i < size_ \/ c = capacity_ THEN buf[i] ELSE 0]

Write ==
  /\ pc = "build"
  /\ \E n \in Lengths :
       /\ asked + n =< MaxAsked /\ asked' = asked + n
       /\ \/ /\ size_ + n =< capacity_
             /\ Store(n, capacity_)
             /\ UNCHANGED refused
          \/ /\ size_ + n > capacity_ /\ MayGrow
             /\ Store(n, NewCapacity(n))
             /\ UNCHANGED refused
          \/ /\ size_ + n > capacity_ /\ ~MayGrow
             /\ refused' = refused \cup asked + 1 .. asked + n
             /\ UNCHANGED <<buf, capacity_, size_>>
  /\ UNCHANGED <<external_, first, fixed, pc, out, kernel, cleared, cut>>

Clear ==
  /\ pc = "build" /\ size_ > 0
  /\ size_' = 0 /\ first' = asked
  /\ cleared' = cleared \cup Bytes(0, size_)
  /\ UNCHANGED <<asked, buf, capacity_, external_, fixed, pc, out, kernel, refused, cut>>

-----------------------------------------------------------------------------
(* The peer and the network.                                               *)

Drain ==
  /\ room < KernelRoom /\ room' \in room + 1 .. KernelRoom
  /\ UNCHANGED <<asked, store, fixed, pc, out, conn, wire, fate>>

Hangup ==
  /\ conn = "open" /\ conn' = "gone"
  /\ UNCHANGED <<asked, store, fixed, pc, out, room, wire, fate>>

-----------------------------------------------------------------------------
(* Sending a block.                                                        *)

\* The one write, or BufferWriter::start.
Send ==
  /\ pc = "build" /\ size_ > 0
  /\ pc' = "send" /\ buffer_' = 0 /\ rest' = size_ /\ copied' = 0
  /\ UNCHANGED <<asked, store, fixed, kernel, fate>>

\* BufferWriter::resume.
Resume ==
  /\ pc = "wait" /\ pc' = "send"
  /\ UNCHANGED <<asked, store, fixed, out, kernel, fate>>

\* The block is done with: its Buffer is destroyed and the next one is new.
EndBlock ==
  /\ pc' = "build" /\ buffer_' = 0 /\ rest' = 0 /\ copied' = 0
  /\ capacity_' = InitCap /\ size_' = 0 /\ buf' = [i \in 0 .. InitCap - 1 |-> 0]
  /\ first' = asked
  /\ UNCHANGED external_

\* A mutant: the writer starts again at the front of the block.
ReturnsRestarts(code, n) ==
  \/ /\ code = "OK" /\ n < rest /\ caller = "writer"
     /\ rest' = rest - n /\ copied' = 0
     /\ UNCHANGED <<store, pc, buffer_, fate>>
  \/ /\ code = "NOSPACE" /\ caller = "writer"
     /\ pc' = "wait"
     /\ UNCHANGED <<store, out, fate>>
  \/ /\ caller = "once" \/ n = rest \/ code \notin {"OK", "NOSPACE"}
     /\ cut' = cut \cup Bytes(buffer_ + n, buffer_ + rest)
     /\ EndBlock
     /\ UNCHANGED <<refused, cleared>>

\* Socket::write returns: the BufferWriter goes on behind what was written,
\* keeps the rest after NOSPACE and gives it up after any other error;
\* Rcpp_Connector takes the block for written.
Returns(code, n) ==
  \/ /\ code = "OK" /\ n < rest /\ caller = "writer"
     /\ buffer_' = buffer_ + n /\ rest' = rest - n /\ copied' = 0
     /\ UNCHANGED <<store, pc, fate>>
  \/ /\ code = "NOSPACE" /\ caller = "writer"
     /\ pc' = "wait"
     /\ UNCHANGED <<store, out, fate>>
  \/ /\ caller = "once" \/ n = rest \/ code \notin {"OK", "NOSPACE"}
     /\ cut' = cut \cup Bytes(buffer_ + n, buffer_ + rest)
     /\ EndBlock
     /\ UNCHANGED <<refused, cleared>>

\* The kernel takes n more bytes of the block.
Take(n) ==
  /\ n =< room /\ room' = room - n
  /\ wire' = wire \o Part(buffer_ + copied, buffer_ + copied + n)
  /\ UNCHANGED conn

\* A blocking send() copies as room becomes free, and returns when it has all.
Copy ==
  /\ pc = "send" /\ blocking_ /\ conn = "open"
  /\ \E n \in 1 .. rest - copied : Take(n) /\ copied' = copied + n
  /\ UNCHANGED <<asked, store, fixed, pc, buffer_, rest, fate>>

SendAll ==
  /\ pc = "send" /\ blocking_ /\ copied = rest
  /\ Returns("OK", copied)
  /\ UNCHANGED <<asked, fixed, kernel>>

\* A signal, or the end of the connection, when some of it was copied: send()
\* returns how much.  (With nothing copied it is EINTR, and tried again.)
SendShort ==
  /\ pc = "send" /\ blocking_ /\ 0 < copied /\ copied < rest
  /\ Returns("OK", copied)
  /\ UNCHANGED <<asked, fixed, kernel>>

\* One that does not block takes what there is room for.
SendSome ==
  /\ pc = "send" /\ ~blocking_ /\ conn = "open"
  /\ \E n \in 1 .. rest : Take(n) /\ Returns("OK", n)
  /\ UNCHANGED <<asked, fixed>>

\* A mutant: a full kernel is reported as an error.
SendNoSpaceFails ==
  /\ pc = "send" /\ ~blocking_ /\ conn = "open" /\ room = 0
  /\ Returns("OTHERERR", 0)
  /\ UNCHANGED <<asked, fixed, kernel>>

SendNoSpace ==
  /\ pc = "send" /\ ~blocking_ /\ conn = "open" /\ room = 0
  /\ Returns("NOSPACE", 0)
  /\ UNCHANGED <<asked, fixed, kernel>>

\* A mutant: a broken connection is taken for a full kernel.
SendFailsWaits ==
  /\ pc = "send" /\ conn = "gone" /\ copied = 0
  /\ Returns("NOSPACE", 0)
  /\ UNCHANGED <<asked, fixed, kernel>>

SendFails ==
  /\ pc = "send" /\ conn = "gone" /\ copied = 0
  /\ Returns("DISCONNECTED", 0)
  /\ UNCHANGED <<asked, fixed, kernel>>

-----------------------------------------------------------------------------
Sender == Resume \/ Copy \/ SendAll \/ SendSome \/ SendNoSpace \/ SendFails

Next == Write \/ Clear \/ Send \/ SendShort \/ Drain \/ Hangup \/ Sender

Spec == Init /\ [][Next]_vars

\* The caller of a block goes on sending it, and a peer that is there reads.
FairSpec == Spec /\ WF_vars(Sender) /\ WF_vars(SendShort /\ conn = "gone") /\ WF_vars(Drain)

-----------------------------------------------------------------------------
(* Correctness.                                                            *)

\* The domains of the variables: the memory of the Buffer is as large as it
\* says, and what is being sent lies inside it.
TypeOK ==
  /\ asked \in Nat /\ first \in 0 .. asked
  /\ capacity_ \in Nat \ {0} /\ size_ \in 0 .. capacity_ /\ external_ \in BOOLEAN
  /\ buf \in [0 .. capacity_ - 1 -> Nat]
  /\ caller \in Callers /\ blocking_ \in BOOLEAN
  /\ pc \in {"build", "send", "wait"}
  /\ buffer_ \in Nat /\ rest \in Nat /\ copied \in 0 .. rest /\ buffer_ + rest =< size_
  /\ room \in 0 .. KernelRoom /\ conn \in {"open", "gone"}
  /\ wire \in Seq(Nat)
  /\ refused \subseteq Nat /\ cleared \subseteq Nat /\ cut \subseteq Nat

\* What a block may hold: MAX_ARRAY_BUFFER bytes, or an external buffer's room.
Limit == IF external_ THEN InitCap ELSE MaxArray

\* Whatever values were written and whenever the Buffer grew, it holds the
\* bytes of its block in order, all but those of the values it refused; and it
\* refuses a value only in a block that is too long, so that a block of at most
\* Limit bytes is never cut short by Buffer::write, whose result no caller
\* looks at.
BufferHolds ==
  /\ Bytes(0, size_) = (first + 1 .. asked) \ refused
  /\ \A i, j \in 0 .. size_ - 1 : i < j => buf[i] < buf[j]
  /\ refused \cap (first + 1 .. asked) # {} => asked - first > Limit

\* A BufferWriter loses no byte while the connection is alive, however little
\* the kernel takes at a time.
WriterKeepsAll == caller = "writer" /\ conn = "open" => cut = {}

\* What the caller may rely on (ByteSink): bytes leave once and in order, and
\* the only gaps are bytes refused, cleared, or left out by a write that fell
\* short, which the next block does not make up for.
Promise == INSTANCE ByteSink WITH lost <- refused \cup cleared \cup cut

ImplementsByteSink == Promise!Spec

\* A block that is being sent is done with at some time: the loops of start()
\* and resume() end, also when the connection breaks.
BlockEnds == (pc # "build") ~> (pc = "build")
=============================================================================
