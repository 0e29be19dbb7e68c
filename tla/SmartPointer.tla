---------------------------- MODULE SmartPointer ----------------------------
(***************************************************************************)
(* SmartPointer<T> and its Counter (include/Socket/SmartPointer.h), which  *)
(* own the socket and the stream of a connection.  addRef() and release()  *)
(* are atomic; everything else between them is an ordinary load or store,  *)
(* so that the operations of two threads interleave at each of them.       *)
(*                                                                         *)
(* A Counter is made with the object it owns and is never used again when  *)
(* it was deleted; touching a deleted one is what must not happen.         *)
(***************************************************************************)
EXTENDS Integers, FiniteSets

CONSTANTS Threads,
          Vars,         \* the SmartPointer variables of the program
          Owner,        \* the thread that constructs, assigns and destroys each
          Shared,       \* the variables that exist from the start and to the end,
                        \* that every thread may copy and use
          Written,      \* those of them that their owner assigns meanwhile: one
                        \* writer and many readers
          MaxCounters   \* bound on the number of Counters (for TLC)

ASSUME PointerAssumption ==
  /\ Owner \in [Vars -> Threads]
  /\ Shared \subseteq Vars /\ Written \subseteq Shared
  /\ IsFiniteSet(Vars) /\ IsFiniteSet(Threads)
  /\ MaxCounters \in Nat /\ Cardinality(Shared) =< MaxCounters

VARIABLES counterP_,  \* of each variable; 0 while it is not constructed
          count_,     \* of each Counter
          object,     \* p_ of each Counter: "null", "live" or "deleted"
          freed,      \* the Counters that were deleted
          made,       \* how many Counters were made
          revived,    \* a Counter was counted again after it had reached zero
          pc,         \* of each thread: the step its operation is at
          dst, src,   \* the variable it is applied to and the one it reads
          tmp, old    \* its locals

heap   == <<count_, object, freed, made, revived>>
locals == <<dst, src, tmp, old>>
vars   == <<counterP_, count_, object, freed, made, revived, pc, dst, src, tmp, old>>

Counters == 1 .. MaxCounters

NoVar == "none"

\* The variables a thread reads, those it makes and destroys, and those it assigns.
Readable(t) == {v \in Vars : counterP_[v] # 0 /\ (Owner[v] = t \/ v \in Shared)}
Private(t)  == {v \in Vars : Owner[v] = t /\ v \notin Shared}
Assigned(t) == {v \in Vars : Owner[v] = t /\ v \notin Shared \ Written}
Writable(t) == {v \in Assigned(t) : counterP_[v] # 0}

\* Each shared variable owns an object of its own.
Init ==
  /\ made = Cardinality(Shared)
  /\ counterP_ \in [Vars -> 0 .. made]
  /\ \A v \in Vars : counterP_[v] # 0 <=> v \in Shared
  /\ \A v, w \in Shared : v # w => counterP_[v] # counterP_[w]
  /\ count_ = [c \in Counters |-> IF c =< made THEN 1 ELSE 0]
  /\ object = [c \in Counters |-> IF c =< made THEN "live" ELSE "null"]
  /\ freed = {} /\ revived = FALSE
  /\ pc = [t \in Threads |-> "idle"]
  /\ dst = [t \in Threads |-> NoVar] /\ src = [t \in Threads |-> NoVar]
  /\ tmp = [t \in Threads |-> 0] /\ old = [t \in Threads |-> 0]

-----------------------------------------------------------------------------
(* Steps of an operation.                                                  *)

At(t, from, to) == pc[t] = from /\ pc' = [pc EXCEPT ![t] = to]

\* The operation is over; its locals with it.
Done(t) ==
  /\ pc' = [pc EXCEPT ![t] = "idle"]
  /\ dst' = [dst EXCEPT ![t] = NoVar] /\ src' = [src EXCEPT ![t] = NoVar]
  /\ tmp' = [tmp EXCEPT ![t] = 0] /\ old' = [old EXCEPT ![t] = 0]

\* new Counter(p) with its first reference.
NewCounter(p) ==
  /\ made < MaxCounters /\ made' = made + 1
  /\ count_' = [count_ EXCEPT ![made'] = 1]
  /\ object' = [object EXCEPT ![made'] = p]
  /\ UNCHANGED <<freed, revived>>

\* Nothing looks at the count it adds to.
AddRef(c) ==
  /\ count_' = [count_ EXCEPT ![c] = @ + 1]
  /\ revived' = (revived \/ count_[c] = 0)
  /\ UNCHANGED <<object, freed, made>>

\* A pointer is read: what was read stays in a local until it is counted or used.
Read(t, s) ==
  /\ src' = [src EXCEPT ![t] = s]
  /\ tmp' = [tmp EXCEPT ![t] = counterP_[s]]

\* SmartPointer(T* p) of a variable that did not exist.
Construct(t) ==
  /\ pc[t] = "idle"
  /\ \E v \in Private(t) :
       /\ counterP_[v] = 0
       /\ NewCounter("live")
       /\ counterP_' = [counterP_ EXCEPT ![v] = made']
  /\ UNCHANGED <<pc, locals>>

\* SmartPointer(const SmartPointer<T>& sp): the pointer is read, then counted.
BeginCopy(t) ==
  /\ At(t, "idle", "copy")
  /\ \E v \in Private(t), s \in Readable(t) :
       /\ counterP_[v] = 0
       /\ dst' = [dst EXCEPT ![t] = v] /\ Read(t, s)
  /\ UNCHANGED <<counterP_, heap, old>>

\* A mutant: a copy does not count.
EndCopyUncounted(t) ==
  /\ pc[t] = "copy" /\ Done(t)
  /\ counterP_' = [counterP_ EXCEPT ![dst[t]] = tmp[t]]
  /\ UNCHANGED heap

EndCopy(t) ==
  /\ pc[t] = "copy" /\ Done(t)
  /\ AddRef(tmp[t])
  /\ counterP_' = [counterP_ EXCEPT ![dst[t]] = tmp[t]]

\* operator=: nothing is done between two pointers to the same object.
BeginAssign(t) ==
  /\ At(t, "idle", "count")
  /\ \E v \in Writable(t), s \in Readable(t) :
       /\ counterP_[v] # counterP_[s]
       /\ dst' = [dst EXCEPT ![t] = v] /\ Read(t, s)
  /\ UNCHANGED <<counterP_, heap, old>>

CountNew(t) ==
  /\ At(t, "count", "load")
  /\ AddRef(tmp[t])
  /\ UNCHANGED <<counterP_, locals>>

\* clear(): assigns a null pointer with a Counter of its own.
BeginClear(t) ==
  /\ At(t, "idle", "load")
  /\ NewCounter("null")
  /\ \E v \in Writable(t) : dst' = [dst EXCEPT ![t] = v]
  /\ tmp' = [tmp EXCEPT ![t] = made']
  /\ UNCHANGED <<counterP_, src, old>>

\* The two steps that the comments of operator= and clear() are about.
LoadOld(t) ==
  /\ At(t, "load", "store")
  /\ old' = [old EXCEPT ![t] = counterP_[dst[t]]]
  /\ UNCHANGED <<counterP_, heap, dst, src, tmp>>

StoreNew(t) ==
  /\ At(t, "store", "release")
  /\ counterP_' = [counterP_ EXCEPT ![dst[t]] = tmp[t]]
  /\ UNCHANGED <<heap, locals>>

\* ~SmartPointer.
Destroy(t) ==
  /\ At(t, "idle", "release")
  /\ \E v \in Private(t) :
       /\ counterP_[v] # 0
       /\ old' = [old EXCEPT ![t] = counterP_[v]]
       /\ counterP_' = [counterP_ EXCEPT ![v] = 0]
  /\ UNCHANGED <<heap, dst, src, tmp>>

\* A mutant: the last reference is taken for the one before it.
ReleaseLate(t) ==
  /\ pc[t] = "release"
  /\ count_' = [count_ EXCEPT ![old[t]] = @ - 1]
  /\ \/ count_'[old[t]] < 0 /\ At(t, "release", "delete") /\ UNCHANGED locals
     \/ count_'[old[t]] >= 0 /\ Done(t)
  /\ UNCHANGED <<counterP_, object, freed, made, revived>>

\* A mutant: the count is read again after it was released.
ReleaseEarly(t) ==
  /\ pc[t] = "release"
  /\ count_' = [count_ EXCEPT ![old[t]] = @ - 1]
  /\ \/ count_'[old[t]] =< 1 /\ At(t, "release", "delete") /\ UNCHANGED locals
     \/ count_'[old[t]] > 1 /\ Done(t)
  /\ UNCHANGED <<counterP_, object, freed, made, revived>>

Release(t) ==
  /\ pc[t] = "release"
  /\ count_' = [count_ EXCEPT ![old[t]] = @ - 1]
  /\ \/ count_'[old[t]] = 0 /\ At(t, "release", "delete") /\ UNCHANGED locals
     \/ count_'[old[t]] # 0 /\ Done(t)
  /\ UNCHANGED <<counterP_, object, freed, made, revived>>

\* delete (T*) oldCounter->p_, which does nothing to a null pointer.
DeleteObject(t) ==
  /\ At(t, "delete", "free")
  /\ object' = [object EXCEPT ![old[t]] = IF @ = "null" THEN "null" ELSE "deleted"]
  /\ UNCHANGED <<counterP_, count_, freed, made, revived, locals>>

DeleteCounter(t) ==
  /\ pc[t] = "free" /\ Done(t)
  /\ freed' = freed \cup {old[t]}
  /\ UNCHANGED <<counterP_, count_, object, made, revived>>

\* operator->: the pointer is read, then the object used.
BeginUse(t) ==
  /\ At(t, "idle", "use")
  /\ \E s \in Readable(t) : Read(t, s)
  /\ UNCHANGED <<counterP_, heap, dst, old>>

EndUse(t) == pc[t] = "use" /\ Done(t) /\ UNCHANGED <<counterP_, heap>>

-----------------------------------------------------------------------------
Start(t) ==
  \/ Construct(t) \/ BeginCopy(t) \/ BeginAssign(t) \/ BeginClear(t) \/ Destroy(t) \/ BeginUse(t)

Continue(t) ==
  \/ EndCopy(t) \/ CountNew(t) \/ LoadOld(t) \/ StoreNew(t) \/ Release(t)
  \/ DeleteObject(t) \/ DeleteCounter(t) \/ EndUse(t)

Next == \E t \in Threads : Start(t) \/ Continue(t)

Spec == Init /\ [][Next]_vars

\* A thread that is in an operation goes on with it.
FairSpec == Spec /\ \A t \in Threads : WF_vars(Continue(t))

-----------------------------------------------------------------------------
(* Correctness.                                                            *)

\* The domains of the variables; no count falls below zero.
TypeOK ==
  /\ counterP_ \in [Vars -> 0 .. MaxCounters]
  /\ count_ \in [Counters -> Nat]
  /\ object \in [Counters -> {"null", "live", "deleted"}]
  /\ freed \subseteq Counters /\ made \in 0 .. MaxCounters /\ revived \in BOOLEAN
  /\ pc \in [Threads -> {"idle", "copy", "count", "load", "store", "release", "delete", "free", "use"}]
  /\ dst \in [Threads -> Vars \cup {NoVar}] /\ src \in [Threads -> Vars \cup {NoVar}]
  /\ tmp \in [Threads -> 0 .. MaxCounters] /\ old \in [Threads -> 0 .. MaxCounters]

\* The Counters that the next step of a thread reads or writes.
Touched(t) ==
  CASE pc[t] \in {"copy", "count", "use"}         -> {tmp[t]}
    [] pc[t] \in {"release", "delete", "free"}    -> {old[t]}
    [] OTHER                                      -> {}

\* It reads or writes a Counter that was deleted, or the object of one.
UsesFreed(t, c) ==
  /\ c \in Touched(t)
  /\ c \in freed \/ (pc[t] \in {"use", "delete"} /\ object[c] = "deleted")

\* What a thread has read is not what the variable holds any more: its owner,
\* another thread, has assigned it between the two steps of the reader.
StaleRead(t) ==
  /\ pc[t] \in {"copy", "count", "use"}
  /\ src[t] \in Written /\ Owner[src[t]] # t
  /\ counterP_[src[t]] # tmp[t]

\* Which interleavings end in a deleted Counter: the first one that touches it
\* is a reader of a variable whose owner assigned it after it was read
\* (SmartPointer.h:34-35, 57-59, 49).  Neither the owner, nor a reader of a
\* variable that nobody assigns, nor two threads that release at once do, and
\* no object is deleted twice, until such a reader has counted what it read.
NoUseAfterFree ==
  ~revived => \A t \in Threads, c \in Counters : UsesFreed(t, c) => StaleRead(t)

\* What the comments of operator= and clear() say (SmartPointer.h:61, 84): it is
\* "safe if there is only one writer and multiple readers".
OneWriterIsSafe == \A t \in Threads, c \in Counters : ~UsesFreed(t, c)

\* The references to a Counter: the variables that hold it, a new pointer that
\* an assignment has counted and not stored, and an old one that it has
\* replaced and not released.
Refs(c) ==
  Cardinality({v \in Vars : counterP_[v] = c})
  + Cardinality({t \in Threads : pc[t] \in {"load", "store"} /\ tmp[t] = c})
  + Cardinality({t \in Threads : pc[t] = "release" /\ old[t] = c})

\* At every step of every operation a Counter counts its references, so the
\* last one to go, and no other, sees it reach zero.
CountsReferences == \A c \in Counters : count_[c] = Refs(c)

\* An object nothing refers to is deleted in the end, and its Counter too:
\* neither a socket nor a stream outlives the pointers to it.
Garbage(c) == c =< made /\ Refs(c) = 0

GarbageIsFreed == \A c \in Counters : Garbage(c) ~> (c \in freed /\ object[c] # "live")
=============================================================================
