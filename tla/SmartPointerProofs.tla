------------------------- MODULE SmartPointerProofs -------------------------
(***************************************************************************)
(* The invariants of SmartPointer for every number of threads, variables   *)
(* and counters, whoever owns and shares them.                             *)
(***************************************************************************)
EXTENDS SmartPointer, FiniteSetTheorems, TLAPS

\* What a thread knows at each step: the variable it works on is its own, the
\* Counter it has read and not counted is held by the variable it read, unless
\* the owner of that variable has assigned it, and what it loaded is still there
\* when it stores.
Shape(t) ==
  /\ pc[t] \in {"count", "load", "store"} => dst[t] \in Assigned(t)
  /\ pc[t] = "copy" => dst[t] \in Private(t) /\ counterP_[dst[t]] = 0
  /\ pc[t] \in {"count", "load", "store"} => counterP_[dst[t]] # 0
  /\ pc[t] \in {"copy", "count", "use"} =>
       src[t] \in Readable(t) /\ (counterP_[src[t]] = tmp[t] \/ StaleRead(t))
  /\ pc[t] \in {"copy", "count", "use", "load", "store"} => tmp[t] # 0
  /\ pc[t] = "store" => old[t] = counterP_[dst[t]]
  /\ pc[t] \in {"release", "delete", "free"} => old[t] # 0

ThreadShape == \A t \in Threads : Shape(t)

\* Nothing refers to a Counter before it is made.
OnlyMade ==
  /\ \A v \in Vars : counterP_[v] =< made
  /\ \A t \in Threads : tmp[t] =< made /\ old[t] =< made
  /\ \A c \in freed : c =< made
  /\ \A v \in Shared : counterP_[v] # 0

\* Freeing a Counter is the business of one thread, and the Counter is at zero
\* from then on.
Frees(t) == pc[t] \in {"delete", "free"}

OneFrees ==
  /\ \A c \in freed : count_[c] = 0
  /\ \A t \in Threads : Frees(t) => count_[old[t]] = 0 /\ old[t] \notin freed
  /\ \A t, u \in Threads : Frees(t) /\ Frees(u) /\ old[t] = old[u] => t = u
  /\ \A c \in Counters : object[c] = "deleted" =>
       /\ count_[c] = 0
       /\ c \in freed \/ \E t \in Threads : pc[t] = "free" /\ old[t] = c

\* The inductive invariant: the counts are right because the references move
\* as ThreadShape says, and who frees is known because the counts are right,
\* until a Counter at zero is counted again.
IInv == TypeOK /\ CountsReferences /\ ThreadShape /\ OnlyMade /\ (~revived => OneFrees)

-----------------------------------------------------------------------------
(* Counting the references to a Counter.                                   *)

Holders(c)   == {v \in Vars : counterP_[v] = c}
Storing(c)   == {t \in Threads : pc[t] \in {"load", "store"} /\ tmp[t] = c}
Releasing(c) == {t \in Threads : pc[t] = "release" /\ old[t] = c}

LEMMA PartsFinite ==
  ASSUME NEW c \in Counters
  PROVE  /\ IsFiniteSet(Holders(c)) /\ IsFiniteSet(Storing(c)) /\ IsFiniteSet(Releasing(c))
         /\ Cardinality(Holders(c)) \in Nat /\ Cardinality(Storing(c)) \in Nat
         /\ Cardinality(Releasing(c)) \in Nat
<1>1. Holders(c) \in SUBSET Vars /\ Storing(c) \in SUBSET Threads
      /\ Releasing(c) \in SUBSET Threads
  BY DEF Holders, Storing, Releasing
<1>2. IsFiniteSet(Holders(c)) /\ IsFiniteSet(Storing(c)) /\ IsFiniteSet(Releasing(c))
  BY <1>1, FS_Subset, PointerAssumption
<1>. QED  BY <1>2, FS_CardinalityType

LEMMA RefsParts ==
  ASSUME NEW c \in Counters
  PROVE  /\ Refs(c) = Cardinality(Holders(c)) + Cardinality(Storing(c)) + Cardinality(Releasing(c))
         /\ Refs(c) \in Nat
         /\ Refs(c) = 0 <=> Holders(c) = {} /\ Storing(c) = {} /\ Releasing(c) = {}
<1>1. Refs(c) = Cardinality(Holders(c)) + Cardinality(Storing(c)) + Cardinality(Releasing(c))
  BY DEF Refs, Holders, Storing, Releasing
<1>2. /\ Cardinality(Holders(c)) = 0 <=> Holders(c) = {}
      /\ Cardinality(Storing(c)) = 0 <=> Storing(c) = {}
      /\ Cardinality(Releasing(c)) = 0 <=> Releasing(c) = {}
  BY PartsFinite, FS_EmptySet
<1>. QED  BY <1>1, <1>2, PartsFinite

\* Two sets that differ in x at most.
LEMMA DifferInOne ==
  ASSUME NEW S, NEW T, NEW x, IsFiniteSet(S), S \ {x} = T \ {x}
  PROVE  /\ IsFiniteSet(T) /\ Cardinality(S) \in Nat /\ Cardinality(T) \in Nat
         /\ x \in S <=> x \in T => Cardinality(T) = Cardinality(S)
         /\ x \in S /\ x \notin T => Cardinality(T) = Cardinality(S) - 1
         /\ x \notin S /\ x \in T => Cardinality(T) = Cardinality(S) + 1
<1>1. Cardinality(S) \in Nat
  BY FS_CardinalityType
<1>2. CASE x \in S <=> x \in T
  <2>1. S = T
    BY <1>2
  <2>. QED  BY <1>1, <1>2, <2>1
<1>3. CASE x \in S /\ x \notin T
  <2>1. T = S \ {x}
    BY <1>3
  <2>. QED  BY <1>1, <1>3, <2>1, FS_RemoveElement, FS_CardinalityType
<1>4. CASE x \notin S /\ x \in T
  <2>1. T = S \cup {x}
    BY <1>4
  <2>. QED  BY <1>1, <1>4, <2>1, FS_AddElement, FS_CardinalityType
<1>. QED  BY <1>2, <1>3, <1>4

\* One element more, one less, or as many.
Gain(before, after) == (IF after THEN 1 ELSE 0) - (IF before THEN 1 ELSE 0)

LEMMA SetGain ==
  ASSUME NEW S, NEW T, NEW x, IsFiniteSet(S), S \ {x} = T \ {x}
  PROVE  Cardinality(T) = Cardinality(S) + Gain(x \in S, x \in T)
<1>. Cardinality(S) \in Nat /\ Cardinality(T) \in Nat
  BY DifferInOne
<1>1. CASE x \in S <=> x \in T
  <2>1. Cardinality(T) = Cardinality(S)
    BY <1>1, DifferInOne
  <2>. QED  BY <1>1, <2>1 DEF Gain
<1>2. CASE x \in S /\ x \notin T
  <2>1. Cardinality(T) = Cardinality(S) - 1
    BY <1>2, DifferInOne
  <2>. QED  BY <1>2, <2>1 DEF Gain
<1>3. CASE x \notin S /\ x \in T
  <2>1. Cardinality(T) = Cardinality(S) + 1
    BY <1>3, DifferInOne
  <2>. QED  BY <1>3, <2>1 DEF Gain
<1>. QED  BY <1>1, <1>2, <1>3

\* A step of thread t that stores into no other variable than v.
Only(t, v) ==
  /\ \A w \in Vars \ {v} : counterP_'[w] = counterP_[w]
  /\ \A u \in Threads \ {t} : pc'[u] = pc[u] /\ dst'[u] = dst[u] /\ src'[u] = src[u]
       /\ tmp'[u] = tmp[u] /\ old'[u] = old[u]

\* What it does to the references of a Counter.
LEMMA RefsStep ==
  ASSUME NEW t \in Threads, NEW v, Only(t, v), NEW c \in Counters
  PROVE  Refs(c)' = Refs(c) + Gain(v \in Holders(c), v \in Holders(c)')
                            + Gain(t \in Storing(c), t \in Storing(c)')
                            + Gain(t \in Releasing(c), t \in Releasing(c)')
<1>1. /\ Holders(c) \ {v} = Holders(c)' \ {v}
      /\ Storing(c) \ {t} = Storing(c)' \ {t}
      /\ Releasing(c) \ {t} = Releasing(c)' \ {t}
  BY DEF Only, Holders, Storing, Releasing
<1>2. IsFiniteSet(Holders(c)) /\ IsFiniteSet(Storing(c)) /\ IsFiniteSet(Releasing(c))
  BY PartsFinite
<1>3. Cardinality(Holders(c)') = Cardinality(Holders(c)) + Gain(v \in Holders(c), v \in Holders(c)')
  BY <1>1, <1>2, SetGain
<1>4. Cardinality(Storing(c)') = Cardinality(Storing(c)) + Gain(t \in Storing(c), t \in Storing(c)')
  BY <1>1, <1>2, SetGain
<1>5. Cardinality(Releasing(c)')
        = Cardinality(Releasing(c)) + Gain(t \in Releasing(c), t \in Releasing(c)')
  BY <1>1, <1>2, SetGain
<1>6. Refs(c) = Cardinality(Holders(c)) + Cardinality(Storing(c)) + Cardinality(Releasing(c))
  BY RefsParts
<1>7. Refs(c)' = Cardinality(Holders(c)') + Cardinality(Storing(c)') + Cardinality(Releasing(c)')
  BY DEF Refs, Holders, Storing, Releasing
<1>8. /\ Cardinality(Holders(c)) \in Nat /\ Cardinality(Storing(c)) \in Nat
      /\ Cardinality(Releasing(c)) \in Nat
  BY PartsFinite
<1>9. /\ Gain(v \in Holders(c), v \in Holders(c)') \in Int
       /\ Gain(t \in Storing(c), t \in Storing(c)') \in Int
       /\ Gain(t \in Releasing(c), t \in Releasing(c)') \in Int
  BY DEF Gain
<1>. QED  BY <1>3, <1>4, <1>5, <1>6, <1>7, <1>8, <1>9

-----------------------------------------------------------------------------
(* What a thread may touch.                                                *)

\* A Counter that a thread has read, counted, or not released yet is held, but
\* for what it read of a variable that was assigned since.
LEMMA Held ==
  ASSUME IInv, NEW t \in Threads
  PROVE  /\ pc[t] \in {"copy", "count", "use", "load", "store"} =>
              tmp[t] \in Counters /\ (count_[tmp[t]] >= 1 \/ StaleRead(t))
         /\ pc[t] \in {"load", "store"} => count_[tmp[t]] >= 1
         /\ pc[t] \in {"store", "release"} => old[t] \in Counters /\ count_[old[t]] >= 1
         /\ pc[t] \in {"delete", "free"} => old[t] \in Counters
<1>. USE DEF IInv
<1>1. \A c \in Counters : count_[c] = Refs(c) /\ Refs(c) \in Nat
  BY RefsParts DEF CountsReferences
<1>2. \A c \in Counters : Holders(c) # {} \/ Storing(c) # {} \/ Releasing(c) # {} => count_[c] >= 1
  BY <1>1, RefsParts
<1>3. ASSUME pc[t] \in {"copy", "count", "use"}
      PROVE  tmp[t] \in Counters /\ (count_[tmp[t]] >= 1 \/ StaleRead(t))
  <2>1. /\ src[t] \in Vars /\ (counterP_[src[t]] = tmp[t] \/ StaleRead(t))
        /\ tmp[t] # 0 /\ tmp[t] \in 0 .. MaxCounters
    BY <1>3 DEF ThreadShape, Shape, Readable, TypeOK
  <2>2. tmp[t] \in Counters
    BY <2>1, PointerAssumption DEF Counters
  <2>3. counterP_[src[t]] = tmp[t] => src[t] \in Holders(tmp[t])
    BY <2>1 DEF Holders
  <2>. QED  BY <1>2, <2>1, <2>2, <2>3
<1>4. ASSUME pc[t] \in {"load", "store"}
      PROVE  tmp[t] \in Counters /\ count_[tmp[t]] >= 1
  <2>1. tmp[t] # 0 /\ tmp[t] \in 0 .. MaxCounters
    BY <1>4 DEF ThreadShape, Shape, TypeOK
  <2>2. tmp[t] \in Counters /\ t \in Storing(tmp[t])
    BY <1>4, <2>1, PointerAssumption DEF Counters, Storing
  <2>. QED  BY <1>2, <2>2
<1>5. ASSUME pc[t] = "store"
      PROVE  old[t] \in Counters /\ count_[old[t]] >= 1
  <2>1. dst[t] \in Vars /\ counterP_[dst[t]] # 0 /\ old[t] = counterP_[dst[t]]
    BY <1>5 DEF ThreadShape, Shape, Assigned
  <2>2. old[t] \in Counters /\ dst[t] \in Holders(old[t])
    BY <2>1, PointerAssumption DEF TypeOK, Counters, Holders
  <2>. QED  BY <1>2, <2>2
<1>6. ASSUME pc[t] \in {"release", "delete", "free"}
      PROVE  old[t] \in Counters
  BY <1>6, PointerAssumption DEF ThreadShape, Shape, TypeOK, Counters
<1>7. ASSUME pc[t] = "release"
      PROVE  count_[old[t]] >= 1
  <2>1. t \in Releasing(old[t])
    BY <1>7 DEF Releasing
  <2>. QED  BY <1>2, <1>6, <1>7, <2>1
<1>. QED  BY <1>3, <1>4, <1>5, <1>6, <1>7

LEMMA IInvNoUseAfterFree == IInv => NoUseAfterFree
<1>. SUFFICES ASSUME IInv, ~revived, NEW t \in Threads, NEW c \in Counters, UsesFreed(t, c),
                     ~StaleRead(t)
              PROVE  FALSE
  BY DEF NoUseAfterFree
<1>. c \in Touched(t) /\ OneFrees
     /\ (c \in freed \/ (pc[t] \in {"use", "delete"} /\ object[c] = "deleted"))
  BY DEF UsesFreed, IInv
<1>1. CASE pc[t] \in {"copy", "count", "use"}
  <2>1. c = tmp[t]
    BY <1>1 DEF Touched
  <2>2. count_[c] >= 1
    BY <1>1, <2>1, Held
  <2>. QED  BY <2>2 DEF OneFrees
<1>2. CASE pc[t] = "release"
  <2>1. c = old[t]
    BY <1>2 DEF Touched
  <2>2. count_[c] >= 1
    BY <1>2, <2>1, Held
  <2>. QED  BY <1>2, <2>2 DEF OneFrees
<1>3. CASE pc[t] \in {"delete", "free"}
  <2>1. c = old[t] /\ c \notin freed
    BY <1>3 DEF Touched, OneFrees, Frees
  <2>2. ASSUME pc[t] = "delete", object[c] = "deleted"
        PROVE  FALSE
    <3>1. PICK u \in Threads : pc[u] = "free" /\ old[u] = c
      BY <2>1, <2>2 DEF OneFrees
    <3>2. u = t
      BY <1>3, <2>1, <3>1 DEF OneFrees, Frees
    <3>. QED  BY <2>2, <3>1, <3>2
  <2>. QED  BY <1>3, <2>1, <2>2
<1>. QED  BY <1>1, <1>2, <1>3 DEF Touched

-----------------------------------------------------------------------------
(* What a step of one thread leaves to the others.                         *)

\* Another thread's variables and the shared ones are not its own.
LEMMA OthersShape ==
  ASSUME IInv, NEW t \in Threads, NEW v, Only(t, v),
         \/ counterP_' = counterP_
         \/ v \in Assigned(t) /\ (counterP_'[v] # 0 \/ v \notin Shared)
  PROVE  \A u \in Threads \ {t} : Shape(u)'
<1>. SUFFICES ASSUME NEW u \in Threads \ {t}
              PROVE  Shape(u)'
  OBVIOUS
<1>1. pc'[u] = pc[u] /\ dst'[u] = dst[u] /\ src'[u] = src[u] /\ tmp'[u] = tmp[u] /\ old'[u] = old[u]
  BY DEF Only
<1>2. \A w \in Private(u) \cup Assigned(u) : counterP_'[w] = counterP_[w]
  BY DEF Only, Private, Assigned
<1>3. \A s \in Readable(u) : counterP_'[s] # counterP_[s] =>
        s \in Written /\ Owner[s] # u /\ counterP_'[s] # 0
  BY DEF Only, Assigned, Readable
<1>4. Shape(u)
  BY DEF IInv, ThreadShape
<1>5. Private(u)' = Private(u) /\ Assigned(u)' = Assigned(u)
  BY DEF Private, Assigned
<1>6. \A s \in Readable(u) : s \in Readable(u)'
  BY <1>3 DEF Readable
<1>7. pc[u] \in {"copy", "count", "use"} =>
        counterP_'[src[u]] = tmp[u] \/ StaleRead(u)'
  BY <1>1, <1>3, <1>4 DEF Shape, StaleRead
<1>. QED  BY <1>1, <1>2, <1>4, <1>5, <1>6, <1>7 DEF Shape

\* A step that frees nothing and gives no reference to a Counter at zero, but
\* for a new one.
LEMMA QuietFrees ==
  ASSUME IInv, ~revived, NEW t \in Threads, NEW v, Only(t, v), ~Frees(t), ~Frees(t)', freed' = freed,
         \A c \in Counters : object'[c] = "deleted" => object[c] = "deleted",
         \A c \in Counters : count_[c] = 0 =>
           count_'[c] = 0 \/ (c > made /\ object'[c] # "deleted")
  PROVE  OneFrees'
<1>. USE DEF IInv
<1>1. \A u \in Threads : Frees(u)' => Frees(u) /\ u # t /\ old'[u] = old[u]
  BY DEF Only, Frees
<1>2. freed \subseteq Counters /\ \A c \in freed : count_'[c] = 0
  <2>. SUFFICES ASSUME NEW c \in freed
                PROVE  count_'[c] = 0
    BY DEF TypeOK
  <2>1. c \in Counters /\ count_[c] = 0 /\ c =< made /\ c \in Nat /\ made \in Nat
    BY PointerAssumption DEF OneFrees, OnlyMade, TypeOK, Counters
  <2>. QED  BY <2>1
<1>3. \A u \in Threads : Frees(u)' => count_'[old'[u]] = 0 /\ old'[u] \notin freed'
  <2>. SUFFICES ASSUME NEW u \in Threads, Frees(u)'
                PROVE  count_'[old'[u]] = 0 /\ old'[u] \notin freed'
    OBVIOUS
  <2>1. Frees(u) /\ old'[u] = old[u] /\ old[u] \in Counters /\ old[u] =< made
    BY <1>1, Held DEF Frees, OnlyMade
  <2>2. old[u] \in Nat /\ made \in Nat
    BY <2>1, PointerAssumption DEF TypeOK, Counters
  <2>3. count_'[old[u]] = 0
    BY <2>1, <2>2 DEF OneFrees
  <2>. QED  BY <2>1, <2>3 DEF OneFrees
<1>4. \A u, w \in Threads : Frees(u)' /\ Frees(w)' /\ old'[u] = old'[w] => u = w
  BY <1>1 DEF OneFrees
<1>5. \A c \in Counters : object'[c] = "deleted" =>
        /\ count_'[c] = 0
        /\ c \in freed' \/ \E u \in Threads : pc'[u] = "free" /\ old'[u] = c
  <2>. SUFFICES ASSUME NEW c \in Counters, object'[c] = "deleted"
                PROVE  /\ count_'[c] = 0
                       /\ c \in freed' \/ \E u \in Threads : pc'[u] = "free" /\ old'[u] = c
    OBVIOUS
  <2>1. count_[c] = 0 /\ (c \in freed \/ \E u \in Threads : pc[u] = "free" /\ old[u] = c)
    BY DEF OneFrees
  <2>2. \A u \in Threads : pc[u] = "free" => pc'[u] = "free" /\ old'[u] = old[u]
    BY DEF Only, Frees
  <2>. QED  BY <2>1, <2>2
<1>. QED  BY <1>2, <1>3, <1>4, <1>5 DEF OneFrees, Frees

-----------------------------------------------------------------------------
(* One lemma per action.                                                   *)

\* A step that leaves every count and every reference as it is.
LEMMA SameCounts ==
  ASSUME IInv, NEW t \in Threads, NEW v, Only(t, v), count_' = count_,
         \A c \in Counters : /\ v \in Holders(c) <=> v \in Holders(c)'
                             /\ t \in Storing(c) <=> t \in Storing(c)'
                             /\ t \in Releasing(c) <=> t \in Releasing(c)'
  PROVE  CountsReferences'
<1>. SUFFICES ASSUME NEW c \in Counters
              PROVE  count_[c] = Refs(c)'
  BY DEF CountsReferences, Counters
<1>1. count_[c] = Refs(c) /\ Refs(c) \in Nat
  BY RefsParts DEF IInv, CountsReferences
<1>. QED  BY <1>1, RefsStep DEF Gain

\* Nothing refers to a Counter that is still to be made.
LEMMA NewUnreferenced ==
  ASSUME IInv, NEW c \in Counters, c > made
  PROVE  Refs(c) = 0 /\ count_[c] = 0
<1>1. c \in Nat /\ made \in Nat
  BY PointerAssumption DEF IInv, TypeOK, Counters
<1>2. /\ \A v \in Vars : counterP_[v] \in Nat /\ counterP_[v] =< made
      /\ \A t \in Threads : tmp[t] \in Nat /\ tmp[t] =< made /\ old[t] \in Nat /\ old[t] =< made
  BY PointerAssumption DEF IInv, TypeOK, OnlyMade
<1>3. Holders(c) = {} /\ Storing(c) = {} /\ Releasing(c) = {}
  BY <1>1, <1>2 DEF Holders, Storing, Releasing
<1>. QED  BY <1>3, RefsParts DEF IInv, CountsReferences

LEMMA ConstructIInv == ASSUME IInv, NEW t \in Threads, Construct(t) PROVE IInv'
<1>. USE DEF IInv
<1>1. PICK v \in Private(t) :
        /\ counterP_[v] = 0 /\ pc[t] = "idle"
        /\ NewCounter("live")
        /\ counterP_' = [counterP_ EXCEPT ![v] = made']
  BY DEF Construct
<1>2. UNCHANGED <<pc, dst, src, tmp, old>> /\ v \in Vars /\ v \in Assigned(t)
  BY DEF Construct, locals, Private, Assigned
<1>3. /\ made' = made + 1 /\ made' \in Counters /\ made \in Nat /\ freed' = freed /\ revived' = revived
      /\ count_' = [count_ EXCEPT ![made'] = 1]
      /\ object' = [object EXCEPT ![made'] = "live"]
  BY <1>1, PointerAssumption DEF NewCounter, TypeOK, Counters
<1>4. TypeOK'
  BY <1>1, <1>2, <1>3, PointerAssumption DEF TypeOK, Counters
<1>5. Only(t, v) /\ counterP_'[v] = made'
  BY <1>1, <1>2 DEF Only, TypeOK
<1>6. CountsReferences'
  <2>. SUFFICES ASSUME NEW c \in Counters
                PROVE  count_'[c] = Refs(c)'
    BY DEF CountsReferences, Counters
  <2>1. count_[c] = Refs(c) /\ Refs(c) \in Nat
    BY RefsParts DEF CountsReferences
  <2>2. /\ v \notin Holders(c)
        /\ v \in Holders(c)' <=> c = made'
        /\ t \notin Storing(c) /\ t \notin Storing(c)'
        /\ t \notin Releasing(c) /\ t \notin Releasing(c)'
    BY <1>1, <1>2, <1>5, PointerAssumption DEF Holders, Storing, Releasing, Counters
  <2>3. Refs(c)' = Refs(c) + (IF c = made' THEN 1 ELSE 0)
    BY <1>5, <2>1, <2>2, RefsStep DEF Gain
  <2>4. CASE c = made'
    <3>1. Refs(c) = 0
      BY <1>3, <2>4, NewUnreferenced
    <3>. QED  BY <1>3, <2>3, <2>4, <3>1 DEF TypeOK
  <2>5. CASE c # made'
    BY <1>3, <2>1, <2>3, <2>5 DEF TypeOK
  <2>. QED  BY <2>4, <2>5
<1>7. ThreadShape'
  <2>1. Shape(t)'
    BY <1>1, <1>2 DEF Shape
  <2>2. counterP_'[v] # 0
    BY <1>3, <1>5
  <2>. QED  BY <1>2, <1>5, <2>1, <2>2, OthersShape DEF ThreadShape
<1>8. OnlyMade'
  BY <1>1, <1>2, <1>3, PointerAssumption DEF OnlyMade, TypeOK, Private, Counters
<1>9. ~revived' => OneFrees'
  <2>. SUFFICES ASSUME ~revived'
                PROVE  OneFrees'
    OBVIOUS
  <2>. ~revived /\ OneFrees
    BY <1>1, <1>2, <1>3
  <2>1. \A c \in Counters : object'[c] = "deleted" => object[c] = "deleted"
    BY <1>3 DEF TypeOK
  <2>2. \A c \in Counters : count_[c] = 0 =>
          count_'[c] = 0 \/ (c > made /\ object'[c] # "deleted")
    BY <1>3 DEF TypeOK
  <2>3. ~Frees(t) /\ ~Frees(t)'
    BY <1>1, <1>2 DEF Frees
  <2>. QED  BY <1>3, <1>5, <2>1, <2>2, <2>3, QuietFrees
<1>. QED  BY <1>4, <1>6, <1>7, <1>8, <1>9

\* The three operations that begin with reading a pointer.
LEMMA ReadIInv ==
  ASSUME IInv, NEW t \in Threads, BeginCopy(t) \/ BeginAssign(t) \/ BeginUse(t)
  PROVE  IInv'
<1>. USE DEF IInv
<1>1. /\ pc[t] = "idle" /\ old' = old
      /\ UNCHANGED <<counterP_, count_, object, freed, made, revived>>
  BY DEF BeginCopy, BeginAssign, BeginUse, At, heap
<1>2. PICK s \in Readable(t) : /\ src' = [src EXCEPT ![t] = s]
                            /\ tmp' = [tmp EXCEPT ![t] = counterP_[s]]
  BY DEF BeginCopy, BeginAssign, BeginUse, Read
<1>3. /\ pc' = [pc EXCEPT ![t] = pc'[t]] /\ pc'[t] \in {"copy", "count", "use"}
      /\ dst' = [dst EXCEPT ![t] = dst'[t]] /\ dst'[t] \in Vars \cup {NoVar}
  BY DEF BeginCopy, BeginAssign, BeginUse, At, TypeOK, Private, Writable, Assigned
<1>4. s \in Vars /\ counterP_[s] \in 0 .. MaxCounters /\ tmp'[t] = counterP_[s] /\ src'[t] = s
      /\ counterP_[s] # 0
  BY <1>2 DEF Readable, TypeOK
<1>5. TypeOK'
  BY <1>1, <1>2, <1>3, <1>4 DEF TypeOK
<1>6. Only(t, s)
  BY <1>1, <1>2, <1>3 DEF Only, TypeOK
<1>7. CountsReferences'
  <2>1. \A c \in Counters : /\ s \in Holders(c) <=> s \in Holders(c)'
                            /\ t \in Storing(c) <=> t \in Storing(c)'
                            /\ t \in Releasing(c) <=> t \in Releasing(c)'
    BY <1>1, <1>3 DEF Holders, Storing, Releasing
  <2>. QED  BY <1>1, <1>6, <2>1, SameCounts
<1>8. ThreadShape'
  <2>1. Shape(t)'
    <3>1. Readable(t)' = Readable(t) /\ Private(t)' = Private(t) /\ Assigned(t)' = Assigned(t)
      BY <1>1 DEF Readable, Private, Assigned
    <3>2. pc'[t] = "copy" => dst'[t] \in Private(t) /\ counterP_[dst'[t]] = 0
      BY <1>1, <1>3 DEF BeginCopy, BeginAssign, BeginUse, At, TypeOK
    <3>3. pc'[t] = "count" => dst'[t] \in Assigned(t) /\ counterP_[dst'[t]] # 0
      BY <1>1, <1>3 DEF BeginCopy, BeginAssign, BeginUse, At, TypeOK, Writable
    <3>. QED  BY <1>1, <1>3, <1>4, <3>1, <3>2, <3>3 DEF Shape
  <2>. QED  BY <1>1, <1>6, <2>1, OthersShape DEF ThreadShape
<1>9. OnlyMade'
  BY <1>1, <1>2, <1>4 DEF OnlyMade, TypeOK
<1>10. ~revived' => OneFrees'
  <2>. SUFFICES ASSUME ~revived'
                PROVE  OneFrees'
    OBVIOUS
  <2>. ~revived /\ OneFrees
    BY <1>1, <1>2, <1>3
  <2>1. ~Frees(t) /\ ~Frees(t)'
    BY <1>1, <1>3 DEF Frees
  <2>. QED  BY <1>1, <1>6, <2>1, QuietFrees
<1>. QED  BY <1>5, <1>7, <1>8, <1>9, <1>10

LEMMA EndCopyIInv == ASSUME IInv, NEW t \in Threads, EndCopy(t) PROVE IInv'
<1>. USE DEF IInv
<1>. DEFINE v == dst[t]
<1>1. /\ pc[t] = "copy" /\ pc' = [pc EXCEPT ![t] = "idle"]
      /\ dst' = [dst EXCEPT ![t] = NoVar]
      /\ src' = [src EXCEPT ![t] = NoVar]
      /\ tmp' = [tmp EXCEPT ![t] = 0] /\ old' = [old EXCEPT ![t] = 0]
      /\ count_' = [count_ EXCEPT ![tmp[t]] = @ + 1] /\ UNCHANGED <<object, freed, made>>
      /\ revived' = (revived \/ count_[tmp[t]] = 0)
      /\ counterP_' = [counterP_ EXCEPT ![v] = tmp[t]]
  BY DEF EndCopy, Done, AddRef
<1>2. v \in Private(t) /\ v \in Vars /\ counterP_[v] = 0 /\ v \in Assigned(t)
  BY <1>1 DEF ThreadShape, Shape, Private, Assigned
<1>3. tmp[t] \in Counters /\ counterP_'[v] = tmp[t] /\ tmp[t] # 0 /\ count_[tmp[t]] \in Nat
  BY <1>1, <1>2, Held, PointerAssumption DEF TypeOK, Counters
<1>. HIDE DEF v
<1>4. TypeOK'
  BY <1>1, <1>2, <1>3, PointerAssumption DEF TypeOK, Counters
<1>5. Only(t, v)
  BY <1>1, <1>2 DEF Only, TypeOK
<1>6. CountsReferences'
  <2>. SUFFICES ASSUME NEW c \in Counters
                PROVE  count_'[c] = Refs(c)'
    BY DEF CountsReferences, Counters
  <2>1. count_[c] = Refs(c) /\ Refs(c) \in Nat
    BY RefsParts DEF CountsReferences
  <2>2. /\ v \notin Holders(c)
        /\ v \in Holders(c)' <=> c = tmp[t]
        /\ t \notin Storing(c) /\ t \notin Storing(c)'
        /\ t \notin Releasing(c) /\ t \notin Releasing(c)'
    BY <1>1, <1>2, <1>3, PointerAssumption DEF Holders, Storing, Releasing, Counters, TypeOK
  <2>3. Refs(c)' = Refs(c) + (IF c = tmp[t] THEN 1 ELSE 0)
    BY <1>5, <2>1, <2>2, RefsStep DEF Gain
  <2>. QED  BY <1>1, <1>3, <2>1, <2>3 DEF TypeOK
<1>7. ThreadShape'
  <2>1. Shape(t)'
    BY <1>1 DEF Shape, TypeOK
  <2>. QED  BY <1>2, <1>3, <1>5, <2>1, OthersShape DEF ThreadShape
<1>8. OnlyMade'
  BY <1>1, <1>2, <1>3, PointerAssumption DEF OnlyMade, TypeOK, Counters
<1>9. ~revived' => OneFrees'
  <2>. SUFFICES ASSUME ~revived'
                PROVE  OneFrees'
    OBVIOUS
  <2>. ~revived /\ OneFrees
    BY <1>1, <1>2, <1>3
  <2>1. \A c \in Counters : count_[c] = 0 => count_'[c] = 0
    BY <1>1, <1>3 DEF TypeOK
  <2>2. ~Frees(t) /\ ~Frees(t)'
    BY <1>1 DEF Frees, TypeOK
  <2>. QED  BY <1>1, <1>5, <2>1, <2>2, QuietFrees
<1>. QED  BY <1>4, <1>6, <1>7, <1>8, <1>9

LEMMA CountNewIInv == ASSUME IInv, NEW t \in Threads, CountNew(t) PROVE IInv'
<1>. USE DEF IInv
<1>1. /\ pc[t] = "count" /\ pc' = [pc EXCEPT ![t] = "load"]
      /\ count_' = [count_ EXCEPT ![tmp[t]] = @ + 1]
      /\ UNCHANGED <<counterP_, object, freed, made, dst, src, tmp, old>>
      /\ revived' = (revived \/ count_[tmp[t]] = 0)
  BY DEF CountNew, At, AddRef, locals
<1>2. tmp[t] \in Counters /\ tmp[t] # 0 /\ count_[tmp[t]] \in Nat
  BY <1>1, Held, PointerAssumption DEF Counters, TypeOK
<1>. DEFINE v == dst[t]
<1>3. v \in Assigned(t) /\ counterP_[v] # 0
  BY <1>1 DEF ThreadShape, Shape
<1>. HIDE DEF v
<1>4. TypeOK'
  BY <1>1, <1>2 DEF TypeOK
<1>5. Only(t, v)
  BY <1>1 DEF Only, TypeOK
<1>6. CountsReferences'
  <2>. SUFFICES ASSUME NEW c \in Counters
                PROVE  count_'[c] = Refs(c)'
    BY DEF CountsReferences, Counters
  <2>1. count_[c] = Refs(c) /\ Refs(c) \in Nat
    BY RefsParts DEF CountsReferences
  <2>2. /\ v \in Holders(c) <=> v \in Holders(c)'
        /\ t \notin Storing(c)
        /\ t \in Storing(c)' <=> c = tmp[t]
        /\ t \notin Releasing(c) /\ t \notin Releasing(c)'
    BY <1>1 DEF Holders, Storing, Releasing, TypeOK
  <2>3. Refs(c)' = Refs(c) + (IF c = tmp[t] THEN 1 ELSE 0)
    BY <1>5, <2>1, <2>2, RefsStep DEF Gain
  <2>. QED  BY <1>1, <1>2, <2>1, <2>3 DEF TypeOK
<1>7. ThreadShape'
  <2>1. Shape(t)'
    BY <1>1, <1>2, <1>3 DEF Shape, TypeOK, Assigned, v
  <2>. QED  BY <1>1, <1>5, <2>1, OthersShape DEF ThreadShape
<1>8. OnlyMade'
  BY <1>1 DEF OnlyMade
<1>9. ~revived' => OneFrees'
  <2>. SUFFICES ASSUME ~revived'
                PROVE  OneFrees'
    OBVIOUS
  <2>. ~revived /\ OneFrees
    BY <1>1, <1>2, <1>3
  <2>1. \A c \in Counters : count_[c] = 0 => count_'[c] = 0
    BY <1>1, <1>2 DEF TypeOK
  <2>2. ~Frees(t) /\ ~Frees(t)'
    BY <1>1 DEF Frees, TypeOK
  <2>. QED  BY <1>1, <1>5, <2>1, <2>2, QuietFrees
<1>. QED  BY <1>4, <1>6, <1>7, <1>8, <1>9

LEMMA BeginClearIInv == ASSUME IInv, NEW t \in Threads, BeginClear(t) PROVE IInv'
<1>. USE DEF IInv
<1>1. /\ pc[t] = "idle" /\ pc' = [pc EXCEPT ![t] = "load"]
      /\ NewCounter("null") /\ tmp' = [tmp EXCEPT ![t] = made']
      /\ UNCHANGED <<counterP_, src, old>>
  BY DEF BeginClear, At
<1>2. PICK v \in Writable(t) : dst' = [dst EXCEPT ![t] = v]
  BY DEF BeginClear
<1>3. /\ made' = made + 1 /\ made' \in Counters /\ made \in Nat /\ freed' = freed /\ made' # 0 /\ revived' = revived
      /\ count_' = [count_ EXCEPT ![made'] = 1]
      /\ object' = [object EXCEPT ![made'] = "null"]
  BY <1>1, PointerAssumption DEF NewCounter, TypeOK, Counters
<1>4. v \in Assigned(t) /\ v \in Vars /\ counterP_[v] # 0
  BY DEF Writable, Assigned
<1>5. TypeOK'
  BY <1>1, <1>2, <1>3, <1>4, PointerAssumption DEF TypeOK, Counters
<1>6. Only(t, v)
  BY <1>1, <1>2 DEF Only, TypeOK
<1>7. CountsReferences'
  <2>. SUFFICES ASSUME NEW c \in Counters
                PROVE  count_'[c] = Refs(c)'
    BY DEF CountsReferences, Counters
  <2>1. count_[c] = Refs(c) /\ Refs(c) \in Nat
    BY RefsParts DEF CountsReferences
  <2>2. /\ v \in Holders(c) <=> v \in Holders(c)'
        /\ t \notin Storing(c)
        /\ t \in Storing(c)' <=> c = made'
        /\ t \notin Releasing(c) /\ t \notin Releasing(c)'
    BY <1>1 DEF Holders, Storing, Releasing, TypeOK
  <2>3. Refs(c)' = Refs(c) + (IF c = made' THEN 1 ELSE 0)
    BY <1>6, <2>1, <2>2, RefsStep DEF Gain
  <2>4. CASE c = made'
    <3>1. Refs(c) = 0
      BY <1>3, <2>4, NewUnreferenced
    <3>. QED  BY <1>3, <2>3, <2>4, <3>1 DEF TypeOK
  <2>5. CASE c # made'
    BY <1>3, <2>1, <2>3, <2>5 DEF TypeOK
  <2>. QED  BY <2>4, <2>5
<1>8. ThreadShape'
  <2>1. Shape(t)'
    BY <1>1, <1>2, <1>3, <1>4 DEF Shape, TypeOK, Assigned
  <2>. QED  BY <1>1, <1>6, <2>1, OthersShape DEF ThreadShape
<1>9. OnlyMade'
  <2>1. \A u \in Threads : tmp'[u] =< made' /\ old'[u] =< made'
    BY <1>1, <1>3, PointerAssumption DEF OnlyMade, TypeOK
  <2>2. \A w \in Vars : counterP_'[w] =< made'
    BY <1>1, <1>3, PointerAssumption DEF OnlyMade, TypeOK
  <2>3. \A c \in freed' : c =< made'
    BY <1>1, <1>3, PointerAssumption DEF OnlyMade, TypeOK, Counters
  <2>. QED  BY <1>1, <2>1, <2>2, <2>3 DEF OnlyMade
<1>10. ~revived' => OneFrees'
  <2>. SUFFICES ASSUME ~revived'
                PROVE  OneFrees'
    OBVIOUS
  <2>. ~revived /\ OneFrees
    BY <1>1, <1>2, <1>3
  <2>1. \A c \in Counters : object'[c] = "deleted" => object[c] = "deleted"
    BY <1>3 DEF TypeOK
  <2>2. \A c \in Counters : count_[c] = 0 =>
          count_'[c] = 0 \/ (c > made /\ object'[c] # "deleted")
    BY <1>3 DEF TypeOK
  <2>3. ~Frees(t) /\ ~Frees(t)'
    BY <1>1 DEF Frees, TypeOK
  <2>. QED  BY <1>3, <1>6, <2>1, <2>2, <2>3, QuietFrees
<1>. QED  BY <1>5, <1>7, <1>8, <1>9, <1>10

LEMMA LoadOldIInv == ASSUME IInv, NEW t \in Threads, LoadOld(t) PROVE IInv'
<1>. USE DEF IInv
<1>1. /\ pc[t] = "load" /\ pc' = [pc EXCEPT ![t] = "store"]
      /\ old' = [old EXCEPT ![t] = counterP_[dst[t]]]
      /\ UNCHANGED <<counterP_, count_, object, freed, made, revived, dst, src, tmp>>
  BY DEF LoadOld, At, heap
<1>. DEFINE v == dst[t]
<1>2. v \in Assigned(t) /\ v \in Vars /\ counterP_[v] # 0 /\ tmp[t] # 0
  BY <1>1 DEF ThreadShape, Shape, Assigned
<1>3. counterP_[v] \in 0 .. MaxCounters /\ counterP_[v] =< made
  BY <1>2 DEF TypeOK, OnlyMade
<1>4. TypeOK'
  BY <1>1, <1>3 DEF TypeOK
<1>5. Only(t, v)
  BY <1>1 DEF Only, TypeOK
<1>6. CountsReferences'
  <2>1. \A c \in Counters : /\ v \in Holders(c) <=> v \in Holders(c)'
                            /\ t \in Storing(c) <=> t \in Storing(c)'
                            /\ t \in Releasing(c) <=> t \in Releasing(c)'
    BY <1>1 DEF Holders, Storing, Releasing, TypeOK
  <2>. QED  BY <1>1, <1>5, <2>1, SameCounts
<1>7. ThreadShape'
  <2>1. Shape(t)'
    BY <1>1, <1>2 DEF Shape, TypeOK, Assigned
  <2>. QED  BY <1>1, <1>5, <2>1, OthersShape DEF ThreadShape
<1>8. OnlyMade'
  BY <1>1, <1>3 DEF OnlyMade, TypeOK
<1>9. ~revived' => OneFrees'
  <2>. SUFFICES ASSUME ~revived'
                PROVE  OneFrees'
    OBVIOUS
  <2>. ~revived /\ OneFrees
    BY <1>1, <1>2, <1>3
  <2>1. ~Frees(t) /\ ~Frees(t)'
    BY <1>1 DEF Frees, TypeOK
  <2>. QED  BY <1>1, <1>5, <2>1, QuietFrees
<1>. QED  BY <1>4, <1>6, <1>7, <1>8, <1>9

\* The new pointer's reference moves into the variable, the old one's out of it.
LEMMA StoreNewIInv == ASSUME IInv, NEW t \in Threads, StoreNew(t) PROVE IInv'
<1>. USE DEF IInv
<1>. DEFINE v == dst[t]
<1>1. /\ pc[t] = "store" /\ pc' = [pc EXCEPT ![t] = "release"]
      /\ counterP_' = [counterP_ EXCEPT ![v] = tmp[t]]
      /\ UNCHANGED <<count_, object, freed, made, revived, dst, src, tmp, old>>
  BY DEF StoreNew, At, heap, locals
<1>2. v \in Assigned(t) /\ v \in Vars /\ tmp[t] # 0 /\ old[t] = counterP_[v] /\ counterP_[v] # 0
  BY <1>1 DEF ThreadShape, Shape, Assigned
<1>3. tmp[t] \in 0 .. MaxCounters /\ tmp[t] =< made /\ counterP_'[v] = tmp[t]
  BY <1>1, <1>2 DEF TypeOK, OnlyMade
<1>. HIDE DEF v
<1>4. TypeOK'
  BY <1>1, <1>2, <1>3 DEF TypeOK
<1>5. Only(t, v)
  BY <1>1, <1>2 DEF Only, TypeOK
<1>6. CountsReferences'
  <2>. SUFFICES ASSUME NEW c \in Counters
                PROVE  count_[c] = Refs(c)'
    BY <1>1 DEF CountsReferences, Counters
  <2>1. count_[c] = Refs(c) /\ Refs(c) \in Nat
    BY RefsParts DEF CountsReferences
  <2>2. /\ v \in Holders(c) <=> c = old[t]
        /\ v \in Holders(c)' <=> c = tmp[t]
        /\ t \in Storing(c) <=> c = tmp[t]
        /\ t \notin Storing(c)'
        /\ t \notin Releasing(c)
        /\ t \in Releasing(c)' <=> c = old[t]
    BY <1>1, <1>2, <1>3 DEF Holders, Storing, Releasing, TypeOK
  <2>3. Refs(c)' = Refs(c)
    BY <1>5, <2>1, <2>2, RefsStep DEF Gain
  <2>. QED  BY <2>1, <2>3
<1>7. ThreadShape'
  <2>1. Shape(t)'
    BY <1>1, <1>2 DEF Shape, TypeOK
  <2>. QED  BY <1>2, <1>3, <1>5, <2>1, OthersShape DEF ThreadShape
<1>8. OnlyMade'
  BY <1>1, <1>2, <1>3 DEF OnlyMade, TypeOK
<1>9. ~revived' => OneFrees'
  <2>. SUFFICES ASSUME ~revived'
                PROVE  OneFrees'
    OBVIOUS
  <2>. ~revived /\ OneFrees
    BY <1>1, <1>2, <1>3
  <2>1. ~Frees(t) /\ ~Frees(t)'
    BY <1>1 DEF Frees, TypeOK
  <2>. QED  BY <1>1, <1>5, <2>1, QuietFrees
<1>. QED  BY <1>4, <1>6, <1>7, <1>8, <1>9

LEMMA DestroyIInv == ASSUME IInv, NEW t \in Threads, Destroy(t) PROVE IInv'
<1>. USE DEF IInv
<1>1. /\ pc[t] = "idle" /\ pc' = [pc EXCEPT ![t] = "release"]
      /\ UNCHANGED <<count_, object, freed, made, revived, dst, src, tmp>>
  BY DEF Destroy, At, heap
<1>2. PICK v \in Private(t) :
        /\ counterP_[v] # 0
        /\ old' = [old EXCEPT ![t] = counterP_[v]]
        /\ counterP_' = [counterP_ EXCEPT ![v] = 0]
  BY DEF Destroy
<1>3. /\ v \in Vars /\ v \notin Shared /\ v \in Assigned(t) /\ counterP_[v] \in 0 .. MaxCounters
      /\ counterP_[v] =< made /\ counterP_'[v] = 0 /\ old'[t] = counterP_[v]
  BY <1>2 DEF Private, Assigned, TypeOK, OnlyMade
<1>4. TypeOK'
  BY <1>1, <1>2, <1>3, PointerAssumption DEF TypeOK
<1>5. Only(t, v)
  BY <1>1, <1>2 DEF Only, TypeOK
<1>6. CountsReferences'
  <2>. SUFFICES ASSUME NEW c \in Counters
                PROVE  count_[c] = Refs(c)'
    BY <1>1 DEF CountsReferences, Counters
  <2>1. count_[c] = Refs(c) /\ Refs(c) \in Nat
    BY RefsParts DEF CountsReferences
  <2>2. /\ v \in Holders(c) <=> c = counterP_[v]
        /\ v \notin Holders(c)'
        /\ t \notin Storing(c) /\ t \notin Storing(c)'
        /\ t \notin Releasing(c)
        /\ t \in Releasing(c)' <=> c = counterP_[v]
    BY <1>1, <1>2, <1>3, PointerAssumption DEF Holders, Storing, Releasing, TypeOK, Counters
  <2>3. Refs(c)' = Refs(c)
    BY <1>5, <2>1, <2>2, RefsStep DEF Gain
  <2>. QED  BY <2>1, <2>3
<1>7. ThreadShape'
  <2>1. Shape(t)'
    BY <1>1, <1>2, <1>3 DEF Shape, TypeOK
  <2>. QED  BY <1>3, <1>5, <2>1, OthersShape DEF ThreadShape
<1>8. OnlyMade'
  BY <1>1, <1>2, <1>3, PointerAssumption DEF OnlyMade, TypeOK
<1>9. ~revived' => OneFrees'
  <2>. SUFFICES ASSUME ~revived'
                PROVE  OneFrees'
    OBVIOUS
  <2>. ~revived /\ OneFrees
    BY <1>1, <1>2, <1>3
  <2>1. ~Frees(t) /\ ~Frees(t)'
    BY <1>1 DEF Frees, TypeOK
  <2>. QED  BY <1>1, <1>5, <2>1, QuietFrees
<1>. QED  BY <1>4, <1>6, <1>7, <1>8, <1>9

\* Who takes the last reference away frees: nobody else does, since until then
\* the count was not zero.
LEMMA ReleaseIInv == ASSUME IInv, NEW t \in Threads, Release(t) PROVE IInv'
<1>. USE DEF IInv
<1>. DEFINE c0 == old[t]
<1>1. /\ pc[t] = "release"
      /\ count_' = [count_ EXCEPT ![c0] = @ - 1]
      /\ UNCHANGED <<counterP_, object, freed, made, revived>>
  BY DEF Release
<1>2. \/ /\ count_'[c0] = 0 /\ pc' = [pc EXCEPT ![t] = "delete"] /\ UNCHANGED <<dst, src, tmp, old>>
      \/ /\ pc' = [pc EXCEPT ![t] = "idle"]
         /\ dst' = [dst EXCEPT ![t] = NoVar]
         /\ src' = [src EXCEPT ![t] = NoVar]
         /\ tmp' = [tmp EXCEPT ![t] = 0] /\ old' = [old EXCEPT ![t] = 0]
  BY DEF Release, At, Done, locals
<1>3. c0 \in Counters /\ count_[c0] >= 1 /\ c0 # 0 /\ count_[c0] \in Nat
  BY <1>1, Held, PointerAssumption DEF Counters, TypeOK
<1>4. count_'[c0] = count_[c0] - 1 /\ \A c \in Counters \ {c0} : count_'[c] = count_[c]
  BY <1>1, <1>3 DEF TypeOK
<1>5. TypeOK'
  <2>1. count_' \in [Counters -> Nat]
    BY <1>1, <1>3 DEF TypeOK
  <2>. QED  BY <1>1, <1>2, <2>1, PointerAssumption DEF TypeOK
<1>6. Only(t, NoVar)
  BY <1>1, <1>2 DEF Only, TypeOK
<1>7. pc'[t] \in {"delete", "idle"} /\ (pc'[t] = "delete" => count_'[c0] = 0 /\ old'[t] = c0)
  BY <1>2 DEF TypeOK
<1>8. CountsReferences'
  <2>. SUFFICES ASSUME NEW c \in Counters
                PROVE  count_'[c] = Refs(c)'
    BY DEF CountsReferences, Counters
  <2>1. count_[c] = Refs(c) /\ Refs(c) \in Nat
    BY RefsParts DEF CountsReferences
  <2>2. /\ NoVar \in Holders(c) <=> NoVar \in Holders(c)'
        /\ t \notin Storing(c) /\ t \notin Storing(c)'
        /\ t \in Releasing(c) <=> c = c0
        /\ t \notin Releasing(c)'
    BY <1>1, <1>7 DEF Holders, Storing, Releasing
  <2>3. Refs(c)' = Refs(c) - (IF c = c0 THEN 1 ELSE 0)
    BY <1>6, <2>1, <2>2, RefsStep DEF Gain
  <2>. QED  BY <1>3, <1>4, <2>1, <2>3
<1>9. ThreadShape'
  <2>1. Shape(t)'
    BY <1>3, <1>7 DEF Shape
  <2>. QED  BY <1>1, <1>6, <2>1, OthersShape DEF ThreadShape
<1>10. OnlyMade'
  BY <1>1, <1>2, PointerAssumption DEF OnlyMade, TypeOK
<1>11. ~revived' => OneFrees'
  <2>. SUFFICES ASSUME ~revived'
                PROVE  OneFrees'
    OBVIOUS
  <2>. ~revived /\ OneFrees
    BY <1>1, <1>2, <1>3
  <2>1. \A c \in Counters : count_[c] = 0 => c # c0 /\ count_'[c] = 0
    BY <1>3, <1>4
  <2>2. \A u \in Threads \ {t} : Frees(u)' =>
          Frees(u) /\ old'[u] = old[u] /\ old[u] \in Counters /\ old[u] # c0
    <3>. SUFFICES ASSUME NEW u \in Threads \ {t}, Frees(u)'
                  PROVE  Frees(u) /\ old'[u] = old[u] /\ old[u] \in Counters /\ old[u] # c0
      OBVIOUS
    <3>1. Frees(u) /\ old'[u] = old[u]
      BY <1>6 DEF Only, Frees
    <3>2. old[u] \in Counters /\ count_[old[u]] = 0
      BY <3>1, Held DEF Frees, OneFrees
    <3>. QED  BY <2>1, <3>1, <3>2
  <2>3. Frees(t)' => old'[t] = c0 /\ count_'[c0] = 0
    BY <1>7 DEF Frees
  <2>4. c0 \notin freed /\ \A c \in freed : c \in Counters
    BY <1>3 DEF OneFrees, TypeOK
  <2>5. \A u \in Threads : Frees(u)' => count_'[old'[u]] = 0 /\ old'[u] \notin freed
    BY <2>1, <2>2, <2>3, <2>4 DEF OneFrees
  <2>6. \A u, w \in Threads : Frees(u)' /\ Frees(w)' /\ old'[u] = old'[w] => u = w
    BY <2>2, <2>3 DEF OneFrees
  <2>7. \A c \in freed : count_'[c] = 0
    BY <2>1, <2>4 DEF OneFrees
  <2>8. \A c \in Counters : object[c] = "deleted" =>
          /\ count_'[c] = 0
          /\ c \in freed \/ \E u \in Threads : pc'[u] = "free" /\ old'[u] = c
    <3>1. \A u \in Threads : pc[u] = "free" => pc'[u] = "free" /\ old'[u] = old[u]
      BY <1>1, <1>6 DEF Only
    <3>. QED  BY <2>1, <3>1 DEF OneFrees
  <2>. QED  BY <1>1, <2>5, <2>6, <2>7, <2>8 DEF OneFrees, Frees
<1>. QED  BY <1>5, <1>8, <1>9, <1>10, <1>11

LEMMA DeleteObjectIInv == ASSUME IInv, NEW t \in Threads, DeleteObject(t) PROVE IInv'
<1>. USE DEF IInv
<1>. DEFINE c0 == old[t]
<1>1. /\ pc[t] = "delete" /\ pc' = [pc EXCEPT ![t] = "free"]
      /\ object' = [object EXCEPT ![c0] = IF @ = "null" THEN "null" ELSE "deleted"]
      /\ UNCHANGED <<counterP_, count_, freed, made, revived, dst, src, tmp, old>>
  BY DEF DeleteObject, At, locals
<1>2. c0 \in Counters /\ c0 # 0 /\ (~revived => count_[c0] = 0 /\ c0 \notin freed)
  BY <1>1, Held, PointerAssumption DEF Counters, OneFrees, Frees
<1>3. TypeOK'
  <2>1. object' \in [Counters -> {"null", "live", "deleted"}]
    BY <1>1, <1>2 DEF TypeOK
  <2>. QED  BY <1>1, <2>1 DEF TypeOK
<1>4. Only(t, NoVar)
  BY <1>1 DEF Only, TypeOK
<1>5. pc'[t] = "free" /\ old'[t] = c0
  BY <1>1 DEF TypeOK
<1>6. CountsReferences'
  <2>1. \A c \in Counters : /\ NoVar \in Holders(c) <=> NoVar \in Holders(c)'
                            /\ t \in Storing(c) <=> t \in Storing(c)'
                            /\ t \in Releasing(c) <=> t \in Releasing(c)'
    BY <1>1, <1>5 DEF Holders, Storing, Releasing
  <2>. QED  BY <1>1, <1>4, <2>1, SameCounts
<1>7. ThreadShape'
  <2>1. Shape(t)'
    BY <1>2, <1>5 DEF Shape
  <2>. QED  BY <1>1, <1>4, <2>1, OthersShape DEF ThreadShape
<1>8. OnlyMade'
  BY <1>1 DEF OnlyMade
<1>9. ~revived' => OneFrees'
  <2>. SUFFICES ASSUME ~revived'
                PROVE  OneFrees'
    OBVIOUS
  <2>. ~revived /\ OneFrees
    BY <1>1, <1>2, <1>3
  <2>1. \A u \in Threads : Frees(u)' <=> Frees(u)
    BY <1>1, <1>4, <1>5 DEF Only, Frees
  <2>2. \A c \in Counters : object'[c] = "deleted" =>
          /\ count_[c] = 0
          /\ c \in freed \/ \E u \in Threads : pc'[u] = "free" /\ old[u] = c
    <3>. SUFFICES ASSUME NEW c \in Counters, object'[c] = "deleted"
                  PROVE  /\ count_[c] = 0
                         /\ c \in freed \/ \E u \in Threads : pc'[u] = "free" /\ old[u] = c
      OBVIOUS
    <3>1. CASE c = c0
      BY <1>2, <1>5, <3>1
    <3>2. CASE c # c0
      <4>1. object[c] = "deleted"
        BY <1>1, <3>2 DEF TypeOK
      <4>2. \A u \in Threads : pc[u] = "free" => pc'[u] = "free"
        BY <1>1, <1>4 DEF Only
      <4>. QED  BY <4>1, <4>2 DEF OneFrees
    <3>. QED  BY <3>1, <3>2
  <2>. QED  BY <1>1, <2>1, <2>2 DEF OneFrees, Frees
<1>. QED  BY <1>3, <1>6, <1>7, <1>8, <1>9

LEMMA DeleteCounterIInv == ASSUME IInv, NEW t \in Threads, DeleteCounter(t) PROVE IInv'
<1>. USE DEF IInv
<1>. DEFINE c0 == old[t]
<1>1. /\ pc[t] = "free" /\ pc' = [pc EXCEPT ![t] = "idle"]
      /\ dst' = [dst EXCEPT ![t] = NoVar]
      /\ src' = [src EXCEPT ![t] = NoVar]
      /\ tmp' = [tmp EXCEPT ![t] = 0] /\ old' = [old EXCEPT ![t] = 0]
      /\ freed' = freed \cup {c0}
      /\ UNCHANGED <<counterP_, count_, object, made, revived>>
  BY DEF DeleteCounter, Done
<1>2. c0 \in Counters /\ (~revived => count_[c0] = 0) /\ c0 =< made
  BY <1>1, Held DEF OneFrees, Frees, OnlyMade
<1>3. TypeOK'
  BY <1>1, <1>2, PointerAssumption DEF TypeOK
<1>4. Only(t, NoVar)
  BY <1>1 DEF Only, TypeOK
<1>5. pc'[t] = "idle"
  BY <1>1 DEF TypeOK
<1>6. CountsReferences'
  <2>1. \A c \in Counters : /\ NoVar \in Holders(c) <=> NoVar \in Holders(c)'
                            /\ t \in Storing(c) <=> t \in Storing(c)'
                            /\ t \in Releasing(c) <=> t \in Releasing(c)'
    BY <1>1, <1>5 DEF Holders, Storing, Releasing
  <2>. QED  BY <1>1, <1>4, <2>1, SameCounts
<1>7. ThreadShape'
  <2>1. Shape(t)'
    BY <1>5 DEF Shape
  <2>. QED  BY <1>1, <1>4, <2>1, OthersShape DEF ThreadShape
<1>8. OnlyMade'
  BY <1>1, <1>2, PointerAssumption DEF OnlyMade, TypeOK
<1>9. ~revived' => OneFrees'
  <2>. SUFFICES ASSUME ~revived'
                PROVE  OneFrees'
    OBVIOUS
  <2>. ~revived /\ OneFrees
    BY <1>1, <1>2, <1>3
  <2>1. \A u \in Threads : Frees(u)' => Frees(u) /\ u # t /\ old'[u] = old[u]
    BY <1>4, <1>5 DEF Only, Frees
  <2>2. \A u \in Threads \ {t} : Frees(u) => old[u] # c0
    BY <1>1 DEF OneFrees, Frees
  <2>3. \A u \in Threads : Frees(u)' => count_[old'[u]] = 0 /\ old'[u] \notin freed'
    BY <1>1, <2>1, <2>2 DEF OneFrees
  <2>4. \A u, w \in Threads : Frees(u)' /\ Frees(w)' /\ old'[u] = old'[w] => u = w
    BY <2>1 DEF OneFrees
  <2>5. \A c \in freed' : count_[c] = 0
    BY <1>1, <1>2 DEF OneFrees
  <2>6. \A c \in Counters : object[c] = "deleted" =>
          /\ count_[c] = 0
          /\ c \in freed' \/ \E u \in Threads : pc'[u] = "free" /\ old'[u] = c
    <3>1. \A u \in Threads \ {t} : pc[u] = "free" => pc'[u] = "free" /\ old'[u] = old[u]
      BY <1>4 DEF Only
    <3>. QED  BY <1>1, <3>1 DEF OneFrees
  <2>. QED  BY <1>1, <2>3, <2>4, <2>5, <2>6 DEF OneFrees, Frees
<1>. QED  BY <1>3, <1>6, <1>7, <1>8, <1>9

LEMMA EndUseIInv == ASSUME IInv, NEW t \in Threads, EndUse(t) PROVE IInv'
<1>. USE DEF IInv
<1>1. /\ pc[t] = "use" /\ pc' = [pc EXCEPT ![t] = "idle"]
      /\ dst' = [dst EXCEPT ![t] = NoVar]
      /\ src' = [src EXCEPT ![t] = NoVar]
      /\ tmp' = [tmp EXCEPT ![t] = 0] /\ old' = [old EXCEPT ![t] = 0]
      /\ UNCHANGED <<counterP_, count_, object, freed, made, revived>>
  BY DEF EndUse, Done, heap
<1>2. TypeOK'
  BY <1>1, PointerAssumption DEF TypeOK
<1>3. Only(t, NoVar)
  BY <1>1 DEF Only, TypeOK
<1>4. pc'[t] = "idle"
  BY <1>1 DEF TypeOK
<1>5. CountsReferences'
  <2>1. \A c \in Counters : /\ NoVar \in Holders(c) <=> NoVar \in Holders(c)'
                            /\ t \in Storing(c) <=> t \in Storing(c)'
                            /\ t \in Releasing(c) <=> t \in Releasing(c)'
    BY <1>1, <1>4 DEF Holders, Storing, Releasing
  <2>. QED  BY <1>1, <1>3, <2>1, SameCounts
<1>6. ThreadShape'
  <2>1. Shape(t)'
    BY <1>4 DEF Shape
  <2>. QED  BY <1>1, <1>3, <2>1, OthersShape DEF ThreadShape
<1>7. OnlyMade'
  BY <1>1, PointerAssumption DEF OnlyMade, TypeOK
<1>8. ~revived' => OneFrees'
  <2>. SUFFICES ASSUME ~revived'
                PROVE  OneFrees'
    OBVIOUS
  <2>. ~revived /\ OneFrees
    BY <1>1, <1>2, <1>3
  <2>1. ~Frees(t) /\ ~Frees(t)'
    BY <1>1, <1>4 DEF Frees
  <2>. QED  BY <1>1, <1>3, <2>1, QuietFrees
<1>. QED  BY <1>2, <1>5, <1>6, <1>7, <1>8

-----------------------------------------------------------------------------
(* The invariant, and what it says.                                        *)

\* At the start each of the first Counters is held by one shared variable: the
\* variables are as many as the Counters, and no two hold the same.
LEMMA StartHolders ==
  ASSUME Init, NEW c \in Counters
  PROVE  Refs(c) = IF c =< made THEN 1 ELSE 0
<1>1. Storing(c) = {} /\ Releasing(c) = {}
  BY DEF Init, Storing, Releasing
<1>2. Refs(c) = Cardinality(Holders(c))
  BY <1>1, RefsParts, PartsFinite, FS_EmptySet
<1>3. IsFiniteSet(Shared)
  BY PointerAssumption, FS_Subset
<1>4. made \in Nat /\ made = Cardinality(Shared) /\ made =< MaxCounters /\ MaxCounters \in Nat
      /\ c \in Nat /\ c >= 1
  BY <1>3, FS_CardinalityType, PointerAssumption DEF Init, Counters
<1>. DEFINE held == [v \in Shared |-> counterP_[v]]
<1>5. \A v \in Vars : counterP_[v] \in 0 .. made
  BY DEF Init
<1>6. \A v \in Shared : held[v] \in 1 .. made
  BY <1>4, <1>5, PointerAssumption DEF Init
<1>7. held \in Injection(Shared, 1 .. made)
  <2>1. held \in [Shared -> 1 .. made]
    BY <1>6
  <2>2. \A v, w \in Shared : held[v] = held[w] => v = w
    BY DEF Init
  <2>. QED  BY <2>1, <2>2 DEF Injection, IsInjective
<1>8. IsFiniteSet(1 .. made) /\ Cardinality(1 .. made) = made
  BY <1>4, FS_Interval
<1>9. held \in Surjection(Shared, 1 .. made)
  BY <1>4, <1>7, <1>8, FS_Injection
<1>10. CASE c =< made
  <2>1. c \in 1 .. made
    BY <1>4, <1>10
  <2>2. \A y \in 1 .. made : \E x \in Shared : held[x] = y
    BY <1>9 DEF Surjection
  <2>3. PICK v \in Shared : held[v] = c
    BY <2>1, <2>2
  <2>4. v \in Vars /\ counterP_[v] = c
    BY <2>3, PointerAssumption
  <2>5. \A w \in Vars : counterP_[w] = c => w = v
    BY <1>4, <2>4 DEF Init
  <2>6. Holders(c) = {v}
    BY <2>4, <2>5 DEF Holders
  <2>. QED  BY <1>2, <1>10, <2>6, FS_Singleton
<1>11. CASE ~(c =< made)
  <2>1. Holders(c) = {}
    BY <1>4, <1>5, <1>11 DEF Holders
  <2>. QED  BY <1>2, <1>11, <2>1, FS_EmptySet
<1>. QED  BY <1>10, <1>11

LEMMA InitIInv == Init => IInv
<1>. SUFFICES ASSUME Init
              PROVE  IInv
  OBVIOUS
<1>1. made \in 0 .. MaxCounters /\ MaxCounters \in Nat
  <2>1. IsFiniteSet(Shared)
    BY PointerAssumption, FS_Subset
  <2>. QED  BY <2>1, FS_CardinalityType, PointerAssumption DEF Init
<1>2. TypeOK
  <2>1. counterP_ \in [Vars -> 0 .. MaxCounters]
    BY <1>1 DEF Init
  <2>2. /\ count_ \in [Counters -> Nat]
        /\ object \in [Counters -> {"null", "live", "deleted"}]
        /\ freed \subseteq Counters
    BY DEF Init
  <2>3. /\ pc \in [Threads -> {"idle", "copy", "count", "load", "store", "release", "delete", "free", "use"}]
        /\ dst \in [Threads -> Vars \cup {NoVar}] /\ src \in [Threads -> Vars \cup {NoVar}]
        /\ tmp \in [Threads -> 0 .. MaxCounters] /\ old \in [Threads -> 0 .. MaxCounters]
    BY <1>1 DEF Init
  <2>4. revived \in BOOLEAN
    BY DEF Init
  <2>. QED  BY <1>1, <2>1, <2>2, <2>3, <2>4 DEF TypeOK
<1>3. CountsReferences
  BY StartHolders DEF CountsReferences, Init
<1>4. \A t \in Threads : pc[t] = "idle" /\ tmp[t] = 0 /\ old[t] = 0
  BY DEF Init
<1>5. ThreadShape
  BY <1>4 DEF ThreadShape, Shape
<1>6. OnlyMade
  BY <1>1, <1>4, PointerAssumption DEF OnlyMade, Init
<1>7. OneFrees
  BY <1>4 DEF OneFrees, Frees, Init
<1>. QED  BY <1>2, <1>3, <1>5, <1>6, <1>7 DEF IInv

LEMMA NextIInv == IInv /\ [Next]_vars => IInv'
<1>. SUFFICES ASSUME IInv, [Next]_vars
              PROVE  IInv'
  OBVIOUS
<1>1. ASSUME NEW t \in Threads, Start(t)
      PROVE  IInv'
  BY <1>1, ConstructIInv, ReadIInv, BeginClearIInv, DestroyIInv DEF Start
<1>2. ASSUME NEW t \in Threads, Continue(t)
      PROVE  IInv'
  <2>1. CASE EndCopy(t) \/ CountNew(t) \/ LoadOld(t) \/ StoreNew(t)
    BY <2>1, EndCopyIInv, CountNewIInv, LoadOldIInv, StoreNewIInv
  <2>2. CASE Release(t) \/ DeleteObject(t) \/ DeleteCounter(t) \/ EndUse(t)
    BY <2>2, ReleaseIInv, DeleteObjectIInv, DeleteCounterIInv, EndUseIInv
  <2>. QED  BY <1>2, <2>1, <2>2 DEF Continue
<1>3. CASE UNCHANGED vars
  BY <1>3 DEF vars, IInv, TypeOK, CountsReferences, Refs, ThreadShape, Shape, StaleRead, Private, Assigned, Readable,
              OnlyMade, OneFrees, Frees
<1>. QED  BY <1>1, <1>2, <1>3 DEF Next

LEMMA SpecIInv == Spec => []IInv
<1>. QED  BY InitIInv, NextIInv, PTL DEF Spec

\* No count falls below zero, and no operation loses its place.
THEOREM TypeCorrect == Spec => []TypeOK
<1>. QED  BY SpecIInv, PTL DEF IInv

\* Whatever threads copy, assign, clear and destroy, and in which order, every
\* Counter counts the references to it: addRef() and release() need be atomic,
\* the loads and stores between them need not, for a variable nobody else
\* assigns.
THEOREM CountsCorrect == Spec => []CountsReferences
<1>. QED  BY SpecIInv, PTL DEF IInv

\* The first thread to touch a deleted Counter or object is one that has read a
\* variable before its owner, another thread, assigned it: no other operation
\* does, and none is deleted twice, since release() is zero for one of them.
THEOREM UseCorrect == Spec => []NoUseAfterFree
<1>. QED  BY SpecIInv, IInvNoUseAfterFree, PTL

\* No Counter at zero is counted again by a thread that reads what nobody assigns.
LEMMA NoneRevived ==
  ASSUME Written = {}, IInv, ~revived, [Next]_vars
  PROVE  ~revived'
<1>1. \A t \in Threads : ~StaleRead(t)
  BY DEF StaleRead
<1>2. ASSUME NEW t \in Threads, EndCopy(t) \/ CountNew(t)
      PROVE  ~revived'
  <2>1. pc[t] \in {"copy", "count"} /\ revived' = (revived \/ count_[tmp[t]] = 0)
    BY <1>2 DEF EndCopy, CountNew, At, AddRef
  <2>2. tmp[t] \in Counters /\ count_[tmp[t]] >= 1
    BY <1>1, <2>1, Held
  <2>3. count_[tmp[t]] \in Nat
    BY <2>2 DEF IInv, TypeOK
  <2>4. (count_[tmp[t]] = 0) = FALSE
    BY <2>2, <2>3
  <2>5. revived = FALSE
    OBVIOUS
  <2>. QED  BY <2>1, <2>4, <2>5
<1>3. ASSUME NEW t \in Threads, Start(t)
      PROVE  revived' = revived
  BY <1>3 DEF Start, Construct, BeginCopy, BeginAssign, BeginClear, Destroy, BeginUse,
              NewCounter, heap
<1>4. ASSUME NEW t \in Threads, Continue(t), ~EndCopy(t), ~CountNew(t)
      PROVE  revived' = revived
  BY <1>4 DEF Continue, LoadOld, StoreNew, Release, DeleteObject, DeleteCounter, EndUse, heap
<1>. QED  BY <1>2, <1>3, <1>4 DEF Next, vars

\* What the comments of operator= and clear() promise holds when the shared
\* variables have no writer at all, however many threads copy and use them.
THEOREM ReadersAreSafe ==
  ASSUME Written = {}
  PROVE  Spec => []OneWriterIsSafe
<1>1. Init => ~revived
  BY DEF Init
<1>2. IInv /\ ~revived /\ [Next]_vars => ~revived'
  BY NoneRevived
<1>3. IInv /\ ~revived => OneWriterIsSafe
  BY IInvNoUseAfterFree DEF NoUseAfterFree, StaleRead, OneWriterIsSafe
<1>. QED  BY <1>1, <1>2, <1>3, SpecIInv, PTL DEF Spec
=============================================================================
