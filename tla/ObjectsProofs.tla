---------------------------- MODULE ObjectsProofs ----------------------------
(***************************************************************************)
(* The invariants of Objects for a memory of any size, lists and tables of *)
(* any length, and objects that end at any point.                          *)
(***************************************************************************)
EXTENDS Objects, SequenceTheorems, TLAPS

Pointer == Ids \cup {Null, Wild}
Kinds   == {"Entity", "AnyVectorr", "Matrixx", "Tablee", "Vectorr", "Scalarr"}
AllTypes == FlagTypes \cup LableTypes
Record  == [class : Kinds, form : Forms, type : AllTypes, next : Nat, ptr : Seq(Pointer)]

\* What the places of the memory and the variables may hold.
Memory ==
  /\ obj \in [Ids -> {Free, Lost} \cup Record]
  /\ stack \in Seq(Ids)
  /\ entity \in Ids \cup {Null} /\ anyvector \in Ids \cup {Null}
  /\ ended \in BOOLEAN /\ flag \in Forms \X FlagTypes
  /\ pc \in {"idle", "read", "decode", "crashed"}
  /\ pc = "read" <=> stack # <<>>

\* How many pointers an object has, which of them are set, and which is wild.
PointersOf(n) ==
  LET k == Len(obj[n].ptr)
  IN  /\ obj[n].next \in 1 .. k + 1
      /\ obj[n].class \in {"Vectorr", "Scalarr"} => k = 0
      /\ obj[n].class = "Entity" => k = IF obj[n].form = "other" THEN 0 ELSE 1
      /\ obj[n].class = "Matrixx" => k >= 1
      /\ \A i \in 1 .. k :
           /\ i >= obj[n].next => obj[n].ptr[i] \in {Null, Wild}
           /\ obj[n].ptr[i] = Wild => obj[n].class = "Matrixx" /\ i = k
           /\ obj[n].class = "AnyVectorr" /\ i < obj[n].next => obj[n].ptr[i] # Null

\* What object c may be that m points to, or is being built for m.
Fits(m, c) ==
  /\ obj[m].class \in {"AnyVectorr", "Entity", "Matrixx", "Tablee"}
  /\ obj[m].class = "AnyVectorr" => obj[c].class = "Entity"
  /\ obj[m].class = "Entity" =>
       /\ obj[m].form = "scalar" => obj[c].class = "Scalarr"
       /\ obj[m].form = "matrix" => obj[c].class = "Matrixx" /\ obj[c].type = obj[m].type
       /\ obj[m].form = "table" => obj[c].class = "Tablee"
       /\ obj[m].form \notin {"scalar", "matrix", "table"} =>
            obj[c].class = "Vectorr" /\ obj[c].form = obj[m].form
  /\ obj[m].class \in {"Matrixx", "Tablee"} => obj[c].class = "Vectorr"

Links == \A m \in Live : PointersOf(m) /\ \A c \in Pointers(m) \cap Ids : c \in Live /\ Fits(m, c)

\* The constructors in progress wait for each other, for the outermost of the flag
\* that was read; the others are done.
StackShape ==
  /\ \A i \in 1 .. Len(stack) : stack[i] \in Live /\ obj[stack[i]].class # "lost"
  /\ \A i, j \in 1 .. Len(stack) : stack[i] = stack[j] => i = j
  /\ \A i \in 2 .. Len(stack) :
       obj[stack[i]].next =< Len(obj[stack[i]].ptr) /\ Fits(stack[i], stack[i - 1])
  /\ stack # <<>> =>
       LET b == stack[Len(stack)]
       IN  /\ flag = <<"vector", "any">> => obj[b].class = "AnyVectorr"
           /\ flag # <<"vector", "any">> =>
                obj[b].class = "Entity" /\ obj[b].form = flag[1] /\ obj[b].type = flag[2]
  /\ \A n \in Live \ Frames : obj[n].next = Len(obj[n].ptr) + 1

\* What the connector points to.
Roots ==
  /\ entity # Null => obj[entity].class = "Entity"
  /\ anyvector # Null => obj[anyvector].class = "AnyVectorr"
  /\ pc = "decode" =>
       /\ flag = <<"vector", "any">> => anyvector # Null
       /\ flag # <<"vector", "any">> =>
            entity # Null /\ obj[entity].form = flag[1] /\ obj[entity].type = flag[2]
  /\ pc \in {"read", "decode"} /\ flag[2] = "any" /\ flag[1] \notin {"vector", "other"} => ended

Owned ==
  /\ {entity, anyvector} \ {Null} \subseteq Live /\ (entity = anyvector => entity = Null)
  /\ \A n \in Live : \A m1, m2 \in Owners(n) : m1 = m2
  /\ \A n \in Live : Owners(n) # {} => n \notin Frames \cup {entity, anyvector}
  /\ Frames \cap {entity, anyvector} = {}

\* Every object has an owner but for those that are lost.
HasOwner(n) == n \in Frames \cup {entity, anyvector} \/ Owners(n) # {}
Leaked(n)   == obj[n].class = "lost" \/ (obj[n].class = "Vectorr" /\ obj[n].form = "pair")
Rooted      == pc # "crashed" => \A n \in Live : HasOwner(n) \/ Leaked(n)

\* The entities of the call in progress.
Current(e) ==
  \/ pc = "read" /\ (e \in Frames \/ \E f \in Frames : e \in Pointers(f))
  \/ pc = "decode" /\ e \in Parts
  \/ pc = "crashed"

\* What DDB_GetEntity would dereference of an entity is there, unless the stream has
\* ended in the call that made it.
Readable ==
  /\ \A e \in Live : obj[e].class = "Entity" /\ obj[e].next = Len(obj[e].ptr) + 1 =>
       Reads(e) \subseteq Live \/ (ended /\ Current(e))
  /\ \A m \in Frames :
       LET k == Len(obj[m].ptr)
       IN  obj[m].class = "Matrixx" /\ obj[m].next = k + 1 /\ obj[m].type = "plain" =>
             obj[m].ptr[k] \in Live \/ ended

IInv ==
  /\ Memory /\ Links /\ StackShape /\ Roots /\ Owned /\ Rooted /\ Readable /\ CrashExplained

-----------------------------------------------------------------------------
(* Places of the memory.                                                   *)

LEMMA Numbers == Ids \subseteq Nat \ {0} /\ MaxSize \in Nat /\ Null \notin Ids /\ Wild \notin Ids /\ Null # Wild
<1>. QED  BY ObjectsAssumption DEF Null, Wild

\* A place tells by its class whether it is free, lost or an object.
LEMMA Place ==
  ASSUME NEW r \in {Free, Lost} \cup Record
  PROVE  /\ r = Free <=> r.class = "free"
         /\ r = Lost <=> r.class = "lost"
         /\ r.class \notin {"free", "lost"} => r \in Record
<1>1. r \in Record => r.class \in Kinds
  BY DEF Record
<1>2. r \in Record => r.class \notin {"free", "lost"}
  BY <1>1 DEF Kinds
<1>3. Free.class = "free" /\ Lost.class = "lost"
  BY DEF Free, Lost
<1>. QED  BY <1>2, <1>3

LEMMA Fields ==
  ASSUME NEW r \in Record
  PROVE  /\ r.class \in Kinds /\ r.form \in Forms /\ r.type \in AllTypes /\ r.next \in Nat
         /\ r.ptr \in Seq(Pointer) /\ Len(r.ptr) \in Nat /\ DOMAIN r.ptr = 1 .. Len(r.ptr)
         /\ \A i \in 1 .. Len(r.ptr) : r.ptr[i] \in Pointer
<1>1. r.ptr \in Seq(Pointer)
  BY DEF Record
<1>2. Len(r.ptr) \in Nat /\ DOMAIN r.ptr = 1 .. Len(r.ptr) /\ \A i \in 1 .. Len(r.ptr) : r.ptr[i] \in Pointer
  BY <1>1, LenProperties, ElementOfSeq
<1>. QED  BY <1>1, <1>2 DEF Record

LEMMA LostPlace == Lost.ptr = <<>> /\ Len(Lost.ptr) = 0 /\ Lost.next = 1 /\ Lost.class = "lost"
                   /\ DOMAIN Lost.ptr = {}
<1>. QED  BY EmptySeq DEF Lost

\* What is alive, and what it points to.
LEMMA Alive ==
  ASSUME Memory
  PROVE  /\ Live \subseteq Ids /\ Null \notin Live /\ Wild \notin Live
         /\ \A n \in Ids : n \in Live <=> obj[n].class # "free"
         /\ \A n \in Live : /\ obj[n] = Lost <=> obj[n].class = "lost"
                            /\ obj[n].class # "lost" => obj[n] \in Record
                            /\ Len(obj[n].ptr) \in Nat
                            /\ \A c : c \in Pointers(n) <=> \E i \in 1 .. Len(obj[n].ptr) : c = obj[n].ptr[i]
                            /\ Pointers(n) \subseteq Pointer
                            /\ obj[n].class = "lost" => Len(obj[n].ptr) = 0 /\ obj[n].next = 1 /\ Pointers(n) = {}
<1>1. \A n \in Ids : obj[n] \in {Free, Lost} \cup Record
  BY DEF Memory
<1>2. Live \subseteq Ids /\ Null \notin Live /\ Wild \notin Live
  BY Numbers DEF Live
<1>3. \A n \in Ids : n \in Live <=> obj[n].class # "free"
  BY <1>1, Place DEF Live
<1>4. ASSUME NEW n \in Live
      PROVE  /\ obj[n] = Lost <=> obj[n].class = "lost"
             /\ obj[n].class # "lost" => obj[n] \in Record
             /\ Len(obj[n].ptr) \in Nat
             /\ \A c : c \in Pointers(n) <=> \E i \in 1 .. Len(obj[n].ptr) : c = obj[n].ptr[i]
             /\ Pointers(n) \subseteq Pointer
             /\ obj[n].class = "lost" => Len(obj[n].ptr) = 0 /\ obj[n].next = 1 /\ Pointers(n) = {}
  <2>1. obj[n] \in {Free, Lost} \cup Record /\ obj[n].class # "free"
    BY <1>1, <1>2, <1>3
  <2>2. obj[n] = Lost <=> obj[n].class = "lost"
    BY <2>1, Place
  <2>3. CASE obj[n] = Lost
    BY <2>2, <2>3, LostPlace DEF Pointers
  <2>4. CASE obj[n].class # "lost"
    <3>1. obj[n] \in Record
      BY <2>1, <2>4, Place
    <3>2. /\ Len(obj[n].ptr) \in Nat /\ DOMAIN obj[n].ptr = 1 .. Len(obj[n].ptr)
          /\ \A i \in 1 .. Len(obj[n].ptr) : obj[n].ptr[i] \in Pointer
      BY <3>1, Fields
    <3>. QED  BY <2>2, <2>4, <3>1, <3>2 DEF Pointers
  <2>. QED  BY <2>2, <2>3, <2>4
<1>. QED  BY <1>2, <1>3, <1>4

\* A record with another pointer, or at another one.
LEMMA NewPtr ==
  ASSUME NEW r \in Record, NEW p \in Seq(Pointer), NEW q, q = [r EXCEPT !.ptr = p]
  PROVE  q \in Record /\ q.class = r.class /\ q.form = r.form /\ q.type = r.type /\ q.next = r.next
         /\ q.ptr = p
<1>1. r \in [class : Kinds, form : Forms, type : AllTypes, next : Nat, ptr : Seq(Pointer)]
  BY DEF Record
<1>. QED  BY <1>1 DEF Record

LEMMA NewNext ==
  ASSUME NEW r \in Record, NEW k \in Nat, NEW q, q = [r EXCEPT !.next = k]
  PROVE  q \in Record /\ q.class = r.class /\ q.form = r.form /\ q.type = r.type /\ q.next = k
         /\ q.ptr = r.ptr
<1>1. r \in [class : Kinds, form : Forms, type : AllTypes, next : Nat, ptr : Seq(Pointer)]
  BY DEF Record
<1>. QED  BY <1>1 DEF Record

\* Setting a pointer.
LEMMA FillIs ==
  ASSUME NEW o \in [Ids -> {Free, Lost} \cup Record], NEW n \in Ids, o[n] \in Record,
         o[n].next \in 1 .. Len(o[n].ptr), NEW id \in Pointer, NEW f, f = Fill(o, n, id)
  PROVE  /\ f \in [Ids -> {Free, Lost} \cup Record] /\ \A m \in Ids \ {n} : f[m] = o[m]
         /\ f[n] \in Record /\ f[n].class = o[n].class /\ f[n].form = o[n].form /\ f[n].type = o[n].type
         /\ f[n].next = o[n].next + 1 /\ Len(f[n].ptr) = Len(o[n].ptr)
         /\ \A i \in 1 .. Len(o[n].ptr) : f[n].ptr[i] = IF i = o[n].next THEN id ELSE o[n].ptr[i]
<1>. DEFINE r == o[n]
            p == [r.ptr EXCEPT ![r.next] = id]
            q == [r EXCEPT !.ptr = p, !.next = r.next + 1]
<1>1. /\ r.class \in Kinds /\ r.form \in Forms /\ r.type \in AllTypes /\ r.next \in Nat
      /\ r.ptr \in Seq(Pointer) /\ Len(r.ptr) \in Nat
  BY Fields
<1>2. p \in Seq(Pointer) /\ Len(p) = Len(r.ptr)
      /\ \A i \in 1 .. Len(r.ptr) : p[i] = IF i = r.next THEN id ELSE r.ptr[i]
  BY <1>1, ExceptSeq
<1>3. f = [o EXCEPT ![n] = q]
  BY DEF Fill
<1>. HIDE DEF p
<1>4. q.class = r.class /\ q.form = r.form /\ q.type = r.type /\ q.next = r.next + 1 /\ q.ptr = p
      /\ q \in Record
  <2>. DEFINE q1 == [r EXCEPT !.ptr = p]
  <2>1. q = [q1 EXCEPT !.next = r.next + 1]
    OBVIOUS
  <2>2. q1 \in Record /\ q1.class = r.class /\ q1.form = r.form /\ q1.type = r.type /\ q1.ptr = p
    BY <1>2, NewPtr
  <2>. HIDE DEF q1, q
  <2>3. r.next + 1 \in Nat
    BY <1>1
  <2>4. q \in Record /\ q.class = q1.class /\ q.form = q1.form /\ q.type = q1.type /\ q.ptr = q1.ptr
        /\ q.next = r.next + 1
    BY <2>1, <2>2, <2>3, NewNext
  <2>. QED  BY <2>2, <2>4
<1>. HIDE DEF q
<1>. QED  BY <1>2, <1>3, <1>4

Skip(o, n) == [o EXCEPT ![n].next = @ + 1]

LEMMA SkipIs ==
  ASSUME NEW o \in [Ids -> {Free, Lost} \cup Record], NEW n \in Ids, o[n] \in Record,
         NEW f, f = Skip(o, n)
  PROVE  /\ f \in [Ids -> {Free, Lost} \cup Record] /\ \A m \in Ids \ {n} : f[m] = o[m]
         /\ f[n] \in Record /\ f[n].class = o[n].class /\ f[n].form = o[n].form /\ f[n].type = o[n].type
         /\ f[n].next = o[n].next + 1 /\ f[n].ptr = o[n].ptr
<1>. DEFINE r == o[n]
            q == [r EXCEPT !.next = r.next + 1]
<1>1. r.next + 1 \in Nat
  BY Fields
<1>2. /\ q \in Record /\ q.class = r.class /\ q.form = r.form /\ q.type = r.type
      /\ q.next = r.next + 1 /\ q.ptr = r.ptr
  BY <1>1, NewNext
<1>3. f = [o EXCEPT ![n] = q]
  BY DEF Skip
<1>. HIDE DEF q
<1>. QED  BY <1>2, <1>3

\* A new object has nothing but pointers to set.
LEMMA NewIs ==
  ASSUME NEW c \in Kinds, NEW f \in Forms, NEW t \in AllTypes, NEW k \in Nat
  PROVE  LET r == New(c, f, t, k)
         IN  /\ r \in Record /\ r.class = c /\ r.form = f /\ r.type = t /\ r.next = 1 /\ Len(r.ptr) = k
             /\ \A i \in 1 .. k : /\ r.ptr[i] \in {Null, Wild}
                                  /\ r.ptr[i] = Wild => c = "Matrixx" /\ i = k
<1>. DEFINE p == [i \in 1 .. k |-> IF c = "Matrixx" /\ i = k THEN Wild ELSE Null]
<1>1. \A i \in 1 .. k : p[i] \in {Null, Wild} /\ (p[i] = Wild => c = "Matrixx" /\ i = k)
  BY Numbers
<1>2. p \in [1 .. k -> Pointer]
  BY DEF Pointer
<1>3. p \in Seq(Pointer) /\ Len(p) = k
  BY <1>2
<1>4. New(c, f, t, k) = [class |-> c, form |-> f, type |-> t, next |-> 1, ptr |-> p]
  BY DEF New
<1>. HIDE DEF p
<1>. QED  BY <1>1, <1>3, <1>4 DEF Record

-----------------------------------------------------------------------------
(* Trees.                                                                  *)

Below(P)  == P \cup UNION {Pointers(n) : n \in P \cap Live}
BelowF(P) == P \cup UNION {Followed(n) : n \in P \cap Live}

LEMMA TreeIs ==
  ASSUME NEW S
  PROVE  Tree(S) = Below(Below(Below(S))) /\ Deleted(S) = BelowF(BelowF(BelowF(S)))
<1>. QED  BY DEF Tree, Deleted, Below, BelowF

\* An object points to objects of a lower rank only.
Rank(n) ==
  CASE obj[n].class = "AnyVectorr" -> 3
    [] obj[n].class = "Entity" -> 2
    [] obj[n].class \in {"Matrixx", "Tablee"} -> 1
    [] OTHER -> 0

LEMMA Lower ==
  ASSUME Memory, Links, NEW m \in Live, NEW c \in Pointers(m) \cap Live
  PROVE  Rank(m) \in 1 .. 3 /\ Rank(c) \in 0 .. 2 /\ Rank(c) < Rank(m)
<1>1. Fits(m, c) /\ obj[m].class # "lost" /\ obj[m].form \in Forms
  <2>1. Fits(m, c)
    BY Alive DEF Links
  <2>2. obj[m] \in Record
    BY <2>1, Alive DEF Fits
  <2>. QED  BY <2>1, <2>2, Fields DEF Fits
<1>2. CASE obj[m].class = "AnyVectorr"
  BY <1>1, <1>2 DEF Fits, Rank
<1>3. CASE obj[m].class = "Entity"
  <2>1. obj[c].class \in {"Scalarr", "Matrixx", "Tablee", "Vectorr"}
    BY <1>1, <1>3 DEF Fits
  <2>2. Rank(c) \in {0, 1} /\ Rank(m) = 2
    BY <1>3, <2>1 DEF Rank
  <2>. QED  BY <2>2
<1>4. CASE obj[m].class \in {"Matrixx", "Tablee"}
  BY <1>1, <1>4 DEF Fits, Rank
<1>. QED  BY <1>1, <1>2, <1>3, <1>4 DEF Fits

LEMMA Leaf ==
  ASSUME Memory, Links, NEW m \in Live, obj[m].class \notin {"AnyVectorr", "Entity", "Matrixx", "Tablee"}
  PROVE  Pointers(m) = {}
<1>1. CASE obj[m].class = "lost"
  BY <1>1, Alive
<1>2. CASE obj[m].class # "lost"
  <2>1. obj[m].class \in Kinds
    BY <1>2, Alive, Fields
  <2>2. Len(obj[m].ptr) = 0
    BY <2>1 DEF Kinds, Links, PointersOf
  <2>. QED  BY <2>2, Alive
<1>. QED  BY <1>1, <1>2

\* What is in a tree is at its root, or somebody in the tree points to it.
LEMMA TreeUp ==
  ASSUME NEW S, NEW x \in Tree(S)
  PROVE  x \in S \/ \E p \in Tree(S) \cap Live : x \in Pointers(p)
<1>1. Tree(S) = Below(Below(Below(S)))
  BY TreeIs
<1>2. \A P : P \subseteq Below(P)
  BY DEF Below
<1>3. \A P : \A y \in Below(P) : y \in P \/ \E p \in P \cap Live : y \in Pointers(p)
  BY DEF Below
<1>4. Below(Below(S)) \subseteq Tree(S) /\ Below(S) \subseteq Tree(S) /\ S \subseteq Tree(S)
  BY <1>1, <1>2
<1>5. CASE x \in Below(Below(S))
  <2>1. CASE x \in Below(S)
    BY <1>3, <1>4, <2>1
  <2>. QED  BY <1>3, <1>4, <1>5, <2>1
<1>. QED  BY <1>1, <1>3, <1>4, <1>5

LEMMA DeletedUp ==
  ASSUME NEW S, NEW x \in Deleted(S)
  PROVE  x \in S \/ \E p \in Deleted(S) \cap Live : x \in Followed(p)
<1>1. Deleted(S) = BelowF(BelowF(BelowF(S)))
  BY TreeIs
<1>2. \A P : P \subseteq BelowF(P)
  BY DEF BelowF
<1>3. \A P : \A y \in BelowF(P) : y \in P \/ \E p \in P \cap Live : y \in Followed(p)
  BY DEF BelowF
<1>4. BelowF(BelowF(S)) \subseteq Deleted(S) /\ BelowF(S) \subseteq Deleted(S) /\ S \subseteq Deleted(S)
  BY <1>1, <1>2
<1>5. CASE x \in BelowF(BelowF(S))
  <2>1. CASE x \in BelowF(S)
    BY <1>3, <1>4, <2>1
  <2>. QED  BY <1>3, <1>4, <1>5, <2>1
<1>. QED  BY <1>1, <1>3, <1>4, <1>5

\* Three levels are all there are.
LEMMA TreeDown ==
  ASSUME Memory, Links, NEW S, NEW m \in Tree(S) \cap Live
  PROVE  S \subseteq Tree(S) /\ Pointers(m) \subseteq Tree(S)
<1>1. Tree(S) = Below(Below(Below(S)))
  BY TreeIs
<1>2. \A P : P \subseteq Below(P) /\ \A p \in P \cap Live : Pointers(p) \subseteq Below(P)
  BY DEF Below
<1>3. \A P : \A y \in Below(P) : y \in P \/ \E p \in P \cap Live : y \in Pointers(p)
  BY DEF Below
<1>4. S \subseteq Tree(S)
  BY <1>1, <1>2
<1>5. CASE m \in Below(Below(S))
  BY <1>1, <1>2, <1>4, <1>5
<1>6. CASE m \notin Below(Below(S))
  <2>1. PICK p \in Below(Below(S)) \cap Live : m \in Pointers(p)
    BY <1>1, <1>3, <1>6
  <2>2. p \notin Below(S)
    BY <1>2, <1>6, <2>1
  <2>3. PICK q \in Below(S) \cap Live : p \in Pointers(q)
    BY <1>3, <2>1, <2>2
  <2>4. q \notin S
    BY <1>2, <2>2, <2>3
  <2>5. PICK r \in S \cap Live : q \in Pointers(r)
    BY <1>3, <2>3, <2>4
  <2>6. Rank(p) < Rank(q) /\ Rank(q) < Rank(r) /\ Rank(m) < Rank(p) /\ Rank(r) \in 1 .. 3
        /\ Rank(q) \in 0 .. 2 /\ Rank(p) \in 0 .. 2 /\ Rank(m) \in 0 .. 2
    BY <2>1, <2>3, <2>5, Lower
  <2>7. Rank(m) = 0
    BY <2>6
  <2>8. obj[m].class \notin {"AnyVectorr", "Entity", "Matrixx", "Tablee"}
    BY <2>7 DEF Rank
  <2>9. Pointers(m) = {}
    BY <2>8, Leaf
  <2>. QED  BY <1>4, <2>9
<1>. QED  BY <1>4, <1>5, <1>6

\* Neither is there for what a destructor deletes.
LEMMA DeletedDown ==
  ASSUME Memory, Links, NEW S, NEW m \in Deleted(S) \cap Live
  PROVE  S \subseteq Deleted(S) /\ Followed(m) \subseteq Deleted(S)
<1>0. \A n : Followed(n) \subseteq Pointers(n)
  BY DEF Followed
<1>1. Deleted(S) = BelowF(BelowF(BelowF(S)))
  BY TreeIs
<1>2. \A P : P \subseteq BelowF(P) /\ \A p \in P \cap Live : Followed(p) \subseteq BelowF(P)
  BY DEF BelowF
<1>3. \A P : \A y \in BelowF(P) : y \in P \/ \E p \in P \cap Live : y \in Followed(p)
  BY DEF BelowF
<1>4. S \subseteq Deleted(S)
  BY <1>1, <1>2
<1>5. CASE m \in BelowF(BelowF(S))
  BY <1>1, <1>2, <1>4, <1>5
<1>6. CASE m \notin BelowF(BelowF(S))
  <2>1. PICK p \in BelowF(BelowF(S)) \cap Live : m \in Followed(p)
    BY <1>1, <1>3, <1>6
  <2>2. p \notin BelowF(S)
    BY <1>2, <1>6, <2>1
  <2>3. PICK q \in BelowF(S) \cap Live : p \in Followed(q)
    BY <1>3, <2>1, <2>2
  <2>4. q \notin S
    BY <1>2, <2>2, <2>3
  <2>5. PICK r \in S \cap Live : q \in Followed(r)
    BY <1>3, <2>3, <2>4
  <2>6. Rank(p) < Rank(q) /\ Rank(q) < Rank(r) /\ Rank(m) < Rank(p) /\ Rank(r) \in 1 .. 3
        /\ Rank(q) \in 0 .. 2 /\ Rank(p) \in 0 .. 2 /\ Rank(m) \in 0 .. 2
    BY <1>0, <2>1, <2>3, <2>5, Lower
  <2>7. Rank(m) = 0
    BY <2>6
  <2>8. obj[m].class \notin {"AnyVectorr", "Entity", "Matrixx", "Tablee"}
    BY <2>7 DEF Rank
  <2>9. Pointers(m) = {}
    BY <2>8, Leaf
  <2>. QED  BY <1>0, <1>4, <2>9
<1>. QED  BY <1>4, <1>5, <1>6

\* Followed from owner to owner, an object that is not lost hangs on the connector or
\* on a constructor.
LEMMA KnownLeaks == IInv => OnlyKnownLeaks
<1>. SUFFICES ASSUME IInv, pc # "crashed",
                     NEW n \in Live \ Tree(Frames \cup {entity, anyvector})
              PROVE  Leaked(n)
  BY Alive DEF OnlyKnownLeaks, Leaked, IInv
<1>. DEFINE S == Frames \cup {entity, anyvector}
<1>1. Memory /\ Links /\ \A m \in Live : HasOwner(m) \/ Leaked(m)
  BY DEF IInv, Rooted
<1>2. Tree(S) = Below(Below(Below(S)))
  BY TreeIs
<1>3. \A P : P \subseteq Below(P) /\ \A p \in P \cap Live : Pointers(p) \subseteq Below(P)
  BY DEF Below
<1>4. \A m \in Live : m \in S \/ (\E o \in Live : m \in Pointers(o)) \/ Leaked(m)
  BY <1>1 DEF HasOwner, Owners
<1>5. \A m \in Live : Leaked(m) => Pointers(m) = {}
  BY <1>1, Leaf DEF Leaked
<1>6. SUFFICES ASSUME ~Leaked(n) PROVE FALSE
  OBVIOUS
<1>. HIDE DEF S
<1>7. n \notin S /\ n \notin Below(S) /\ n \notin Below(Below(S)) /\ n \notin Below(Below(Below(S)))
  BY <1>2, <1>3 DEF S
<1>8. PICK p \in Live : n \in Pointers(p)
  BY <1>4, <1>6, <1>7
<1>9. p \notin S /\ p \notin Below(S) /\ p \notin Below(Below(S))
  BY <1>3, <1>7, <1>8
<1>10. PICK q \in Live : p \in Pointers(q)
  BY <1>4, <1>5, <1>8, <1>9
<1>11. q \notin S /\ q \notin Below(S)
  BY <1>3, <1>9, <1>10
<1>12. PICK r \in Live : q \in Pointers(r)
  BY <1>4, <1>5, <1>10, <1>11
<1>13. r \notin S
  BY <1>3, <1>11, <1>12
<1>14. PICK s \in Live : r \in Pointers(s)
  BY <1>4, <1>5, <1>12, <1>13
<1>15. Rank(n) < Rank(p) /\ Rank(p) < Rank(q) /\ Rank(q) < Rank(r) /\ Rank(r) < Rank(s)
       /\ Rank(n) \in 0 .. 2 /\ Rank(p) \in 0 .. 2 /\ Rank(q) \in 0 .. 2 /\ Rank(r) \in 0 .. 2
       /\ Rank(s) \in 1 .. 3
  BY <1>1, <1>8, <1>10, <1>12, <1>14, Lower
<1>. QED  BY <1>15

-----------------------------------------------------------------------------
(* Objects that are given up or freed, X: nobody else points to them.      *)

LEMMA Removal ==
  ASSUME Memory, Links, NEW X \in SUBSET Live,
         \A m \in Live \ X : Pointers(m) \cap X = {},
         obj' \in [Ids -> {Free, Lost} \cup Record],
         \A n \in Ids \ X : obj'[n] = obj[n],
         \A n \in X : obj'[n] \in {Free, Lost}
  PROVE  /\ Live' \subseteq Live /\ Live \ X \subseteq Live'
         /\ \A n \in Live' \cap X : obj'[n] = Lost /\ Pointers(n)' = {}
         /\ \A m \in Live \ X : Pointers(m)' = Pointers(m)
         /\ \A n : Owners(n)' = Owners(n) \ X
         /\ \A n \in X : Owners(n)' = {}
         /\ Links'
<1>1. Live \subseteq Ids /\ Live' = {n \in Ids : obj'[n] # Free} /\ Live = {n \in Ids : obj[n] # Free}
  BY DEF Live
<1>2. Live' \subseteq Live /\ Live \ X \subseteq Live'
  BY <1>1
<1>3. \A n \in Live' \cap X : obj'[n] = Lost
  BY <1>1
<1>4. ASSUME NEW n \in Live' \cap X
      PROVE  Pointers(n)' = {} /\ Len(obj'[n].ptr) = 0 /\ obj'[n].next = 1 /\ obj'[n].class = "lost"
  BY <1>3, <1>4, LostPlace DEF Pointers
<1>5. \A m \in Live \ X : obj'[m] = obj[m] /\ Pointers(m)' = Pointers(m)
  BY <1>1 DEF Pointers
<1>6. \A n : Owners(n)' = Owners(n) \ X
  <2>. TAKE n
  <2>1. \A m \in Live' \cap X : n \notin Pointers(m)'
    BY <1>4
  <2>2. Owners(n)' = {m \in Live' : n \in Pointers(m)'} /\ Owners(n) = {m \in Live : n \in Pointers(m)}
    BY DEF Owners
  <2>. QED  BY <1>2, <1>5, <2>1, <2>2
<1>7. \A n \in X : Owners(n)' = {}
  BY <1>6 DEF Owners
<1>8. Links'
  <2>. SUFFICES ASSUME NEW m \in Live'
                PROVE  PointersOf(m)' /\ \A c \in Pointers(m)' \cap Ids : c \in Live' /\ Fits(m, c)'
    BY DEF Links
  <2>1. CASE m \in X
    BY <1>4, <2>1 DEF PointersOf
  <2>2. CASE m \notin X
    <3>1. m \in Live /\ obj'[m] = obj[m] /\ PointersOf(m) /\ Pointers(m)' = Pointers(m)
      BY <1>2, <1>5, <2>2 DEF Links
    <3>2. PointersOf(m)'
      BY <3>1 DEF PointersOf
    <3>3. ASSUME NEW c \in Pointers(m)' \cap Ids PROVE c \in Live' /\ Fits(m, c)'
      <4>1. c \in Live /\ Fits(m, c) /\ c \notin X
        BY <2>2, <3>1, <3>3 DEF Links
      <4>2. c \in Live' /\ obj'[c] = obj[c]
        BY <1>2, <1>5, <4>1
      <4>. QED  BY <3>1, <4>1, <4>2 DEF Fits
    <3>. QED  BY <3>2, <3>3
  <2>. QED  BY <2>1, <2>2
<1>. QED  BY <1>2, <1>3, <1>4, <1>5, <1>6, <1>7, <1>8

\* What could be read of an entity still can.
LEMMA ReadsKept ==
  ASSUME Memory, Links, NEW e \in Live, obj[e].class = "Entity", Reads(e) \subseteq Live,
         obj'[e] = obj[e],
         \A p \in Pointers(e) \cap Live : /\ p \in Live' /\ obj'[p] = obj[p]
                                          /\ Pointers(p) \cap Live \subseteq Live'
  PROVE  Reads(e)' \subseteq Live'
<1>. DEFINE p == obj[e].ptr[1]
<1>1. obj[e].form = "other" => Reads(e)' = {}
  BY DEF Reads
<1>2. ASSUME obj[e].form # "other", obj[e].form = "table" \/ obj[e].type = "plain"
      PROVE  Reads(e)' \subseteq Live'
  <2>1. p \in Pointers(e)
    <3>1. 1 \in 1 .. Len(obj[e].ptr)
      BY <1>2, Alive DEF Links, PointersOf
    <3>. QED  BY <3>1, Alive
  <2>2. p \in Reads(e)
    BY <1>2 DEF Reads
  <2>3. p \in Live /\ p \in Live' /\ obj'[p] = obj[p] /\ p \in Ids
    BY <2>1, <2>2, Alive
  <2>4. CASE obj[e].form # "matrix"
    BY <1>2, <2>3, <2>4 DEF Reads
  <2>5. CASE obj[e].form = "matrix"
    <3>1. obj[p].class = "Matrixx"
      BY <2>1, <2>3, <2>5 DEF Links, Fits
    <3>2. Len(obj[p].ptr) \in 1 .. Len(obj[p].ptr)
      BY <2>3, <3>1, Alive DEF Links, PointersOf
    <3>3. obj[p].ptr[Len(obj[p].ptr)] \in Pointers(p)
      BY <2>3, <3>2, Alive
    <3>4. obj[p].ptr[Len(obj[p].ptr)] \in Reads(e)
      BY <1>2, <2>3, <2>5 DEF Reads
    <3>5. obj[p].ptr[Len(obj[p].ptr)] \in Live'
      BY <2>1, <2>3, <3>3, <3>4
    <3>. QED  BY <1>2, <2>3, <2>5, <3>5 DEF Reads
  <2>. QED  BY <2>4, <2>5
<1>3. obj[e].form # "table" /\ obj[e].type # "plain" => Reads(e)' = {}
  BY DEF Reads
<1>. QED  BY <1>1, <1>2, <1>3

\* The owner of what is in X is in X.
LEMMA TreeOwned ==
  ASSUME Memory, Links, Owned, NEW S \in SUBSET (Frames \cup {entity, anyvector}),
         NEW m \in Live \ Tree(S)
  PROVE  Pointers(m) \cap (Tree(S) \cap Live) = {}
<1>. SUFFICES ASSUME NEW c \in Pointers(m), c \in Tree(S), c \in Live PROVE FALSE
  OBVIOUS
<1>1. m \in Owners(c)
  BY DEF Owners
<1>2. c \notin S
  BY <1>1 DEF Owned
<1>3. PICK p \in Tree(S) \cap Live : c \in Pointers(p)
  BY <1>2, TreeUp
<1>4. p \in Owners(c)
  BY <1>3 DEF Owners
<1>. QED  BY <1>1, <1>3, <1>4 DEF Owned

LEMMA DeletedOwned ==
  ASSUME Memory, Links, Owned, NEW S \in SUBSET (Frames \cup {entity, anyvector}),
         NEW m \in Live \ Deleted(S)
  PROVE  Pointers(m) \cap (Deleted(S) \cap Live) = {}
<1>. SUFFICES ASSUME NEW c \in Pointers(m), c \in Deleted(S), c \in Live PROVE FALSE
  OBVIOUS
<1>1. m \in Owners(c)
  BY DEF Owners
<1>2. c \notin S
  BY <1>1 DEF Owned
<1>3. PICK p \in Deleted(S) \cap Live : c \in Followed(p)
  BY <1>2, DeletedUp
<1>4. p \in Owners(c)
  BY <1>3 DEF Owners, Followed
<1>. QED  BY <1>1, <1>3, <1>4 DEF Owned

\* What holds of the objects that are left.
LEMMA AfterRemoval ==
  ASSUME Memory, Links, Owned, NEW X \in SUBSET Live,
         \A m \in Live \ X : Pointers(m) \cap X = {},
         obj' \in [Ids -> {Free, Lost} \cup Record],
         \A n \in Ids \ X : obj'[n] = obj[n],
         \A n \in X : obj'[n] \in {Free, Lost},
         \A n \in Live : HasOwner(n) \/ Leaked(n),
         Frames' \cup {entity', anyvector'} \subseteq {Null} \cup ((Frames \cup {entity, anyvector}) \ X),
         \A n \in (Frames \cup {entity, anyvector}) \ (X \cup {Null}) : n \in Frames' \cup {entity', anyvector'},
         \A m \in X : \A c \in Pointers(m) \cap Live : c \in X \/ Leaked(c),
         \A e \in Live \ X : obj[e].class = "Entity" /\ obj[e].next = Len(obj[e].ptr) + 1 =>
           Reads(e) \subseteq Live \/ (ended' /\ Current(e)')
  PROVE  /\ Links'
         /\ \A n \in Live' : \A m1, m2 \in Owners(n)' : m1 = m2
         /\ \A n \in Live' : Owners(n)' # {} => n \notin Frames' \cup {entity', anyvector'}
         /\ \A n \in Live' : HasOwner(n)' \/ Leaked(n)'
         /\ \A e \in Live' : obj'[e].class = "Entity" /\ obj'[e].next = Len(obj'[e].ptr) + 1 =>
              Reads(e)' \subseteq Live' \/ (ended' /\ Current(e)')
<1>1. /\ Live' \subseteq Live /\ Live \ X \subseteq Live'
      /\ \A n \in Live' \cap X : obj'[n] = Lost /\ Pointers(n)' = {}
      /\ \A m \in Live \ X : Pointers(m)' = Pointers(m)
      /\ \A n : Owners(n)' = Owners(n) \ X
      /\ \A n \in X : Owners(n)' = {}
      /\ Links'
  BY Removal
<1>2. Live \subseteq Ids /\ Null \notin Live /\ Live' \subseteq Ids
  BY <1>1, Alive
<1>3. \A n \in Live' : \A m1, m2 \in Owners(n)' : m1 = m2
  BY <1>1 DEF Owned
<1>4. ASSUME NEW n \in Live', Owners(n)' # {} PROVE n \notin Frames' \cup {entity', anyvector'}
  <2>1. Owners(n) # {} /\ n \in Live /\ n # Null
    BY <1>1, <1>2, <1>4
  <2>. QED  BY <2>1 DEF Owned
<1>5. ASSUME NEW n \in Live' PROVE HasOwner(n)' \/ Leaked(n)'
  <2>1. CASE n \in X
    BY <1>1, <2>1, LostPlace DEF Leaked
  <2>2. CASE n \notin X
    <3>1. n \in Live /\ obj'[n] = obj[n] /\ n # Null
      BY <1>1, <1>2, <2>2
    <3>2. CASE Leaked(n)
      BY <3>1, <3>2 DEF Leaked
    <3>3. CASE n \in Frames \cup {entity, anyvector}
      BY <2>2, <3>1, <3>3 DEF HasOwner
    <3>4. ASSUME NEW m \in Owners(n), ~Leaked(n) PROVE HasOwner(n)'
      <4>1. m \in Live /\ n \in Pointers(m)
        BY <3>4 DEF Owners
      <4>2. m \notin X
        BY <2>2, <3>1, <3>4, <4>1
      <4>. QED  BY <1>1, <3>4, <4>2 DEF HasOwner
    <3>. QED  BY <3>1, <3>2, <3>3, <3>4 DEF HasOwner
  <2>. QED  BY <2>1, <2>2
<1>6. ASSUME NEW e \in Live', obj'[e].class = "Entity", obj'[e].next = Len(obj'[e].ptr) + 1
      PROVE  Reads(e)' \subseteq Live' \/ (ended' /\ Current(e)')
  <2>1. e \notin X
    BY <1>1, <1>6, LostPlace
  <2>2. e \in Live /\ obj'[e] = obj[e]
    BY <1>1, <1>2, <2>1
  <2>3. CASE Reads(e) \subseteq Live
    <3>1. ASSUME NEW p \in Pointers(e) \cap Live
          PROVE  p \in Live' /\ obj'[p] = obj[p] /\ Pointers(p) \cap Live \subseteq Live'
      <4>1. p \in Live \ X
        BY <2>1, <2>2
      <4>2. Pointers(p) \cap X = {}
        BY <4>1
      <4>. QED  BY <1>1, <1>2, <4>1, <4>2
    <3>. QED  BY <1>6, <2>2, <2>3, <3>1, ReadsKept
  <2>. QED  BY <1>6, <2>1, <2>2, <2>3
<1>. QED  BY <1>1, <1>3, <1>4, <1>5, <1>6

-----------------------------------------------------------------------------
(* The end of the process.                                                 *)

LEMMA NoFrames == ASSUME stack = <<>> PROVE Frames = {}
<1>. QED  BY DEF Frames

\* Between two constructions there is a wild pointer only in a matrix of an
\* unsupported type, or in one the stream has ended in.
LEMMA WildExplained ==
  ASSUME IInv, pc \in {"idle", "decode"}, NEW m \in Live, Wild \in Pointers(m)
  PROVE  ended \/ (obj[m].class = "Matrixx" /\ obj[m].type # "plain")
<1>. SUFFICES ASSUME obj[m].class # "Matrixx" \/ obj[m].type = "plain" PROVE ended
  OBVIOUS
<1>1. Memory /\ Links /\ StackShape /\ Roots /\ Owned /\ Frames = {} /\ (HasOwner(m) \/ Leaked(m))
  BY NoFrames DEF IInv, Memory, Rooted
<1>2. PICK i \in 1 .. Len(obj[m].ptr) : obj[m].ptr[i] = Wild
  BY <1>1, Alive
<1>3. obj[m].class = "Matrixx" /\ i = Len(obj[m].ptr) /\ obj[m].type = "plain"
  BY <1>1, <1>2 DEF Links, PointersOf
<1>4. m \notin {entity, anyvector} /\ ~Leaked(m)
  BY <1>1, <1>3, Alive DEF Roots, Leaked
<1>5. PICK e \in Live : m \in Pointers(e)
  BY <1>1, <1>4 DEF HasOwner, Owners
<1>6. Fits(e, m) /\ m \in Ids
  BY <1>1, <1>5, Alive DEF Links
<1>7. obj[e].class = "Entity" /\ obj[e].form = "matrix" /\ obj[e].type = "plain"
  BY <1>3, <1>6 DEF Fits
<1>8. obj[e].ptr[1] = m /\ obj[e].next = Len(obj[e].ptr) + 1
  BY <1>1, <1>5, <1>7, Alive DEF Links, PointersOf, StackShape
<1>9. Reads(e) = {m, Wild}
  BY <1>2, <1>3, <1>7, <1>8 DEF Reads
<1>10. ~(Reads(e) \subseteq Live)
  BY <1>1, <1>9, Alive
<1>. QED  BY <1>7, <1>8, <1>10 DEF IInv, Readable

LEMMA CrashStep ==
  ASSUME IInv, pc \in {"idle", "decode"}, pc' = "crashed", obj' = obj, stack' = stack, ended' = ended,
         flag' \in Forms \X FlagTypes, entity' \in {entity, Null}, anyvector' \in {anyvector, Null},
         ended \/ \E m \in Live : obj[m].class = "Matrixx" /\ obj[m].type # "plain"
  PROVE  IInv'
<1>1. Memory /\ Links /\ StackShape /\ Roots /\ Owned /\ Readable /\ stack = <<>> /\ Frames = {}
  BY NoFrames DEF IInv, Memory
<1>2. /\ Live' = Live /\ Frames' = Frames /\ (\A n : Owners(n)' = Owners(n)) /\ (\A n : Pointers(n)' = Pointers(n))
  BY DEF Live, Frames, Owners, Pointers
<1>3. Memory'
  BY <1>1 DEF Memory
<1>4. Links'
  BY <1>1, <1>2 DEF Links, PointersOf, Fits
<1>5. StackShape'
  BY <1>1, <1>2 DEF StackShape
<1>6. Roots'
  BY <1>1 DEF Roots
<1>7. Owned'
  <2>1. entity' \in Live' \cup {Null} /\ anyvector' \in Live' \cup {Null} /\ (entity' = anyvector' => entity' = Null)
    BY <1>1, <1>2 DEF Owned
  <2>2. Frames' \cup {entity', anyvector'} \subseteq {entity, anyvector} \cup {Null} /\ Null \notin Live
    BY <1>1, <1>2, Alive
  <2>3. \A n \in Live' : /\ \A m1, m2 \in Owners(n)' : m1 = m2
                         /\ Owners(n)' # {} => n \notin Frames' \cup {entity', anyvector'}
    BY <1>1, <1>2, <2>2 DEF Owned
  <2>. QED  BY <1>1, <1>2, <2>1, <2>3 DEF Owned
<1>8. Rooted'
  BY DEF Rooted
<1>9. Readable'
  <2>1. ASSUME NEW e \in Live, obj[e].class = "Entity", obj[e].next = Len(obj[e].ptr) + 1
        PROVE  Reads(e)' \subseteq Live' \/ (ended' /\ Current(e)')
    <3>1. Reads(e)' = Reads(e)
      BY <1>2 DEF Reads
    <3>2. Current(e)'
      BY DEF Current
    <3>. QED  BY <1>1, <1>2, <2>1, <3>1, <3>2 DEF Readable
  <2>. QED  BY <1>1, <1>2, <2>1 DEF Readable
<1>10. CrashExplained'
  BY <1>2 DEF CrashExplained
<1>. QED  BY <1>3, <1>4, <1>5, <1>6, <1>7, <1>8, <1>9, <1>10 DEF IInv

-----------------------------------------------------------------------------
(* Clear and DisConnect.                                                   *)

\* delete of both pointers, or of the entity between two calls.
LEMMA Deletion ==
  ASSUME IInv, NEW S, S = {entity, anyvector} \/ (S = {entity} /\ pc = "idle"),
         pc \in {"idle", "decode"}, Delete(S), stack' = stack, ended' = ended,
         flag' \in Forms \X FlagTypes, entity' = Null,
         anyvector' = IF S = {entity} THEN anyvector ELSE Null
  PROVE  IInv'
<1>. DEFINE X == Deleted(S) \ {Null}
<1>1. Memory /\ Links /\ StackShape /\ Roots /\ Owned /\ Readable /\ stack = <<>> /\ Frames = {}
      /\ \A n \in Live : HasOwner(n) \/ Leaked(n)
  BY NoFrames DEF IInv, Memory, Rooted
<1>2. Live \subseteq Ids /\ Null \notin Live /\ Wild \notin Live
  BY <1>1, Alive
<1>3. CASE X \subseteq Live
  <2>1. obj' = [n \in Ids |-> IF n \in X THEN Free ELSE obj[n]] /\ pc' = "idle"
    BY <1>3 DEF Delete
  <2>. HIDE DEF X
  <2>2. obj' \in [Ids -> {Free, Lost} \cup Record] /\ (\A n \in Ids \ X : obj'[n] = obj[n])
        /\ \A n \in X : obj'[n] = Free
    BY <1>1, <1>2, <1>3, <2>1 DEF Memory
  <2>3. \A m \in Live \ X : Pointers(m) \cap X = {}
    BY <1>1, <1>2, <1>3, DeletedOwned DEF X
  <2>4. Frames' = {}
    BY <1>1 DEF Frames
  <2>5. anyvector' # Null => anyvector' = anyvector /\ anyvector \notin X /\ S = {entity}
    <3>1. SUFFICES ASSUME S = {entity}, anyvector # Null, anyvector \in X PROVE FALSE
      OBVIOUS
    <3>2. anyvector \in Deleted(S)
      BY <3>1 DEF X
    <3>3. anyvector \notin S
      BY <1>1, <3>1 DEF Owned
    <3>4. PICK p \in Deleted(S) \cap Live : anyvector \in Followed(p)
      BY <3>2, <3>3, DeletedUp
    <3>5. p \in Owners(anyvector) /\ anyvector \in Live
      BY <1>3, <3>1, <3>4 DEF Owners, Followed
    <3>. QED  BY <1>1, <3>5 DEF Owned
  <2>6. \A n \in (Frames \cup {entity, anyvector}) \ (X \cup {Null}) : n \in Frames' \cup {entity', anyvector'}
    <3>1. S \subseteq Deleted(S)
      BY TreeIs DEF BelowF
    <3>. QED  BY <1>1, <3>1 DEF X
  <2>7. ASSUME NEW m \in X, NEW c \in Pointers(m) \cap Live PROVE c \in X \/ Leaked(c)
    <3>1. m \in Live /\ Followed(m) \subseteq Deleted(S)
      BY <1>1, <1>3, <2>7, DeletedDown DEF X
    <3>2. CASE c \in Followed(m)
      BY <1>2, <3>1, <3>2 DEF X
    <3>3. CASE c \notin Followed(m)
      <4>1. obj[m].class = "Entity" /\ obj[m].form \in {"pair", "other"}
        BY <2>7, <3>3 DEF Followed
      <4>2. obj[m].form # "other"
        <5>1. obj[m].form = "other" => Len(obj[m].ptr) = 0
          BY <1>1, <3>1, <4>1 DEF Links, PointersOf
        <5>. QED  BY <1>1, <2>7, <3>1, <5>1, Alive
      <4>3. Fits(m, c)
        BY <1>1, <1>2, <2>7, <3>1 DEF Links
      <4>. QED  BY <4>1, <4>2, <4>3 DEF Fits, Leaked
    <3>. QED  BY <3>2, <3>3
  <2>8. ASSUME NEW e \in Live \ X, obj[e].class = "Entity", obj[e].next = Len(obj[e].ptr) + 1
        PROVE  Reads(e) \subseteq Live
    <3>1. SUFFICES ASSUME Current(e) PROVE FALSE
      BY <1>1, <2>8 DEF Readable
    <3>2. pc = "decode" /\ e \in Parts /\ S = {entity, anyvector}
      BY <3>1 DEF Current
    <3>3. e \notin Deleted(S) /\ S \subseteq Deleted(S)
      BY <1>2, <2>8, TreeIs DEF X, BelowF
    <3>4. anyvector # Null /\ e \in Pointers(anyvector)
      BY <3>2, <3>3 DEF Parts
    <3>5. anyvector \in Deleted(S) \cap Live /\ obj[anyvector].class = "AnyVectorr"
      BY <1>1, <3>2, <3>3, <3>4 DEF Owned, Roots
    <3>6. e \in Followed(anyvector)
      BY <3>4, <3>5 DEF Followed
    <3>. QED  BY <1>1, <3>3, <3>5, <3>6, DeletedDown
  <2>9. Frames' \cup {entity', anyvector'} \subseteq {Null} \cup ((Frames \cup {entity, anyvector}) \ X)
    BY <2>4, <2>5
  <2>10. /\ Links'
         /\ \A n \in Live' : \A m1, m2 \in Owners(n)' : m1 = m2
         /\ \A n \in Live' : Owners(n)' # {} => n \notin Frames' \cup {entity', anyvector'}
         /\ \A n \in Live' : HasOwner(n)' \/ Leaked(n)'
         /\ \A e \in Live' : obj'[e].class = "Entity" /\ obj'[e].next = Len(obj'[e].ptr) + 1 =>
              Reads(e)' \subseteq Live' \/ (ended' /\ Current(e)')
    BY <1>1, <1>3, <2>2, <2>3, <2>6, <2>7, <2>8, <2>9, AfterRemoval
  <2>11. Live' \subseteq Live /\ Live \ X \subseteq Live' /\ \A n \in Live' : n \notin X
    BY <1>2, <1>3, <2>1, <2>2 DEF Live
  <2>12. Memory'
    BY <1>1, <2>1, <2>2 DEF Memory
  <2>13. StackShape'
    BY <1>1, <1>2, <2>2, <2>4, <2>11 DEF StackShape
  <2>14. Roots'
    BY <1>1, <2>1, <2>2, <2>5 DEF Roots, Memory
  <2>15. Owned'
    BY <1>1, <2>4, <2>5, <2>10, <2>11 DEF Owned
  <2>16. Rooted' /\ Readable' /\ CrashExplained'
    BY <2>1, <2>4, <2>10 DEF Rooted, Readable, CrashExplained
  <2>. QED  BY <2>10, <2>12, <2>13, <2>14, <2>15, <2>16 DEF IInv
<1>4. CASE ~(X \subseteq Live)
  <2>1. pc' = "crashed" /\ obj' = obj
    BY <1>4 DEF Delete
  <2>2. PICK x \in Deleted(S) : x # Null /\ x \notin Live
    BY <1>4
  <2>3. x \notin S
    BY <1>1, <2>2 DEF Owned
  <2>4. PICK m \in Deleted(S) \cap Live : x \in Followed(m)
    BY <2>2, <2>3, DeletedUp
  <2>5. x \in Pointers(m)
    BY <2>4 DEF Followed
  <2>6. x = Wild
    BY <1>1, <2>2, <2>4, <2>5, Alive DEF Links, Pointer
  <2>. QED  BY <2>1, <2>4, <2>5, <2>6, WildExplained, CrashStep
<1>. QED  BY <1>3, <1>4

-----------------------------------------------------------------------------
(* The steps between constructions.                                        *)

\* A step that leaves the objects and the pointers to them.
LEMMA Still ==
  ASSUME IInv, pc # "crashed", obj' = obj, stack' = stack, entity' = entity, anyvector' = anyvector,
         ended' \in BOOLEAN, flag' \in Forms \X FlagTypes, pc' \in {"idle", "read"},
         pc' = "read" <=> stack # <<>>,
         stack # <<>> => flag' = flag /\ (ended => ended'),
         \A e \in Live : obj[e].class = "Entity" /\ obj[e].next = Len(obj[e].ptr) + 1 =>
           Reads(e) \subseteq Live \/ (ended' /\ Current(e)')
  PROVE  IInv'
<1>1. Memory /\ Links /\ StackShape /\ Roots /\ Owned /\ Readable
  BY DEF IInv
<1>2. /\ Live' = Live /\ Frames' = Frames /\ (\A n : Owners(n)' = Owners(n)) /\ (\A n : Pointers(n)' = Pointers(n))
      /\ \A n : Reads(n)' = Reads(n)
  BY DEF Live, Frames, Owners, Pointers, Reads
<1>3. Memory'
  BY <1>1 DEF Memory
<1>4. Links'
  BY <1>1, <1>2 DEF Links, PointersOf, Fits
<1>5. StackShape'
  <2>1. CASE stack = <<>>
    BY <1>1, <1>2, <2>1 DEF StackShape, Fits
  <2>2. CASE flag' = flag
    BY <1>1, <1>2, <2>2 DEF StackShape, Fits
  <2>. QED  BY <2>1, <2>2
<1>6. Roots'
  <2>1. pc = "read" <=> stack # <<>>
    BY <1>1 DEF Memory
  <2>. QED  BY <1>1, <2>1 DEF Roots
<1>7. Owned'
  BY <1>1, <1>2 DEF Owned
<1>8. Rooted'
  BY <1>2 DEF IInv, Rooted, HasOwner, Leaked
<1>9. Readable'
  <2>1. \A e \in Live' : obj'[e].class = "Entity" /\ obj'[e].next = Len(obj'[e].ptr) + 1 =>
          Reads(e)' \subseteq Live' \/ (ended' /\ Current(e)')
    BY <1>2
  <2>2. ASSUME NEW m \in Frames, obj[m].class = "Matrixx", obj[m].next = Len(obj[m].ptr) + 1, obj[m].type = "plain"
        PROVE  obj[m].ptr[Len(obj[m].ptr)] \in Live \/ ended'
    <3>1. stack # <<>>
      BY <2>2, NoFrames
    <3>. QED  BY <1>1, <2>2, <3>1 DEF Readable
  <2>. QED  BY <1>2, <2>1, <2>2 DEF Readable
<1>10. CrashExplained'
  BY DEF CrashExplained
<1>. QED  BY <1>3, <1>4, <1>5, <1>6, <1>7, <1>8, <1>9, <1>10 DEF IInv

\* What DDB_GetEntity dereferences is there, unless the stream has ended.
LEMMA DerefsLive == ASSUME IInv, pc = "decode", ~ended PROVE Derefs \subseteq Live
<1>1. Memory /\ Links /\ StackShape /\ Roots /\ Owned /\ Readable /\ Frames = {}
  BY NoFrames DEF IInv, Memory
<1>2. ASSUME NEW e \in Live, obj[e].class = "Entity" PROVE Reads(e) \subseteq Live
  <2>1. obj[e].next = Len(obj[e].ptr) + 1
    BY <1>1, <1>2 DEF StackShape
  <2>. QED  BY <1>1, <1>2, <2>1 DEF Readable
<1>3. flag = <<flag[1], flag[2]>>
  BY <1>1 DEF Memory
<1>4. CASE IsList
  <2>1. anyvector \in Live /\ obj[anyvector].class = "AnyVectorr"
    BY <1>1, <1>3, <1>4 DEF IsList, Roots, Owned
  <2>2. ASSUME NEW e \in Pointers(anyvector) PROVE e \in Live /\ obj[e].class = "Entity"
    <3>1. PICK i \in 1 .. Len(obj[anyvector].ptr) : e = obj[anyvector].ptr[i]
      BY <1>1, <2>1, <2>2, Alive
    <3>2. obj[anyvector].next = Len(obj[anyvector].ptr) + 1 /\ Len(obj[anyvector].ptr) \in Nat
      BY <1>1, <2>1, Alive DEF StackShape
    <3>3. i < obj[anyvector].next
      BY <3>2
    <3>4. e # Null /\ e # Wild
      BY <1>1, <2>1, <3>1, <3>3 DEF Links, PointersOf
    <3>5. e \in Ids
      BY <1>1, <2>1, <2>2, <3>4, Alive DEF Pointer
    <3>. QED  BY <1>1, <2>1, <2>2, <3>5 DEF Links, Fits
  <2>3. Parts = Pointers(anyvector)
    BY <1>1, <1>4, <2>1, Alive DEF Parts
  <2>. QED  BY <1>2, <1>4, <2>1, <2>2, <2>3 DEF Derefs
<1>5. CASE ~IsList
  <2>1. flag # <<"vector", "any">>
    BY <1>5 DEF IsList
  <2>2. entity \in Live /\ obj[entity].class = "Entity"
    BY <1>1, <2>1 DEF Roots, Owned
  <2>. QED  BY <1>2, <1>5, <2>2 DEF Derefs, Parts
<1>. QED  BY <1>4, <1>5

LEMMA ClearStep == ASSUME IInv, pc = "decode", Clear, flag' = NoFlag, stack' = stack, ended' = ended PROVE IInv'
<1>1. NoFlag \in Forms \X FlagTypes
  BY DEF NoFlag, Forms, FlagTypes, Types
<1>2. Delete({entity, anyvector}) /\ entity' = Null /\ anyvector' = Null
  BY DEF Clear
<1>3. {entity, anyvector} = {entity} => anyvector = Null
  BY DEF IInv, Owned
<1>. QED  BY <1>1, <1>2, <1>3, Deletion

LEMMA DecodeStep == ASSUME IInv, Decode PROVE IInv'
<1>1. pc = "decode" /\ flag' = NoFlag /\ stack' = stack /\ ended' = ended
  BY DEF Decode
<1>2. NoFlag \in Forms \X FlagTypes
  BY DEF NoFlag, Forms, FlagTypes, Types
<1>3. CASE ~(Derefs \subseteq Live)
  <2>1. pc' = "crashed" /\ obj' = obj /\ entity' = entity /\ anyvector' = anyvector
    BY <1>3 DEF Decode
  <2>2. ended
    BY <1>1, <1>3, DerefsLive
  <2>. QED  BY <1>1, <1>2, <2>1, <2>2, CrashStep
<1>4. CASE Derefs \subseteq Live /\ pc' = "idle" /\ obj' = obj /\ entity' = entity /\ anyvector' = anyvector
  <2>1. \A e \in Parts : Reads(e) \subseteq Live
    BY <1>4 DEF Derefs
  <2>2. stack = <<>> /\ Readable /\ ended \in BOOLEAN
    BY <1>1 DEF IInv, Memory
  <2>3. \A e \in Live : obj[e].class = "Entity" /\ obj[e].next = Len(obj[e].ptr) + 1 => Reads(e) \subseteq Live
    BY <1>1, <2>1, <2>2 DEF Readable, Current
  <2>. QED  BY <1>1, <1>2, <1>4, <2>2, <2>3, Still
<1>5. CASE Clear
  BY <1>1, <1>5, ClearStep
<1>. QED  BY <1>3, <1>4, <1>5 DEF Decode

LEMMA IgnoreStep == ASSUME IInv, Ignore PROVE IInv'
<1>. QED  BY ClearStep DEF Ignore

LEMMA DisConnectStep == ASSUME IInv, DisConnect PROVE IInv'
<1>1. /\ pc = "idle" /\ Delete({entity}) /\ entity' = Null /\ stack' = stack /\ anyvector' = anyvector
      /\ ended' = ended /\ flag' = flag
  BY DEF DisConnect
<1>2. flag \in Forms \X FlagTypes
  BY DEF IInv, Memory
<1>. QED  BY <1>1, <1>2, Deletion

LEMMA ReconnectStep == ASSUME IInv, Reconnect PROVE IInv'
<1>1. /\ pc = "idle" /\ ended' = FALSE
      /\ obj' = obj /\ stack' = stack /\ entity' = entity /\ anyvector' = anyvector /\ flag' = flag /\ pc' = pc
  BY DEF Reconnect
<1>2. stack = <<>> /\ flag \in Forms \X FlagTypes /\ Readable
  BY <1>1 DEF IInv, Memory
<1>3. \A e : ~Current(e)
  BY <1>1 DEF Current
<1>. QED  BY <1>1, <1>2, <1>3, Still DEF Readable

LEMMA StreamEndsStep == ASSUME IInv, StreamEnds PROVE IInv'
<1>1. /\ pc = "read" /\ ended' = TRUE
      /\ obj' = obj /\ stack' = stack /\ entity' = entity /\ anyvector' = anyvector /\ flag' = flag /\ pc' = pc
  BY DEF StreamEnds
<1>2. stack # <<>> /\ flag \in Forms \X FlagTypes /\ Readable
  BY <1>1 DEF IInv, Memory
<1>3. \A e : Current(e)' = Current(e)
  BY <1>1 DEF Current, Frames, Pointers, Parts, IsList
<1>. QED  BY <1>1, <1>2, <1>3, Still DEF Readable

-----------------------------------------------------------------------------
(* The end of a construction.                                              *)

\* A constructor or a pointer of the connector leads only to its own objects.
LEMMA Apart ==
  ASSUME Memory, Links, Owned, NEW S \in SUBSET (Frames \cup {entity, anyvector}),
         NEW n \in (Frames \cup {entity, anyvector}) \ S
  PROVE  n \notin Tree(S) \cap Live
<1>. SUFFICES ASSUME n \in Tree(S) \cap Live PROVE FALSE
  OBVIOUS
<1>1. PICK p \in Tree(S) \cap Live : n \in Pointers(p)
  BY TreeUp
<1>2. Owners(n) # {}
  BY <1>1 DEF Owners
<1>. QED  BY <1>2 DEF Owned

\* A step that ends the construction and gives up the objects of X.
LEMMA Over ==
  ASSUME IInv, pc # "crashed", NEW X \in SUBSET Live,
         \A m \in Live \ X : Pointers(m) \cap X = {} /\ obj[m].next = Len(obj[m].ptr) + 1,
         obj' \in [Ids -> {Free, Lost} \cup Record],
         \A n \in Ids \ X : obj'[n] = obj[n],
         \A n \in X : obj'[n] \in {Free, Lost},
         stack' = <<>>, ended' = ended, flag' \in Forms \X FlagTypes, pc' \in {"idle", "decode"}, Roots',
         {entity', anyvector'} \subseteq {Null} \cup ((Frames \cup {entity, anyvector}) \ X),
         entity' = anyvector' => entity' = Null,
         \A n \in (Frames \cup {entity, anyvector}) \ (X \cup {Null}) : n \in {entity', anyvector'},
         \A m \in X : \A c \in Pointers(m) \cap Live : c \in X,
         \A e \in Live \ X : obj[e].class = "Entity" /\ obj[e].next = Len(obj[e].ptr) + 1 =>
           Reads(e) \subseteq Live \/ (ended' /\ Current(e)')
  PROVE  IInv'
<1>1. Memory /\ Links /\ StackShape /\ Owned /\ \A n \in Live : HasOwner(n) \/ Leaked(n)
  BY DEF IInv, Rooted
<1>2. Frames' = {}
  BY DEF Frames
<1>3. Frames' \cup {entity', anyvector'} = {entity', anyvector'}
  BY <1>2
<1>4. /\ Links'
      /\ \A n \in Live' : \A m1, m2 \in Owners(n)' : m1 = m2
      /\ \A n \in Live' : Owners(n)' # {} => n \notin Frames' \cup {entity', anyvector'}
      /\ \A n \in Live' : HasOwner(n)' \/ Leaked(n)'
      /\ \A e \in Live' : obj'[e].class = "Entity" /\ obj'[e].next = Len(obj'[e].ptr) + 1 =>
           Reads(e)' \subseteq Live' \/ (ended' /\ Current(e)')
  <2>1. \A m \in Live \ X : Pointers(m) \cap X = {}
    OBVIOUS
  <2>2. \A m \in X : \A c \in Pointers(m) \cap Live : c \in X \/ Leaked(c)
    OBVIOUS
  <2>3. Frames' \cup {entity', anyvector'} \subseteq {Null} \cup ((Frames \cup {entity, anyvector}) \ X)
    BY <1>3
  <2>4. \A n \in (Frames \cup {entity, anyvector}) \ (X \cup {Null}) : n \in Frames' \cup {entity', anyvector'}
    BY <1>3
  <2>. QED  BY <1>1, <2>1, <2>2, <2>3, <2>4, AfterRemoval
<1>5. /\ Live' \subseteq Live /\ Live \ X \subseteq Live'
      /\ \A n \in Live' \cap X : obj'[n] = Lost
  BY <1>1, Removal
<1>6. Frames \subseteq Live /\ Live \subseteq Ids /\ Null \notin Live
  <2>1. stack \in Seq(Ids)
    BY <1>1 DEF Memory
  <2>. QED  BY <1>1, <2>1, Alive, LenProperties DEF StackShape, Frames
<1>7. {entity', anyvector'} \ {Null} \subseteq Live'
  BY <1>1, <1>5, <1>6 DEF Owned
<1>8. Memory'
  <2>1. entity' \in Ids \cup {Null} /\ anyvector' \in Ids \cup {Null}
    BY <1>5, <1>6, <1>7
  <2>2. stack' \in Seq(Ids)
    BY EmptySeq
  <2>. QED  BY <1>1, <2>1, <2>2 DEF Memory
<1>9. StackShape'
  <2>1. Len(stack') = 0
    BY EmptySeq
  <2>2. ASSUME NEW n \in Live' PROVE obj'[n].next = Len(obj'[n].ptr) + 1
    <3>1. CASE n \in X
      BY <1>5, <2>2, <3>1, LostPlace
    <3>2. CASE n \notin X
      BY <1>5, <1>6, <2>2, <3>2
    <3>. QED  BY <3>1, <3>2
  <2>. QED  BY <2>1, <2>2 DEF StackShape
<1>10. Owned'
  BY <1>2, <1>4, <1>7 DEF Owned
<1>11. Rooted' /\ Readable' /\ CrashExplained'
  BY <1>2, <1>4 DEF Rooted, Readable, CrashExplained
<1>. QED  BY <1>4, <1>8, <1>9, <1>10, <1>11 DEF IInv

\* The constructors in progress.
LEMMA Innermost ==
  ASSUME IInv, pc = "read"
  PROVE  /\ stack \in Seq(Ids) /\ stack # <<>> /\ Len(stack) \in Nat /\ Len(stack) >= 1
         /\ Top = stack[1] /\ Top \in Frames /\ Top \in Live
         /\ Frames \subseteq Live /\ \A n : n \in Frames <=> \E i \in 1 .. Len(stack) : n = stack[i]
         /\ obj[Top] \in Record /\ Len(obj[Top].ptr) \in Nat /\ obj[Top].next \in 1 .. Len(obj[Top].ptr) + 1
<1>1. Memory /\ Links /\ StackShape
  BY DEF IInv
<1>2. stack \in Seq(Ids) /\ stack # <<>>
  BY <1>1 DEF Memory
<1>3. Len(stack) \in Nat /\ Len(stack) >= 1 /\ Top = stack[1] /\ DOMAIN stack = 1 .. Len(stack)
  BY <1>2, LenProperties, EmptySeq, HeadTailProperties DEF Top
<1>4. Frames \subseteq Live /\ \A n : n \in Frames <=> \E i \in 1 .. Len(stack) : n = stack[i]
  BY <1>1, <1>3 DEF Frames, StackShape
<1>5. Top \in Frames /\ Top \in Live /\ obj[Top].class # "lost"
  BY <1>1, <1>3, <1>4 DEF StackShape
<1>6. obj[Top] \in Record /\ Len(obj[Top].ptr) \in Nat /\ obj[Top].next \in 1 .. Len(obj[Top].ptr) + 1
  BY <1>1, <1>5, Alive DEF Links, PointersOf
<1>. QED  BY <1>2, <1>3, <1>4, <1>5, <1>6

LEMMA ThrowStep == ASSUME IInv, Throw PROVE IInv'
<1>. DEFINE X == Tree(Frames) \cap Live
<1>1. /\ pc = "read" /\ stack' = <<>> /\ pc' = "idle" /\ flag' = NoFlag
      /\ entity' = entity /\ anyvector' = anyvector /\ ended' = ended
      /\ obj' = [n \in Ids |-> IF n \in Frames THEN Free ELSE GiveUp(Tree(Frames))[n]]
  BY DEF Throw
<1>2. Memory /\ Links /\ StackShape /\ Roots /\ Owned /\ Readable
  BY DEF IInv
<1>3. Live \subseteq Ids /\ Null \notin Live
  BY <1>2, Alive
<1>4. Frames \subseteq X
  <2>1. Frames \subseteq Tree(Frames)
    BY TreeIs DEF Below
  <2>. QED  BY <1>1, <2>1, Innermost
<1>5. \A n \in Ids : obj'[n] = IF n \in Frames THEN Free ELSE IF n \in X THEN Lost ELSE obj[n]
  BY <1>1 DEF GiveUp
<1>6. obj' \in [Ids -> {Free, Lost} \cup Record]
  <2>1. obj \in [Ids -> {Free, Lost} \cup Record]
    BY <1>2 DEF Memory
  <2>2. \A n \in Ids : obj'[n] \in {Free, Lost} \cup Record
    BY <1>5, <2>1
  <2>. QED  BY <1>1, <2>2
<1>7. \A n \in (Frames \cup {entity, anyvector}) \ Frames : n \notin X
  BY <1>2, Apart
<1>8. \A m \in Live \ X : Pointers(m) \cap X = {} /\ obj[m].next = Len(obj[m].ptr) + 1
  BY <1>2, <1>4, TreeOwned DEF StackShape
<1>9. \A m \in X : \A c \in Pointers(m) \cap Live : c \in X
  BY <1>2, TreeDown
<1>. HIDE DEF X
<1>10. X \in SUBSET Live
  BY DEF X
<1>11. flag' \in Forms \X FlagTypes
  BY <1>1 DEF NoFlag, Forms, FlagTypes, Types
<1>12. {entity', anyvector'} \subseteq {Null} \cup ((Frames \cup {entity, anyvector}) \ X)
  BY <1>1, <1>2, <1>7 DEF Owned
<1>13. (entity' = anyvector' => entity' = Null)
       /\ \A n \in (Frames \cup {entity, anyvector}) \ (X \cup {Null}) : n \in {entity', anyvector'}
  BY <1>1, <1>2, <1>4 DEF Owned
<1>14. Roots'
  <2>1. entity # Null => obj'[entity] = obj[entity]
    BY <1>2, <1>3, <1>5, <1>7 DEF Owned
  <2>2. anyvector # Null => obj'[anyvector] = obj[anyvector]
    BY <1>2, <1>3, <1>5, <1>7 DEF Owned
  <2>. QED  BY <1>1, <1>2, <2>1, <2>2 DEF Roots
<1>15. ASSUME NEW e \in Live \ X, obj[e].class = "Entity", obj[e].next = Len(obj[e].ptr) + 1
       PROVE  Reads(e) \subseteq Live
  <2>1. SUFFICES ASSUME Current(e) PROVE FALSE
    BY <1>2, <1>15 DEF Readable
  <2>2. PICK f \in Frames : e \in Pointers(f)
    BY <1>1, <1>4, <1>15, <2>1 DEF Current
  <2>3. f \in X /\ e \in X
    BY <1>4, <1>9, <1>15, <2>2
  <2>. QED  BY <1>15, <2>3
<1>16. (\A n \in Ids \ X : obj'[n] = obj[n]) /\ \A n \in X : obj'[n] \in {Free, Lost}
  BY <1>3, <1>4, <1>5, <1>10
<1>. QED  BY <1>1, <1>6, <1>8, <1>9, <1>10, <1>11, <1>12, <1>13, <1>14, <1>15, <1>16, Over

\* What is given up with the pointer s of the connector.
LEMMA Overwritten ==
  ASSUME IInv, pc = "read", ~Reading, Len(stack) = 1, NEW s \in {entity, anyvector},
         obj' = GiveUp(Tree({s}))
  PROVE  LET X == Tree({s}) \cap Live
         IN  /\ X \in SUBSET Live /\ Frames = {Top} /\ obj[Top].next = Len(obj[Top].ptr) + 1
             /\ obj' \in [Ids -> {Free, Lost} \cup Record]
             /\ \A n \in Ids \ X : obj'[n] = obj[n]
             /\ \A n \in X : obj'[n] \in {Free, Lost}
             /\ \A m \in Live \ X : Pointers(m) \cap X = {} /\ obj[m].next = Len(obj[m].ptr) + 1
             /\ \A m \in X : \A c \in Pointers(m) \cap Live : c \in X
             /\ \A n \in (Frames \cup {entity, anyvector}) \ {s} : n \notin X
             /\ s \in X \cup {Null}
<1>. DEFINE X == Tree({s}) \cap Live
<1>1. Memory /\ Links /\ StackShape /\ Owned
  BY DEF IInv
<1>2. Frames = {Top}
  BY Innermost
<1>3. obj[Top].next = Len(obj[Top].ptr) + 1
  <2>1. /\ ~(obj[Top].next =< Len(obj[Top].ptr))
        /\ obj[Top].next \in 1 .. Len(obj[Top].ptr) + 1 /\ Len(obj[Top].ptr) \in Nat
    BY Innermost DEF Reading
  <2>. QED  BY <2>1
<1>4. obj \in [Ids -> {Free, Lost} \cup Record] /\ Live \subseteq Ids
  BY <1>1, Alive DEF Memory
<1>5. \A n \in Ids : obj'[n] = IF n \in X THEN Lost ELSE obj[n]
  BY DEF GiveUp
<1>6. obj' \in [Ids -> {Free, Lost} \cup Record]
  <2>1. \A n \in Ids : obj'[n] \in {Free, Lost} \cup Record
    BY <1>4, <1>5
  <2>. QED  BY <2>1 DEF GiveUp
<1>7. {s} \in SUBSET (Frames \cup {entity, anyvector})
  OBVIOUS
<1>8. \A m \in Live \ X : Pointers(m) \cap X = {}
  BY <1>1, <1>7, TreeOwned
<1>9. \A m \in Live \ X : obj[m].next = Len(obj[m].ptr) + 1
  BY <1>1, <1>2, <1>3 DEF StackShape
<1>10. \A m \in X : \A c \in Pointers(m) \cap Live : c \in X
  BY <1>1, TreeDown
<1>11. \A n \in (Frames \cup {entity, anyvector}) \ {s} : n \notin X
  BY <1>1, <1>7, Apart
<1>12. s \in X \cup {Null}
  <2>1. s \in Tree({s})
    BY TreeIs DEF Below
  <2>. QED  BY <1>1, <2>1 DEF Owned
<1>. HIDE DEF X
<1>13. X \in SUBSET Live
  BY DEF X
<1>14. (\A n \in Ids \ X : obj'[n] = obj[n]) /\ \A n \in X : obj'[n] \in {Free, Lost}
  BY <1>4, <1>5, <1>13
<1>15. \A m \in Live \ X : Pointers(m) \cap X = {} /\ obj[m].next = Len(obj[m].ptr) + 1
  BY <1>8, <1>9
<1>. QED  BY <1>2, <1>3, <1>6, <1>10, <1>11, <1>12, <1>13, <1>14, <1>15 DEF X

\* The outermost object is a list when the flag is of one, and else an entity of
\* the flag.
LEMMA Outermost ==
  ASSUME IInv, pc = "read", Len(stack) = 1
  PROVE  /\ obj[Top].class = "AnyVectorr" <=> flag = <<"vector", "any">>
         /\ flag # <<"vector", "any">> =>
              obj[Top].class = "Entity" /\ obj[Top].form = flag[1] /\ obj[Top].type = flag[2]
<1>1. stack # <<>> /\ stack[Len(stack)] = Top
  BY Innermost
<1>. QED  BY <1>1 DEF IInv, StackShape

LEMMA ReceivedStep == ASSUME IInv, Received PROVE IInv'
<1>1. /\ pc = "read" /\ ~Reading /\ Len(stack) = 1
      /\ stack' = <<>> /\ pc' = "decode" /\ ended' = ended /\ flag' = flag
  BY DEF Received
<1>2. Memory /\ Links /\ StackShape /\ Roots /\ Owned /\ Readable
  BY DEF IInv
<1>3. Live \subseteq Ids /\ Null \notin Live /\ Top \in Live /\ flag \in Forms \X FlagTypes
  BY <1>1, <1>2, Alive, Innermost DEF Memory
<1>4. CASE obj[Top].class = "AnyVectorr"
  <2>. DEFINE X == Tree({anyvector}) \cap Live
  <2>1. anyvector' = Top /\ obj' = GiveUp(Tree({anyvector})) /\ entity' = entity
    BY <1>4 DEF Received
  <2>2. /\ X \in SUBSET Live /\ Frames = {Top} /\ obj[Top].next = Len(obj[Top].ptr) + 1
        /\ obj' \in [Ids -> {Free, Lost} \cup Record]
        /\ \A n \in Ids \ X : obj'[n] = obj[n]
        /\ \A n \in X : obj'[n] \in {Free, Lost}
        /\ \A m \in Live \ X : Pointers(m) \cap X = {} /\ obj[m].next = Len(obj[m].ptr) + 1
        /\ \A m \in X : \A c \in Pointers(m) \cap Live : c \in X
        /\ \A n \in (Frames \cup {entity, anyvector}) \ {anyvector} : n \notin X
        /\ anyvector \in X \cup {Null}
    BY <1>1, <2>1, Overwritten
  <2>. HIDE DEF X
  <2>3. flag = <<"vector", "any">>
    BY <1>1, <1>4, Outermost
  <2>4. Top \notin {entity, anyvector} /\ Top \notin X /\ (entity # Null => entity \in Ids \ X)
    BY <1>2, <1>3, <2>2 DEF Owned
  <2>5. {entity', anyvector'} \subseteq {Null} \cup ((Frames \cup {entity, anyvector}) \ X)
    BY <2>1, <2>2, <2>4
  <2>6. (entity' = anyvector' => entity' = Null)
        /\ \A n \in (Frames \cup {entity, anyvector}) \ (X \cup {Null}) : n \in {entity', anyvector'}
    BY <2>1, <2>2, <2>4
  <2>7. Roots'
    <3>1. obj'[Top] = obj[Top] /\ (entity # Null => obj'[entity] = obj[entity])
      BY <1>3, <2>2, <2>4
    <3>2. Top # Null
      BY <1>3
    <3>. QED  BY <1>1, <1>2, <1>4, <2>1, <2>3, <3>1, <3>2 DEF Roots
  <2>8. ASSUME NEW e \in Live \ X, obj[e].class = "Entity", obj[e].next = Len(obj[e].ptr) + 1
        PROVE  Reads(e) \subseteq Live \/ (ended' /\ Current(e)')
    <3>1. SUFFICES ASSUME ended, Current(e) PROVE ended' /\ Current(e)'
      BY <1>2, <2>8 DEF Readable
    <3>2. e \in Pointers(Top)
      BY <1>1, <1>4, <2>2, <2>8, <3>1 DEF Current
    <3>3. \A n : n = Top => Pointers(n)' = Pointers(n)
      BY <1>3, <2>2, <2>4 DEF Pointers
    <3>4. \A n : n = Top => Parts' = Pointers(n)'
      <4>1. IsList'
        BY <1>1, <2>3 DEF IsList
      <4>2. anyvector' # Null
        BY <1>3, <2>1
      <4>. QED  BY <2>1, <4>1, <4>2 DEF Parts, Pointers
    <3>5. e \in Parts'
      BY <3>2, <3>3, <3>4
    <3>. QED  BY <1>1, <3>1, <3>5 DEF Current
  <2>. QED  BY <1>1, <1>3, <2>2, <2>5, <2>6, <2>7, <2>8, Over
<1>5. CASE obj[Top].class # "AnyVectorr"
  <2>. DEFINE X == Tree({entity}) \cap Live
  <2>1. entity' = Top /\ obj' = GiveUp(Tree({entity})) /\ anyvector' = anyvector
    BY <1>5 DEF Received
  <2>2. /\ X \in SUBSET Live /\ Frames = {Top} /\ obj[Top].next = Len(obj[Top].ptr) + 1
        /\ obj' \in [Ids -> {Free, Lost} \cup Record]
        /\ \A n \in Ids \ X : obj'[n] = obj[n]
        /\ \A n \in X : obj'[n] \in {Free, Lost}
        /\ \A m \in Live \ X : Pointers(m) \cap X = {} /\ obj[m].next = Len(obj[m].ptr) + 1
        /\ \A m \in X : \A c \in Pointers(m) \cap Live : c \in X
        /\ \A n \in (Frames \cup {entity, anyvector}) \ {entity} : n \notin X
        /\ entity \in X \cup {Null}
    BY <1>1, <2>1, Overwritten
  <2>. HIDE DEF X
  <2>3. /\ flag # <<"vector", "any">>
        /\ obj[Top].class = "Entity" /\ obj[Top].form = flag[1] /\ obj[Top].type = flag[2]
    BY <1>1, <1>5, Outermost
  <2>4. Top \notin {entity, anyvector} /\ Top \notin X /\ (anyvector # Null => anyvector \in Ids \ X)
    BY <1>2, <1>3, <2>2 DEF Owned
  <2>5. {entity', anyvector'} \subseteq {Null} \cup ((Frames \cup {entity, anyvector}) \ X)
    BY <2>1, <2>2, <2>4
  <2>6. (entity' = anyvector' => entity' = Null)
        /\ \A n \in (Frames \cup {entity, anyvector}) \ (X \cup {Null}) : n \in {entity', anyvector'}
    BY <2>1, <2>2, <2>4
  <2>7. Roots'
    <3>1. obj'[Top] = obj[Top] /\ (anyvector # Null => obj'[anyvector] = obj[anyvector])
      BY <1>3, <2>2, <2>4
    <3>2. Top # Null
      BY <1>3
    <3>. QED  BY <1>1, <1>2, <2>1, <2>3, <3>1, <3>2 DEF Roots
  <2>8. ASSUME NEW e \in Live \ X, obj[e].class = "Entity", obj[e].next = Len(obj[e].ptr) + 1
        PROVE  Reads(e) \subseteq Live \/ (ended' /\ Current(e)')
    <3>1. SUFFICES ASSUME ended, Current(e), ~(Reads(e) \subseteq Live) PROVE ended' /\ Current(e)'
      BY <1>2, <2>8 DEF Readable
    <3>2. e = Top
      <4>1. SUFFICES ASSUME e \in Pointers(Top) PROVE FALSE
        BY <1>1, <2>2, <3>1 DEF Current
      <4>2. Fits(Top, e)
        BY <1>2, <1>3, <2>8, <4>1 DEF Links
      <4>. QED  BY <2>3, <2>8, <4>2 DEF Fits
    <3>3. ~IsList
      <4>1. SUFFICES ASSUME IsList PROVE Reads(Top) = {}
        BY <3>1, <3>2
      <4>. QED  BY <2>3, <4>1 DEF IsList, Reads
    <3>4. Parts' = {Top}
      BY <1>1, <2>1, <3>3 DEF Parts, IsList
    <3>. QED  BY <1>1, <3>1, <3>2, <3>4 DEF Current
  <2>. QED  BY <1>1, <1>3, <2>2, <2>5, <2>6, <2>7, <2>8, Over
<1>. QED  BY <1>4, <1>5

-----------------------------------------------------------------------------
(* Setting or skipping a pointer.                                          *)

\* The constructor in progress sets its next pointer to v or leaves it as it is;
\* v is a new leaf, or what the constructor that returns has built.
FillStep(m, v, d) ==
  /\ pc = "read" /\ pc' = "read"
  /\ entity' = entity /\ anyvector' = anyvector /\ ended' = ended /\ flag' = flag
  /\ stack' \in Seq(Ids) /\ Len(stack') = Len(stack) - d /\ Len(stack') >= 1
  /\ \A i \in 1 .. Len(stack') : stack'[i] = stack[i + d]
  /\ m = stack[1 + d] /\ obj[m].next \in 1 .. Len(obj[m].ptr)
  /\ obj' \in [Ids -> {Free, Lost} \cup Record]
  /\ \A n \in Ids \ {m, v} : obj'[n] = obj[n]
  /\ obj'[m] \in Record
  /\ obj'[m].class = obj[m].class /\ obj'[m].form = obj[m].form /\ obj'[m].type = obj[m].type
  /\ obj'[m].next = obj[m].next + 1 /\ Len(obj'[m].ptr) = Len(obj[m].ptr)
  /\ \A i \in 1 .. Len(obj[m].ptr) : obj'[m].ptr[i] = IF i = obj[m].next THEN v ELSE obj[m].ptr[i]
  /\ v \in Live => d = 1 /\ v = stack[1] /\ obj'[v] = obj[v]
  /\ v \in Ids \ Live => d = 0 /\ obj'[v] \in Record /\ Len(obj'[v].ptr) = 0
                          /\ obj'[v].class \in {"Scalarr", "Vectorr"}
  /\ v \notin Ids => d = 0 /\ v = obj[m].ptr[obj[m].next] /\ obj[m].class # "AnyVectorr"
  /\ v \in Ids => v # m /\ Fits(m, v)' /\ obj'[v].next = Len(obj'[v].ptr) + 1
  /\ obj[m].class = "Entity" => Reads(m)' \subseteq Live' \/ ended
  /\ obj[m].class = "Matrixx" /\ obj[m].next = Len(obj[m].ptr) /\ obj[m].type = "plain" => v \in Live' \/ ended

LEMMA FillMemory ==
  ASSUME IInv, NEW m, NEW v, NEW d \in {0, 1}, FillStep(m, v, d)
  PROVE  /\ m \in Frames /\ m \in Live /\ Live \subseteq Ids
         /\ Live' = Live \cup ({v} \cap Ids)
         /\ \A n \in Live \ {m} : obj'[n] = obj[n] /\ Pointers(n)' = Pointers(n)
         /\ \A c \in Ids : c \in Pointers(m)' <=> c \in Pointers(m) \/ c = v
         /\ v \in Ids \ Live => Pointers(v)' = {}
         /\ Frames' \subseteq Frames /\ Frames \subseteq Frames' \cup {v} /\ m \in Frames'
<1>1. Memory /\ Links /\ StackShape /\ pc = "read"
  BY DEF IInv, FillStep
<1>2. /\ m = stack[1 + d] /\ Len(stack') = Len(stack) - d /\ Len(stack') >= 1 /\ stack' \in Seq(Ids)
      /\ \A i \in 1 .. Len(stack') : stack'[i] = stack[i + d]
  BY DEF FillStep
<1>3. /\ Len(stack) \in Nat /\ Frames \subseteq Live /\ \A n : n \in Frames <=> \E i \in 1 .. Len(stack) : n = stack[i]
  BY <1>1, Innermost
<1>4. 1 + d \in 1 .. Len(stack)
  BY <1>2, <1>3
<1>5. m \in Frames /\ m \in Live
  BY <1>2, <1>3, <1>4
<1>6. Live \subseteq Ids /\ (\A n \in Ids : n \in Live <=> obj[n].class # "free") /\ Null \notin Live /\ Wild \notin Live
  BY <1>1, Alive
<1>7. obj' \in [Ids -> {Free, Lost} \cup Record] /\ \A n \in Ids \ {m, v} : obj'[n] = obj[n]
  BY DEF FillStep
<1>8. \A n \in Live \ {m} : obj'[n] = obj[n] /\ Pointers(n)' = Pointers(n)
  <2>1. \A n \in Live \ {m} : obj'[n] = obj[n]
    BY <1>6, <1>7 DEF FillStep
  <2>. QED  BY <2>1 DEF Pointers
<1>9. m \in Live' /\ (v \in Ids => v \in Live')
  <2>1. ASSUME NEW n \in Ids, obj'[n] \in Record PROVE n \in Live'
    <3>1. obj'[n].class # "free"
      BY <2>1, Fields DEF Kinds
    <3>. QED  BY <1>7, <3>1, Place DEF Live
  <2>2. CASE v \in Live
    <3>1. obj'[v] = obj[v]
      BY <2>2 DEF FillStep
    <3>. QED  BY <1>5, <1>6, <2>1, <2>2, <3>1 DEF FillStep, Live
  <2>3. CASE v \notin Live
    BY <1>5, <1>6, <2>1, <2>3 DEF FillStep
  <2>. QED  BY <2>2, <2>3
<1>10. Live' = Live \cup ({v} \cap Ids)
  <2>1. Live' \subseteq Ids /\ \A n \in Ids : n \in Live' <=> obj'[n] # Free
    BY DEF Live
  <2>2. \A n \in Ids \ {m, v} : n \in Live' <=> n \in Live
    BY <1>7, <2>1 DEF Live
  <2>. QED  BY <1>5, <1>6, <1>9, <2>1, <2>2
<1>11. ASSUME NEW c \in Ids PROVE c \in Pointers(m)' <=> c \in Pointers(m) \/ c = v
  <2>1. /\ DOMAIN obj[m].ptr = 1 .. Len(obj[m].ptr) /\ DOMAIN obj'[m].ptr = 1 .. Len(obj[m].ptr)
        /\ obj[m].next \in 1 .. Len(obj[m].ptr) /\ Len(obj[m].ptr) \in Nat
    <3>1. obj[m] \in Record /\ obj'[m] \in Record
      <4>1. obj[m].class # "lost"
        BY <1>1, <1>2, <1>4 DEF StackShape
      <4>. QED  BY <1>1, <1>5, <4>1, Alive DEF FillStep
    <3>2. DOMAIN obj'[m].ptr = 1 .. Len(obj'[m].ptr)
      BY <3>1, Fields
    <3>. QED  BY <3>1, <3>2, Fields DEF FillStep
  <2>2. \A i \in 1 .. Len(obj[m].ptr) : obj'[m].ptr[i] = IF i = obj[m].next THEN v ELSE obj[m].ptr[i]
    BY DEF FillStep
  <2>3. obj[m].ptr[obj[m].next] \in {Null, Wild}
    BY <1>1, <1>5, <2>1 DEF Links, PointersOf
  <2>4. obj[m].ptr[obj[m].next] # c
    BY <2>3, Numbers
  <2>5. c \in Pointers(m) <=> \E i \in 1 .. Len(obj[m].ptr) : obj[m].ptr[i] = c
    BY <2>1 DEF Pointers
  <2>6. c \in Pointers(m)' <=> \E i \in 1 .. Len(obj[m].ptr) : obj'[m].ptr[i] = c
    BY <2>1 DEF Pointers
  <2>. QED  BY <2>1, <2>2, <2>4, <2>5, <2>6
<1>12. v \in Ids \ Live => Pointers(v)' = {}
  <2>1. SUFFICES ASSUME v \in Ids \ Live PROVE Pointers(v)' = {}
    OBVIOUS
  <2>2. obj'[v] \in Record /\ Len(obj'[v].ptr) = 0
    BY <2>1 DEF FillStep
  <2>3. DOMAIN obj'[v].ptr = 1 .. 0
    BY <2>2, Fields
  <2>. QED  BY <2>3 DEF Pointers
<1>13. Frames' \subseteq Frames /\ Frames \subseteq Frames' \cup {v} /\ m \in Frames'
  <2>1. DOMAIN stack' = 1 .. Len(stack')
    BY <1>2, LenProperties
  <2>2. \A n : n \in Frames' <=> \E i \in 1 .. Len(stack') : n = stack'[i]
    BY <2>1 DEF Frames
  <2>3. CASE d = 0
    <3>1. Len(stack') = Len(stack) /\ \A i \in 1 .. Len(stack) : stack'[i] = stack[i]
      BY <1>2, <1>3, <2>3
    <3>. QED  BY <1>3, <1>5, <2>2, <3>1
  <2>4. CASE d = 1
    <3>1. v = stack[1]
      BY <2>4, <1>6 DEF FillStep
    <3>2. ASSUME NEW n \in Frames PROVE n = v \/ n \in Frames'
      <4>1. PICK i \in 1 .. Len(stack) : n = stack[i]
        BY <1>3, <3>2
      <4>2. CASE i = 1
        BY <3>1, <4>1, <4>2
      <4>3. CASE i # 1
        <5>1. i - 1 \in 1 .. Len(stack') /\ (i - 1) + 1 = i
          BY <1>2, <1>3, <2>4, <4>3
        <5>2. stack'[i - 1] = n
          BY <1>2, <2>4, <4>1, <5>1
        <5>. QED  BY <2>2, <5>1, <5>2
      <4>. QED  BY <4>2, <4>3
    <3>3. ASSUME NEW n \in Frames' PROVE n \in Frames
      <4>1. PICK i \in 1 .. Len(stack') : n = stack'[i]
        BY <2>2, <3>3
      <4>2. i + 1 \in 1 .. Len(stack) /\ n = stack[i + 1]
        BY <1>2, <1>3, <2>4, <4>1
      <4>. QED  BY <1>3, <4>2
    <3>4. m \in Frames'
      <4>1. 1 \in 1 .. Len(stack') /\ stack'[1] = m
        BY <1>2, <1>3, <2>4
      <4>. QED  BY <2>2, <4>1
    <3>. QED  BY <3>2, <3>3, <3>4
  <2>. QED  BY <2>3, <2>4
<1>. QED  BY <1>5, <1>6, <1>8, <1>10, <1>11, <1>12, <1>13

LEMMA FillLinks ==
  ASSUME IInv, NEW m, NEW v, NEW d \in {0, 1}, FillStep(m, v, d)
  PROVE  Links'
<1>1. Memory /\ Links /\ StackShape
  BY DEF IInv
<1>2. /\ m \in Live /\ Live \subseteq Ids /\ Live' = Live \cup ({v} \cap Ids)
      /\ \A n \in Live \ {m} : obj'[n] = obj[n] /\ Pointers(n)' = Pointers(n)
      /\ \A c \in Ids : c \in Pointers(m)' <=> c \in Pointers(m) \/ c = v
      /\ v \in Ids \ Live => Pointers(v)' = {}
  BY FillMemory
<1>3. /\ obj'[m].class = obj[m].class /\ obj'[m].form = obj[m].form /\ obj'[m].type = obj[m].type
      /\ obj'[m].next = obj[m].next + 1 /\ Len(obj'[m].ptr) = Len(obj[m].ptr)
      /\ \A i \in 1 .. Len(obj[m].ptr) : obj'[m].ptr[i] = IF i = obj[m].next THEN v ELSE obj[m].ptr[i]
      /\ obj[m].next \in 1 .. Len(obj[m].ptr)
  BY DEF FillStep
<1>4. \A n \in Live : obj'[n].class = obj[n].class /\ obj'[n].form = obj[n].form /\ obj'[n].type = obj[n].type
  BY <1>2, <1>3
<1>5. \A n \in Live : \A c \in Live : Fits(n, c) => Fits(n, c)'
  BY <1>4 DEF Fits
<1>6. ASSUME NEW n \in Live', NEW c \in Pointers(n)' \cap Ids PROVE c \in Live' /\ Fits(n, c)'
  <2>1. CASE n = m
    <3>1. CASE c = v
      BY <1>2, <1>6, <2>1, <3>1 DEF FillStep
    <3>2. CASE c # v
      <4>1. c \in Pointers(m) /\ c \in Ids
        BY <1>2, <1>6, <2>1, <3>2
      <4>. QED  BY <1>1, <1>2, <1>5, <2>1, <4>1 DEF Links
    <3>. QED  BY <3>1, <3>2
  <2>2. CASE n \in Live \ {m}
    <3>1. c \in Pointers(n) \cap Ids
      BY <1>2, <1>6, <2>2
    <3>. QED  BY <1>1, <1>2, <1>5, <2>2, <3>1 DEF Links
  <2>3. CASE n \notin Live
    BY <1>2, <1>6, <2>3
  <2>. QED  BY <2>1, <2>2, <2>3
<1>7. PointersOf(m)'
  <2>1. PointersOf(m) /\ Len(obj[m].ptr) \in Nat
    BY <1>1, <1>2, Alive DEF Links
  <2>2. obj'[m].next \in 1 .. Len(obj'[m].ptr) + 1
    BY <1>3, <2>1
  <2>3. ASSUME NEW i \in 1 .. Len(obj[m].ptr)
        PROVE  /\ i >= obj'[m].next => obj'[m].ptr[i] \in {Null, Wild}
               /\ obj'[m].ptr[i] = Wild => obj[m].class = "Matrixx" /\ i = Len(obj[m].ptr)
               /\ obj[m].class = "AnyVectorr" /\ i < obj'[m].next => obj'[m].ptr[i] # Null
    <3>1. CASE i = obj[m].next
      <4>1. ~(i >= obj'[m].next) /\ obj'[m].ptr[i] = v
        BY <1>3, <2>1, <3>1
      <4>2. obj[m].ptr[i] \in {Null, Wild} /\ (obj[m].ptr[i] = Wild => obj[m].class = "Matrixx" /\ i = Len(obj[m].ptr))
        BY <1>3, <2>1, <3>1 DEF PointersOf
      <4>3. v = Wild => obj[m].class = "Matrixx" /\ i = Len(obj[m].ptr)
        BY <3>1, <4>2, Numbers DEF FillStep
      <4>4. obj[m].class = "AnyVectorr" => v # Null
        BY Numbers DEF FillStep
      <4>. QED  BY <4>1, <4>3, <4>4
    <3>2. CASE i # obj[m].next
      <4>1. obj'[m].ptr[i] = obj[m].ptr[i]
        BY <1>3, <3>2
      <4>2. i >= obj'[m].next => i >= obj[m].next
        BY <1>3, <2>1
      <4>3. i < obj'[m].next => i < obj[m].next
        BY <1>3, <2>1, <3>2
      <4>. QED  BY <2>1, <4>1, <4>2, <4>3 DEF PointersOf
    <3>. QED  BY <3>1, <3>2
  <2>4. /\ obj[m].class \in {"Vectorr", "Scalarr"} => Len(obj[m].ptr) = 0
        /\ obj[m].class = "Entity" => Len(obj[m].ptr) = IF obj[m].form = "other" THEN 0 ELSE 1
        /\ obj[m].class = "Matrixx" => Len(obj[m].ptr) >= 1
    BY <2>1 DEF PointersOf
  <2>. QED  BY <1>3, <2>2, <2>3, <2>4 DEF PointersOf
<1>8. ASSUME NEW n \in Live', n # m PROVE PointersOf(n)'
  <2>1. CASE n \in Live
    <3>1. PointersOf(n) /\ obj'[n] = obj[n]
      BY <1>1, <1>2, <1>8, <2>1 DEF Links
    <3>. QED  BY <3>1 DEF PointersOf
  <2>2. CASE n \notin Live
    <3>1. n = v /\ v \in Ids \ Live
      BY <1>2, <1>8, <2>2
    <3>2. Len(obj'[n].ptr) = 0 /\ obj'[n].next = 0 + 1 /\ obj'[n].class \in {"Scalarr", "Vectorr"}
      BY <3>1 DEF FillStep
    <3>3. 1 .. 0 = {} /\ 0 + 1 \in 1 .. 0 + 1
      OBVIOUS
    <3>. QED  BY <3>2, <3>3 DEF PointersOf
  <2>. QED  BY <2>1, <2>2
<1>. QED  BY <1>6, <1>7, <1>8 DEF Links

LEMMA FillOwned ==
  ASSUME IInv, NEW m, NEW v, NEW d \in {0, 1}, FillStep(m, v, d)
  PROVE  /\ Owned' /\ Rooted' /\ Memory' /\ Roots' /\ CrashExplained'
         /\ v \in Ids => v \notin Frames' \cup {entity, anyvector} /\ Owners(v) = {}
         /\ \A c \in Live : Owners(c)' = IF c = v THEN {m} ELSE Owners(c)
<1>1. Memory /\ Links /\ StackShape /\ Roots /\ Owned /\ \A n \in Live : HasOwner(n) \/ Leaked(n)
  BY DEF IInv, Rooted, FillStep
<1>2. /\ m \in Frames /\ m \in Live /\ Live \subseteq Ids /\ Live' = Live \cup ({v} \cap Ids)
      /\ \A n \in Live \ {m} : obj'[n] = obj[n] /\ Pointers(n)' = Pointers(n)
      /\ \A c \in Ids : c \in Pointers(m)' <=> c \in Pointers(m) \/ c = v
      /\ v \in Ids \ Live => Pointers(v)' = {}
      /\ Frames' \subseteq Frames /\ Frames \subseteq Frames' \cup {v}
  BY FillMemory
<1>3. /\ entity' = entity /\ anyvector' = anyvector /\ ended' = ended /\ flag' = flag /\ pc = "read" /\ pc' = "read"
      /\ stack' \in Seq(Ids) /\ Len(stack') >= 1 /\ obj' \in [Ids -> {Free, Lost} \cup Record]
  BY DEF FillStep
<1>4. stack \in Seq(Ids) /\ Len(stack) \in Nat /\ \A n : n \in Frames <=> \E i \in 1 .. Len(stack) : n = stack[i]
  BY <1>3, Innermost
<1>5. v \in Ids => v \notin Frames' \cup {entity, anyvector} /\ Owners(v) = {}
  <2>1. CASE v \in Live
    <3>1. d = 1 /\ v = stack[1] /\ Len(stack') = Len(stack) - 1 /\ \A i \in 1 .. Len(stack') : stack'[i] = stack[i + 1]
      BY <2>1 DEF FillStep
    <3>2. v \in Frames
      <4>1. 1 \in 1 .. Len(stack)
        BY <1>3, <1>4, <3>1
      <4>. QED  BY <1>4, <3>1, <4>1
    <3>3. v \notin Frames'
      <4>1. SUFFICES ASSUME NEW i \in DOMAIN stack', stack'[i] = v PROVE FALSE
        BY DEF Frames
      <4>2. i \in 1 .. Len(stack')
        BY <1>3, LenProperties
      <4>3. i + 1 \in 1 .. Len(stack) /\ 1 \in 1 .. Len(stack) /\ i + 1 # 1
        BY <1>4, <3>1, <4>2
      <4>. QED  BY <1>1, <3>1, <4>1, <4>2, <4>3 DEF StackShape
    <3>. QED  BY <1>1, <2>1, <3>2, <3>3 DEF Owned
  <2>2. CASE v \in Ids \ Live
    <3>1. Owners(v) = {}
      BY <1>1, <2>2 DEF Links, Owners
    <3>2. Frames \subseteq Live
      BY <1>3, Innermost
    <3>3. v # Null
      BY <2>2, Numbers
    <3>. QED  BY <1>1, <1>2, <2>2, <3>1, <3>2, <3>3 DEF Owned
  <2>. QED  BY <2>1, <2>2
<1>6. ASSUME NEW c \in Ids PROVE Owners(c)' = IF c = v THEN {m} ELSE Owners(c)
  <2>1. m \in Owners(c)' <=> c \in Pointers(m) \/ c = v
    BY <1>2 DEF Owners
  <2>2. m \in Owners(c) <=> c \in Pointers(m)
    BY <1>2 DEF Owners
  <2>3. \A n : n # m => (n \in Owners(c)' <=> n \in Owners(c))
    BY <1>2 DEF Owners
  <2>. QED  BY <1>5, <2>1, <2>2, <2>3
<1>7. Owned'
  <2>1. \A n \in Live' : \A m1, m2 \in Owners(n)' : m1 = m2
    BY <1>1, <1>2, <1>6 DEF Owned
  <2>2. \A n \in Live' : Owners(n)' # {} => n \notin Frames' \cup {entity, anyvector}
    BY <1>1, <1>2, <1>5, <1>6 DEF Owned
  <2>. QED  BY <1>1, <1>2, <1>3, <2>1, <2>2 DEF Owned
<1>8. ASSUME NEW n \in Live' PROVE HasOwner(n)' \/ Leaked(n)'
  <2>1. CASE n = v
    BY <1>2, <1>6, <1>8, <2>1 DEF HasOwner
  <2>2. CASE n # v
    <3>1. n \in Live
      BY <1>2, <1>8, <2>2
    <3>2. CASE HasOwner(n)
      BY <1>2, <1>3, <1>6, <2>2, <3>1, <3>2 DEF HasOwner
    <3>3. CASE Leaked(n)
      <4>1. obj'[n].class = obj[n].class /\ obj'[n].form = obj[n].form
        BY <1>2, <3>1 DEF FillStep
      <4>. QED  BY <3>3, <4>1 DEF Leaked
    <3>. QED  BY <1>1, <3>1, <3>2, <3>3
  <2>. QED  BY <2>1, <2>2
<1>9. Memory'
  <2>1. stack' # <<>>
    BY <1>3, EmptySeq
  <2>. QED  BY <1>1, <1>3, <2>1 DEF Memory
<1>10. Roots'
  <2>1. (entity # Null => obj'[entity] = obj[entity]) /\ (anyvector # Null => obj'[anyvector] = obj[anyvector])
    <3>1. m \notin {entity, anyvector} /\ {entity, anyvector} \ {Null} \subseteq Live
      BY <1>1, <1>2 DEF Owned
    <3>. QED  BY <1>2, <3>1
  <2>. QED  BY <1>1, <1>3, <2>1 DEF Roots
<1>11. Rooted' /\ CrashExplained'
  BY <1>3, <1>8 DEF Rooted, CrashExplained
<1>. QED  BY <1>2, <1>5, <1>6, <1>7, <1>9, <1>10, <1>11

LEMMA FillReadable ==
  ASSUME IInv, NEW m, NEW v, NEW d \in {0, 1}, FillStep(m, v, d)
  PROVE  Readable'
<1>1. Memory /\ Links /\ StackShape /\ Owned /\ Readable
  BY DEF IInv
<1>2. /\ m \in Frames /\ m \in Live /\ Live \subseteq Ids /\ Live' = Live \cup ({v} \cap Ids)
      /\ \A n \in Live \ {m} : obj'[n] = obj[n] /\ Pointers(n)' = Pointers(n)
      /\ \A c \in Ids : c \in Pointers(m)' <=> c \in Pointers(m) \/ c = v
      /\ Frames' \subseteq Frames /\ Frames \subseteq Frames' \cup {v} /\ m \in Frames'
  BY FillMemory
<1>3. /\ v \in Ids => v \notin Frames' \cup {entity, anyvector} /\ Owners(v) = {}
      /\ Links'
  BY FillOwned, FillLinks
<1>4. ended' = ended /\ pc = "read" /\ pc' = "read"
  BY DEF FillStep
<1>5. ASSUME NEW e \in Live', obj'[e].class = "Entity", obj'[e].next = Len(obj'[e].ptr) + 1
      PROVE  Reads(e)' \subseteq Live' \/ (ended' /\ Current(e)')
  <2>1. CASE e = m
    <3>1. Reads(m)' \subseteq Live' \/ ended
      BY <1>5, <2>1 DEF FillStep
    <3>2. Current(m)'
      BY <1>2, <1>4 DEF Current
    <3>. QED  BY <1>4, <2>1, <3>1, <3>2
  <2>2. CASE e \in Live \ {m}
    <3>1. obj'[e] = obj[e]
      BY <1>2, <2>2
    <3>2. Reads(e) \subseteq Live \/ (ended /\ Current(e))
      BY <1>1, <1>5, <2>2, <3>1 DEF Readable
    <3>3. CASE Reads(e) \subseteq Live
      <4>1. ASSUME NEW p \in Pointers(e) \cap Live
            PROVE  p \in Live' /\ obj'[p] = obj[p] /\ Pointers(p) \cap Live \subseteq Live'
        <5>1. p \notin Frames
          BY <1>1, <2>2, <4>1 DEF Owned, Owners
        <5>. QED  BY <1>2, <5>1
      <4>. QED  BY <1>1, <1>5, <2>2, <3>1, <3>3, <4>1, ReadsKept
    <3>4. CASE ended /\ Current(e)
      <4>1. e \in Frames \/ \E f \in Frames : e \in Pointers(f)
        BY <1>4, <3>4 DEF Current
      <4>2. CASE e \in Frames
        <5>1. e \in Frames' \/ (e = v /\ e \in Ids /\ e \in Pointers(m)')
          BY <1>2, <2>2, <4>2
        <5>. QED  BY <1>2, <1>4, <3>4, <5>1 DEF Current
      <4>3. ASSUME NEW f \in Frames, e \in Pointers(f) PROVE Current(e)'
        <5>1. f \in Live /\ Fits(f, e)
          <6>1. f \in Live
            BY <1>4, <4>3, Innermost
          <6>. QED  BY <1>1, <1>2, <2>2, <4>3, <6>1 DEF Links
        <5>2. obj[f].class = "AnyVectorr"
          BY <1>5, <3>1, <5>1 DEF Fits
        <5>3. f \in Frames'
          <6>1. SUFFICES ASSUME f = v, f # m PROVE FALSE
            BY <1>2, <4>3
          <6>2. Fits(m, v)' /\ obj'[v] = obj[v]
            BY <1>2, <5>1, <6>1 DEF FillStep
          <6>3. obj'[v].class # "AnyVectorr"
            BY <6>2 DEF Fits
          <6>. QED  BY <5>2, <6>1, <6>2, <6>3
        <5>4. e \in Pointers(f)'
          BY <1>2, <2>2, <4>3, <5>1
        <5>. QED  BY <1>4, <5>3, <5>4 DEF Current
      <4>. QED  BY <1>4, <3>4, <4>1, <4>2, <4>3
    <3>. QED  BY <3>2, <3>3, <3>4
  <2>3. CASE e \notin Live
    <3>1. e = v /\ v \in Ids \ Live
      BY <1>2, <1>5, <2>3
    <3>2. obj'[e].class \in {"Scalarr", "Vectorr"}
      BY <3>1 DEF FillStep
    <3>. QED  BY <1>5, <3>2
  <2>. QED  BY <2>1, <2>2, <2>3
<1>6. ASSUME NEW n \in Frames', obj'[n].class = "Matrixx", obj'[n].next = Len(obj'[n].ptr) + 1, obj'[n].type = "plain"
      PROVE  obj'[n].ptr[Len(obj'[n].ptr)] \in Live' \/ ended'
  <2>1. CASE n = m
    <3>1. /\ obj'[m].class = obj[m].class /\ obj'[m].type = obj[m].type
          /\ obj'[m].next = obj[m].next + 1 /\ Len(obj'[m].ptr) = Len(obj[m].ptr)
          /\ \A i \in 1 .. Len(obj[m].ptr) : obj'[m].ptr[i] = IF i = obj[m].next THEN v ELSE obj[m].ptr[i]
          /\ obj[m].next \in 1 .. Len(obj[m].ptr)
      BY DEF FillStep
    <3>2. obj[m].next = Len(obj[m].ptr)
      <4>1. obj[m].next \in Nat /\ Len(obj[m].ptr) \in Nat /\ obj[m].next + 1 = Len(obj[m].ptr) + 1
        BY <1>1, <1>2, <1>6, <2>1, <3>1, Alive
      <4>. QED  BY <4>1
    <3>3. v \in Live' \/ ended
      BY <1>6, <2>1, <3>1, <3>2 DEF FillStep
    <3>4. obj'[m].ptr[Len(obj'[m].ptr)] = v
      BY <3>1, <3>2
    <3>. QED  BY <1>4, <2>1, <3>3, <3>4
  <2>2. CASE n # m
    <3>1. n \in Frames /\ n \in Live
      BY <1>2, <1>4, <1>6, Innermost
    <3>2. obj'[n] = obj[n]
      BY <1>2, <2>2, <3>1
    <3>3. obj[n].ptr[Len(obj[n].ptr)] \in Live \/ ended
      BY <1>1, <1>6, <3>1, <3>2 DEF Readable
    <3>. QED  BY <1>2, <1>4, <3>2, <3>3
  <2>. QED  BY <2>1, <2>2
<1>. QED  BY <1>5, <1>6 DEF Readable

LEMMA FillShape ==
  ASSUME IInv, NEW m, NEW v, NEW d \in {0, 1}, FillStep(m, v, d)
  PROVE  StackShape'
<1>1. Memory /\ Links /\ StackShape
  BY DEF IInv
<1>2. /\ m \in Frames /\ m \in Live /\ Live \subseteq Ids /\ Live' = Live \cup ({v} \cap Ids)
      /\ \A n \in Live \ {m} : obj'[n] = obj[n]
      /\ Frames' \subseteq Frames /\ Frames \subseteq Frames' \cup {v} /\ m \in Frames'
  BY FillMemory
<1>3. /\ pc = "read" /\ stack' \in Seq(Ids) /\ Len(stack') = Len(stack) - d /\ Len(stack') >= 1 /\ flag' = flag
      /\ \A i \in 1 .. Len(stack') : stack'[i] = stack[i + d]
      /\ m = stack[1 + d]
      /\ obj'[m].class = obj[m].class /\ obj'[m].form = obj[m].form /\ obj'[m].type = obj[m].type
  BY DEF FillStep
<1>4. stack # <<>> /\ Len(stack) \in Nat /\ Frames \subseteq Live
  BY <1>3, Innermost
<1>5. \A i \in 1 .. Len(stack') : i + d \in 1 .. Len(stack) /\ stack'[i] = stack[i + d]
  BY <1>3, <1>4
<1>6. \A n \in Live : obj'[n].class = obj[n].class /\ obj'[n].form = obj[n].form /\ obj'[n].type = obj[n].type
  BY <1>2, <1>3
<1>7. \A n \in Live : \A c \in Live : Fits(n, c) => Fits(n, c)'
  BY <1>6 DEF Fits
<1>8. \A i \in 1 .. Len(stack') : stack'[i] \in Live' /\ obj'[stack'[i]].class # "lost"
  BY <1>1, <1>2, <1>5, <1>6 DEF StackShape
<1>9. ASSUME NEW i \in 1 .. Len(stack'), NEW j \in 1 .. Len(stack'), stack'[i] = stack'[j] PROVE i = j
  <2>1. i + d = j + d
    BY <1>1, <1>5, <1>9 DEF StackShape
  <2>. QED  BY <2>1
<1>10. ASSUME NEW i \in 2 .. Len(stack')
       PROVE  obj'[stack'[i]].next =< Len(obj'[stack'[i]].ptr) /\ Fits(stack[i], stack[i - 1])'
  <2>1. i \in 1 .. Len(stack') /\ i - 1 \in 1 .. Len(stack') /\ 1 \in 1 .. Len(stack') /\ i # 1
        /\ i + d \in 2 .. Len(stack) /\ (i - 1) + d = (i + d) - 1
    BY <1>3, <1>4
  <2>2. PICK a, b : a = stack'[i] /\ b = stack'[i - 1]
    OBVIOUS
  <2>3. a = stack[i + d] /\ b = stack[(i + d) - 1]
    BY <1>5, <2>1, <2>2
  <2>4. Fits(a, b) /\ obj[a].next =< Len(obj[a].ptr) /\ a \in Live /\ b \in Live
    BY <1>1, <1>2, <1>4, <1>5, <2>1, <2>2, <2>3 DEF StackShape
  <2>5. Fits(a, b)'
    BY <1>7, <2>4
  <2>6. stack'[1] = m
    BY <1>3, <2>1
  <2>7. a # m
    BY <1>9, <2>1, <2>2, <2>6
  <2>8. obj'[a] = obj[a]
    BY <1>2, <2>4, <2>7
  <2>9. Fits(stack[i], stack[i - 1])'
    BY <2>2, <2>5 DEF Fits
  <2>. QED  BY <2>2, <2>4, <2>8, <2>9
<1>11. stack'[Len(stack')] = stack[Len(stack)]
  <2>1. Len(stack') \in 1 .. Len(stack') /\ Len(stack') + d = Len(stack)
    BY <1>3, <1>4
  <2>. QED  BY <1>3, <2>1
<1>12. LET b == stack'[Len(stack')]
       IN  /\ flag' = <<"vector", "any">> => obj'[b].class = "AnyVectorr"
           /\ flag' # <<"vector", "any">> =>
                obj'[b].class = "Entity" /\ obj'[b].form = flag'[1] /\ obj'[b].type = flag'[2]
  <2>1. stack[Len(stack)] \in Live
    BY <1>1, <1>4, Innermost DEF StackShape
  <2>2. /\ flag = <<"vector", "any">> => obj[stack[Len(stack)]].class = "AnyVectorr"
        /\ flag # <<"vector", "any">> =>
             /\ obj[stack[Len(stack)]].class = "Entity"
             /\ obj[stack[Len(stack)]].form = flag[1] /\ obj[stack[Len(stack)]].type = flag[2]
    BY <1>1, <1>4 DEF StackShape
  <2>. QED  BY <1>3, <1>6, <1>11, <2>1, <2>2
<1>13. ASSUME NEW n \in Live' \ Frames' PROVE obj'[n].next = Len(obj'[n].ptr) + 1
  <2>1. CASE n = v
    BY <1>2, <1>13, <2>1 DEF FillStep
  <2>2. CASE n # v
    <3>1. n \in Live \ Frames
      BY <1>2, <1>13, <2>2
    <3>2. obj'[n] = obj[n]
      BY <1>2, <3>1
    <3>. QED  BY <1>1, <3>1, <3>2 DEF StackShape
  <2>. QED  BY <2>1, <2>2
<1>. QED  BY <1>8, <1>9, <1>10, <1>12, <1>13 DEF StackShape

LEMMA Filled ==
  ASSUME IInv, NEW m, NEW v, NEW d \in {0, 1}, FillStep(m, v, d)
  PROVE  IInv'
<1>. QED  BY FillLinks, FillOwned, FillReadable, FillShape DEF IInv

\* An object with a pointer to set.
LEMMA Unfinished ==
  ASSUME IInv, NEW m \in Live, obj[m].class # "lost", obj[m].next =< Len(obj[m].ptr)
  PROVE  /\ obj[m] \in Record /\ m \in Ids /\ obj[m].next \in 1 .. Len(obj[m].ptr)
         /\ obj[m].class \in {"AnyVectorr", "Entity", "Matrixx", "Tablee"} /\ obj[m].form \in Forms
         /\ obj[m].class = "Entity" => Len(obj[m].ptr) = 1 /\ obj[m].next = 1
         /\ obj[m].ptr[obj[m].next] \in {Null, Wild}
<1>1. Memory /\ PointersOf(m)
  BY DEF IInv, Links
<1>2. obj[m] \in Record /\ m \in Ids
  BY <1>1, Alive
<1>3. obj[m].class \in Kinds /\ obj[m].form \in Forms /\ Len(obj[m].ptr) \in Nat /\ obj[m].next \in Nat
  BY <1>2, Fields
<1>4. obj[m].next \in 1 .. Len(obj[m].ptr)
  <2>1. obj[m].next \in 1 .. Len(obj[m].ptr) + 1
    BY <1>1 DEF PointersOf
  <2>. QED  BY <1>3, <2>1
<1>5. Len(obj[m].ptr) # 0
  BY <1>3, <1>4
<1>6. obj[m].class \in {"AnyVectorr", "Entity", "Matrixx", "Tablee"}
  BY <1>1, <1>3, <1>5 DEF PointersOf, Kinds
<1>7. obj[m].class = "Entity" => Len(obj[m].ptr) = 1
  BY <1>1, <1>5 DEF PointersOf
<1>8. obj[m].class = "Entity" => obj[m].next = 1
  <2>1. SUFFICES ASSUME Len(obj[m].ptr) = 1 PROVE obj[m].next = 1
    BY <1>7
  <2>2. obj[m].next \in 1 .. 1
    BY <1>4, <2>1
  <2>. QED  BY <2>2
<1>9. obj[m].ptr[obj[m].next] \in {Null, Wild}
  BY <1>1, <1>3, <1>4 DEF PointersOf
<1>. QED  BY <1>2, <1>3, <1>4, <1>6, <1>7, <1>8, <1>9

LEMMA ReadChildStep == ASSUME IInv, ReadChild PROVE IInv'
<1>1. PICK n \in Ids \ Live, t \in ChildTypes \ {"unsupported"} :
        obj' = Fill([obj EXCEPT ![n] = New(ChildClass, obj[Top].form, t, 0)], Top, n)
  BY DEF ReadChild
<1>2. /\ pc = "read" /\ obj[Top].next =< Len(obj[Top].ptr) /\ ChildClass \in {"Scalarr", "Vectorr"}
      /\ stack' = stack /\ entity' = entity /\ anyvector' = anyvector /\ ended' = ended /\ flag' = flag /\ pc' = pc
  BY DEF ReadChild, Reading
<1>3. PICK m : m = Top
  OBVIOUS
<1>4. /\ stack \in Seq(Ids) /\ Len(stack) \in Nat /\ Len(stack) >= 1 /\ m = stack[1] /\ m \in Live
      /\ obj[m] \in Record
  BY <1>2, <1>3, Innermost
<1>5. obj[m].class # "lost"
  BY <1>4, Fields DEF Kinds
<1>6. /\ m \in Ids /\ obj[m].next \in 1 .. Len(obj[m].ptr)
      /\ obj[m].class \in {"AnyVectorr", "Entity", "Matrixx", "Tablee"} /\ obj[m].form \in Forms
      /\ obj[m].class = "Entity" => Len(obj[m].ptr) = 1 /\ obj[m].next = 1
  BY <1>2, <1>3, <1>4, <1>5, Unfinished
<1>7. obj \in [Ids -> {Free, Lost} \cup Record]
  BY DEF IInv, Memory
<1>. DEFINE r == New(ChildClass, obj[m].form, t, 0)
            o == [obj EXCEPT ![n] = r]
<1>8. /\ r \in Record /\ r.class = ChildClass /\ r.form = obj[m].form /\ r.next = 1 /\ Len(r.ptr) = 0
  <2>1. ChildClass \in Kinds /\ t \in AllTypes
    <3>1. obj[m].type \in AllTypes
      BY <1>4, Fields
    <3>. QED  BY <1>1, <1>2, <1>3, <3>1 DEF Kinds, AllTypes, LableTypes, FlagTypes, Types, ChildTypes
  <2>. QED  BY <1>6, <2>1, NewIs
<1>. HIDE DEF r
<1>9. /\ o \in [Ids -> {Free, Lost} \cup Record] /\ o[m] = obj[m] /\ o[n] = r /\ n # m
      /\ \A x \in Ids \ {n} : o[x] = obj[x]
  BY <1>1, <1>4, <1>6, <1>7, <1>8
<1>10. obj' = Fill(o, m, n)
  BY <1>1, <1>3 DEF r
<1>. HIDE DEF o
<1>11. n \in Pointer
  BY <1>1 DEF Pointer
<1>12. /\ obj' \in [Ids -> {Free, Lost} \cup Record]
       /\ \A x \in Ids \ {m} : obj'[x] = o[x]
       /\ obj'[m] \in Record
       /\ obj'[m].class = obj[m].class /\ obj'[m].form = obj[m].form /\ obj'[m].type = obj[m].type
       /\ obj'[m].next = obj[m].next + 1 /\ Len(obj'[m].ptr) = Len(obj[m].ptr)
       /\ \A i \in 1 .. Len(obj[m].ptr) : obj'[m].ptr[i] = IF i = obj[m].next THEN n ELSE obj[m].ptr[i]
  <2>1. o[m] \in Record /\ o[m].next \in 1 .. Len(o[m].ptr)
    BY <1>4, <1>6, <1>9
  <2>. QED  BY <1>6, <1>9, <1>10, <1>11, <2>1, FillIs
<1>13. obj'[n] = r /\ (\A x \in Ids \ {m, n} : obj'[x] = obj[x])
  BY <1>1, <1>9, <1>12
<1>14. n \in Live' /\ n # m
  <2>1. obj'[n].class # "free"
    BY <1>8, <1>13, Fields DEF Kinds
  <2>. QED  BY <1>1, <1>9, <1>12, <2>1, Place DEF Live
<1>15. Fits(m, n)'
  <2>1. obj'[n].class = ChildClass /\ obj'[n].form = obj[m].form
    BY <1>8, <1>13
  <2>2. /\ obj[m].class # "AnyVectorr"
        /\ obj[m].class = "Entity" => obj[m].form \notin {"matrix", "table"}
        /\ obj[m].class = "Entity" /\ obj[m].form = "scalar" => ChildClass = "Scalarr"
        /\ ~(obj[m].class = "Entity" /\ obj[m].form = "scalar") => ChildClass = "Vectorr"
    BY <1>2, <1>3 DEF ChildClass
  <2>. QED  BY <1>6, <1>12, <2>1, <2>2 DEF Fits
<1>16. obj[m].class = "Entity" => Reads(m)' \subseteq Live'
  <2>1. SUFFICES ASSUME obj[m].class = "Entity" PROVE Reads(m)' \subseteq Live'
    OBVIOUS
  <2>2. obj'[m].ptr[1] = n
    BY <1>6, <1>12, <2>1
  <2>3. obj[m].form # "matrix"
    BY <1>2, <1>3, <2>1 DEF ChildClass
  <2>. QED  BY <1>12, <1>14, <2>2, <2>3 DEF Reads
<1>17. FillStep(m, n, 0)
  <2>1. /\ Len(stack') = Len(stack) - 0 /\ 1 + 0 = 1 /\ \A i \in 1 .. Len(stack') : stack'[i] = stack[i + 0]
    BY <1>2, <1>4
  <2>2. /\ pc = "read" /\ pc' = "read" /\ entity' = entity /\ anyvector' = anyvector /\ ended' = ended
        /\ flag' = flag /\ stack' \in Seq(Ids) /\ Len(stack') >= 1
        /\ m = stack[1 + 0] /\ obj[m].next \in 1 .. Len(obj[m].ptr)
    BY <1>2, <1>4, <1>6, <2>1
  <2>3. /\ n \in Live => 0 = 1 /\ n = stack[1] /\ obj'[n] = obj[n]
        /\ n \in Ids \ Live => 0 = 0 /\ obj'[n] \in Record /\ Len(obj'[n].ptr) = 0
                                /\ obj'[n].class \in {"Scalarr", "Vectorr"}
        /\ n \notin Ids => 0 = 0 /\ n = obj[m].ptr[obj[m].next] /\ obj[m].class # "AnyVectorr"
    BY <1>1, <1>2, <1>8, <1>13
  <2>4. obj'[n].next = Len(obj'[n].ptr) + 1
    BY <1>8, <1>13
  <2>. QED  BY <1>12, <1>13, <1>14, <1>15, <1>16, <2>1, <2>2, <2>3, <2>4 DEF FillStep
<1>. QED  BY <1>17, Filled

LEMMA SkipChildStep == ASSUME IInv, SkipChild PROVE IInv'
<1>1. /\ pc = "read" /\ obj[Top].next =< Len(obj[Top].ptr) /\ ChildClass \in {"Scalarr", "Vectorr"}
      /\ "unsupported" \in ChildTypes /\ obj' = [obj EXCEPT ![Top].next = @ + 1]
      /\ stack' = stack /\ entity' = entity /\ anyvector' = anyvector /\ ended' = ended /\ flag' = flag /\ pc' = pc
  BY DEF SkipChild, Reading
<1>2. PICK m : m = Top
  OBVIOUS
<1>3. /\ stack \in Seq(Ids) /\ Len(stack) \in Nat /\ Len(stack) >= 1 /\ m = stack[1] /\ m \in Live
      /\ obj[m] \in Record
  BY <1>1, <1>2, Innermost
<1>4. obj[m].class # "lost"
  BY <1>3, Fields DEF Kinds
<1>5. /\ m \in Ids /\ obj[m].next \in 1 .. Len(obj[m].ptr)
      /\ obj[m].class = "Entity" => Len(obj[m].ptr) = 1 /\ obj[m].next = 1
      /\ obj[m].ptr[obj[m].next] \in {Null, Wild}
  BY <1>1, <1>2, <1>3, <1>4, Unfinished
<1>6. obj \in [Ids -> {Free, Lost} \cup Record]
  BY DEF IInv, Memory
<1>7. /\ obj' \in [Ids -> {Free, Lost} \cup Record] /\ \A x \in Ids \ {m} : obj'[x] = obj[x]
      /\ obj'[m] \in Record
      /\ obj'[m].class = obj[m].class /\ obj'[m].form = obj[m].form /\ obj'[m].type = obj[m].type
      /\ obj'[m].next = obj[m].next + 1 /\ obj'[m].ptr = obj[m].ptr
  <2>1. obj' = Skip(obj, m)
    BY <1>1, <1>2 DEF Skip
  <2>. QED  BY <1>3, <1>5, <1>6, <2>1, SkipIs
<1>8. PICK v : v = obj[m].ptr[obj[m].next]
  OBVIOUS
<1>9. v \notin Ids /\ v \notin Live
  <2>1. v \notin Ids
    BY <1>5, <1>8, Numbers
  <2>. QED  BY <2>1 DEF Live
<1>10. obj[m].class # "AnyVectorr" /\ (obj[m].class = "Entity" => obj[m].form \notin {"matrix", "table"})
  BY <1>1, <1>2 DEF ChildClass
<1>11. obj[m].class = "Entity" => Reads(m)' \subseteq Live' \/ ended
  <2>1. SUFFICES ASSUME obj[m].class = "Entity", ~ended PROVE obj[m].type # "plain"
    BY <1>7, <1>10 DEF Reads
  <2>. QED  BY <1>1, <1>2, <2>1 DEF ChildTypes
<1>12. obj[m].class = "Matrixx" /\ obj[m].next = Len(obj[m].ptr) /\ obj[m].type = "plain" => ended
  BY <1>1, <1>2 DEF ChildTypes
<1>13. FillStep(m, v, 0)
  <2>1. /\ Len(stack') = Len(stack) - 0 /\ 1 + 0 = 1 /\ \A i \in 1 .. Len(stack') : stack'[i] = stack[i + 0]
    BY <1>1, <1>3
  <2>2. /\ pc = "read" /\ pc' = "read" /\ entity' = entity /\ anyvector' = anyvector /\ ended' = ended
        /\ flag' = flag /\ stack' \in Seq(Ids) /\ Len(stack') >= 1
        /\ m = stack[1 + 0] /\ obj[m].next \in 1 .. Len(obj[m].ptr)
    BY <1>1, <1>3, <1>5, <2>1
  <2>3. \A i \in 1 .. Len(obj[m].ptr) : obj'[m].ptr[i] = IF i = obj[m].next THEN v ELSE obj[m].ptr[i]
    BY <1>7, <1>8
  <2>4. \A x \in Ids \ {m, v} : obj'[x] = obj[x]
    BY <1>7
  <2>5. Len(obj'[m].ptr) = Len(obj[m].ptr)
    BY <1>7
  <2>. QED  BY <1>7, <1>8, <1>9, <1>10, <1>11, <1>12, <2>1, <2>2, <2>3, <2>4, <2>5 DEF FillStep
<1>. QED  BY <1>13, Filled

LEMMA ReturnStep == ASSUME IInv, Return PROVE IInv'
<1>1. /\ pc = "read" /\ ~Reading /\ Len(stack) > 1
      /\ obj' = Fill(obj, stack[2], Top) /\ stack' = Tail(stack)
      /\ entity' = entity /\ anyvector' = anyvector /\ ended' = ended /\ flag' = flag /\ pc' = pc
  BY DEF Return
<1>2. PICK m, v : m = stack[2] /\ v = Top
  OBVIOUS
<1>3. Memory /\ StackShape /\ Readable
  BY DEF IInv
<1>4. /\ stack \in Seq(Ids) /\ stack # <<>> /\ Len(stack) \in Nat /\ v = stack[1] /\ v \in Frames /\ v \in Live
      /\ obj[v] \in Record /\ Len(obj[v].ptr) \in Nat /\ obj[v].next \in 1 .. Len(obj[v].ptr) + 1
  BY <1>1, <1>2, Innermost
<1>5. 1 \in 1 .. Len(stack) /\ 2 \in 1 .. Len(stack) /\ 2 \in 2 .. Len(stack) /\ 2 - 1 = 1
  BY <1>1, <1>4
<1>6. m \in Live /\ obj[m].class # "lost" /\ obj[m].next =< Len(obj[m].ptr) /\ Fits(m, v) /\ m # v
  BY <1>2, <1>3, <1>4, <1>5 DEF StackShape
<1>7. /\ obj[m] \in Record /\ m \in Ids /\ obj[m].next \in 1 .. Len(obj[m].ptr)
      /\ obj[m].class = "Entity" => Len(obj[m].ptr) = 1 /\ obj[m].next = 1
  BY <1>6, Unfinished
<1>8. obj[v].next = Len(obj[v].ptr) + 1
  BY <1>1, <1>2, <1>4 DEF Reading
<1>9. v \in Ids /\ v \in Pointer /\ obj \in [Ids -> {Free, Lost} \cup Record]
  BY <1>3, <1>4, Alive DEF Pointer, Memory
<1>10. obj' = Fill(obj, m, v)
  BY <1>1, <1>2
<1>11. /\ obj' \in [Ids -> {Free, Lost} \cup Record] /\ \A x \in Ids \ {m} : obj'[x] = obj[x]
       /\ obj'[m] \in Record
       /\ obj'[m].class = obj[m].class /\ obj'[m].form = obj[m].form /\ obj'[m].type = obj[m].type
       /\ obj'[m].next = obj[m].next + 1 /\ Len(obj'[m].ptr) = Len(obj[m].ptr)
       /\ \A i \in 1 .. Len(obj[m].ptr) : obj'[m].ptr[i] = IF i = obj[m].next THEN v ELSE obj[m].ptr[i]
  BY <1>7, <1>9, <1>10, FillIs
<1>12. obj'[v] = obj[v]
  BY <1>6, <1>9, <1>11
<1>13. Fits(m, v)'
  BY <1>6, <1>11, <1>12 DEF Fits
<1>14. Live \subseteq Live'
  <2>1. obj'[m].class # "free"
    BY <1>11, Fields DEF Kinds
  <2>2. obj'[m] # Free
    BY <1>11, <2>1, Place
  <2>. QED  BY <1>11, <2>2 DEF Live
<1>15. obj[m].class = "Entity" => Reads(m)' \subseteq Live' \/ ended
  <2>1. SUFFICES ASSUME obj[m].class = "Entity", ~ended PROVE Reads(m)' \subseteq Live'
    OBVIOUS
  <2>2. obj'[m].ptr[1] = v /\ v \in Live'
    BY <1>4, <1>7, <1>11, <1>14, <2>1
  <2>3. ASSUME obj[m].form = "matrix", obj[m].type = "plain" PROVE obj'[v].ptr[Len(obj'[v].ptr)] \in Live'
    <3>1. obj[v].class = "Matrixx" /\ obj[v].type = "plain"
      BY <1>6, <2>1, <2>3 DEF Fits
    <3>2. obj[v].ptr[Len(obj[v].ptr)] \in Live
      BY <1>3, <1>4, <1>8, <2>1, <3>1 DEF Readable
    <3>. QED  BY <1>12, <1>14, <3>2
  <2>. QED  BY <1>11, <2>2, <2>3 DEF Reads
<1>16. FillStep(m, v, 1)
  <2>1. /\ stack' \in Seq(Ids) /\ Len(stack') = Len(stack) - 1
        /\ \A i \in 1 .. Len(stack') : stack'[i] = stack[i + 1]
    BY <1>1, <1>4, HeadTailProperties
  <2>2. Len(stack') >= 1 /\ m = stack[1 + 1]
    BY <1>1, <1>2, <1>4, <2>1
  <2>3. \A x \in Ids \ {m, v} : obj'[x] = obj[x]
    BY <1>11
  <2>. QED  BY <1>1, <1>4, <1>6, <1>7, <1>8, <1>9, <1>11, <1>12, <1>13, <1>14, <1>15, <2>1, <2>2, <2>3 DEF FillStep
<1>. QED  BY <1>16, Filled

-----------------------------------------------------------------------------
(* The start of a construction.                                            *)

\* The constructor of an object at n starts inside the one in progress, or is
\* the outermost of the flag.
BeginAt(n, c, f, t, k) ==
  /\ c \in {"AnyVectorr", "Entity", "Matrixx", "Tablee"} /\ f \in Forms /\ t \in AllTypes
  /\ n \in Ids \ Live /\ k \in Sizes(c, f) /\ obj' = [obj EXCEPT ![n] = New(c, f, t, k)]
  /\ stack' = <<n>> \o stack /\ pc \in {"idle", "read"} /\ pc' = "read"
  /\ entity' = entity /\ anyvector' = anyvector /\ ended' \in BOOLEAN /\ flag' \in Forms \X FlagTypes
  /\ flag'[2] = "any" /\ flag'[1] \notin {"vector", "other"} => ended'
  /\ stack = <<>> =>
       /\ flag' = <<"vector", "any">> => c = "AnyVectorr"
       /\ flag' # <<"vector", "any">> => c = "Entity" /\ f = flag'[1] /\ t = flag'[2]
  /\ stack # <<>> =>
       /\ flag' = flag /\ ended' = ended /\ obj[Top].next =< Len(obj[Top].ptr)
       /\ \/ obj[Top].class = "AnyVectorr" /\ c = "Entity"
          \/ obj[Top].class = "Entity" /\ obj[Top].form = "matrix" /\ c = "Matrixx" /\ t = obj[Top].type
          \/ obj[Top].class = "Entity" /\ obj[Top].form = "table" /\ c = "Tablee"

LEMMA SizesAre ==
  ASSUME NEW c \in {"AnyVectorr", "Entity", "Matrixx", "Tablee"}, NEW f, NEW k \in Sizes(c, f)
  PROVE  /\ k \in Nat
         /\ c = "Entity" => k = IF f = "other" THEN 0 ELSE 1
         /\ c = "Matrixx" => k >= 1
<1>1. CASE c = "Entity"
  BY <1>1 DEF Sizes
<1>2. CASE c = "Matrixx"
  <2>1. k \in 1 .. 3
    BY <1>2 DEF Sizes
  <2>. QED  BY <1>2, <2>1
<1>3. CASE c \in {"Tablee", "AnyVectorr"}
  <2>1. k \in 0 .. MaxSize
    BY <1>3 DEF Sizes
  <2>. QED  BY <1>3, <2>1, Numbers
<1>. QED  BY <1>1, <1>2, <1>3

LEMMA BegunMemory ==
  ASSUME IInv, NEW n, NEW c, NEW f, NEW t, NEW k, BeginAt(n, c, f, t, k)
  PROVE  /\ obj' \in [Ids -> {Free, Lost} \cup Record] /\ Live \subseteq Ids /\ n \in Ids \ Live
         /\ Live' = Live \cup {n} /\ Frames \subseteq Live
         /\ \A m \in Live : obj'[m] = obj[m] /\ Pointers(m)' = Pointers(m)
         /\ \A m \in Ids : m \notin Pointers(n)' /\ Owners(m)' = Owners(m)
         /\ Owners(n) = {} /\ n \notin {entity, anyvector}
         /\ obj'[n].class = c /\ obj'[n].form = f /\ obj'[n].type = t /\ obj'[n].next = 1
         /\ Len(obj'[n].ptr) = k /\ k \in Nat
         /\ \A i \in 1 .. k : obj'[n].ptr[i] \in {Null, Wild} /\ (obj'[n].ptr[i] = Wild => c = "Matrixx" /\ i = k)
<1>1. Memory /\ Links /\ StackShape /\ Owned
  BY DEF IInv
<1>2. /\ c \in {"AnyVectorr", "Entity", "Matrixx", "Tablee"} /\ f \in Forms /\ t \in AllTypes
      /\ n \in Ids \ Live /\ k \in Sizes(c, f) /\ obj' = [obj EXCEPT ![n] = New(c, f, t, k)]
  BY DEF BeginAt
<1>3. k \in Nat /\ c \in Kinds
  BY <1>2, SizesAre DEF Kinds
<1>. DEFINE r == New(c, f, t, k)
<1>4. /\ r \in Record /\ r.class = c /\ r.form = f /\ r.type = t /\ r.next = 1 /\ Len(r.ptr) = k
      /\ \A i \in 1 .. k : r.ptr[i] \in {Null, Wild} /\ (r.ptr[i] = Wild => c = "Matrixx" /\ i = k)
  BY <1>2, <1>3, NewIs
<1>5. obj' = [obj EXCEPT ![n] = r]
  BY <1>2
<1>. HIDE DEF r
<1>6. obj \in [Ids -> {Free, Lost} \cup Record] /\ Live \subseteq Ids /\ Null \notin Live
  BY <1>1, Alive DEF Memory
<1>7. /\ obj' \in [Ids -> {Free, Lost} \cup Record] /\ obj'[n] = r
      /\ \A m \in Ids \ {n} : obj'[m] = obj[m]
  BY <1>2, <1>4, <1>5, <1>6
<1>8. Live' = Live \cup {n}
  <2>1. obj'[n] # Free
    <3>1. r.class # "free"
      BY <1>4, Fields DEF Kinds
    <3>. QED  BY <1>4, <1>7, <3>1, Place
  <2>. QED  BY <1>2, <1>6, <1>7, <2>1 DEF Live
<1>9. \A m \in Live : obj'[m] = obj[m] /\ Pointers(m)' = Pointers(m)
  BY <1>2, <1>6, <1>7 DEF Pointers
<1>10. ASSUME NEW m \in Ids PROVE m \notin Pointers(n)'
  <2>1. DOMAIN obj'[n].ptr = 1 .. k
    BY <1>4, <1>7, Fields
  <2>. QED  BY <1>4, <1>7, <1>10, <2>1, Numbers DEF Pointers
<1>11. ASSUME NEW m \in Ids PROVE Owners(m)' = Owners(m)
  BY <1>2, <1>8, <1>9, <1>10, <1>11 DEF Owners
<1>12. Owners(n) = {} /\ n \notin {entity, anyvector}
  <2>1. Owners(n) = {}
    BY <1>1, <1>2 DEF Links, Owners
  <2>. QED  BY <1>1, <1>2, <2>1, Numbers DEF Owned
<1>13. Frames \subseteq Live
  <2>1. stack \in Seq(Ids) /\ DOMAIN stack = 1 .. Len(stack)
    BY <1>1, LenProperties DEF Memory
  <2>. QED  BY <1>1, <2>1 DEF StackShape, Frames
<1>. QED  BY <1>2, <1>3, <1>4, <1>6, <1>7, <1>8, <1>9, <1>10, <1>11, <1>12, <1>13

\* The new place of the stack.
LEMMA Pushed ==
  ASSUME NEW n \in Ids, stack \in Seq(Ids), stack' = <<n>> \o stack
  PROVE  /\ stack' \in Seq(Ids) /\ Len(stack) \in Nat /\ Len(stack') = Len(stack) + 1
         /\ stack'[1] = n /\ \A i \in 2 .. Len(stack) + 1 : stack'[i] = stack[i - 1]
         /\ Frames' = Frames \cup {n}
<1>1. <<n>> \in Seq(Ids) /\ Len(<<n>>) = 1 /\ <<n>>[1] = n
  OBVIOUS
<1>2. stack' \in Seq(Ids) /\ Len(stack) \in Nat /\ Len(stack') = 1 + Len(stack)
      /\ \A i \in 1 .. 1 + Len(stack) : stack'[i] = IF i =< 1 THEN <<n>>[i] ELSE stack[i - 1]
  BY <1>1, ConcatProperties, LenProperties
<1>3. stack'[1] = n
  BY <1>1, <1>2
<1>4. \A i \in 2 .. Len(stack) + 1 : stack'[i] = stack[i - 1]
  BY <1>2
<1>5. DOMAIN stack = 1 .. Len(stack) /\ DOMAIN stack' = 1 .. Len(stack) + 1
  <2>1. DOMAIN stack' = 1 .. Len(stack') /\ Len(stack') = Len(stack) + 1
    BY <1>2, LenProperties
  <2>. QED  BY <2>1, LenProperties
<1>6. ASSUME NEW x \in Frames' PROVE x \in Frames \cup {n}
  <2>1. PICK i \in 1 .. Len(stack) + 1 : x = stack'[i]
    BY <1>5, <1>6 DEF Frames
  <2>2. CASE i = 1
    BY <1>3, <2>1, <2>2
  <2>3. CASE i # 1
    <3>1. i \in 2 .. Len(stack) + 1 /\ i - 1 \in 1 .. Len(stack)
      BY <1>2, <2>3
    <3>. QED  BY <1>4, <1>5, <2>1, <3>1 DEF Frames
  <2>. QED  BY <2>2, <2>3
<1>7. ASSUME NEW x \in Frames \cup {n} PROVE x \in Frames'
  <2>1. CASE x = n
    <3>1. 1 \in 1 .. Len(stack) + 1
      BY <1>2
    <3>. QED  BY <1>3, <1>5, <2>1, <3>1 DEF Frames
  <2>2. CASE x \in Frames
    <3>1. PICK i \in 1 .. Len(stack) : x = stack[i]
      BY <1>5, <2>2 DEF Frames
    <3>2. i + 1 \in 2 .. Len(stack) + 1 /\ i + 1 \in 1 .. Len(stack) + 1 /\ (i + 1) - 1 = i
      BY <1>2
    <3>3. x = stack'[i + 1]
      BY <1>4, <3>1, <3>2
    <3>. QED  BY <1>5, <3>2, <3>3 DEF Frames
  <2>. QED  BY <1>7, <2>1, <2>2
<1>. QED  BY <1>2, <1>3, <1>4, <1>6, <1>7

LEMMA BegunLinks ==
  ASSUME IInv, NEW n, NEW c, NEW f, NEW t, NEW k, BeginAt(n, c, f, t, k)
  PROVE  Links' /\ Memory' /\ Owned' /\ Rooted' /\ Roots' /\ CrashExplained'
<1>1. Memory /\ Links /\ StackShape /\ Roots /\ Owned /\ (\A m \in Live : HasOwner(m) \/ Leaked(m))
  BY DEF IInv, Rooted, BeginAt
<1>2. /\ obj' \in [Ids -> {Free, Lost} \cup Record] /\ Live \subseteq Ids /\ n \in Ids \ Live
      /\ Live' = Live \cup {n} /\ Frames \subseteq Live
      /\ \A m \in Live : obj'[m] = obj[m] /\ Pointers(m)' = Pointers(m)
      /\ \A m \in Ids : m \notin Pointers(n)' /\ Owners(m)' = Owners(m)
      /\ Owners(n) = {} /\ n \notin {entity, anyvector}
      /\ obj'[n].class = c /\ obj'[n].form = f /\ obj'[n].type = t /\ obj'[n].next = 1
      /\ Len(obj'[n].ptr) = k /\ k \in Nat
      /\ \A i \in 1 .. k : obj'[n].ptr[i] \in {Null, Wild} /\ (obj'[n].ptr[i] = Wild => c = "Matrixx" /\ i = k)
  BY BegunMemory
<1>3. /\ c \in {"AnyVectorr", "Entity", "Matrixx", "Tablee"} /\ k \in Sizes(c, f)
      /\ stack' = <<n>> \o stack /\ pc' = "read"
      /\ entity' = entity /\ anyvector' = anyvector /\ ended' \in BOOLEAN /\ flag' \in Forms \X FlagTypes
      /\ flag'[2] = "any" /\ flag'[1] \notin {"vector", "other"} => ended'
  BY DEF BeginAt
<1>4. stack' \in Seq(Ids) /\ stack' # <<>> /\ Frames' = Frames \cup {n}
  <2>1. /\ stack' \in Seq(Ids) /\ Len(stack) \in Nat /\ Len(stack') = Len(stack) + 1
        /\ Frames' = Frames \cup {n}
    BY <1>1, <1>2, <1>3, Pushed DEF Memory
  <2>2. Len(stack') # 0
    BY <2>1
  <2>. QED  BY <2>1, <2>2, EmptySeq
<1>5. Memory'
  BY <1>1, <1>2, <1>3, <1>4 DEF Memory
<1>6. PointersOf(n)'
  <2>1. /\ c = "Entity" => k = IF f = "other" THEN 0 ELSE 1
        /\ c = "Matrixx" => k >= 1
    BY <1>3, SizesAre
  <2>2. 1 \in 1 .. k + 1 /\ \A i \in 1 .. k : ~(i < 1)
    BY <1>2
  <2>. QED  BY <1>2, <1>3, <2>1, <2>2 DEF PointersOf
<1>7. Links'
  <2>1. \A m \in Live : \A x \in Live : Fits(m, x) => Fits(m, x)'
    BY <1>2 DEF Fits
  <2>2. \A m \in Live : PointersOf(m) => PointersOf(m)'
    BY <1>2 DEF PointersOf
  <2>. QED  BY <1>1, <1>2, <1>6, <2>1, <2>2 DEF Links
<1>8. Owned'
  <2>1. \A m \in Live' : \A m1, m2 \in Owners(m)' : m1 = m2
    BY <1>1, <1>2 DEF Owned
  <2>2. \A m \in Live' : Owners(m)' # {} => m \notin Frames' \cup {entity, anyvector}
    BY <1>1, <1>2, <1>4 DEF Owned
  <2>. QED  BY <1>1, <1>2, <1>3, <1>4, <2>1, <2>2 DEF Owned
<1>9. ASSUME NEW m \in Live' PROVE HasOwner(m)' \/ Leaked(m)'
  <2>1. CASE m = n
    BY <1>4, <2>1 DEF HasOwner
  <2>2. CASE m \in Live
    <3>1. CASE HasOwner(m)
      BY <1>2, <1>3, <1>4, <2>2, <3>1 DEF HasOwner
    <3>2. CASE Leaked(m)
      BY <1>2, <2>2, <3>2 DEF Leaked
    <3>. QED  BY <1>1, <2>2, <3>1, <3>2
  <2>. QED  BY <1>2, <1>9, <2>1, <2>2
<1>10. Roots'
  <2>1. (entity # Null => obj'[entity] = obj[entity]) /\ (anyvector # Null => obj'[anyvector] = obj[anyvector])
    BY <1>1, <1>2 DEF Owned
  <2>. QED  BY <1>1, <1>3, <2>1 DEF Roots
<1>11. Rooted' /\ CrashExplained'
  BY <1>3, <1>9 DEF Rooted, CrashExplained
<1>. QED  BY <1>5, <1>7, <1>8, <1>10, <1>11

LEMMA BegunReadable ==
  ASSUME IInv, NEW n, NEW c, NEW f, NEW t, NEW k, BeginAt(n, c, f, t, k)
  PROVE  Readable'
<1>1. Memory /\ Links /\ StackShape /\ Owned /\ Readable
  BY DEF IInv
<1>2. /\ Live \subseteq Ids /\ n \in Ids \ Live /\ Live' = Live \cup {n} /\ Frames \subseteq Live
      /\ \A m \in Live : obj'[m] = obj[m] /\ Pointers(m)' = Pointers(m)
      /\ obj'[n].class = c /\ obj'[n].form = f /\ obj'[n].next = 1 /\ Len(obj'[n].ptr) = k /\ k \in Nat
  BY BegunMemory
<1>3. /\ c \in {"AnyVectorr", "Entity", "Matrixx", "Tablee"} /\ k \in Sizes(c, f)
      /\ stack' = <<n>> \o stack /\ pc \in {"idle", "read"} /\ pc' = "read"
      /\ stack # <<>> => ended' = ended
  BY DEF BeginAt
<1>4. Frames' = Frames \cup {n}
  BY <1>1, <1>2, <1>3, Pushed DEF Memory
<1>5. /\ c = "Entity" => k = IF f = "other" THEN 0 ELSE 1
      /\ c = "Matrixx" => k >= 1
  BY <1>3, SizesAre
<1>6. ASSUME NEW e \in Live', obj'[e].class = "Entity", obj'[e].next = Len(obj'[e].ptr) + 1
      PROVE  Reads(e)' \subseteq Live' \/ (ended' /\ Current(e)')
  <2>1. CASE e = n
    <3>1. k + 1 = 1
      BY <1>2, <1>6, <2>1
    <3>2. k = 0
      BY <1>2, <3>1
    <3>3. f = "other"
      BY <1>2, <1>5, <1>6, <2>1, <3>2
    <3>. QED  BY <1>2, <2>1, <3>3 DEF Reads
  <2>2. CASE e \in Live
    <3>1. obj'[e] = obj[e]
      BY <1>2, <2>2
    <3>2. Reads(e) \subseteq Live \/ (ended /\ Current(e))
      BY <1>1, <1>6, <2>2, <3>1 DEF Readable
    <3>3. CASE Reads(e) \subseteq Live
      <4>1. \A p \in Pointers(e) \cap Live : p \in Live' /\ obj'[p] = obj[p] /\ Pointers(p) \cap Live \subseteq Live'
        BY <1>2
      <4>. QED  BY <1>1, <1>6, <2>2, <3>1, <3>3, <4>1, ReadsKept
    <3>4. CASE ended /\ Current(e)
      <4>1. pc = "read" /\ (e \in Frames \/ \E g \in Frames : e \in Pointers(g))
        BY <1>3, <3>4 DEF Current
      <4>2. ended' = ended
        BY <1>1, <1>3, <4>1 DEF Memory
      <4>3. e \in Frames' \/ \E g \in Frames' : e \in Pointers(g)'
        BY <1>2, <1>4, <4>1
      <4>. QED  BY <1>3, <3>4, <4>2, <4>3 DEF Current
    <3>. QED  BY <3>2, <3>3, <3>4
  <2>. QED  BY <1>2, <1>6, <2>1, <2>2
<1>7. ASSUME NEW m \in Frames', obj'[m].class = "Matrixx", obj'[m].next = Len(obj'[m].ptr) + 1, obj'[m].type = "plain"
      PROVE  obj'[m].ptr[Len(obj'[m].ptr)] \in Live' \/ ended'
  <2>1. m # n
    <3>1. SUFFICES ASSUME m = n PROVE FALSE
      OBVIOUS
    <3>2. k >= 1 /\ k + 1 = 1
      BY <1>2, <1>5, <1>7, <3>1
    <3>. QED  BY <1>2, <3>2
  <2>2. m \in Frames /\ m \in Live
    BY <1>2, <1>4, <1>7, <2>1
  <2>3. ended' = ended
    BY <1>3, <2>2, NoFrames
  <2>4. obj'[m] = obj[m]
    BY <1>2, <2>2
  <2>5. obj[m].ptr[Len(obj[m].ptr)] \in Live \/ ended
    BY <1>1, <1>7, <2>2, <2>4 DEF Readable
  <2>. QED  BY <1>2, <2>3, <2>4, <2>5
<1>. QED  BY <1>6, <1>7 DEF Readable

LEMMA BegunShape ==
  ASSUME IInv, NEW n, NEW c, NEW f, NEW t, NEW k, BeginAt(n, c, f, t, k)
  PROVE  StackShape'
<1>1. Memory /\ Links /\ StackShape
  BY DEF IInv
<1>2. /\ Live \subseteq Ids /\ n \in Ids \ Live /\ Live' = Live \cup {n} /\ Frames \subseteq Live
      /\ \A m \in Live : obj'[m] = obj[m]
      /\ obj'[n].class = c /\ obj'[n].form = f /\ obj'[n].type = t
  BY BegunMemory
<1>3. /\ c \in {"AnyVectorr", "Entity", "Matrixx", "Tablee"}
      /\ stack' = <<n>> \o stack
      /\ stack = <<>> =>
           /\ flag' = <<"vector", "any">> => c = "AnyVectorr"
           /\ flag' # <<"vector", "any">> => c = "Entity" /\ f = flag'[1] /\ t = flag'[2]
      /\ stack # <<>> =>
           /\ flag' = flag /\ obj[Top].next =< Len(obj[Top].ptr)
           /\ \/ obj[Top].class = "AnyVectorr" /\ c = "Entity"
              \/ obj[Top].class = "Entity" /\ obj[Top].form = "matrix" /\ c = "Matrixx" /\ t = obj[Top].type
              \/ obj[Top].class = "Entity" /\ obj[Top].form = "table" /\ c = "Tablee"
  BY DEF BeginAt
<1>4. stack \in Seq(Ids)
  BY <1>1 DEF Memory
<1>5. /\ stack' \in Seq(Ids) /\ Len(stack) \in Nat /\ Len(stack') = Len(stack) + 1
      /\ stack'[1] = n /\ \A i \in 2 .. Len(stack) + 1 : stack'[i] = stack[i - 1]
      /\ Frames' = Frames \cup {n}
  BY <1>2, <1>3, <1>4, Pushed
<1>6. \A i \in 2 .. Len(stack') : i - 1 \in 1 .. Len(stack) /\ stack'[i] = stack[i - 1]
  BY <1>5
<1>7. \A i \in 1 .. Len(stack') : i = 1 \/ i \in 2 .. Len(stack')
  BY <1>5
<1>8. \A m \in Live : \A x \in Live : Fits(m, x) => Fits(m, x)'
  BY <1>2 DEF Fits
<1>9. ASSUME NEW i \in 1 .. Len(stack') PROVE stack'[i] \in Live' /\ obj'[stack'[i]].class # "lost"
  <2>1. CASE i = 1
    BY <1>2, <1>3, <1>5, <2>1
  <2>2. CASE i \in 2 .. Len(stack')
    BY <1>1, <1>2, <1>6, <2>2 DEF StackShape
  <2>. QED  BY <1>7, <1>9, <2>1, <2>2
<1>10. ASSUME NEW i \in 1 .. Len(stack'), NEW j \in 1 .. Len(stack'), stack'[i] = stack'[j] PROVE i = j
  <2>1. \A h \in 2 .. Len(stack') : stack'[h] # n
    BY <1>1, <1>2, <1>6 DEF StackShape
  <2>2. CASE i \in 2 .. Len(stack') /\ j \in 2 .. Len(stack')
    <3>1. i - 1 = j - 1
      BY <1>1, <1>6, <1>10, <2>2 DEF StackShape
    <3>. QED  BY <3>1
  <2>3. CASE i = 1
    BY <1>5, <1>7, <1>10, <2>1, <2>3
  <2>4. CASE j = 1
    BY <1>5, <1>7, <1>10, <2>1, <2>4
  <2>. QED  BY <1>7, <1>10, <2>2, <2>3, <2>4
<1>11. ASSUME NEW i \in 2 .. Len(stack')
       PROVE  obj'[stack'[i]].next =< Len(obj'[stack'[i]].ptr) /\ Fits(stack[i], stack[i - 1])'
  <2>1. PICK a, b : a = stack'[i] /\ b = stack'[i - 1]
    OBVIOUS
  <2>2. i - 1 \in 1 .. Len(stack) /\ a = stack[i - 1]
    BY <1>6, <2>1
  <2>3. a \in Live /\ obj'[a] = obj[a]
    BY <1>1, <1>2, <2>2 DEF StackShape
  <2>4. CASE i = 2
    <3>1. b = n /\ a = stack[1] /\ stack # <<>>
      <4>1. 2 - 1 = 1 /\ Len(stack) # 0
        BY <1>5, <2>2, <2>4
      <4>. QED  BY <1>5, <2>1, <2>2, <2>4, <4>1, EmptySeq
    <3>2. a = Top
      BY <1>4, <3>1, HeadTailProperties DEF Top
    <3>3. obj[a].next =< Len(obj[a].ptr)
      BY <1>3, <3>1, <3>2
    <3>4. \/ obj[a].class = "AnyVectorr" /\ c = "Entity"
          \/ obj[a].class = "Entity" /\ obj[a].form = "matrix" /\ c = "Matrixx" /\ t = obj[a].type
          \/ obj[a].class = "Entity" /\ obj[a].form = "table" /\ c = "Tablee"
      BY <1>3, <3>1, <3>2
    <3>5. Fits(a, b)'
      BY <1>2, <2>3, <3>1, <3>4 DEF Fits
    <3>6. Fits(stack[i], stack[i - 1])'
      BY <2>1, <3>5 DEF Fits
    <3>. QED  BY <2>1, <2>3, <3>3, <3>6
  <2>5. CASE i # 2
    <3>1. i - 1 \in 2 .. Len(stack) /\ i - 1 \in 2 .. Len(stack') /\ (i - 1) - 1 \in 1 .. Len(stack)
      BY <1>5, <2>5
    <3>2. b = stack[(i - 1) - 1] /\ b \in Live
      BY <1>1, <1>6, <2>1, <3>1 DEF StackShape
    <3>3. obj[a].next =< Len(obj[a].ptr) /\ Fits(a, b)
      BY <1>1, <2>2, <3>1, <3>2 DEF StackShape
    <3>4. Fits(a, b)'
      BY <1>8, <2>3, <3>2, <3>3
    <3>5. Fits(stack[i], stack[i - 1])'
      BY <2>1, <3>4 DEF Fits
    <3>. QED  BY <2>1, <2>3, <3>3, <3>5
  <2>. QED  BY <2>4, <2>5
<1>12. LET b == stack'[Len(stack')]
       IN  /\ flag' = <<"vector", "any">> => obj'[b].class = "AnyVectorr"
           /\ flag' # <<"vector", "any">> =>
                obj'[b].class = "Entity" /\ obj'[b].form = flag'[1] /\ obj'[b].type = flag'[2]
  <2>1. CASE stack = <<>>
    <3>1. Len(stack') = 1
      BY <1>5, <2>1, EmptySeq
    <3>. QED  BY <1>2, <1>3, <1>5, <2>1, <3>1
  <2>2. CASE stack # <<>>
    <3>1. Len(stack) # 0
      BY <1>4, <2>2, EmptySeq
    <3>2. Len(stack') \in 2 .. Len(stack') /\ Len(stack') - 1 = Len(stack) /\ Len(stack) \in 1 .. Len(stack)
      BY <1>5, <3>1
    <3>3. stack'[Len(stack')] = stack[Len(stack)] /\ stack[Len(stack)] \in Live
      BY <1>1, <1>6, <3>2 DEF StackShape
    <3>4. /\ flag = <<"vector", "any">> => obj[stack[Len(stack)]].class = "AnyVectorr"
          /\ flag # <<"vector", "any">> =>
               /\ obj[stack[Len(stack)]].class = "Entity"
               /\ obj[stack[Len(stack)]].form = flag[1] /\ obj[stack[Len(stack)]].type = flag[2]
      BY <1>1, <2>2 DEF StackShape
    <3>. QED  BY <1>2, <1>3, <2>2, <3>3, <3>4
  <2>. QED  BY <2>1, <2>2
<1>13. ASSUME NEW m \in Live' \ Frames' PROVE obj'[m].next = Len(obj'[m].ptr) + 1
  <2>1. m \in Live \ Frames
    BY <1>2, <1>5, <1>13
  <2>. QED  BY <1>1, <1>2, <2>1 DEF StackShape
<1>. QED  BY <1>9, <1>10, <1>11, <1>12, <1>13 DEF StackShape

LEMMA Begun ==
  ASSUME IInv, NEW n, NEW c, NEW f, NEW t, NEW k, BeginAt(n, c, f, t, k)
  PROVE  IInv'
<1>. QED  BY BegunLinks, BegunReadable, BegunShape DEF IInv

LEMMA ReceiveEntityStep == ASSUME IInv, ReceiveEntity PROVE IInv'
<1>1. /\ pc = "idle" /\ ended' \in BOOLEAN /\ pc' = "read" /\ flag' \in Forms \X FlagTypes
      /\ flag'[2] = "any" => flag'[1] \in {"vector", "other"} \/ ended'
      /\ entity' = entity /\ anyvector' = anyvector
  BY DEF ReceiveEntity
<1>2. stack = <<>>
  BY <1>1 DEF IInv, Memory
<1>3. PICK c : c = IF flag' = <<"vector", "any">> THEN "AnyVectorr" ELSE "Entity"
  OBVIOUS
<1>4. Begin(c, flag'[1], flag'[2])
  BY <1>3 DEF ReceiveEntity
<1>5. PICK n \in Ids \ Live, k \in Sizes(c, flag'[1]) :
        obj' = [obj EXCEPT ![n] = New(c, flag'[1], flag'[2], k)] /\ stack' = <<n>> \o stack
  BY <1>4 DEF Begin
<1>6. PICK f, t : f = flag'[1] /\ t = flag'[2]
  OBVIOUS
<1>7. f \in Forms /\ t \in AllTypes
  BY <1>1, <1>6 DEF AllTypes
<1>8. BeginAt(n, c, f, t, k)
  BY <1>1, <1>2, <1>3, <1>5, <1>6, <1>7 DEF BeginAt
<1>. QED  BY <1>8, Begun

LEMMA BeginChildStep == ASSUME IInv, BeginChild PROVE IInv'
<1>1. /\ pc = "read" /\ obj[Top].next =< Len(obj[Top].ptr)
      /\ entity' = entity /\ anyvector' = anyvector /\ ended' = ended /\ flag' = flag /\ pc' = pc
      /\ \/ ChildClass \in {"Matrixx", "Tablee"} /\ Begin(ChildClass, obj[Top].form, obj[Top].type)
         \/ ChildClass = "Entity" /\ \E f \in ElementFlags : Begin("Entity", f[1], f[2])
  BY DEF BeginChild, Reading
<1>2. Top \in Live /\ obj[Top] \in Record /\ stack # <<>>
  BY <1>1, Innermost
<1>3. obj[Top].class \in Kinds /\ obj[Top].form \in Forms /\ obj[Top].type \in AllTypes
  BY <1>2, Fields
<1>4. obj[Top].class \in {"AnyVectorr", "Entity", "Matrixx", "Tablee"}
  <2>1. obj[Top].class # "lost"
    BY <1>3 DEF Kinds
  <2>. QED  BY <1>1, <1>2, <2>1, Unfinished
<1>5. /\ ended \in BOOLEAN /\ flag \in Forms \X FlagTypes
      /\ flag[2] = "any" /\ flag[1] \notin {"vector", "other"} => ended
  BY <1>1 DEF IInv, Memory, Roots
<1>6. PICK c, f, t :
        /\ Begin(c, f, t) /\ c \in {"AnyVectorr", "Entity", "Matrixx", "Tablee"} /\ f \in Forms /\ t \in AllTypes
        /\ \/ obj[Top].class = "AnyVectorr" /\ c = "Entity"
           \/ obj[Top].class = "Entity" /\ obj[Top].form = "matrix" /\ c = "Matrixx" /\ t = obj[Top].type
           \/ obj[Top].class = "Entity" /\ obj[Top].form = "table" /\ c = "Tablee"
  <2>1. CASE ChildClass \in {"Matrixx", "Tablee"} /\ Begin(ChildClass, obj[Top].form, obj[Top].type)
    <3>1. \/ obj[Top].class = "Entity" /\ obj[Top].form = "matrix" /\ ChildClass = "Matrixx"
          \/ obj[Top].class = "Entity" /\ obj[Top].form = "table" /\ ChildClass = "Tablee"
      BY <1>4, <2>1 DEF ChildClass
    <3>. QED  BY <1>3, <2>1, <3>1
  <2>2. ASSUME ChildClass = "Entity", NEW g \in ElementFlags, Begin("Entity", g[1], g[2])
        PROVE  \E c, f, t :
                 /\ Begin(c, f, t) /\ c \in {"AnyVectorr", "Entity", "Matrixx", "Tablee"} /\ f \in Forms /\ t \in AllTypes
                 /\ \/ obj[Top].class = "AnyVectorr" /\ c = "Entity"
                    \/ obj[Top].class = "Entity" /\ obj[Top].form = "matrix" /\ c = "Matrixx" /\ t = obj[Top].type
                    \/ obj[Top].class = "Entity" /\ obj[Top].form = "table" /\ c = "Tablee"
    <3>1. obj[Top].class = "AnyVectorr"
      BY <1>4, <2>2 DEF ChildClass
    <3>2. g[1] \in Forms /\ g[2] \in AllTypes
      BY <2>2 DEF ElementFlags, NoFlag, AllTypes, Forms, FlagTypes, Types
    <3>. QED  BY <2>2, <3>1, <3>2
  <2>. QED  BY <1>1, <2>1, <2>2
<1>7. PICK n \in Ids \ Live, k \in Sizes(c, f) : obj' = [obj EXCEPT ![n] = New(c, f, t, k)] /\ stack' = <<n>> \o stack
  BY <1>6 DEF Begin
<1>8. BeginAt(n, c, f, t, k)
  BY <1>1, <1>2, <1>5, <1>6, <1>7 DEF BeginAt
<1>. QED  BY <1>8, Begun

-----------------------------------------------------------------------------
(* The theorems.                                                           *)

LEMMA InitIInv == Init => IInv
<1>. SUFFICES ASSUME Init PROVE IInv
  OBVIOUS
<1>1. /\ obj = [n \in Ids |-> Free] /\ stack = <<>> /\ entity = Null /\ anyvector = Null
      /\ ended = FALSE /\ flag = NoFlag /\ pc = "idle"
  BY DEF Init
<1>2. Live = {} /\ Frames = {} /\ Len(stack) = 0
  BY <1>1, EmptySeq DEF Live, Frames
<1>3. stack \in Seq(Ids) /\ flag \in Forms \X FlagTypes
  BY <1>1, EmptySeq DEF NoFlag, Forms, FlagTypes, Types
<1>4. Memory
  BY <1>1, <1>3 DEF Memory
<1>5. Links /\ Rooted /\ Readable /\ CrashExplained
  BY <1>1, <1>2 DEF Links, Rooted, Readable, CrashExplained
<1>6. StackShape
  <2>1. (\A i \in 1 .. 0 : FALSE) /\ \A i \in 2 .. 0 : FALSE
    OBVIOUS
  <2>. QED  BY <1>1, <1>2, <2>1 DEF StackShape
<1>7. Roots /\ Owned
  BY <1>1, <1>2 DEF Roots, Owned
<1>. QED  BY <1>4, <1>5, <1>6, <1>7 DEF IInv

LEMMA Unchanged == ASSUME IInv, UNCHANGED vars PROVE IInv'
<1>1. /\ obj' = obj /\ stack' = stack /\ entity' = entity /\ anyvector' = anyvector /\ ended' = ended
      /\ flag' = flag /\ pc' = pc
  BY DEF vars
<1>2. /\ Live' = Live /\ Frames' = Frames /\ (\A n : Owners(n)' = Owners(n)) /\ (\A n : Pointers(n)' = Pointers(n))
      /\ (\A n : Reads(n)' = Reads(n)) /\ Parts' = Parts
  BY <1>1 DEF Live, Frames, Owners, Pointers, Reads, Parts, IsList
<1>3. Memory' /\ Roots' /\ CrashExplained'
  BY <1>1, <1>2 DEF IInv, Memory, Roots, CrashExplained
<1>4. Links'
  BY <1>1, <1>2 DEF IInv, Links, PointersOf, Fits
<1>5. StackShape'
  BY <1>1, <1>2 DEF IInv, StackShape, Fits
<1>6. Owned' /\ Rooted'
  BY <1>1, <1>2 DEF IInv, Owned, Rooted, HasOwner, Leaked
<1>7. Readable'
  BY <1>1, <1>2 DEF IInv, Readable, Current
<1>. QED  BY <1>3, <1>4, <1>5, <1>6, <1>7 DEF IInv

LEMMA NextIInv == IInv /\ [Next]_vars => IInv'
<1>. SUFFICES ASSUME IInv, [Next]_vars PROVE IInv'
  OBVIOUS
<1>1. CASE ReceiveEntity
  BY <1>1, ReceiveEntityStep
<1>2. CASE BeginChild
  BY <1>2, BeginChildStep
<1>3. CASE ReadChild
  BY <1>3, ReadChildStep
<1>4. CASE SkipChild
  BY <1>4, SkipChildStep
<1>5. CASE Return
  BY <1>5, ReturnStep
<1>6. CASE Received
  BY <1>6, ReceivedStep
<1>7. CASE Throw
  BY <1>7, ThrowStep
<1>8. CASE StreamEnds
  BY <1>8, StreamEndsStep
<1>9. CASE Decode
  BY <1>9, DecodeStep
<1>10. CASE Ignore
  BY <1>10, IgnoreStep
<1>11. CASE DisConnect
  BY <1>11, DisConnectStep
<1>12. CASE Reconnect
  BY <1>12, ReconnectStep
<1>13. CASE UNCHANGED vars
  BY <1>13, Unchanged
<1>. QED  BY <1>1, <1>2, <1>3, <1>4, <1>5, <1>6, <1>7, <1>8, <1>9, <1>10, <1>11, <1>12, <1>13 DEF Next

LEMMA TypeHolds == IInv => TypeOK
<1>. SUFFICES ASSUME IInv PROVE TypeOK
  OBVIOUS
<1>1. Memory /\ Links /\ StackShape
  BY DEF IInv
<1>2. stack \in Seq(Live)
  <2>1. stack \in Seq(Ids) /\ Len(stack) \in Nat /\ \A i \in 1 .. Len(stack) : stack[i] \in Live
    BY <1>1, LenProperties DEF Memory, StackShape
  <2>2. stack = [i \in 1 .. Len(stack) |-> stack[i]]
    BY <2>1, LenProperties
  <2>. QED  BY <2>1, <2>2, IsASeq
<1>3. ASSUME NEW n \in Live PROVE obj[n].next \in 1 .. Len(obj[n].ptr) + 1 /\ Pointers(n) \subseteq Ids \cup {Null, Wild}
  BY <1>1, <1>3, Alive DEF Links, PointersOf, Pointer
<1>. QED  BY <1>1, <1>2, <1>3 DEF TypeOK, Memory

LEMMA OwnersHold == IInv => OneOwner
<1>. SUFFICES ASSUME IInv PROVE OneOwner
  OBVIOUS
<1>1. Links /\ Owned
  BY DEF IInv
<1>2. \A m \in Live : Pointers(m) \cap Ids \subseteq Live
  BY <1>1 DEF Links
<1>. QED  BY <1>1, <1>2 DEF Owned, OneOwner

LEMMA Invariance == Spec => []IInv
<1>. QED  BY InitIInv, NextIInv, PTL DEF Spec

\* Every variable keeps its domain, and no constructor sets more pointers than
\* its object has.
THEOREM TypeCorrect == Spec => []TypeOK
<1>. QED  BY Invariance, TypeHolds, PTL

\* An object has one owner, and no pointer to it is left when it is freed: in
\* whatever memory, after whatever exceptions, R errors and disconnections,
\* nothing is deleted twice or read after it was.
THEOREM OwnersCorrect == Spec => []OneOwner
<1>. QED  BY Invariance, OwnersHold, PTL

\* Nothing but the vector of a pair, and what an exception or the next object of
\* its kind gave up, stays behind in memory with nothing leading to it.
THEOREM LeaksCorrect == Spec => []OnlyKnownLeaks
<1>. QED  BY Invariance, KnownLeaks, PTL

\* The process ends over a pointer only after the stream has, or for a matrix of
\* a type that is not supported.
THEOREM CrashCorrect == Spec => []CrashExplained
<1>1. IInv => CrashExplained
  BY DEF IInv
<1>. QED  BY <1>1, Invariance, PTL
=============================================================================
