------------------------------ MODULE Objects ------------------------------
(***************************************************************************)
(* The life of a received object: how Entity, AnyVectorr, Matrixx, Tablee, *)
(* Vectorr and Scalarr are built from the stream one inside the other, who *)
(* points to whom meanwhile, which of them a destructor frees, and what    *)
(* DDB_GetEntity dereferences in between.  Values are in Transfer, the     *)
(* calls and replies around it in Session.                                 *)
(*                                                                         *)
(* The stream may end at any point of the object.  A flag that was to be   *)
(* read keeps the value of its variable then: 0 where the code initializes *)
(* it, anything where it does not; a size may be anything, and new or      *)
(* reserve() throws.  What an object that is not supported leaves unread in *)
(* the stream is left out: the next object is one the server has sent.     *)
(***************************************************************************)
EXTENDS Integers, Sequences

CONSTANTS Ids,      \* the memory of the process: at most so many objects
          MaxSize   \* bound on the elements of a list and the columns of a table

ASSUME ObjectsAssumption == Ids \subseteq Nat \ {0} /\ MaxSize \in Nat

Null == 0
Wild == -1   \* a pointer that was never set
Free == [class |-> "free"]

\* An object that nothing leads to any more, given up by an exception or when
\* the pointer to it was overwritten.
Lost == [class |-> "lost", ptr |-> <<>>, next |-> 1]

Forms == {"scalar", "vector", "pair", "set", "matrix", "table", "other"}

\* What CreateVector and CreateScalar read, and the rest, DT_ANY included but
\* for the flag of the whole object.  Of the lables they read,
\* DDB_ReceiveMatrixLable knows no dates, times and symbols.
Types      == {"plain", "unsupported"}
FlagTypes  == Types \cup {"any"}
LableTypes == Types \cup {"date"}

\* A flag of 0, and no flag: DT_VOID is not read.
NoFlag == <<"scalar", "unsupported">>

VARIABLES
  obj,        \* the object at each id, or Free
  stack,      \* the constructors in progress, the innermost first
  entity, anyvector,  \* fields of Rcpp_Connector
  ended,      \* the peer has hung up and the buffer is empty
  flag,       \* the form and type ReceiveEntity has read, during the call
  pc

vars == <<obj, stack, entity, anyvector, ended, flag, pc>>

Live == {n \in Ids : obj[n] # Free}

Init ==
  /\ obj = [n \in Ids |-> Free] /\ stack = <<>>
  /\ entity = Null /\ anyvector = Null
  /\ ended = FALSE /\ flag = NoFlag /\ pc = "idle"

-----------------------------------------------------------------------------
(* Pointers.                                                               *)

Pointers(n) == {obj[n].ptr[i] : i \in DOMAIN obj[n].ptr}

\* A mutant: ~Entity forgets the sets too.
FollowedButSets(n) ==
  IF obj[n].class = "Entity" /\ obj[n].form \in {"pair", "set", "other"} THEN {} ELSE Pointers(n)

\* The pointers n's destructor deletes; ~Entity has no case for a pair.
Followed(n) ==
  IF obj[n].class = "Entity" /\ obj[n].form \in {"pair", "other"} THEN {} ELSE Pointers(n)

\* Both all the way down; a list of tables of vectors is the deepest tree.
Tree(S) ==
  LET below(P) == P \cup UNION {Pointers(n) : n \in P \cap Live} IN below(below(below(S)))

Deleted(S) ==
  LET below(P) == P \cup UNION {Followed(n) : n \in P \cap Live} IN below(below(below(S)))

Frames == {stack[i] : i \in DOMAIN stack}

-----------------------------------------------------------------------------
(* Construction.                                                           *)

\* Memory with k pointers to fill; all are null, but for Matrixx::mtx.
New(class, form, type, k) ==
  [class |-> class, form |-> form, type |-> type, next |-> 1,
   ptr |-> [i \in 1 .. k |-> IF class = "Matrixx" /\ i = k THEN Wild ELSE Null]]

\* How many pointers: a matrix has its lables, if their bits are set, and mtx.
Sizes(class, form) ==
  CASE class = "Entity"                   -> IF form = "other" THEN {0} ELSE {1}
    [] class = "Matrixx"                  -> 1 .. 3
    [] class \in {"Tablee", "AnyVectorr"} -> 0 .. MaxSize
    [] OTHER                              -> {0}

\* The object is put at the first free place and becomes the innermost one.
Begin(class, form, type) ==
  \E n \in Ids \ Live, k \in Sizes(class, form) :
    /\ \A m \in Ids \ Live : n =< m
    /\ obj' = [obj EXCEPT ![n] = New(class, form, type, k)]
    /\ stack' = <<n>> \o stack

\* Rcpp_ReceiveEntity, from the flag on.  The server has no pair and no set of
\* DT_ANY; an uninitialized flag may say anything.  A form without a class, a
\* dictionary say, becomes an Entity without pointers.
ReceiveEntity ==
  /\ pc = "idle" /\ ~ended /\ pc' = "read"
  /\ ended' \in BOOLEAN
  /\ flag' \in Forms \X FlagTypes
  /\ flag'[2] = "any" => flag'[1] \in {"vector", "other"} \/ ended'
  /\ Begin(IF flag' = <<"vector", "any">> THEN "AnyVectorr" ELSE "Entity", flag'[1], flag'[2])
  /\ UNCHANGED <<entity, anyvector>>

\* The innermost object, and the object it goes on to read.
Top     == Head(stack)
Reading == pc = "read" /\ obj[Top].next =< Len(obj[Top].ptr)

ChildClass ==
  CASE obj[Top].class = "AnyVectorr" -> "Entity"
    [] obj[Top].class = "Entity" /\ obj[Top].form = "scalar" -> "Scalarr"
    [] obj[Top].class = "Entity" /\ obj[Top].form = "matrix" -> "Matrixx"
    [] obj[Top].class = "Entity" /\ obj[Top].form = "table"  -> "Tablee"
    [] OTHER -> "Vectorr"

\* The flag of an element of a list: 0 when it cannot be read.
ElementFlags ==
  IF ended THEN {NoFlag} ELSE Forms \X Types

\* The type of a vector: that of its Entity, or of a flag of its own, which is
\* initialized in CreateSet and Tablee and not in Matrixx.
ChildTypes ==
  LET own  == {obj[Top].type}
      last == obj[Top].next = Len(obj[Top].ptr)
  IN  CASE obj[Top].class = "Matrixx" ->
             IF ~last THEN LableTypes ELSE IF ended THEN Types ELSE own
        [] obj[Top].class = "Tablee"  -> IF ended THEN {"unsupported"} ELSE Types
        [] obj[Top].form = "set"      -> IF ended THEN {"unsupported"} ELSE own
        [] OTHER                      -> own

\* An object with pointers of its own.
BeginChild ==
  /\ Reading
  /\ \/ ChildClass \in {"Matrixx", "Tablee"} /\ Begin(ChildClass, obj[Top].form, obj[Top].type)
     \/ ChildClass = "Entity" /\ \E f \in ElementFlags : Begin("Entity", f[1], f[2])
  /\ UNCHANGED <<entity, anyvector, ended, flag, pc>>

\* The pointer being filled is set to id, and the next one is at hand.
Fill(o, n, id) == [o EXCEPT ![n].ptr[o[n].next] = id, ![n].next = @ + 1]

\* A scalar or a vector is read at once.
ReadChild ==
  /\ Reading /\ ChildClass \in {"Scalarr", "Vectorr"}
  /\ \E n \in Ids \ Live, t \in ChildTypes \ {"unsupported"} :
       /\ \A m \in Ids \ Live : n =< m
       /\ obj' = Fill([obj EXCEPT ![n] = New(ChildClass, obj[Top].form, t, 0)], Top, n)
  /\ UNCHANGED <<stack, entity, anyvector, ended, flag, pc>>

\* A mutant: a pointer to an object that is not supported is never set.
SkipChildUnset ==
  /\ Reading /\ ChildClass \in {"Scalarr", "Vectorr"} /\ "unsupported" \in ChildTypes
  /\ obj' = Fill(obj, Top, Wild)
  /\ UNCHANGED <<stack, entity, anyvector, ended, flag, pc>>

\* One of another type is not: its pointer stays as it is.
SkipChild ==
  /\ Reading /\ ChildClass \in {"Scalarr", "Vectorr"} /\ "unsupported" \in ChildTypes
  /\ obj' = [obj EXCEPT ![Top].next = @ + 1]
  /\ UNCHANGED <<stack, entity, anyvector, ended, flag, pc>>

\* The constructor is done, and new returns to the one around it.
Return ==
  /\ pc = "read" /\ ~Reading /\ Len(stack) > 1
  /\ obj' = Fill(obj, stack[2], Top) /\ stack' = Tail(stack)
  /\ UNCHANGED <<entity, anyvector, ended, flag, pc>>

GiveUp(S) == [n \in Ids |-> IF n \in S \cap Live THEN Lost ELSE obj[n]]

\* Or to the connector, whose pointer may still have an object.
Received ==
  /\ pc = "read" /\ ~Reading /\ Len(stack) = 1
  /\ stack' = <<>> /\ pc' = "decode"
  /\ IF obj[Top].class = "AnyVectorr"
     THEN anyvector' = Top /\ obj' = GiveUp(Tree({anyvector})) /\ UNCHANGED entity
     ELSE entity' = Top /\ obj' = GiveUp(Tree({entity})) /\ UNCHANGED anyvector
  /\ UNCHANGED <<ended, flag>>

\* A mutant: the constructors around the one that throws go on.
ThrowGoesOn ==
  /\ pc = "read" /\ (ended \/ Live = Ids)
  /\ obj' = [obj EXCEPT ![Top] = Free]
  /\ pc' = "idle" /\ flag' = NoFlag
  /\ UNCHANGED <<stack, entity, anyvector, ended>>

\* The size of a vector, a table or a list cannot be had, or no memory at all:
\* the objects under construction are freed, those they point to are not, and
\* the call ends with an R error.
Throw ==
  /\ pc = "read" /\ (ended \/ Live = Ids)
  /\ obj' = [n \in Ids |-> IF n \in Frames THEN Free ELSE GiveUp(Tree(Frames))[n]]
  /\ stack' = <<>> /\ pc' = "idle" /\ flag' = NoFlag
  /\ UNCHANGED <<entity, anyvector, ended>>

StreamEnds ==
  /\ pc = "read" /\ ~ended /\ ended' = TRUE
  /\ UNCHANGED <<obj, stack, entity, anyvector, flag, pc>>

-----------------------------------------------------------------------------
(* The end of the call.                                                    *)

\* delete of some pointers; of one that is not to an object it is the end.
Delete(P) ==
  LET D == Deleted(P) \ {Null}
  IN  IF D \subseteq Live
      THEN obj' = [n \in Ids |-> IF n \in D THEN Free ELSE obj[n]] /\ pc' = "idle"
      ELSE pc' = "crashed" /\ UNCHANGED obj

\* Rcpp_ClearEntity.
Clear ==
  /\ Delete({entity, anyvector})
  /\ entity' = Null /\ anyvector' = Null

\* What the Return functions dereference of an Entity: what its R type says it
\* has.
Reads(e) ==
  LET p == obj[e].ptr[1]
  IN  IF obj[e].form = "table" THEN {p}
      ELSE IF obj[e].form = "other" \/ obj[e].type # "plain" THEN {}
      ELSE IF obj[e].form = "matrix" /\ p \in Live THEN {p, obj[p].ptr[Len(obj[p].ptr)]}
      ELSE {p}

\* The lables of a matrix that DDB_ReceiveMatrixLable has no values of.
Nameless(m) ==
  {i \in 1 .. Len(obj[m].ptr) - 1 : obj[m].ptr[i] = Null \/ obj[obj[m].ptr[i]].type = "date"}

\* DDB_GetEntity stops with an R error over a table without columns and over a
\* nameless lable, unless R finds a "result" of fitting length elsewhere: that
\* of the rows for the columns, or one of the user's.
MustFail(e) == \E p \in Pointers(e) \cap Live : obj[p].class = "Tablee" /\ obj[p].ptr = <<>>

MayFail(e) ==
  \/ MustFail(e)
  \/ \E p \in Pointers(e) \cap Live :
       obj[p].class = "Matrixx" /\ obj[e].type = "plain" /\ Nameless(p) # {}

\* Every list is of the R type of a vector, a pair or a set of DT_ANY.
IsList == flag[2] = "any" /\ flag[1] \in {"vector", "pair", "set"}

\* The entities DDB_GetEntity looks at, and what it dereferences.
Parts == IF ~IsList THEN {entity} ELSE IF anyvector = Null THEN {} ELSE Pointers(anyvector)
Derefs == (UNION {Reads(e) : e \in Parts}) \cup (IF IsList THEN {anyvector} ELSE {})

\* A mutant: after an R error the object is deleted and its pointer kept.
DecodeKeepsPointer ==
  /\ pc = "decode"
  /\ IF ~(Derefs \subseteq Live) THEN pc' = "crashed" /\ UNCHANGED <<obj, entity, anyvector>>
     ELSE \/ /\ \E e \in Parts : MayFail(e)
             /\ Delete({entity, anyvector}) /\ UNCHANGED <<entity, anyvector>>
          \/ (\A e \in Parts : ~MustFail(e)) /\ Clear
  /\ flag' = NoFlag
  /\ UNCHANGED <<stack, ended>>

\* DDB_GetEntity of dbRun and dbRpc.
Decode ==
  /\ pc = "decode"
  /\ IF ~(Derefs \subseteq Live) THEN pc' = "crashed" /\ UNCHANGED <<obj, entity, anyvector>>
     ELSE \/ (\E e \in Parts : MayFail(e)) /\ pc' = "idle" /\ UNCHANGED <<obj, entity, anyvector>>
          \/ (\A e \in Parts : ~MustFail(e)) /\ Clear
  /\ flag' = NoFlag
  /\ UNCHANGED <<stack, ended>>

\* dbUpload and the login look at nothing.
Ignore == pc = "decode" /\ Clear /\ flag' = NoFlag /\ UNCHANGED <<stack, ended>>

\* Rcpp_DisConnect deletes the entity only.
DisConnect ==
  /\ pc = "idle"
  /\ Delete({entity}) /\ entity' = Null
  /\ UNCHANGED <<stack, anyvector, ended, flag>>

\* dbConnect: a new stream.
Reconnect ==
  /\ pc = "idle" /\ ended /\ ended' = FALSE
  /\ UNCHANGED <<obj, stack, entity, anyvector, flag, pc>>

-----------------------------------------------------------------------------
Next ==
  \/ ReceiveEntity \/ BeginChild \/ ReadChild \/ SkipChild \/ Return \/ Received
  \/ Throw \/ StreamEnds
  \/ Decode \/ Ignore \/ DisConnect \/ Reconnect

Spec == Init /\ [][Next]_vars

-----------------------------------------------------------------------------
(* Correctness.                                                            *)

\* The domains of the variables; a constructor in progress has its memory and
\* has not set more pointers than it has.
TypeOK ==
  /\ stack \in Seq(Live) /\ entity \in Ids \cup {Null} /\ anyvector \in Ids \cup {Null}
  /\ ended \in BOOLEAN /\ flag \in Forms \X FlagTypes
  /\ pc \in {"idle", "read", "decode", "crashed"}
  /\ pc = "read" <=> stack # <<>>
  /\ \A n \in Live : /\ obj[n].next \in 1 .. Len(obj[n].ptr) + 1
                      /\ Pointers(n) \subseteq Ids \cup {Null, Wild}

\* An object has one owner - another object, a constructor, or the connector -
\* and no pointer of an object or the connector is left to one that was freed:
\* whatever an exception, an R error, an ignored result or a disconnection left
\* behind, nothing is freed twice or read after it was.
Owners(n) == {m \in Live : n \in Pointers(m)}

OneOwner ==
  pc # "crashed" =>
    /\ \A m \in Live : Pointers(m) \cap Ids \subseteq Live
    /\ {entity, anyvector} \ {Null} \subseteq Live /\ (entity = anyvector => entity = Null)
    /\ \A n \in Live : \A m1, m2 \in Owners(n) : m1 = m2
    /\ \A n \in Live : Owners(n) # {} => n \notin Frames \cup {entity, anyvector}
    /\ Frames \cap {entity, anyvector} = {}

\* An object that nothing leads to is the vector of a pair, which no destructor
\* frees, or was given up by an exception or by an R error before the object
\* of its kind that came next; everything else that was received is freed.
OnlyKnownLeaks ==
  pc # "crashed" =>
    \A n \in Live \ Tree(Frames \cup {entity, anyvector}) :
      obj[n] = Lost \/ (obj[n].class = "Vectorr" /\ obj[n].form = "pair")

\* A null or a wild pointer is used only for a matrix of an unsupported type,
\* whose mtx nobody has set, or when the stream ended inside the object: no
\* complete object of supported types ends the process, in whatever lists,
\* after whatever went wrong before.
CrashExplained ==
  pc = "crashed" =>
    ended \/ \E n \in Live : obj[n].class = "Matrixx" /\ obj[n].type # "plain"
=============================================================================
