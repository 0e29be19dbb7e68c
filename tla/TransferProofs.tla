--------------------------- MODULE TransferProofs ---------------------------
(***************************************************************************)
(* The invariants of Transfer for all objects of R and DolphinDB: vectors  *)
(* of any length, tables of any number of columns, lists of any length,    *)
(* in any number of rounds.                                                *)
(***************************************************************************)
EXTENDS Transfer, SequenceTheorems, FiniteSetTheorems, WellFoundedInduction, TLAPS

-----------------------------------------------------------------------------
(* Induction, and what recursive functions compute.  A set of numbers has  *)
(* a least element because finite sets are well-founded under inclusion.   *)

LEMMA Least == ASSUME NEW T, T \subseteq Nat, T # {} PROVE \E x \in T : \A y \in T : x =< y
<1>. DEFINE Up(i) == 1 .. i
            U == {Up(i) : i \in T}
<1>1. \A i \in T : Up(i) \in FiniteSubsetsOf(Nat)
  <2>. SUFFICES ASSUME NEW i \in T PROVE Up(i) \in FiniteSubsetsOf(Nat)
    OBVIOUS
  <2>1. IsFiniteSet(Up(i))
    BY FS_Interval
  <2>. QED  BY <2>1 DEF FiniteSubsetsOf
<1>2. PICK u \in U : \A v \in U : ~ (<<v, u>> \in StrictSubsetOrdering(Nat))
  <2>1. U \subseteq FiniteSubsetsOf(Nat) /\ U # {}
    BY <1>1
  <2>2. IsWellFoundedOn(StrictSubsetOrdering(Nat), FiniteSubsetsOf(Nat))
    BY FS_StrictSubsetOrderingWellFounded
  <2>. HIDE DEF U
  <2>. QED  BY <2>1, <2>2, WFMin, Zenon
<1>3. PICK x \in T : u = Up(x)
  OBVIOUS
<1>4. \A y \in T : x =< y
  <2>. SUFFICES ASSUME NEW y \in T, y < x PROVE FALSE
    OBVIOUS
  <2>1. Up(y) \in U /\ Up(y) \subseteq Up(x) /\ Up(y) # Up(x) /\ Up(x) \subseteq Nat
    <3>1. x \in Up(x) /\ x \notin Up(y)
      OBVIOUS
    <3>. QED  BY <3>1
  <2>. HIDE DEF Up, U
  <2>2. <<Up(y), Up(x)>> \in StrictSubsetOrdering(Nat)
    BY <2>1 DEF StrictSubsetOrdering
  <2>. QED  BY <2>1, <2>2, <1>2, <1>3
<1>. QED  BY <1>4

LEMMA Induction ==
  ASSUME NEW S, NEW n \in Nat, 0 \in S, \A i \in 0 .. n - 1 : i \in S => i + 1 \in S
  PROVE  \A i \in 0 .. n : i \in S
<1>. DEFINE T == {i \in 0 .. n : i \notin S}
<1>. SUFFICES ASSUME T # {} PROVE FALSE
  OBVIOUS
<1>1. PICK x \in T : \A y \in T : x =< y
  <2>1. T \subseteq Nat
    OBVIOUS
  <2>. HIDE DEF T
  <2>. QED  BY <2>1, Least
<1>2. x # 0 /\ x - 1 \notin T
  BY <1>1
<1>. QED  BY <1>2

Recurs(n, S, a, h) ==
  \E f \in [0 .. n -> S] : f[0] = a /\ \A i \in 1 .. n : f[i] = h[<<i, f[i - 1]>>]

\* A step that stays in S can be repeated.
LEMMA Recursion ==
  ASSUME NEW n \in Nat, NEW S, NEW a \in S, NEW h \in [(1 .. n) \X S -> S]
  PROVE  Recurs(n, S, a, h)
<1>. DEFINE Upto(f, k) == f[0] = a /\ \A i \in 1 .. k : f[i] = h[<<i, f[i - 1]>>]
            T == {k \in 0 .. n : \E f \in [0 .. k -> S] : Upto(f, k)}
<1>1. 0 \in T
  <2>. DEFINE e == [i \in 0 .. 0 |-> a]
  <2>1. e \in [0 .. 0 -> S] /\ Upto(e, 0)
    OBVIOUS
  <2>2. 0 \in 0 .. n
    OBVIOUS
  <2>. HIDE DEF e, Upto
  <2>. QED  BY <2>1, <2>2
<1>2. ASSUME NEW k \in 0 .. n - 1, k \in T PROVE k + 1 \in T
  <2>1. PICK f \in [0 .. k -> S] : Upto(f, k)
    BY <1>2
  <2>. DEFINE g == [i \in 0 .. k + 1 |-> IF i = k + 1 THEN h[<<k + 1, f[k]>>] ELSE f[i]]
  <2>2. <<k + 1, f[k]>> \in (1 .. n) \X S
    OBVIOUS
  <2>3. g \in [0 .. k + 1 -> S]
    BY <2>2
  <2>4. k + 1 \in 0 .. n /\ g[k + 1] = h[<<k + 1, f[k]>>] /\ \A i \in 0 .. k : g[i] = f[i]
    OBVIOUS
  <2>. HIDE DEF g
  <2>5. g[0] = a
    BY <2>1, <2>4
  <2>6. ASSUME NEW i \in 1 .. k + 1 PROVE g[i] = h[<<i, g[i - 1]>>]
    <3>1. CASE i = k + 1
      <4>1. i - 1 = k /\ k \in 0 .. k
        BY <3>1
      <4>. QED  BY <2>4, <3>1, <4>1
    <3>2. CASE i # k + 1
      <4>1. i \in 1 .. k /\ i \in 0 .. k /\ i - 1 \in 0 .. k
        BY <3>2
      <4>. QED  BY <2>1, <2>4, <4>1
    <3>. QED  BY <3>1, <3>2
  <2>7. Upto(g, k + 1)
    BY <2>5, <2>6
  <2>. HIDE DEF Upto
  <2>. QED  BY <2>3, <2>4, <2>7
<1>3. n \in T
  <2>. HIDE DEF T
  <2>. QED  BY <1>1, <1>2, Induction
<1>. QED  BY <1>3 DEF Recurs

\* The pieces that FlattenSeq puts one behind the other, up to each of them.
LEMMA Flattened ==
  ASSUME NEW X, NEW ss \in Seq(Seq(X))
  PROVE  \E g \in [0 .. Len(ss) -> Seq(X)] :
           /\ g[0] = <<>> /\ g[Len(ss)] = FlattenSeq(ss)
           /\ \A i \in 1 .. Len(ss) : g[i] = g[i - 1] \o ss[i]
<1>. DEFINE n == Len(ss)
            h == [x \in (1 .. n) \X Seq(X) |-> x[2] \o ss[x[1]]]
<1>0. n \in Nat /\ \A i \in 1 .. n : ss[i] \in Seq(X)
  OBVIOUS
<1>1. h \in [(1 .. n) \X Seq(X) -> Seq(X)] /\ <<>> \in Seq(X)
  OBVIOUS
<1>. HIDE DEF n
<1>2. PICK g \in [0 .. n -> Seq(X)] : g[0] = <<>> /\ \A i \in 1 .. n : g[i] = h[<<i, g[i - 1]>>]
  <2>. HIDE DEF h
  <2>1. Recurs(n, Seq(X), <<>>, h)
    BY <1>0, <1>1, Recursion, Zenon
  <2>. QED  BY <2>1, Zenon DEF Recurs
<1>3. ASSUME NEW i \in 1 .. n PROVE g[i] = g[i - 1] \o ss[i]
  <2>0. i - 1 \in 0 .. n
    BY <1>0
  <2>1. <<i, g[i - 1]>> \in (1 .. n) \X Seq(X)
    BY <2>0
  <2>2. h[<<i, g[i - 1]>>] = g[i - 1] \o ss[i]
    BY <2>1
  <2>. QED  BY <1>2, <2>2
<1>. HIDE DEF h
<1>4. ASSUME NEW i \in 1 .. n PROVE g[i] = IF i = 1 THEN ss[i] ELSE g[i - 1] \o ss[i]
  <2>1. CASE i = 1
    <3>1. i - 1 = 0 /\ ss[i] \in Seq(X)
      BY <1>0, <2>1
    <3>2. g[i] = g[i - 1] \o ss[i]
      BY <1>3
    <3>. QED  BY <1>2, <2>1, <3>1, <3>2, ConcatEmptySeq
  <2>. QED  BY <1>3, <2>1
<1>5. g[n] = FlattenSeq(ss)
  <2>. DEFINE r == [i \in 1 .. n |-> g[i]]
  <2>1. r = [i \in 1 .. n |-> IF i = 1 THEN ss[i] ELSE r[i - 1] \o ss[i]]
    <3>1. ASSUME NEW i \in 1 .. n PROVE r[i] = IF i = 1 THEN ss[i] ELSE r[i - 1] \o ss[i]
      <4>1. i # 1 => i - 1 \in 1 .. n
        BY <1>0
      <4>2. r[i] = g[i] /\ (i # 1 => r[i - 1] = g[i - 1])
        BY <4>1
      <4>. HIDE DEF r
      <4>. QED  BY <4>2, <1>4
    <3>2. r = [i \in 1 .. n |-> r[i]]
      OBVIOUS
    <3>. HIDE DEF r
    <3>. QED  BY <3>1, <3>2, Zenon
  <2>. HIDE DEF r
  <2>2. CASE n = 0
    BY <2>2, <1>2, <1>0 DEF FlattenSeq, n
  <2>3. CASE n # 0
    <3>1. PICK f : f = [i \in 1 .. n |-> IF i = 1 THEN ss[i] ELSE f[i - 1] \o ss[i]]
                   /\ FlattenSeq(ss) = f[n]
      BY <2>1, <2>3 DEF FlattenSeq, n
    <3>2. \A i \in 0 .. n : i = 0 \/ f[i] = g[i]
      <4>. DEFINE T == {j \in 0 .. n : j = 0 \/ f[j] = g[j]}
      <4>1. 0 \in T
        BY <1>0
      <4>2. ASSUME NEW k \in 0 .. n - 1, k \in T PROVE k + 1 \in T
        <5>0. k + 1 \in 1 .. n /\ (k + 1) - 1 = k
          BY <1>0
        <5>1. f[k + 1] = IF k + 1 = 1 THEN ss[k + 1] ELSE f[(k + 1) - 1] \o ss[k + 1]
          BY <3>1, <5>0
        <5>2. g[k + 1] = IF k + 1 = 1 THEN ss[k + 1] ELSE g[(k + 1) - 1] \o ss[k + 1]
          BY <1>4, <5>0
        <5>. QED  BY <4>2, <5>0, <5>1, <5>2
      <4>3. \A i \in 0 .. n : i \in T
        <5>. HIDE DEF T
        <5>. QED  BY <1>0, <4>1, <4>2, Induction
      <4>. QED  BY <4>3
    <3>3. f[n] = g[n]
      BY <1>0, <2>3, <3>2
    <3>. QED  BY <3>1, <3>3
  <2>. QED  BY <2>2, <2>3
<1>. QED  BY <1>2, <1>3, <1>5 DEF n

-----------------------------------------------------------------------------
(* What is in a stream at some place.                                      *)

Words == {"char", "short", "int", "long", "float", "double", "string", "unread"}

Wire == [w : Words, v : Int]

Holds(in, p, s) == \A i \in DOMAIN s : p + i - 1 \in DOMAIN in /\ in[p + i - 1] = s[i]

LEMMA HoldsWhole == ASSUME NEW s PROVE s \in Seq(Wire) => Holds(s, 1, s)
<1>. QED  BY DEF Holds

LEMMA WireConcat ==
  ASSUME NEW s \in Seq(Wire), NEW t \in Seq(Wire)
  PROVE  s \o t \in Seq(Wire) /\ Len(s \o t) = Len(s) + Len(t)
<1>. QED  OBVIOUS

LEMMA WireAssociative ==
  ASSUME NEW s \in Seq(Wire), NEW t \in Seq(Wire), NEW u \in Seq(Wire) PROVE (s \o t) \o u = s \o (t \o u)
<1>. QED  BY ConcatAssociative

Associates(s, t, u) == (s \o t) \o u = s \o (t \o u)

LEMMA WireAssociates ==
  ASSUME NEW s \in Seq(Wire), NEW t \in Seq(Wire), NEW u \in Seq(Wire) PROVE Associates(s, t, u)
<1>. QED  BY WireAssociative DEF Associates

LEMMA HoldsSplit ==
  ASSUME NEW in, NEW p \in Nat, NEW s \in Seq(Wire), NEW t \in Seq(Wire), Holds(in, p, s \o t)
  PROVE  Holds(in, p, s) /\ Holds(in, p + Len(s), t)
<1>1. \A i \in 1 .. Len(s) : i \in DOMAIN (s \o t) /\ (s \o t)[i] = s[i]
  OBVIOUS
<1>2. \A i \in 1 .. Len(t) : Len(s) + i \in DOMAIN (s \o t) /\ (s \o t)[Len(s) + i] = t[i]
  OBVIOUS
<1>3. Holds(in, p, s)
  BY <1>1 DEF Holds
<1>4. ASSUME NEW i \in 1 .. Len(t) PROVE p + Len(s) + i - 1 \in DOMAIN in /\ in[p + Len(s) + i - 1] = t[i]
  <2>1. p + (Len(s) + i) - 1 \in DOMAIN in /\ in[p + (Len(s) + i) - 1] = t[i]
    BY <1>2 DEF Holds
  <2>2. p + (Len(s) + i) - 1 = p + Len(s) + i - 1
    OBVIOUS
  <2>. QED  BY <2>1, <2>2
<1>. QED  BY <1>3, <1>4 DEF Holds

LEMMA HoldsAt ==
  ASSUME NEW in, NEW p \in Nat, NEW s, NEW i \in DOMAIN s, NEW w, NEW v, Holds(in, p, s), s[i] = Item(w, v)
  PROVE  At(in, p + i - 1, w) = v
<1>. QED  BY DEF Holds, At, Item

LEMMA ItemsType ==
  ASSUME NEW w \in Words, NEW d \in Seq(Int)
  PROVE  Items(w, d) \in Seq(Wire) /\ Len(Items(w, d)) = Len(d)
<1>1. \A i \in 1 .. Len(d) : Item(w, d[i]) \in Wire
  BY DEF Item, Wire
<1>. QED  BY <1>1 DEF Items

Reads(in, p, w, d) == \A i \in 1 .. Len(d) : At(in, p + i - 1, w) = d[i]

LEMMA HoldsItems ==
  ASSUME NEW in, NEW p \in Nat, NEW w, NEW d \in Seq(Int), Holds(in, p, Items(w, d))
  PROVE  Reads(in, p, w, d)
<1>. SUFFICES ASSUME NEW i \in 1 .. Len(d) PROVE At(in, p + i - 1, w) = d[i]
  BY DEF Reads
<1>1. i \in DOMAIN Items(w, d) /\ Items(w, d)[i] = Item(w, d[i])
  BY DEF Items
<1>. HIDE DEF Items
<1>. QED  BY <1>1, HoldsAt, Zenon

LEMMA PlusAssociative == ASSUME NEW a \in Nat, NEW b \in Nat, NEW c \in Nat PROVE a + (b + c) = (a + b) + c
<1>. QED  OBVIOUS

LEMMA HoldsFlattened ==
  ASSUME NEW ss \in Seq(Seq(Wire)), NEW in, NEW p \in Nat, Holds(in, p, FlattenSeq(ss))
  PROVE  \E at \in [0 .. Len(ss) -> Nat] :
           /\ at[0] = p /\ at[Len(ss)] = p + Len(FlattenSeq(ss))
           /\ \A i \in 1 .. Len(ss) : at[i] = at[i - 1] + Len(ss[i]) /\ Holds(in, at[i - 1], ss[i])
<1>. DEFINE n == Len(ss)
<1>0. n \in Nat /\ \A i \in 1 .. n : ss[i] \in Seq(Wire)
  OBVIOUS
<1>1. PICK g \in [0 .. n -> Seq(Wire)] :
        g[0] = <<>> /\ g[n] = FlattenSeq(ss) /\ \A i \in 1 .. n : g[i] = g[i - 1] \o ss[i]
  BY Flattened, Zenon
<1>. HIDE DEF n
<1>2. ASSUME NEW i \in 1 .. n
      PROVE  i - 1 \in 0 .. n /\ g[i] \in Seq(Wire) /\ g[i - 1] \in Seq(Wire) /\ ss[i] \in Seq(Wire)
  BY <1>0
<1>3. \A k \in 0 .. n : k \in {j \in 0 .. n : Holds(in, p, g[n - j])}
  <2>. DEFINE T == {j \in 0 .. n : Holds(in, p, g[n - j])}
  <2>1. 0 \in T
    BY <1>0, <1>1
  <2>2. ASSUME NEW k \in 0 .. n - 1, k \in T PROVE k + 1 \in T
    <3>1. n - k \in 1 .. n /\ (n - k) - 1 = n - (k + 1) /\ k + 1 \in 0 .. n
      BY <1>0
    <3>2. Holds(in, p, g[(n - k) - 1] \o ss[n - k])
      BY <1>1, <2>2, <3>1
    <3>3. Holds(in, p, g[(n - k) - 1])
      BY <1>2, <3>1, <3>2, HoldsSplit
    <3>. QED  BY <3>1, <3>3
  <2>3. \A i \in 0 .. n : i \in T
    <3>. HIDE DEF T
    <3>. QED  BY <1>0, <2>1, <2>2, Induction
  <2>. QED  BY <2>3
<1>4. ASSUME NEW i \in 0 .. n PROVE Holds(in, p, g[i])
  <2>1. n - i \in 0 .. n /\ n - (n - i) = i
    BY <1>0
  <2>. QED  BY <1>3, <2>1
<1>. DEFINE at == [i \in 0 .. n |-> p + Len(g[i])]
<1>5. at \in [0 .. n -> Nat]
  <2>1. ASSUME NEW i \in 0 .. n PROVE p + Len(g[i]) \in Nat
    <3>1. Len(g[i]) \in Nat
      OBVIOUS
    <3>. QED  BY <3>1
  <2>. QED  BY <2>1, Zenon
<1>6. at[0] = p /\ at[n] = p + Len(FlattenSeq(ss))
  <2>1. 0 \in 0 .. n /\ n \in 0 .. n /\ p + 0 = p
    BY <1>0
  <2>2. Len(g[0]) = 0 /\ g[n] = FlattenSeq(ss)
    BY <1>1
  <2>3. at[0] = p + Len(g[0]) /\ at[n] = p + Len(g[n])
    BY <2>1, Zenon
  <2>. QED  BY <2>1, <2>2, <2>3, Zenon
<1>7. ASSUME NEW i \in 1 .. n PROVE at[i] = at[i - 1] + Len(ss[i]) /\ Holds(in, at[i - 1], ss[i])
  <2>0. g[i] = g[i - 1] \o ss[i]
    BY <1>1, Zenon
  <2>1. i \in 0 .. n
    BY <1>0
  <2>2. Holds(in, p, g[i - 1] \o ss[i])
    BY <1>4, <2>0, <2>1
  <2>3. Holds(in, p + Len(g[i - 1]), ss[i])
    BY <1>2, <2>2, HoldsSplit
  <2>4. Len(g[i]) = Len(g[i - 1]) + Len(ss[i]) /\ Len(g[i - 1]) \in Nat /\ Len(ss[i]) \in Nat
    BY <1>2, <2>0
  <2>5. at[i] = p + Len(g[i]) /\ at[i - 1] = p + Len(g[i - 1])
    BY <1>2, <2>1
  <2>. HIDE DEF at
  <2>6. p + (Len(g[i - 1]) + Len(ss[i])) = (p + Len(g[i - 1])) + Len(ss[i])
    BY <2>4, PlusAssociative, Zenon
  <2>. QED  BY <2>3, <2>4, <2>5, <2>6, Zenon
<1>8. \E f \in [0 .. n -> Nat] : f[0] = p /\ f[n] = p + Len(FlattenSeq(ss))
        /\ \A i \in 1 .. n : f[i] = f[i - 1] + Len(ss[i]) /\ Holds(in, f[i - 1], ss[i])
  <2>. HIDE DEF at
  <2>. QED  BY <1>5, <1>6, <1>7, Zenon
<1>. QED  BY <1>8, Zenon DEF n

-----------------------------------------------------------------------------
(* What the readers return, whatever they read.                            *)

Vecs == [t : Int, row : Int, clm : Int, data : Seq(Int), levels : Seq(Int)]

ReadVecs == [p : Nat, vec : Vecs]

LEMMA AtType == ASSUME NEW in \in Seq(Wire), NEW p, NEW w PROVE At(in, p, w) \in Int
<1>1. ASSUME p \in DOMAIN in PROVE in[p].v \in Int
  <2>1. in[p] \in Wire
    BY <1>1
  <2>. QED  BY <2>1 DEF Wire
<1>. QED  BY <1>1 DEF At, Bad

LEMMA SizeType == ASSUME NEW row \in Int, NEW clm \in Int PROVE Size(row, clm) \in Nat
<1>. QED  BY DEF Size

\* A function on the numbers up to n, as a sequence.
LEMMA AsSequence ==
  ASSUME NEW S, NEW n \in Nat, NEW f \in [1 .. n -> S] PROVE f \in Seq(S) /\ Len(f) = n /\ DOMAIN f = 1 .. n
<1>. QED  OBVIOUS

LEMMA VecType ==
  ASSUME NEW t \in Int, NEW row \in Int, NEW clm \in Int, NEW data \in Seq(Int), NEW levels \in Seq(Int)
  PROVE  Vec(t, row, clm, data, levels) \in Vecs
<1>. QED  BY DEF Vec, Vecs

LEMMA NothingType == ASSUME NEW t \in Int PROVE Nothing(t) \in Vecs
<1>. QED  BY DEF Nothing, Vec, Vecs

LEMMA CreateVectorType ==
  ASSUME NEW in \in Seq(Wire), NEW p \in Nat, NEW t \in Int PROVE CreateVector(in, p, t) \in ReadVecs
<1>. DEFINE row == At(in, p, "int")
            clm == At(in, p + 1, "int")
            n   == Size(row, clm)
<1>1. row \in Int /\ clm \in Int /\ n \in Nat
  BY AtType, SizeType, Zenon
<1>. HIDE DEF row, clm, n
<1>2. CASE t = DT_SYMBASE
  <2>. DEFINE k == Size(At(in, p + 2 + 1, "int"), 1)
              data   == [i \in 1 .. n |-> IF At(in, p + 2 + 1 + k + i, "int") < 0 THEN Bad
                                          ELSE At(in, p + 2 + 1 + k + i, "int") + 1]
              levels == [i \in 1 .. k |-> At(in, p + 2 + 1 + i, "string")]
  <2>1. k \in Nat
    <3>1. At(in, p + 2 + 1, "int") \in Int /\ 1 \in Int
      BY AtType
    <3>. QED  BY <3>1, SizeType, Zenon
  <2>2. CreateVector(in, p, t) =
          [p |-> (p + 2) + 2 + k + n, vec |-> Vec(DT_SYMBASE, row, clm, data, levels)]
    <3>1. CreateVector(in, p, t) = VectorSymbol(in, p + 2, row, clm)
      BY <1>2 DEF CreateVector, DT_SYMBASE, Plain, row, clm
    <3>2. VectorSymbol(in, p + 2, row, clm) =
            [p |-> (p + 2) + 2 + k + n, vec |-> Vec(DT_SYMBASE, row, clm, data, levels)]
      BY DEF VectorSymbol, n
    <3>. QED  BY <3>1, <3>2, Zenon
  <2>. HIDE DEF k
  <2>3. data \in [1 .. n -> Int]
    <3>1. ASSUME NEW i \in 1 .. n
          PROVE  (IF At(in, p + 2 + 1 + k + i, "int") < 0 THEN Bad
                  ELSE At(in, p + 2 + 1 + k + i, "int") + 1) \in Int
      <4>. DEFINE a == At(in, p + 2 + 1 + k + i, "int")
      <4>1. a \in Int
        BY AtType, Zenon
      <4>. HIDE DEF a
      <4>2. (IF a < 0 THEN Bad ELSE a + 1) \in Int
        BY <4>1 DEF Bad
      <4>. QED  BY <4>2 DEF a
    <3>. QED  BY <3>1, Zenon
  <2>4. levels \in [1 .. k -> Int]
    BY AtType, Zenon
  <2>5. data \in Seq(Int) /\ levels \in Seq(Int)
    BY <1>1, <2>1, <2>3, <2>4, AsSequence, Zenon
  <2>. HIDE DEF data, levels
  <2>6. DT_SYMBASE \in Int
    BY DEF DT_SYMBASE
  <2>7. Vec(DT_SYMBASE, row, clm, data, levels) \in Vecs
    BY <1>1, <2>5, <2>6, VecType, Zenon
  <2>8. (p + 2) + 2 + k + n \in Nat
    BY <1>1, <2>1
  <2>. QED  BY <2>2, <2>7, <2>8 DEF ReadVecs
<1>3. CASE t \in Plain /\ t # DT_SYMBASE
  <2>. DEFINE data == [i \in 1 .. n |-> At(in, p + 1 + i, Width[t])]
  <2>1. CreateVector(in, p, t) =
          [p |-> p + 2 + n, vec |-> Vec(t, row, clm, data, <<>>)]
    BY <1>3 DEF CreateVector, row, clm, n
  <2>2. data \in [1 .. n -> Int]
    BY AtType, Zenon
  <2>3. data \in Seq(Int)
    BY <1>1, <2>2, AsSequence, Zenon
  <2>. HIDE DEF data
  <2>4. Vec(t, row, clm, data, <<>>) \in Vecs
    <3>1. <<>> \in Seq(Int)
      OBVIOUS
    <3>. QED  BY <1>1, <2>3, <3>1, VecType, Zenon
  <2>. QED  BY <1>1, <2>1, <2>4 DEF ReadVecs
<1>4. CASE t \notin Plain /\ t # DT_SYMBASE
  <2>1. CreateVector(in, p, t) = [p |-> p, vec |-> Nothing(t)]
    BY <1>4 DEF CreateVector
  <2>. QED  BY <2>1, NothingType DEF ReadVecs
<1>. QED  BY <1>2, <1>3, <1>4

LEMMA FlaggedType ==
  ASSUME NEW in \in Seq(Wire), NEW p \in Nat PROVE FlaggedVector(in, p) \in ReadVecs
<1>1. At(in, p, "short") \in Int
  BY AtType, Zenon
<1>2. TypeOf(At(in, p, "short")) \in Int
  BY <1>1 DEF TypeOf
<1>3. p + 1 \in Nat
  OBVIOUS
<1>. QED  BY <1>2, <1>3, CreateVectorType, Zenon DEF FlaggedVector

Ents == [form : Int, type : Int, vec : Vecs, row : Vecs, clm : Vecs,
         names : Seq(Int), columns : Seq(Vecs), elems : {<<>>}]

LEMMA ObjectType == ASSUME NEW form \in Int, NEW t \in Int PROVE Object(form, t) \in Ents
<1>1. Nothing(t) \in Vecs /\ Nothing(DT_VOID) \in Vecs
  <2>1. DT_VOID \in Int
    BY DEF DT_VOID
  <2>. QED  BY <2>1, NothingType
<1>2. <<>> \in Seq(Int) /\ <<>> \in Seq(Vecs)
  OBVIOUS
<1>. QED  BY <1>1, <1>2 DEF Object, Ents

\* The entities of one vector, of a matrix and of a table.
Holding(form, t, vec)           == [Object(form, t) EXCEPT !.vec = vec]
MatrixEntity(t, mtx, row, clm)  == [Object(DF_MATRIX, t) EXCEPT !.vec = mtx, !.row = row, !.clm = clm]
TableEntity(t, names, columns)  == [Object(DF_TABLE, t) EXCEPT !.names = names, !.columns = columns]

LEMMA HoldingType ==
  ASSUME NEW form \in Int, NEW t \in Int, NEW vec \in Vecs
  PROVE  /\ Holding(form, t, vec) \in Ents
         /\ Holding(form, t, vec).form = form /\ Holding(form, t, vec).type = t
         /\ Holding(form, t, vec).vec = vec
<1>1. Object(form, t) \in Ents
  BY ObjectType
<1>2. Object(form, t).form = form /\ Object(form, t).type = t
  BY DEF Object
<1>. QED  BY <1>1, <1>2 DEF Holding, Ents

LEMMA MatrixEntityType ==
  ASSUME NEW t \in Int, NEW mtx \in Vecs, NEW row \in Vecs, NEW clm \in Vecs
  PROVE  LET e == MatrixEntity(t, mtx, row, clm)
         IN  e \in Ents /\ e.form = DF_MATRIX /\ e.type = t /\ e.vec = mtx /\ e.row = row /\ e.clm = clm
<1>1. Object(DF_MATRIX, t) \in Ents
  BY ObjectType DEF DF_MATRIX
<1>2. Object(DF_MATRIX, t).form = DF_MATRIX /\ Object(DF_MATRIX, t).type = t
  BY DEF Object
<1>. QED  BY <1>1, <1>2 DEF MatrixEntity, Ents

LEMMA TableEntityType ==
  ASSUME NEW t \in Int, NEW names \in Seq(Int), NEW columns \in Seq(Vecs)
  PROVE  LET e == TableEntity(t, names, columns)
         IN  e \in Ents /\ e.form = DF_TABLE /\ e.type = t /\ e.names = names /\ e.columns = columns
<1>1. Object(DF_TABLE, t) \in Ents
  BY ObjectType DEF DF_TABLE
<1>2. Object(DF_TABLE, t).form = DF_TABLE /\ Object(DF_TABLE, t).type = t
  BY DEF Object
<1>. QED  BY <1>1, <1>2 DEF TableEntity, Ents

LEMMA MatrixxType ==
  ASSUME NEW in \in Seq(Wire), NEW p \in Nat
  PROVE  LET m == Matrixx(in, p) IN m.p \in Nat /\ m.row \in Vecs /\ m.clm \in Vecs /\ m.mtx \in Vecs
<1>. DEFINE has == At(in, p, "char")
            lable(q, bit) == IF (has \div bit) % 2 = 1 THEN FlaggedVector(in, q)
                             ELSE [p |-> q, vec |-> Nothing(DT_VOID)]
            row == lable(p + 1, 1)
            clm == lable(row.p, 2)
            mtx == FlaggedVector(in, clm.p)
<1>1. ASSUME NEW q \in Nat, NEW bit PROVE lable(q, bit) \in ReadVecs
  <2>1. FlaggedVector(in, q) \in ReadVecs
    BY FlaggedType
  <2>2. [p |-> q, vec |-> Nothing(DT_VOID)] \in ReadVecs
    BY NothingType DEF ReadVecs, DT_VOID
  <2>. QED  BY <2>1, <2>2, Zenon
<1>2. row \in ReadVecs
  <2>1. p + 1 \in Nat
    OBVIOUS
  <2>. HIDE DEF lable
  <2>. QED  BY <1>1, <2>1, Zenon
<1>3. row.p \in Nat /\ row.vec \in Vecs
  <2>. HIDE DEF row
  <2>. QED  BY <1>2 DEF ReadVecs
<1>4. clm \in ReadVecs
  <2>. HIDE DEF lable, row
  <2>. QED  BY <1>1, <1>3, Zenon
<1>5. clm.p \in Nat /\ clm.vec \in Vecs
  <2>. HIDE DEF clm
  <2>. QED  BY <1>4 DEF ReadVecs
<1>6. mtx \in ReadVecs
  <2>. HIDE DEF clm
  <2>. QED  BY <1>5, FlaggedType, Zenon
<1>7. mtx.p \in Nat /\ mtx.vec \in Vecs
  <2>. HIDE DEF mtx
  <2>. QED  BY <1>6 DEF ReadVecs
<1>8. Matrixx(in, p) = [p |-> mtx.p, row |-> row.vec, clm |-> clm.vec, mtx |-> mtx.vec]
  BY Zenon DEF Matrixx
<1>. HIDE DEF row, clm, mtx
<1>. QED  BY <1>3, <1>5, <1>7, <1>8

ReadColumns == [p : Nat, columns : Seq(Vecs)]

LEMMA NextColumnType ==
  ASSUME NEW in \in Seq(Wire), NEW read \in ReadColumns PROVE NextColumn(in, read) \in ReadColumns
<1>1. read.p \in Nat /\ read.columns \in Seq(Vecs)
  BY DEF ReadColumns
<1>2. FlaggedVector(in, read.p) \in ReadVecs
  BY <1>1, FlaggedType
<1>3. FlaggedVector(in, read.p).p \in Nat /\ FlaggedVector(in, read.p).vec \in Vecs
  BY <1>2 DEF ReadVecs
<1>4. Append(read.columns, FlaggedVector(in, read.p).vec) \in Seq(Vecs)
  BY <1>1, <1>3
<1>. QED  BY <1>3, <1>4 DEF NextColumn, ReadColumns

\* What the loop of Tablee has after each column; it keeps the columns it has.
LEMMA TableeReads ==
  ASSUME NEW in \in Seq(Wire), NEW p \in Nat
  PROVE  LET n == Size(At(in, p + 1, "int"), 1)
         IN  \E f \in [0 .. n -> ReadColumns] :
               /\ f[0] = [p |-> p + 3 + n, columns |-> <<>>]
               /\ \A i \in 1 .. n : f[i] = NextColumn(in, f[i - 1])
               /\ Tablee(in, p) = [p |-> f[n].p, columns |-> f[n].columns,
                                   names |-> [i \in 1 .. n |-> At(in, p + 2 + i, "string")]]
<1>. DEFINE n == Size(At(in, p + 1, "int"), 1)
            a == [p |-> p + 3 + n, columns |-> <<>>]
            h == [x \in (1 .. n) \X ReadColumns |-> NextColumn(in, x[2])]
            names == [i \in 1 .. n |-> At(in, p + 2 + i, "string")]
            Is(f) == f = [i \in 0 .. n |-> IF i = 0 THEN a ELSE NextColumn(in, f[i - 1])]
            read == CHOOSE f : Is(f)
<1>1. n \in Nat
  <2>1. At(in, p + 1, "int") \in Int /\ 1 \in Int
    BY AtType
  <2>. QED  BY <2>1, SizeType, Zenon
<1>2. Tablee(in, p) = [p |-> read[n].p, columns |-> read[n].columns, names |-> names]
  BY Zenon DEF Tablee
<1>. HIDE DEF n
<1>3. a \in ReadColumns
  BY <1>1 DEF ReadColumns
<1>4. h \in [(1 .. n) \X ReadColumns -> ReadColumns]
  BY NextColumnType
<1>. HIDE DEF a
<1>5. PICK f \in [0 .. n -> ReadColumns] : f[0] = a /\ \A i \in 1 .. n : f[i] = h[<<i, f[i - 1]>>]
  <2>. HIDE DEF h
  <2>1. Recurs(n, ReadColumns, a, h)
    BY <1>1, <1>3, <1>4, Recursion, Zenon
  <2>. QED  BY <2>1, Zenon DEF Recurs
<1>6. ASSUME NEW i \in 1 .. n PROVE f[i] = NextColumn(in, f[i - 1])
  <2>1. i - 1 \in 0 .. n
    BY <1>1
  <2>2. <<i, f[i - 1]>> \in (1 .. n) \X ReadColumns
    BY <2>1
  <2>. QED  BY <1>5, <2>2
<1>7. Is(f)
  <2>1. ASSUME NEW i \in 0 .. n PROVE f[i] = IF i = 0 THEN a ELSE NextColumn(in, f[i - 1])
    <3>1. i # 0 => i \in 1 .. n
      BY <1>1
    <3>. QED  BY <1>5, <1>6, <3>1, Zenon
  <2>. QED  BY <2>1, Zenon
<1>8. Is(read)
  <2>. HIDE DEF Is
  <2>. QED  BY <1>7, Zenon
<1>9. read[0] = a /\ \A i \in 1 .. n : read[i] = NextColumn(in, read[i - 1])
  <2>. HIDE DEF read
  <2>. QED  BY <1>1, <1>8
<1>10. \A i \in 0 .. n : i \in {j \in 0 .. n : read[j] = f[j]}
  <2>. DEFINE T == {j \in 0 .. n : read[j] = f[j]}
  <2>. HIDE DEF read
  <2>1. 0 \in T
    BY <1>1, <1>5, <1>9
  <2>2. ASSUME NEW k \in 0 .. n - 1, k \in T PROVE k + 1 \in T
    <3>1. k + 1 \in 1 .. n /\ (k + 1) - 1 = k /\ k + 1 \in 0 .. n
      BY <1>1
    <3>2. read[k + 1] = NextColumn(in, read[(k + 1) - 1]) /\ f[k + 1] = NextColumn(in, f[(k + 1) - 1])
      BY <1>6, <1>9, <3>1, Zenon
    <3>. QED  BY <2>2, <3>1, <3>2
  <2>3. \A i \in 0 .. n : i \in T
    <3>. HIDE DEF T
    <3>. QED  BY <1>1, <2>1, <2>2, Induction
  <2>. QED  BY <2>3
<1>11. read[n] = f[n]
  <2>1. n \in 0 .. n
    BY <1>1
  <2>. HIDE DEF read
  <2>. QED  BY <1>10, <2>1
<1>12. \E g \in [0 .. n -> ReadColumns] :
         /\ g[0] = a /\ \A i \in 1 .. n : g[i] = NextColumn(in, g[i - 1])
         /\ Tablee(in, p) = [p |-> g[n].p, columns |-> g[n].columns, names |-> names]
  <2>. HIDE DEF read, names
  <2>. QED  BY <1>2, <1>5, <1>6, <1>11, Zenon
<1>. QED  BY <1>12, Zenon DEF n, a

LEMMA TableeType ==
  ASSUME NEW in \in Seq(Wire), NEW p \in Nat
  PROVE  LET t == Tablee(in, p) IN t.p \in Nat /\ t.columns \in Seq(Vecs) /\ t.names \in Seq(Int)
<1>. DEFINE n == Size(At(in, p + 1, "int"), 1)
            names == [i \in 1 .. n |-> At(in, p + 2 + i, "string")]
<1>1. n \in Nat
  <2>1. At(in, p + 1, "int") \in Int /\ 1 \in Int
    BY AtType
  <2>. QED  BY <2>1, SizeType, Zenon
<1>2. PICK f \in [0 .. n -> ReadColumns] :
        Tablee(in, p) = [p |-> f[n].p, columns |-> f[n].columns, names |-> names]
  BY TableeReads, Zenon
<1>. HIDE DEF n
<1>3. names \in [1 .. n -> Int]
  BY AtType, Zenon
<1>4. names \in Seq(Int)
  BY <1>1, <1>3, AsSequence, Zenon
<1>. HIDE DEF names
<1>5. f[n] \in ReadColumns
  BY <1>1
<1>. QED  BY <1>2, <1>4, <1>5 DEF ReadColumns

IsMatrix(e, t, mtx, row, clm) ==
  e \in Ents /\ e.form = DF_MATRIX /\ e.type = t /\ e.vec = mtx /\ e.row = row /\ e.clm = clm

LEMMA MatrixEntityIs ==
  ASSUME NEW t \in Int, NEW mtx \in Vecs, NEW row \in Vecs, NEW clm \in Vecs
  PROVE  IsMatrix(MatrixEntity(t, mtx, row, clm), t, mtx, row, clm)
<1>. QED  BY MatrixEntityType DEF IsMatrix

ReadEnts == [p : Nat, e : Ents]

\* An Entity, by its form.
LEMMA EntityCases ==
  ASSUME NEW in, NEW p, NEW form, NEW t
  PROVE  /\ form = DF_SCALAR => Entity(in, p, form, t) =
              [p |-> CreateScalar(in, p, t).p, e |-> Holding(form, t, CreateScalar(in, p, t).vec)]
         /\ form \in {DF_VECTOR, DF_PAIR} => Entity(in, p, form, t) =
              [p |-> CreateVector(in, p, t).p, e |-> Holding(form, t, CreateVector(in, p, t).vec)]
         /\ form = DF_SET => Entity(in, p, form, t) =
              [p |-> FlaggedVector(in, p).p, e |-> Holding(form, t, FlaggedVector(in, p).vec)]
         /\ form = DF_MATRIX => Entity(in, p, form, t) =
              [p |-> Matrixx(in, p).p,
               e |-> MatrixEntity(t, Matrixx(in, p).mtx, Matrixx(in, p).row, Matrixx(in, p).clm)]
         /\ form = DF_TABLE => Entity(in, p, form, t) =
              [p |-> Tablee(in, p).p, e |-> TableEntity(t, Tablee(in, p).names, Tablee(in, p).columns)]
         /\ form \notin {DF_SCALAR, DF_VECTOR, DF_PAIR, DF_SET, DF_MATRIX, DF_TABLE} =>
              Entity(in, p, form, t) = [p |-> p, e |-> Object(form, t)]
<1>. USE DEF DF_SCALAR, DF_VECTOR, DF_PAIR, DF_SET, DF_MATRIX, DF_TABLE
<1>1. CASE form = 0
  BY <1>1 DEF Entity, Holding
<1>2. CASE form \in {1, 2}
  BY <1>2 DEF Entity, Holding
<1>3. CASE form = 4
  BY <1>3 DEF Entity, Holding
<1>4. CASE form = 3
  BY <1>4 DEF Entity, MatrixEntity
<1>5. CASE form = 6
  BY <1>5 DEF Entity, TableEntity
<1>6. CASE form \notin {0, 1, 2, 3, 4, 6}
  BY <1>6 DEF Entity
<1>. QED  BY <1>1, <1>2, <1>3, <1>4, <1>5, <1>6

LEMMA CreateScalarType ==
  ASSUME NEW in \in Seq(Wire), NEW p \in Nat, NEW t \in Int PROVE CreateScalar(in, p, t) \in ReadVecs
<1>1. CASE t \in Plain
  <2>1. CreateScalar(in, p, t) = [p |-> p + 1, vec |-> Vec(t, 0, 0, <<At(in, p, Width[t])>>, <<>>)]
    BY <1>1 DEF CreateScalar, Plain, DT_VOID
  <2>2. At(in, p, Width[t]) \in Int
    BY AtType, Zenon
  <2>3. <<At(in, p, Width[t])>> \in Seq(Int) /\ <<>> \in Seq(Int) /\ 0 \in Int
    BY <2>2
  <2>4. Vec(t, 0, 0, <<At(in, p, Width[t])>>, <<>>) \in Vecs
    BY <2>3, VecType, Zenon
  <2>. QED  BY <2>1, <2>4 DEF ReadVecs
<1>2. CASE t \notin Plain
  BY <1>2, NothingType DEF CreateScalar, ReadVecs
<1>. QED  BY <1>1, <1>2

LEMMA EntityType ==
  ASSUME NEW in \in Seq(Wire), NEW p \in Nat, NEW form \in Int, NEW t \in Int
  PROVE  Entity(in, p, form, t) \in ReadEnts
<1>1. ASSUME NEW read \in ReadVecs PROVE [p |-> read.p, e |-> Holding(form, t, read.vec)] \in ReadEnts
  <2>1. read.p \in Nat /\ read.vec \in Vecs
    BY DEF ReadVecs
  <2>. QED  BY <2>1, HoldingType DEF ReadEnts
<1>2. CreateScalar(in, p, t) \in ReadVecs /\ CreateVector(in, p, t) \in ReadVecs /\ FlaggedVector(in, p) \in ReadVecs
  BY CreateScalarType, CreateVectorType, FlaggedType
<1>3. CASE form = DF_MATRIX
  <2>1. MatrixEntity(t, Matrixx(in, p).mtx, Matrixx(in, p).row, Matrixx(in, p).clm) \in Ents
    BY MatrixxType, MatrixEntityType
  <2>. QED  BY <1>3, <2>1, MatrixxType, EntityCases DEF ReadEnts
<1>4. CASE form = DF_TABLE
  <2>1. TableEntity(t, Tablee(in, p).names, Tablee(in, p).columns) \in Ents
    BY TableeType, TableEntityType
  <2>. QED  BY <1>4, <2>1, TableeType, EntityCases DEF ReadEnts
<1>5. CASE form \in {DF_SCALAR, DF_VECTOR, DF_PAIR, DF_SET}
  BY <1>1, <1>2, <1>5, EntityCases
<1>6. CASE form \notin {DF_SCALAR, DF_VECTOR, DF_PAIR, DF_SET, DF_MATRIX, DF_TABLE}
  <2>1. Object(form, t) \in Ents
    BY ObjectType
  <2>. QED  BY <1>6, <2>1, EntityCases DEF ReadEnts
<1>. QED  BY <1>3, <1>4, <1>5, <1>6, Zenon

ReadElems == [p : Nat, elems : Seq(Ents)]

LEMMA NextElementType ==
  ASSUME NEW in \in Seq(Wire), NEW read \in ReadElems PROVE NextElement(in, read) \in ReadElems
<1>. DEFINE flag == At(in, read.p, "short")
            element == Entity(in, read.p + 1, FormOf(flag), TypeOf(flag))
<1>1. read.p \in Nat /\ read.p + 1 \in Nat /\ read.elems \in Seq(Ents)
  BY DEF ReadElems
<1>2. flag \in Int
  BY AtType, Zenon
<1>3. FormOf(flag) \in Int /\ TypeOf(flag) \in Int
  <2>. HIDE DEF flag
  <2>. QED  BY <1>2 DEF FormOf, TypeOf
<1>4. element \in ReadEnts
  <2>. HIDE DEF flag
  <2>. QED  BY <1>1, <1>3, EntityType, Zenon
<1>5. NextElement(in, read) = [p |-> element.p, elems |-> Append(read.elems, element.e)]
  BY Zenon DEF NextElement
<1>. HIDE DEF element
<1>6. element.p \in Nat /\ element.e \in Ents
  BY <1>4 DEF ReadEnts
<1>7. Append(read.elems, element.e) \in Seq(Ents)
  BY <1>1, <1>6
<1>. QED  BY <1>5, <1>6, <1>7 DEF ReadElems

ListEntity(elems) == [Object(DF_VECTOR, DT_ANY) EXCEPT !.elems = elems]

\* What the loop of AnyVectorr has after each element.
LEMMA AnyVectorReads ==
  ASSUME NEW in \in Seq(Wire), NEW p \in Nat
  PROVE  LET n == Size(At(in, p, "int"), At(in, p + 1, "int"))
         IN  \E f \in [0 .. n -> ReadElems] :
               /\ f[0] = [p |-> p + 2, elems |-> <<>>]
               /\ \A i \in 1 .. n : f[i] = NextElement(in, f[i - 1])
               /\ AnyVector(in, p) = [p |-> f[n].p, e |-> ListEntity(f[n].elems)]
<1>. DEFINE n == Size(At(in, p, "int"), At(in, p + 1, "int"))
            a == [p |-> p + 2, elems |-> <<>>]
            h == [x \in (1 .. n) \X ReadElems |-> NextElement(in, x[2])]
            Is(f) == f = [i \in 0 .. n |-> IF i = 0 THEN a ELSE NextElement(in, f[i - 1])]
            read == CHOOSE f : Is(f)
<1>1. n \in Nat
  <2>1. At(in, p, "int") \in Int /\ At(in, p + 1, "int") \in Int
    BY AtType, Zenon
  <2>. QED  BY <2>1, SizeType, Zenon
<1>2. AnyVector(in, p) = [p |-> read[n].p, e |-> ListEntity(read[n].elems)]
  BY Zenon DEF AnyVector, ListEntity
<1>. HIDE DEF n
<1>3. a \in ReadElems
  BY <1>1 DEF ReadElems
<1>4. h \in [(1 .. n) \X ReadElems -> ReadElems]
  BY NextElementType
<1>. HIDE DEF a
<1>5. PICK f \in [0 .. n -> ReadElems] : f[0] = a /\ \A i \in 1 .. n : f[i] = h[<<i, f[i - 1]>>]
  <2>. HIDE DEF h
  <2>1. Recurs(n, ReadElems, a, h)
    BY <1>1, <1>3, <1>4, Recursion, Zenon
  <2>. QED  BY <2>1, Zenon DEF Recurs
<1>6. ASSUME NEW i \in 1 .. n PROVE f[i] = NextElement(in, f[i - 1])
  <2>1. i - 1 \in 0 .. n
    BY <1>1
  <2>2. <<i, f[i - 1]>> \in (1 .. n) \X ReadElems
    BY <2>1
  <2>. QED  BY <1>5, <2>2
<1>7. Is(f)
  <2>1. ASSUME NEW i \in 0 .. n PROVE f[i] = IF i = 0 THEN a ELSE NextElement(in, f[i - 1])
    <3>1. i # 0 => i \in 1 .. n
      BY <1>1
    <3>. QED  BY <1>5, <1>6, <3>1, Zenon
  <2>. QED  BY <2>1, Zenon
<1>8. Is(read)
  <2>. HIDE DEF Is
  <2>. QED  BY <1>7, Zenon
<1>9. read[0] = a /\ \A i \in 1 .. n : read[i] = NextElement(in, read[i - 1])
  <2>. HIDE DEF read
  <2>. QED  BY <1>1, <1>8
<1>10. \A i \in 0 .. n : i \in {j \in 0 .. n : read[j] = f[j]}
  <2>. DEFINE T == {j \in 0 .. n : read[j] = f[j]}
  <2>. HIDE DEF read
  <2>1. 0 \in T
    BY <1>1, <1>5, <1>9
  <2>2. ASSUME NEW k \in 0 .. n - 1, k \in T PROVE k + 1 \in T
    <3>1. k + 1 \in 1 .. n /\ (k + 1) - 1 = k /\ k + 1 \in 0 .. n
      BY <1>1
    <3>2. read[k + 1] = NextElement(in, read[(k + 1) - 1]) /\ f[k + 1] = NextElement(in, f[(k + 1) - 1])
      BY <1>6, <1>9, <3>1, Zenon
    <3>. QED  BY <2>2, <3>1, <3>2
  <2>3. \A i \in 0 .. n : i \in T
    <3>. HIDE DEF T
    <3>. QED  BY <1>1, <2>1, <2>2, Induction
  <2>. QED  BY <2>3
<1>11. read[n] = f[n]
  <2>1. n \in 0 .. n
    BY <1>1
  <2>. HIDE DEF read
  <2>. QED  BY <1>10, <2>1
<1>12. \E g \in [0 .. n -> ReadElems] :
         /\ g[0] = a /\ \A i \in 1 .. n : g[i] = NextElement(in, g[i - 1])
         /\ AnyVector(in, p) = [p |-> g[n].p, e |-> ListEntity(g[n].elems)]
  <2>. HIDE DEF read
  <2>. QED  BY <1>2, <1>5, <1>6, <1>11, Zenon
<1>. QED  BY <1>12, Zenon DEF n, a

-----------------------------------------------------------------------------
(* What a written vector is read as, wherever it is in a stream.           *)

Carries(s, vec) ==
  /\ s \in Seq(Wire) /\ vec \in Vecs
  /\ \A in \in Seq(Wire), p \in Nat :
       Holds(in, p, s) => FlaggedVector(in, p) = [p |-> p + Len(s), vec |-> vec]

LEMMA FlagRead ==
  ASSUME NEW f \in 0 .. 6, NEW t \in 0 .. 255, NEW v, v = f * 256 + t PROVE FormOf(v) = f /\ TypeOf(v) = t
<1>. QED  BY DEF FormOf, TypeOf

LEMMA ItemType == ASSUME NEW w \in Words, NEW v \in Int PROVE Item(w, v) \in Wire
<1>. QED  BY DEF Item, Wire

LEMMA FlagType == ASSUME NEW f \in 0 .. 6, NEW t \in 0 .. 255 PROVE Flag(f, t) \in Wire
<1>1. "short" \in Words /\ f * 256 + t \in Int
  BY DEF Words
<1>. QED  BY <1>1, ItemType DEF Flag

LEMMA WidthType == ASSUME NEW t \in Plain PROVE Width[t] \in Words
<1>. QED  BY DEF Width, Plain, Words

LEMMA HoldsFlag ==
  ASSUME NEW in, NEW p \in Nat, NEW f \in 0 .. 6, NEW t \in 0 .. 255, NEW r \in Seq(Wire),
         Holds(in, p, <<Flag(f, t)>> \o r)
  PROVE  /\ FormOf(At(in, p, "short")) = f /\ TypeOf(At(in, p, "short")) = t
         /\ Holds(in, p + 1, r)
<1>0. Flag(f, t) \in Wire
  BY FlagType, Zenon
<1>1. <<Flag(f, t)>> \in Seq(Wire) /\ Len(<<Flag(f, t)>>) = 1
  BY <1>0
<1>2. Holds(in, p, <<Flag(f, t)>>) /\ Holds(in, p + 1, r)
  BY <1>1, HoldsSplit
<1>3. At(in, p, "short") = f * 256 + t
  BY <1>2 DEF Holds, At, Flag, Item
<1>. QED  BY <1>2, <1>3, FlagRead, Zenon

LEMMA HoldsInt ==
  ASSUME NEW in, NEW p \in Nat, NEW w \in Words, NEW v \in Int, NEW r \in Seq(Wire),
         Holds(in, p, <<Item(w, v)>> \o r)
  PROVE  At(in, p, w) = v /\ Holds(in, p + 1, r)
<1>1. <<Item(w, v)>> \in Seq(Wire) /\ Len(<<Item(w, v)>>) = 1
  BY ItemType
<1>2. Holds(in, p, <<Item(w, v)>>) /\ Holds(in, p + 1, r)
  BY <1>1, HoldsSplit
<1>3. At(in, p, w) = v
  BY <1>2 DEF Holds, At, Item
<1>. QED  BY <1>2, <1>3

\* The flag and the dimensions of a vector or matrix.
Header(f, t, row, clm) == <<Flag(f, t), Item("int", row), Item("int", clm)>>

LEMMA HeaderType ==
  ASSUME NEW f \in 0 .. 6, NEW t \in 0 .. 255, NEW row \in Int, NEW clm \in Int
  PROVE  Header(f, t, row, clm) \in Seq(Wire) /\ Len(Header(f, t, row, clm)) = 3
<1>1. Item("int", row) \in Wire /\ Item("int", clm) \in Wire /\ Flag(f, t) \in Wire
  BY ItemType, FlagType DEF Words
<1>. QED  BY <1>1 DEF Header

ReadsHeader(in, p, f, t, row, clm, r) ==
  /\ FormOf(At(in, p, "short")) = f /\ TypeOf(At(in, p, "short")) = t
  /\ At(in, p + 1, "int") = row /\ At(in, p + 2, "int") = clm
  /\ Holds(in, p + 3, r)

LEMMA HoldsHeader ==
  ASSUME NEW in, NEW p \in Nat, NEW f \in 0 .. 6, NEW t \in 0 .. 255, NEW row \in Int, NEW clm \in Int,
         NEW r \in Seq(Wire), Holds(in, p, Header(f, t, row, clm) \o r)
  PROVE  ReadsHeader(in, p, f, t, row, clm, r)
<1>1. Holds(in, p, Header(f, t, row, clm)) /\ Holds(in, p + 3, r)
  BY HeaderType, HoldsSplit
<1>2. /\ p \in DOMAIN in /\ in[p] = Flag(f, t)
      /\ p + 1 \in DOMAIN in /\ in[p + 1] = Item("int", row)
      /\ p + 2 \in DOMAIN in /\ in[p + 2] = Item("int", clm)
  <2>. DEFINE s == Header(f, t, row, clm)
  <2>1. DOMAIN s = 1 .. 3 /\ s[1] = Flag(f, t) /\ s[2] = Item("int", row) /\ s[3] = Item("int", clm)
    BY DEF Header
  <2>. HIDE DEF s
  <2>2. Holds(in, p, s)
    BY <1>1 DEF s
  <2>3. /\ p + 1 - 1 \in DOMAIN in /\ in[p + 1 - 1] = s[1]
        /\ p + 2 - 1 \in DOMAIN in /\ in[p + 2 - 1] = s[2]
        /\ p + 3 - 1 \in DOMAIN in /\ in[p + 3 - 1] = s[3]
    BY <2>1, <2>2 DEF Holds
  <2>4. p + 1 - 1 = p /\ p + 2 - 1 = p + 1 /\ p + 3 - 1 = p + 2
    OBVIOUS
  <2>. QED  BY <2>1, <2>3, <2>4
<1>3. At(in, p, "short") = f * 256 + t /\ At(in, p + 1, "int") = row /\ At(in, p + 2, "int") = clm
  BY <1>2 DEF At, Flag, Item
<1>. QED  BY <1>1, <1>3, FlagRead, Zenon DEF ReadsHeader

LEMMA SizeOf == ASSUME NEW row \in Nat, NEW clm \in Nat PROVE Size(row, clm) = row * clm
<1>1. row * clm \in Nat
  OBVIOUS
<1>. QED  BY <1>1 DEF Size

LEMMA SizeOne == ASSUME NEW n \in Nat PROVE Size(n, 1) = n
<1>. QED  BY DEF Size

LEMMA PlainCarries ==
  ASSUME NEW f \in 0 .. 6, NEW t \in Plain, NEW row \in Nat, NEW clm \in Nat, NEW d \in Seq(Int),
         Len(d) = row * clm
  PROVE  Carries(Header(f, t, row, clm) \o Items(Width[t], d), Vec(t, row, clm, d, <<>>))
<1>. DEFINE r == Items(Width[t], d)
            s == Header(f, t, row, clm) \o r
<1>1. t \in 0 .. 255 /\ row \in Int /\ clm \in Int /\ t \in Int /\ t # DT_SYMBASE
  BY DEF Plain, DT_SYMBASE
<1>2. r \in Seq(Wire) /\ Len(r) = Len(d)
  BY WidthType, ItemsType, Zenon
<1>3. Header(f, t, row, clm) \in Seq(Wire) /\ Len(Header(f, t, row, clm)) = 3
  BY <1>1, HeaderType, Zenon
<1>4. s \in Seq(Wire) /\ Len(s) = 3 + Len(d)
  <2>. HIDE DEF r
  <2>. QED  BY <1>2, <1>3, WireConcat, Zenon
<1>5. Vec(t, row, clm, d, <<>>) \in Vecs
  <2>1. <<>> \in Seq(Int)
    OBVIOUS
  <2>. QED  BY <1>1, <2>1, VecType, Zenon
<1>6. Size(row, clm) = Len(d)
  BY SizeOf, Zenon
<1>7. ASSUME NEW in \in Seq(Wire), NEW p \in Nat, Holds(in, p, s)
      PROVE  FlaggedVector(in, p) = [p |-> p + (3 + Len(d)), vec |-> Vec(t, row, clm, d, <<>>)]
  <2>1. /\ TypeOf(At(in, p, "short")) = t /\ At(in, p + 1, "int") = row /\ At(in, p + 2, "int") = clm
        /\ Holds(in, p + 3, r)
    <3>. HIDE DEF r
    <3>1. ReadsHeader(in, p, f, t, row, clm, r)
      BY <1>1, <1>2, <1>7, HoldsHeader, Zenon DEF s
    <3>. QED  BY <3>1, Zenon DEF ReadsHeader
  <2>2. \A i \in 1 .. Len(d) : At(in, (p + 1) + 1 + i, Width[t]) = d[i]
    <3>1. \A i \in 1 .. Len(d) : At(in, (p + 3) + i - 1, Width[t]) = d[i]
      <4>1. p + 3 \in Nat
        OBVIOUS
      <4>2. Reads(in, p + 3, Width[t], d)
        BY <2>1, <4>1, HoldsItems, Zenon
      <4>. QED  BY <4>2, Zenon DEF Reads
    <3>2. \A i \in 1 .. Len(d) : (p + 3) + i - 1 = (p + 1) + 1 + i
      OBVIOUS
    <3>. QED  BY <3>1, <3>2, Zenon
  <2>. DEFINE data == [i \in 1 .. Len(d) |-> At(in, (p + 1) + 1 + i, Width[t])]
  <2>3. data = d
    <3>1. data = [i \in 1 .. Len(d) |-> d[i]]
      BY <2>2, Zenon
    <3>. HIDE DEF data
    <3>. QED  BY <3>1
  <2>4. CreateVector(in, p + 1, t) = [p |-> (p + 1) + 2 + Len(d), vec |-> Vec(t, row, clm, data, <<>>)]
    <3>1. (p + 1) + 1 = p + 2
      OBVIOUS
    <3>. QED  BY <1>1, <1>6, <2>1, <3>1 DEF CreateVector
  <2>5. (p + 1) + 2 + Len(d) = p + (3 + Len(d))
    OBVIOUS
  <2>. HIDE DEF data
  <2>. QED  BY <2>1, <2>3, <2>4, <2>5, Zenon DEF FlaggedVector
<1>. HIDE DEF s
<1>8. Carries(s, Vec(t, row, clm, d, <<>>))
  BY <1>4, <1>5, <1>7 DEF Carries
<1>. QED  BY <1>8 DEF s

\* Codes, as VectorSymbol counts them.
Shifted(codes) == [i \in DOMAIN codes |-> IF codes[i] < 0 THEN Bad ELSE codes[i] + 1]

LEMMA ShiftedType ==
  ASSUME NEW codes \in Seq(Int)
  PROVE  Shifted(codes) \in Seq(Int) /\ Len(Shifted(codes)) = Len(codes)
<1>1. \A i \in 1 .. Len(codes) : (IF codes[i] < 0 THEN Bad ELSE codes[i] + 1) \in Int
  BY DEF Bad
<1>2. Shifted(codes) \in [1 .. Len(codes) -> Int] /\ Len(codes) \in Nat
  BY <1>1 DEF Shifted
<1>. QED  BY <1>2, AsSequence, Zenon

\* The base of symbols and their codes, behind the dimensions.
Symbols(base, codes) ==
  (<<Item("int", 0), Item("int", Len(base))>> \o Items("string", base)) \o Items("int", codes)

LEMMA SymbolsType ==
  ASSUME NEW base \in Seq(Int), NEW codes \in Seq(Int)
  PROVE  /\ Symbols(base, codes) \in Seq(Wire)
         /\ Len(Symbols(base, codes)) = 2 + Len(base) + Len(codes)
<1>1. Items("string", base) \in Seq(Wire) /\ Len(Items("string", base)) = Len(base)
  BY ItemsType DEF Words
<1>2. Items("int", codes) \in Seq(Wire) /\ Len(Items("int", codes)) = Len(codes)
  BY ItemsType DEF Words
<1>3. <<Item("int", 0), Item("int", Len(base))>> \in Seq(Wire)
  <2>1. Item("int", 0) \in Wire /\ Item("int", Len(base)) \in Wire
    BY ItemType DEF Words
  <2>. QED  BY <2>1
<1>. DEFINE h == <<Item("int", 0), Item("int", Len(base))>>
<1>4. Len(h) = 2
  OBVIOUS
<1>. HIDE DEF h
<1>5. /\ h \o Items("string", base) \in Seq(Wire)
      /\ Len(h \o Items("string", base)) = 2 + Len(base)
  BY <1>1, <1>3, <1>4, WireConcat DEF h
<1>. QED  BY <1>2, <1>5, WireConcat, Zenon DEF Symbols, h

ReadsSymbols(in, p, base, codes) ==
  /\ At(in, p + 1, "int") = Len(base)
  /\ \A i \in 1 .. Len(base) : At(in, p + 1 + i, "string") = base[i]
  /\ \A i \in 1 .. Len(codes) : At(in, p + 1 + Len(base) + i, "int") = codes[i]

LEMMA HoldsSymbols ==
  ASSUME NEW in, NEW p \in Nat, NEW base \in Seq(Int), NEW codes \in Seq(Int),
         Holds(in, p, Symbols(base, codes))
  PROVE  ReadsSymbols(in, p, base, codes)
<1>. DEFINE h == <<Item("int", 0), Item("int", Len(base))>>
<1>1. Items("string", base) \in Seq(Wire) /\ Len(Items("string", base)) = Len(base)
  BY ItemsType DEF Words
<1>2. Items("int", codes) \in Seq(Wire) /\ Len(Items("int", codes)) = Len(codes)
  BY ItemsType DEF Words
<1>3. h \in Seq(Wire) /\ Len(h) = 2 /\ h[2] = Item("int", Len(base)) /\ 2 \in DOMAIN h
  <2>1. Item("int", 0) \in Wire /\ Item("int", Len(base)) \in Wire
    BY ItemType DEF Words
  <2>. QED  BY <2>1
<1>. HIDE DEF h
<1>4. h \o Items("string", base) \in Seq(Wire) /\ Len(h \o Items("string", base)) = 2 + Len(base)
  BY <1>1, <1>3, WireConcat, Zenon
<1>5. Holds(in, p, h \o Items("string", base)) /\ Holds(in, p + (2 + Len(base)), Items("int", codes))
  BY <1>2, <1>4, HoldsSplit, Zenon DEF Symbols, h
<1>6. Holds(in, p, h) /\ Holds(in, p + 2, Items("string", base))
  BY <1>1, <1>3, <1>5, HoldsSplit, Zenon
<1>7. At(in, p + 2 - 1, "int") = Len(base)
  BY <1>3, <1>6, HoldsAt
<1>8. \A i \in 1 .. Len(base) : At(in, (p + 2) + i - 1, "string") = base[i]
  <2>1. p + 2 \in Nat
    OBVIOUS
  <2>2. Reads(in, p + 2, "string", base)
    BY <1>6, <2>1, HoldsItems, Zenon
  <2>. QED  BY <2>2, Zenon DEF Reads
<1>9. \A i \in 1 .. Len(codes) : At(in, (p + (2 + Len(base))) + i - 1, "int") = codes[i]
  <2>1. p + (2 + Len(base)) \in Nat
    OBVIOUS
  <2>2. Reads(in, p + (2 + Len(base)), "int", codes)
    BY <1>5, <2>1, HoldsItems, Zenon
  <2>. QED  BY <2>2, Zenon DEF Reads
<1>10. p + 2 - 1 = p + 1 /\ Len(base) \in Nat /\ Len(codes) \in Nat
  OBVIOUS
<1>11. \A i \in 1 .. Len(base) : (p + 2) + i - 1 = p + 1 + i
  BY <1>10
<1>12. \A i \in 1 .. Len(codes) : (p + (2 + Len(base))) + i - 1 = p + 1 + Len(base) + i
  BY <1>10
<1>. QED  BY <1>7, <1>8, <1>9, <1>10, <1>11, <1>12, Zenon DEF ReadsSymbols

LEMMA SymbolsCarry ==
  ASSUME NEW f \in 0 .. 6, NEW row \in Nat, NEW clm \in Nat, NEW base \in Seq(Int), NEW codes \in Seq(Int),
         Len(codes) = row * clm
  PROVE  Carries(Header(f, DT_SYMBASE, row, clm) \o Symbols(base, codes),
                 Vec(DT_SYMBASE, row, clm, Shifted(codes), base))
<1>. DEFINE r == Symbols(base, codes)
            s == Header(f, DT_SYMBASE, row, clm) \o r
            vec == Vec(DT_SYMBASE, row, clm, Shifted(codes), base)
<1>1. DT_SYMBASE \in 0 .. 255 /\ row \in Int /\ clm \in Int /\ DT_SYMBASE \in Int /\ DT_SYMBASE \notin Plain
  BY DEF Plain, DT_SYMBASE
<1>2. r \in Seq(Wire) /\ Len(r) = 2 + Len(base) + Len(codes)
  BY SymbolsType, Zenon
<1>3. /\ Header(f, DT_SYMBASE, row, clm) \in Seq(Wire)
      /\ Len(Header(f, DT_SYMBASE, row, clm)) = 3
  BY <1>1, HeaderType, Zenon
<1>0. Len(base) \in Nat /\ Len(codes) \in Nat
  OBVIOUS
<1>4. s \in Seq(Wire) /\ Len(s) = 3 + (2 + Len(base) + Len(codes))
  <2>. HIDE DEF r
  <2>. QED  BY <1>2, <1>3, WireConcat, Zenon
<1>5. vec \in Vecs
  BY <1>1, ShiftedType, VecType, Zenon
<1>6. Size(row, clm) = Len(codes) /\ Size(Len(base), 1) = Len(base)
  <2>1. Size(row, clm) = Len(codes)
    BY SizeOf, Zenon
  <2>2. Size(Len(base), 1) = Len(base)
    BY <1>0, SizeOne, Zenon
  <2>. QED  BY <2>1, <2>2
<1>7. ASSUME NEW in \in Seq(Wire), NEW p \in Nat, Holds(in, p, s)
      PROVE  FlaggedVector(in, p) = [p |-> p + (3 + (2 + Len(base) + Len(codes))), vec |-> vec]
  <2>1. /\ TypeOf(At(in, p, "short")) = DT_SYMBASE /\ At(in, p + 1, "int") = row /\ At(in, p + 2, "int") = clm
        /\ Holds(in, p + 3, r)
    <3>. HIDE DEF r
    <3>1. ReadsHeader(in, p, f, DT_SYMBASE, row, clm, r)
      BY <1>1, <1>2, <1>7, HoldsHeader, Zenon DEF s
    <3>. QED  BY <3>1, Zenon DEF ReadsHeader
  <2>. DEFINE q == p + 3
              code(v) == IF v < 0 THEN Bad ELSE v + 1
              data   == [i \in 1 .. Len(codes) |-> code(At(in, q + 1 + Len(base) + i, "int"))]
              levels == [i \in 1 .. Len(base) |-> At(in, q + 1 + i, "string")]
  <2>0. q \in Nat /\ (p + 1) + 1 = p + 2 /\ (p + 1) + 2 = q
    OBVIOUS
  <2>. HIDE DEF q
  <2>2. /\ At(in, q + 1, "int") = Len(base)
        /\ \A i \in 1 .. Len(base) : At(in, q + 1 + i, "string") = base[i]
        /\ \A i \in 1 .. Len(codes) : At(in, q + 1 + Len(base) + i, "int") = codes[i]
    <3>1. Holds(in, q, Symbols(base, codes))
      BY <2>1 DEF q
    <3>2. ReadsSymbols(in, q, base, codes)
      BY <2>0, <3>1, HoldsSymbols, Zenon
    <3>. QED  BY <3>2, Zenon DEF ReadsSymbols
  <2>3. levels = base
    <3>1. levels = [i \in 1 .. Len(base) |-> base[i]]
      BY <2>2, Zenon
    <3>. HIDE DEF levels
    <3>. QED  BY <3>1
  <2>4. data = Shifted(codes)
    <3>1. data = [i \in 1 .. Len(codes) |-> code(codes[i])]
      BY <2>2, Zenon
    <3>2. DOMAIN codes = 1 .. Len(codes)
      OBVIOUS
    <3>. HIDE DEF data
    <3>. QED  BY <3>1, <3>2, Zenon DEF Shifted
  <2>5. VectorSymbol(in, q, row, clm) =
          [p |-> q + 2 + Len(base) + Len(codes), vec |-> Vec(DT_SYMBASE, row, clm, data, levels)]
    BY <1>6, <2>2, Zenon DEF VectorSymbol
  <2>6. CreateVector(in, p + 1, DT_SYMBASE) = VectorSymbol(in, q, row, clm)
    BY <1>1, <2>0, <2>1 DEF CreateVector
  <2>7. q + 2 + Len(base) + Len(codes) = p + (3 + (2 + Len(base) + Len(codes)))
    BY <1>0 DEF q
  <2>. HIDE DEF data, levels
  <2>. QED  BY <2>1, <2>3, <2>4, <2>5, <2>6, <2>7, Zenon DEF FlaggedVector
<1>. HIDE DEF s, vec
<1>8. Carries(s, vec)
  BY <1>4, <1>5, <1>7 DEF Carries
<1>. QED  BY <1>8 DEF s, vec

-----------------------------------------------------------------------------
(* The vectors and factors of R.                                           *)

LEMMA RValueType == RValue \subseteq Int /\ Null \in RValue /\ NA \in RValue /\ Bad \notin RValue /\ Null # NA
<1>. QED  BY DEF RValue, Null, NA, Bad

LEMMA SubsetSeq ==
  ASSUME NEW S, NEW T, S \subseteq T, NEW s \in Seq(S) PROVE s \in Seq(T)
<1>. QED  OBVIOUS

LEMMA NulledType ==
  ASSUME NEW d \in Seq(RValue) PROVE Nulled(d) \in Seq(RValue) /\ Len(Nulled(d)) = Len(d)
<1>1. \A i \in 1 .. Len(d) : (IF d[i] = NA THEN Null ELSE d[i]) \in RValue
  BY RValueType
<1>2. Nulled(d) \in [1 .. Len(d) -> RValue] /\ Len(d) \in Nat
  BY <1>1 DEF Nulled
<1>. QED  BY <1>2, AsSequence, Zenon

LEMMA NullsAreNAType ==
  ASSUME NEW d \in Seq(RValue) PROVE NullsAreNA(d) \in Seq(RValue) /\ Len(NullsAreNA(d)) = Len(d)
<1>1. \A i \in 1 .. Len(d) : (IF d[i] = Null THEN NA ELSE d[i]) \in RValue
  BY RValueType
<1>2. NullsAreNA(d) \in [1 .. Len(d) -> RValue] /\ Len(d) \in Nat
  BY <1>1 DEF NullsAreNA
<1>. QED  BY <1>2, AsSequence, Zenon

\* An NA goes out as a null, which comes back as NA.
LEMMA NulledBack == ASSUME NEW d PROVE NullsAreNA(Nulled(d)) = NullsAreNA(d)
<1>1. DOMAIN Nulled(d) = DOMAIN d
  BY DEF Nulled
<1>2. \A i \in DOMAIN d :
        (IF Nulled(d)[i] = Null THEN NA ELSE Nulled(d)[i]) = (IF d[i] = Null THEN NA ELSE d[i])
  BY DEF Nulled, Null, NA
<1>. QED  BY <1>1, <1>2 DEF NullsAreNA

LEMMA VecFields ==
  ASSUME NEW t, NEW row, NEW clm, NEW data, NEW levels
  PROVE  LET vec == Vec(t, row, clm, data, levels)
         IN  vec.t = t /\ vec.row = row /\ vec.clm = clm /\ vec.data = data /\ vec.levels = levels
<1>. QED  BY DEF Vec

\* The NA index, or for an INT the value of its null, makes every null NA.
LEMMA WithNAPlain ==
  ASSUME NEW t \in Plain, NEW row, NEW clm, NEW d, NEW levels
  PROVE  WithNA(Vec(t, row, clm, d, levels)) = NullsAreNA(d)
<1>. DEFINE vec == Vec(t, row, clm, d, levels)
<1>0. vec.t = t /\ vec.data = d /\ t # DT_SYMBASE
  BY VecFields DEF Plain, DT_SYMBASE
<1>. HIDE DEF vec
<1>1. Values(vec) = [i \in DOMAIN d |-> IF t = DT_INT /\ d[i] = Null THEN NA ELSE d[i]]
  BY <1>0 DEF Values
<1>2. NAIndex(vec, TRUE) = IF t = DT_INT THEN {} ELSE {i \in DOMAIN d : d[i] = Null}
  BY <1>0 DEF NAIndex
<1>3. WithNA(vec) = [i \in DOMAIN d |-> IF d[i] = Null THEN NA ELSE d[i]]
  <2>1. CASE t = DT_INT
    BY <1>1, <1>2, <2>1 DEF WithNA, SetReceiveVectorNA
  <2>2. CASE t # DT_INT
    BY <1>1, <1>2, <2>2 DEF WithNA, SetReceiveVectorNA
  <2>. QED  BY <2>1, <2>2
<1>. QED  BY <1>3 DEF NullsAreNA, vec

LEMMA UploadTypes ==
  ASSUME NEW c \in DOMAIN UploadType
  PROVE  /\ UploadType[c] \in Plain /\ UploadType[c] \in 0 .. 255 /\ Class[UploadType[c]] = c
         /\ DOMAIN UploadType = {"logical", "integer", "numeric", "character", "Date", "POSIXct"}
<1>1. DOMAIN UploadType = {"logical", "integer", "numeric", "character", "Date", "POSIXct"}
  BY DEF UploadType
<1>2. c \in {"logical", "integer", "numeric", "character", "Date", "POSIXct"}
  BY <1>1
<1>3. UploadType[c] \in Plain /\ UploadType[c] \in 0 .. 255
  BY <1>2 DEF UploadType, Plain, DT_BOOL, DT_INT, DT_DOUBLE, DT_STRING, DT_DATE, DT_DATETIME
<1>. USE DEF UploadType, Class, Plain, DT_BOOL, DT_INT, DT_DOUBLE, DT_STRING, DT_DATE, DT_DATETIME,
             Dates, IntTimes, Clocks, LongTimes
<1>4. UploadType["logical"] = 1 /\ Class[1] = "logical"
  OBVIOUS
<1>5. UploadType["integer"] = 4 /\ Class[4] = "integer"
  OBVIOUS
<1>6. UploadType["numeric"] = 16 /\ Class[16] = "numeric"
  OBVIOUS
<1>7. UploadType["character"] = 18 /\ Class[18] = "character"
  OBVIOUS
<1>8. UploadType["Date"] = 6 /\ Class[6] = "Date"
  OBVIOUS
<1>9. UploadType["POSIXct"] = 11 /\ Class[11] = "POSIXct"
  OBVIOUS
<1>. QED  BY <1>1, <1>2, <1>3, <1>4, <1>5, <1>6, <1>7, <1>8, <1>9

\* The class an R vector has on the way, at the top and as a column.
ColumnClass(c) == IF c.class \in {"intDate", "intPOSIXct"} THEN "integer" ELSE RClass(c.class)

LEMMA ClassesSent ==
  ASSUME NEW c \in VectorObjects
  PROVE  /\ c.kind = "vector" /\ c.data \in Seq(RValue)
         /\ ColumnClass(c) \in DOMAIN UploadType /\ RClass(c.class) \in DOMAIN UploadType
         /\ UploadVector(c) = VectorItems(UploadType[ColumnClass(c)], c.data)
         /\ UploadVectorDate(c) = VectorItems(UploadType[RClass(c.class)], c.data)
         /\ ~ IsTime(c) => c.class = RClass(c.class) /\ ColumnClass(c) = RClass(c.class)
         /\ ReturnedColumn(c) = RVector(ColumnClass(c), NullsAreNA(c.data))
<1>1. c.kind = "vector" /\ c.class \in RClasses /\ c.data \in Seq(RValue)
  BY DEF VectorObjects
<1>2. DOMAIN UploadType = {"logical", "integer", "numeric", "character", "Date", "POSIXct"}
  BY DEF UploadType
<1>3. c.class \in {"logical", "integer", "numeric", "character", "Date", "POSIXct", "intDate", "intPOSIXct", "localtime"}
  BY <1>1, <1>2 DEF RClasses
<1>4. ColumnClass(c) \in DOMAIN UploadType /\ RClass(c.class) \in DOMAIN UploadType
  BY <1>2, <1>3 DEF ColumnClass, RClass
<1>5. UploadType["integer"] = DT_INT
  BY DEF UploadType
<1>6. UploadVector(c) = VectorItems(UploadType[ColumnClass(c)], c.data)
  BY <1>1, <1>3, <1>5 DEF UploadVector, UploadVectorDate, IsTime, ColumnClass, RClass
<1>7. ~ IsTime(c) => c.class = RClass(c.class) /\ ColumnClass(c) = RClass(c.class)
  BY <1>3 DEF IsTime, ColumnClass, RClass
<1>8. ReturnedColumn(c) = RVector(ColumnClass(c), NullsAreNA(c.data))
  BY <1>1 DEF ReturnedColumn, ColumnClass
<1>. QED  BY <1>1, <1>4, <1>6, <1>7, <1>8 DEF UploadVectorDate

\* The vector of C++ that a vector of class k is read into.
VectorOf(k, c) == Vec(UploadType[k], Len(c.data), 1, Nulled(c.data), <<>>)

LEMMA VectorCarried ==
  ASSUME NEW c \in VectorObjects, NEW k \in DOMAIN UploadType
  PROVE  /\ Carries(VectorItems(UploadType[k], c.data), VectorOf(k, c))
         /\ VectorOf(k, c).t \in Plain \cup {DT_SYMBASE}
         /\ Column(VectorOf(k, c)) = RVector(k, NullsAreNA(c.data))
         /\ Column(VectorOf(k, c)) \in VectorObjects
<1>. DEFINE t == UploadType[k]
            d == Nulled(c.data)
<1>1. c.kind = "vector" /\ k \in RClasses /\ c.data \in Seq(RValue)
  BY DEF VectorObjects, RClasses
<1>2. t \in Plain /\ t # DT_SYMBASE /\ Class[t] = k
  <2>1. t \in Plain /\ Class[t] = k
    BY UploadTypes, Zenon
  <2>. HIDE DEF t
  <2>. QED  BY <2>1 DEF Plain, DT_SYMBASE
<1>3. d \in Seq(RValue) /\ Len(d) = Len(c.data)
  BY <1>1, NulledType, Zenon
<1>4. d \in Seq(Int) /\ Len(c.data) \in Nat /\ Len(c.data) * 1 = Len(c.data)
  <2>1. d \in Seq(Int)
    BY <1>3, RValueType, SubsetSeq, Zenon
  <2>2. Len(c.data) \in Nat
    BY <1>1
  <2>. QED  BY <2>1, <2>2
<1>5. VectorItems(t, c.data) = Header(DF_VECTOR, t, Len(c.data), 1) \o Items(Width[t], d)
  BY DEF VectorItems, Header
<1>6. Carries(VectorItems(t, c.data), VectorOf(k, c))
  <2>1. DF_VECTOR \in 0 .. 6 /\ 1 \in Nat
    BY DEF DF_VECTOR
  <2>. HIDE DEF t, d
  <2>2. Carries(Header(DF_VECTOR, t, Len(c.data), 1) \o Items(Width[t], d), Vec(t, Len(c.data), 1, d, <<>>))
    BY <1>2, <1>3, <1>4, <2>1, PlainCarries, Zenon
  <2>. QED  BY <1>5, <2>2, Zenon DEF VectorOf, t, d
<1>7. VectorOf(k, c).t = t
  BY VecFields DEF VectorOf
<1>8. Column(VectorOf(k, c)) = RVector(k, NullsAreNA(c.data))
  <2>1. WithNA(VectorOf(k, c)) = NullsAreNA(d)
    BY <1>2, WithNAPlain, Zenon DEF VectorOf
  <2>2. WithNA(VectorOf(k, c)) = NullsAreNA(c.data)
    BY <2>1, NulledBack, Zenon
  <2>. QED  BY <1>2, <1>7, <2>2, Zenon DEF Column
<1>9. RVector(k, NullsAreNA(c.data)) \in VectorObjects
  BY <1>1, NullsAreNAType DEF RVector, VectorObjects
<1>10. VectorOf(k, c).t \in Plain \cup {DT_SYMBASE}
  BY <1>2, <1>7, Zenon
<1>. QED  BY <1>6, <1>8, <1>9, <1>10, Zenon

\* The number of NA levels up to the i-th: R has no level twice.
NALevels(levels, i) == IF \E k \in 1 .. i : levels[k] = NA THEN 1 ELSE 0

OneNA(levels) == \A i, j \in DOMAIN levels : levels[i] = NA /\ levels[j] = NA => i = j

BaseOf(base, levels, i) ==
  /\ Len(base) = i + 1 - NALevels(levels, i) /\ base[1] = Null
  /\ \A j \in 2 .. Len(base) : base[j] # NA
  /\ \A j \in 1 .. i : levels[j] # NA =>
       j + 1 - NALevels(levels, j) \in 2 .. Len(base) /\ base[j + 1 - NALevels(levels, j)] = levels[j]

LEMMA SymbolBaseReads ==
  ASSUME NEW levels \in Seq(RValue)
  PROVE  \E f \in [0 .. Len(levels) -> Seq(RValue)] :
           /\ f[0] = <<Null>> /\ f[Len(levels)] = SymbolBase(levels)
           /\ \A i \in 1 .. Len(levels) :
                f[i] = IF levels[i] = NA THEN f[i - 1] ELSE Append(f[i - 1], levels[i])
<1>. DEFINE n == Len(levels)
            h == [x \in (1 .. n) \X Seq(RValue) |->
                    IF levels[x[1]] = NA THEN x[2] ELSE Append(x[2], levels[x[1]])]
            Is(f) == f = [i \in 0 .. n |-> IF i = 0 THEN <<Null>>
                                           ELSE IF levels[i] = NA THEN f[i - 1]
                                           ELSE Append(f[i - 1], levels[i])]
            base == CHOOSE f : Is(f)
<1>1. n \in Nat /\ \A i \in 1 .. n : levels[i] \in RValue
  OBVIOUS
<1>2. SymbolBase(levels) = base[n]
  BY Zenon DEF SymbolBase
<1>. HIDE DEF n
<1>3. <<Null>> \in Seq(RValue)
  BY RValueType
<1>4. h \in [(1 .. n) \X Seq(RValue) -> Seq(RValue)]
  <2>1. ASSUME NEW i \in 1 .. n, NEW s \in Seq(RValue)
        PROVE  (IF levels[i] = NA THEN s ELSE Append(s, levels[i])) \in Seq(RValue)
    BY <1>1
  <2>2. \A x \in (1 .. n) \X Seq(RValue) : x[1] \in 1 .. n /\ x[2] \in Seq(RValue)
    OBVIOUS
  <2>. QED  BY <2>1, <2>2, Zenon
<1>5. PICK f \in [0 .. n -> Seq(RValue)] : f[0] = <<Null>> /\ \A i \in 1 .. n : f[i] = h[<<i, f[i - 1]>>]
  <2>. HIDE DEF h
  <2>1. Recurs(n, Seq(RValue), <<Null>>, h)
    BY <1>1, <1>3, <1>4, Recursion, Zenon
  <2>. QED  BY <2>1, Zenon DEF Recurs
<1>6. ASSUME NEW i \in 1 .. n
      PROVE  f[i] = IF levels[i] = NA THEN f[i - 1] ELSE Append(f[i - 1], levels[i])
  <2>1. i - 1 \in 0 .. n
    BY <1>1
  <2>2. <<i, f[i - 1]>> \in (1 .. n) \X Seq(RValue)
    BY <2>1
  <2>3. h[<<i, f[i - 1]>>] = IF levels[i] = NA THEN f[i - 1] ELSE Append(f[i - 1], levels[i])
    BY <2>2
  <2>. QED  BY <1>5, <2>3, Zenon
<1>7. Is(f)
  <2>1. ASSUME NEW i \in 0 .. n
        PROVE  f[i] = IF i = 0 THEN <<Null>> ELSE IF levels[i] = NA THEN f[i - 1] ELSE Append(f[i - 1], levels[i])
    <3>1. i # 0 => i \in 1 .. n
      BY <1>1
    <3>. QED  BY <1>5, <1>6, <3>1, Zenon
  <2>. QED  BY <2>1, Zenon
<1>8. Is(base)
  <2>. HIDE DEF Is
  <2>. QED  BY <1>7, Zenon
<1>. HIDE DEF base
<1>9. \A i \in 0 .. n : i \in {j \in 0 .. n : base[j] = f[j]}
  <2>. DEFINE T == {j \in 0 .. n : base[j] = f[j]}
  <2>0. 0 \in 0 .. n
    BY <1>1
  <2>1. 0 \in T
    BY <1>5, <1>8, <2>0
  <2>2. ASSUME NEW k \in 0 .. n - 1, k \in T PROVE k + 1 \in T
    <3>1. k + 1 \in 1 .. n /\ (k + 1) - 1 = k /\ k + 1 \in 0 .. n /\ k + 1 # 0
      BY <1>1
    <3>2. base[k + 1] = IF levels[k + 1] = NA THEN base[(k + 1) - 1] ELSE Append(base[(k + 1) - 1], levels[k + 1])
      BY <1>8, <3>1, Zenon
    <3>3. f[k + 1] = IF levels[k + 1] = NA THEN f[(k + 1) - 1] ELSE Append(f[(k + 1) - 1], levels[k + 1])
      BY <1>6, <3>1, Zenon
    <3>4. base[k] = f[k]
      BY <2>2
    <3>. QED  BY <3>1, <3>2, <3>3, <3>4
  <2>3. \A i \in 0 .. n : i \in T
    <3>. HIDE DEF T
    <3>. QED  BY <1>1, <2>1, <2>2, Induction
  <2>. QED  BY <2>3
<1>10. f[n] = SymbolBase(levels)
  <2>1. n \in 0 .. n
    BY <1>1
  <2>. QED  BY <1>2, <1>9, <2>1
<1>11. \E g \in [0 .. n -> Seq(RValue)] :
         /\ g[0] = <<Null>> /\ g[n] = SymbolBase(levels)
         /\ \A i \in 1 .. n : g[i] = IF levels[i] = NA THEN g[i - 1] ELSE Append(g[i - 1], levels[i])
  BY <1>5, <1>6, <1>10, Zenon
<1>. QED  BY <1>11, Zenon DEF n

LEMMA SymbolBaseIs ==
  ASSUME NEW levels \in Seq(RValue), OneNA(levels)
  PROVE  SymbolBase(levels) \in Seq(RValue) /\ BaseOf(SymbolBase(levels), levels, Len(levels))
<1>. DEFINE n == Len(levels)
<1>1. n \in Nat /\ DOMAIN levels = 1 .. n /\ \A i \in 1 .. n : levels[i] \in RValue
  OBVIOUS
<1>2. PICK f \in [0 .. n -> Seq(RValue)] :
        /\ f[0] = <<Null>> /\ f[n] = SymbolBase(levels)
        /\ \A i \in 1 .. n : f[i] = IF levels[i] = NA THEN f[i - 1] ELSE Append(f[i - 1], levels[i])
  BY SymbolBaseReads, Zenon
<1>. HIDE DEF n
<1>. DEFINE T == {i \in 0 .. n : BaseOf(f[i], levels, i)}
<1>3. 0 \in T
  <2>1. Len(<<Null>>) = 1 /\ <<Null>>[1] = Null
    OBVIOUS
  <2>2. NALevels(levels, 0) = 0
    BY DEF NALevels
  <2>3. BaseOf(<<Null>>, levels, 0)
    BY <2>1, <2>2 DEF BaseOf
  <2>. QED  BY <1>1, <1>2, <2>3
<1>4. ASSUME NEW k \in 0 .. n - 1, k \in T PROVE k + 1 \in T
  <2>. DEFINE s == f[k]
              x == levels[k + 1]
              r == f[k + 1]
  <2>0. k \in Nat /\ k + 1 \in 1 .. n /\ (k + 1) - 1 = k /\ k + 1 \in 0 .. n
    BY <1>1
  <2>1. s \in Seq(RValue) /\ BaseOf(s, levels, k) /\ x \in RValue
    BY <1>1, <1>4, <2>0
  <2>2. r = IF x = NA THEN s ELSE Append(s, x)
    BY <1>2, <2>0
  <2>. HIDE DEF r, s, x
  <2>3. NALevels(levels, k) \in {0, 1} /\ NALevels(levels, k + 1) \in {0, 1}
    BY DEF NALevels
  <2>4. CASE x = NA
    <3>1. NALevels(levels, k) = 0 /\ NALevels(levels, k + 1) = 1
      <4>1. \A j \in 1 .. k : j \in 1 .. n /\ j # k + 1
        BY <1>1, <2>0
      <4>2. \A j \in 1 .. k : levels[j] # NA
        BY <1>1, <2>0, <2>4, <4>1 DEF OneNA, x
      <4>3. k + 1 \in 1 .. k + 1
        BY <2>0
      <4>. QED  BY <2>4, <4>2, <4>3 DEF NALevels, x
    <3>2. BaseOf(s, levels, k + 1)
      <4>1. Len(s) = (k + 1) + 1 - NALevels(levels, k + 1)
        BY <2>0, <2>1, <3>1 DEF BaseOf
      <4>2. \A j \in 1 .. k + 1 : levels[j] # NA => j \in 1 .. k
        BY <2>0, <2>4 DEF x
      <4>. QED  BY <2>1, <4>1, <4>2 DEF BaseOf
    <3>. QED  BY <2>0, <2>2, <2>4, <3>2 DEF r
  <2>5. CASE x # NA
    <3>1. NALevels(levels, k + 1) = NALevels(levels, k)
      BY <2>0, <2>5 DEF NALevels, x
    <3>2. /\ Len(r) = Len(s) + 1 /\ r[Len(s) + 1] = x /\ \A j \in 1 .. Len(s) : r[j] = s[j]
          /\ Len(s) \in Nat
      BY <2>1, <2>2, <2>5
    <3>3. Len(s) = k + 1 - NALevels(levels, k) /\ s[1] = Null
      BY <2>1 DEF BaseOf
    <3>4. k + 1 - NALevels(levels, k) >= 1
      <4>1. k + 1 - 0 >= 1 /\ k + 1 - 1 >= 0
        BY <2>0
      <4>2. NALevels(levels, k) = 1 => k # 0
        BY <2>0 DEF NALevels
      <4>. QED  BY <2>0, <2>3, <4>1, <4>2
    <3>5. Len(r) = (k + 1) + 1 - NALevels(levels, k + 1) /\ r[1] = Null
      BY <2>0, <2>3, <3>1, <3>2, <3>3, <3>4
    <3>6. ASSUME NEW j \in 2 .. Len(r) PROVE r[j] # NA
      <4>1. CASE j = Len(s) + 1
        BY <2>5, <3>2, <4>1
      <4>2. CASE j # Len(s) + 1
        <5>1. j \in 2 .. Len(s) /\ j \in 1 .. Len(s)
          BY <3>2, <4>2
        <5>. QED  BY <2>1, <3>2, <5>1 DEF BaseOf
      <4>. QED  BY <4>1, <4>2
    <3>7. ASSUME NEW j \in 1 .. k + 1, levels[j] # NA
          PROVE  /\ j + 1 - NALevels(levels, j) \in 2 .. Len(r)
                 /\ r[j + 1 - NALevels(levels, j)] = levels[j]
      <4>1. CASE j = k + 1
        <5>1. j + 1 - NALevels(levels, j) = Len(s) + 1
          BY <2>0, <2>3, <3>1, <3>3, <4>1
        <5>2. Len(s) >= 1
          BY <3>3, <3>4
        <5>3. Len(s) + 1 \in 2 .. Len(r)
          BY <3>2, <5>2
        <5>. QED  BY <3>2, <4>1, <5>1, <5>3 DEF x
      <4>2. CASE j # k + 1
        <5>1. j \in 1 .. k
          BY <2>0, <4>2
        <5>2. j + 1 - NALevels(levels, j) \in 2 .. Len(s) /\ s[j + 1 - NALevels(levels, j)] = levels[j]
          BY <2>1, <3>7, <5>1 DEF BaseOf
        <5>3. 2 .. Len(s) \subseteq 2 .. Len(r) /\ 2 .. Len(s) \subseteq 1 .. Len(s)
          BY <3>2
        <5>. QED  BY <3>2, <5>2, <5>3
      <4>. QED  BY <4>1, <4>2
    <3>8. BaseOf(r, levels, k + 1)
      BY <3>5, <3>6, <3>7 DEF BaseOf
    <3>. QED  BY <2>0, <3>8 DEF r
  <2>. QED  BY <2>4, <2>5
<1>5. n \in T
  <2>1. \A i \in 0 .. n : i \in T
    <3>. HIDE DEF T
    <3>. QED  BY <1>1, <1>3, <1>4, Induction
  <2>. QED  BY <1>1, <2>1
<1>. QED  BY <1>1, <1>2, <1>5 DEF n

LEMMA SymbolItemsAre ==
  ASSUME NEW base \in Seq(Int), NEW codes, Len(codes) \in Nat, NEW sent \in Seq(Int), Nulled(codes) = sent
  PROVE  SymbolItems(base, codes) = Header(DF_VECTOR, DT_SYMBASE, Len(codes), 1) \o Symbols(base, sent)
<1>. DEFINE h == <<Flag(DF_VECTOR, DT_SYMBASE), Item("int", Len(codes)), Item("int", 1)>>
            g == <<Item("int", 0), Item("int", Len(base))>>
            a == Items("string", base)
            b == Items("int", sent)
<1>1. h \in Seq(Wire) /\ g \in Seq(Wire)
  <2>1. /\ Item("int", Len(codes)) \in Wire /\ Item("int", 1) \in Wire /\ Item("int", 0) \in Wire
        /\ Item("int", Len(base)) \in Wire /\ Flag(DF_VECTOR, DT_SYMBASE) \in Wire
    <3>1. DF_VECTOR \in 0 .. 6 /\ DT_SYMBASE \in 0 .. 255 /\ "int" \in Words /\ Len(base) \in Nat
      BY DEF Words, DF_VECTOR, DT_SYMBASE
    <3>2. \A i \in Nat : Item("int", i) \in Wire
      BY <3>1, ItemType
    <3>3. Flag(DF_VECTOR, DT_SYMBASE) \in Wire
      BY <3>1, FlagType, Zenon
    <3>. QED  BY <3>1, <3>2, <3>3
  <2>. QED  BY <2>1
<1>3. a \in Seq(Wire) /\ b \in Seq(Wire)
  BY ItemsType DEF Words
<1>4. <<Flag(DF_VECTOR, DT_SYMBASE), Item("int", Len(codes)), Item("int", 1),
        Item("int", 0), Item("int", Len(base))>> = h \o g
  OBVIOUS
<1>. HIDE DEF h, g, a, b
<1>5. SymbolItems(base, codes) = ((h \o g) \o a) \o b
  BY <1>4 DEF SymbolItems, a, b
<1>6. (h \o g) \o a = h \o (g \o a) /\ g \o a \in Seq(Wire)
  <2>1. (h \o g) \o a = h \o (g \o a)
    BY <1>1, <1>3, WireAssociative, Zenon
  <2>2. g \o a \in Seq(Wire)
    BY <1>1, <1>3, WireConcat, Zenon
  <2>. QED  BY <2>1, <2>2
<1>7. (h \o (g \o a)) \o b = h \o ((g \o a) \o b)
  BY <1>1, <1>3, <1>6, WireAssociative, Zenon
<1>8. SymbolItems(base, codes) = h \o ((g \o a) \o b)
  BY <1>5, <1>6, <1>7, Zenon
<1>. QED  BY <1>8, Zenon DEF Header, Symbols, h, g, a, b

\* The codes UploadVectorSymbol sends, and the factor's vector in C++.
Codes(r) ==
  LET na == {i \in DOMAIN r.levels : r.levels[i] = NA}
      index(code) == IF code \in na THEN 0
                     ELSE IF \E i \in na : code > i THEN code - 1
                     ELSE code
  IN  [i \in DOMAIN r.codes |-> index(r.codes[i])]

\* What the code of a factor comes back as.
CodeBack(levels, code) ==
  IF code \notin DOMAIN levels THEN Bad
  ELSE IF levels[code] = NA THEN 1
  ELSE code + 1 - NALevels(levels, code)

CodesBack(r) == [i \in DOMAIN r.codes |-> CodeBack(r.levels, r.codes[i])]

FactorOf(r) == Vec(DT_SYMBASE, Len(r.codes), 1, CodesBack(r), SymbolBase(r.levels))

LEMMA CodesAre ==
  ASSUME NEW r \in FactorObjects
  PROVE  /\ Nulled(Codes(r)) \in Seq(Int) /\ Len(Nulled(Codes(r))) = Len(r.codes) /\ Len(Codes(r)) = Len(r.codes)
         /\ Shifted(Nulled(Codes(r))) = CodesBack(r)
<1>. DEFINE levels == r.levels
            codes == r.codes
            na == {i \in DOMAIN levels : levels[i] = NA}
            index(code) == IF code \in na THEN 0 ELSE IF \E i \in na : code > i THEN code - 1 ELSE code
            n == Len(levels)
<1>1. /\ levels \in Seq(RValue) /\ codes \in Seq(Int) /\ OneNA(levels)
      /\ \A i \in DOMAIN codes : codes[i] \in {NA, Bad} \cup DOMAIN levels
  BY DEF FactorObjects, OneNA
<1>2. DOMAIN levels = 1 .. n /\ n \in Nat /\ DOMAIN codes = 1 .. Len(codes) /\ Len(codes) \in Nat
  BY <1>1
<1>3. SymbolBase(levels) \in Seq(RValue) /\ BaseOf(SymbolBase(levels), levels, n)
  BY <1>1, SymbolBaseIs, Zenon
<1>. HIDE DEF n, levels, codes
<1>4. ASSUME NEW c \in {NA, Bad} \cup DOMAIN levels
      PROVE  LET sent == IF index(c) = NA THEN Null ELSE index(c)
             IN  sent \in Int /\ (IF sent < 0 THEN Bad ELSE sent + 1) = CodeBack(levels, c)
  <2>1. CASE c \in {NA, Bad}
    <3>1. c \notin DOMAIN levels /\ index(c) = c
      BY <1>2, <2>1 DEF NA, Bad
    <3>. QED  BY <2>1, <3>1 DEF CodeBack, NA, Bad, Null
  <2>2. CASE c \in DOMAIN levels /\ levels[c] = NA
    <3>1. index(c) = 0
      BY <2>2
    <3>. QED  BY <2>2, <3>1 DEF CodeBack, NA, Bad, Null
  <2>3. CASE c \in DOMAIN levels /\ levels[c] # NA
    <3>1. c \in 1 .. n /\ NALevels(levels, c) \in {0, 1}
      BY <1>2, <2>3 DEF NALevels
    <3>2. (\E i \in na : c > i) <=> NALevels(levels, c) = 1
      <4>1. ASSUME NEW i \in na, c > i PROVE \E k \in 1 .. c : levels[k] = NA
        <5>1. i \in 1 .. c /\ levels[i] = NA
          BY <1>2, <3>1, <4>1
        <5>. QED  BY <5>1
      <4>2. ASSUME NEW k \in 1 .. c, levels[k] = NA PROVE k \in na /\ c > k
        <5>1. k # c /\ k \in 1 .. n
          BY <1>2, <2>3, <3>1, <4>2
        <5>. QED  BY <1>2, <3>1, <4>2, <5>1
      <4>. QED  BY <4>1, <4>2 DEF NALevels
    <3>3. index(c) = c - NALevels(levels, c)
      <4>1. c \notin na
        BY <2>3
      <4>2. c - 0 = c
        BY <3>1
      <4>. HIDE DEF na
      <4>. QED  BY <3>1, <3>2, <4>1, <4>2
    <3>4. c + 1 - NALevels(levels, c) \in 2 .. Len(SymbolBase(levels))
      BY <1>3, <2>3, <3>1 DEF BaseOf
    <3>5. c - NALevels(levels, c) >= 1 /\ (c - NALevels(levels, c)) + 1 = c + 1 - NALevels(levels, c)
      BY <3>1, <3>4
    <3>6. CodeBack(levels, c) = c + 1 - NALevels(levels, c)
      BY <2>3 DEF CodeBack
    <3>7. index(c) \in Int /\ index(c) >= 1 /\ index(c) + 1 = CodeBack(levels, c)
      <4>. HIDE DEF index
      <4>. QED  BY <3>1, <3>3, <3>5, <3>6
    <3>. HIDE DEF index
    <3>. QED  BY <3>7 DEF NA, Null, Bad
  <2>. QED  BY <2>1, <2>2, <2>3
<1>5. Codes(r) = [i \in 1 .. Len(codes) |-> index(codes[i])]
  BY <1>2 DEF Codes, levels, codes
<1>. DEFINE sent == [i \in 1 .. Len(codes) |-> IF index(codes[i]) = NA THEN Null ELSE index(codes[i])]
<1>6. Nulled(Codes(r)) = sent
  <2>. HIDE DEF index
  <2>. QED  BY <1>5 DEF Nulled
<1>7. sent \in [1 .. Len(codes) -> Int]
  <2>1. \A i \in 1 .. Len(codes) : (IF index(codes[i]) = NA THEN Null ELSE index(codes[i])) \in Int
    <3>. HIDE DEF index
    <3>. QED  BY <1>1, <1>2, <1>4
  <2>. HIDE DEF index
  <2>. QED  BY <2>1
<1>8. sent \in Seq(Int) /\ Len(sent) = Len(codes) /\ DOMAIN sent = 1 .. Len(codes)
  <2>. HIDE DEF sent
  <2>. QED  BY <1>2, <1>7, AsSequence, Zenon
<1>9. Shifted(sent) = CodesBack(r)
  <2>1. ASSUME NEW i \in 1 .. Len(codes)
        PROVE  (IF sent[i] < 0 THEN Bad ELSE sent[i] + 1) = CodeBack(levels, codes[i])
    <3>1. sent[i] = IF index(codes[i]) = NA THEN Null ELSE index(codes[i])
      BY Zenon
    <3>2. codes[i] \in {NA, Bad} \cup DOMAIN levels
      BY <1>1, <1>2
    <3>. HIDE DEF index, sent
    <3>. QED  BY <1>4, <3>1, <3>2
  <2>. HIDE DEF sent
  <2>2. Shifted(sent) = [i \in 1 .. Len(codes) |-> CodeBack(levels, codes[i])]
    BY <1>8, <2>1, Zenon DEF Shifted
  <2>. QED  BY <1>2, <2>2 DEF CodesBack, levels, codes
<1>10. Len(Codes(r)) = Len(codes)
  <2>1. DOMAIN Codes(r) = 1 .. Len(codes)
    <3>. HIDE DEF index
    <3>. QED  BY <1>5
  <2>2. \A i \in 1 .. Len(codes) : Codes(r)[i] \in {Codes(r)[j] : j \in 1 .. Len(codes)}
    OBVIOUS
  <2>3. Codes(r) \in [1 .. Len(codes) -> {Codes(r)[j] : j \in 1 .. Len(codes)}]
    <3>. HIDE DEF index
    <3>. QED  BY <1>5, <2>2
  <2>. QED  BY <1>2, <2>3, AsSequence, Zenon
<1>. HIDE DEF sent
<1>. QED  BY <1>6, <1>8, <1>9, <1>10 DEF codes

LEMMA FormCodes == /\ DF_SCALAR \in 0 .. 6 /\ DF_VECTOR \in 0 .. 6 /\ DF_PAIR \in 0 .. 6
            /\ DF_MATRIX \in 0 .. 6 /\ DF_SET \in 0 .. 6 /\ DF_TABLE \in 0 .. 6
<1>. QED  BY DEF DF_SCALAR, DF_VECTOR, DF_PAIR, DF_MATRIX, DF_SET, DF_TABLE

LEMMA FactorCarried ==
  ASSUME NEW r \in FactorObjects
  PROVE  /\ Carries(UploadVectorSymbol(r), FactorOf(r))
         /\ FactorOf(r).t = DT_SYMBASE
         /\ Column(FactorOf(r)) \in FactorObjects
         /\ (\A i \in DOMAIN r.codes : r.codes[i] # NA) => SameVector(r, Column(FactorOf(r)))
<1>. DEFINE base == SymbolBase(r.levels)
            back == CodesBack(r)
            n == Len(r.levels)
            levels == [i \in DOMAIN base |-> IF i = 1 THEN NA ELSE base[i]]
<1>1. /\ r.kind = "factor" /\ r.levels \in Seq(RValue) /\ r.codes \in Seq(Int) /\ OneNA(r.levels)
      /\ \A i \in DOMAIN r.codes : r.codes[i] \in {NA, Bad} \cup DOMAIN r.levels
  BY DEF FactorObjects, OneNA
<1>2. base \in Seq(RValue) /\ BaseOf(base, r.levels, n)
  BY <1>1, SymbolBaseIs, Zenon
<1>3. base \in Seq(Int)
  BY <1>2, RValueType, SubsetSeq, Zenon
<1>4. /\ Nulled(Codes(r)) \in Seq(Int) /\ Len(Nulled(Codes(r))) = Len(r.codes)
      /\ Len(Codes(r)) = Len(r.codes) /\ Shifted(Nulled(Codes(r))) = back
  BY CodesAre, Zenon
<1>5. DOMAIN r.levels = 1 .. n /\ n \in Nat /\ DOMAIN r.codes = 1 .. Len(r.codes) /\ Len(r.codes) \in Nat
  BY <1>1
<1>6. UploadVectorSymbol(r) = SymbolItems(base, Codes(r))
  BY Zenon DEF UploadVectorSymbol, Codes
<1>. HIDE DEF base, back, n
<1>7. Carries(UploadVectorSymbol(r), FactorOf(r))
  <2>1. SymbolItems(base, Codes(r)) =
          Header(DF_VECTOR, DT_SYMBASE, Len(r.codes), 1) \o Symbols(base, Nulled(Codes(r)))
    BY <1>3, <1>4, <1>5, SymbolItemsAre, Zenon
  <2>2. Len(Nulled(Codes(r))) = Len(r.codes) * 1 /\ 1 \in Nat
    BY <1>4, <1>5
  <2>3. Carries(Header(DF_VECTOR, DT_SYMBASE, Len(r.codes), 1) \o Symbols(base, Nulled(Codes(r))),
                Vec(DT_SYMBASE, Len(r.codes), 1, back, base))
    BY <1>3, <1>4, <1>5, <2>2, FormCodes, SymbolsCarry, Zenon
  <2>. QED  BY <1>6, <2>1, <2>3, Zenon DEF FactorOf, back, base
<1>8. FactorOf(r).t = DT_SYMBASE /\ FactorOf(r).levels = base /\ FactorOf(r).data = back
  BY VecFields DEF FactorOf, base, back
<1>9. Column(FactorOf(r)) = RFactor(levels, back)
  BY <1>8, Zenon DEF Column, Factor
<1>10. Len(base) >= 1 /\ Len(base) \in Nat
  <2>1. Len(base) = n + 1 - NALevels(r.levels, n)
    BY <1>2 DEF BaseOf
  <2>2. NALevels(r.levels, n) \in {0, 1}
    BY DEF NALevels
  <2>3. NALevels(r.levels, n) = 1 => n # 0
    BY <1>5 DEF NALevels
  <2>4. n + 1 - 0 >= 1 /\ (n # 0 => n + 1 - 1 >= 1)
    BY <1>5
  <2>. QED  BY <1>2, <2>1, <2>2, <2>3, <2>4
<1>11. /\ levels \in Seq(RValue) /\ Len(levels) = Len(base)
       /\ \A j \in 1 .. Len(base) : levels[j] = IF j = 1 THEN NA ELSE base[j]
  <2>1. DOMAIN base = 1 .. Len(base) /\ \A j \in 1 .. Len(base) : (IF j = 1 THEN NA ELSE base[j]) \in RValue
    BY <1>2, RValueType
  <2>2. levels \in [1 .. Len(base) -> RValue]
    BY <2>1, Zenon
  <2>3. \A j \in 1 .. Len(base) : levels[j] = IF j = 1 THEN NA ELSE base[j]
    BY <2>1, Zenon
  <2>. QED  BY <1>10, <2>2, <2>3, AsSequence, Zenon
<1>12. DOMAIN levels = 1 .. Len(base)
  <2>1. DOMAIN base = 1 .. Len(base)
    BY <1>2
  <2>. QED  BY <2>1, Zenon
<1>. HIDE DEF levels
<1>13. ASSUME NEW i \in DOMAIN r.codes
       PROVE  /\ back[i] = CodeBack(r.levels, r.codes[i]) /\ back[i] \in {NA, Bad} \cup DOMAIN levels
              /\ r.codes[i] \in DOMAIN r.levels =>
                   back[i] \in DOMAIN levels /\ levels[back[i]] = r.levels[r.codes[i]]
  <2>. DEFINE c == r.codes[i]
  <2>1. back[i] = CodeBack(r.levels, c)
    BY DEF back, CodesBack
  <2>2. CASE c \notin DOMAIN r.levels
    BY <2>1, <2>2 DEF CodeBack
  <2>3. CASE c \in DOMAIN r.levels /\ r.levels[c] = NA
    <3>1. back[i] = 1
      BY <2>1, <2>3 DEF CodeBack
    <3>2. 1 \in DOMAIN levels /\ levels[1] = NA
      BY <1>10, <1>11, <1>12
    <3>. QED  BY <2>1, <2>3, <3>1, <3>2
  <2>4. CASE c \in DOMAIN r.levels /\ r.levels[c] # NA
    <3>. HIDE DEF c
    <3>1. back[i] = c + 1 - NALevels(r.levels, c)
      BY <2>1, <2>4 DEF CodeBack
    <3>2. back[i] \in 2 .. Len(base) /\ base[back[i]] = r.levels[c]
      BY <1>2, <1>5, <2>4, <3>1 DEF BaseOf
    <3>3. back[i] \in DOMAIN levels /\ levels[back[i]] = base[back[i]]
      BY <1>10, <1>11, <1>12, <3>2
    <3>. QED  BY <2>1, <2>4, <3>2, <3>3 DEF c
  <2>. QED  BY <2>2, <2>3, <2>4
<1>14. back \in Seq(Int) /\ DOMAIN back = DOMAIN r.codes
  <2>1. back \in Seq(Int)
    BY <1>4, ShiftedType, Zenon
  <2>. QED  BY <2>1 DEF back, CodesBack
<1>15. RFactor(levels, back) \in FactorObjects
  <2>1. ASSUME NEW i \in DOMAIN levels, NEW j \in DOMAIN levels, levels[i] = NA, levels[j] = NA PROVE i = j
    <3>1. ASSUME NEW k \in DOMAIN levels, levels[k] = NA PROVE k = 1
      <4>1. k # 1 => k \in 2 .. Len(base) /\ levels[k] = base[k]
        BY <1>10, <1>11, <1>12
      <4>. QED  BY <1>2, <3>1, <4>1 DEF BaseOf
    <3>. QED  BY <2>1, <3>1
  <2>. QED  BY <1>11, <1>13, <1>14, <2>1 DEF RFactor, FactorObjects
<1>16. ASSUME \A i \in DOMAIN r.codes : r.codes[i] # NA PROVE SameVector(r, RFactor(levels, back))
  <2>. DEFINE b == RFactor(levels, back)
  <2>1. b.kind = "factor" /\ b.codes = back /\ b.levels = levels
    BY DEF RFactor
  <2>2. ASSUME NEW i \in DOMAIN r.codes
        PROVE  (IF r.codes[i] = NA THEN NA ELSE IF r.codes[i] \in DOMAIN r.levels THEN r.levels[r.codes[i]] ELSE Bad)
                 = (IF back[i] = NA THEN NA ELSE IF back[i] \in DOMAIN levels THEN levels[back[i]] ELSE Bad)
    <3>1. CASE r.codes[i] \in DOMAIN r.levels
      <4>1. back[i] \in DOMAIN levels /\ levels[back[i]] = r.levels[r.codes[i]] /\ back[i] # NA
        BY <1>12, <1>13, <3>1 DEF NA
      <4>. QED  BY <1>16, <3>1, <4>1
    <3>2. CASE r.codes[i] \notin DOMAIN r.levels
      <4>1. back[i] = Bad /\ Bad # NA /\ Bad \notin DOMAIN levels
        BY <1>12, <1>13, <3>2 DEF CodeBack, Bad, NA
      <4>. QED  BY <1>16, <3>2, <4>1
    <3>. QED  BY <3>1, <3>2
  <2>. HIDE DEF b
  <2>3. Content(r) = Content(b)
    BY <1>1, <1>14, <2>1, <2>2, Zenon DEF Content
  <2>4. SameVector(r, b)
    BY <1>1, <2>1, <2>3 DEF SameVector
  <2>. QED  BY <2>4 DEF b
<1>. QED  BY <1>7, <1>8, <1>9, <1>15, <1>16, Zenon

-----------------------------------------------------------------------------
(* The vectors of DolphinDB.                                               *)

DValue == Nat \cup {Null}

\* What a symbol has as its code on the wire.
SymbolCodes(d) == [i \in DOMAIN d |-> IF d[i] = Null THEN 0 ELSE d[i]]

BodyRest(v) == IF v.t = DT_SYMBASE THEN Symbols(Base(v.base, Null), SymbolCodes(v.data)) ELSE Items(ItemOf(v.t), v.data)

LEMMA BaseType ==
  ASSUME NEW n \in Nat, NEW null \in {Null, NA}
  PROVE  Base(n, null) \in Seq(RValue) /\ Base(n, null) \in Seq(Int) /\ Len(Base(n, null)) = n
         /\ \A i \in 1 .. n : Base(n, null)[i] = IF i = 1 THEN null ELSE i - 1
<1>1. \A i \in 1 .. n : (IF i = 1 THEN null ELSE i - 1) \in RValue
  BY DEF RValue
<1>2. Base(n, null) \in [1 .. n -> RValue] /\ DOMAIN Base(n, null) = 1 .. n
  BY <1>1, Zenon DEF Base
<1>3. Base(n, null) \in Seq(RValue) /\ Len(Base(n, null)) = n
  BY <1>2, AsSequence, Zenon
<1>. QED  BY <1>2, <1>3, RValueType, SubsetSeq, Zenon DEF Base

\* What a vector of symbols may hold.
SymbolIn(x, n) == x \in 1 .. n - 1 \/ (x = Null /\ n > 0)

LEMMA SymbolNext ==
  ASSUME NEW n \in Nat, NEW x \in Int, SymbolIn(x, n)
  PROVE  /\ (IF x = Null THEN 1 ELSE x + 1) \in 1 .. n
         /\ x # Null => x + 1 \in 1 .. n /\ x + 1 # 1 /\ (x + 1) - 1 = x
<1>. QED  BY DEF SymbolIn, Null

LEMMA DVectorType ==
  ASSUME NEW v \in DVectors
  PROVE  /\ v.t \in 0 .. 255 /\ v.data \in Seq(RValue) /\ v.data \in Seq(Int) /\ v.base \in Nat
         /\ v.t = DT_SYMBASE => \A i \in DOMAIN v.data : SymbolIn(v.data[i], v.base)
         /\ v.t = DT_SYMBASE => SymbolCodes(v.data) \in Seq(Int) /\ Len(SymbolCodes(v.data)) = Len(v.data)
<1>1. v.t \in 0 .. 255 /\ v.data \in Seq(DValue) /\ v.base \in Nat
      /\ (v.t = DT_SYMBASE => \A i \in DOMAIN v.data : SymbolIn(v.data[i], v.base))
  BY DEF DVectors, DValue, SymbolIn
<1>2. DValue \subseteq RValue /\ DValue \subseteq Int
  BY DEF DValue, RValue, Null
<1>3. v.data \in Seq(RValue) /\ v.data \in Seq(Int)
  BY <1>1, <1>2, SubsetSeq, Zenon
<1>4. DOMAIN v.data = 1 .. Len(v.data) /\ Len(v.data) \in Nat
  BY <1>3
<1>5. ASSUME v.t = DT_SYMBASE PROVE SymbolCodes(v.data) \in [1 .. Len(v.data) -> Int]
  <2>1. \A i \in 1 .. Len(v.data) : (IF v.data[i] = Null THEN 0 ELSE v.data[i]) \in Int
    BY <1>3
  <2>. QED  BY <1>4, <2>1, Zenon DEF SymbolCodes
<1>6. v.t = DT_SYMBASE => SymbolCodes(v.data) \in Seq(Int) /\ Len(SymbolCodes(v.data)) = Len(v.data)
  BY <1>4, <1>5, AsSequence, Zenon
<1>. QED  BY <1>1, <1>3, <1>6, Zenon

LEMMA BodyRestType == ASSUME NEW v \in DVectors PROVE BodyRest(v) \in Seq(Wire)
<1>1. CASE v.t = DT_SYMBASE
  <2>1. Base(v.base, Null) \in Seq(Int)
    BY DVectorType, BaseType
  <2>. QED  BY <1>1, <2>1, DVectorType, SymbolsType, Zenon DEF BodyRest
<1>2. CASE v.t # DT_SYMBASE
  <2>1. ItemOf(v.t) \in Words
    <3>1. CASE v.t \in Plain
      BY <3>1, WidthType DEF ItemOf, Plain, DT_VOID
    <3>2. CASE v.t \notin Plain
      BY <3>2 DEF ItemOf, Words
    <3>. QED  BY <3>1, <3>2
  <2>. QED  BY <1>2, <2>1, DVectorType, ItemsType, Zenon DEF BodyRest
<1>. QED  BY <1>1, <1>2

LEMMA BodyIs ==
  ASSUME NEW v \in DVectors, NEW dim
  PROVE  Body(v, dim) = <<Item("int", dim[1]), Item("int", dim[2])>> \o BodyRest(v)
<1>1. CASE v.t = DT_SYMBASE
  <2>. DEFINE a == <<Item("int", 0), Item("int", v.base)>>
              b == Items("string", Base(v.base, Null))
              codes == [i \in DOMAIN v.data |-> Item("int", IF v.data[i] = Null THEN 0 ELSE v.data[i])]
  <2>1. codes = Items("int", SymbolCodes(v.data))
    BY DEF Items, SymbolCodes
  <2>2. Len(Base(v.base, Null)) = v.base
    BY DVectorType, BaseType
  <2>3. (a \o b) \o codes = BodyRest(v)
    BY <1>1, <2>1, <2>2, Zenon DEF BodyRest, Symbols
  <2>. QED  BY <1>1, <2>3, Zenon DEF Body
<1>2. CASE v.t # DT_SYMBASE
  BY <1>2, Zenon DEF Body, BodyRest
<1>. QED  BY <1>1, <1>2

FlagAndBody(v, f, dim, row, clm) ==
  /\ <<Flag(f, v.t)>> \o Body(v, dim) = Header(f, v.t, row, clm) \o BodyRest(v)
  /\ Body(v, dim) \in Seq(Wire)

LEMMA FlagBody ==
  ASSUME NEW v \in DVectors, NEW f \in 0 .. 6, NEW dim, NEW row \in Int, NEW clm \in Int, dim[1] = row, dim[2] = clm
  PROVE  FlagAndBody(v, f, dim, row, clm)
<1>. DEFINE r == BodyRest(v)
            d == <<Item("int", row), Item("int", clm)>>
            g == <<Flag(f, v.t)>>
<1>1. r \in Seq(Wire)
  BY BodyRestType
<1>2. v.t \in 0 .. 255
  BY DVectorType
<1>3. Flag(f, v.t) \in Wire
  BY <1>2, FlagType
<1>4. Item("int", row) \in Wire /\ Item("int", clm) \in Wire
  BY ItemType DEF Words
<1>5. d \in Seq(Wire) /\ g \in Seq(Wire) /\ g \o d = Header(f, v.t, row, clm)
  <2>1. d \in Seq(Wire)
    BY <1>4
  <2>2. g \in Seq(Wire)
    BY <1>3
  <2>3. g \o d = Header(f, v.t, row, clm)
    <3>1. ASSUME NEW a \in Wire, NEW b \in Wire, NEW c \in Wire PROVE <<a>> \o <<b, c>> = <<a, b, c>>
      <4>1. <<a>> \in Seq(Wire) /\ <<b, c>> \in Seq(Wire) /\ <<a, b, c>> \in Seq(Wire)
        OBVIOUS
      <4>2. Len(<<a>> \o <<b, c>>) = 3 /\ Len(<<a, b, c>>) = 3
        BY <4>1
      <4>3. \A i \in 1 .. 3 : (<<a>> \o <<b, c>>)[i] = <<a, b, c>>[i]
        BY <4>1
      <4>. QED  BY <4>1, <4>2, <4>3, WireConcat, SeqEqual
    <3>2. <<Flag(f, v.t)>> \o <<Item("int", row), Item("int", clm)>> = <<Flag(f, v.t), Item("int", row), Item("int", clm)>>
      BY <1>3, <1>4, <3>1, Zenon
    <3>. QED  BY <3>2, Zenon DEF Header
  <2>. QED  BY <2>1, <2>2, <2>3
<1>6. Body(v, dim) = d \o r
  BY BodyIs, Zenon
<1>. HIDE DEF g, d, r
<1>7. d \o r \in Seq(Wire) /\ (g \o d) \o r = g \o (d \o r)
  BY <1>1, <1>5, WireConcat, WireAssociative, Zenon
<1>. QED  BY <1>5, <1>6, <1>7, Zenon DEF FlagAndBody, g, r

\* The C++ object of a vector that is read.
DVec(v, row, clm) ==
  IF v.t = DT_SYMBASE THEN Vec(DT_SYMBASE, row, clm, Shifted(SymbolCodes(v.data)), Base(v.base, Null))
  ELSE Vec(v.t, row, clm, v.data, <<>>)

LEMMA DVectorCarried ==
  ASSUME NEW v \in DVectors, SupportedVector(v), NEW f \in 0 .. 6, NEW row \in Nat, NEW clm \in Nat, NEW dim,
         dim[1] = row, dim[2] = clm, Len(v.data) = row * clm
  PROVE  Carries(<<Flag(f, v.t)>> \o Body(v, dim), DVec(v, row, clm))
<1>0. row \in Int /\ clm \in Int
  OBVIOUS
<1>1. <<Flag(f, v.t)>> \o Body(v, dim) = Header(f, v.t, row, clm) \o BodyRest(v)
  <2>1. FlagAndBody(v, f, dim, row, clm)
    BY <1>0, FlagBody, Zenon
  <2>. QED  BY <2>1, Zenon DEF FlagAndBody
<1>2. CASE v.t = DT_SYMBASE
  <2>1. Base(v.base, Null) \in Seq(Int)
    BY DVectorType, BaseType
  <2>2. SymbolCodes(v.data) \in Seq(Int) /\ Len(SymbolCodes(v.data)) = row * clm
    BY <1>2, DVectorType, Zenon
  <2>. QED  BY <1>1, <1>2, <2>1, <2>2, SymbolsCarry, Zenon DEF BodyRest, DVec
<1>3. CASE v.t # DT_SYMBASE
  <2>1. v.t \in Plain /\ ItemOf(v.t) = Width[v.t]
    BY <1>3 DEF SupportedVector, ItemOf, Plain, DT_VOID
  <2>2. v.data \in Seq(Int)
    BY DVectorType, Zenon
  <2>. QED  BY <1>1, <1>3, <2>1, <2>2, PlainCarries, Zenon DEF BodyRest, DVec
<1>. QED  BY <1>2, <1>3

\* A vector of another type is not read.
StopsAt(in, p, t) == FlaggedVector(in, p) = [p |-> p + 1, vec |-> Nothing(t)]

LEMMA DVectorStops ==
  ASSUME NEW t \in 0 .. 255, t \notin Plain \cup {DT_SYMBASE}, NEW f \in 0 .. 6, NEW r \in Seq(Wire),
         NEW in, NEW p \in Nat, Holds(in, p, <<Flag(f, t)>> \o r)
  PROVE  StopsAt(in, p, t)
<1>1. TypeOf(At(in, p, "short")) = t
  BY HoldsFlag, Zenon
<1>2. CreateVector(in, p + 1, t) = [p |-> p + 1, vec |-> Nothing(t)]
  BY DEF CreateVector
<1>. QED  BY <1>1, <1>2, Zenon DEF FlaggedVector, StopsAt

LEMMA ClassType == ASSUME NEW t \in Plain PROVE Class[t] \in DOMAIN UploadType
<1>1. DOMAIN UploadType = {"logical", "integer", "numeric", "character", "Date", "POSIXct"}
  BY DEF UploadType
<1>2. Class[t] \in {"logical", "integer", "numeric", "character", "Date", "POSIXct"}
  BY DEF Class
<1>. QED  BY <1>1, <1>2

LEMMA DVecFields ==
  ASSUME NEW v \in DVectors, NEW row, NEW clm
  PROVE  LET vec == DVec(v, row, clm)
         IN  /\ vec.t = v.t /\ vec.row = row /\ vec.clm = clm
             /\ v.t = DT_SYMBASE => vec.data = Shifted(SymbolCodes(v.data)) /\ vec.levels = Base(v.base, Null)
             /\ v.t # DT_SYMBASE => vec.data = v.data
<1>. QED  BY VecFields DEF DVec

\* Symbols: code 0, the null, comes as 1, and the codes 1 and 2 as 2 and 3.
LEMMA SymbolsBack ==
  ASSUME NEW v \in DVectors, v.t = DT_SYMBASE
  PROVE  /\ Shifted(SymbolCodes(v.data)) = [i \in DOMAIN v.data |-> IF v.data[i] = Null THEN 1 ELSE v.data[i] + 1]
         /\ DOMAIN Shifted(SymbolCodes(v.data)) = DOMAIN v.data
<1>. DEFINE codes == SymbolCodes(v.data)
<1>1. codes = [i \in DOMAIN v.data |-> IF v.data[i] = Null THEN 0 ELSE v.data[i]]
  BY DEF SymbolCodes
<1>2. ASSUME NEW i \in DOMAIN v.data
      PROVE  (IF codes[i] < 0 THEN Bad ELSE codes[i] + 1) = (IF v.data[i] = Null THEN 1 ELSE v.data[i] + 1)
  <2>1. codes[i] = IF v.data[i] = Null THEN 0 ELSE v.data[i]
    BY <1>1
  <2>2. SymbolIn(v.data[i], v.base) /\ v.base \in Nat
    BY DVectorType
  <2>. HIDE DEF codes
  <2>. QED  BY <2>1, <2>2 DEF Null, SymbolIn
<1>3. DOMAIN codes = DOMAIN v.data
  BY <1>1
<1>. HIDE DEF codes
<1>4. Shifted(codes) = [i \in DOMAIN v.data |-> IF v.data[i] = Null THEN 1 ELSE v.data[i] + 1]
  BY <1>2, <1>3, Zenon DEF Shifted
<1>5. DOMAIN Shifted(codes) = DOMAIN v.data
  BY <1>3, Zenon DEF Shifted
<1>. QED  BY <1>4, <1>5 DEF codes

LEMMA SameReflexive ==
  ASSUME NEW a, a.kind \in {"vector", "factor", "matrix"} PROVE SameVector(a, a)
<1>. QED  BY DEF SameVector

\* A column, or a vector or factor of its own, is what is expected.
LEMMA DColumn ==
  ASSUME NEW v \in DVectors, SupportedVector(v), NEW row, NEW clm
  PROVE  /\ Column(DVec(v, row, clm)) = Expected(v)
         /\ Expected(v) \in VectorObjects \cup FactorObjects
         /\ SameVector(Expected(v), Expected(v))
         /\ WithNA(DVec(v, row, clm)) = NullsAreNA(v.data)
<1>. DEFINE vec == DVec(v, row, clm)
<1>1. CASE v.t # DT_SYMBASE
  <2>1. v.t \in Plain
    BY <1>1 DEF SupportedVector
  <2>2. vec.t = v.t
    BY DVecFields
  <2>3. WithNA(vec) = NullsAreNA(v.data)
    BY <1>1, <2>1, WithNAPlain, Zenon DEF DVec
  <2>4. Expected(v) = RVector(Class[v.t], NullsAreNA(v.data))
    BY <1>1, Zenon DEF Expected
  <2>5. Column(vec) = Expected(v)
    <3>. HIDE DEF vec
    <3>. QED  BY <1>1, <2>2, <2>3, <2>4, Zenon DEF Column
  <2>6. NullsAreNA(v.data) \in Seq(RValue) /\ Class[v.t] \in RClasses
    BY <2>1, DVectorType, NullsAreNAType, ClassType, Zenon DEF RClasses
  <2>7. Expected(v) \in VectorObjects /\ Expected(v).kind = "vector"
    BY <2>4, <2>6 DEF VectorObjects, RVector
  <2>. QED  BY <2>3, <2>5, <2>7, SameReflexive
<1>2. CASE v.t = DT_SYMBASE
  <2>1. /\ vec.t = DT_SYMBASE /\ vec.data = Shifted(SymbolCodes(v.data)) /\ vec.levels = Base(v.base, Null)
    BY <1>2, DVecFields
  <2>. HIDE DEF vec
  <2>. DEFINE back == [i \in DOMAIN v.data |-> IF v.data[i] = Null THEN 1 ELSE v.data[i] + 1]
  <2>2. vec.data = back
    BY <1>2, <2>1, SymbolsBack, Zenon
  <2>. DEFINE n == v.base
  <2>0. n \in Nat
    BY DVectorType, Zenon
  <2>. HIDE DEF n, back
  <2>14. Base(n, Null) \in Seq(RValue) /\ Len(Base(n, Null)) = n
         /\ \A i \in 1 .. n : Base(n, Null)[i] = IF i = 1 THEN Null ELSE i - 1
    <3>1. Null \in {Null, NA}
      OBVIOUS
    <3>. QED  BY <2>0, <3>1, BaseType, Zenon
  <2>15. Base(n, NA) \in Seq(RValue) /\ Len(Base(n, NA)) = n
         /\ \A i \in 1 .. n : Base(n, NA)[i] = IF i = 1 THEN NA ELSE i - 1
    <3>1. NA \in {Null, NA}
      OBVIOUS
    <3>. QED  BY <2>0, <3>1, BaseType, Zenon
  <2>16. DOMAIN Base(n, Null) = 1 .. n /\ DOMAIN Base(n, NA) = 1 .. n
    BY <2>0, <2>14, <2>15
  <2>3. [i \in DOMAIN vec.levels |-> IF i = 1 THEN NA ELSE vec.levels[i]] = Base(n, NA)
    <3>1. vec.levels = Base(n, Null)
      BY <2>1 DEF n
    <3>2. DOMAIN vec.levels = 1 .. n /\ Base(n, NA) = [i \in 1 .. n |-> IF i = 1 THEN NA ELSE i - 1]
      BY <2>16, <3>1, Zenon DEF Base
    <3>3. \A i \in 1 .. n : (IF i = 1 THEN NA ELSE vec.levels[i]) = (IF i = 1 THEN NA ELSE i - 1)
      BY <2>14, <3>1, Zenon
    <3>. QED  BY <3>2, <3>3, Zenon
  <2>4. Column(vec) = Expected(v)
    BY <1>2, <2>1, <2>2, <2>3, Zenon DEF Column, Factor, Expected, n, back
  <2>5. /\ v.data \in Seq(Int) /\ DOMAIN v.data = 1 .. Len(v.data) /\ Len(v.data) \in Nat
        /\ \A i \in DOMAIN v.data : SymbolIn(v.data[i], n)
    BY <1>2, DVectorType DEF n
  <2>6. ASSUME NEW i \in 1 .. Len(v.data) PROVE (IF v.data[i] = Null THEN 1 ELSE v.data[i] + 1) \in 1 .. n
    <3>1. SymbolIn(v.data[i], n) /\ v.data[i] \in Int
      BY <2>5
    <3>. QED  BY <2>0, <3>1, SymbolNext, Zenon
  <2>7. back \in [1 .. Len(v.data) -> 1 .. n]
    BY <2>5, <2>6, Zenon DEF back
  <2>8. back \in Seq(1 .. n)
    BY <2>5, <2>7, AsSequence, Zenon
  <2>9. 1 .. n \subseteq Int
    OBVIOUS
  <2>10. back \in Seq(Int)
    BY <2>8, <2>9, SubsetSeq
  <2>11. Expected(v) = RFactor(Base(n, NA), back)
    BY <1>2, Zenon DEF Expected, n, back
  <2>12. Expected(v) \in FactorObjects /\ Expected(v).kind = "factor"
    <3>. DEFINE levels == Base(n, NA)
                r == RFactor(levels, back)
    <3>1. r.kind = "factor" /\ r.levels = levels /\ r.codes = back
          /\ r = [kind |-> "factor", levels |-> r.levels, codes |-> r.codes]
      BY DEF RFactor
    <3>2. levels \in Seq(RValue) /\ DOMAIN levels = 1 .. n
      BY <2>15, <2>16, Zenon
    <3>3. \A i, j \in DOMAIN levels : levels[i] = NA /\ levels[j] = NA => i = j
      <4>1. \A i \in 1 .. n : i = 1 \/ (levels[i] = i - 1 /\ i - 1 # NA)
        <5>1. \A i \in 1 .. n : i - 1 # NA
          BY <2>0 DEF NA
        <5>. QED  BY <2>15, <5>1, Zenon
      <4>2. \A i \in 1 .. n : levels[i] = NA => i = 1
        BY <4>1, Zenon
      <4>. QED  BY <3>2, <4>2, Zenon
    <3>4. \A i \in DOMAIN back : back[i] \in DOMAIN levels
      <4>1. DOMAIN back = 1 .. Len(v.data) /\ \A i \in 1 .. Len(v.data) : back[i] \in 1 .. n
        BY <2>7, Zenon
      <4>. QED  BY <3>2, <4>1, Zenon
    <3>. HIDE DEF r, levels
    <3>5. r \in FactorObjects
      BY <2>10, <3>1, <3>2, <3>3, <3>4 DEF FactorObjects
    <3>. QED  BY <2>11, <3>1, <3>5 DEF r, levels
  <2>13. WithNA(vec) = NullsAreNA(v.data)
    <3>1. DOMAIN vec.data = DOMAIN v.data
      BY <1>2, <2>1, SymbolsBack, Zenon
    <3>2. NAIndex(vec, TRUE) = {i \in DOMAIN v.data : vec.data[i] = 1}
      BY <2>1, <3>1 DEF NAIndex, DT_INT, DT_SYMBASE
    <3>3. Values(vec) = [i \in DOMAIN v.data |->
                           IF vec.data[i] \in DOMAIN vec.levels THEN vec.levels[vec.data[i]] ELSE Bad]
      BY <2>1, <3>1 DEF Values, DT_INT, DT_SYMBASE
    <3>4. ASSUME NEW i \in DOMAIN v.data
          PROVE  (IF i \in NAIndex(vec, TRUE) THEN NA ELSE Values(vec)[i]) = (IF v.data[i] = Null THEN NA ELSE v.data[i])
      <4>1. SymbolIn(v.data[i], n) /\ v.data[i] \in Int
        BY <2>5
      <4>2. vec.data[i] = IF v.data[i] = Null THEN 1 ELSE v.data[i] + 1
        BY <2>2 DEF back
      <4>3. Values(vec)[i] = IF vec.data[i] \in DOMAIN vec.levels THEN vec.levels[vec.data[i]] ELSE Bad
        BY <3>3
      <4>4. DOMAIN vec.levels = 1 .. n /\ \A j \in 1 .. n : j # 1 => vec.levels[j] = j - 1
        <5>1. vec.levels = Base(n, Null)
          BY <2>1, Zenon DEF n
        <5>. QED  BY <2>14, <2>16, <5>1, Zenon
      <4>5. CASE v.data[i] = Null
        BY <3>2, <4>2, <4>5
      <4>6. CASE v.data[i] # Null
        <5>1. vec.data[i] = v.data[i] + 1
          BY <4>2, <4>6, Zenon
        <5>2. vec.data[i] \in 1 .. n /\ vec.data[i] # 1 /\ vec.data[i] - 1 = v.data[i]
          BY <2>0, <4>1, <4>6, <5>1, SymbolNext, Zenon
        <5>3. Values(vec)[i] = v.data[i]
          BY <4>3, <4>4, <5>2
        <5>. QED  BY <3>2, <4>6, <5>2, <5>3
      <4>. QED  BY <4>5, <4>6
    <3>5. DOMAIN Values(vec) = DOMAIN v.data
      BY <3>3
    <3>. QED  BY <3>4, <3>5, Zenon DEF WithNA, SetReceiveVectorNA, NullsAreNA
  <2>. QED  BY <2>4, <2>12, <2>13, SameReflexive DEF vec
<1>. QED  BY <1>1, <1>2

-----------------------------------------------------------------------------
(* The factor that R makes of the strings of a column.                     *)

LEMMA StringLevels ==
  ASSUME NEW d \in Seq(RValue), NEW S, S = {d[i] : i \in DOMAIN d} \ {NA}
  PROVE  /\ SetToSeq(S) \in Seq(RValue) /\ SetToSeq(S) \in Seq(S)
         /\ \A x \in S : \E k \in DOMAIN SetToSeq(S) : SetToSeq(S)[k] = x
<1>. DEFINE T == {d[i] : i \in DOMAIN d}
            D == DOMAIN d
            n == Cardinality(S)
            levels == SetToSeq(S)
<1>1. D = 1 .. Len(d) /\ Len(d) \in Nat /\ T \subseteq RValue
  <2>1. D = 1 .. Len(d) /\ Len(d) \in Nat /\ \A i \in D : d[i] \in RValue
    OBVIOUS
  <2>2. T \subseteq RValue
    BY <2>1, Zenon
  <2>. QED  BY <2>1, <2>2
<1>2. IsFiniteSet(D)
  <2>1. 1 \in Int /\ Len(d) \in Int
    BY <1>1
  <2>2. IsFiniteSet(1 .. Len(d))
    BY <2>1, FS_Interval
  <2>. QED  BY <1>1, <2>2
<1>3. d \in Surjection(D, T)
  <2>1. d \in [D -> T]
    <3>1. d = [i \in D |-> d[i]] /\ \A i \in D : d[i] \in T
      BY <1>1
    <3>. QED  BY <3>1, Zenon
  <2>2. \A x \in T : \E i \in D : d[i] = x
    BY Zenon
  <2>. HIDE DEF T, D
  <2>. QED  BY <2>1, <2>2, Zenon DEF Surjection
<1>. HIDE DEF T, D
<1>4. IsFiniteSet(S)
  <2>1. IsFiniteSet(T)
    BY <1>2, <1>3, FS_Surjection, Zenon
  <2>2. S \subseteq T
    BY DEF T
  <2>. QED  BY <2>1, <2>2, FS_Subset, Zenon
<1>5. n \in Nat /\ \E f : f \in Bijection(1 .. n, S)
  <2>1. n \in Nat /\ ExistsBijection(1 .. n, S)
    BY <1>4, FS_CardinalityType, Zenon
  <2>. QED  BY <2>1, Zenon DEF ExistsBijection
<1>6. \E f \in [1 .. n -> S] : IsInjective(f)
  BY <1>5, Zenon DEF Bijection, Injection
<1>7. levels \in [1 .. n -> S] /\ IsInjective(levels)
  BY <1>6, Zenon DEF SetToSeq
<1>. HIDE DEF levels
<1>8. levels \in Surjection(1 .. n, S)
  <2>1. levels \in Injection(1 .. n, S)
    BY <1>7, Zenon DEF Injection
  <2>2. Cardinality(1 .. n) = n
    BY <1>5, FS_Interval
  <2>. QED  BY <1>4, <2>1, <2>2, FS_Injection, Zenon DEF n
<1>9. levels \in Seq(S)
  BY <1>5, <1>7, AsSequence, Zenon
<1>10. S \subseteq RValue
  BY <1>1 DEF T
<1>11. levels \in Seq(RValue)
  BY <1>9, <1>10, SubsetSeq, Zenon
<1>12. \A x \in S : \E k \in DOMAIN levels : levels[k] = x
  <2>1. DOMAIN levels = 1 .. n
    BY <1>7, Zenon
  <2>. QED  BY <1>8, <2>1, Zenon DEF Surjection
<1>. QED  BY <1>9, <1>11, <1>12 DEF levels

LEMMA AsFactorKeeps ==
  ASSUME NEW d \in Seq(RValue)
  PROVE  AsFactor(d) \in FactorObjects /\ AsFactor(d).kind = "factor" /\ Content(AsFactor(d)) = d
<1>. DEFINE S == {d[i] : i \in DOMAIN d} \ {NA}
            levels == SetToSeq(S)
            code(x) == IF x = NA THEN NA ELSE CHOOSE k \in DOMAIN levels : levels[k] = x
            codes == [i \in DOMAIN d |-> code(d[i])]
            r == RFactor(levels, codes)
<1>1. levels \in Seq(RValue) /\ levels \in Seq(S) /\ \A x \in S : \E k \in DOMAIN levels : levels[k] = x
  BY StringLevels, Zenon
<1>2. AsFactor(d) = r
  BY Zenon DEF AsFactor
<1>3. \A x : x \in S <=> x # NA /\ \E i \in DOMAIN d : d[i] = x
  OBVIOUS
<1>. HIDE DEF S, levels
<1>4. ASSUME NEW i \in DOMAIN d
      PROVE  /\ d[i] = NA => code(d[i]) = NA
             /\ d[i] # NA => code(d[i]) \in DOMAIN levels /\ levels[code(d[i])] = d[i]
  BY <1>1, <1>3, Zenon
<1>5. DOMAIN levels = 1 .. Len(levels) /\ DOMAIN d = 1 .. Len(d) /\ Len(d) \in Nat
      /\ \A k \in DOMAIN levels : levels[k] # NA
  <2>1. \A k \in DOMAIN levels : levels[k] \in S
    BY <1>1
  <2>2. DOMAIN levels = 1 .. Len(levels) /\ DOMAIN d = 1 .. Len(d) /\ Len(d) \in Nat
    BY <1>1
  <2>. QED  BY <1>3, <2>1, <2>2, Zenon
<1>6. r.kind = "factor" /\ r.levels = levels /\ r.codes = codes
      /\ r = [kind |-> "factor", levels |-> r.levels, codes |-> r.codes]
  BY DEF RFactor
<1>7. DOMAIN codes = DOMAIN d /\ \A i \in DOMAIN d : codes[i] = code(d[i])
  BY Zenon
<1>. HIDE DEF r, code, codes
<1>8. \A i \in DOMAIN codes : codes[i] \in {NA} \cup DOMAIN levels
  BY <1>4, <1>7
<1>9. codes \in Seq(Int)
  <2>1. \A i \in 1 .. Len(d) : codes[i] \in Int
    BY <1>5, <1>7, <1>8 DEF NA
  <2>2. codes = [i \in 1 .. Len(d) |-> codes[i]]
    BY <1>5 DEF codes
  <2>3. codes \in [1 .. Len(d) -> Int]
    BY <2>1, <2>2
  <2>. QED  BY <1>5, <2>3, AsSequence, Zenon
<1>10. r \in FactorObjects
  BY <1>1, <1>5, <1>6, <1>8, <1>9 DEF FactorObjects
<1>11. Content(r) = d
  <2>1. Content(r) = [i \in DOMAIN d |-> IF codes[i] = NA THEN NA
                                          ELSE IF codes[i] \in DOMAIN levels THEN levels[codes[i]] ELSE Bad]
    BY <1>6, <1>7 DEF Content
  <2>2. ASSUME NEW i \in DOMAIN d
        PROVE  (IF codes[i] = NA THEN NA ELSE IF codes[i] \in DOMAIN levels THEN levels[codes[i]] ELSE Bad) = d[i]
    <3>1. CASE d[i] = NA
      BY <1>4, <1>7, <3>1
    <3>2. CASE d[i] # NA
      <4>1. codes[i] \in DOMAIN levels /\ levels[codes[i]] = d[i]
        BY <1>4, <1>7, <3>2
      <4>2. codes[i] # NA
        BY <1>5, <4>1 DEF NA
      <4>. QED  BY <4>1, <4>2
    <3>. QED  BY <3>1, <3>2
  <2>3. d = [i \in DOMAIN d |-> d[i]]
    OBVIOUS
  <2>. QED  BY <2>1, <2>2, <2>3, Zenon
<1>. QED  BY <1>2, <1>6, <1>10, <1>11

\* A column of a data frame has the values of the vector or factor it is made
\* from, whether or not R keeps strings.
LEMMA FrameColumnSame ==
  ASSUME NEW vec, vec.t \in Plain \cup {DT_SYMBASE}, NEW kept \in BOOLEAN,
         Column(vec) \in VectorObjects \cup FactorObjects
  PROVE  /\ FrameColumn(vec, kept) \in VectorObjects \cup FactorObjects
         /\ \A a : (a.kind = "vector" => a = Column(vec)) /\ SameVector(a, Column(vec)) =>
                     SameColumn(a, FrameColumn(vec, kept), kept)
<1>1. vec.t \in Plain => Column(vec) = RVector(Class[vec.t], WithNA(vec)) /\ Column(vec).kind = "vector"
                         /\ Column(vec).class = Class[vec.t] /\ Column(vec).data = WithNA(vec)
  <2>1. vec.t \in Plain => vec.t # DT_SYMBASE
    BY DEF Plain, DT_SYMBASE
  <2>2. vec.t \in Plain => Column(vec) = RVector(Class[vec.t], WithNA(vec))
    BY <2>1, Zenon DEF Column
  <2>. QED  BY <2>2 DEF RVector
<1>2. vec.t \notin Plain => Column(vec).kind = "factor"
  <2>1. vec.t \notin Plain => Column(vec) = Factor(vec)
    BY Zenon DEF Column
  <2>. QED  BY <2>1 DEF Factor, RFactor
<1>3. CASE ~ kept /\ vec.t \in Plain /\ Class[vec.t] = "character"
  <2>1. FrameColumn(vec, kept) = AsFactor(WithNA(vec))
    BY <1>3, Zenon DEF FrameColumn
  <2>2. WithNA(vec) \in Seq(RValue)
    <3>1. Column(vec) \in VectorObjects
      BY <1>1, <1>3 DEF FactorObjects
    <3>. QED  BY <1>1, <1>3, <3>1 DEF VectorObjects
  <2>3. /\ FrameColumn(vec, kept) \in FactorObjects /\ FrameColumn(vec, kept).kind = "factor"
        /\ Content(FrameColumn(vec, kept)) = WithNA(vec)
    BY <2>1, <2>2, AsFactorKeeps, Zenon
  <2>4. ASSUME NEW a, a.kind = "vector" => a = Column(vec), SameVector(a, Column(vec))
        PROVE  SameColumn(a, FrameColumn(vec, kept), kept)
    <3>1. a.kind = "vector"
      BY <1>1, <1>3, <2>4, Zenon DEF SameVector
    <3>2. a = Column(vec)
      BY <2>4, <3>1
    <3>3. a.class = "character" /\ a.data = WithNA(vec)
      BY <1>1, <1>3, <3>2, Zenon
    <3>4. ~ kept /\ a.kind = "vector" /\ a.class = "character"
      BY <1>3, <3>1, <3>3
    <3>5. FrameColumn(vec, kept).kind = "factor" /\ Content(FrameColumn(vec, kept)) = a.data
      BY <2>3, <3>3, Zenon
    <3>. QED  BY <3>4, <3>5, Zenon DEF SameColumn
  <2>. QED  BY <2>3, <2>4
<1>4. CASE ~ (~ kept /\ vec.t \in Plain /\ Class[vec.t] = "character")
  <2>1. FrameColumn(vec, kept) = Column(vec)
    BY <1>4, Zenon DEF FrameColumn
  <2>2. ASSUME NEW a, a.kind = "vector" => a = Column(vec), SameVector(a, Column(vec))
        PROVE  ~ (~ kept /\ a.kind = "vector" /\ a.class = "character")
    <3>1. a.kind = "vector" => vec.t \in Plain /\ a.class = Class[vec.t]
      <4>1. a.kind = "vector" => Column(vec).kind = "vector"
        BY <2>2, Zenon DEF SameVector
      <4>2. a.kind = "vector" => vec.t \in Plain
        BY <1>2, <4>1
      <4>. QED  BY <1>1, <2>2, <4>2
    <3>. QED  BY <1>4, <3>1
  <2>. QED  BY <2>1, <2>2, Zenon DEF SameColumn
<1>. QED  BY <1>3, <1>4

-----------------------------------------------------------------------------
(* What a written object is read as, wherever it is in a stream.           *)

EntityAt(in, p) == Entity(in, p + 1, FormOf(At(in, p, "short")), TypeOf(At(in, p, "short")))

CarriesEntity(s, e) ==
  /\ s \in Seq(Wire) /\ e \in Ents
  /\ \A in \in Seq(Wire), p \in Nat :
       Holds(in, p, s) => EntityAt(in, p) = [p |-> p + Len(s), e |-> e]

LEMMA FlagAtType ==
  ASSUME NEW in \in Seq(Wire), NEW p PROVE FormOf(At(in, p, "short")) \in Int /\ TypeOf(At(in, p, "short")) \in Int
<1>1. At(in, p, "short") \in Int
  BY AtType, Zenon
<1>. QED  BY <1>1 DEF FormOf, TypeOf

LEMMA EntityAtType ==
  ASSUME NEW in \in Seq(Wire), NEW p \in Nat
  PROVE  EntityAt(in, p).p \in Nat /\ EntityAt(in, p).e \in Ents
<1>1. p + 1 \in Nat
  OBVIOUS
<1>2. EntityAt(in, p) \in ReadEnts
  BY <1>1, FlagAtType, EntityType, Zenon DEF EntityAt
<1>. QED  BY <1>2 DEF ReadEnts

\* An entity has the form and the type of its flag.
LEMMA EntityIs ==
  ASSUME NEW in \in Seq(Wire), NEW p \in Nat, NEW form \in Int, NEW t \in Int
  PROVE  Entity(in, p, form, t).e.form = form /\ Entity(in, p, form, t).e.type = t
<1>1. ASSUME NEW read \in ReadVecs PROVE Holding(form, t, read.vec).form = form /\ Holding(form, t, read.vec).type = t
  <2>1. read.vec \in Vecs
    BY DEF ReadVecs
  <2>. QED  BY <2>1, HoldingType
<1>2. CreateScalar(in, p, t) \in ReadVecs /\ CreateVector(in, p, t) \in ReadVecs /\ FlaggedVector(in, p) \in ReadVecs
  BY CreateScalarType, CreateVectorType, FlaggedType
<1>3. CASE form = DF_MATRIX
  <2>1. MatrixEntity(t, Matrixx(in, p).mtx, Matrixx(in, p).row, Matrixx(in, p).clm).form = DF_MATRIX
    BY MatrixxType, MatrixEntityType
  <2>2. MatrixEntity(t, Matrixx(in, p).mtx, Matrixx(in, p).row, Matrixx(in, p).clm).type = t
    BY MatrixxType, MatrixEntityType
  <2>. QED  BY <1>3, <2>1, <2>2, EntityCases
<1>4. CASE form = DF_TABLE
  <2>1. TableEntity(t, Tablee(in, p).names, Tablee(in, p).columns).form = DF_TABLE
    BY TableeType, TableEntityType
  <2>2. TableEntity(t, Tablee(in, p).names, Tablee(in, p).columns).type = t
    BY TableeType, TableEntityType
  <2>. QED  BY <1>4, <2>1, <2>2, EntityCases
<1>5. CASE form \in {DF_SCALAR, DF_VECTOR, DF_PAIR, DF_SET}
  BY <1>1, <1>2, <1>5, EntityCases
<1>6. CASE form \notin {DF_SCALAR, DF_VECTOR, DF_PAIR, DF_SET, DF_MATRIX, DF_TABLE}
  BY <1>6, EntityCases DEF Object
<1>. QED  BY <1>3, <1>4, <1>5, <1>6, Zenon

HoldsFirst(in, p, w, r) == Holds(in, p + 1, r) /\ p \in DOMAIN in /\ in[p] = w

LEMMA HoldsConcat ==
  ASSUME NEW in, NEW p \in Nat, NEW w \in Wire, NEW r \in Seq(Wire), Holds(in, p, <<w>> \o r)
  PROVE  HoldsFirst(in, p, w, r)
<1>1. <<w>> \in Seq(Wire) /\ Len(<<w>>) = 1
  OBVIOUS
<1>2. Holds(in, p, <<w>>) /\ Holds(in, p + 1, r)
  BY <1>1, HoldsSplit
<1>. QED  BY <1>2 DEF Holds, HoldsFirst

LEMMA FlagConcat ==
  ASSUME NEW f \in 0 .. 6, NEW t \in 0 .. 255, NEW r \in Seq(Wire)
  PROVE  <<Flag(f, t)>> \o r \in Seq(Wire) /\ Len(<<Flag(f, t)>> \o r) = 1 + Len(r) /\ Len(r) \in Nat
<1>1. Flag(f, t) \in Wire
  BY FlagType, Zenon
<1>2. <<Flag(f, t)>> \in Seq(Wire) /\ Len(<<Flag(f, t)>>) = 1
  BY <1>1
<1>. QED  BY <1>2, WireConcat

LEMMA VectorEntity ==
  ASSUME NEW s, NEW vec, Carries(s, vec), NEW f \in {DF_VECTOR, DF_PAIR}, NEW t \in 0 .. 255, NEW r \in Seq(Wire),
         s = <<Flag(f, t)>> \o r
  PROVE  CarriesEntity(s, Holding(f, t, vec))
<1>0. f \in 0 .. 6 /\ f \in Int /\ t \in Int /\ vec \in Vecs /\ s \in Seq(Wire)
  BY FormCodes DEF Carries
<1>1. Holding(f, t, vec) \in Ents
  BY <1>0, HoldingType
<1>2. ASSUME NEW in \in Seq(Wire), NEW p \in Nat, Holds(in, p, s)
      PROVE  EntityAt(in, p) = [p |-> p + Len(s), e |-> Holding(f, t, vec)]
  <2>1. FormOf(At(in, p, "short")) = f /\ TypeOf(At(in, p, "short")) = t
    BY <1>0, <1>2, HoldsFlag, Zenon
  <2>2. CreateVector(in, p + 1, t) = [p |-> p + Len(s), vec |-> vec]
    BY <1>2, <2>1, Zenon DEF Carries, FlaggedVector
  <2>3. Entity(in, p + 1, f, t) =
          [p |-> CreateVector(in, p + 1, t).p, e |-> Holding(f, t, CreateVector(in, p + 1, t).vec)]
    BY EntityCases
  <2>. QED  BY <2>1, <2>2, <2>3 DEF EntityAt
<1>. QED  BY <1>0, <1>1, <1>2 DEF CarriesEntity

LEMMA SetEntity ==
  ASSUME NEW s, NEW vec, Carries(s, vec), NEW t \in 0 .. 255
  PROVE  CarriesEntity(<<Flag(DF_SET, t)>> \o s, Holding(DF_SET, t, vec))
<1>. DEFINE w == <<Flag(DF_SET, t)>> \o s
<1>0. DF_SET \in 0 .. 6 /\ DF_SET \in Int /\ t \in Int /\ vec \in Vecs /\ s \in Seq(Wire)
  BY FormCodes DEF Carries
<1>1. Holding(DF_SET, t, vec) \in Ents
  BY <1>0, HoldingType
<1>2. w \in Seq(Wire) /\ Len(w) = 1 + Len(s) /\ Len(s) \in Nat
  BY <1>0, FlagConcat, Zenon
<1>3. ASSUME NEW in \in Seq(Wire), NEW p \in Nat, Holds(in, p, w)
      PROVE  EntityAt(in, p) = [p |-> p + Len(w), e |-> Holding(DF_SET, t, vec)]
  <2>1. FormOf(At(in, p, "short")) = DF_SET /\ TypeOf(At(in, p, "short")) = t /\ Holds(in, p + 1, s)
    BY <1>0, <1>3, HoldsFlag, Zenon
  <2>2. p + 1 \in Nat /\ (p + 1) + Len(s) = p + Len(w)
    BY <1>2
  <2>3. FlaggedVector(in, p + 1) = [p |-> p + Len(w), vec |-> vec]
    <3>1. FlaggedVector(in, p + 1) = [p |-> (p + 1) + Len(s), vec |-> vec]
      BY <2>1, <2>2, Zenon DEF Carries
    <3>. QED  BY <2>2, <3>1, Zenon
  <2>4. Entity(in, p + 1, DF_SET, t) =
          [p |-> FlaggedVector(in, p + 1).p, e |-> Holding(DF_SET, t, FlaggedVector(in, p + 1).vec)]
    BY EntityCases
  <2>. QED  BY <2>1, <2>3, <2>4 DEF EntityAt
<1>. HIDE DEF w
<1>4. CarriesEntity(w, Holding(DF_SET, t, vec))
  BY <1>1, <1>2, <1>3 DEF CarriesEntity
<1>. QED  BY <1>4 DEF w

\* A scalar, and one of type VOID.
LEMMA ScalarEntity ==
  ASSUME NEW t \in Plain \cup {DT_VOID}, NEW d \in Seq(Int), Len(d) = 1
  PROVE  CarriesEntity(<<Flag(DF_SCALAR, t)>> \o Items(ItemOf(t), d),
                       Holding(DF_SCALAR, t, IF t = DT_VOID THEN Nothing(t) ELSE Vec(t, 0, 0, d, <<>>)))
<1>. DEFINE r == Items(ItemOf(t), d)
            s == <<Flag(DF_SCALAR, t)>> \o r
            vec == IF t = DT_VOID THEN Nothing(t) ELSE Vec(t, 0, 0, d, <<>>)
<1>0. DF_SCALAR \in 0 .. 6 /\ DF_SCALAR \in Int /\ t \in Int /\ t \in 0 .. 255
  BY FormCodes DEF Plain, DT_VOID
<1>1. ItemOf(t) \in Words /\ (t \in Plain => ItemOf(t) = Width[t]) /\ (t = DT_VOID <=> t \notin Plain)
  <2>1. t = DT_VOID <=> t \notin Plain
    BY DEF Plain, DT_VOID
  <2>2. CASE t \in Plain
    <3>1. ItemOf(t) = Width[t]
      BY <2>1, <2>2 DEF ItemOf
    <3>. QED  BY <2>1, <2>2, <3>1, WidthType
  <2>3. CASE t \notin Plain
    BY <2>1, <2>3 DEF ItemOf, Words
  <2>. QED  BY <2>2, <2>3
<1>2. r \in Seq(Wire) /\ Len(r) = 1 /\ r[1] = Item(ItemOf(t), d[1])
  <2>1. r \in Seq(Wire) /\ Len(r) = 1
    BY <1>1, ItemsType
  <2>. QED  BY <2>1 DEF Items
<1>3. s \in Seq(Wire) /\ Len(s) = 2
  <2>. HIDE DEF r
  <2>1. s \in Seq(Wire) /\ Len(s) = 1 + Len(r)
    BY <1>0, <1>2, FlagConcat, Zenon
  <2>. QED  BY <1>2, <2>1
<1>4. vec \in Vecs
  <2>1. <<>> \in Seq(Int) /\ 0 \in Int
    OBVIOUS
  <2>2. Vec(t, 0, 0, d, <<>>) \in Vecs
    BY <1>0, <2>1, VecType, Zenon
  <2>. QED  BY <1>0, <2>2, NothingType, Zenon
<1>5. d = <<d[1]>>
  OBVIOUS
<1>6. ASSUME NEW in \in Seq(Wire), NEW p \in Nat, Holds(in, p, s)
      PROVE  EntityAt(in, p) = [p |-> p + Len(s), e |-> Holding(DF_SCALAR, t, vec)]
  <2>. HIDE DEF r
  <2>1. FormOf(At(in, p, "short")) = DF_SCALAR /\ TypeOf(At(in, p, "short")) = t /\ Holds(in, p + 1, r)
    BY <1>0, <1>2, <1>6, HoldsFlag, Zenon
  <2>2. At(in, p + 1, ItemOf(t)) = d[1]
    BY <1>2, <2>1 DEF Holds, At, Item
  <2>3. CreateScalar(in, p + 1, t) = [p |-> p + 2, vec |-> vec]
    <3>1. CASE t \in Plain
      <4>1. CreateScalar(in, p + 1, t) = [p |-> (p + 1) + 1, vec |-> Vec(t, 0, 0, <<d[1]>>, <<>>)]
        BY <1>1, <2>2, <3>1 DEF CreateScalar
      <4>. QED  BY <1>1, <1>5, <3>1, <4>1
    <3>2. CASE t = DT_VOID
      BY <1>1, <3>2 DEF CreateScalar
    <3>. QED  BY <3>1, <3>2
  <2>4. Entity(in, p + 1, DF_SCALAR, t) =
          [p |-> CreateScalar(in, p + 1, t).p, e |-> Holding(DF_SCALAR, t, CreateScalar(in, p + 1, t).vec)]
    BY EntityCases
  <2>. HIDE DEF vec
  <2>. QED  BY <1>3, <2>1, <2>3, <2>4 DEF EntityAt
<1>. HIDE DEF s, vec
<1>7. Holding(DF_SCALAR, t, vec) \in Ents
  BY <1>0, <1>4, HoldingType
<1>8. CarriesEntity(s, Holding(DF_SCALAR, t, vec))
  BY <1>3, <1>6, <1>7 DEF CarriesEntity
<1>. QED  BY <1>8 DEF s, vec

\* The lable of a matrix on the wire: present or absent.
CarriesLable(bit, s, vec) == IF bit = 1 THEN Carries(s, vec) ELSE s = <<>> /\ vec = Nothing(DT_VOID)

LableAt(in, q, bit) == IF bit = 1 THEN FlaggedVector(in, q) ELSE [p |-> q, vec |-> Nothing(DT_VOID)]

LEMMA LableAtType ==
  ASSUME NEW in \in Seq(Wire), NEW q \in Nat, NEW bit PROVE LableAt(in, q, bit) \in ReadVecs
<1>1. FlaggedVector(in, q) \in ReadVecs
  BY FlaggedType
<1>2. [p |-> q, vec |-> Nothing(DT_VOID)] \in ReadVecs
  BY NothingType DEF ReadVecs, DT_VOID
<1>. QED  BY <1>1, <1>2, Zenon DEF LableAt

ReadsLable(in, q, bit, s, vec) == LableAt(in, q, bit) = [p |-> q + Len(s), vec |-> vec]

LEMMA LableReads ==
  ASSUME NEW bit, NEW s, NEW vec, CarriesLable(bit, s, vec), NEW in \in Seq(Wire), NEW q \in Nat, Holds(in, q, s)
  PROVE  ReadsLable(in, q, bit, s, vec)
<1>. USE DEF ReadsLable
<1>1. CASE bit = 1
  BY <1>1, Zenon DEF CarriesLable, LableAt, Carries
<1>2. CASE bit # 1
  <2>1. s = <<>> /\ vec = Nothing(DT_VOID)
    BY <1>2 DEF CarriesLable
  <2>2. q + Len(s) = q
    BY <2>1
  <2>. QED  BY <1>2, <2>1, <2>2, Zenon DEF LableAt
<1>. QED  BY <1>1, <1>2

LEMMA LableWire ==
  ASSUME NEW bit, NEW s, NEW vec, CarriesLable(bit, s, vec) PROVE s \in Seq(Wire) /\ Len(s) \in Nat /\ vec \in Vecs
<1>1. CASE bit = 1
  <2>1. s \in Seq(Wire) /\ vec \in Vecs
    BY <1>1 DEF CarriesLable, Carries
  <2>. QED  BY <2>1
<1>2. CASE bit # 1
  <2>1. s = <<>> /\ vec = Nothing(DT_VOID)
    BY <1>2 DEF CarriesLable
  <2>. QED  BY <2>1, NothingType DEF DT_VOID
<1>. QED  BY <1>1, <1>2

MatrixxReads(in, p, row, clm, mtx) ==
  Matrixx(in, p) = [p |-> mtx.p, row |-> row.vec, clm |-> clm.vec, mtx |-> mtx.vec]

\* Matrixx, behind the byte that tells which lables there are.
LEMMA MatrixxIs ==
  ASSUME NEW in, NEW p, NEW b1 \in {0, 1}, NEW b2 \in {0, 1}, At(in, p, "char") = b1 + 2 * b2,
         NEW row, row = LableAt(in, p + 1, b1), NEW clm, clm = LableAt(in, row.p, b2),
         NEW mtx, mtx = FlaggedVector(in, clm.p)
  PROVE  MatrixxReads(in, p, row, clm, mtx)
<1>. DEFINE has == At(in, p, "char")
            lable(q, bit) == IF (has \div bit) % 2 = 1 THEN FlaggedVector(in, q)
                             ELSE [p |-> q, vec |-> Nothing(DT_VOID)]
<1>1. ((has \div 1) % 2 = 1 <=> b1 = 1) /\ ((has \div 2) % 2 = 1 <=> b2 = 1)
  <2>1. has \in 0 .. 3
    OBVIOUS
  <2>. HIDE DEF has
  <2>2. ((b1 + 2 * b2) \div 1) % 2 = b1 /\ ((b1 + 2 * b2) \div 2) % 2 = b2
    OBVIOUS
  <2>3. has = b1 + 2 * b2
    BY DEF has
  <2>. QED  BY <2>2, <2>3
<1>. HIDE DEF has
<1>2. lable(p + 1, 1) = row /\ lable(row.p, 2) = clm
  BY <1>1, Zenon DEF LableAt
<1>3. Matrixx(in, p) =
        [p |-> FlaggedVector(in, lable(lable(p + 1, 1).p, 2).p).p, row |-> lable(p + 1, 1).vec,
         clm |-> lable(lable(p + 1, 1).p, 2).vec, mtx |-> FlaggedVector(in, lable(lable(p + 1, 1).p, 2).p).vec]
  BY Zenon DEF Matrixx, has
<1>. HIDE DEF lable
<1>. QED  BY <1>2, <1>3 DEF MatrixxReads

\* A matrix, from its second item: the lables and the values.
MatrixParts(b1, b2, s1, s2, s3) == <<Item("char", b1 + 2 * b2)>> \o (s1 \o (s2 \o s3))

IsWire(s, n) == s \in Seq(Wire) /\ Len(s) = n

LEMMA PartsType ==
  ASSUME NEW b1 \in {0, 1}, NEW b2 \in {0, 1}, NEW s1 \in Seq(Wire), NEW s2 \in Seq(Wire), NEW s3 \in Seq(Wire)
  PROVE  /\ IsWire(MatrixParts(b1, b2, s1, s2, s3), 1 + (Len(s1) + (Len(s2) + Len(s3))))
         /\ Item("char", b1 + 2 * b2) \in Wire
         /\ s2 \o s3 \in Seq(Wire) /\ s1 \o (s2 \o s3) \in Seq(Wire)
<1>1. "char" \in Words /\ b1 + 2 * b2 \in Int
  BY DEF Words
<1>2. Item("char", b1 + 2 * b2) \in Wire
  BY <1>1, ItemType, Zenon
<1>3. <<Item("char", b1 + 2 * b2)>> \in Seq(Wire) /\ Len(<<Item("char", b1 + 2 * b2)>>) = 1
  BY <1>2
<1>4. s2 \o s3 \in Seq(Wire) /\ Len(s2 \o s3) = Len(s2) + Len(s3)
  BY WireConcat, Zenon
<1>5. s1 \o (s2 \o s3) \in Seq(Wire) /\ Len(s1 \o (s2 \o s3)) = Len(s1) + Len(s2 \o s3)
  BY <1>4, WireConcat, Zenon
<1>6. /\ MatrixParts(b1, b2, s1, s2, s3) \in Seq(Wire)
      /\ Len(MatrixParts(b1, b2, s1, s2, s3)) = 1 + Len(s1 \o (s2 \o s3))
  BY <1>3, <1>5, WireConcat, Zenon DEF MatrixParts
<1>. QED  BY <1>2, <1>4, <1>5, <1>6, Zenon DEF IsWire

\* What the input holds where a matrix from its second item is: the two bits of the lables, the lables
\* and the values.
ReadsParts(in, p, b1, b2, s1, s2, s3) ==
  /\ At(in, p, "char") = b1 + 2 * b2
  /\ Holds(in, p + 1, s1)
  /\ Holds(in, (p + 1) + Len(s1), s2)
  /\ Holds(in, ((p + 1) + Len(s1)) + Len(s2), s3)

LEMMA HoldsParts ==
  ASSUME NEW in, NEW p \in Nat, NEW b1 \in {0, 1}, NEW b2 \in {0, 1},
         NEW s1 \in Seq(Wire), NEW s2 \in Seq(Wire), NEW s3 \in Seq(Wire),
         Holds(in, p, MatrixParts(b1, b2, s1, s2, s3))
  PROVE  ReadsParts(in, p, b1, b2, s1, s2, s3)
<1>1. Item("char", b1 + 2 * b2) \in Wire /\ s2 \o s3 \in Seq(Wire) /\ s1 \o (s2 \o s3) \in Seq(Wire)
  BY PartsType, Zenon
<1>2. Holds(in, p + 1, s1 \o (s2 \o s3)) /\ p \in DOMAIN in /\ in[p] = Item("char", b1 + 2 * b2)
  <2>1. HoldsFirst(in, p, Item("char", b1 + 2 * b2), s1 \o (s2 \o s3))
    BY <1>1, HoldsConcat, Zenon DEF MatrixParts
  <2>. QED  BY <2>1, Zenon DEF HoldsFirst
<1>3. p + 1 \in Nat /\ (p + 1) + Len(s1) \in Nat
  OBVIOUS
<1>4. Holds(in, p + 1, s1) /\ Holds(in, (p + 1) + Len(s1), s2 \o s3)
  BY <1>1, <1>2, <1>3, HoldsSplit, Zenon
<1>5. Holds(in, (p + 1) + Len(s1), s2) /\ Holds(in, ((p + 1) + Len(s1)) + Len(s2), s3)
  BY <1>3, <1>4, HoldsSplit, Zenon
<1>6. At(in, p, "char") = b1 + 2 * b2
  BY <1>2 DEF At, Item
<1>. QED  BY <1>2, <1>4, <1>5, <1>6, Zenon DEF ReadsParts

Lables(b1, b2, s1, s2, v1, v2) ==
  b1 \in {0, 1} /\ b2 \in {0, 1} /\ CarriesLable(b1, s1, v1) /\ CarriesLable(b2, s2, v2)

CarriesMatrix(s, t, v3, v1, v2) == CarriesEntity(s, MatrixEntity(t, v3, v1, v2))

LEMMA MatrixCarried ==
  ASSUME NEW b1, NEW b2, NEW s1, NEW s2, NEW v1, NEW v2, Lables(b1, b2, s1, s2, v1, v2),
         NEW s3, NEW v3, Carries(s3, v3), NEW t \in 0 .. 255
  PROVE  CarriesMatrix(<<Flag(DF_MATRIX, t)>> \o MatrixParts(b1, b2, s1, s2, s3), t, v3, v1, v2)
<1>. DEFINE r == MatrixParts(b1, b2, s1, s2, s3)
            s == <<Flag(DF_MATRIX, t)>> \o r
            e == MatrixEntity(t, v3, v1, v2)
<1>. b1 \in {0, 1} /\ b2 \in {0, 1} /\ CarriesLable(b1, s1, v1) /\ CarriesLable(b2, s2, v2)
  BY Zenon DEF Lables
<1>0. /\ DF_MATRIX \in 0 .. 6 /\ t \in Int
      /\ s1 \in Seq(Wire) /\ s2 \in Seq(Wire) /\ s3 \in Seq(Wire) /\ v1 \in Vecs /\ v2 \in Vecs /\ v3 \in Vecs
  <2>1. s1 \in Seq(Wire) /\ v1 \in Vecs /\ s2 \in Seq(Wire) /\ v2 \in Vecs
    BY LableWire, Zenon
  <2>2. t \in Int
    OBVIOUS
  <2>. QED  BY <2>1, <2>2, FormCodes DEF Carries
<1>1. e \in Ents
  BY <1>0, MatrixEntityType
<1>2. r \in Seq(Wire) /\ Len(r) = 1 + (Len(s1) + (Len(s2) + Len(s3)))
  <2>1. IsWire(MatrixParts(b1, b2, s1, s2, s3), 1 + (Len(s1) + (Len(s2) + Len(s3))))
    BY <1>0, PartsType, Zenon
  <2>. QED  BY <2>1, Zenon DEF IsWire
<1>3. s \in Seq(Wire) /\ Len(s) = 1 + Len(r)
  BY <1>0, <1>2, FlagConcat, Zenon
<1>. HIDE DEF e, r
<1>4. ASSUME NEW in \in Seq(Wire), NEW p \in Nat, Holds(in, p, s)
      PROVE  EntityAt(in, p) = [p |-> p + Len(s), e |-> e]
  <2>1. FormOf(At(in, p, "short")) = DF_MATRIX /\ TypeOf(At(in, p, "short")) = t /\ Holds(in, p + 1, r)
    BY <1>0, <1>2, <1>4, HoldsFlag, Zenon
  <2>. DEFINE q == p + 1
              q1 == q + 1
              q2 == q1 + Len(s1)
              q3 == q2 + Len(s2)
  <2>2. q \in Nat /\ q1 \in Nat /\ q2 \in Nat /\ q3 \in Nat /\ q3 + Len(s3) = p + Len(s)
    <3>1. Len(s1) \in Nat /\ Len(s2) \in Nat /\ Len(s3) \in Nat
      BY <1>0
    <3>. HIDE DEF s
    <3>2. q \in Nat /\ q1 \in Nat /\ q2 \in Nat /\ q3 \in Nat
      BY <3>1
    <3>. QED  BY <1>2, <1>3, <3>1, <3>2
  <2>3. Holds(in, q, MatrixParts(b1, b2, s1, s2, s3))
    BY <2>1 DEF r
  <2>. HIDE DEF q
  <2>4. At(in, q, "char") = b1 + 2 * b2 /\ Holds(in, q1, s1) /\ Holds(in, q2, s2) /\ Holds(in, q3, s3)
    <3>1. ReadsParts(in, q, b1, b2, s1, s2, s3)
      BY <1>0, <2>2, <2>3, HoldsParts, Zenon
    <3>. QED  BY <3>1, Zenon DEF ReadsParts
  <2>. HIDE DEF q1
  <2>5. LableAt(in, q1, b1) = [p |-> q2, vec |-> v1]
    <3>1. ReadsLable(in, q1, b1, s1, v1)
      BY <2>2, <2>4, LableReads, Zenon
    <3>. QED  BY <3>1, Zenon DEF ReadsLable
  <2>. HIDE DEF q2
  <2>6. LableAt(in, q2, b2) = [p |-> q3, vec |-> v2]
    <3>1. ReadsLable(in, q2, b2, s2, v2)
      BY <2>2, <2>4, LableReads, Zenon
    <3>. QED  BY <3>1, Zenon DEF ReadsLable
  <2>. HIDE DEF q3
  <2>7. FlaggedVector(in, q3) = [p |-> q3 + Len(s3), vec |-> v3]
    BY <2>2, <2>4, Zenon DEF Carries
  <2>8. Matrixx(in, q) = [p |-> q3 + Len(s3), row |-> v1, clm |-> v2, mtx |-> v3]
    <3>. DEFINE x1 == LableAt(in, q + 1, b1)
                x2 == LableAt(in, x1.p, b2)
                x3 == FlaggedVector(in, x2.p)
    <3>1. x1 = [p |-> q2, vec |-> v1]
      BY <2>5 DEF q1
    <3>2. x1.p = q2 /\ x1.vec = v1
      <4>. HIDE DEF x1
      <4>. QED  BY <3>1
    <3>3. x2 = [p |-> q3, vec |-> v2]
      <4>. HIDE DEF x1
      <4>. QED  BY <2>6, <3>2
    <3>4. x2.p = q3 /\ x2.vec = v2
      <4>. HIDE DEF x2
      <4>. QED  BY <3>3
    <3>5. x3 = [p |-> q3 + Len(s3), vec |-> v3]
      <4>. HIDE DEF x2
      <4>. QED  BY <2>7, <3>4
    <3>6. x3.p = q3 + Len(s3) /\ x3.vec = v3
      <4>. HIDE DEF x3
      <4>. QED  BY <3>5
    <3>7. Matrixx(in, q) = [p |-> x3.p, row |-> x1.vec, clm |-> x2.vec, mtx |-> x3.vec]
      <4>. HIDE DEF x2, x3
      <4>2. x2 = LableAt(in, x1.p, b2) /\ x3 = FlaggedVector(in, x2.p)
        BY Zenon DEF x2, x3
      <4>3. x1 = LableAt(in, q + 1, b1)
        OBVIOUS
      <4>. HIDE DEF x1
      <4>4. MatrixxReads(in, q, x1, x2, x3)
        BY <2>4, <4>2, <4>3, MatrixxIs, Zenon
      <4>. QED  BY <4>4, Zenon DEF MatrixxReads
    <3>. HIDE DEF x1, x2, x3
    <3>. QED  BY <3>2, <3>4, <3>6, <3>7, Zenon
  <2>9. Entity(in, q, DF_MATRIX, t) =
          [p |-> Matrixx(in, q).p, e |-> MatrixEntity(t, Matrixx(in, q).mtx, Matrixx(in, q).row, Matrixx(in, q).clm)]
    BY EntityCases
  <2>10. Entity(in, q, DF_MATRIX, t) = [p |-> q3 + Len(s3), e |-> MatrixEntity(t, v3, v1, v2)]
    BY <2>8, <2>9
  <2>. QED  BY <2>1, <2>2, <2>10, Zenon DEF EntityAt, q, e
<1>. HIDE DEF s
<1>5. CarriesEntity(s, e)
  BY <1>1, <1>3, <1>4 DEF CarriesEntity
<1>. QED  BY <1>5, Zenon DEF CarriesMatrix, s, e, r

\* A column that is not read: its type remains unknown.
KnownTypes == Plain \cup {DT_SYMBASE}

Stops(s) ==
  /\ s \in Seq(Wire)
  /\ \A in \in Seq(Wire), p \in Nat : Holds(in, p, s) => FlaggedVector(in, p).vec.t \notin KnownTypes

\* The columns of a table: each is carried by its part of the stream or stops the reader.
WireColumns(ss, vecs, good) ==
  /\ ss \in Seq(Seq(Wire)) /\ vecs \in Seq(Vecs) /\ Len(vecs) = Len(ss)
  /\ \A i \in 1 .. Len(ss) : IF i \in good THEN Carries(ss[i], vecs[i]) ELSE Stops(ss[i])

\* The columns read first; the rest is not read as it was written once one stopped.
ReadSoFar(read, i, at, vecs, good) ==
  /\ Len(read.columns) = i
  /\ \/ read.p = at /\ \A j \in 1 .. i : j \in good /\ read.columns[j] = vecs[j]
     \/ \E j \in 1 .. i : j \notin good /\ read.columns[j].t \notin KnownTypes

LEMMA NextColumnReads ==
  ASSUME NEW in \in Seq(Wire), NEW ss, NEW vecs, NEW good, WireColumns(ss, vecs, good),
         NEW i \in 1 .. Len(ss), NEW read \in ReadColumns, NEW at \in Nat, NEW next, next = at + Len(ss[i]),
         Holds(in, at, ss[i]), ReadSoFar(read, i - 1, at, vecs, good)
  PROVE  ReadSoFar(NextColumn(in, read), i, next, vecs, good)
<1>. DEFINE column == FlaggedVector(in, read.p)
            new == NextColumn(in, read)
<1>1. read.p \in Nat /\ read.columns \in Seq(Vecs) /\ i \in Nat /\ i - 1 \in Nat
  <2>1. Len(ss) \in Nat
    BY DEF WireColumns
  <2>. QED  BY <2>1 DEF ReadColumns
<1>2. column \in ReadVecs
  BY <1>1, FlaggedType
<1>3. new = [p |-> column.p, columns |-> Append(read.columns, column.vec)]
  BY Zenon DEF NextColumn
<1>. HIDE DEF column, new
<1>4. column.vec \in Vecs /\ Len(read.columns) = i - 1
  BY <1>2 DEF ReadVecs, ReadSoFar
<1>5. /\ new.p = column.p /\ Len(new.columns) = i /\ new.columns[i] = column.vec
      /\ \A j \in 1 .. i - 1 : new.columns[j] = read.columns[j]
  BY <1>1, <1>3, <1>4
<1>6. CASE \E j \in 1 .. i - 1 : j \notin good /\ read.columns[j].t \notin KnownTypes
  <2>1. PICK j \in 1 .. i - 1 : j \notin good /\ read.columns[j].t \notin KnownTypes
    BY <1>6
  <2>2. j \in 1 .. i /\ new.columns[j] = read.columns[j]
    BY <1>1, <1>5
  <2>. QED  BY <1>5, <2>1, <2>2, Zenon DEF ReadSoFar, new
<1>7. CASE read.p = at /\ \A j \in 1 .. i - 1 : j \in good /\ read.columns[j] = vecs[j]
  <2>1. CASE i \in good
    <3>1. Carries(ss[i], vecs[i])
      BY <2>1 DEF WireColumns
    <3>2. column = [p |-> next, vec |-> vecs[i]]
      BY <1>7, <3>1, Zenon DEF Carries, column
    <3>3. ASSUME NEW j \in 1 .. i PROVE j \in good /\ new.columns[j] = vecs[j]
      <4>1. j = i \/ j \in 1 .. i - 1
        BY <1>1
      <4>. QED  BY <1>5, <1>7, <2>1, <3>2, <4>1
    <3>4. new.p = next
      BY <1>5, <3>2
    <3>. QED  BY <1>5, <3>3, <3>4, Zenon DEF ReadSoFar, new
  <2>2. CASE i \notin good
    <3>1. Stops(ss[i])
      BY <2>2 DEF WireColumns
    <3>2. column.vec.t \notin KnownTypes
      BY <1>7, <3>1, Zenon DEF Stops, column
    <3>3. i \in 1 .. i
      BY <1>1
    <3>. QED  BY <1>5, <2>2, <3>2, <3>3, Zenon DEF ReadSoFar, new
  <2>. QED  BY <2>1, <2>2
<1>. QED  BY <1>6, <1>7, Zenon DEF ReadSoFar

\* A table, from its second item.
TableParts(rows, names, ss) ==
  <<Item("int", rows), Item("int", Len(names)), Item("string", Null)>> \o (Items("string", names) \o FlattenSeq(ss))

LEMMA FlattenedType == ASSUME NEW ss \in Seq(Seq(Wire)) PROVE FlattenSeq(ss) \in Seq(Wire) /\ Len(FlattenSeq(ss)) \in Nat
<1>1. PICK g \in [0 .. Len(ss) -> Seq(Wire)] : g[Len(ss)] = FlattenSeq(ss)
  BY Flattened, Zenon
<1>2. Len(ss) \in 0 .. Len(ss)
  OBVIOUS
<1>3. FlattenSeq(ss) \in Seq(Wire)
  BY <1>1, <1>2
<1>. QED  BY <1>3

LEMMA TablePartsType ==
  ASSUME NEW rows \in Int, NEW names \in Seq(Int), NEW ss \in Seq(Seq(Wire))
  PROVE  /\ IsWire(TableParts(rows, names, ss), (3 + Len(names)) + Len(FlattenSeq(ss)))
         /\ <<Item("int", rows), Item("int", Len(names)), Item("string", Null)>> \in Seq(Wire)
         /\ IsWire(Items("string", names), Len(names)) /\ FlattenSeq(ss) \in Seq(Wire)
<1>. DEFINE h == <<Item("int", rows), Item("int", Len(names)), Item("string", Null)>>
<1>1. Len(names) \in Nat /\ Len(names) \in Int /\ Null \in Int /\ "int" \in Words /\ "string" \in Words
  BY DEF Null, Words
<1>2. Item("int", rows) \in Wire /\ Item("int", Len(names)) \in Wire /\ Item("string", Null) \in Wire
  BY <1>1, ItemType
<1>3. h \in Seq(Wire) /\ Len(h) = 3
  BY <1>2
<1>4. Items("string", names) \in Seq(Wire) /\ Len(Items("string", names)) = Len(names)
  BY <1>1, ItemsType
<1>5. FlattenSeq(ss) \in Seq(Wire) /\ Len(FlattenSeq(ss)) \in Nat
  BY FlattenedType, Zenon
<1>. DEFINE r == Items("string", names) \o FlattenSeq(ss)
<1>6. r \in Seq(Wire) /\ Len(r) = Len(names) + Len(FlattenSeq(ss))
  <2>1. r \in Seq(Wire) /\ Len(r) = Len(Items("string", names)) + Len(FlattenSeq(ss))
    BY <1>4, <1>5, WireConcat, Zenon
  <2>. HIDE DEF r
  <2>. QED  BY <1>4, <2>1, Zenon
<1>. HIDE DEF h, r
<1>7. h \o r \in Seq(Wire) /\ Len(h \o r) = Len(h) + Len(r)
  BY <1>3, <1>6, WireConcat, Zenon
<1>8. Len(h \o r) = (3 + Len(names)) + Len(FlattenSeq(ss))
  BY <1>1, <1>3, <1>5, <1>6, <1>7
<1>. QED  BY <1>3, <1>4, <1>5, <1>7, <1>8, Zenon DEF IsWire, TableParts, h, r

\* Where the parts of a table are.
HoldsTable(in, p, rows, names, ss) ==
  /\ At(in, p, "int") = rows /\ At(in, p + 1, "int") = Len(names)
  /\ \A i \in 1 .. Len(names) : At(in, p + 2 + i, "string") = names[i]
  /\ Holds(in, p + 3 + Len(names), FlattenSeq(ss))

LEMMA HoldsTableParts ==
  ASSUME NEW in, NEW p \in Nat, NEW rows \in Int, NEW names \in Seq(Int), NEW ss \in Seq(Seq(Wire)),
         Holds(in, p, TableParts(rows, names, ss))
  PROVE  HoldsTable(in, p, rows, names, ss)
<1>. DEFINE h == <<Item("int", rows), Item("int", Len(names)), Item("string", Null)>>
            i1 == Items("string", names)
            fl == FlattenSeq(ss)
<1>1. h \in Seq(Wire) /\ i1 \in Seq(Wire) /\ Len(i1) = Len(names) /\ fl \in Seq(Wire)
  BY TablePartsType, Zenon DEF IsWire
<1>2. Len(h) = 3 /\ h[1] = Item("int", rows) /\ h[2] = Item("int", Len(names)) /\ 1 \in DOMAIN h /\ 2 \in DOMAIN h
  OBVIOUS
<1>3. Holds(in, p, h \o (i1 \o fl))
  BY Zenon DEF TableParts
<1>. HIDE DEF h, i1, fl
<1>4. i1 \o fl \in Seq(Wire)
  BY <1>1, WireConcat, Zenon
<1>5. Holds(in, p, h) /\ Holds(in, p + 3, i1 \o fl)
  BY <1>1, <1>2, <1>3, <1>4, HoldsSplit, Zenon
<1>6. p + 3 \in Nat /\ p + 1 - 1 = p /\ p + 2 - 1 = p + 1
  OBVIOUS
<1>7. Holds(in, p + 3, i1) /\ Holds(in, p + 3 + Len(names), fl)
  BY <1>1, <1>5, <1>6, HoldsSplit, Zenon
<1>8. At(in, p + 1 - 1, "int") = rows /\ At(in, p + 2 - 1, "int") = Len(names)
  BY <1>2, <1>5, HoldsAt
<1>9. Reads(in, p + 3, "string", names)
  BY <1>6, <1>7, HoldsItems, Zenon DEF i1
<1>10. \A i \in 1 .. Len(names) : (p + 3) + i - 1 = p + 2 + i
  OBVIOUS
<1>11. \A i \in 1 .. Len(names) : At(in, p + 2 + i, "string") = names[i]
  BY <1>9, <1>10, Zenon DEF Reads
<1>. QED  BY <1>6, <1>7, <1>8, <1>11 DEF HoldsTable, fl

ReadsTable(in, p, rows, names, ss, vecs, good) ==
  IF good = 1 .. Len(ss)
  THEN Tablee(in, p) = [p |-> p + Len(TableParts(rows, names, ss)), columns |-> vecs, names |-> names]
  ELSE \E j \in DOMAIN Tablee(in, p).columns : Tablee(in, p).columns[j].t \notin KnownTypes

LEMMA TableReads ==
  ASSUME NEW in \in Seq(Wire), NEW p \in Nat, NEW rows \in Int, NEW names \in Seq(Int), NEW ss, NEW vecs,
         NEW good \in SUBSET (1 .. Len(ss)), WireColumns(ss, vecs, good), Len(names) = Len(ss),
         Holds(in, p, TableParts(rows, names, ss))
  PROVE  ReadsTable(in, p, rows, names, ss, vecs, good)
<1>. DEFINE n == Len(ss)
<1>0. /\ ss \in Seq(Seq(Wire)) /\ vecs \in Seq(Vecs) /\ Len(vecs) = n /\ n \in Nat
      /\ \A i \in 1 .. n : ss[i] \in Seq(Wire)
  BY DEF WireColumns
<1>1. HoldsTable(in, p, rows, names, ss)
  BY <1>0, HoldsTableParts, Zenon
<1>2. Size(At(in, p + 1, "int"), 1) = n
  BY <1>0, <1>1, SizeOne DEF HoldsTable
<1>3. PICK f \in [0 .. n -> ReadColumns] :
        /\ f[0] = [p |-> p + 3 + n, columns |-> <<>>]
        /\ \A i \in 1 .. n : f[i] = NextColumn(in, f[i - 1])
        /\ Tablee(in, p) = [p |-> f[n].p, columns |-> f[n].columns,
                            names |-> [i \in 1 .. n |-> At(in, p + 2 + i, "string")]]
  <2>. DEFINE m == Size(At(in, p + 1, "int"), 1)
  <2>1. \E f \in [0 .. m -> ReadColumns] :
          /\ f[0] = [p |-> p + 3 + m, columns |-> <<>>]
          /\ \A i \in 1 .. m : f[i] = NextColumn(in, f[i - 1])
          /\ Tablee(in, p) = [p |-> f[m].p, columns |-> f[m].columns,
                              names |-> [i \in 1 .. m |-> At(in, p + 2 + i, "string")]]
    BY TableeReads, Zenon
  <2>2. m = n
    BY <1>2, Zenon
  <2>. HIDE DEF m, n
  <2>. QED  BY <2>1, <2>2, Zenon
<1>. DEFINE q == p + 3 + n
<1>4. q \in Nat /\ Holds(in, q, FlattenSeq(ss))
  BY <1>0, <1>1 DEF HoldsTable
<1>. HIDE DEF q
<1>5. PICK at \in [0 .. n -> Nat] :
        /\ at[0] = q /\ at[n] = q + Len(FlattenSeq(ss))
        /\ \A i \in 1 .. n : at[i] = at[i - 1] + Len(ss[i]) /\ Holds(in, at[i - 1], ss[i])
  BY <1>0, <1>4, HoldsFlattened, Zenon
<1>. HIDE DEF n
<1>. DEFINE S == {i \in 0 .. n : ReadSoFar(f[i], i, at[i], vecs, good)}
<1>6. 0 \in S
  <2>1. f[0].p = at[0] /\ Len(f[0].columns) = 0
    BY <1>3, <1>5 DEF q
  <2>. QED  BY <1>0, <2>1 DEF ReadSoFar
<1>7. ASSUME NEW k \in 0 .. n - 1, k \in S PROVE k + 1 \in S
  <2>. DEFINE i == k + 1
  <2>1. i \in 1 .. n /\ i - 1 = k /\ k \in 0 .. n /\ i \in 0 .. n /\ 1 .. n = 1 .. Len(ss)
    BY <1>0 DEF n
  <2>2. f[k] \in ReadColumns /\ at[k] \in Nat /\ ReadSoFar(f[k], k, at[k], vecs, good)
    BY <1>7, <2>1
  <2>. HIDE DEF i
  <2>3. at[i] = at[k] + Len(ss[i]) /\ Holds(in, at[k], ss[i]) /\ f[i] = NextColumn(in, f[k])
    BY <1>3, <1>5, <2>1
  <2>4. ReadSoFar(f[k], i - 1, at[k], vecs, good)
    BY <2>1, <2>2
  <2>5. ReadSoFar(NextColumn(in, f[k]), i, at[i], vecs, good)
    BY <2>1, <2>2, <2>3, <2>4, NextColumnReads, Zenon
  <2>. QED  BY <2>1, <2>3, <2>5 DEF i
<1>8. ReadSoFar(f[n], n, at[n], vecs, good)
  <2>1. \A i \in 0 .. n : i \in S
    <3>. HIDE DEF S
    <3>. QED  BY <1>0, <1>6, <1>7, Induction
  <2>2. n \in 0 .. n
    BY <1>0
  <2>. QED  BY <2>1, <2>2
<1>9. f[n] \in ReadColumns /\ f[n].columns \in Seq(Vecs) /\ f[n].p \in Nat
  <2>1. n \in 0 .. n
    BY <1>0
  <2>2. f[n] \in ReadColumns
    BY <2>1
  <2>. QED  BY <2>2 DEF ReadColumns
<1>10. Tablee(in, p).columns = f[n].columns /\ DOMAIN f[n].columns = 1 .. n
  <2>1. Len(f[n].columns) = n
    BY <1>8 DEF ReadSoFar
  <2>. QED  BY <1>3, <1>9, <2>1
<1>11. CASE good = 1 .. n
  <2>1. f[n].p = at[n] /\ \A j \in 1 .. n : f[n].columns[j] = vecs[j]
    BY <1>8, <1>11 DEF ReadSoFar
  <2>2. f[n].columns = vecs
    <3>. DEFINE c == f[n].columns
    <3>1. c \in Seq(Vecs) /\ Len(c) = n /\ \A j \in 1 .. n : c[j] = vecs[j]
      BY <1>9, <1>8, <2>1 DEF ReadSoFar
    <3>. HIDE DEF c
    <3>2. c = vecs
      BY <1>0, <3>1, SeqEqual
    <3>. QED  BY <3>2 DEF c
  <2>3. [i \in 1 .. n |-> At(in, p + 2 + i, "string")] = names
    <3>1. \A i \in 1 .. n : At(in, p + 2 + i, "string") = names[i]
      BY <1>1 DEF HoldsTable, n
    <3>2. DOMAIN names = 1 .. n /\ names = [i \in 1 .. n |-> names[i]]
      BY DEF n
    <3>. QED  BY <3>1, <3>2, Zenon
  <2>4. at[n] = p + Len(TableParts(rows, names, ss))
    <3>1. Len(TableParts(rows, names, ss)) = (3 + Len(names)) + Len(FlattenSeq(ss)) /\ Len(FlattenSeq(ss)) \in Nat
      <4>1. IsWire(TableParts(rows, names, ss), (3 + Len(names)) + Len(FlattenSeq(ss)))
        BY <1>0, TablePartsType, Zenon
      <4>2. Len(FlattenSeq(ss)) \in Nat
        BY <1>0, FlattenedType, Zenon
      <4>. QED  BY <4>1, <4>2, Zenon DEF IsWire
    <3>2. Len(names) = n
      BY DEF n
    <3>. QED  BY <1>0, <1>5, <3>1, <3>2 DEF q
  <2>5. Tablee(in, p) = [p |-> p + Len(TableParts(rows, names, ss)), columns |-> vecs, names |-> names]
    BY <1>3, <2>1, <2>2, <2>3, <2>4, Zenon
  <2>. QED  BY <1>11, <2>5, Zenon DEF ReadsTable, n
<1>12. CASE good # 1 .. n
  <2>1. \E j \in 1 .. n : j \notin good
    BY <1>12 DEF n
  <2>2. \E j \in 1 .. n : f[n].columns[j].t \notin KnownTypes
    BY <1>8, <2>1 DEF ReadSoFar
  <2>. QED  BY <1>10, <1>12, <2>2, Zenon DEF ReadsTable, n
<1>. QED  BY <1>11, <1>12

LEMMA TableCarried ==
  ASSUME NEW rows \in Int, NEW names \in Seq(Int), NEW ss, NEW vecs, WireColumns(ss, vecs, 1 .. Len(ss)),
         Len(names) = Len(ss), NEW t \in 0 .. 255
  PROVE  CarriesEntity(<<Flag(DF_TABLE, t)>> \o TableParts(rows, names, ss), TableEntity(t, names, vecs))
<1>. DEFINE r == TableParts(rows, names, ss)
            s == <<Flag(DF_TABLE, t)>> \o r
            e == TableEntity(t, names, vecs)
<1>0. DF_TABLE \in 0 .. 6 /\ t \in Int /\ ss \in Seq(Seq(Wire)) /\ vecs \in Seq(Vecs)
  BY FormCodes DEF WireColumns
<1>1. e \in Ents
  BY <1>0, TableEntityType
<1>2. r \in Seq(Wire) /\ Len(r) \in Nat
  <2>1. IsWire(TableParts(rows, names, ss), (3 + Len(names)) + Len(FlattenSeq(ss)))
    BY <1>0, TablePartsType, Zenon
  <2>2. r \in Seq(Wire)
    BY <2>1, Zenon DEF IsWire
  <2>. HIDE DEF r
  <2>. QED  BY <2>2
<1>. HIDE DEF e, r
<1>3. s \in Seq(Wire) /\ Len(s) = 1 + Len(r)
  BY <1>0, <1>2, FlagConcat, Zenon
<1>4. ASSUME NEW in \in Seq(Wire), NEW p \in Nat, Holds(in, p, s)
      PROVE  EntityAt(in, p) = [p |-> p + Len(s), e |-> e]
  <2>1. FormOf(At(in, p, "short")) = DF_TABLE /\ TypeOf(At(in, p, "short")) = t /\ Holds(in, p + 1, r)
    BY <1>0, <1>2, <1>4, HoldsFlag, Zenon
  <2>2. p + 1 \in Nat /\ (p + 1) + Len(r) = p + Len(s)
    BY <1>2, <1>3
  <2>. DEFINE q == p + 1
              good == 1 .. Len(ss)
  <2>3. good \in SUBSET (1 .. Len(ss)) /\ WireColumns(ss, vecs, good) /\ Holds(in, q, TableParts(rows, names, ss))
    BY <2>1 DEF r
  <2>. HIDE DEF q, good
  <2>4. ReadsTable(in, q, rows, names, ss, vecs, good)
    BY <2>2, <2>3, TableReads, Zenon DEF q
  <2>5. Tablee(in, q) = [p |-> q + Len(r), columns |-> vecs, names |-> names]
    BY <2>4, Zenon DEF ReadsTable, good, r
  <2>6. Entity(in, q, DF_TABLE, t) =
          [p |-> Tablee(in, q).p, e |-> TableEntity(t, Tablee(in, q).names, Tablee(in, q).columns)]
    BY EntityCases
  <2>7. Entity(in, q, DF_TABLE, t) = [p |-> q + Len(r), e |-> e]
    BY <2>5, <2>6 DEF e
  <2>. QED  BY <2>1, <2>2, <2>7, Zenon DEF EntityAt, q
<1>. HIDE DEF s
<1>5. CarriesEntity(s, e)
  BY <1>1, <1>3, <1>4 DEF CarriesEntity
<1>. QED  BY <1>5 DEF s, e, r

-----------------------------------------------------------------------------
(* What R gets of an entity.                                               *)

MatrixClassOf(t) == IF t = DT_SYMBASE THEN "character" ELSE Class[t]

LEMMA RTypes ==
  ASSUME NEW t
  PROVE  /\ t \in Plain => /\ ReturnRType(DF_SCALAR, t) = <<"scalar", Class[t]>>
                           /\ \A f \in {DF_VECTOR, DF_PAIR, DF_SET} : ReturnRType(f, t) = <<"vector", Class[t]>>
         /\ t = DT_SYMBASE => /\ \A f \in {DF_VECTOR, DF_PAIR, DF_SET} : ReturnRType(f, t) = <<"factor", "">>
                              /\ ReturnRType(DF_SCALAR, t) = <<"void", "">>
         /\ t \in KnownTypes => ReturnRType(DF_MATRIX, t) = <<"matrix", MatrixClassOf(t)>>
         /\ \A f \in {DF_VECTOR, DF_PAIR, DF_SET} : ReturnRType(f, DT_ANY) = <<"list", "">>
         /\ ReturnRType(DF_TABLE, t) = <<"table", "">>
         /\ t \notin KnownTypes \cup {DT_ANY} =>
              \A f \in {DF_SCALAR, DF_VECTOR, DF_PAIR, DF_SET, DF_MATRIX} : ReturnRType(f, t) = <<"void", "">>
<1>0. /\ DF_SCALAR # DF_TABLE /\ DF_MATRIX # DF_TABLE /\ DF_SCALAR # DF_MATRIX
      /\ \A f \in {DF_VECTOR, DF_PAIR, DF_SET} : f \notin {DF_SCALAR, DF_MATRIX, DF_TABLE}
      /\ DT_SYMBASE \notin Plain /\ DT_ANY \notin Plain /\ DT_ANY # DT_SYMBASE
  BY DEF DF_SCALAR, DF_VECTOR, DF_PAIR, DF_MATRIX, DF_SET, DF_TABLE, DT_ANY, DT_SYMBASE, Plain
<1>1. ASSUME t \in Plain PROVE ReturnRType(DF_SCALAR, t) = <<"scalar", Class[t]>>
  BY <1>0, <1>1 DEF ReturnRType
<1>2. ASSUME t \in Plain, NEW f \in {DF_VECTOR, DF_PAIR, DF_SET} PROVE ReturnRType(f, t) = <<"vector", Class[t]>>
  BY <1>0, <1>2 DEF ReturnRType
<1>3. ASSUME t = DT_SYMBASE, NEW f \in {DF_VECTOR, DF_PAIR, DF_SET} PROVE ReturnRType(f, t) = <<"factor", "">>
  BY <1>0, <1>3 DEF ReturnRType
<1>4. ASSUME t = DT_SYMBASE PROVE ReturnRType(DF_SCALAR, t) = <<"void", "">>
  BY <1>0, <1>4 DEF ReturnRType
<1>5. ASSUME t \in Plain PROVE ReturnRType(DF_MATRIX, t) = <<"matrix", Class[t]>>
  BY <1>0, <1>5 DEF ReturnRType
<1>6. ASSUME t = DT_SYMBASE PROVE ReturnRType(DF_MATRIX, t) = <<"matrix", "character">>
  BY <1>0, <1>6 DEF ReturnRType
<1>7. ASSUME NEW f \in {DF_VECTOR, DF_PAIR, DF_SET} PROVE ReturnRType(f, DT_ANY) = <<"list", "">>
  BY <1>0 DEF ReturnRType
<1>8. ReturnRType(DF_TABLE, t) = <<"table", "">>
  BY <1>0 DEF ReturnRType
<1>9. ASSUME t \notin KnownTypes \cup {DT_ANY}, NEW f \in {DF_SCALAR, DF_VECTOR, DF_PAIR, DF_SET, DF_MATRIX}
      PROVE  ReturnRType(f, t) = <<"void", "">>
  BY <1>0, <1>9 DEF ReturnRType, KnownTypes
<1>10. t \in KnownTypes => ReturnRType(DF_MATRIX, t) = <<"matrix", MatrixClassOf(t)>>
  <2>1. CASE t \in Plain
    <3>1. t # DT_SYMBASE
      BY <1>0, <2>1
    <3>. QED  BY <1>5, <2>1, <3>1 DEF MatrixClassOf
  <2>2. CASE t = DT_SYMBASE
    BY <1>6, <2>2 DEF MatrixClassOf
  <2>. QED  BY <2>1, <2>2 DEF KnownTypes
<1>. QED  BY <1>1, <1>2, <1>3, <1>4, <1>7, <1>8, <1>9, <1>10

LEMMA RNAType == RNA \in VectorObjects /\ RNA.kind = "vector" /\ RNA.class = "logical" /\ RNA.data = <<NA>>
<1>1. <<NA>> \in Seq(RValue) /\ "logical" \in RClasses
  BY RValueType DEF UploadType, RClasses
<1>. QED  BY <1>1 DEF RNA, RVector, VectorObjects

LEMMA GotNothing ==
  ASSUME NEW e, NEW inList, ReturnRType(e.form, e.type)[1] \in {"void", "list"} PROVE GetEntity(e, inList) = RNA
<1>. QED  BY DEF GetEntity

LEMMA ValuesOfInt ==
  ASSUME NEW vec, vec.t = DT_INT PROVE Values(vec) = WithNA(vec)
<1>1. NAIndex(vec, TRUE) = {}
  BY DEF NAIndex, DT_INT, DT_SYMBASE
<1>2. Values(vec) = [i \in DOMAIN Values(vec) |-> Values(vec)[i]]
  BY DEF Values
<1>. QED  BY <1>1, <1>2 DEF WithNA, SetReceiveVectorNA

LEMMA IntegerTypes == ASSUME NEW t \in Plain PROVE Class[t] = "integer" <=> t \in {2, 3, DT_INT}
<1>. QED  BY DEF Class, Plain, DT_BOOL, DT_INT, DT_DOUBLE, Dates, DT_DATE, IntTimes, Clocks, DT_DATETIME, LongTimes

LEMMA GotVector ==
  ASSUME NEW f \in {DF_VECTOR, DF_PAIR, DF_SET}, NEW t \in KnownTypes, NEW vec \in Vecs, vec.t = t
  PROVE  /\ GetEntity(Holding(f, t, vec), FALSE) = Column(vec)
         /\ GetEntity(Holding(f, t, vec), TRUE) =
              IF t \in {2, 3} THEN RVector("integer", Values(vec)) ELSE Column(vec)
<1>. DEFINE e == Holding(f, t, vec)
<1>1. e.form = f /\ e.type = t /\ e.vec = vec
  <2>1. f \in Int /\ t \in Int
    BY FormCodes DEF KnownTypes, Plain, DT_SYMBASE
  <2>. QED  BY <2>1, HoldingType
<1>. HIDE DEF e
<1>2. CASE t \in Plain
  <2>0. t # DT_SYMBASE
    BY <1>2 DEF Plain, DT_SYMBASE
  <2>1. ReturnRType(f, t) = <<"vector", Class[t]>> /\ t # DT_SYMBASE
    BY <1>2, <2>0, RTypes, Zenon
  <2>2. \A l : GetEntity(e, l) = RVector(Class[t], IF l /\ Class[t] = "integer" THEN Values(vec) ELSE WithNA(vec))
    BY <1>1, <2>1 DEF GetEntity
  <2>3. Column(vec) = RVector(Class[t], WithNA(vec))
    BY <2>1 DEF Column
  <2>4. CASE t \in {2, 3}
    BY <1>2, <2>2, <2>3, <2>4, IntegerTypes DEF e
  <2>5. CASE t = DT_INT
    <3>1. t \notin {2, 3} /\ Values(vec) = WithNA(vec)
      BY <2>5, ValuesOfInt DEF DT_INT
    <3>. QED  BY <2>2, <2>3, <3>1 DEF e
  <2>6. CASE t \notin {2, 3, DT_INT}
    BY <1>2, <2>2, <2>3, <2>6, IntegerTypes DEF e
  <2>. QED  BY <2>4, <2>5, <2>6
<1>3. CASE t = DT_SYMBASE
  <2>1. ReturnRType(f, t) = <<"factor", "">>
    BY <1>3, RTypes, Zenon
  <2>2. \A l : GetEntity(e, l) = Factor(vec)
    <3>1. ReturnRType(e.form, e.type)[1] = "factor"
      <4>1. ReturnRType(e.form, e.type) = <<"factor", "">>
        BY <1>1, <2>1, Zenon
      <4>2. <<"factor", "">>[1] = "factor"
        OBVIOUS
      <4>. QED  BY <4>1, <4>2, Zenon
    <3>. QED  BY <1>1, <3>1 DEF GetEntity
  <2>3. Column(vec) = Factor(vec) /\ t \notin {2, 3}
    BY <1>3 DEF Column, DT_SYMBASE
  <2>. QED  BY <2>2, <2>3 DEF e
<1>. QED  BY <1>2, <1>3 DEF KnownTypes

LEMMA GotScalar ==
  ASSUME NEW t \in Plain, NEW d \in Seq(Int), Len(d) = 1
  PROVE  LET e == Holding(DF_SCALAR, t, Vec(t, 0, 0, d, <<>>))
         IN  /\ GetEntity(e, FALSE) = RVector(Class[t], NullsAreNA(d))
             /\ GetEntity(e, TRUE) = RVector(Class[t], NullsAreNA(d)) \/ (d = <<Null>> /\ GetEntity(e, TRUE) = RNA)
<1>. DEFINE vec == Vec(t, 0, 0, d, <<>>)
            e == Holding(DF_SCALAR, t, vec)
<1>1. e.form = DF_SCALAR /\ e.type = t /\ e.vec = vec
  <2>1. DF_SCALAR \in Int /\ t \in Int /\ <<>> \in Seq(Int) /\ 0 \in Int
    BY DEF DF_SCALAR, Plain
  <2>2. vec \in Vecs
    BY <2>1, VecType, Zenon
  <2>. HIDE DEF vec
  <2>. QED  BY <2>1, <2>2, HoldingType
<1>2. vec.data = d
  BY VecFields
<1>. HIDE DEF e, vec
<1>3. ReturnRType(DF_SCALAR, t) = <<"scalar", Class[t]>>
  BY RTypes
<1>4. d = <<d[1]>> /\ NullsAreNA(d) = IF d[1] = Null THEN <<NA>> ELSE d
  <2>1. DOMAIN d = 1 .. 1 /\ d = [i \in 1 .. 1 |-> d[1]]
    OBVIOUS
  <2>2. NullsAreNA(d) = [i \in 1 .. 1 |-> IF d[1] = Null THEN NA ELSE d[1]]
    BY <2>1 DEF NullsAreNA
  <2>3. <<NA>> = [i \in 1 .. 1 |-> NA]
    OBVIOUS
  <2>. QED  BY <2>1, <2>2, <2>3
<1>5. IsNull(e.vec) <=> d[1] = Null
  BY <1>1, <1>2 DEF IsNull
<1>6. \A l : GetEntity(e, l) = IF ~ IsNull(e.vec) THEN RVector(Class[t], e.vec.data)
                               ELSE IF l /\ ~ (Class[t] \in {"Date", "POSIXct"}) THEN RNA
                               ELSE RVector(Class[t], <<NA>>)
  BY <1>1, <1>3 DEF GetEntity
<1>7. CASE d[1] # Null
  <2>1. NullsAreNA(d) = d
    BY <1>4, <1>7
  <2>2. \A l : GetEntity(e, l) = RVector(Class[t], d)
    <3>1. ~ IsNull(e.vec) /\ e.vec.data = d
      BY <1>1, <1>2, <1>5, <1>7
    <3>. QED  BY <1>6, <3>1, Zenon
  <2>. QED  BY <2>1, <2>2, Zenon DEF e, vec
<1>8. CASE d[1] = Null
  <2>1. NullsAreNA(d) = <<NA>> /\ d = <<Null>>
    BY <1>4, <1>8
  <2>0. IsNull(e.vec)
    BY <1>5, <1>8
  <2>2. GetEntity(e, FALSE) = RVector(Class[t], <<NA>>)
    BY <1>6, <2>0
  <2>3. GetEntity(e, TRUE) = RVector(Class[t], <<NA>>) \/ GetEntity(e, TRUE) = RNA
    BY <1>6, <2>0
  <2>. QED  BY <2>1, <2>2, <2>3, Zenon DEF e, vec
<1>. QED  BY <1>7, <1>8

\* The vectors that lables and values of a matrix are made of.
GoodVecs ==
  {vec \in Vecs : /\ vec.row \in Nat /\ vec.clm \in Nat
                  /\ Values(vec) \in Seq(RValue) /\ WithNA(vec) \in Seq(RValue)
                  /\ Len(Values(vec)) = vec.row * vec.clm /\ Len(WithNA(vec)) = vec.row * vec.clm}

LEMMA NothingGood == ASSUME NEW t \in Int PROVE Nothing(t) \in GoodVecs /\ Nothing(t).t = t
<1>. DEFINE vec == Nothing(t)
<1>1. vec \in Vecs /\ vec.t = t /\ vec.row = 0 /\ vec.clm = 0 /\ vec.data = <<>>
  BY NothingType, VecFields DEF Nothing
<1>. HIDE DEF vec
<1>2. Values(vec) = <<>>
  BY <1>1 DEF Values
<1>3. WithNA(vec) = <<>>
  BY <1>2 DEF WithNA, SetReceiveVectorNA
<1>4. <<>> \in Seq(RValue) /\ Len(<<>>) = vec.row * vec.clm /\ vec.row \in Nat /\ vec.clm \in Nat
  BY <1>1
<1>. QED  BY <1>1, <1>2, <1>3, <1>4 DEF GoodVecs, vec

\* A lable, as ReceiveMatrixLable takes it.
LableOk(vec) == vec.t = DT_VOID \/ LableClass(vec) \in LableClasses
LableValues(vec) == IF vec.t = DT_VOID THEN <<>> ELSE Lable(vec)

LEMMA LableValuesType == ASSUME NEW vec \in GoodVecs PROVE LableValues(vec) \in Seq(RValue)
<1>1. Values(vec) \in Seq(RValue) /\ WithNA(vec) \in Seq(RValue) /\ <<>> \in Seq(RValue)
  BY DEF GoodVecs
<1>. QED  BY <1>1, Zenon DEF LableValues, Lable

LEMMA MatrixStops ==
  ASSUME NEW e, ~ LableOk(e.row), NEW class, NEW data PROVE MatrixOf(e, class, data) = RError
<1>. QED  BY DEF MatrixOf, ReceiveMatrixLable, LableOk

LEMMA MatrixClassType ==
  ASSUME NEW class \in DOMAIN UploadType PROVE MatrixClass(class) \in DOMAIN UploadType
<1>. QED  BY DEF MatrixClass, UploadType

LEMMA MatrixOfIs ==
  ASSUME NEW e \in Ents, NEW class, NEW data, LableOk(e.row)
  PROVE  LET rows == LableValues(e.row)
             cols == IF LableOk(e.clm) THEN LableValues(e.clm) ELSE rows
             m == RMatrix(MatrixClass(class), <<e.vec.row, e.vec.clm>>, data, rows, cols)
         IN  /\ MatrixOf(e, class, data) \in {m, RError}
             /\ MatrixOf(e, class, data) = m => Len(rows) \in {0, e.vec.row} /\ Len(cols) \in {0, e.vec.clm}
             /\ LableOk(e.clm) /\ Len(rows) \in {0, e.vec.row} /\ Len(cols) \in {0, e.vec.clm} =>
                  MatrixOf(e, class, data) = m
<1>. DEFINE rows == LableValues(e.row)
            cols == IF LableOk(e.clm) THEN LableValues(e.clm) ELSE rows
            bare == RMatrix(MatrixClass(class), <<e.vec.row, e.vec.clm>>, data, <<>>, <<>>)
            m == RMatrix(MatrixClass(class), <<e.vec.row, e.vec.clm>>, data, rows, cols)
            bad == \/ e.clm.t # DT_VOID /\ LableClass(e.clm) \notin LableClasses /\ e.row.t = DT_VOID
                   \/ Len(rows) \notin {0, e.vec.row} \/ Len(cols) \notin {0, e.vec.clm}
<1>1. bare.dim[1] = e.vec.row /\ bare.dim[2] = e.vec.clm
  BY DEF RMatrix
<1>2. [bare EXCEPT !.rows = rows, !.cols = cols] = m
  <2>. HIDE DEF rows, cols
  <2>1. bare = [kind |-> "matrix", class |-> MatrixClass(class), dim |-> <<e.vec.row, e.vec.clm>>, data |-> data,
                rows |-> <<>>, cols |-> <<>>]
    BY DEF RMatrix
  <2>. HIDE DEF bare
  <2>2. [bare EXCEPT !.rows = rows] =
          [kind |-> "matrix", class |-> MatrixClass(class), dim |-> <<e.vec.row, e.vec.clm>>, data |-> data,
           rows |-> rows, cols |-> <<>>]
    BY <2>1
  <2>. DEFINE b == [bare EXCEPT !.rows = rows]
  <2>3. [bare EXCEPT !.rows = rows, !.cols = cols] = [b EXCEPT !.cols = cols]
    OBVIOUS
  <2>5. b = [kind |-> "matrix", class |-> MatrixClass(class), dim |-> <<e.vec.row, e.vec.clm>>, data |-> data,
             rows |-> rows, cols |-> <<>>]
    BY <2>2
  <2>. HIDE DEF b
  <2>4. [b EXCEPT !.cols = cols] =
          [kind |-> "matrix", class |-> MatrixClass(class), dim |-> <<e.vec.row, e.vec.clm>>, data |-> data,
           rows |-> rows, cols |-> cols]
    BY <2>5
  <2>. QED  BY <2>3, <2>4 DEF RMatrix
<1>3. (CASE e.clm.t = DT_VOID -> <<>>
         [] LableClass(e.clm) \in LableClasses -> Lable(e.clm)
         [] OTHER -> rows) = cols
  <2>1. ~ (e.clm.t = DT_VOID /\ LableClass(e.clm) \in LableClasses)
    <3>1. DF_VECTOR \in {DF_SCALAR, DF_VECTOR, DF_PAIR, DF_SET, DF_MATRIX} /\ DT_VOID \notin KnownTypes \cup {DT_ANY}
      BY DEF KnownTypes, Plain, DT_VOID, DT_SYMBASE, DT_ANY
    <3>2. \A f \in {DF_SCALAR, DF_VECTOR, DF_PAIR, DF_SET, DF_MATRIX} : ReturnRType(f, DT_VOID) = <<"void", "">>
      BY <3>1, RTypes
    <3>3. ReturnRType(DF_VECTOR, DT_VOID) = <<"void", "">>
      BY <3>1, <3>2
    <3>4. <<"void", "">>[2] = "" /\ "" \notin LableClasses
      BY DEF LableClasses
    <3>5. e.clm.t = DT_VOID => LableClass(e.clm) = ""
      BY <3>3, <3>4, Zenon DEF LableClass
    <3>. QED  BY <3>4, <3>5, Zenon
  <2>. HIDE DEF rows
  <2>. QED  BY <2>1 DEF LableOk, LableValues
<1>4. MatrixOf(e, class, data) = IF bad THEN RError ELSE m
  <2>1. (IF e.row.t = DT_VOID THEN <<>> ELSE Lable(e.row)) = rows
    BY DEF LableValues
  <2>2. ~ (e.row.t # DT_VOID /\ LableClass(e.row) \notin LableClasses)
    BY DEF LableOk
  <2>. HIDE DEF rows, cols, m, bare
  <2>3. MatrixOf(e, class, data) = ReceiveMatrixLable(bare, e)
    BY DEF MatrixOf, bare
  <2>. DEFINE R == IF e.row.t = DT_VOID THEN <<>> ELSE Lable(e.row)
              C == CASE e.clm.t = DT_VOID -> <<>>
                     [] LableClass(e.clm) \in LableClasses -> Lable(e.clm)
                     [] OTHER -> R
  <2>5. ReceiveMatrixLable(bare, e) =
          IF \/ ~ (e.row.t = DT_VOID) /\ ~ (LableClass(e.row) \in LableClasses)
             \/ ~ (e.clm.t = DT_VOID) /\ ~ (LableClass(e.clm) \in LableClasses) /\ e.row.t = DT_VOID
             \/ Len(R) \notin {0, bare.dim[1]} \/ Len(C) \notin {0, bare.dim[2]}
          THEN RError ELSE [bare EXCEPT !.rows = R, !.cols = C]
    BY Zenon DEF ReceiveMatrixLable
  <2>6. R = rows
    BY <2>1
  <2>7. C = cols
    <3>. HIDE DEF R
    <3>. QED  BY <1>3, <2>6
  <2>. HIDE DEF R, C
  <2>4. ReceiveMatrixLable(bare, e) = IF bad THEN RError ELSE [bare EXCEPT !.rows = rows, !.cols = cols]
    BY <1>1, <2>2, <2>5, <2>6, <2>7, Zenon
  <2>. QED  BY <1>2, <2>3, <2>4
<1>5. m # RError
  BY DEF RMatrix, RError
<1>. HIDE DEF rows, cols, m, bare
<1>6. LableOk(e.clm) /\ Len(rows) \in {0, e.vec.row} /\ Len(cols) \in {0, e.vec.clm} => ~ bad
  BY DEF LableOk
<1>7. ~ bad => Len(rows) \in {0, e.vec.row} /\ Len(cols) \in {0, e.vec.clm}
  OBVIOUS
<1>. HIDE DEF bad
<1>. QED  BY <1>4, <1>5, <1>6, <1>7, Zenon DEF rows, cols, m

LEMMA DVecValues ==
  ASSUME NEW v \in DVectors, SupportedVector(v), NEW row, NEW clm
  PROVE  /\ v.t # DT_INT => Values(DVec(v, row, clm)) = v.data
         /\ v.t = DT_INT => Values(DVec(v, row, clm)) = NullsAreNA(v.data)
<1>. DEFINE vec == DVec(v, row, clm)
<1>0. vec.t = v.t
  BY DVecFields
<1>1. CASE v.t = DT_INT
  <2>1. Values(vec) = WithNA(vec)
    BY <1>0, <1>1, ValuesOfInt
  <2>2. WithNA(vec) = NullsAreNA(v.data)
    BY DColumn, Zenon
  <2>. QED  BY <1>1, <2>1, <2>2
<1>2. CASE v.t # DT_INT /\ v.t # DT_SYMBASE
  <2>1. vec.data = v.data
    BY <1>2, DVecFields
  <2>2. v.data = [i \in DOMAIN v.data |-> v.data[i]]
    BY DVectorType
  <2>. HIDE DEF vec
  <2>3. Values(vec) = [i \in DOMAIN v.data |-> v.data[i]]
    BY <1>0, <1>2, <2>1 DEF Values
  <2>. QED  BY <1>2, <2>2, <2>3 DEF vec
<1>3. CASE v.t = DT_SYMBASE
  <2>1. vec.t = DT_SYMBASE /\ vec.data = Shifted(SymbolCodes(v.data)) /\ vec.levels = Base(v.base, Null)
    BY <1>3, DVecFields
  <2>2. /\ vec.data = [i \in DOMAIN v.data |-> IF v.data[i] = Null THEN 1 ELSE v.data[i] + 1]
        /\ DOMAIN vec.data = DOMAIN v.data
    BY <1>3, <2>1, SymbolsBack, Zenon
  <2>3. v.data = [i \in DOMAIN v.data |-> v.data[i]] /\ v.base \in Nat
        /\ \A i \in DOMAIN v.data : SymbolIn(v.data[i], v.base)
    BY <1>3, DVectorType
  <2>. HIDE DEF vec
  <2>4. Values(vec) = [i \in DOMAIN v.data |->
                         IF vec.data[i] \in DOMAIN vec.levels THEN vec.levels[vec.data[i]] ELSE Bad]
    BY <2>1, <2>2 DEF Values, DT_INT, DT_SYMBASE
  <2>5. ASSUME NEW i \in DOMAIN v.data
        PROVE  (IF vec.data[i] \in DOMAIN vec.levels THEN vec.levels[vec.data[i]] ELSE Bad) = v.data[i]
    <3>1. vec.data[i] = IF v.data[i] = Null THEN 1 ELSE v.data[i] + 1
      BY <2>2
    <3>2. DOMAIN vec.levels = 1 .. v.base
          /\ \A j \in 1 .. v.base : vec.levels[j] = IF j = 1 THEN Null ELSE j - 1
      BY <2>1, <2>3, BaseType
    <3>3. SymbolIn(v.data[i], v.base)
      BY <2>3
    <3>4. CASE v.data[i] = Null
      <4>1. v.base > 0
        BY <2>3, <3>3, <3>4 DEF SymbolIn, Null
      <4>. QED  BY <2>3, <3>1, <3>2, <3>4, <4>1
    <3>5. CASE v.data[i] \in 1 .. v.base - 1
      <4>0. v.data[i] \in Int /\ v.data[i] # Null
        BY <3>5 DEF Null
      <4>1. v.data[i] + 1 \in 1 .. v.base /\ v.data[i] + 1 # 1 /\ (v.data[i] + 1) - 1 = v.data[i]
        BY <2>3, <3>3, <4>0, SymbolNext, Zenon
      <4>2. vec.data[i] = v.data[i] + 1
        BY <3>1, <4>0, Zenon
      <4>3. vec.levels[v.data[i] + 1] = v.data[i]
        BY <3>2, <4>1, Zenon
      <4>. QED  BY <3>2, <4>1, <4>2, <4>3, Zenon
    <3>. QED  BY <3>3, <3>4, <3>5 DEF SymbolIn
  <2>6. Values(vec) = v.data
    BY <2>3, <2>4, <2>5, Zenon
  <2>7. v.t # DT_INT
    BY <1>3 DEF DT_INT, DT_SYMBASE
  <2>. QED  BY <2>6, <2>7 DEF vec
<1>. QED  BY <1>1, <1>2, <1>3

LEMMA DVecGood ==
  ASSUME NEW v \in DVectors, SupportedVector(v), NEW row \in Nat, NEW clm \in Nat, Len(v.data) = row * clm
  PROVE  DVec(v, row, clm) \in GoodVecs
<1>. DEFINE vec == DVec(v, row, clm)
<1>1. v.data \in Seq(RValue)
  BY DVectorType, Zenon
<1>2. NullsAreNA(v.data) \in Seq(RValue) /\ Len(NullsAreNA(v.data)) = Len(v.data)
  BY <1>1, NullsAreNAType, Zenon
<1>3. WithNA(vec) = NullsAreNA(v.data)
  BY DColumn, Zenon
<1>4. Values(vec) = v.data \/ Values(vec) = NullsAreNA(v.data)
  BY DVecValues, Zenon
<1>5. vec \in Vecs
  <2>0. <<row, clm>>[1] = row /\ <<row, clm>>[2] = clm
    OBVIOUS
  <2>1. Carries(<<Flag(DF_VECTOR, v.t)>> \o Body(v, <<row, clm>>), vec)
    BY <2>0, FormCodes, DVectorCarried, Zenon
  <2>. QED  BY <2>1, Zenon DEF Carries
<1>6. vec.row = row /\ vec.clm = clm
  BY DVecFields
<1>. HIDE DEF vec
<1>7. vec \in GoodVecs
  BY <1>1, <1>2, <1>3, <1>4, <1>5, <1>6 DEF GoodVecs
<1>. QED  BY <1>7 DEF vec

LEMMA KnownLable ==
  ASSUME NEW v, LableClass(v) \in LableClasses
  PROVE  v.t \in Plain /\ LableClass(v) = Class[v.t] /\ v.t # DT_VOID
<1>. DEFINE t == v.t
<1>0. DF_VECTOR \in {DF_VECTOR, DF_PAIR, DF_SET} /\ DF_VECTOR \in {DF_SCALAR, DF_VECTOR, DF_PAIR, DF_SET, DF_MATRIX}
  OBVIOUS
<1>1. "" \notin LableClasses
  BY DEF LableClasses
<1>2. <<"factor", "">>[2] = "" /\ <<"list", "">>[2] = "" /\ <<"void", "">>[2] = "" /\ <<"vector", Class[t]>>[2] = Class[t]
  OBVIOUS
<1>. HIDE DEF t
<1>3. CASE t = DT_SYMBASE
  <2>1. ReturnRType(DF_VECTOR, t) = <<"factor", "">>
    BY <1>0, <1>3, RTypes, Zenon
  <2>. QED  BY <1>1, <1>2, <2>1, Zenon DEF LableClass, t
<1>4. CASE t = DT_ANY
  <2>1. ReturnRType(DF_VECTOR, t) = <<"list", "">>
    BY <1>0, <1>4, RTypes, Zenon
  <2>. QED  BY <1>1, <1>2, <2>1, Zenon DEF LableClass, t
<1>5. CASE t \notin KnownTypes \cup {DT_ANY}
  <2>1. ReturnRType(DF_VECTOR, t) = <<"void", "">>
    BY <1>0, <1>5, RTypes, Zenon
  <2>. QED  BY <1>1, <1>2, <2>1, Zenon DEF LableClass, t
<1>6. CASE t \in Plain
  <2>1. ReturnRType(DF_VECTOR, t) = <<"vector", Class[t]>>
    BY <1>0, <1>6, RTypes, Zenon
  <2>2. t # DT_VOID
    BY <1>6 DEF Plain, DT_VOID
  <2>. QED  BY <1>2, <1>6, <2>1, <2>2, Zenon DEF LableClass, t
<1>. QED  BY <1>3, <1>4, <1>5, <1>6 DEF KnownTypes

\* The lable of a script's matrix.
LEMMA DLable ==
  ASSUME NEW v \in DVectors, LableClass(v) \in LableClasses, NEW row, NEW clm
  PROVE  Lable(DVec(v, row, clm)) = ExpectedLable(v) /\ LableOk(DVec(v, row, clm)) /\ DVec(v, row, clm).t # DT_VOID
<1>. DEFINE vec == DVec(v, row, clm)
            t == v.t
<1>1. t \in Plain /\ LableClass(v) = Class[t] /\ t # DT_VOID /\ SupportedVector(v)
  <2>1. t \in Plain /\ LableClass(v) = Class[t] /\ t # DT_VOID
    BY KnownLable, Zenon
  <2>. QED  BY <2>1 DEF SupportedVector
<1>2. vec.t = t /\ WithNA(vec) = NullsAreNA(v.data)
  BY <1>1, DColumn, DVecFields
<1>3. (t # DT_INT => Values(vec) = v.data) /\ (t = DT_INT => Values(vec) = NullsAreNA(v.data))
  BY <1>1, DVecValues, Zenon
<1>. HIDE DEF vec
<1>4. LableClass(vec) = Class[t]
  BY <1>1, <1>2, Zenon DEF LableClass, t
<1>5. Class[t] = "integer" <=> t \in {2, 3, DT_INT}
  BY <1>1, IntegerTypes, Zenon
<1>6. DT_INT \notin {2, 3}
  BY DEF DT_INT
<1>. HIDE DEF t
<1>7. Lable(vec) = IF Class[t] \in {"logical", "numeric"} THEN WithNA(vec) ELSE Values(vec)
  BY <1>4, Zenon DEF Lable
<1>8. ExpectedLable(v) = IF Class[t] = "character" \/ t \in {2, 3} THEN v.data ELSE NullsAreNA(v.data)
  BY <1>1, Zenon DEF ExpectedLable, t
<1>9. Class[t] \in {"logical", "integer", "numeric", "character"}
  BY <1>1 DEF LableClasses
<1>10. Lable(vec) = ExpectedLable(v)
  <2>1. CASE Class[t] \in {"logical", "numeric"}
    <3>1. Class[t] # "character" /\ Class[t] # "integer"
      BY <2>1
    <3>. QED  BY <1>2, <1>5, <1>7, <1>8, <2>1, <3>1
  <2>2. CASE Class[t] = "character"
    <3>1. t # DT_INT
      BY <1>5, <2>2
    <3>. QED  BY <1>3, <1>7, <1>8, <2>2, <3>1
  <2>3. CASE Class[t] = "integer"
    <3>1. t = DT_INT \/ (t \in {2, 3} /\ t # DT_INT)
      BY <1>5, <1>6, <2>3
    <3>. QED  BY <1>3, <1>6, <1>7, <1>8, <2>3, <3>1
  <2>. QED  BY <1>9, <2>1, <2>2, <2>3
<1>11. LableOk(vec) /\ vec.t # DT_VOID
  BY <1>1, <1>2, <1>4 DEF LableOk, t
<1>. QED  BY <1>10, <1>11 DEF vec

\* The lable of an R matrix, which is sent as a vector of strings.
LableOf(rows) == IF rows = <<>> THEN Nothing(DT_VOID) ELSE VectorOf("character", RVector("character", rows))

LEMMA RLable ==
  ASSUME NEW rows \in Seq(RValue)
  PROVE  /\ LableOf(rows) \in GoodVecs /\ LableOk(LableOf(rows)) /\ LableValues(LableOf(rows)) = Nulled(rows)
         /\ Nulled(rows) \in Seq(RValue) /\ Len(Nulled(rows)) = Len(rows)
<1>0. Nulled(rows) \in Seq(RValue) /\ Len(Nulled(rows)) = Len(rows)
  BY NulledType, Zenon
<1>1. CASE rows = <<>>
  <2>1. Nulled(rows) = <<>>
    BY <1>1 DEF Nulled
  <2>2. DT_VOID \in Int
    BY DEF DT_VOID
  <2>3. Nothing(DT_VOID) \in GoodVecs /\ Nothing(DT_VOID).t = DT_VOID
    BY <2>2, NothingGood, Zenon
  <2>. QED  BY <1>0, <1>1, <2>1, <2>3, Zenon DEF LableOf, LableOk, LableValues
<1>2. CASE rows # <<>>
  <2>. DEFINE c == RVector("character", rows)
              t == UploadType["character"]
              vec == VectorOf("character", c)
  <2>1. c.data = rows /\ c \in VectorObjects /\ "character" \in DOMAIN UploadType
    BY DEF RVector, VectorObjects, UploadType, RClasses
  <2>. HIDE DEF c
  <2>2. t \in Plain /\ Class[t] = "character"
    BY <2>1, UploadTypes, Zenon
  <2>3. vec.t = t /\ vec.data = Nulled(rows) /\ vec.row = Len(rows) /\ vec.clm = 1
    BY <2>1, VecFields DEF VectorOf
  <2>4. vec \in Vecs
    BY <2>1, VectorCarried, Zenon DEF Carries
  <2>. HIDE DEF t
  <2>5. WithNA(vec) = NullsAreNA(Nulled(rows))
    BY <2>1, <2>2, WithNAPlain, Zenon DEF VectorOf, t
  <2>6. t # DT_INT /\ t # DT_SYMBASE /\ t # DT_VOID
    <3>1. t # DT_INT
      BY <2>2, IntegerTypes
    <3>. QED  BY <2>2, <3>1 DEF Plain, DT_SYMBASE, DT_VOID
  <2>. HIDE DEF vec
  <2>7. Values(vec) = Nulled(rows)
    <3>1. Values(vec) = [i \in DOMAIN Nulled(rows) |-> Nulled(rows)[i]]
      BY <2>3, <2>6 DEF Values
    <3>. QED  BY <1>0, <3>1
  <2>8. LableClass(vec) = "character"
    <3>1. DF_VECTOR \in {DF_VECTOR, DF_PAIR, DF_SET}
      OBVIOUS
    <3>2. ReturnRType(DF_VECTOR, t) = <<"vector", Class[t]>>
      BY <2>2, <3>1, RTypes, Zenon
    <3>3. <<"vector", "character">>[2] = "character"
      OBVIOUS
    <3>. QED  BY <2>2, <2>3, <3>2, <3>3, Zenon DEF LableClass
  <2>9. vec \in GoodVecs
    <3>1. NullsAreNA(Nulled(rows)) \in Seq(RValue) /\ Len(NullsAreNA(Nulled(rows))) = Len(rows)
      BY <1>0, NullsAreNAType, Zenon
    <3>2. Len(rows) = vec.row * vec.clm /\ vec.row \in Nat /\ vec.clm \in Nat
      BY <2>3
    <3>. QED  BY <1>0, <2>4, <2>5, <2>7, <3>1, <3>2 DEF GoodVecs
  <2>10. LableOk(vec) /\ LableValues(vec) = Nulled(rows)
    BY <2>3, <2>6, <2>7, <2>8 DEF LableOk, LableValues, Lable, LableClasses
  <2>. QED  BY <1>0, <1>2, <2>9, <2>10, Zenon DEF LableOf, vec, c
<1>. QED  BY <1>1, <1>2

GetsMatrix(e, class, mtx) ==
  /\ GetEntity(e, FALSE) = MatrixOf(e, class, WithNA(mtx))
  /\ class = "character" => GetEntity(e, TRUE) = RNA
  /\ class = "integer" => GetEntity(e, TRUE) = MatrixOf(e, class, Values(mtx))
  /\ class \notin {"character", "integer"} => GetEntity(e, TRUE) = MatrixOf(e, class, WithNA(mtx))

LEMMA MatrixGot ==
  ASSUME NEW t \in KnownTypes, NEW mtx \in Vecs, NEW row \in Vecs, NEW clm \in Vecs,
         NEW e, e = MatrixEntity(t, mtx, row, clm), NEW class, class = MatrixClassOf(t)
  PROVE  GetsMatrix(e, class, mtx)
<1>0. t \in Int
  BY DEF KnownTypes, Plain, DT_SYMBASE
<1>1. e.form = DF_MATRIX /\ e.type = t /\ e.vec = mtx
  BY <1>0, MatrixEntityType
<1>2. ReturnRType(e.form, e.type) = <<"matrix", class>>
  BY <1>1, RTypes, Zenon
<1>3. <<"matrix", class>>[1] = "matrix" /\ <<"matrix", class>>[2] = class
  OBVIOUS
<1>. DEFINE type == ReturnRType(e.form, e.type)
<1>4. type[1] = "matrix" /\ type[2] = class
  BY <1>2, <1>3, Zenon
<1>5. \A l : GetEntity(e, l) =
        IF ~ (l /\ class = "character")
        THEN MatrixOf(e, class, IF l /\ class = "integer" THEN Values(mtx) ELSE WithNA(mtx)) ELSE RNA
  BY <1>1, <1>4 DEF GetEntity
<1>. QED  BY <1>5 DEF GetsMatrix

\* The columns of a data frame, on its own or in a list.
Framed(vecs, l) == [i \in DOMAIN vecs |-> FrameColumn(vecs[i], StringsKept(Len(vecs), l))]

GetsTable(e, l, names, vecs) ==
  /\ vecs # <<>> /\ (\E i \in DOMAIN vecs : vecs[i].t \notin KnownTypes) => GetEntity(e, l) = RNull
  /\ vecs # <<>> /\ (\A i \in DOMAIN vecs : vecs[i].t \in KnownTypes) =>
       GetEntity(e, l) = RTable(names, Framed(vecs, l))

LEMMA TableGot ==
  ASSUME NEW t \in Int, NEW names \in Seq(Int), NEW vecs \in Seq(Vecs), NEW e, e = TableEntity(t, names, vecs), NEW l
  PROVE  GetsTable(e, l, names, vecs)
<1>1. e.form = DF_TABLE /\ e.names = names /\ e.columns = vecs
  BY TableEntityType
<1>2. ReturnRType(e.form, e.type) = <<"table", "">>
  BY <1>1, RTypes, Zenon
<1>3. <<"table", "">>[1] = "table"
  OBVIOUS
<1>4. ReturnRType(e.form, e.type)[1] = "table"
  BY <1>2, <1>3, Zenon
<1>5. GetEntity(e, l) = GetTable(e, l)
  BY <1>4 DEF GetEntity
<1>6. /\ vecs # <<>> /\ (\E i \in DOMAIN vecs : vecs[i].t \notin KnownTypes) => GetTable(e, l) = RNull
      /\ vecs # <<>> /\ (\A i \in DOMAIN vecs : vecs[i].t \in KnownTypes) =>
           GetTable(e, l) = RTable(names, Framed(vecs, l))
  BY <1>1, Zenon DEF GetTable, KnownTypes, Framed
<1>. QED  BY <1>5, <1>6, Zenon DEF GetsTable

LEMMA KeptType == ASSUME NEW n, NEW l \in BOOLEAN PROVE StringsKept(n, l) \in BOOLEAN
<1>. QED  BY DEF StringsKept

\* A header is its flag and the rest.
LEMMA HeaderConcat ==
  ASSUME NEW a \in Wire, NEW b \in Wire, NEW c \in Wire, NEW r \in Seq(Wire)
  PROVE  <<b, c>> \o r \in Seq(Wire) /\ <<a, b, c>> \o r = <<a>> \o (<<b, c>> \o r)
<1>1. <<a>> \in Seq(Wire) /\ <<b, c>> \in Seq(Wire) /\ <<a, b, c>> \in Seq(Wire)
  OBVIOUS
<1>2. <<a>> \o <<b, c>> = <<a, b, c>>
  <2>1. Len(<<a>> \o <<b, c>>) = 3 /\ Len(<<a, b, c>>) = 3
    BY <1>1
  <2>2. \A i \in 1 .. 3 : (<<a>> \o <<b, c>>)[i] = <<a, b, c>>[i]
    BY <1>1
  <2>. QED  BY <1>1, <2>1, <2>2, WireConcat, SeqEqual
<1>3. (<<a>> \o <<b, c>>) \o r = <<a>> \o (<<b, c>> \o r)
  BY <1>1, WireAssociative, Zenon
<1>. QED  BY <1>1, <1>2, <1>3, WireConcat, Zenon

LEMMA PairConcat == ASSUME NEW a \in Wire, NEW b \in Wire PROVE <<a>> \o <<b>> = <<a, b>>
<1>1. <<a>> \in Seq(Wire) /\ <<b>> \in Seq(Wire) /\ <<a, b>> \in Seq(Wire)
  OBVIOUS
<1>2. Len(<<a>> \o <<b>>) = 2 /\ Len(<<a, b>>) = 2
  BY <1>1
<1>3. \A i \in 1 .. 2 : (<<a>> \o <<b>>)[i] = <<a, b>>[i]
  BY <1>1
<1>. QED  BY <1>1, <1>2, <1>3, WireConcat, SeqEqual

\* A scalar of type VOID.
LEMMA VoidScalarGot ==
  ASSUME NEW e, e.form = DF_SCALAR, e.type = DT_VOID, NEW l PROVE GetEntity(e, l) = RNA
<1>1. DT_VOID \notin KnownTypes \cup {DT_ANY} /\ DF_SCALAR \in {DF_SCALAR, DF_VECTOR, DF_PAIR, DF_SET, DF_MATRIX}
  BY DEF KnownTypes, Plain, DT_VOID, DT_SYMBASE, DT_ANY
<1>2. ReturnRType(DF_SCALAR, DT_VOID) = <<"void", "">>
  BY <1>1, RTypes, Zenon
<1>3. <<"void", "">>[1] = "void"
  OBVIOUS
<1>4. ReturnRType(e.form, e.type)[1] \in {"void", "list"}
  BY <1>2, <1>3, Zenon
<1>. QED  BY <1>4, GotNothing

LEMMA MatrixClassOfType == ASSUME NEW t \in KnownTypes PROVE MatrixClassOf(t) \in DOMAIN UploadType
<1>1. "character" \in DOMAIN UploadType
  BY DEF UploadType
<1>. QED  BY <1>1, ClassType DEF MatrixClassOf, KnownTypes

\* A matrix whose parts were read has an R matrix, or there are too many or too few lables.
LEMMA MatrixOfType ==
  ASSUME NEW e \in Ents, e.vec \in GoodVecs, e.row \in GoodVecs, e.clm \in GoodVecs,
         NEW class \in DOMAIN UploadType, NEW data \in Seq(RValue), Len(data) = e.vec.row * e.vec.clm
  PROVE  MatrixOf(e, class, data) \in MatrixObjects \cup {RError}
<1>1. CASE ~ LableOk(e.row)
  BY <1>1, MatrixStops
<1>2. CASE LableOk(e.row)
  <2>. DEFINE rows == LableValues(e.row)
              cols == IF LableOk(e.clm) THEN LableValues(e.clm) ELSE rows
              m == RMatrix(MatrixClass(class), <<e.vec.row, e.vec.clm>>, data, rows, cols)
  <2>1. rows \in Seq(RValue) /\ cols \in Seq(RValue)
    BY LableValuesType, Zenon
  <2>2. /\ MatrixOf(e, class, data) = m \/ MatrixOf(e, class, data) = RError
        /\ MatrixOf(e, class, data) = m => Len(rows) \in {0, e.vec.row} /\ Len(cols) \in {0, e.vec.clm}
    BY <1>2, MatrixOfIs
  <2>3. MatrixClass(class) \in DOMAIN UploadType /\ e.vec.row \in Nat /\ e.vec.clm \in Nat
    BY MatrixClassType DEF GoodVecs
  <2>. HIDE DEF rows, cols
  <2>4. CASE MatrixOf(e, class, data) = m
    <3>. DEFINE dim == <<e.vec.row, e.vec.clm>>
    <3>1. dim \in Nat \X Nat /\ dim[1] = e.vec.row /\ dim[2] = e.vec.clm
      BY <2>3
    <3>2. Len(data) = dim[1] * dim[2] /\ Len(rows) \in {0, dim[1]} /\ Len(cols) \in {0, dim[2]}
      BY <2>2, <2>4, <3>1
    <3>. HIDE DEF dim
    <3>3. RMatrix(MatrixClass(class), dim, data, rows, cols) \in MatrixObjects
      BY <2>1, <2>3, <3>1, <3>2 DEF RMatrix, MatrixObjects
    <3>. QED  BY <2>4, <3>3, Zenon DEF dim
  <2>. QED  BY <2>2, <2>4
<1>. QED  BY <1>1, <1>2

-----------------------------------------------------------------------------
(* The objects of R: what they are carried as, and what comes back.        *)

ReturnsAs(r, e) ==
  /\ CarriesEntity(UploadEntity(r), e)
  /\ e.type # DT_ANY
  /\ GetEntity(e, FALSE) \in AllRObjects
  /\ ~ HasNACode(r) => Same(Returned(r), GetEntity(e, FALSE), FALSE)

LEMMA VectorReturns ==
  ASSUME NEW r \in VectorObjects, Len(r.data) # 1 PROVE \E e : ReturnsAs(r, e)
<1>. DEFINE k == RClass(r.class)
            t == UploadType[k]
            vec == VectorOf(k, r)
            e == Holding(DF_VECTOR, t, vec)
            d == Items(Width[t], Nulled(r.data))
            rest == <<Item("int", Len(r.data)), Item("int", 1)>> \o d
<1>1. r.kind = "vector" /\ k \in DOMAIN UploadType /\ r.data \in Seq(RValue)
  BY ClassesSent, Zenon
<1>2. t \in Plain /\ t \in 0 .. 255 /\ t \in KnownTypes /\ t # DT_ANY /\ t \notin {2, 3}
  <2>1. t \in Plain /\ t \in 0 .. 255
    BY <1>1, UploadTypes, Zenon
  <2>2. t \notin {2, 3}
    BY <1>1, UploadTypes DEF UploadType, DT_BOOL, DT_INT, DT_DOUBLE, DT_STRING, DT_DATE, DT_DATETIME
  <2>. HIDE DEF t
  <2>. QED  BY <2>1, <2>2 DEF Plain, DT_ANY, KnownTypes
<1>3. UploadEntity(r) = VectorItems(t, r.data)
  <2>1. UploadEntity(r) = IF IsTime(r) THEN UploadVectorDate(r) ELSE UploadVector(r)
    BY <1>1 DEF UploadEntity
  <2>2. UploadVectorDate(r) = VectorItems(t, r.data) /\ (~ IsTime(r) => UploadVector(r) = VectorItems(t, r.data))
    BY ClassesSent, Zenon
  <2>. QED  BY <2>1, <2>2, Zenon
<1>4. UploadEntity(r) = Header(DF_VECTOR, t, Len(r.data), 1) \o d
  BY <1>3, Zenon DEF VectorItems, Header
<1>. HIDE DEF k
<1>. HIDE DEF t
<1>5. Item("int", Len(r.data)) \in Wire /\ Item("int", 1) \in Wire /\ Flag(DF_VECTOR, t) \in Wire
  <2>1. Len(r.data) \in Int /\ 1 \in Int /\ "int" \in Words
    BY <1>1 DEF Words
  <2>. QED  BY <1>2, <2>1, FormCodes, ItemType, FlagType, Zenon
<1>6. d \in Seq(Wire)
  <2>1. Nulled(r.data) \in Seq(RValue)
    BY <1>1, NulledType, Zenon
  <2>2. Nulled(r.data) \in Seq(Int)
    BY <2>1, RValueType, SubsetSeq, Zenon
  <2>. QED  BY <1>2, <2>2, WidthType, ItemsType, Zenon
<1>. HIDE DEF d
<1>7. rest \in Seq(Wire) /\ Header(DF_VECTOR, t, Len(r.data), 1) \o d = <<Flag(DF_VECTOR, t)>> \o rest
  BY <1>5, <1>6, HeaderConcat, Zenon DEF Header
<1>8. Carries(UploadEntity(r), vec) /\ vec.t = t /\ Column(vec) = ReturnedVector(r) /\ Column(vec) \in VectorObjects
  <2>1. ReturnedVector(r) = RVector(k, NullsAreNA(r.data))
    BY Zenon DEF ReturnedVector, k
  <2>2. Carries(UploadEntity(r), vec) /\ Column(vec) = RVector(k, NullsAreNA(r.data)) /\ Column(vec) \in VectorObjects
    BY <1>1, <1>3, VectorCarried, Zenon DEF t
  <2>. QED  BY <2>1, <2>2, VecFields DEF VectorOf, t
<1>9. vec \in Vecs
  BY <1>8 DEF Carries
<1>. HIDE DEF vec, rest
<1>10. CarriesEntity(UploadEntity(r), e)
  <2>1. DF_VECTOR \in {DF_VECTOR, DF_PAIR} /\ UploadEntity(r) = <<Flag(DF_VECTOR, t)>> \o rest
    BY <1>4, <1>7
  <2>. QED  BY <1>2, <1>7, <1>8, <2>1, VectorEntity, Zenon
<1>11. e.type = t
  BY <1>2, <1>9, HoldingType DEF DF_VECTOR
<1>12. GetEntity(e, FALSE) = ReturnedVector(r)
  BY <1>2, <1>8, <1>9, GotVector
<1>13. ReturnedVector(r) = Returned(r) /\ ReturnedVector(r).kind = "vector"
  BY <1>1, <1>8 DEF Returned, VectorObjects
<1>14. Same(Returned(r), ReturnedVector(r), FALSE)
  BY <1>13, SameReflexive DEF Same
<1>. HIDE DEF e
<1>15. ReturnsAs(r, e)
  BY <1>2, <1>8, <1>10, <1>11, <1>12, <1>14 DEF ReturnsAs, AllRObjects
<1>. QED  BY <1>15

LEMMA ScalarReturns ==
  ASSUME NEW r \in VectorObjects, Len(r.data) = 1 PROVE \E e : ReturnsAs(r, e)
<1>. DEFINE k == RClass(r.class)
            sent == AsUTC(r)
<1>1. r.kind = "vector" /\ k \in DOMAIN UploadType /\ r.data \in Seq(RValue) /\ (~ IsTime(r) => r.class = k)
  BY ClassesSent, Zenon
<1>11. sent \in Seq(RValue) /\ Len(sent) = 1 /\ (r.class # "localtime" => sent = r.data)
  <2>. DEFINE x(i) == IF r.class = "localtime" /\ r.data[i] # NA THEN r.data[i] + Zone ELSE r.data[i]
  <2>1. \A i \in 1 .. 1 : x(i) \in RValue
    <3>1. r.data[1] \in RValue /\ Zone \in Nat
      BY <1>1, TransferAssumption
    <3>. QED  BY <3>1 DEF RValue, Null, NA
  <2>2. DOMAIN r.data = 1 .. 1 /\ r.data = [i \in 1 .. 1 |-> r.data[i]]
    BY <1>1
  <2>3. sent = [i \in 1 .. 1 |-> x(i)]
    BY <2>2, Zenon DEF AsUTC
  <2>4. sent \in [1 .. 1 -> RValue]
    BY <2>1, <2>3, Zenon
  <2>5. r.class # "localtime" => sent = r.data
    BY <2>2, <2>3, Zenon
  <2>. HIDE DEF sent
  <2>6. sent \in Seq(RValue) /\ Len(sent) = 1
    BY <2>4, AsSequence
  <2>. QED  BY <2>5, <2>6
<1>2. UploadEntity(r) = IF r.class \in {"logical", "character"} /\ AllNA(r)
                        THEN <<Flag(DF_SCALAR, DT_VOID), Item("char", 1)>>
                        ELSE ScalarItems(UploadType[k], sent)
  <2>1. UploadEntity(r) = IF IsTime(r) THEN UploadScalarDate(r) ELSE UploadScalar(r)
    BY <1>1 DEF UploadEntity
  <2>2. r.class \in {"logical", "character"} => ~ IsTime(r)
    BY DEF IsTime, RClass
  <2>3. ~ IsTime(r) => r.class # "localtime"
    BY DEF IsTime, RClass
  <2>. QED  BY <1>1, <1>11, <2>1, <2>2, <2>3, Zenon DEF UploadScalar, UploadScalarDate
<1>3. ReturnedVector(r) = RVector(k, NullsAreNA(sent)) /\ Returned(r) = ReturnedVector(r)
  <2>1. Returned(r) = ReturnedVector(r)
    BY <1>1 DEF Returned
  <2>. QED  BY <2>1, Zenon DEF ReturnedVector
<1>. HIDE DEF k, sent
<1>4. NullsAreNA(sent) \in Seq(RValue) /\ Len(NullsAreNA(sent)) = 1
  BY <1>11, NullsAreNAType
<1>5. CASE r.class \in {"logical", "character"} /\ AllNA(r)
  <2>. DEFINE e == Holding(DF_SCALAR, DT_VOID, Nothing(DT_VOID))
  <2>1. Items(ItemOf(DT_VOID), <<1>>) = <<Item("char", 1)>>
    <3>1. ItemOf(DT_VOID) = "char"
      BY DEF ItemOf, Plain, DT_VOID
    <3>2. Items("char", <<1>>) = <<Item("char", 1)>>
      BY DEF Items
    <3>. QED  BY <3>1, <3>2, Zenon
  <2>2. UploadEntity(r) = <<Flag(DF_SCALAR, DT_VOID)>> \o <<Item("char", 1)>>
    <3>. DEFINE a == Flag(DF_SCALAR, DT_VOID)
                b == Item("char", 1)
    <3>1. UploadEntity(r) = <<a, b>>
      BY <1>2, <1>5, Zenon
    <3>2. a \in Wire /\ b \in Wire
      BY FlagType, ItemType DEF DF_SCALAR, DT_VOID, Words
    <3>. HIDE DEF a, b
    <3>3. <<a>> \o <<b>> = <<a, b>>
      BY <3>2, PairConcat
    <3>. QED  BY <3>1, <3>3, Zenon DEF a, b
  <2>3. CarriesEntity(UploadEntity(r), e)
    <3>1. <<1>> \in Seq(Int) /\ Len(<<1>>) = 1 /\ DT_VOID \in Plain \cup {DT_VOID}
      OBVIOUS
    <3>2. CarriesEntity(<<Flag(DF_SCALAR, DT_VOID)>> \o Items(ItemOf(DT_VOID), <<1>>),
                        Holding(DF_SCALAR, DT_VOID, IF DT_VOID = DT_VOID THEN Nothing(DT_VOID)
                                                    ELSE Vec(DT_VOID, 0, 0, <<1>>, <<>>)))
      BY <3>1, ScalarEntity, Zenon
    <3>. QED  BY <2>1, <2>2, <3>2, Zenon
  <2>4. e.form = DF_SCALAR /\ e.type = DT_VOID
    BY NothingType, HoldingType DEF DF_SCALAR, DT_VOID
  <2>5. GetEntity(e, FALSE) = RNA
    BY <2>4, VoidScalarGot, Zenon
  <2>6. Same(Returned(r), RNA, FALSE)
    <3>0. r.class # "localtime"
      BY <1>5
    <3>1. r.data = <<NA>>
      <4>1. r.data[1] = NA
        BY <1>1, <1>5 DEF AllNA
      <4>. QED  BY <1>1, <4>1
    <3>2. NullsAreNA(<<NA>>) = <<NA>>
      BY DEF NullsAreNA, NA, Null
    <3>3. Returned(r) = RVector(k, <<NA>>)
      BY <1>3, <1>11, <3>0, <3>1, <3>2, Zenon
    <3>4. /\ Returned(r).kind = "vector" /\ Returned(r).data = <<NA>>
          /\ RNA.kind = "vector" /\ RNA.data = <<NA>>
      BY <3>3, RNAType DEF RVector
    <3>. HIDE DEF RNA
    <3>5. AllNA(Returned(r)) /\ Content(Returned(r)) = Content(RNA)
      BY <3>4 DEF AllNA, Content
    <3>. QED  BY <3>4, <3>5 DEF Same, SameVector
  <2>7. DT_VOID # DT_ANY
    BY DEF DT_VOID, DT_ANY
  <2>. HIDE DEF e, RNA
  <2>8. ReturnsAs(r, e)
    BY <2>3, <2>4, <2>5, <2>6, <2>7, RNAType DEF ReturnsAs, AllRObjects
  <2>. QED  BY <2>8
<1>6. CASE ~ (r.class \in {"logical", "character"} /\ AllNA(r))
  <2>. DEFINE t == UploadType[k]
              d == Nulled(sent)
              vec == Vec(t, 0, 0, d, <<>>)
              e == Holding(DF_SCALAR, t, vec)
  <2>1. t \in Plain /\ Class[t] = k /\ t \in 0 .. 255
    BY <1>1, UploadTypes, Zenon
  <2>2. UploadEntity(r) = <<Flag(DF_SCALAR, t)>> \o Items(Width[t], d)
    BY <1>2, <1>6, Zenon DEF ScalarItems
  <2>. HIDE DEF t
  <2>3. t \in Plain \cup {DT_VOID} /\ t # DT_VOID /\ t # DT_ANY /\ ItemOf(t) = Width[t]
    BY <2>1 DEF Plain, DT_VOID, DT_ANY, ItemOf
  <2>4. d \in Seq(Int) /\ Len(d) = 1
    <3>1. d \in Seq(RValue) /\ Len(d) = 1
      BY <1>11, NulledType
    <3>. QED  BY <3>1, RValueType, SubsetSeq, Zenon
  <2>5. GetEntity(e, FALSE) = RVector(Class[t], NullsAreNA(d))
    BY <2>1, <2>4, GotScalar
  <2>6. GetEntity(e, FALSE) = Returned(r)
    <3>1. NullsAreNA(d) = NullsAreNA(sent)
      BY NulledBack, Zenon
    <3>. QED  BY <1>3, <2>1, <2>5, <3>1, Zenon
  <2>7. e.type = t
    <3>1. vec \in Vecs
      <4>1. <<>> \in Seq(Int) /\ 0 \in Int /\ t \in Int
        BY <2>1
      <4>. QED  BY <2>4, <4>1, VecType, Zenon
    <3>. HIDE DEF vec
    <3>. QED  BY <2>1, <3>1, HoldingType DEF DF_SCALAR
  <2>8. CarriesEntity(UploadEntity(r), e)
    <3>1. CarriesEntity(<<Flag(DF_SCALAR, t)>> \o Items(ItemOf(t), d),
                        Holding(DF_SCALAR, t, IF t = DT_VOID THEN Nothing(t) ELSE Vec(t, 0, 0, d, <<>>)))
      BY <2>3, <2>4, ScalarEntity, Zenon
    <3>. QED  BY <2>2, <2>3, <3>1, Zenon
  <2>9. Returned(r) \in VectorObjects /\ Returned(r).kind = "vector"
    BY <1>1, <1>3, <1>4 DEF RVector, VectorObjects, RClasses
  <2>10. Same(Returned(r), Returned(r), FALSE)
    BY <2>9, SameReflexive DEF Same
  <2>. HIDE DEF e
  <2>11. ReturnsAs(r, e)
    BY <2>3, <2>6, <2>7, <2>8, <2>9, <2>10 DEF ReturnsAs, AllRObjects
  <2>. QED  BY <2>11
<1>. QED  BY <1>5, <1>6

LEMMA FactorReturns == ASSUME NEW r \in FactorObjects PROVE \E e : ReturnsAs(r, e)
<1>. DEFINE base == SymbolBase(r.levels)
            codes == Nulled(Codes(r))
            rest == <<Item("int", Len(r.codes)), Item("int", 1)>> \o Symbols(base, codes)
            vec == FactorOf(r)
            e == Holding(DF_VECTOR, DT_SYMBASE, vec)
<1>1. r.kind = "factor" /\ r.levels \in Seq(RValue) /\ r.codes \in Seq(Int) /\ OneNA(r.levels)
  BY DEF FactorObjects, OneNA
<1>2. base \in Seq(Int)
  <2>1. base \in Seq(RValue)
    BY <1>1, SymbolBaseIs, Zenon
  <2>. QED  BY <2>1, RValueType, SubsetSeq, Zenon
<1>3. codes \in Seq(Int) /\ Len(codes) = Len(r.codes) /\ Len(Codes(r)) = Len(r.codes)
  BY CodesAre, Zenon
<1>4. UploadEntity(r) = UploadVectorSymbol(r)
  BY <1>1 DEF UploadEntity
<1>5. UploadVectorSymbol(r) = SymbolItems(base, Codes(r))
  BY Zenon DEF UploadVectorSymbol, Codes
<1>. HIDE DEF base, codes
<1>6. UploadVectorSymbol(r) = Header(DF_VECTOR, DT_SYMBASE, Len(r.codes), 1) \o Symbols(base, codes)
  <2>1. SymbolItems(base, Codes(r)) =
          Header(DF_VECTOR, DT_SYMBASE, Len(r.codes), 1) \o Symbols(base, Nulled(Codes(r)))
    <3>1. Len(Codes(r)) \in Nat
      BY <1>1, <1>3
    <3>. QED  BY <1>2, <1>3, <3>1, SymbolItemsAre DEF codes
  <2>. QED  BY <1>3, <1>5, <2>1, Zenon DEF codes
<1>7. Symbols(base, codes) \in Seq(Wire)
  BY <1>2, <1>3, SymbolsType, Zenon
<1>8. rest \in Seq(Wire) /\ UploadVectorSymbol(r) = <<Flag(DF_VECTOR, DT_SYMBASE)>> \o rest
  <2>1. Item("int", Len(r.codes)) \in Wire /\ Item("int", 1) \in Wire /\ Flag(DF_VECTOR, DT_SYMBASE) \in Wire
    <3>1. Len(r.codes) \in Int /\ 1 \in Int /\ "int" \in Words /\ DT_SYMBASE \in 0 .. 255
      BY <1>1 DEF Words, DT_SYMBASE
    <3>. QED  BY <3>1, FormCodes, ItemType, FlagType, Zenon
  <2>2. rest \in Seq(Wire) /\ Header(DF_VECTOR, DT_SYMBASE, Len(r.codes), 1) \o Symbols(base, codes) =
                                <<Flag(DF_VECTOR, DT_SYMBASE)>> \o rest
    BY <1>7, <2>1, HeaderConcat, Zenon DEF Header
  <2>. QED  BY <1>6, <2>2, Zenon
<1>9. /\ Carries(UploadVectorSymbol(r), vec) /\ vec.t = DT_SYMBASE /\ Column(vec) \in FactorObjects
      /\ (\A i \in DOMAIN r.codes : r.codes[i] # NA) => SameVector(r, Column(vec))
  BY FactorCarried, Zenon
<1>10. vec \in Vecs
  BY <1>9 DEF Carries
<1>. HIDE DEF vec, rest
<1>11. DT_SYMBASE \in 0 .. 255 /\ DT_SYMBASE \in KnownTypes /\ DT_SYMBASE # DT_ANY /\ DT_SYMBASE \notin {2, 3}
       /\ DT_SYMBASE \in Int
  BY DEF DT_SYMBASE, KnownTypes, DT_ANY
<1>12. CarriesEntity(UploadEntity(r), e)
  <2>1. DF_VECTOR \in {DF_VECTOR, DF_PAIR}
    OBVIOUS
  <2>. QED  BY <1>4, <1>8, <1>9, <1>11, <2>1, VectorEntity, Zenon
<1>13. e.type = DT_SYMBASE
  BY <1>10, <1>11, HoldingType DEF DF_VECTOR
<1>14. GetEntity(e, FALSE) = Column(vec)
  BY <1>9, <1>10, <1>11, GotVector
<1>15. Returned(r) = r
  BY <1>1 DEF Returned
<1>16. ~ HasNACode(r) => Same(r, Column(vec), FALSE)
  <2>1. ~ HasNACode(r) => \A i \in DOMAIN r.codes : r.codes[i] # NA
    BY <1>1 DEF HasNACode
  <2>2. SameVector(r, Column(vec)) => Same(r, Column(vec), FALSE)
    BY <1>1 DEF Same
  <2>. QED  BY <1>9, <2>1, <2>2
<1>. HIDE DEF e
<1>17. ReturnsAs(r, e)
  BY <1>9, <1>11, <1>12, <1>13, <1>14, <1>15, <1>16 DEF ReturnsAs, AllRObjects
<1>. QED  BY <1>17

\* A matrix on the wire as its parts, from DDB_UploadEntity and from a script.
MatrixShaped(s, f, i, s1, s2, m) == s = <<f>> \o (<<i>> \o (s1 \o (s2 \o (<<f>> \o m))))

LEMMA MatrixShape ==
  ASSUME NEW f \in Wire, NEW i \in Wire, NEW s1 \in Seq(Wire), NEW s2 \in Seq(Wire), NEW m \in Seq(Wire)
  PROVE  /\ MatrixShaped(((<<f>> \o ((<<i>> \o s1) \o s2)) \o <<f>>) \o m, f, i, s1, s2, m)
         /\ MatrixShaped(((((<<f>> \o <<i>>) \o s1) \o s2) \o <<f>>) \o m, f, i, s1, s2, m)
<1>. DEFINE F == <<f>>
            I == <<i>>
            x == I \o s1
            y == x \o s2
            s3 == F \o m
            z == s2 \o s3
<1>1. F \in Seq(Wire) /\ I \in Seq(Wire)
  OBVIOUS
<1>. HIDE DEF F, I
<1>2. s3 \in Seq(Wire) /\ x \in Seq(Wire)
  BY <1>1, WireConcat, Zenon
<1>. HIDE DEF x, s3
<1>3. y \in Seq(Wire) /\ z \in Seq(Wire)
  BY <1>2, WireConcat, Zenon
<1>. HIDE DEF y, z
<1>4. F \o y \in Seq(Wire)
  BY <1>1, <1>3, WireConcat, Zenon
<1>5. /\ Associates(F \o y, F, m) /\ Associates(F, y, s3) /\ Associates(x, s2, s3) /\ Associates(I, s1, z)
      /\ Associates(F, I, s1) /\ Associates(F, x, s2)
  BY <1>1, <1>2, <1>3, <1>4, WireAssociates, Zenon
<1>6. (F \o y) \o s3 = F \o (I \o (s1 \o z))
  <2>1. (F \o y) \o s3 = F \o (y \o s3)
    BY <1>5, Zenon DEF Associates
  <2>2. y \o s3 = x \o z
    BY <1>5, Zenon DEF Associates, y, z
  <2>3. x \o z = I \o (s1 \o z)
    BY <1>5, Zenon DEF Associates, x
  <2>. QED  BY <2>1, <2>2, <2>3, Zenon
<1>7. ((F \o y) \o F) \o m = (F \o y) \o s3
  BY <1>5, Zenon DEF Associates, s3
<1>8. ((F \o I) \o s1) \o s2 = F \o y
  <2>1. (F \o I) \o s1 = F \o x
    BY <1>5, Zenon DEF Associates, x
  <2>2. (F \o x) \o s2 = F \o y
    BY <1>5, Zenon DEF Associates, y
  <2>. QED  BY <2>1, <2>2, Zenon
<1>9. MatrixShaped(((F \o y) \o F) \o m, f, i, s1, s2, m)
  BY <1>6, <1>7, Zenon DEF MatrixShaped, F, I, z, s3
<1>10. MatrixShaped(((((F \o I) \o s1) \o s2) \o F) \o m, f, i, s1, s2, m)
  BY <1>8, <1>9, Zenon
<1>. QED  BY <1>9, <1>10, Zenon DEF F, I, y, x

LEMMA MatrixReturns ==
  ASSUME NEW r \in MatrixObjects, Uploadable(r) PROVE \E e : ReturnsAs(r, e)
<1>. DEFINE t == IF AllNA(r) THEN DT_DOUBLE ELSE UploadType[r.class]
            d == Nulled(r.data)
            d1 == r.dim[1]
            d2 == r.dim[2]
            b1 == IF r.rows = <<>> THEN 0 ELSE 1
            b2 == IF r.cols = <<>> THEN 0 ELSE 1
            s1 == IF r.rows = <<>> THEN <<>> ELSE UploadVector(RVector("character", r.rows))
            s2 == IF r.cols = <<>> THEN <<>> ELSE UploadVector(RVector("character", r.cols))
            s3 == Header(DF_MATRIX, t, d1, d2) \o Items(Width[t], d)
            vec == Vec(t, d1, d2, d, <<>>)
            v1 == LableOf(r.rows)
            v2 == LableOf(r.cols)
            e == MatrixEntity(t, vec, v1, v2)
            m == <<Item("int", d1), Item("int", d2)>> \o Items(Width[t], d)
<1>1. /\ r.kind = "matrix" /\ r.class \in DOMAIN UploadType /\ r.data \in Seq(RValue)
      /\ r.dim \in Nat \X Nat /\ d1 \in Nat /\ d2 \in Nat /\ r.dim = <<d1, d2>> /\ Len(r.data) = d1 * d2
      /\ r.rows \in Seq(RValue) /\ r.cols \in Seq(RValue)
      /\ Len(r.rows) \in {0, d1} /\ Len(r.cols) \in {0, d2}
      /\ r = [kind |-> "matrix", class |-> r.class, dim |-> r.dim, data |-> r.data, rows |-> r.rows, cols |-> r.cols]
  BY DEF MatrixObjects
<1>2. r.class \in {"logical", "integer", "numeric"} \/ AllNA(r)
  BY <1>1 DEF Uploadable
<1>3. t \in Plain /\ t \in 0 .. 255 /\ t # DT_SYMBASE /\ (AllNA(r) \/ Class[t] = r.class)
      /\ Class[t] \in {"logical", "integer", "numeric"}
  <2>1. CASE AllNA(r)
    <3>1. DT_DOUBLE \in Plain /\ DT_DOUBLE \in 0 .. 255 /\ DT_DOUBLE # DT_SYMBASE /\ Class[DT_DOUBLE] = "numeric"
      <4>1. UploadType["numeric"] = DT_DOUBLE /\ "numeric" \in DOMAIN UploadType
        BY DEF UploadType
      <4>2. DT_DOUBLE \in Plain /\ DT_DOUBLE \in 0 .. 255 /\ Class[DT_DOUBLE] = "numeric"
        BY <4>1, UploadTypes
      <4>. QED  BY <4>2 DEF DT_DOUBLE, DT_SYMBASE
    <3>. QED  BY <2>1, <3>1
  <2>2. CASE ~ AllNA(r)
    <3>1. UploadType[r.class] \in Plain /\ UploadType[r.class] \in 0 .. 255 /\ Class[UploadType[r.class]] = r.class
      BY <1>1, UploadTypes, Zenon
    <3>2. UploadType[r.class] # DT_SYMBASE
      BY <3>1 DEF Plain, DT_SYMBASE
    <3>. QED  BY <1>2, <2>2, <3>1, <3>2
  <2>. QED  BY <2>1, <2>2
<1>4. UploadEntity(r) = ((<<Flag(DF_MATRIX, t)>> \o ((<<Item("char", b1 + 2 * b2)>> \o s1) \o s2))
                          \o <<Flag(DF_MATRIX, t)>>) \o m
  <2>1. UploadEntity(r) = UploadMatrix(r)
    BY <1>1 DEF UploadEntity
  <2>2. UploadMatrixLable(r) = (<<Item("char", b1 + 2 * b2)>> \o s1) \o s2
    BY Zenon DEF UploadMatrixLable
  <2>. HIDE DEF b1, b2, s1, s2
  <2>3. UploadMatrix(r) = ((<<Flag(DF_MATRIX, t)>> \o UploadMatrixLable(r)) \o <<Flag(DF_MATRIX, t)>>) \o m
    BY Zenon DEF UploadMatrix, MatrixItems
  <2>. QED  BY <2>1, <2>2, <2>3, Zenon
<1>5. d \in Seq(RValue) /\ d \in Seq(Int) /\ Len(d) = d1 * d2
  <2>1. d \in Seq(RValue) /\ Len(d) = d1 * d2
    BY <1>1, NulledType, Zenon
  <2>. QED  BY <2>1, RValueType, SubsetSeq, Zenon
<1>6. b1 \in {0, 1} /\ b2 \in {0, 1}
  OBVIOUS
<1>7. CarriesLable(b1, s1, v1) /\ CarriesLable(b2, s2, v2)
  <2>. SUFFICES ASSUME NEW rows \in Seq(RValue)
                PROVE  CarriesLable(IF rows = <<>> THEN 0 ELSE 1,
                                    IF rows = <<>> THEN <<>> ELSE UploadVector(RVector("character", rows)), LableOf(rows))
    BY <1>1
  <2>1. CASE rows = <<>>
    BY <2>1 DEF CarriesLable, LableOf
  <2>2. CASE rows # <<>>
    <3>. DEFINE c == RVector("character", rows)
    <3>1. c \in VectorObjects /\ "character" \in DOMAIN UploadType /\ ColumnClass(c) = "character"
      BY DEF RVector, VectorObjects, UploadType, RClasses, ColumnClass, RClass
    <3>. HIDE DEF c
    <3>2. Carries(UploadVector(c), VectorOf("character", c))
      <4>1. UploadVector(c) = VectorItems(UploadType["character"], c.data)
        BY <3>1, ClassesSent, Zenon
      <4>. QED  BY <3>1, <4>1, VectorCarried, Zenon
    <3>. QED  BY <2>2, <3>2, Zenon DEF CarriesLable, LableOf, c
  <2>. QED  BY <2>1, <2>2
<1>8. s1 \in Seq(Wire) /\ s2 \in Seq(Wire)
  BY <1>7, LableWire, Zenon
<1>. HIDE DEF t, d, d1, d2, b1, b2, s1, s2
<1>9. Carries(s3, vec)
  BY <1>1, <1>3, <1>5, FormCodes, PlainCarries, Zenon
<1>10. /\ Flag(DF_MATRIX, t) \in Wire /\ Item("char", b1 + 2 * b2) \in Wire /\ Items(Width[t], d) \in Seq(Wire)
       /\ Item("int", d1) \in Wire /\ Item("int", d2) \in Wire
  <2>1. Flag(DF_MATRIX, t) \in Wire
    BY <1>3, FormCodes, FlagType, Zenon
  <2>2. b1 + 2 * b2 \in Int /\ d1 \in Int /\ d2 \in Int /\ "char" \in Words /\ "int" \in Words
    BY <1>1, <1>6 DEF Words
  <2>3. Items(Width[t], d) \in Seq(Wire)
    BY <1>3, <1>5, WidthType, ItemsType, Zenon
  <2>. QED  BY <2>1, <2>2, <2>3, ItemType, Zenon
<1>11. m \in Seq(Wire) /\ s3 = <<Flag(DF_MATRIX, t)>> \o m
  BY <1>10, HeaderConcat, Zenon DEF Header
<1>. HIDE DEF s3, m, vec
<1>12. UploadEntity(r) = <<Flag(DF_MATRIX, t)>> \o MatrixParts(b1, b2, s1, s2, s3)
  <2>. DEFINE f == Flag(DF_MATRIX, t)
              i == Item("char", b1 + 2 * b2)
  <2>1. f \in Wire /\ i \in Wire
    BY <1>10
  <2>2. UploadEntity(r) = ((<<f>> \o ((<<i>> \o s1) \o s2)) \o <<f>>) \o m
    BY <1>4
  <2>. HIDE DEF f, i
  <2>3. MatrixShaped(UploadEntity(r), f, i, s1, s2, m)
    <3>1. MatrixShaped(((<<f>> \o ((<<i>> \o s1) \o s2)) \o <<f>>) \o m, f, i, s1, s2, m)
      BY <1>8, <1>11, <2>1, MatrixShape, Zenon
    <3>. QED  BY <2>2, <3>1, Zenon
  <2>4. s3 = <<f>> \o m
    BY <1>11, Zenon DEF f
  <2>5. UploadEntity(r) = <<f>> \o (<<i>> \o (s1 \o (s2 \o s3)))
    BY <2>3, <2>4, Zenon DEF MatrixShaped
  <2>. QED  BY <2>5, Zenon DEF MatrixParts, f, i
<1>13. CarriesEntity(UploadEntity(r), e)
  <2>1. t \in 0 .. 255
    BY <1>3
  <2>. HIDE DEF v1, v2
  <2>2. Lables(b1, b2, s1, s2, v1, v2)
    BY <1>6, <1>7, Zenon DEF Lables
  <2>3. CarriesMatrix(<<Flag(DF_MATRIX, t)>> \o MatrixParts(b1, b2, s1, s2, s3), t, vec, v1, v2)
    BY <1>9, <2>1, <2>2, MatrixCarried, Zenon
  <2>. QED  BY <1>12, <2>3, Zenon DEF CarriesMatrix
<1>14. vec \in Vecs /\ vec.row = d1 /\ vec.clm = d2 /\ WithNA(vec) = NullsAreNA(r.data)
  <2>1. vec \in Vecs
    BY <1>9, Zenon DEF Carries
  <2>2. vec.row = d1 /\ vec.clm = d2
    BY VecFields DEF vec
  <2>3. WithNA(vec) = NullsAreNA(d)
    BY <1>3, WithNAPlain, Zenon DEF vec
  <2>4. NullsAreNA(d) = NullsAreNA(r.data)
    BY NulledBack, Zenon DEF d
  <2>. QED  BY <2>1, <2>2, <2>3, <2>4, Zenon
<1>15. /\ v1 \in GoodVecs /\ LableOk(v1) /\ LableValues(v1) = Nulled(r.rows)
       /\ Nulled(r.rows) \in Seq(RValue) /\ Len(Nulled(r.rows)) = Len(r.rows)
  BY <1>1, RLable, Zenon
<1>16. /\ v2 \in GoodVecs /\ LableOk(v2) /\ LableValues(v2) = Nulled(r.cols)
       /\ Nulled(r.cols) \in Seq(RValue) /\ Len(Nulled(r.cols)) = Len(r.cols)
  BY <1>1, RLable, Zenon
<1>. HIDE DEF v1, v2
<1>17. e \in Ents /\ e.type = t /\ e.vec = vec /\ e.row = v1 /\ e.clm = v2
  <2>0. v1 \in Vecs /\ v2 \in Vecs
    BY <1>15, <1>16, Zenon DEF GoodVecs
  <2>1. t \in Int /\ v1 \in Vecs /\ v2 \in Vecs
    BY <1>3, <2>0
  <2>2. IsMatrix(e, t, vec, v1, v2)
    BY <1>14, <2>1, MatrixEntityIs, Zenon
  <2>. QED  BY <2>2, Zenon DEF IsMatrix
<1>18. GetEntity(e, FALSE) = MatrixOf(e, Class[t], NullsAreNA(r.data))
  <2>1. MatrixClassOf(t) = Class[t] /\ t \in KnownTypes /\ v1 \in Vecs /\ v2 \in Vecs
    BY <1>3, <1>15, <1>16 DEF MatrixClassOf, KnownTypes, GoodVecs
  <2>2. e = MatrixEntity(t, vec, v1, v2)
    OBVIOUS
  <2>. HIDE DEF e
  <2>3. GetsMatrix(e, Class[t], vec)
    BY <1>14, <2>1, <2>2, MatrixGot, Zenon
  <2>. QED  BY <1>14, <2>3, Zenon DEF GetsMatrix
<1>19. MatrixOf(e, Class[t], NullsAreNA(r.data)) =
         RMatrix(Class[t], r.dim, NullsAreNA(r.data), Nulled(r.rows), Nulled(r.cols))
  <2>. HIDE DEF e
  <2>. DEFINE class == Class[t]
              rows == LableValues(e.row)
              cols == IF LableOk(e.clm) THEN LableValues(e.clm) ELSE rows
              data == NullsAreNA(r.data)
              mtx == RMatrix(MatrixClass(class), <<e.vec.row, e.vec.clm>>, data, rows, cols)
  <2>1. rows = Nulled(r.rows) /\ cols = Nulled(r.cols)
    BY <1>15, <1>16, <1>17
  <2>2. MatrixClass(class) = class
    BY <1>3 DEF MatrixClass
  <2>3. LableOk(e.row) /\ LableOk(e.clm) /\ Len(rows) \in {0, e.vec.row} /\ Len(cols) \in {0, e.vec.clm}
    BY <1>1, <1>14, <1>15, <1>16, <1>17, <2>1
  <2>. HIDE DEF data, class
  <2>4. MatrixOf(e, class, data) = mtx
    BY <1>17, <2>3, MatrixOfIs
  <2>5. <<e.vec.row, e.vec.clm>> = r.dim
    BY <1>1, <1>14, <1>17
  <2>. QED  BY <2>1, <2>2, <2>4, <2>5, Zenon DEF class, data
<1>. DEFINE back == RMatrix(Class[t], r.dim, NullsAreNA(r.data), Nulled(r.rows), Nulled(r.cols))
<1>20. NullsAreNA(r.data) \in Seq(RValue) /\ Len(NullsAreNA(r.data)) = Len(r.data)
  BY <1>1, NullsAreNAType, Zenon
<1>21. back \in MatrixObjects
  <2>1. Class[t] \in DOMAIN UploadType
    BY <1>3, ClassType, Zenon
  <2>. QED  BY <1>1, <1>15, <1>16, <1>20, <2>1 DEF RMatrix, MatrixObjects, d1, d2
<1>22. Returned(r) = RMatrix(r.class, r.dim, NullsAreNA(r.data), Nulled(r.rows), Nulled(r.cols))
  <2>0. Returned(r) = [r EXCEPT !.data = NullsAreNA(@), !.rows = Nulled(@), !.cols = Nulled(@)]
    BY <1>1 DEF Returned
  <2>. QED  BY <1>1, <2>0 DEF RMatrix
<1>23. Same(Returned(r), back, FALSE)
  <2>1. /\ Returned(r).kind = "matrix" /\ back.kind = "matrix" /\ Returned(r).data = NullsAreNA(r.data)
        /\ back.data = NullsAreNA(r.data) /\ Returned(r).dim = back.dim /\ Returned(r).rows = back.rows
        /\ Returned(r).cols = back.cols /\ Returned(r).class = r.class /\ back.class = Class[t]
    BY <1>22 DEF RMatrix
  <2>2. r.class # Class[t] => AllNA(Returned(r))
    <3>1. SUFFICES ASSUME AllNA(r) PROVE AllNA(Returned(r))
      BY <1>3
    <3>2. \A i \in DOMAIN NullsAreNA(r.data) : NullsAreNA(r.data)[i] = NA
      BY <3>1 DEF AllNA, NullsAreNA
    <3>. QED  BY <2>1, <3>2, Zenon DEF AllNA
  <2>. HIDE DEF back
  <2>. QED  BY <2>1, <2>2 DEF Same, SameVector, Content
<1>24. t # DT_ANY
  BY <1>3 DEF Plain, DT_ANY
<1>. HIDE DEF e, back
<1>25. GetEntity(e, FALSE) = back
  BY <1>18, <1>19, Zenon DEF back
<1>26. ReturnsAs(r, e)
  BY <1>13, <1>17, <1>21, <1>23, <1>24, <1>25 DEF ReturnsAs, AllRObjects
<1>. QED  BY <1>26

\* A table on the wire as its parts, from DDB_UploadEntity and from a script.
TableShaped(s, f, a, b, c, names, fl) == s = <<f>> \o (<<a, b, c>> \o (names \o fl))

LEMMA TableShape ==
  ASSUME NEW f \in Wire, NEW a \in Wire, NEW b \in Wire, NEW c \in Wire, NEW names \in Seq(Wire), NEW fl \in Seq(Wire)
  PROVE  /\ TableShaped((<<f, a, b, c>> \o names) \o fl, f, a, b, c, names, fl)
         /\ TableShaped((((<<f>> \o <<a, b>>) \o <<c>>) \o names) \o fl, f, a, b, c, names, fl)
<1>. DEFINE F == <<f>>
            H == <<a, b, c>>
            G == <<f, a, b, c>>
            r == names \o fl
<1>1. F \in Seq(Wire) /\ H \in Seq(Wire) /\ G \in Seq(Wire) /\ <<a, b>> \in Seq(Wire) /\ <<c>> \in Seq(Wire)
  OBVIOUS
<1>2. F \o H = G
  <2>1. Len(F \o H) = 4 /\ Len(G) = 4
    BY <1>1
  <2>2. \A i \in 1 .. 4 : (F \o H)[i] = G[i]
    BY <1>1
  <2>3. F \o H \in Seq(Wire)
    BY <1>1, WireConcat, Zenon
  <2>. HIDE DEF F, H, G
  <2>. QED  BY <1>1, <2>1, <2>2, <2>3, SeqEqual
<1>3. <<a, b>> \o <<c>> = H
  <2>1. Len(<<a, b>> \o <<c>>) = 3 /\ Len(H) = 3
    BY <1>1
  <2>2. \A i \in 1 .. 3 : (<<a, b>> \o <<c>>)[i] = H[i]
    BY <1>1
  <2>. HIDE DEF H
  <2>. QED  BY <1>1, <2>1, <2>2, WireConcat, SeqEqual
<1>. DEFINE A == <<a, b>>
            C == <<c>>
<1>4. A \in Seq(Wire) /\ C \in Seq(Wire) /\ A \o C = H
  BY <1>1, <1>3
<1>. HIDE DEF F, H, G, A, C
<1>5. r \in Seq(Wire) /\ F \o H \in Seq(Wire)
  BY <1>1, WireConcat, Zenon
<1>. HIDE DEF r
<1>6. Associates(G, names, fl) /\ Associates(F, H, r) /\ Associates(F, A, C)
  BY <1>1, <1>4, <1>5, WireAssociates, Zenon
<1>7. (G \o names) \o fl = F \o (H \o r)
  <2>1. (G \o names) \o fl = G \o r
    BY <1>6, Zenon DEF Associates, r
  <2>2. (F \o H) \o r = F \o (H \o r)
    BY <1>6, Zenon DEF Associates
  <2>. QED  BY <1>2, <2>1, <2>2, Zenon
<1>8. (F \o A) \o C = G
  <2>1. (F \o A) \o C = F \o (A \o C)
    BY <1>6, Zenon DEF Associates
  <2>. QED  BY <1>2, <1>4, <2>1, Zenon
<1>9. TableShaped((G \o names) \o fl, f, a, b, c, names, fl)
  BY <1>7, Zenon DEF TableShaped, F, H, r
<1>10. TableShaped((((F \o A) \o C) \o names) \o fl, f, a, b, c, names, fl)
  BY <1>8, <1>9, Zenon
<1>. QED  BY <1>9, <1>10, Zenon DEF G, F, A, C

LEMMA LenDomain == ASSUME NEW n \in Nat, NEW s, DOMAIN s = 1 .. n PROVE Len(s) = n
<1>. QED  OBVIOUS

\* The C++ object of a column that was uploaded.
ColumnOf(c) == IF c.kind = "factor" THEN FactorOf(c) ELSE VectorOf(ColumnClass(c), c)

ColumnReturns(c) ==
  /\ Carries(UploadVector(c), ColumnOf(c)) /\ ColumnOf(c).t \in KnownTypes
  /\ Column(ColumnOf(c)) \in VectorObjects \cup FactorObjects
  /\ ReturnedColumn(c).kind = "vector" => ReturnedColumn(c) = Column(ColumnOf(c))
  /\ (c.kind = "factor" => \A i \in DOMAIN c.codes : c.codes[i] # NA) =>
       SameVector(ReturnedColumn(c), Column(ColumnOf(c)))

LEMMA ColumnReturned == ASSUME NEW c \in VectorObjects \cup FactorObjects PROVE ColumnReturns(c)
<1>1. CASE c \in FactorObjects
  <2>1. c.kind = "factor"
    BY <1>1 DEF FactorObjects
  <2>2. /\ Carries(UploadVectorSymbol(c), FactorOf(c)) /\ FactorOf(c).t = DT_SYMBASE
        /\ Column(FactorOf(c)) \in FactorObjects
        /\ (\A i \in DOMAIN c.codes : c.codes[i] # NA) => SameVector(c, Column(FactorOf(c)))
    BY <1>1, FactorCarried, Zenon
  <2>3. UploadVector(c) = UploadVectorSymbol(c) /\ ColumnOf(c) = FactorOf(c) /\ ReturnedColumn(c) = c
    BY <2>1, Zenon DEF UploadVector, ColumnOf, ReturnedColumn
  <2>4. FactorOf(c).t \in KnownTypes
    BY <2>2 DEF KnownTypes
  <2>. QED  BY <2>1, <2>2, <2>3, <2>4 DEF ColumnReturns
<1>2. CASE c \in VectorObjects
  <2>1. /\ c.kind = "vector" /\ ColumnClass(c) \in DOMAIN UploadType
        /\ UploadVector(c) = VectorItems(UploadType[ColumnClass(c)], c.data)
        /\ ReturnedColumn(c) = RVector(ColumnClass(c), NullsAreNA(c.data))
    BY <1>2, ClassesSent, Zenon
  <2>2. ColumnOf(c) = VectorOf(ColumnClass(c), c)
    BY <2>1 DEF ColumnOf
  <2>3. /\ Carries(UploadVector(c), ColumnOf(c)) /\ ColumnOf(c).t \in KnownTypes
        /\ Column(ColumnOf(c)) = ReturnedColumn(c) /\ Column(ColumnOf(c)) \in VectorObjects
    BY <1>2, <2>1, <2>2, VectorCarried, Zenon DEF KnownTypes
  <2>4. ReturnedColumn(c).kind = "vector"
    BY <2>3 DEF VectorObjects
  <2>5. SameVector(ReturnedColumn(c), Column(ColumnOf(c)))
    BY <2>3, <2>4, SameReflexive
  <2>. QED  BY <2>3, <2>5 DEF ColumnReturns
<1>. QED  BY <1>1, <1>2

LEMMA TableReturns ==
  ASSUME NEW r \in TableObjects PROVE \E e : ReturnsAs(r, e)
<1>. DEFINE cs == r.columns
            n == Len(cs)
            ss == [i \in DOMAIN cs |-> UploadVector(cs[i])]
            vecs == [i \in DOMAIN cs |-> ColumnOf(cs[i])]
            kept == StringsKept(n, FALSE)
            back == [i \in DOMAIN cs |-> FrameColumn(ColumnOf(cs[i]), kept)]
            rows == RowCount(cs[1])
            e == TableEntity(DT_DICTIONARY, r.names, vecs)
            V == VectorObjects \cup FactorObjects
<1>1. /\ r.kind = "table" /\ cs \in Seq(V) /\ cs # <<>> /\ Len(r.names) = n /\ r.names \in Seq(RValue)
      /\ r = [kind |-> "table", names |-> r.names, columns |-> cs]
  BY DEF TableObjects
<1>2. DOMAIN cs = 1 .. n /\ n \in Nat /\ n # 0 /\ \A i \in 1 .. n : cs[i] \in V
  <2>. HIDE DEF V
  <2>. QED  BY <1>1
<1>. HIDE DEF cs, V, n
<1>3. ASSUME NEW i \in 1 .. n PROVE ColumnReturns(cs[i])
  BY <1>2, ColumnReturned DEF V
<1>4. WireColumns(ss, vecs, 1 .. Len(ss)) /\ Len(ss) = n /\ ss \in Seq(Seq(Wire)) /\ vecs \in Seq(Vecs) /\ Len(vecs) = n
  <2>1. ASSUME NEW i \in 1 .. n
        PROVE  Carries(UploadVector(cs[i]), ColumnOf(cs[i])) /\ UploadVector(cs[i]) \in Seq(Wire) /\ ColumnOf(cs[i]) \in Vecs
    BY <1>3, Zenon DEF ColumnReturns, Carries
  <2>2. ss \in [1 .. n -> Seq(Wire)] /\ vecs \in [1 .. n -> Vecs]
    BY <1>2, <2>1, Zenon
  <2>3. ss \in Seq(Seq(Wire)) /\ Len(ss) = n /\ vecs \in Seq(Vecs) /\ Len(vecs) = n
    BY <1>2, <2>2, AsSequence, Zenon
  <2>4. \A i \in 1 .. n : Carries(ss[i], vecs[i])
    BY <1>2, <2>1
  <2>. HIDE DEF ss, vecs
  <2>. QED  BY <2>3, <2>4 DEF WireColumns
<1>5. r.names \in Seq(Int) /\ rows \in Int /\ DT_DICTIONARY \in 0 .. 255 /\ Len(r.names) = Len(ss)
  <2>1. r.names \in Seq(Int)
    BY <1>1, RValueType, SubsetSeq, Zenon
  <2>2. 1 \in 1 .. n
    BY <1>2
  <2>3. cs[1] \in VectorObjects \cup FactorObjects
    BY <1>2, <2>2, Zenon DEF V
  <2>4. \/ cs[1].kind = "vector" /\ cs[1].data \in Seq(RValue)
        \/ cs[1].kind = "factor" /\ cs[1].codes \in Seq(Int)
    BY <2>3 DEF VectorObjects, FactorObjects
  <2>5. rows \in Int
    BY <2>4 DEF RowCount
  <2>. QED  BY <1>1, <1>4, <2>1, <2>5 DEF DT_DICTIONARY
<1>6. UploadEntity(r) = (<<Flag(DF_TABLE, DT_DICTIONARY), Item("int", rows), Item("int", n), Item("string", Null)>>
                          \o Items("string", r.names)) \o FlattenSeq(ss)
  <2>1. UploadEntity(r) = UploadTable(r)
    BY <1>1 DEF UploadEntity
  <2>. QED  BY <2>1, Zenon DEF UploadTable, n, cs
<1>. HIDE DEF ss, vecs, rows
<1>7. UploadEntity(r) = <<Flag(DF_TABLE, DT_DICTIONARY)>> \o TableParts(rows, r.names, ss)
  <2>. DEFINE f == Flag(DF_TABLE, DT_DICTIONARY)
              a == Item("int", rows)
              b == Item("int", n)
              c == Item("string", Null)
              names == Items("string", r.names)
              fl == FlattenSeq(ss)
  <2>1. f \in Wire
    BY <1>5, FormCodes, FlagType, Zenon
  <2>2. a \in Wire /\ b \in Wire /\ c \in Wire
    <3>1. rows \in Int /\ n \in Int /\ Null \in Int /\ "int" \in Words /\ "string" \in Words
      BY <1>2, <1>5 DEF Null, Words
    <3>. QED  BY <3>1, ItemType, Zenon
  <2>3. names \in Seq(Wire) /\ fl \in Seq(Wire)
    BY <1>4, <1>5, TablePartsType, Zenon DEF IsWire
  <2>. HIDE DEF f, a, b, c, names, fl
  <2>4. TableShaped((<<f, a, b, c>> \o names) \o fl, f, a, b, c, names, fl)
    BY <2>1, <2>2, <2>3, TableShape, Zenon
  <2>5. UploadEntity(r) = (<<f, a, b, c>> \o names) \o fl
    BY <1>6, Zenon DEF f, a, b, c, names, fl
  <2>6. b = Item("int", Len(r.names))
    BY <1>1, Zenon DEF b
  <2>7. UploadEntity(r) = <<f>> \o (<<a, b, c>> \o (names \o fl))
    BY <2>4, <2>5, Zenon DEF TableShaped
  <2>8. UploadEntity(r) = <<f>> \o (<<a, Item("int", Len(r.names)), c>> \o (names \o fl))
    BY <2>6, <2>7, Zenon
  <2>. QED  BY <2>8, Zenon DEF TableParts, f, a, c, names, fl
<1>8. CarriesEntity(UploadEntity(r), e)
  <2>1. CarriesEntity(<<Flag(DF_TABLE, DT_DICTIONARY)>> \o TableParts(rows, r.names, ss), e)
    BY <1>4, <1>5, TableCarried, Zenon
  <2>. QED  BY <1>7, <2>1, Zenon
<1>9. e.type = DT_DICTIONARY
  BY <1>4, <1>5, TableEntityType
<1>10. /\ \A i \in 1 .. n : vecs[i].t \in KnownTypes
       /\ DOMAIN vecs = 1 .. n /\ Framed(vecs, FALSE) = back
  <2>1. vecs = [i \in 1 .. n |-> ColumnOf(cs[i])]
    BY <1>2, Zenon DEF vecs
  <2>2. \A i \in 1 .. n : ColumnOf(cs[i]).t \in KnownTypes
    BY <1>3, Zenon DEF ColumnReturns
  <2>3. DOMAIN vecs = 1 .. n /\ \A i \in 1 .. n : vecs[i] = ColumnOf(cs[i])
    BY <2>1, Zenon
  <2>4. StringsKept(Len(vecs), FALSE) = kept
    BY <1>4, Zenon
  <2>. HIDE DEF kept
  <2>5. Framed(vecs, FALSE) = [i \in 1 .. n |-> FrameColumn(vecs[i], kept)]
    BY <2>3, <2>4, Zenon DEF Framed
  <2>6. [i \in 1 .. n |-> FrameColumn(vecs[i], kept)] = back
    BY <1>2, <2>3, Zenon
  <2>. HIDE DEF back
  <2>. QED  BY <2>2, <2>3, <2>5, <2>6, Zenon
<1>11. GetEntity(e, FALSE) = RTable(r.names, back)
  <2>1. vecs # <<>>
    BY <1>2, <1>4
  <2>2. DT_DICTIONARY \in Int
    BY <1>5
  <2>. HIDE DEF back
  <2>3. GetsTable(e, FALSE, r.names, vecs)
    BY <1>4, <1>5, <2>2, TableGot, Zenon
  <2>. QED  BY <1>10, <2>1, <2>3, Zenon DEF GetsTable
<1>17. kept \in BOOLEAN
  BY KeptType, Zenon
<1>. HIDE DEF kept
<1>18. ASSUME NEW i \in 1 .. n
       PROVE  /\ FrameColumn(ColumnOf(cs[i]), kept) \in V
              /\ (cs[i].kind = "factor" => \A j \in DOMAIN cs[i].codes : cs[i].codes[j] # NA) =>
                   SameColumn(ReturnedColumn(cs[i]), FrameColumn(ColumnOf(cs[i]), kept), kept)
  <2>. DEFINE vec == ColumnOf(cs[i])
              a == ReturnedColumn(cs[i])
  <2>1. /\ vec.t \in Plain \cup {DT_SYMBASE} /\ Column(vec) \in VectorObjects \cup FactorObjects
        /\ a.kind = "vector" => a = Column(vec)
        /\ (cs[i].kind = "factor" => \A j \in DOMAIN cs[i].codes : cs[i].codes[j] # NA) => SameVector(a, Column(vec))
    BY <1>3, Zenon DEF ColumnReturns, KnownTypes
  <2>. HIDE DEF vec, a
  <2>2. /\ FrameColumn(vec, kept) \in V
        /\ SameVector(a, Column(vec)) => SameColumn(a, FrameColumn(vec, kept), kept)
    BY <1>17, <2>1, FrameColumnSame, Zenon DEF V
  <2>. QED  BY <2>1, <2>2, Zenon DEF vec, a
<1>12. back \in Seq(V) /\ Len(back) = n /\ DOMAIN back = 1 .. n
  <2>1. \A i \in 1 .. n : FrameColumn(ColumnOf(cs[i]), kept) \in V
    BY <1>18
  <2>2. back \in [1 .. n -> V]
    BY <1>2, <2>1, Zenon
  <2>. HIDE DEF back
  <2>. QED  BY <1>2, <2>2, AsSequence, Zenon
<1>13. RTable(r.names, back) \in TableObjects
  <2>. HIDE DEF back
  <2>1. back # <<>>
    BY <1>2, <1>12
  <2>. QED  BY <1>1, <1>12, <2>1 DEF RTable, TableObjects, V
<1>14. ~ HasNACode(r) => Same(Returned(r), RTable(r.names, back), FALSE)
  <2>. SUFFICES ASSUME ~ HasNACode(r) PROVE Same(Returned(r), RTable(r.names, back), FALSE)
    OBVIOUS
  <2>1. ASSUME NEW i \in 1 .. n PROVE SameColumn(ReturnedColumn(cs[i]), FrameColumn(ColumnOf(cs[i]), kept), kept)
    <3>1. cs[i].kind = "factor" => \A j \in DOMAIN cs[i].codes : cs[i].codes[j] # NA
      BY <1>1, <1>2 DEF HasNACode, cs
    <3>. QED  BY <1>18, <3>1, Zenon
  <2>. DEFINE want == [i \in DOMAIN cs |-> ReturnedColumn(cs[i])]
  <2>2. Returned(r) = [kind |-> "table", names |-> r.names, columns |-> want]
    <3>1. Returned(r) = [r EXCEPT !.columns = want]
      BY <1>1 DEF Returned, cs
    <3>. HIDE DEF want
    <3>. QED  BY <1>1, <3>1
  <2>3. DOMAIN want = 1 .. n /\ Len(want) = n
    <3>1. DOMAIN want = 1 .. n
      BY <1>2, Zenon
    <3>. HIDE DEF want
    <3>. QED  BY <1>2, <3>1, LenDomain
  <2>4. \A i \in 1 .. n : SameColumn(want[i], back[i], kept)
    BY <1>2, <2>1
  <2>5. kept = (~ StringsAsFactors \/ (n > 1 /\ ~ FALSE))
    BY Zenon DEF kept, StringsKept
  <2>. DEFINE a == Returned(r)
              b == RTable(r.names, back)
  <2>6. a.kind = "table" /\ b.kind = "table" /\ a.names = b.names /\ a.columns = want /\ b.columns = back
    <3>. HIDE DEF want, back
    <3>. QED  BY <2>2 DEF RTable
  <2>. HIDE DEF want, back, a, b
  <2>7. Same(a, b, FALSE)
    BY <1>12, <2>3, <2>4, <2>5, <2>6, Zenon DEF Same
  <2>. QED  BY <2>7 DEF a, b
<1>15. DT_DICTIONARY # DT_ANY
  BY DEF DT_DICTIONARY, DT_ANY
<1>. HIDE DEF e, back
<1>16. ReturnsAs(r, e)
  BY <1>8, <1>9, <1>11, <1>13, <1>14, <1>15 DEF ReturnsAs, AllRObjects
<1>. QED  BY <1>16

LEMMA ObjectReturns ==
  ASSUME NEW r \in AllRObjects, Uploadable(r) PROVE \E e : ReturnsAs(r, e)
<1>. QED  BY VectorReturns, ScalarReturns, FactorReturns, MatrixReturns, TableReturns, Zenon DEF AllRObjects

-----------------------------------------------------------------------------
(* The objects of DolphinDB: how they are on the wire.                     *)

LEMMA DEntityType ==
  ASSUME NEW o \in DEntities
  PROVE  /\ o.form \in {DF_SCALAR, DF_VECTOR, DF_PAIR, DF_SET, DF_MATRIX, DF_TABLE} /\ o.form \in 0 .. 6
         /\ o.v \in DVectors /\ o.row \in DVectors /\ o.clm \in DVectors
         /\ o.v.t \in 0 .. 255
         /\ o.dim[1] \in Nat /\ o.dim[2] \in Nat /\ o.dim = <<o.dim[1], o.dim[2]>> /\ o.columns \in Seq(DVectors)
<1>1. /\ o.form \in {DF_SCALAR, DF_VECTOR, DF_PAIR, DF_SET, DF_MATRIX, DF_TABLE}
      /\ o.v \in DVectors /\ o.row \in DVectors /\ o.clm \in DVectors
      /\ o.dim \in Nat \X Nat /\ o.columns \in Seq(DVectors)
  BY DEF DEntities
<1>2. o.form \in 0 .. 6
  BY <1>1, FormCodes
<1>3. o.v.t \in 0 .. 255
  BY <1>1, DVectorType, Zenon
<1>4. o.dim[1] \in Nat /\ o.dim[2] \in Nat /\ o.dim = <<o.dim[1], o.dim[2]>>
  BY <1>1
<1>. QED  BY <1>1, <1>2, <1>3, <1>4

LEMMA DForms ==
  ASSUME NEW o \in DEntities
  PROVE  /\ o.form = DF_SCALAR => Len(o.v.data) = 1
         /\ o.form = DF_TABLE => o.v.t = DT_DICTIONARY /\ o.columns # <<>>
         /\ o.form = DF_MATRIX =>
              /\ Len(o.v.data) = o.dim[1] * o.dim[2]
              /\ Len(o.row.data) = IF o.row.t = DT_VOID THEN 0 ELSE o.dim[1]
              /\ Len(o.clm.data) = IF o.clm.t = DT_VOID THEN 0 ELSE o.dim[2]
<1>. QED  BY DEF DEntities

LEMMA EncodedVectorType ==
  ASSUME NEW v \in DVectors
  PROVE  /\ Body(v, <<Len(v.data), 1>>) \in Seq(Wire) /\ EncodeVector(v) \in Seq(Wire) /\ Flag(DF_VECTOR, v.t) \in Wire
         /\ \A f \in 0 .. 6, dim \in Nat \X Nat : Body(v, dim) \in Seq(Wire)
<1>1. v.t \in 0 .. 255 /\ v.data \in Seq(Int)
  BY DVectorType
<1>2. Flag(DF_VECTOR, v.t) \in Wire
  BY <1>1, FormCodes, FlagType, Zenon
<1>3. ASSUME NEW dim \in Nat \X Nat PROVE Body(v, dim) \in Seq(Wire)
  <2>1. dim[1] \in Int /\ dim[2] \in Int
    OBVIOUS
  <2>2. FlagAndBody(v, DF_VECTOR, dim, dim[1], dim[2])
    BY <2>1, FormCodes, FlagBody, Zenon
  <2>. QED  BY <2>2, Zenon DEF FlagAndBody
<1>4. Body(v, <<Len(v.data), 1>>) \in Seq(Wire)
  <2>1. <<Len(v.data), 1>> \in Nat \X Nat
    BY <1>1
  <2>. QED  BY <1>3, <2>1, Zenon
<1>5. EncodeVector(v) \in Seq(Wire)
  BY <1>1, <1>4, FormCodes, FlagConcat, Zenon DEF EncodeVector
<1>. QED  BY <1>2, <1>3, <1>4, <1>5, Zenon

DBit(lable)   == IF lable.t = DT_VOID THEN 0 ELSE 1
DLables(lable) == IF lable.t = DT_VOID THEN <<>> ELSE EncodeVector(lable)
DNames(o)     == [i \in DOMAIN o.columns |-> i]
DColumns(o)   == [i \in DOMAIN o.columns |-> EncodeVector(o.columns[i])]

\* EncodeEntity by forms: a flag and the rest.
DRest(o) ==
  CASE o.form = DF_SCALAR            -> Items(ItemOf(o.v.t), o.v.data)
    [] o.form \in {DF_VECTOR, DF_PAIR} -> Body(o.v, <<Len(o.v.data), 1>>)
    [] o.form = DF_SET               -> EncodeVector(o.v)
    [] o.form = DF_MATRIX            -> MatrixParts(DBit(o.row), DBit(o.clm), DLables(o.row), DLables(o.clm),
                                                    <<Flag(DF_MATRIX, o.v.t)>> \o Body(o.v, o.dim))
    [] o.form = DF_TABLE             -> TableParts(Len(o.columns[1].data), DNames(o), DColumns(o))

LableOnWire(lable) == DBit(lable) \in {0, 1} /\ DLables(lable) \in Seq(Wire)

LEMMA DLablesType == ASSUME NEW v \in DVectors PROVE LableOnWire(v)
<1>1. EncodeVector(v) \in Seq(Wire)
  BY EncodedVectorType, Zenon
<1>2. <<>> \in Seq(Wire)
  OBVIOUS
<1>. QED  BY <1>1, <1>2, Zenon DEF LableOnWire, DBit, DLables

LEMMA DTableType ==
  ASSUME NEW o \in DEntities, o.columns # <<>>
  PROVE  /\ Len(o.columns[1].data) \in Int /\ DNames(o) \in Seq(Int) /\ DColumns(o) \in Seq(Seq(Wire))
         /\ Len(DNames(o)) = Len(o.columns) /\ Len(DColumns(o)) = Len(o.columns)
         /\ DOMAIN o.columns = 1 .. Len(o.columns) /\ Len(o.columns) \in Nat
         /\ \A i \in 1 .. Len(o.columns) : DNames(o)[i] = i /\ DColumns(o)[i] = EncodeVector(o.columns[i])
         /\ \A i \in 1 .. Len(o.columns) : o.columns[i] \in DVectors
<1>. DEFINE cs == o.columns
            n == Len(cs)
<1>1. cs \in Seq(DVectors)
  BY DEntityType
<1>2. DOMAIN cs = 1 .. n /\ n \in Nat /\ (\A i \in 1 .. n : cs[i] \in DVectors) /\ 1 \in 1 .. n
  <2>. HIDE DEF cs
  <2>. QED  BY <1>1 DEF cs
<1>. HIDE DEF n
<1>3. DNames(o) \in [1 .. n -> Int] /\ DNames(o) = [i \in 1 .. n |-> i]
  <2>1. DNames(o) = [i \in 1 .. n |-> i]
    BY <1>2, Zenon DEF DNames
  <2>2. 1 .. n \subseteq Int
    BY <1>2
  <2>. QED  BY <2>1, <2>2
<1>4. DColumns(o) \in [1 .. n -> Seq(Wire)] /\ DColumns(o) = [i \in 1 .. n |-> EncodeVector(cs[i])]
  <2>1. DColumns(o) = [i \in 1 .. n |-> EncodeVector(cs[i])]
    BY <1>2, Zenon DEF DColumns
  <2>2. \A i \in 1 .. n : EncodeVector(cs[i]) \in Seq(Wire)
    BY <1>2, EncodedVectorType, Zenon
  <2>. QED  BY <2>1, <2>2, Zenon
<1>5. DNames(o) \in Seq(Int) /\ Len(DNames(o)) = n
  BY <1>2, <1>3, AsSequence, Zenon
<1>6. DColumns(o) \in Seq(Seq(Wire)) /\ Len(DColumns(o)) = n
  BY <1>2, <1>4, AsSequence, Zenon
<1>7. Len(cs[1].data) \in Int
  <2>1. cs[1].data \in Seq(Int)
    BY <1>2, DVectorType, Zenon
  <2>. QED  BY <2>1
<1>. QED  BY <1>2, <1>3, <1>4, <1>5, <1>6, <1>7 DEF n

LEMMA Encoded ==
  ASSUME NEW o \in DEntities
  PROVE  EncodeEntity(o) = <<Flag(o.form, o.v.t)>> \o DRest(o) /\ DRest(o) \in Seq(Wire)
<1>. DEFINE f == Flag(o.form, o.v.t)
            F == <<f>>
<1>0. /\ DF_SCALAR \notin {DF_VECTOR, DF_PAIR, DF_SET, DF_MATRIX, DF_TABLE} /\ DF_SET \notin {DF_VECTOR, DF_PAIR}
      /\ DF_MATRIX \notin {DF_VECTOR, DF_PAIR, DF_SET} /\ DF_TABLE \notin {DF_VECTOR, DF_PAIR, DF_SET, DF_MATRIX}
  BY DEF DF_SCALAR, DF_VECTOR, DF_PAIR, DF_SET, DF_MATRIX, DF_TABLE
<1>1. /\ o.form \in {DF_SCALAR, DF_VECTOR, DF_PAIR, DF_SET, DF_MATRIX, DF_TABLE} /\ o.form \in 0 .. 6
      /\ o.v \in DVectors /\ o.row \in DVectors /\ o.clm \in DVectors /\ o.v.t \in 0 .. 255
  BY DEntityType, Zenon
<1>2. f \in Wire
  BY <1>1, FlagType, Zenon
<1>3. <<Flag(o.form, IF o.form = DF_TABLE THEN DT_DICTIONARY ELSE o.v.t)>> = F
  <2>1. (IF o.form = DF_TABLE THEN DT_DICTIONARY ELSE o.v.t) = o.v.t
    BY DForms
  <2>. QED  BY <2>1, Zenon
<1>4. CASE o.form = DF_SCALAR
  <2>1. EncodeEntity(o) = F \o Items(ItemOf(o.v.t), o.v.data)
    BY <1>0, <1>3, <1>4 DEF EncodeEntity
  <2>2. Items(ItemOf(o.v.t), o.v.data) \in Seq(Wire)
    <3>1. ItemOf(o.v.t) \in Words
      <4>1. CASE o.v.t \in Plain
        BY <4>1, WidthType DEF ItemOf, Plain, DT_VOID
      <4>2. CASE o.v.t \notin Plain
        BY <4>2 DEF ItemOf, Words
      <4>. QED  BY <4>1, <4>2
    <3>. QED  BY <1>1, <3>1, DVectorType, ItemsType, Zenon
  <2>. QED  BY <1>0, <1>4, <2>1, <2>2 DEF DRest
<1>5. CASE o.form \in {DF_VECTOR, DF_PAIR}
  <2>1. EncodeEntity(o) = F \o Body(o.v, <<Len(o.v.data), 1>>)
    BY <1>0, <1>3, <1>5 DEF EncodeEntity
  <2>2. Body(o.v, <<Len(o.v.data), 1>>) \in Seq(Wire)
    BY <1>1, EncodedVectorType, Zenon
  <2>. QED  BY <1>0, <1>5, <2>1, <2>2 DEF DRest
<1>6. CASE o.form = DF_SET
  <2>1. EncodeEntity(o) = F \o EncodeVector(o.v)
    BY <1>0, <1>3, <1>6 DEF EncodeEntity
  <2>2. EncodeVector(o.v) \in Seq(Wire)
    BY <1>1, EncodedVectorType, Zenon
  <2>. QED  BY <1>0, <1>6, <2>1, <2>2 DEF DRest
<1>7. CASE o.form = DF_MATRIX
  <2>. DEFINE i == Item("char", DBit(o.row) + 2 * DBit(o.clm))
              s1 == DLables(o.row)
              s2 == DLables(o.clm)
              m == Body(o.v, o.dim)
              s3 == F \o m
  <2>1. s1 \in Seq(Wire) /\ s2 \in Seq(Wire) /\ DBit(o.row) \in {0, 1} /\ DBit(o.clm) \in {0, 1}
    BY <1>1, DLablesType, Zenon DEF LableOnWire
  <2>2. m \in Seq(Wire)
    <3>1. o.dim \in Nat \X Nat
      BY DEF DEntities
    <3>. QED  BY <1>1, <3>1, EncodedVectorType, Zenon
  <2>3. i \in Wire
    BY <2>1, ItemType DEF Words
  <2>4. EncodeEntity(o) = ((((F \o <<i>>) \o s1) \o s2) \o F) \o m
    <3>1. /\ DBit(o.row) = IF o.row.t = DT_VOID THEN 0 ELSE 1
          /\ DBit(o.clm) = IF o.clm.t = DT_VOID THEN 0 ELSE 1
          /\ s1 = IF o.row.t = DT_VOID THEN <<>> ELSE EncodeVector(o.row)
          /\ s2 = IF o.clm.t = DT_VOID THEN <<>> ELSE EncodeVector(o.clm)
      BY Zenon DEF DBit, DLables
    <3>. DEFINE G == <<Flag(o.form, IF o.form = DF_TABLE THEN DT_DICTIONARY ELSE o.v.t)>>
    <3>2. EncodeEntity(o) =
            ((((G \o <<Item("char", (IF o.row.t = DT_VOID THEN 0 ELSE 1) + 2 * (IF o.clm.t = DT_VOID THEN 0 ELSE 1))>>)
              \o (IF o.row.t = DT_VOID THEN <<>> ELSE EncodeVector(o.row)))
              \o (IF o.clm.t = DT_VOID THEN <<>> ELSE EncodeVector(o.clm))) \o G) \o Body(o.v, o.dim)
      BY <1>0, <1>7 DEF EncodeEntity
    <3>. HIDE DEF G, F
    <3>3. G = F
      BY <1>3, Zenon DEF G, F
    <3>. QED  BY <3>2, <3>3, Zenon DEF DBit, DLables
  <2>. HIDE DEF f, i, s1, s2, m
  <2>5. MatrixShaped(((((<<f>> \o <<i>>) \o s1) \o s2) \o <<f>>) \o m, f, i, s1, s2, m)
    BY <1>2, <2>1, <2>2, <2>3, MatrixShape, Zenon
  <2>6. EncodeEntity(o) = <<f>> \o (<<i>> \o (s1 \o (s2 \o (<<f>> \o m))))
    BY <2>4, <2>5, Zenon DEF MatrixShaped
  <2>7. f = Flag(DF_MATRIX, o.v.t)
    BY <1>7, Zenon DEF f
  <2>8. DRest(o) = MatrixParts(DBit(o.row), DBit(o.clm), s1, s2, s3)
    <3>1. DRest(o) = MatrixParts(DBit(o.row), DBit(o.clm), DLables(o.row), DLables(o.clm),
                                 <<Flag(DF_MATRIX, o.v.t)>> \o Body(o.v, o.dim))
      BY <1>0, <1>7 DEF DRest
    <3>. QED  BY <2>7, <3>1, Zenon DEF s1, s2, m
  <2>9. MatrixParts(DBit(o.row), DBit(o.clm), s1, s2, s3) = <<i>> \o (s1 \o (s2 \o (<<f>> \o m)))
    BY Zenon DEF MatrixParts, i
  <2>10. s3 \in Seq(Wire)
    <3>1. <<f>> \in Seq(Wire)
      BY <1>2
    <3>. QED  BY <2>2, <3>1, WireConcat, Zenon
  <2>11. IsWire(MatrixParts(DBit(o.row), DBit(o.clm), s1, s2, s3), 1 + (Len(s1) + (Len(s2) + Len(s3))))
    <3>. HIDE DEF s3
    <3>. QED  BY <2>1, <2>10, PartsType, Zenon
  <2>12. DRest(o) \in Seq(Wire)
    BY <2>8, <2>11, Zenon DEF IsWire
  <2>13. EncodeEntity(o) = <<f>> \o DRest(o)
    BY <2>6, <2>8, <2>9, Zenon
  <2>. QED  BY <2>12, <2>13 DEF f
<1>8. CASE o.form = DF_TABLE
  <2>. DEFINE n == Len(o.columns)
              a == Item("int", Len(o.columns[1].data))
              b == Item("int", n)
              c == Item("string", Null)
              names == Items("string", DNames(o))
              fl == FlattenSeq(DColumns(o))
  <2>0. o.columns # <<>>
    BY <1>8, DForms
  <2>1. /\ Len(o.columns[1].data) \in Int /\ DNames(o) \in Seq(Int) /\ DColumns(o) \in Seq(Seq(Wire))
        /\ Len(DNames(o)) = n /\ n \in Nat
    BY <2>0, DTableType, Zenon
  <2>2. a \in Wire /\ b \in Wire /\ c \in Wire
    <3>1. n \in Int /\ Null \in Int /\ "int" \in Words /\ "string" \in Words
      BY <2>1 DEF Null, Words
    <3>. QED  BY <2>1, <3>1, ItemType, Zenon
  <2>3. names \in Seq(Wire) /\ fl \in Seq(Wire)
    BY <2>1, TablePartsType, Zenon DEF IsWire
  <2>4. Items("int", <<Len(o.columns[1].data), n>>) = <<a, b>>
    <3>. HIDE DEF n
    <3>1. ASSUME NEW x \in Int, NEW y \in Int PROVE Items("int", <<x, y>>) = <<Item("int", x), Item("int", y)>>
      BY DEF Items
    <3>2. n \in Int
      BY <2>1
    <3>. QED  BY <2>1, <3>1, <3>2, Zenon
  <2>5. EncodeEntity(o) = (((F \o Items("int", <<Len(o.columns[1].data), n>>)) \o <<c>>) \o names) \o fl
    BY <1>0, <1>3, <1>8 DEF EncodeEntity, DNames, DColumns
  <2>6. b = Item("int", Len(DNames(o)))
    BY <2>1, Zenon
  <2>. HIDE DEF f, a, b, c, names, fl
  <2>7. TableShaped((((<<f>> \o <<a, b>>) \o <<c>>) \o names) \o fl, f, a, b, c, names, fl)
    BY <1>2, <2>2, <2>3, TableShape, Zenon
  <2>8. EncodeEntity(o) = <<f>> \o (<<a, b, c>> \o (names \o fl))
    BY <2>4, <2>5, <2>7, Zenon DEF TableShaped
  <2>9. TableParts(Len(o.columns[1].data), DNames(o), DColumns(o)) = <<a, b, c>> \o (names \o fl)
    <3>1. TableParts(Len(o.columns[1].data), DNames(o), DColumns(o)) =
            <<a, Item("int", Len(DNames(o))), c>> \o (names \o fl)
      BY Zenon DEF TableParts, a, c, names, fl
    <3>. QED  BY <2>6, <3>1, Zenon
  <2>10. DRest(o) = TableParts(Len(o.columns[1].data), DNames(o), DColumns(o))
    BY <1>0, <1>8 DEF DRest
  <2>11. DRest(o) \in Seq(Wire)
    BY <2>1, <2>10, TablePartsType, Zenon DEF IsWire
  <2>. QED  BY <2>8, <2>9, <2>10, <2>11, Zenon DEF f
<1>. QED  BY <1>1, <1>4, <1>5, <1>6, <1>7, <1>8

-----------------------------------------------------------------------------
(* The objects of DolphinDB: what they are read as, and what R gets.       *)

ArrivesAs(o, e) ==
  /\ CarriesEntity(EncodeEntity(o), e)
  /\ e.type # DT_ANY
  /\ GetEntity(e, FALSE) \in AllRObjects
  /\ Same(ExpectedEntity(o), GetEntity(e, FALSE), FALSE)
  /\ LostInList(o) \/ Same(ExpectedEntity(o), GetEntity(e, TRUE), TRUE)
  /\ GetEntity(e, TRUE).kind \notin {"NULL", "error"}

LEMMA FormsDiffer ==
  /\ DF_SCALAR \notin {DF_VECTOR, DF_PAIR, DF_SET, DF_MATRIX, DF_TABLE} /\ DF_SET \notin {DF_VECTOR, DF_PAIR}
  /\ DF_MATRIX \notin {DF_SCALAR, DF_VECTOR, DF_PAIR, DF_SET, DF_TABLE}
  /\ DF_TABLE \notin {DF_SCALAR, DF_VECTOR, DF_PAIR, DF_SET, DF_MATRIX}
BY DEF DF_SCALAR, DF_VECTOR, DF_PAIR, DF_SET, DF_MATRIX, DF_TABLE

LEMMA KnownNotAny == ASSUME NEW t \in KnownTypes PROVE t # DT_ANY /\ t # DT_VOID /\ t \in 0 .. 255
BY DEF KnownTypes, Plain, DT_SYMBASE, DT_ANY, DT_VOID

\* A vector or a factor on its own, whatever holds it.
LEMMA ColumnSame ==
  ASSUME NEW v \in DVectors, SupportedVector(v)
  PROVE  /\ (\A l : Same(Expected(v), Expected(v), l)) /\ Expected(v) \in AllRObjects
         /\ Expected(v).kind \notin {"NULL", "error"}
<1>1. Expected(v) \in VectorObjects \cup FactorObjects /\ SameVector(Expected(v), Expected(v))
  BY DColumn
<1>. HIDE DEF Expected
<1>2. Expected(v).kind \in {"vector", "factor"}
  BY <1>1 DEF VectorObjects, FactorObjects
<1>. QED  BY <1>1, <1>2 DEF Same, AllRObjects

LEMMA VectorArrives ==
  ASSUME NEW o \in DEntities, o.form \in {DF_VECTOR, DF_PAIR, DF_SET}, SupportedEntity(o)
  PROVE  \E e : ArrivesAs(o, e)
<1>. DEFINE v == o.v
            t == o.v.t
            f == o.form
            n == Len(o.v.data)
            vec == DVec(o.v, n, 1)
            e == Holding(f, t, vec)
            s == <<Flag(f, t)>> \o Body(v, <<n, 1>>)
<1>1. v \in DVectors /\ f \in 0 .. 6 /\ t \in 0 .. 255 /\ v.data \in Seq(RValue) /\ n \in Nat
  BY DEntityType, DVectorType
<1>2. SupportedVector(v) /\ t \in KnownTypes /\ t # DT_ANY /\ t # DT_VOID
  <2>1. SupportedVector(v)
    BY FormsDiffer DEF SupportedEntity
  <2>2. t \in KnownTypes
    BY <2>1, Zenon DEF SupportedVector, KnownTypes
  <2>. QED  BY <2>1, <2>2, KnownNotAny, Zenon
<1>3. vec.t = t
  BY <1>1, DVecFields
<1>4. ASSUME NEW g \in 0 .. 6 PROVE Carries(<<Flag(g, t)>> \o Body(v, <<n, 1>>), vec)
  <2>1. /\ <<n, 1>>[1] = n /\ <<n, 1>>[2] = 1 /\ 1 \in Nat /\ Len(v.data) = n * 1
    BY <1>1
  <2>. HIDE DEF v, n
  <2>2. Carries(<<Flag(g, v.t)>> \o Body(v, <<n, 1>>), DVec(v, n, 1))
    BY <1>1, <1>2, <2>1, DVectorCarried
  <2>. QED  BY <2>2, Zenon DEF v, n
<1>5. vec \in Vecs
  BY <1>1, <1>4, Zenon DEF Carries
<1>6. CarriesEntity(EncodeEntity(o), e)
  <2>1. CASE f \in {DF_VECTOR, DF_PAIR}
    <3>1. EncodeEntity(o) = s /\ Body(v, <<n, 1>>) \in Seq(Wire)
      <4>1. EncodeEntity(o) = <<Flag(f, t)>> \o DRest(o) /\ DRest(o) \in Seq(Wire)
        BY Encoded, Zenon
      <4>2. DRest(o) = Body(v, <<n, 1>>)
        BY <2>1, FormsDiffer DEF DRest
      <4>. QED  BY <4>1, <4>2, Zenon
    <3>2. Carries(s, vec)
      BY <1>1, <1>4, Zenon
    <3>. HIDE DEF vec, f, t
    <3>3. CarriesEntity(s, e)
      BY <1>1, <2>1, <3>1, <3>2, VectorEntity, Zenon
    <3>. QED  BY <3>1, <3>3, Zenon
  <2>2. CASE f = DF_SET
    <3>1. EncodeEntity(o) = <<Flag(DF_SET, t)>> \o EncodeVector(v)
      <4>1. EncodeEntity(o) = <<Flag(f, t)>> \o DRest(o)
        BY Encoded, Zenon
      <4>2. DRest(o) = EncodeVector(v)
        BY <2>2, FormsDiffer DEF DRest
      <4>. QED  BY <2>2, <4>1, <4>2, Zenon
    <3>2. Carries(EncodeVector(v), vec)
      BY <1>4, FormCodes, Zenon DEF EncodeVector
    <3>. HIDE DEF vec, t
    <3>3. CarriesEntity(<<Flag(DF_SET, t)>> \o EncodeVector(v), Holding(DF_SET, t, vec))
      BY <1>1, <3>2, SetEntity, Zenon
    <3>. QED  BY <2>2, <3>1, <3>3, Zenon
  <2>. QED  BY <2>1, <2>2
<1>7. e.type = t
  <2>. HIDE DEF vec, t, f
  <2>1. t \in Int /\ f \in Int
    BY <1>1
  <2>. QED  BY <1>5, <2>1, HoldingType
<1>8. Column(vec) = Expected(v) /\ (\A l : Same(Expected(v), Expected(v), l)) /\ Expected(v) \in AllRObjects
      /\ Expected(v).kind \notin {"NULL", "error"}
  BY <1>1, <1>2, DColumn, ColumnSame, Zenon
<1>9. ExpectedEntity(o) = Expected(v)
  BY <1>2, FormsDiffer DEF ExpectedEntity
<1>10. /\ GetEntity(e, FALSE) = Expected(v)
       /\ GetEntity(e, TRUE) = IF t \in {2, 3} THEN RVector("integer", Values(vec)) ELSE Expected(v)
  <2>1. f \in {DF_VECTOR, DF_PAIR, DF_SET}
    OBVIOUS
  <2>. HIDE DEF vec, t, f, v
  <2>2. /\ GetEntity(Holding(f, t, vec), FALSE) = Column(vec)
        /\ GetEntity(Holding(f, t, vec), TRUE) =
             IF t \in {2, 3} THEN RVector("integer", Values(vec)) ELSE Column(vec)
    BY <1>2, <1>3, <1>5, <2>1, GotVector
  <2>. QED  BY <1>8, <2>2, Zenon
<1>11. CASE t \in {2, 3}
  <2>1. Values(vec) = v.data
    <3>1. t # DT_INT
      BY <1>11 DEF DT_INT
    <3>. QED  BY <1>1, <1>2, <3>1, DVecValues
  <2>2. Expected(v) = RVector("integer", NullsAreNA(v.data))
    <3>1. t # DT_SYMBASE /\ t \in Plain
      BY <1>11 DEF DT_SYMBASE, Plain
    <3>2. Class[t] = "integer"
      BY <1>11, <3>1, IntegerTypes
    <3>. QED  BY <3>1, <3>2 DEF Expected
  <2>3. LostInList(o) \/ NullsAreNA(v.data) = v.data
    <3>1. SUFFICES ASSUME ~ LostInList(o) PROVE NullsAreNA(v.data) = v.data
      OBVIOUS
    <3>2. \A i \in DOMAIN v.data : v.data[i] # Null
      BY <1>11, <3>1, FormsDiffer DEF LostInList
    <3>3. NullsAreNA(v.data) = [i \in DOMAIN v.data |-> v.data[i]]
      BY <3>2, Zenon DEF NullsAreNA
    <3>. QED  BY <1>1, <3>3
  <2>4. GetEntity(e, TRUE) = RVector("integer", v.data)
    BY <1>10, <1>11, <2>1
  <2>5. GetEntity(e, TRUE).kind \notin {"NULL", "error"}
    <3>1. RVector("integer", v.data).kind = "vector"
      BY DEF RVector
    <3>. HIDE DEF e
    <3>. QED  BY <2>4, <3>1
  <2>. HIDE DEF e
  <2>6. ArrivesAs(o, e)
    BY <1>2, <1>6, <1>7, <1>8, <1>9, <1>10, <2>2, <2>3, <2>4, <2>5 DEF ArrivesAs
  <2>. QED  BY <2>6
<1>12. CASE t \notin {2, 3}
  <2>. HIDE DEF e
  <2>1. ArrivesAs(o, e)
    BY <1>2, <1>6, <1>7, <1>8, <1>9, <1>10, <1>12 DEF ArrivesAs
  <2>. QED  BY <2>1
<1>. QED  BY <1>11, <1>12

LEMMA ScalarArrives ==
  ASSUME NEW o \in DEntities, o.form = DF_SCALAR, SupportedEntity(o)
  PROVE  \E e : ArrivesAs(o, e)
<1>. DEFINE t == o.v.t
            d == o.v.data
            vec == IF t = DT_VOID THEN Nothing(t) ELSE Vec(t, 0, 0, d, <<>>)
            e == Holding(DF_SCALAR, t, vec)
<1>1. t \in 0 .. 255 /\ d \in Seq(RValue) /\ d \in Seq(Int) /\ Len(d) = 1 /\ t \in Plain \cup {DT_VOID}
  <2>1. o.v \in DVectors /\ Len(d) = 1
    BY DEntityType, DForms
  <2>2. t \in Plain \cup {DT_VOID}
    BY FormsDiffer DEF SupportedEntity
  <2>. QED  BY <2>1, <2>2, DVectorType
<1>2. EncodeEntity(o) = <<Flag(DF_SCALAR, t)>> \o Items(ItemOf(t), d)
  <2>1. EncodeEntity(o) = <<Flag(o.form, t)>> \o DRest(o)
    BY Encoded, Zenon
  <2>2. DRest(o) = Items(ItemOf(t), d)
    BY FormsDiffer DEF DRest
  <2>. QED  BY <2>1, <2>2, Zenon
<1>3. CarriesEntity(EncodeEntity(o), e)
  BY <1>1, <1>2, ScalarEntity, Zenon
<1>. HIDE DEF t, d
<1>4. vec \in Vecs
  <2>1. <<>> \in Seq(Int) /\ 0 \in Int /\ t \in Int
    BY <1>1
  <2>2. Nothing(t) \in Vecs /\ Vec(t, 0, 0, d, <<>>) \in Vecs
    BY <1>1, <2>1, NothingType, VecType, Zenon
  <2>. QED  BY <2>2
<1>5. e.form = DF_SCALAR /\ e.type = t /\ t # DT_ANY
  <2>. HIDE DEF vec
  <2>1. t \in Int /\ DF_SCALAR \in Int
    BY <1>1 DEF DF_SCALAR
  <2>2. t # DT_ANY
    BY <1>1 DEF Plain, DT_VOID, DT_ANY
  <2>. QED  BY <1>4, <2>1, <2>2, HoldingType
<1>6. CASE t = DT_VOID
  <2>. HIDE DEF e, RNA
  <2>1. GetEntity(e, FALSE) = RNA /\ GetEntity(e, TRUE) = RNA
    BY <1>5, <1>6, VoidScalarGot, Zenon
  <2>2. ExpectedEntity(o) = RNA
    BY <1>6, FormsDiffer DEF ExpectedEntity, t
  <2>3. \A l : Same(RNA, RNA, l)
    BY RNAType, SameReflexive DEF Same
  <2>4. ArrivesAs(o, e)
    BY <1>3, <1>5, <2>1, <2>2, <2>3, RNAType DEF ArrivesAs, AllRObjects
  <2>. QED  BY <2>4
<1>7. CASE t # DT_VOID
  <2>1. t \in Plain /\ t # DT_SYMBASE
    BY <1>1, <1>7 DEF Plain, DT_SYMBASE
  <2>2. e = Holding(DF_SCALAR, t, Vec(t, 0, 0, d, <<>>))
    BY <1>7
  <2>. DEFINE want == RVector(Class[t], NullsAreNA(d))
  <2>3. /\ GetEntity(e, FALSE) = want
        /\ GetEntity(e, TRUE) = want \/ (d = <<Null>> /\ GetEntity(e, TRUE) = RNA)
    BY <1>1, <2>1, <2>2, GotScalar
  <2>4. ExpectedEntity(o) = want
    <3>1. ExpectedEntity(o) = Expected(o.v)
      BY <1>7, FormsDiffer DEF ExpectedEntity, t
    <3>. QED  BY <2>1, <3>1 DEF Expected, t, d
  <2>5. want \in VectorObjects /\ want.kind = "vector" /\ want.data = NullsAreNA(d)
    <3>1. Class[t] \in RClasses /\ NullsAreNA(d) \in Seq(RValue)
      BY <1>1, <2>1, ClassType, NullsAreNAType, Zenon DEF RClasses
    <3>. QED  BY <3>1 DEF RVector, VectorObjects
  <2>. HIDE DEF want, e, RNA
  <2>6. \A l : Same(want, want, l)
    BY <2>5, SameReflexive DEF Same
  <2>7. d = <<Null>> => \A l : Same(want, RNA, l)
    <3>1. SUFFICES ASSUME d = <<Null>> PROVE \A l : Same(want, RNA, l)
      OBVIOUS
    <3>2. NullsAreNA(<<Null>>) = <<NA>>
      BY DEF NullsAreNA
    <3>3. want.data = <<NA>>
      BY <2>5, <3>1, <3>2, Zenon
    <3>4. AllNA(want) /\ Content(want) = Content(RNA)
      BY <2>5, <3>3, RNAType DEF AllNA, Content
    <3>. QED  BY <2>5, <3>4, RNAType DEF Same, SameVector
  <2>8. ArrivesAs(o, e)
    BY <1>3, <1>5, <2>3, <2>4, <2>5, <2>6, <2>7, RNAType DEF ArrivesAs, AllRObjects
  <2>. QED  BY <2>8
<1>. QED  BY <1>6, <1>7

\* The lable of a script's matrix in C++.
LVec(lable) == IF lable.t = DT_VOID THEN Nothing(DT_VOID) ELSE DVec(lable, Len(lable.data), 1)

ReadableLable(lable) == lable.t = DT_VOID \/ SupportedVector(lable)

CarriesDLable(lable) == CarriesLable(DBit(lable), DLables(lable), LVec(lable)) /\ LVec(lable) \in GoodVecs

LEMMA DLableCarried == ASSUME NEW lable \in DVectors, ReadableLable(lable) PROVE CarriesDLable(lable)
<1>1. CASE lable.t = DT_VOID
  <2>1. DBit(lable) = 0 /\ DLables(lable) = <<>> /\ LVec(lable) = Nothing(DT_VOID)
    BY <1>1 DEF DBit, DLables, LVec
  <2>2. Nothing(DT_VOID) \in GoodVecs
    <3>1. DT_VOID \in Int
      BY DEF DT_VOID
    <3>. QED  BY <3>1, NothingGood, Zenon
  <2>. QED  BY <2>1, <2>2 DEF CarriesDLable, CarriesLable
<1>2. CASE lable.t # DT_VOID
  <2>. DEFINE n == Len(lable.data)
  <2>1. DBit(lable) = 1 /\ DLables(lable) = EncodeVector(lable) /\ LVec(lable) = DVec(lable, n, 1)
    BY <1>2 DEF DBit, DLables, LVec
  <2>2. SupportedVector(lable)
    BY <1>2 DEF ReadableLable
  <2>3. n \in Nat /\ 1 \in Nat /\ <<n, 1>>[1] = n /\ <<n, 1>>[2] = 1 /\ Len(lable.data) = n * 1
    <3>1. lable.data \in Seq(Int)
      BY DVectorType, Zenon
    <3>. QED  BY <3>1
  <2>. HIDE DEF n
  <2>4. Carries(<<Flag(DF_VECTOR, lable.t)>> \o Body(lable, <<n, 1>>), DVec(lable, n, 1))
    BY <2>2, <2>3, FormCodes, DVectorCarried
  <2>5. DVec(lable, n, 1) \in GoodVecs
    BY <2>2, <2>3, DVecGood, Zenon
  <2>6. EncodeVector(lable) = <<Flag(DF_VECTOR, lable.t)>> \o Body(lable, <<n, 1>>)
    BY Zenon DEF EncodeVector, n
  <2>. QED  BY <2>1, <2>4, <2>5, <2>6 DEF CarriesDLable, CarriesLable
<1>. QED  BY <1>1, <1>2

ExpectsLable(lable) ==
  /\ LableOk(LVec(lable)) /\ LableValues(LVec(lable)) = ExpectedLable(lable)
  /\ ExpectedLable(lable) \in Seq(RValue) /\ Len(ExpectedLable(lable)) = Len(lable.data)

LEMMA DLableExpected ==
  ASSUME NEW lable \in DVectors, (lable.t = DT_VOID /\ lable.data = <<>>) \/ LableClass(lable) \in LableClasses
  PROVE  ExpectsLable(lable) /\ ReadableLable(lable)
<1>1. lable.data \in Seq(RValue)
  BY DVectorType, Zenon
<1>2. NullsAreNA(lable.data) \in Seq(RValue) /\ Len(NullsAreNA(lable.data)) = Len(lable.data)
  BY <1>1, NullsAreNAType, Zenon
<1>3. ExpectedLable(lable) \in {lable.data, NullsAreNA(lable.data)}
  BY DEF ExpectedLable
<1>. HIDE DEF ExpectedLable, NullsAreNA
<1>4. ExpectedLable(lable) \in Seq(RValue) /\ Len(ExpectedLable(lable)) = Len(lable.data)
  BY <1>1, <1>2, <1>3
<1>5. CASE lable.t = DT_VOID /\ lable.data = <<>>
  <2>1. ExpectedLable(lable) = <<>>
    BY <1>4, <1>5
  <2>2. LVec(lable) = Nothing(DT_VOID) /\ Nothing(DT_VOID).t = DT_VOID
    BY <1>5 DEF LVec, Nothing, Vec
  <2>3. LableOk(LVec(lable)) /\ LableValues(LVec(lable)) = <<>>
    BY <2>2, Zenon DEF LableOk, LableValues
  <2>. QED  BY <1>4, <1>5, <2>1, <2>3, Zenon DEF ExpectsLable, ReadableLable
<1>6. CASE LableClass(lable) \in LableClasses
  <2>. DEFINE vec == DVec(lable, Len(lable.data), 1)
  <2>1. lable.t \in Plain /\ lable.t # DT_VOID
    BY <1>6, KnownLable, Zenon
  <2>2. Lable(vec) = ExpectedLable(lable) /\ LableOk(vec) /\ vec.t # DT_VOID
    BY <1>6, DLable, Zenon
  <2>3. LVec(lable) = vec
    BY <2>1 DEF LVec
  <2>4. LableValues(vec) = ExpectedLable(lable)
    BY <2>2, Zenon DEF LableValues
  <2>5. SupportedVector(lable)
    BY <2>1 DEF SupportedVector
  <2>. QED  BY <1>4, <2>2, <2>3, <2>4, <2>5, Zenon DEF ExpectsLable, ReadableLable
<1>. QED  BY <1>5, <1>6

DMatrix(o) == MatrixEntity(o.v.t, DVec(o.v, o.dim[1], o.dim[2]), LVec(o.row), LVec(o.clm))

LEMMA DMatrixCarried ==
  ASSUME NEW o \in DEntities, o.form = DF_MATRIX, SupportedVector(o.v), ReadableLable(o.row), ReadableLable(o.clm)
  PROVE  /\ CarriesEntity(EncodeEntity(o), DMatrix(o))
         /\ DVec(o.v, o.dim[1], o.dim[2]) \in GoodVecs
<1>. DEFINE t == o.v.t
            d1 == o.dim[1]
            d2 == o.dim[2]
            vec == DVec(o.v, d1, d2)
            s3 == <<Flag(DF_MATRIX, t)>> \o Body(o.v, o.dim)
            b1 == DBit(o.row)
            b2 == DBit(o.clm)
            s1 == DLables(o.row)
            s2 == DLables(o.clm)
            v1 == LVec(o.row)
            v2 == LVec(o.clm)
<1>1. /\ o.v \in DVectors /\ o.row \in DVectors /\ o.clm \in DVectors /\ t \in 0 .. 255
      /\ d1 \in Nat /\ d2 \in Nat /\ Len(o.v.data) = d1 * d2
  BY DEntityType, DForms
<1>2. Carries(s3, vec)
  <2>1. Carries(<<Flag(DF_MATRIX, o.v.t)>> \o Body(o.v, o.dim), DVec(o.v, d1, d2))
    BY <1>1, FormCodes, DVectorCarried
  <2>. QED  BY <2>1
<1>3. vec \in GoodVecs
  BY <1>1, DVecGood, Zenon
<1>4. Lables(b1, b2, s1, s2, v1, v2)
  <2>1. CarriesDLable(o.row) /\ CarriesDLable(o.clm)
    BY <1>1, DLableCarried, Zenon
  <2>2. LableOnWire(o.row) /\ LableOnWire(o.clm)
    BY <1>1, DLablesType, Zenon
  <2>. QED  BY <2>1, <2>2, Zenon DEF CarriesDLable, LableOnWire, Lables
<1>5. EncodeEntity(o) = <<Flag(DF_MATRIX, t)>> \o MatrixParts(b1, b2, s1, s2, s3)
  <2>1. EncodeEntity(o) = <<Flag(o.form, t)>> \o DRest(o)
    BY Encoded, Zenon
  <2>2. DRest(o) = MatrixParts(b1, b2, s1, s2, s3)
    BY FormsDiffer DEF DRest
  <2>. QED  BY <2>1, <2>2, Zenon
<1>. HIDE DEF t, vec, s3, b1, b2, s1, s2, v1, v2
<1>6. CarriesMatrix(<<Flag(DF_MATRIX, t)>> \o MatrixParts(b1, b2, s1, s2, s3), t, vec, v1, v2)
  BY <1>1, <1>2, <1>4, MatrixCarried, Zenon
<1>7. CarriesEntity(EncodeEntity(o), MatrixEntity(t, vec, v1, v2))
  BY <1>5, <1>6, Zenon DEF CarriesMatrix
<1>. QED  BY <1>3, <1>7, Zenon DEF DMatrix, t, vec, v1, v2

LEMMA MatrixArrives ==
  ASSUME NEW o \in DEntities, o.form = DF_MATRIX, SupportedEntity(o)
  PROVE  \E e : ArrivesAs(o, e)
<1>. DEFINE v == o.v
            t == o.v.t
            vec == DVec(o.v, o.dim[1], o.dim[2])
            v1 == LVec(o.row)
            v2 == LVec(o.clm)
            e == DMatrix(o)
            class == MatrixClassOf(t)
            mtx(data) == RMatrix(MatrixClass(class), o.dim, data, ExpectedLable(o.row), ExpectedLable(o.clm))
            want == mtx(NullsAreNA(v.data))
<1>1. /\ v \in DVectors /\ o.row \in DVectors /\ o.clm \in DVectors /\ t \in 0 .. 255 /\ o.dim \in Nat \X Nat
      /\ o.dim[1] \in Nat /\ o.dim[2] \in Nat /\ Len(v.data) = o.dim[1] * o.dim[2] /\ o.dim = <<o.dim[1], o.dim[2]>>
      /\ Len(o.row.data) \in {0, o.dim[1]} /\ Len(o.clm.data) \in {0, o.dim[2]}
      /\ o.row.t = DT_VOID => Len(o.row.data) = 0
      /\ o.clm.t = DT_VOID => Len(o.clm.data) = 0
  <2>1. o.dim \in Nat \X Nat
    BY DEF DEntities
  <2>. QED  BY <2>1, DEntityType, DForms
<1>2. /\ SupportedVector(v)
      /\ o.row.t = DT_VOID \/ LableClass(o.row) \in LableClasses
      /\ o.clm.t = DT_VOID \/ LableClass(o.clm) \in LableClasses
  <2>. HIDE DEF LableClass, LableClasses
  <2>. QED  BY FormsDiffer DEF SupportedEntity
<1>3. t \in KnownTypes /\ t # DT_ANY /\ t # DT_VOID
  <2>1. t \in KnownTypes
    BY <1>2, Zenon DEF SupportedVector, KnownTypes
  <2>. QED  BY <2>1, KnownNotAny, Zenon
<1>4. ExpectsLable(o.row) /\ ReadableLable(o.row) /\ ExpectsLable(o.clm) /\ ReadableLable(o.clm)
  <2>1. /\ o.row.t = DT_VOID => o.row.data = <<>>
        /\ o.clm.t = DT_VOID => o.clm.data = <<>>
    <3>1. o.row.data \in Seq(Int) /\ o.clm.data \in Seq(Int)
      BY <1>1, DVectorType, Zenon
    <3>. QED  BY <1>1, <3>1
  <2>. QED  BY <1>1, <1>2, <2>1, DLableExpected, Zenon
<1>5. CarriesEntity(EncodeEntity(o), e) /\ vec \in GoodVecs
  BY <1>2, <1>4, DMatrixCarried, Zenon
<1>6. v1 \in GoodVecs /\ v2 \in GoodVecs /\ v1 \in Vecs /\ v2 \in Vecs /\ vec \in Vecs
  <2>1. v1 \in GoodVecs /\ v2 \in GoodVecs
    BY <1>1, <1>4, DLableCarried, Zenon DEF CarriesDLable
  <2>. QED  BY <1>5, <2>1, Zenon DEF GoodVecs
<1>7. vec.row = o.dim[1] /\ vec.clm = o.dim[2] /\ WithNA(vec) = NullsAreNA(v.data)
  <2>1. vec.row = o.dim[1] /\ vec.clm = o.dim[2]
    BY <1>1, DVecFields
  <2>2. WithNA(vec) = NullsAreNA(v.data)
    BY <1>1, <1>2, DColumn, Zenon
  <2>. QED  BY <2>1, <2>2
<1>8. e = MatrixEntity(t, vec, v1, v2)
  BY DEF DMatrix
<1>. HIDE DEF t, vec, v1, v2, e
<1>9. IsMatrix(e, t, vec, v1, v2)
  <2>1. t \in Int
    BY <1>1
  <2>. QED  BY <1>6, <1>8, <2>1, MatrixEntityIs, Zenon
<1>10. e \in Ents /\ e.type = t /\ e.vec = vec /\ e.row = v1 /\ e.clm = v2
  BY <1>9, Zenon DEF IsMatrix
<1>11. GetsMatrix(e, class, vec)
  BY <1>3, <1>6, <1>8, MatrixGot, Zenon
<1>. HIDE DEF class
<1>12. ASSUME NEW data PROVE MatrixOf(e, class, data) = mtx(data)
  <2>. DEFINE rows == LableValues(e.row)
              cols == IF LableOk(e.clm) THEN LableValues(e.clm) ELSE rows
  <2>1. LableOk(e.row) /\ LableOk(e.clm) /\ rows = ExpectedLable(o.row) /\ cols = ExpectedLable(o.clm)
    <3>1. /\ LableOk(v1) /\ LableValues(v1) = ExpectedLable(o.row)
          /\ LableOk(v2) /\ LableValues(v2) = ExpectedLable(o.clm)
      BY <1>4, Zenon DEF ExpectsLable, v1, v2
    <3>. QED  BY <1>10, <3>1
  <2>2. Len(rows) \in {0, e.vec.row} /\ Len(cols) \in {0, e.vec.clm}
    <3>1. Len(ExpectedLable(o.row)) = Len(o.row.data) /\ Len(ExpectedLable(o.clm)) = Len(o.clm.data)
      BY <1>4, Zenon DEF ExpectsLable
    <3>. QED  BY <1>1, <1>7, <1>10, <2>1, <3>1
  <2>3. MatrixOf(e, class, data) = RMatrix(MatrixClass(class), <<e.vec.row, e.vec.clm>>, data, rows, cols)
    BY <1>10, <2>1, <2>2, MatrixOfIs
  <2>4. <<e.vec.row, e.vec.clm>> = o.dim
    BY <1>1, <1>7, <1>10
  <2>. QED  BY <2>1, <2>3, <2>4, Zenon
<1>13. GetEntity(e, FALSE) = want
  BY <1>7, <1>11, <1>12, Zenon DEF GetsMatrix
<1>14. ExpectedEntity(o) = want
  <2>1. ExpectedEntity(o) = RMatrix(IF t = DT_SYMBASE THEN "character" ELSE MatrixClass(Class[t]), o.dim,
                                    NullsAreNA(v.data), ExpectedLable(o.row), ExpectedLable(o.clm))
    BY <1>3, FormsDiffer DEF ExpectedEntity, t
  <2>2. (IF t = DT_SYMBASE THEN "character" ELSE MatrixClass(Class[t])) = MatrixClass(class)
    <3>1. MatrixClass("character") = "character"
      BY DEF MatrixClass
    <3>. QED  BY <3>1 DEF MatrixClassOf, class
  <2>. QED  BY <2>1, <2>2, Zenon
<1>15. want \in MatrixObjects /\ want.kind = "matrix"
  <2>1. NullsAreNA(v.data) \in Seq(RValue) /\ Len(NullsAreNA(v.data)) = Len(v.data)
    <3>1. v.data \in Seq(RValue)
      BY <1>1, DVectorType, Zenon
    <3>. QED  BY <3>1, NullsAreNAType, Zenon
  <2>2. /\ ExpectedLable(o.row) \in Seq(RValue) /\ Len(ExpectedLable(o.row)) = Len(o.row.data)
        /\ ExpectedLable(o.clm) \in Seq(RValue) /\ Len(ExpectedLable(o.clm)) = Len(o.clm.data)
    BY <1>4, Zenon DEF ExpectsLable
  <2>3. MatrixClass(class) \in DOMAIN UploadType
    BY <1>3, MatrixClassOfType, MatrixClassType, Zenon DEF class
  <2>. HIDE DEF NullsAreNA, ExpectedLable, MatrixClass
  <2>. QED  BY <1>1, <2>1, <2>2, <2>3 DEF RMatrix, MatrixObjects
<1>16. \A l : Same(want, want, l)
  <2>. HIDE DEF want
  <2>. QED  BY <1>15, SameReflexive DEF Same
<1>17. ReturnRType(DF_MATRIX, t)[2] = class
  <2>1. ReturnRType(DF_MATRIX, t) = <<"matrix", class>>
    BY <1>3, RTypes, Zenon DEF class
  <2>. QED  BY <2>1
<1>18. \/ class = "character" /\ GetEntity(e, TRUE) = RNA
       \/ class = "integer" /\ GetEntity(e, TRUE) = mtx(Values(vec))
       \/ class # "character" /\ GetEntity(e, TRUE) = want
  <2>1. class \notin {"character", "integer"} => GetEntity(e, TRUE) = MatrixOf(e, class, WithNA(vec))
    BY <1>11, Zenon DEF GetsMatrix
  <2>2. class = "integer" => GetEntity(e, TRUE) = MatrixOf(e, class, Values(vec))
    BY <1>11, Zenon DEF GetsMatrix
  <2>3. class = "character" => GetEntity(e, TRUE) = RNA
    BY <1>11, Zenon DEF GetsMatrix
  <2>4. MatrixOf(e, class, WithNA(vec)) = want
    BY <1>7, <1>12, Zenon
  <2>5. MatrixOf(e, class, Values(vec)) = mtx(Values(vec))
    BY <1>12, Zenon
  <2>. HIDE DEF want, mtx, RNA
  <2>. QED  BY <2>1, <2>2, <2>3, <2>4, <2>5
<1>19. CASE class = "character" /\ GetEntity(e, TRUE) = RNA
  <2>1. LostInList(o)
    BY <1>17, <1>19 DEF LostInList, t
  <2>. HIDE DEF want, RNA
  <2>2. ArrivesAs(o, e)
    BY <1>3, <1>5, <1>10, <1>13, <1>14, <1>15, <1>16, <1>19, <2>1, RNAType DEF ArrivesAs, AllRObjects
  <2>. QED  BY <2>2
<1>20. CASE class # "character" /\ GetEntity(e, TRUE) = want
  <2>. HIDE DEF want
  <2>1. ArrivesAs(o, e)
    BY <1>3, <1>5, <1>10, <1>13, <1>14, <1>15, <1>16, <1>20 DEF ArrivesAs, AllRObjects
  <2>. QED  BY <2>1
<1>21. CASE class = "integer" /\ GetEntity(e, TRUE) = mtx(Values(vec))
  <2>1. LostInList(o) \/ Values(vec) = NullsAreNA(v.data)
    <3>1. CASE t = DT_INT
      BY <1>1, <1>2, <3>1, DVecValues DEF vec, t
    <3>2. CASE t # DT_INT
      <4>1. Values(vec) = v.data
        BY <1>1, <1>2, <3>2, DVecValues DEF vec, t
      <4>2. t \in {2, 3}
        <5>1. t # DT_SYMBASE
          BY <1>21 DEF class, MatrixClassOf
        <5>2. t \in Plain /\ Class[t] = "integer"
          BY <1>3, <1>21, <5>1 DEF class, MatrixClassOf, KnownTypes
        <5>. QED  BY <3>2, <5>2, IntegerTypes
      <4>3. SUFFICES ASSUME ~ LostInList(o) PROVE NullsAreNA(v.data) = v.data
        BY <4>1
      <4>4. \A i \in DOMAIN v.data : v.data[i] # Null
        BY <4>2, <4>3, FormsDiffer DEF LostInList, t
      <4>5. NullsAreNA(v.data) = [i \in DOMAIN v.data |-> v.data[i]]
        BY <4>4, Zenon DEF NullsAreNA
      <4>6. v.data \in Seq(RValue)
        BY <1>1, DVectorType, Zenon
      <4>. QED  BY <4>5, <4>6
    <3>. QED  BY <3>1, <3>2
  <2>2. mtx(Values(vec)).kind = "matrix"
    BY DEF RMatrix
  <2>3. LostInList(o) \/ mtx(Values(vec)) = want
    BY <2>1, Zenon
  <2>. HIDE DEF want, mtx
  <2>4. ArrivesAs(o, e)
    BY <1>3, <1>5, <1>10, <1>13, <1>14, <1>15, <1>16, <1>21, <2>2, <2>3 DEF ArrivesAs, AllRObjects
  <2>. QED  BY <2>4
<1>. QED  BY <1>18, <1>19, <1>20, <1>21

\* The columns of a script's table; one of another type stops the reader.
DGood(o) == {i \in 1 .. Len(o.columns) : SupportedVector(o.columns[i])}
DVecs(o) == [i \in DOMAIN o.columns |-> IF i \in DGood(o) THEN DVec(o.columns[i], Len(o.columns[i].data), 1)
                                        ELSE Nothing(0)]

DColumnRead(v, s, vec) == IF SupportedVector(v) THEN Carries(s, vec) ELSE Stops(s)

LEMMA DColumnReads ==
  ASSUME NEW v \in DVectors, NEW vec, SupportedVector(v) => vec = DVec(v, Len(v.data), 1)
  PROVE  DColumnRead(v, EncodeVector(v), vec)
<1>. DEFINE n == Len(v.data)
            b == Body(v, <<n, 1>>)
<1>1. v.t \in 0 .. 255 /\ n \in Nat /\ b \in Seq(Wire)
  <2>1. v.t \in 0 .. 255 /\ v.data \in Seq(Int)
    BY DVectorType, Zenon
  <2>2. b \in Seq(Wire)
    BY EncodedVectorType, Zenon
  <2>. QED  BY <2>1, <2>2
<1>2. EncodeVector(v) = <<Flag(DF_VECTOR, v.t)>> \o b
  BY Zenon DEF EncodeVector
<1>3. CASE SupportedVector(v)
  <2>1. 1 \in Nat /\ <<n, 1>>[1] = n /\ <<n, 1>>[2] = 1 /\ Len(v.data) = n * 1
    BY <1>1
  <2>. HIDE DEF n
  <2>2. Carries(<<Flag(DF_VECTOR, v.t)>> \o Body(v, <<n, 1>>), DVec(v, n, 1))
    BY <1>1, <1>3, <2>1, FormCodes, DVectorCarried
  <2>. QED  BY <1>2, <1>3, <2>2 DEF DColumnRead, n
<1>4. CASE ~ SupportedVector(v)
  <2>1. v.t \notin Plain \cup {DT_SYMBASE} /\ v.t \notin KnownTypes
    BY <1>4, Zenon DEF SupportedVector, KnownTypes
  <2>. HIDE DEF b
  <2>2. EncodeVector(v) \in Seq(Wire)
    BY EncodedVectorType, Zenon
  <2>3. ASSUME NEW in \in Seq(Wire), NEW p \in Nat, Holds(in, p, EncodeVector(v))
        PROVE  FlaggedVector(in, p).vec.t \notin KnownTypes
    <3>1. Holds(in, p, <<Flag(DF_VECTOR, v.t)>> \o b)
      BY <1>2, <2>3, Zenon
    <3>2. FlaggedVector(in, p) = [p |-> p + 1, vec |-> Nothing(v.t)]
      <4>1. DF_VECTOR \in 0 .. 6
        BY FormCodes
      <4>2. StopsAt(in, p, v.t)
        BY <1>1, <2>1, <3>1, <4>1, DVectorStops, Zenon
      <4>. QED  BY <4>2, Zenon DEF StopsAt
    <3>3. Nothing(v.t).t = v.t
      BY DEF Nothing, Vec
    <3>. QED  BY <2>1, <3>2, <3>3
  <2>4. Stops(EncodeVector(v))
    BY <2>2, <2>3, Zenon DEF Stops
  <2>. QED  BY <1>4, <2>4, Zenon DEF DColumnRead
<1>. QED  BY <1>3, <1>4

LEMMA DWireColumns ==
  ASSUME NEW o \in DEntities, o.columns # <<>>
  PROVE  /\ WireColumns(DColumns(o), DVecs(o), DGood(o)) /\ DGood(o) \in SUBSET (1 .. Len(DColumns(o)))
         /\ DVecs(o) \in Seq(Vecs) /\ DVecs(o) # <<>> /\ DOMAIN DVecs(o) = 1 .. Len(o.columns)
<1>. DEFINE cs == o.columns
            n == Len(o.columns)
            ss == DColumns(o)
            vecs == DVecs(o)
            good == DGood(o)
<1>1. /\ ss \in Seq(Seq(Wire)) /\ Len(ss) = n /\ DOMAIN cs = 1 .. n /\ n \in Nat
      /\ \A i \in 1 .. n : cs[i] \in DVectors /\ ss[i] = EncodeVector(cs[i])
  BY DTableType
<1>2. \A i \in 1 .. n : i \in good <=> SupportedVector(cs[i])
  BY DEF DGood
<1>3. vecs = [i \in 1 .. n |-> IF i \in good THEN DVec(cs[i], Len(cs[i].data), 1) ELSE Nothing(0)]
  BY <1>1, Zenon DEF DVecs
<1>4. good \in SUBSET (1 .. n)
  BY DEF DGood
<1>. HIDE DEF good, vecs, ss, n, cs
<1>5. ASSUME NEW i \in 1 .. n PROVE DColumnRead(cs[i], ss[i], vecs[i])
  <2>1. SupportedVector(cs[i]) => vecs[i] = DVec(cs[i], Len(cs[i].data), 1)
    BY <1>2, <1>3, Zenon
  <2>2. DColumnRead(cs[i], EncodeVector(cs[i]), vecs[i])
    BY <1>1, <2>1, DColumnReads, Zenon
  <2>. QED  BY <1>1, <2>2, Zenon
<1>6. ASSUME NEW i \in 1 .. n PROVE vecs[i] \in Vecs
  <2>1. CASE i \in good
    BY <1>2, <1>5, <2>1, Zenon DEF DColumnRead, Carries
  <2>2. CASE i \notin good
    <3>1. Nothing(0) \in Vecs
      BY NothingType
    <3>. QED  BY <1>3, <2>2, <3>1, Zenon
  <2>. QED  BY <2>1, <2>2
<1>7. vecs \in Seq(Vecs) /\ Len(vecs) = n /\ DOMAIN vecs = 1 .. n
  <2>1. DOMAIN vecs = 1 .. n /\ vecs \in [1 .. n -> Vecs]
    <3>1. DOMAIN vecs = 1 .. n
      BY <1>3, Zenon
    <3>2. vecs = [i \in 1 .. n |-> vecs[i]]
      BY <1>3, Zenon
    <3>. QED  BY <1>6, <3>1, <3>2, Zenon
  <2>. QED  BY <1>1, <2>1, AsSequence, Zenon
<1>8. WireColumns(ss, vecs, good)
  <2>1. \A i \in 1 .. Len(ss) : IF i \in good THEN Carries(ss[i], vecs[i]) ELSE Stops(ss[i])
    BY <1>1, <1>2, <1>5 DEF DColumnRead
  <2>. QED  BY <1>1, <1>7, <2>1, Zenon DEF WireColumns
<1>9. vecs # <<>>
  <2>1. n # 0
    <3>1. o.columns \in Seq(DVectors)
      BY DEntityType
    <3>. QED  BY <3>1 DEF n
  <2>. QED  BY <1>7, <2>1
<1>. QED  BY <1>1, <1>4, <1>7, <1>8, <1>9 DEF good, vecs, ss, n, cs

LEMMA TableArrives ==
  ASSUME NEW o \in DEntities, o.form = DF_TABLE, SupportedEntity(o)
  PROVE  \E e : ArrivesAs(o, e)
<1>. DEFINE cs == o.columns
            n == Len(o.columns)
            ss == DColumns(o)
            vecs == DVecs(o)
            names == DNames(o)
            rows == Len(o.columns[1].data)
            t == DT_DICTIONARY
            e == TableEntity(t, names, vecs)
            want == [i \in DOMAIN cs |-> Expected(cs[i])]
            V == VectorObjects \cup FactorObjects
<1>1. cs # <<>> /\ o.v.t = t
  BY DForms
<1>2. /\ rows \in Int /\ names \in Seq(Int) /\ Len(names) = n /\ Len(ss) = n
      /\ DOMAIN cs = 1 .. n /\ n \in Nat /\ \A i \in 1 .. n : names[i] = i /\ cs[i] \in DVectors
  BY <1>1, DTableType
<1>3. \A i \in 1 .. n : SupportedVector(cs[i])
  BY <1>2, FormsDiffer DEF SupportedEntity
<1>4. DGood(o) = 1 .. n
  BY <1>3 DEF DGood
<1>5. /\ WireColumns(ss, vecs, 1 .. Len(ss)) /\ vecs \in Seq(Vecs) /\ vecs # <<>> /\ DOMAIN vecs = 1 .. n
  BY <1>1, <1>2, <1>4, DWireColumns
<1>6. \A i \in 1 .. n : vecs[i] = DVec(cs[i], Len(cs[i].data), 1)
  BY <1>2, <1>4 DEF DVecs
<1>7. t \in 0 .. 255 /\ t \in Int /\ t # DT_ANY /\ t # DT_VOID
  BY DEF DT_DICTIONARY, DT_ANY, DT_VOID
<1>8. EncodeEntity(o) = <<Flag(DF_TABLE, t)>> \o TableParts(rows, names, ss)
  <2>1. EncodeEntity(o) = <<Flag(o.form, o.v.t)>> \o DRest(o)
    BY Encoded, Zenon
  <2>2. DRest(o) = TableParts(rows, names, ss)
    BY FormsDiffer DEF DRest
  <2>. QED  BY <1>1, <2>1, <2>2, Zenon
<1>9. ExpectedEntity(o) = RTable([i \in DOMAIN cs |-> i], [i \in DOMAIN cs |-> Expected(cs[i])])
  <2>. HIDE DEF t
  <2>. QED  BY <1>1, <1>7, FormsDiffer DEF ExpectedEntity
<1>. HIDE DEF cs, n, ss, vecs, names, rows, t
<1>10. CarriesEntity(EncodeEntity(o), e)
  <2>1. Len(names) = Len(ss)
    BY <1>2
  <2>2. CarriesEntity(<<Flag(DF_TABLE, t)>> \o TableParts(rows, names, ss), e)
    BY <1>2, <1>5, <1>7, <2>1, TableCarried, Zenon
  <2>. QED  BY <1>8, <2>2, Zenon
<1>11. e.type = t
  BY <1>2, <1>5, <1>7, TableEntityType
<1>12. ASSUME NEW i \in 1 .. n
       PROVE  vecs[i].t \in KnownTypes /\ Column(vecs[i]) = Expected(cs[i]) /\ Expected(cs[i]) \in V
              /\ SameVector(Expected(cs[i]), Expected(cs[i]))
  <2>1. vecs[i].t = cs[i].t
    BY <1>2, <1>6, DVecFields
  <2>2. vecs[i].t \in KnownTypes
    BY <1>3, <2>1 DEF SupportedVector, KnownTypes
  <2>3. Column(vecs[i]) = Expected(cs[i]) /\ Expected(cs[i]) \in V /\ SameVector(Expected(cs[i]), Expected(cs[i]))
    <3>1. cs[i] \in DVectors /\ SupportedVector(cs[i]) /\ vecs[i] = DVec(cs[i], Len(cs[i].data), 1)
      BY <1>2, <1>3, <1>6
    <3>2. Column(DVec(cs[i], Len(cs[i].data), 1)) = Expected(cs[i])
      BY <3>1, DColumn
    <3>3. Expected(cs[i]) \in VectorObjects \cup FactorObjects /\ SameVector(Expected(cs[i]), Expected(cs[i]))
      BY <3>1, DColumn
    <3>. QED  BY <3>1, <3>2, <3>3
  <2>. QED  BY <2>2, <2>3
<1>13. ASSUME NEW l PROVE GetEntity(e, l) = RTable(names, Framed(vecs, l))
  <2>1. e = TableEntity(t, names, vecs) /\ (\A i \in DOMAIN vecs : vecs[i].t \in KnownTypes)
    BY <1>5, <1>12
  <2>. HIDE DEF e
  <2>2. t \in Int /\ names \in Seq(Int) /\ vecs \in Seq(Vecs) /\ vecs # <<>>
    BY <1>2, <1>5, <1>7
  <2>3. GetsTable(e, l, names, vecs)
    BY <2>1, <2>2, TableGot, Zenon
  <2>. QED  BY <2>1, <2>2, <2>3, Zenon DEF GetsTable
<1>14. DOMAIN want = 1 .. n /\ Len(want) = n /\ Len(vecs) = n
  <2>1. DOMAIN want = 1 .. n
    BY <1>2, Zenon
  <2>. HIDE DEF want
  <2>. QED  BY <1>2, <1>5, <2>1, LenDomain
<1>15. names = [i \in DOMAIN cs |-> i] /\ names \in Seq(RValue)
  <2>1. names = [i \in DOMAIN cs |-> i]
    BY Zenon DEF names, DNames, cs
  <2>2. \A i \in 1 .. n : i \in RValue
    BY <1>2 DEF RValue
  <2>3. names \in [1 .. n -> RValue]
    BY <1>2, <2>1, <2>2, Zenon
  <2>. QED  BY <1>2, <2>1, <2>3, AsSequence, Zenon
<1>16. ExpectedEntity(o) = RTable(names, want)
  BY <1>9, <1>15, Zenon
<1>. HIDE DEF e
<1>17. ASSUME NEW l \in BOOLEAN
       PROVE  RTable(names, Framed(vecs, l)) \in TableObjects /\ Same(RTable(names, want), RTable(names, Framed(vecs, l)), l)
  <2>. DEFINE kept == StringsKept(n, l)
              back == Framed(vecs, l)
  <2>1. kept \in BOOLEAN
    BY KeptType, Zenon
  <2>2. back = [i \in 1 .. n |-> FrameColumn(vecs[i], kept)]
    BY <1>5, <1>14, Zenon DEF Framed
  <2>3. kept = (~ StringsAsFactors \/ (n > 1 /\ ~ l))
    BY <1>2, <2>1 DEF StringsKept
  <2>. HIDE DEF kept
  <2>4. ASSUME NEW i \in 1 .. n
        PROVE  FrameColumn(vecs[i], kept) \in V /\ SameColumn(Expected(cs[i]), FrameColumn(vecs[i], kept), kept)
    <3>. DEFINE vec == vecs[i]
                a == Expected(cs[i])
    <3>1. vec.t \in Plain \cup {DT_SYMBASE} /\ Column(vec) = a /\ a \in VectorObjects \cup FactorObjects /\ SameVector(a, a)
      BY <1>12, Zenon DEF KnownTypes, V
    <3>. HIDE DEF vec, a
    <3>. QED  BY <2>1, <3>1, FrameColumnSame, Zenon DEF V, vec, a
  <2>5. back \in Seq(V) /\ Len(back) = n /\ DOMAIN back = 1 .. n
    <3>1. back \in [1 .. n -> V]
      BY <2>2, <2>4, Zenon
    <3>. HIDE DEF back
    <3>. QED  BY <1>2, <3>1, AsSequence, Zenon
  <2>6. \A i \in 1 .. n : SameColumn(want[i], back[i], kept)
    BY <1>2, <2>2, <2>4, Zenon
  <2>. DEFINE a == RTable(names, want)
              b == RTable(names, back)
  <2>. HIDE DEF want, back
  <2>7. a.kind = "table" /\ b.kind = "table" /\ a.names = b.names /\ a.columns = want /\ b.columns = back
    BY DEF RTable
  <2>8. b \in TableObjects
    <3>1. back # <<>>
      BY <1>5, <1>14, <2>5
    <3>. QED  BY <1>2, <1>15, <2>5, <3>1 DEF RTable, TableObjects, V
  <2>. HIDE DEF a, b
  <2>9. Same(a, b, l)
    BY <1>14, <2>3, <2>5, <2>6, <2>7, Zenon DEF Same
  <2>. QED  BY <2>8, <2>9 DEF a, b, back
<1>18. ArrivesAs(o, e)
  <2>1. \A l \in BOOLEAN : /\ GetEntity(e, l) \in TableObjects /\ GetEntity(e, l).kind = "table"
                           /\ Same(ExpectedEntity(o), GetEntity(e, l), l)
    <3>1. \A l \in BOOLEAN : GetEntity(e, l) \in TableObjects /\ Same(ExpectedEntity(o), GetEntity(e, l), l)
      BY <1>13, <1>16, <1>17, Zenon
    <3>2. \A r \in TableObjects : r.kind = "table"
      BY DEF TableObjects
    <3>. QED  BY <3>1, <3>2, Zenon
  <2>2. \A l \in BOOLEAN : GetEntity(e, l) \in AllRObjects
    BY <2>1, Zenon DEF AllRObjects
  <2>3. "table" \notin {"NULL", "error"} /\ TRUE \in BOOLEAN /\ FALSE \in BOOLEAN
    OBVIOUS
  <2>. QED  BY <1>7, <1>10, <1>11, <2>1, <2>2, <2>3, Zenon DEF ArrivesAs
<1>. QED  BY <1>18

\* What is supported is read whole, on its own and in a list.
LEMMA EntityArrives ==
  ASSUME NEW o \in DEntities, SupportedEntity(o) PROVE \E e : ArrivesAs(o, e)
<1>1. o.form \in {DF_SCALAR, DF_VECTOR, DF_PAIR, DF_SET, DF_MATRIX, DF_TABLE}
  BY DEntityType, Zenon
<1>. QED  BY <1>1, VectorArrives, ScalarArrives, MatrixArrives, TableArrives

-----------------------------------------------------------------------------
(* What R gets of an object that is not supported: NA, NULL or an error.   *)

LEMMA ByteInt == ASSUME NEW t \in 0 .. 255 PROVE t \in Int
OBVIOUS

LEMMA ByteOf == ASSUME NEW a \in Int, NEW k \in Int, NEW r \in 0 .. 255, a = k * 256 + r PROVE a % 256 = r
OBVIOUS

Leads(s, x) == s[1] = x /\ 1 \in DOMAIN s

LEMMA PairFirst ==
  ASSUME NEW S, NEW x \in S, NEW y \in S, NEW r \in Seq(S) PROVE Leads(<<x, y>> \o r, x)
BY DEF Leads

IsEntityAt(in, p, o, e) ==
  /\ EntityAt(in, p) = Entity(in, p + 1, o.form, o.v.t) /\ EntityAt(in, p).e = e
  /\ e.form = o.form /\ e.type = o.v.t /\ e \in Ents /\ Holds(in, p + 1, DRest(o)) /\ p + 1 \in Nat

LEMMA EncodedAt ==
  ASSUME NEW o \in DEntities, NEW in \in Seq(Wire), NEW p \in Nat, Holds(in, p, EncodeEntity(o)),
         NEW e, e = EntityAt(in, p).e
  PROVE  IsEntityAt(in, p, o, e)
<1>1. o.form \in 0 .. 6 /\ o.v.t \in 0 .. 255
  BY DEntityType
<1>2. EncodeEntity(o) = <<Flag(o.form, o.v.t)>> \o DRest(o) /\ DRest(o) \in Seq(Wire)
  BY Encoded, Zenon
<1>3. /\ FormOf(At(in, p, "short")) = o.form /\ TypeOf(At(in, p, "short")) = o.v.t
      /\ Holds(in, p + 1, DRest(o))
  <2>1. Holds(in, p, <<Flag(o.form, o.v.t)>> \o DRest(o))
    BY <1>2, Zenon
  <2>. QED  BY <1>1, <1>2, <2>1, HoldsFlag, Zenon
<1>4. EntityAt(in, p) = Entity(in, p + 1, o.form, o.v.t)
  BY <1>3, Zenon DEF EntityAt
<1>5. p + 1 \in Nat /\ o.form \in Int /\ o.v.t \in Int
  <2>1. p + 1 \in Nat /\ \A i \in 0 .. 6 : i \in Int
    OBVIOUS
  <2>. QED  BY <1>1, <2>1, ByteInt, Zenon
<1>6. /\ Entity(in, p + 1, o.form, o.v.t).e.form = o.form
      /\ Entity(in, p + 1, o.form, o.v.t).e.type = o.v.t
  BY <1>5, EntityIs, Zenon
<1>7. e \in Ents
  BY EntityAtType, Zenon
<1>. QED  BY <1>3, <1>4, <1>5, <1>6, <1>7, Zenon DEF IsEntityAt

\* What can be sent on its own; of type ANY there are only lists.
Alone == {o \in DEntities : o.v.t # DT_ANY}

Gotten(e) == e.type # DT_ANY /\ GetEntity(e, FALSE) \in AllRObjects \cup {RNull, RError}

GotNA(e) == GetEntity(e, FALSE) = RNA

LEMMA VoidGot == ASSUME NEW e, ReturnRType(e.form, e.type)[1] \in {"void", "list"} PROVE GotNA(e)
BY DEF GetEntity, GotNA

\* A type that is not known, in any form but a table.
LEMMA UnknownGotten ==
  ASSUME NEW o \in Alone, o.form # DF_TABLE, o.v.t \notin KnownTypes \/ (o.form = DF_SCALAR /\ o.v.t = DT_SYMBASE),
         NEW e, e.form = o.form, e.type = o.v.t
  PROVE  Gotten(e)
<1>1. o.form \in {DF_SCALAR, DF_VECTOR, DF_PAIR, DF_SET, DF_MATRIX} /\ o.v.t # DT_ANY
  BY DEntityType DEF Alone
<1>2. ReturnRType(e.form, e.type) = <<"void", "">>
  BY <1>1, RTypes
<1>3. ReturnRType(e.form, e.type)[1] \in {"void", "list"}
  <2>1. <<"void", "">>[1] = "void"
    OBVIOUS
  <2>. QED  BY <1>2, <2>1, Zenon
<1>4. GetEntity(e, FALSE) = RNA
  <2>1. GotNA(e)
    BY <1>3, VoidGot
  <2>. QED  BY <2>1, Zenon DEF GotNA
<1>. HIDE DEF RNA
<1>. QED  BY <1>1, <1>4, RNAType DEF Gotten, AllRObjects

\* The lable of the rows, which comes first, has the type it was written with.
LEMMA RowLableRead ==
  ASSUME NEW lable \in DVectors, NEW in \in Seq(Wire), NEW q \in Nat, Holds(in, q, DLables(lable)),
         NEW read, read = LableAt(in, q, DBit(lable))
  PROVE  /\ read.vec.t = lable.t
         /\ ReadableLable(lable) => read = [p |-> q + Len(DLables(lable)), vec |-> LVec(lable)]
         /\ ~ ReadableLable(lable) => read = [p |-> q + 1, vec |-> Nothing(lable.t)]
<1>1. CASE ReadableLable(lable)
  <2>1. CarriesLable(DBit(lable), DLables(lable), LVec(lable))
    BY <1>1, DLableCarried, Zenon DEF CarriesDLable
  <2>2. ReadsLable(in, q, DBit(lable), DLables(lable), LVec(lable))
    BY <2>1, LableReads, Zenon
  <2>3. read = [p |-> q + Len(DLables(lable)), vec |-> LVec(lable)]
    BY <2>2, Zenon DEF ReadsLable
  <2>4. LVec(lable).t = lable.t
    <3>1. Nothing(DT_VOID).t = DT_VOID
      BY DEF Nothing, Vec
    <3>2. DVec(lable, Len(lable.data), 1).t = lable.t
      BY DVecFields
    <3>. QED  BY <3>1, <3>2 DEF LVec
  <2>. HIDE DEF LVec
  <2>. QED  BY <1>1, <2>3, <2>4
<1>2. CASE ~ ReadableLable(lable)
  <2>1. lable.t # DT_VOID /\ lable.t \notin Plain \cup {DT_SYMBASE} /\ lable.t \in 0 .. 255
    BY <1>2, DVectorType DEF ReadableLable, SupportedVector
  <2>2. DBit(lable) = 1 /\ DLables(lable) = EncodeVector(lable)
    BY <2>1 DEF DBit, DLables
  <2>. DEFINE b == Body(lable, <<Len(lable.data), 1>>)
  <2>3. EncodeVector(lable) = <<Flag(DF_VECTOR, lable.t)>> \o b /\ b \in Seq(Wire)
    BY EncodedVectorType, Zenon DEF EncodeVector
  <2>. HIDE DEF b
  <2>4. StopsAt(in, q, lable.t)
    BY <2>1, <2>2, <2>3, FormCodes, DVectorStops, Zenon
  <2>5. read = FlaggedVector(in, q)
    BY <2>2 DEF LableAt
  <2>6. read = [p |-> q + 1, vec |-> Nothing(lable.t)]
    BY <2>4, <2>5, Zenon DEF StopsAt
  <2>7. Nothing(lable.t).t = lable.t
    BY DEF Nothing, Vec
  <2>. HIDE DEF Nothing
  <2>. QED  BY <1>2, <2>6, <2>7
<1>. QED  BY <1>1, <1>2

\* Behind a lable that is not read, its number of rows is taken for a flag.
LEMMA NoFlag ==
  ASSUME NEW lable \in DVectors, ~ ReadableLable(lable), NEW in \in Seq(Wire), NEW q \in Nat,
         Holds(in, q, DLables(lable)), NEW read, read = FlaggedVector(in, q + 1)
  PROVE  read.vec = Nothing(253)
<1>. DEFINE b == Body(lable, <<Len(lable.data), 1>>)
            f == Flag(DF_VECTOR, lable.t)
            n == Len(lable.data)
<1>1. lable.t # DT_VOID
  BY DEF ReadableLable
<1>2. DLables(lable) = <<f>> \o b /\ b \in Seq(Wire) /\ f \in Wire
  <2>1. b \in Seq(Wire) /\ f \in Wire
    BY EncodedVectorType, Zenon
  <2>2. DLables(lable) = EncodeVector(lable)
    BY <1>1 DEF DLables
  <2>. QED  BY <2>1, <2>2, Zenon DEF EncodeVector
<1>3. Holds(in, q + 1, b)
  <2>. HIDE DEF f, b
  <2>1. HoldsFirst(in, q, f, b)
    BY <1>2, HoldsConcat, Zenon
  <2>. QED  BY <2>1, Zenon DEF HoldsFirst
<1>4. b[1] = Item("int", n) /\ 1 \in DOMAIN b
  <2>1. b = <<Item("int", n), Item("int", 1)>> \o BodyRest(lable)
    <3>1. Body(lable, <<n, 1>>) = <<Item("int", <<n, 1>>[1]), Item("int", <<n, 1>>[2])>> \o BodyRest(lable)
      BY BodyIs, Zenon
    <3>2. <<n, 1>>[1] = n /\ <<n, 1>>[2] = 1
      OBVIOUS
    <3>. QED  BY <3>1, <3>2, Zenon
  <2>2. BodyRest(lable) \in Seq(Wire)
    BY BodyRestType, Zenon
  <2>3. Item("int", n) \in Wire /\ Item("int", 1) \in Wire
    <3>1. lable.data \in Seq(Int)
      BY DVectorType, Zenon
    <3>2. n \in Int /\ 1 \in Int /\ "int" \in Words
      BY <3>1 DEF Words
    <3>. QED  BY <3>2, ItemType, Zenon
  <2>4. Leads(<<Item("int", n), Item("int", 1)>> \o BodyRest(lable), Item("int", n))
    BY <2>2, <2>3, PairFirst, Zenon
  <2>. QED  BY <2>1, <2>4, Zenon DEF Leads
<1>. HIDE DEF b, n
<1>5. (q + 1) + 1 - 1 = q + 1
  OBVIOUS
<1>6. in[q + 1] = Item("int", n)
  BY <1>3, <1>4, <1>5 DEF Holds
<1>7. At(in, q + 1, "short") = Bad
  BY <1>6 DEF At, Item
<1>8. TypeOf(Bad) = 253
  <2>1. Bad \in Int /\ (0 - 1) \in Int /\ 253 \in 0 .. 255 /\ Bad = (0 - 1) * 256 + 253
    BY DEF Bad
  <2>. QED  BY <2>1, ByteOf, Zenon DEF TypeOf
<1>9. 253 \notin Plain /\ 253 # DT_SYMBASE
  BY DEF Plain, DT_SYMBASE
<1>10. CreateVector(in, (q + 1) + 1, 253).vec = Nothing(253)
  <2>. HIDE DEF Nothing
  <2>. QED  BY <1>9 DEF CreateVector
<1>. QED  BY <1>7, <1>8, <1>10, Zenon DEF FlaggedVector

LEMMA MatrixGotten ==
  ASSUME NEW o \in DEntities, o.form = DF_MATRIX, SupportedVector(o.v),
         NEW in \in Seq(Wire), NEW p \in Nat, Holds(in, p, EncodeEntity(o))
  PROVE  Gotten(EntityAt(in, p).e)
<1>. DEFINE t == o.v.t
            e == EntityAt(in, p).e
            class == MatrixClassOf(t)
            b1 == DBit(o.row)
            b2 == DBit(o.clm)
            s1 == DLables(o.row)
            s2 == DLables(o.clm)
            s3 == <<Flag(DF_MATRIX, t)>> \o Body(o.v, o.dim)
            q == p + 1
            q1 == q + 1
            q2 == q1 + Len(s1)
            x1 == LableAt(in, q1, b1)
            x2 == LableAt(in, x1.p, b2)
            x3 == FlaggedVector(in, x2.p)
<1>1. /\ o.v \in DVectors /\ o.row \in DVectors /\ o.clm \in DVectors /\ t \in 0 .. 255
      /\ o.dim \in Nat \X Nat
  <2>1. o.dim \in Nat \X Nat
    BY DEF DEntities
  <2>. QED  BY <2>1, DEntityType
<1>2. t \in KnownTypes /\ t # DT_ANY
  <2>1. t \in KnownTypes
    BY Zenon DEF SupportedVector, KnownTypes
  <2>. QED  BY <2>1, KnownNotAny, Zenon
<1>3. DRest(o) = MatrixParts(b1, b2, s1, s2, s3)
  BY FormsDiffer DEF DRest
<1>4. /\ EntityAt(in, p) = Entity(in, q, DF_MATRIX, t) /\ e.type = t /\ e \in Ents
      /\ Holds(in, q, MatrixParts(b1, b2, s1, s2, s3)) /\ q \in Nat
  <2>1. IsEntityAt(in, p, o, e)
    BY EncodedAt, Zenon
  <2>. QED  BY <1>3, <2>1, Zenon DEF IsEntityAt
<1>5. b1 \in {0, 1} /\ b2 \in {0, 1} /\ s1 \in Seq(Wire) /\ s2 \in Seq(Wire)
  BY <1>1, DLablesType, Zenon DEF LableOnWire
<1>6. s3 \in Seq(Wire)
  <2>1. Body(o.v, o.dim) \in Seq(Wire)
    BY <1>1, FormCodes, EncodedVectorType, Zenon
  <2>. QED  BY <1>1, <2>1, FormCodes, FlagConcat, Zenon
<1>. HIDE DEF t, e, b1, b2, s1, s2, s3, q
<1>7. At(in, q, "char") = b1 + 2 * b2 /\ Holds(in, q1, s1) /\ Holds(in, q2, s2)
  <2>1. ReadsParts(in, q, b1, b2, s1, s2, s3)
    BY <1>4, <1>5, <1>6, HoldsParts, Zenon
  <2>. QED  BY <2>1, Zenon DEF ReadsParts
<1>8. q1 \in Nat /\ q2 \in Nat
  BY <1>4, <1>5
<1>. HIDE DEF q1, q2
<1>9. x1 \in ReadVecs
  BY <1>8, LableAtType, Zenon
<1>10. x1.p \in Nat /\ x1.vec \in Vecs
  <2>. HIDE DEF x1
  <2>. QED  BY <1>9 DEF ReadVecs
<1>. HIDE DEF x1
<1>11. x2 \in ReadVecs
  BY <1>10, LableAtType, Zenon
<1>12. x2.p \in Nat /\ x2.vec \in Vecs
  <2>. HIDE DEF x2
  <2>. QED  BY <1>11 DEF ReadVecs
<1>. HIDE DEF x2
<1>13. x3 \in ReadVecs
  BY <1>12, FlaggedType, Zenon
<1>14. x3.vec \in Vecs
  <2>. HIDE DEF x3
  <2>. QED  BY <1>13 DEF ReadVecs
<1>15. Matrixx(in, q) = [p |-> x3.p, row |-> x1.vec, clm |-> x2.vec, mtx |-> x3.vec]
  <2>1. x1 = LableAt(in, q + 1, b1) /\ x2 = LableAt(in, x1.p, b2) /\ x3 = FlaggedVector(in, x2.p)
    BY Zenon DEF x1, x2, q1
  <2>. HIDE DEF x3
  <2>2. MatrixxReads(in, q, x1, x2, x3)
    BY <1>5, <1>7, <2>1, MatrixxIs, Zenon
  <2>. QED  BY <2>2, Zenon DEF MatrixxReads
<1>. HIDE DEF x3
<1>16. e = MatrixEntity(t, x3.vec, x1.vec, x2.vec)
  <2>1. Entity(in, q, DF_MATRIX, t) =
          [p |-> Matrixx(in, q).p, e |-> MatrixEntity(t, Matrixx(in, q).mtx, Matrixx(in, q).row, Matrixx(in, q).clm)]
    BY EntityCases
  <2>2. EntityAt(in, p) = [p |-> x3.p, e |-> MatrixEntity(t, x3.vec, x1.vec, x2.vec)]
    BY <1>4, <1>15, <2>1
  <2>. QED  BY <2>2 DEF e
<1>17. e.vec = x3.vec /\ e.row = x1.vec /\ e.clm = x2.vec
  <2>1. t \in Int
    BY <1>1, ByteInt, Zenon
  <2>2. IsMatrix(MatrixEntity(t, x3.vec, x1.vec, x2.vec), t, x3.vec, x1.vec, x2.vec)
    BY <1>10, <1>12, <1>14, <2>1, MatrixEntityIs, Zenon
  <2>. QED  BY <1>16, <2>2, Zenon DEF IsMatrix
<1>18. GetEntity(e, FALSE) = MatrixOf(e, class, WithNA(x3.vec))
  <2>1. GetsMatrix(e, class, x3.vec)
    BY <1>2, <1>10, <1>12, <1>14, <1>16, MatrixGot, Zenon
  <2>. QED  BY <2>1, Zenon DEF GetsMatrix
<1>19. class \in DOMAIN UploadType
  BY <1>2, MatrixClassOfType, Zenon
<1>. HIDE DEF class
<1>20. ASSUME x1.vec \in GoodVecs, x2.vec \in GoodVecs, x3.vec \in GoodVecs PROVE Gotten(e)
  <2>1. WithNA(x3.vec) \in Seq(RValue) /\ Len(WithNA(x3.vec)) = x3.vec.row * x3.vec.clm
    BY <1>20, Zenon DEF GoodVecs
  <2>2. MatrixOf(e, class, WithNA(x3.vec)) \in MatrixObjects \cup {RError}
    <3>. DEFINE data == WithNA(x3.vec)
    <3>1. e \in Ents /\ e.vec \in GoodVecs /\ e.row \in GoodVecs /\ e.clm \in GoodVecs
          /\ data \in Seq(RValue) /\ Len(data) = e.vec.row * e.vec.clm
      BY <1>4, <1>17, <1>20, <2>1
    <3>. HIDE DEF data
    <3>2. MatrixOf(e, class, data) \in MatrixObjects \cup {RError}
      BY <1>19, <3>1, MatrixOfType
    <3>. QED  BY <3>2 DEF data
  <2>. HIDE DEF RError
  <2>. QED  BY <1>2, <1>4, <1>18, <2>2 DEF Gotten, AllRObjects
<1>21. /\ x1.vec.t = o.row.t
       /\ ReadableLable(o.row) => x1 = [p |-> q2, vec |-> LVec(o.row)]
  <2>1. /\ x1.vec.t = o.row.t
        /\ ReadableLable(o.row) => x1 = [p |-> q1 + Len(s1), vec |-> LVec(o.row)]
    <3>1. x1 = LableAt(in, q1, DBit(o.row)) /\ Holds(in, q1, DLables(o.row))
      BY <1>7, Zenon DEF x1, b1, s1
    <3>2. /\ x1.vec.t = o.row.t
          /\ ReadableLable(o.row) => x1 = [p |-> q1 + Len(DLables(o.row)), vec |-> LVec(o.row)]
      BY <1>1, <1>8, <3>1, RowLableRead
    <3>. QED  BY <3>2 DEF s1
  <2>. QED  BY <2>1 DEF q2
<1>22. CASE ~ ReadableLable(o.row)
  <2>1. ~ LableOk(x1.vec)
    <3>1. o.row.t # DT_VOID /\ LableClass(o.row) \notin LableClasses
      <4>1. o.row.t # DT_VOID /\ o.row.t \notin Plain
        BY <1>22, Zenon DEF ReadableLable, SupportedVector
      <4>. QED  BY <4>1, KnownLable, Zenon
    <3>2. LableClass(x1.vec) = LableClass(o.row)
      BY <1>21, Zenon DEF LableClass
    <3>. QED  BY <1>21, <3>1, <3>2 DEF LableOk
  <2>2. ~ LableOk(e.row)
    BY <1>17, <2>1
  <2>3. GetEntity(e, FALSE) = RError
    BY <1>18, <2>2, MatrixStops
  <2>. HIDE DEF RError
  <2>4. Gotten(e)
    BY <1>2, <1>4, <2>3 DEF Gotten
  <2>. QED  BY <2>4 DEF e
<1>23. CASE ReadableLable(o.row) /\ ReadableLable(o.clm)
  <2>. DEFINE vec == DVec(o.v, o.dim[1], o.dim[2])
  <2>1. CarriesEntity(EncodeEntity(o), DMatrix(o)) /\ vec \in GoodVecs
    BY <1>23, DMatrixCarried, Zenon
  <2>2. e = DMatrix(o)
    <3>1. EntityAt(in, p) = [p |-> p + Len(EncodeEntity(o)), e |-> DMatrix(o)]
      BY <2>1, Zenon DEF CarriesEntity
    <3>. QED  BY <3>1 DEF e
  <2>3. LVec(o.row) \in GoodVecs /\ LVec(o.clm) \in GoodVecs
    BY <1>1, <1>23, DLableCarried, Zenon DEF CarriesDLable
  <2>4. e.vec = vec /\ e.row = LVec(o.row) /\ e.clm = LVec(o.clm)
    <3>0. vec \in Vecs /\ LVec(o.row) \in Vecs /\ LVec(o.clm) \in Vecs
      BY <2>1, <2>3, Zenon DEF GoodVecs
    <3>1. o.v.t \in Int
      BY <1>1, ByteInt, Zenon DEF t
    <3>2. IsMatrix(MatrixEntity(o.v.t, vec, LVec(o.row), LVec(o.clm)), o.v.t, vec, LVec(o.row), LVec(o.clm))
      BY <3>0, <3>1, MatrixEntityIs, Zenon
    <3>. QED  BY <2>2, <3>2, Zenon DEF IsMatrix, DMatrix
  <2>5. x1.vec \in GoodVecs /\ x2.vec \in GoodVecs /\ x3.vec \in GoodVecs
    BY <1>17, <2>1, <2>3, <2>4, Zenon
  <2>6. Gotten(e)
    BY <1>20, <2>5, Zenon
  <2>. QED  BY <2>6 DEF e
<1>24. CASE ReadableLable(o.row) /\ ~ ReadableLable(o.clm)
  <2>1. x1 = [p |-> q2, vec |-> LVec(o.row)]
    BY <1>21, <1>24
  <2>2. x1.p = q2 /\ x1.vec = LVec(o.row)
    BY <2>1
  <2>3. x2 = [p |-> q2 + 1, vec |-> Nothing(o.clm.t)]
    <3>1. x2 = LableAt(in, q2, DBit(o.clm)) /\ Holds(in, q2, DLables(o.clm))
      BY <1>7, <2>2, Zenon DEF x2, b2, s2
    <3>. HIDE DEF Nothing
    <3>. QED  BY <1>1, <1>8, <1>24, <3>1, RowLableRead
  <2>4. x2.p = q2 + 1 /\ x2.vec = Nothing(o.clm.t)
    <3>. HIDE DEF Nothing
    <3>. QED  BY <2>3
  <2>5. x3.vec = Nothing(253)
    <3>1. x3 = FlaggedVector(in, q2 + 1) /\ Holds(in, q2, DLables(o.clm))
      BY <1>7, <2>4, Zenon DEF x3, s2
    <3>. QED  BY <1>1, <1>8, <1>24, <3>1, NoFlag, Zenon
  <2>6. LVec(o.row) \in GoodVecs
    BY <1>1, <1>24, DLableCarried, Zenon DEF CarriesDLable
  <2>7. Nothing(o.clm.t) \in GoodVecs /\ Nothing(253) \in GoodVecs
    <3>1. o.clm.t \in Int /\ 253 \in Int
      <4>1. o.clm.t \in 0 .. 255
        BY <1>1, DVectorType, Zenon
      <4>2. 253 \in Int
        OBVIOUS
      <4>. QED  BY <4>1, <4>2, ByteInt, Zenon
    <3>. QED  BY <3>1, NothingGood, Zenon
  <2>8. x1.vec \in GoodVecs /\ x2.vec \in GoodVecs /\ x3.vec \in GoodVecs
    BY <2>2, <2>4, <2>5, <2>6, <2>7, Zenon
  <2>9. Gotten(e)
    BY <1>20, <2>8, Zenon
  <2>. QED  BY <2>9 DEF e
<1>. QED  BY <1>22, <1>23, <1>24

LEMMA TableGotten ==
  ASSUME NEW o \in DEntities, o.form = DF_TABLE, ~ SupportedEntity(o),
         NEW in \in Seq(Wire), NEW p \in Nat, Holds(in, p, EncodeEntity(o))
  PROVE  Gotten(EntityAt(in, p).e)
<1>. DEFINE t == o.v.t
            e == EntityAt(in, p).e
            q == p + 1
            n == Len(o.columns)
            rows == Len(o.columns[1].data)
            names == DNames(o)
            ss == DColumns(o)
            vecs == DVecs(o)
            good == DGood(o)
            tbl == Tablee(in, q)
<1>1. o.columns # <<>> /\ t \in Int /\ t # DT_ANY
  <2>1. o.columns # <<>> /\ t \in 0 .. 255 /\ t # DT_ANY
    BY DForms DEF DT_DICTIONARY, DT_ANY
  <2>. QED  BY <2>1, ByteInt, Zenon
<1>2. /\ rows \in Int /\ names \in Seq(Int) /\ Len(names) = n /\ Len(ss) = n
      /\ DOMAIN o.columns = 1 .. n /\ n \in Nat
  BY <1>1, DTableType
<1>3. WireColumns(ss, vecs, good) /\ good \in SUBSET (1 .. Len(ss))
  BY <1>1, DWireColumns
<1>4. good # 1 .. Len(ss)
  <2>1. ~ \A i \in DOMAIN o.columns : SupportedVector(o.columns[i])
    BY FormsDiffer DEF SupportedEntity
  <2>. QED  BY <1>2, <2>1 DEF DGood
<1>5. DRest(o) = TableParts(rows, names, ss)
  BY FormsDiffer DEF DRest
<1>6. EntityAt(in, p) = Entity(in, q, DF_TABLE, t) /\ e.type = t /\ Holds(in, q, TableParts(rows, names, ss)) /\ q \in Nat
  <2>1. IsEntityAt(in, p, o, e)
    BY EncodedAt, Zenon
  <2>. QED  BY <1>5, <2>1, Zenon DEF IsEntityAt
<1>. HIDE DEF t, e, q, n, rows, names, ss, vecs, good
<1>7. PICK j \in DOMAIN tbl.columns : tbl.columns[j].t \notin KnownTypes
  <2>1. Len(names) = Len(ss)
    BY <1>2
  <2>2. ReadsTable(in, q, rows, names, ss, vecs, good)
    BY <1>2, <1>3, <1>6, <2>1, TableReads, Zenon
  <2>. QED  BY <1>4, <2>2, Zenon DEF ReadsTable
<1>8. tbl.columns \in Seq(Vecs) /\ tbl.names \in Seq(Int)
  BY <1>6, TableeType
<1>9. e = TableEntity(t, tbl.names, tbl.columns)
  <2>1. Entity(in, q, DF_TABLE, t) = [p |-> tbl.p, e |-> TableEntity(t, tbl.names, tbl.columns)]
    BY EntityCases
  <2>. QED  BY <1>6, <2>1 DEF e
<1>. HIDE DEF tbl
<1>10. tbl.columns # <<>>
  BY <1>7
<1>11. GetEntity(e, FALSE) = RNull
  <2>1. GetsTable(e, FALSE, tbl.names, tbl.columns)
    BY <1>1, <1>8, <1>9, TableGot, Zenon
  <2>. QED  BY <1>7, <1>10, <2>1, Zenon DEF GetsTable
<1>. HIDE DEF RNull
<1>12. Gotten(e)
  BY <1>1, <1>6, <1>11 DEF Gotten
<1>. QED  BY <1>12 DEF e

LEMMA EntityGotten ==
  ASSUME NEW o \in Alone, NEW in \in Seq(Wire), NEW p \in Nat, Holds(in, p, EncodeEntity(o))
  PROVE  Gotten(EntityAt(in, p).e)
<1>. DEFINE e == EntityAt(in, p).e
<1>0. o \in DEntities
  BY DEF Alone
<1>1. o.form \in {DF_SCALAR, DF_VECTOR, DF_PAIR, DF_SET, DF_MATRIX, DF_TABLE}
  BY <1>0, DEntityType, Zenon
<1>2. e.form = o.form /\ e.type = o.v.t
  <2>1. IsEntityAt(in, p, o, e)
    BY <1>0, EncodedAt, Zenon
  <2>. QED  BY <2>1, Zenon DEF IsEntityAt
<1>3. CASE SupportedEntity(o)
  <2>1. PICK w : ArrivesAs(o, w)
    BY <1>0, <1>3, EntityArrives, Zenon
  <2>2. EntityAt(in, p) = [p |-> p + Len(EncodeEntity(o)), e |-> w]
    BY <2>1, Zenon DEF ArrivesAs, CarriesEntity
  <2>3. e = w
    BY <2>2
  <2>. HIDE DEF e
  <2>. QED  BY <2>1, <2>3 DEF ArrivesAs, Gotten, e
<1>4. CASE ~ SupportedEntity(o) /\ o.form \in {DF_SCALAR, DF_VECTOR, DF_PAIR, DF_SET}
  <2>1. o.v.t \notin KnownTypes \/ (o.form = DF_SCALAR /\ o.v.t = DT_SYMBASE)
    BY <1>4, FormsDiffer DEF SupportedEntity, SupportedVector, KnownTypes
  <2>2. o.form # DF_TABLE
    BY <1>4, FormsDiffer
  <2>. HIDE DEF e
  <2>3. Gotten(e)
    BY <1>2, <2>1, <2>2, UnknownGotten
  <2>. QED  BY <2>3 DEF e
<1>5. CASE o.form = DF_MATRIX
  <2>1. CASE SupportedVector(o.v)
    BY <1>0, <1>5, <2>1, MatrixGotten, Zenon
  <2>2. CASE ~ SupportedVector(o.v)
    <3>1. o.v.t \notin KnownTypes
      BY <2>2, Zenon DEF SupportedVector, KnownTypes
    <3>2. o.form # DF_TABLE
      BY <1>5, FormsDiffer
    <3>. HIDE DEF e
    <3>3. Gotten(e)
      BY <1>2, <3>1, <3>2, UnknownGotten
    <3>. QED  BY <3>3 DEF e
  <2>. QED  BY <2>1, <2>2
<1>6. CASE ~ SupportedEntity(o) /\ o.form = DF_TABLE
  BY <1>0, <1>6, TableGotten, Zenon
<1>. QED  BY <1>1, <1>3, <1>4, <1>5, <1>6

-----------------------------------------------------------------------------
(* What the last call of a fetch makes of a stream: its object, and what   *)
(* is left.                                                                *)

HasType(e, t) == e.type = t

LEMMA EntityHasType ==
  ASSUME NEW in \in Seq(Wire), NEW p \in Nat, NEW form \in Int, NEW t \in Int
  PROVE  HasType(Entity(in, p, form, t).e, t)
BY EntityIs DEF HasType

\* An entity that begins the stream is all that is read, if no list does.
LEMMA ReadsEntity ==
  ASSUME NEW in \in Seq(Wire), EntityAt(in, 1).e.type # DT_ANY
  PROVE  ReadObject(in) = EntityAt(in, 1)
<1>. DEFINE form == FormOf(At(in, 1, "short"))
            t == TypeOf(At(in, 1, "short"))
            q == 2
<1>1. form \in Int /\ t \in Int
  BY FlagAtType, Zenon
<1>2. q \in Nat /\ 1 + 1 = q
  OBVIOUS
<1>3. ReadObject(in) = IF form = DF_VECTOR /\ t = DT_ANY THEN AnyVector(in, q) ELSE Entity(in, q, form, t)
  BY Zenon DEF ReadObject
<1>4. EntityAt(in, 1) = Entity(in, 1 + 1, form, t)
  BY Zenon DEF EntityAt
<1>. HIDE DEF form, t, q
<1>5. HasType(Entity(in, q, form, t).e, t)
  BY <1>1, <1>2, EntityHasType, Zenon
<1>6. t # DT_ANY
  BY <1>2, <1>4, <1>5, Zenon DEF HasType
<1>. QED  BY <1>2, <1>3, <1>4, <1>6, Zenon

\* Only a list has elements.
LEMMA NotAList ==
  ASSUME NEW e, e.type # DT_ANY PROVE GetObject(e) = GetEntity(e, FALSE)
<1>1. ReturnRType(e.form, e.type)[1] # "list"
  BY DEF ReturnRType
<1>. QED  BY <1>1, Zenon DEF GetObject

LEMMA RKinds ==
  ASSUME NEW r \in AllRObjects PROVE r.kind \in {"vector", "factor", "matrix", "table"}
BY DEF AllRObjects, VectorObjects, FactorObjects, MatrixObjects, TableObjects

Drains(in) == ReadObject(in).p = Len(in) + 1
Fetched(in) == GetObject(ReadObject(in).e)

LEMMA EntityFetched ==
  ASSUME NEW in, NEW e, CarriesEntity(in, e), e.type # DT_ANY
  PROVE  Drains(in) /\ Fetched(in) = GetEntity(e, FALSE)
<1>1. in \in Seq(Wire) /\ Len(in) \in Nat
  BY DEF CarriesEntity
<1>2. Holds(in, 1, in)
  BY <1>1, HoldsWhole, Zenon
<1>3. 1 \in Nat /\ 1 + Len(in) = Len(in) + 1
  BY <1>1
<1>4. EntityAt(in, 1) = [p |-> 1 + Len(in), e |-> e]
  BY <1>1, <1>2, <1>3, Zenon DEF CarriesEntity
<1>5. EntityAt(in, 1).p = Len(in) + 1 /\ EntityAt(in, 1).e = e
  BY <1>3, <1>4
<1>6. ReadObject(in) = EntityAt(in, 1)
  BY <1>1, <1>5, ReadsEntity, Zenon
<1>7. GetObject(e) = GetEntity(e, FALSE)
  BY NotAList, Zenon
<1>. QED  BY <1>5, <1>6, <1>7, Zenon DEF Drains, Fetched

\* What an object of R is fetched as.
RFetched(r) ==
  /\ UploadEntity(r) \in Seq(Wire) /\ Drains(UploadEntity(r))
  /\ Fetched(UploadEntity(r)) \in AllRObjects
  /\ ~ HasNACode(r) => Same(Returned(r), Fetched(UploadEntity(r)), FALSE)

LEMMA ObjectFetched == ASSUME NEW r \in AllRObjects, Uploadable(r) PROVE RFetched(r)
<1>1. PICK e : ReturnsAs(r, e)
  BY ObjectReturns, Zenon
<1>2. CarriesEntity(UploadEntity(r), e) /\ e.type # DT_ANY
  BY <1>1, Zenon DEF ReturnsAs
<1>3. Drains(UploadEntity(r)) /\ Fetched(UploadEntity(r)) = GetEntity(e, FALSE)
  BY <1>2, EntityFetched, Zenon
<1>4. UploadEntity(r) \in Seq(Wire)
  BY <1>2, Zenon DEF CarriesEntity
<1>. QED  BY <1>1, <1>3, <1>4, Zenon DEF ReturnsAs, RFetched

\* What an object of DolphinDB is fetched as: Arrives, of any result.
Stopped == {"NULL", "error"}

ArrivesIn(o, x) ==
  IF o.v.t # DT_ANY THEN Same(ExpectedEntity(o), x, FALSE)
  ELSE /\ x.kind = "list" /\ Len(x.elems) = Len(o.elems)
       /\ \A i \in DOMAIN o.elems :
            LostInList(o.elems[i]) \/ Same(ExpectedEntity(o.elems[i]), x.elems[i], TRUE)

DFetched(o) ==
  /\ Encode(o) \in Seq(Wire)
  /\ Fetched(Encode(o)) \in AllRObjects \/ Fetched(Encode(o)).kind \in {"list"} \cup Stopped
  /\ Supported(o) => Drains(Encode(o)) /\ ArrivesIn(o, Fetched(Encode(o)))

LEMMA DEntityFetched == ASSUME NEW o \in Alone PROVE DFetched(o)
<1>. DEFINE in == EncodeEntity(o)
<1>1. o.v.t # DT_ANY /\ o \in DEntities
  BY DEF Alone
<1>2. Encode(o) = in
  BY <1>1, Zenon DEF Encode
<1>3. in \in Seq(Wire)
  <2>1. o.form \in 0 .. 6 /\ o.v.t \in 0 .. 255
    BY <1>1, DEntityType
  <2>2. in = <<Flag(o.form, o.v.t)>> \o DRest(o) /\ DRest(o) \in Seq(Wire)
    BY <1>1, Encoded, Zenon
  <2>. QED  BY <2>1, <2>2, FlagConcat, Zenon
<1>4. Fetched(in) \in AllRObjects \/ Fetched(in).kind \in Stopped
  <2>. DEFINE e == EntityAt(in, 1).e
  <2>1. Holds(in, 1, in) /\ 1 \in Nat
    <3>1. 1 \in Nat
      OBVIOUS
    <3>. QED  BY <1>3, <3>1, HoldsWhole, Zenon
  <2>2. Gotten(e)
    <3>. HIDE DEF in
    <3>1. Holds(in, 1, EncodeEntity(o))
      BY <2>1, Zenon DEF in
    <3>. QED  BY <1>3, <2>1, <3>1, EntityGotten, Zenon
  <2>. HIDE DEF in
  <2>3. ReadObject(in) = EntityAt(in, 1)
    BY <1>3, <2>2, ReadsEntity, Zenon DEF Gotten
  <2>4. GetObject(e) = GetEntity(e, FALSE)
    BY <2>2, NotAList, Zenon DEF Gotten
  <2>5. Fetched(in) = GetEntity(e, FALSE)
    BY <2>3, <2>4, Zenon DEF Fetched
  <2>. HIDE DEF e
  <2>6. GetEntity(e, FALSE) \in AllRObjects \/ GetEntity(e, FALSE) = RNull \/ GetEntity(e, FALSE) = RError
    BY <2>2, Zenon DEF Gotten
  <2>7. RNull.kind \in Stopped /\ RError.kind \in Stopped
    BY DEF RNull, RError, Stopped
  <2>. QED  BY <2>5, <2>6, <2>7, Zenon
<1>5. ASSUME Supported(o) PROVE Drains(in) /\ ArrivesIn(o, Fetched(in))
  <2>1. SupportedEntity(o)
    BY <1>1, <1>5, Zenon DEF Supported
  <2>2. PICK e : ArrivesAs(o, e)
    BY <1>1, <2>1, EntityArrives, Zenon
  <2>3. CarriesEntity(in, e) /\ e.type # DT_ANY /\ Same(ExpectedEntity(o), GetEntity(e, FALSE), FALSE)
    BY <2>2, Zenon DEF ArrivesAs
  <2>. HIDE DEF in
  <2>4. Drains(in) /\ Fetched(in) = GetEntity(e, FALSE)
    BY <2>3, EntityFetched, Zenon
  <2>. QED  BY <1>1, <2>3, <2>4, Zenon DEF ArrivesIn
<1>. HIDE DEF in
<1>. QED  BY <1>2, <1>3, <1>4, <1>5, Zenon DEF DFetched

-----------------------------------------------------------------------------
(* Lists: a vector of type ANY, one entity after the other.                *)

DElems(o) == [i \in DOMAIN o.elems |-> EncodeEntity(o.elems[i])]

LEMMA DListType ==
  ASSUME NEW o \in DLists
  PROVE  /\ o.v.t = DT_ANY /\ Len(o.elems) \in Nat /\ DOMAIN o.elems = 1 .. Len(o.elems)
         /\ \A i \in 1 .. Len(o.elems) : o.elems[i] \in DEntities
<1>1. o.v.t = DT_ANY /\ o.elems \in Seq(DEntities)
  BY DEF DLists
<1>. DEFINE elems == o.elems
<1>2. elems \in Seq(DEntities)
  BY <1>1
<1>. HIDE DEF elems
<1>3. Len(elems) \in Nat /\ DOMAIN elems = 1 .. Len(elems) /\ \A i \in 1 .. Len(elems) : elems[i] \in DEntities
  BY <1>2
<1>. QED  BY <1>1, <1>3 DEF elems

LEMMA EncodedType == ASSUME NEW o \in DEntities PROVE EncodeEntity(o) \in Seq(Wire)
<1>1. o.form \in 0 .. 6 /\ o.v.t \in 0 .. 255
  BY DEntityType
<1>2. EncodeEntity(o) = <<Flag(o.form, o.v.t)>> \o DRest(o) /\ DRest(o) \in Seq(Wire)
  BY Encoded, Zenon
<1>. QED  BY <1>1, <1>2, FlagConcat, Zenon

\* The elements, and the list of them.
ListOf(in, ss, n) == in = Header(DF_VECTOR, DT_ANY, n, 1) \o FlattenSeq(ss)

LEMMA EncodedList ==
  ASSUME NEW o \in DLists
  PROVE  /\ DElems(o) \in Seq(Seq(Wire)) /\ Len(DElems(o)) = Len(o.elems)
         /\ \A i \in 1 .. Len(o.elems) : DElems(o)[i] = EncodeEntity(o.elems[i])
         /\ ListOf(Encode(o), DElems(o), Len(o.elems))
<1>. DEFINE n == Len(o.elems)
<1>1. o.v.t = DT_ANY /\ n \in Nat /\ DOMAIN o.elems = 1 .. n /\ \A i \in 1 .. n : o.elems[i] \in DEntities
  BY DListType, Zenon
<1>2. DElems(o) = [i \in 1 .. n |-> EncodeEntity(o.elems[i])]
  BY <1>1, Zenon DEF DElems
<1>3. \A i \in 1 .. n : EncodeEntity(o.elems[i]) \in Seq(Wire)
  BY <1>1, EncodedType, Zenon
<1>4. ListOf(Encode(o), DElems(o), n)
  <2>1. Encode(o) = <<Flag(DF_VECTOR, DT_ANY), Item("int", n), Item("int", 1)>> \o FlattenSeq(DElems(o))
    BY <1>1, Zenon DEF Encode, DElems
  <2>. QED  BY <2>1, Zenon DEF ListOf, Header
<1>. HIDE DEF n
<1>5. DElems(o) \in [1 .. n -> Seq(Wire)]
  BY <1>2, <1>3, Zenon
<1>6. DElems(o) \in Seq(Seq(Wire)) /\ Len(DElems(o)) = n
  BY <1>1, <1>5, AsSequence, Zenon
<1>7. \A i \in 1 .. n : DElems(o)[i] = EncodeEntity(o.elems[i])
  BY <1>2, Zenon
<1>. QED  BY <1>4, <1>6, <1>7 DEF n

ReadsAny(in) == ReadObject(in) = AnyVector(in, 2)

\* The flag and the number of elements of a list.
LEMMA ListHeader ==
  ASSUME NEW ss \in Seq(Seq(Wire)), NEW in, ListOf(in, ss, Len(ss))
  PROVE  /\ in \in Seq(Wire) /\ Len(in) = 3 + Len(FlattenSeq(ss)) /\ Len(FlattenSeq(ss)) \in Nat
         /\ ReadsAny(in)
         /\ Size(At(in, 2, "int"), At(in, 3, "int")) = Len(ss) /\ Holds(in, 4, FlattenSeq(ss))
<1>. DEFINE n == Len(ss)
            fl == FlattenSeq(ss)
            hd == Header(DF_VECTOR, DT_ANY, n, 1)
<1>1. n \in Nat /\ n \in Int /\ 1 \in Int /\ 1 \in Nat
  OBVIOUS
<1>2. fl \in Seq(Wire) /\ Len(fl) \in Nat
  BY FlattenedType, Zenon
<1>3. DT_ANY \in 0 .. 255 /\ DF_VECTOR \in 0 .. 6
  BY FormCodes DEF DT_ANY
<1>. HIDE DEF n, fl
<1>4. hd \in Seq(Wire) /\ Len(hd) = 3
  BY <1>1, <1>3, HeaderType, Zenon
<1>5. in = hd \o fl
  BY Zenon DEF ListOf, n, fl
<1>6. in \in Seq(Wire) /\ Len(in) = 3 + Len(fl)
  <2>. HIDE DEF hd
  <2>1. hd \o fl \in Seq(Wire) /\ Len(hd \o fl) = Len(hd) + Len(fl)
    BY <1>2, <1>4, WireConcat
  <2>. QED  BY <1>4, <1>5, <2>1, Zenon
<1>7. Holds(in, 1, Header(DF_VECTOR, DT_ANY, n, 1) \o fl)
  <2>1. Holds(in, 1, in)
    BY <1>6, HoldsWhole, Zenon
  <2>. QED  BY <1>5, <2>1, Zenon
<1>8. ReadsHeader(in, 1, DF_VECTOR, DT_ANY, n, 1, fl)
  BY <1>1, <1>2, <1>3, <1>7, HoldsHeader, Zenon
<1>9. 1 + 1 = 2 /\ 1 + 2 = 3 /\ 1 + 3 = 4
  OBVIOUS
<1>10. /\ FormOf(At(in, 1, "short")) = DF_VECTOR /\ TypeOf(At(in, 1, "short")) = DT_ANY
       /\ At(in, 2, "int") = n /\ At(in, 3, "int") = 1 /\ Holds(in, 4, fl)
  BY <1>8, <1>9 DEF ReadsHeader
<1>11. Size(n, 1) = n
  BY <1>1, SizeOne, Zenon
<1>12. ReadsAny(in)
  BY <1>10, Zenon DEF ReadsAny, ReadObject
<1>. QED  BY <1>2, <1>6, <1>10, <1>11, <1>12, Zenon DEF n, fl

\* What has been read of it after i elements.
ReadsTo(read, i, at, w) ==
  read.p = at /\ Len(read.elems) = i /\ \A k \in 1 .. i : read.elems[k] = w[k]

LEMMA NextElementReads ==
  ASSUME NEW in \in Seq(Wire), NEW read \in ReadElems, NEW i \in Nat, NEW at \in Nat, NEW w, NEW s,
         ReadsTo(read, i, at, w), Holds(in, at, s), CarriesEntity(s, w[i + 1])
  PROVE  ReadsTo(NextElement(in, read), i + 1, at + Len(s), w)
<1>1. EntityAt(in, at) = [p |-> at + Len(s), e |-> w[i + 1]]
  BY Zenon DEF CarriesEntity
<1>2. read.p = at
  BY DEF ReadsTo
<1>3. NextElement(in, read) = [p |-> EntityAt(in, at).p, elems |-> Append(read.elems, EntityAt(in, at).e)]
  BY <1>2, Zenon DEF NextElement, EntityAt
<1>4. NextElement(in, read) = [p |-> at + Len(s), elems |-> Append(read.elems, w[i + 1])]
  BY <1>1, <1>3
<1>5. read.elems \in Seq(Ents) /\ w[i + 1] \in Ents
  BY DEF ReadElems, CarriesEntity
<1>. DEFINE elems == read.elems
            more == Append(elems, w[i + 1])
<1>6. elems \in Seq(Ents) /\ Len(elems) = i /\ \A k \in 1 .. i : elems[k] = w[k]
  BY <1>5 DEF ReadsTo
<1>7. Len(more) = i + 1 /\ \A k \in 1 .. i + 1 : more[k] = w[k]
  <2>. HIDE DEF elems
  <2>1. Len(more) = i + 1 /\ more[i + 1] = w[i + 1] /\ \A k \in 1 .. i : more[k] = elems[k]
    BY <1>5, <1>6
  <2>2. \A k \in 1 .. i + 1 : k \in 1 .. i \/ k = i + 1
    OBVIOUS
  <2>. HIDE DEF more
  <2>. QED  BY <1>6, <2>1, <2>2
<1>8. NextElement(in, read).p = at + Len(s) /\ NextElement(in, read).elems = more
  BY <1>4
<1>. HIDE DEF more
<1>. QED  BY <1>7, <1>8, Zenon DEF ReadsTo

IsList(in, elems) == elems \in Seq(Ents) /\ ReadObject(in).e = ListEntity(elems)

\* The loop of AnyVectorr over a list.
RunsOver(in, n, f) ==
  /\ f \in [0 .. n -> ReadElems] /\ f[0] = [p |-> 4, elems |-> <<>>]
  /\ \A i \in 1 .. n : f[i] = NextElement(in, f[i - 1])
  /\ ReadObject(in) = [p |-> f[n].p, e |-> ListEntity(f[n].elems)]

LEMMA ListLoop ==
  ASSUME NEW in \in Seq(Wire), NEW n \in Nat, ReadsAny(in), Size(At(in, 2, "int"), At(in, 3, "int")) = n
  PROVE  \E f : RunsOver(in, n, f)
<1>. DEFINE m == Size(At(in, 2, "int"), At(in, 2 + 1, "int"))
<1>1. m = n
  <2>1. 2 + 1 = 3
    OBVIOUS
  <2>. QED  BY <2>1, Zenon
<1>2. 2 \in Nat /\ 2 + 2 = 4
  OBVIOUS
<1>3. PICK f \in [0 .. m -> ReadElems] :
        /\ f[0] = [p |-> 2 + 2, elems |-> <<>>]
        /\ \A i \in 1 .. m : f[i] = NextElement(in, f[i - 1])
        /\ AnyVector(in, 2) = [p |-> f[m].p, e |-> ListEntity(f[m].elems)]
  BY <1>2, AnyVectorReads, Zenon
<1>. HIDE DEF m
<1>4. RunsOver(in, n, f)
  BY <1>1, <1>2, <1>3, Zenon DEF RunsOver, ReadsAny
<1>. QED  BY <1>4, Zenon

ReadsList(in, n, w) ==
  \E elems \in Seq(Ents) :
    /\ Len(elems) = n /\ \A i \in 1 .. n : elems[i] = w[i]
    /\ IsList(in, elems) /\ ReadObject(in).p = Len(in) + 1

LEMMA ListRead ==
  ASSUME NEW ss \in Seq(Seq(Wire)), NEW in, ListOf(in, ss, Len(ss)),
         NEW w, \A i \in 1 .. Len(ss) : CarriesEntity(ss[i], w[i])
  PROVE  ReadsList(in, Len(ss), w)
<1>. DEFINE n == Len(ss)
            fl == FlattenSeq(ss)
<1>1. n \in Nat /\ 4 \in Nat
  OBVIOUS
<1>2. /\ in \in Seq(Wire) /\ Len(in) = 3 + Len(fl) /\ Len(fl) \in Nat /\ ReadsAny(in)
      /\ Size(At(in, 2, "int"), At(in, 3, "int")) = n /\ Holds(in, 4, fl)
  BY ListHeader, Zenon
<1>3. PICK at \in [0 .. n -> Nat] :
        /\ at[0] = 4 /\ at[n] = 4 + Len(fl)
        /\ \A i \in 1 .. n : at[i] = at[i - 1] + Len(ss[i]) /\ Holds(in, at[i - 1], ss[i])
  BY <1>1, <1>2, HoldsFlattened, Zenon
<1>. HIDE DEF n, fl
<1>4. PICK f : RunsOver(in, n, f)
  BY <1>1, <1>2, ListLoop, Zenon
<1>. DEFINE T == {k \in 0 .. n : ReadsTo(f[k], k, at[k], w)}
<1>5. 0 \in T
  <2>1. f[0] = [p |-> 4, elems |-> <<>>]
    BY <1>4, Zenon DEF RunsOver
  <2>2. f[0].p = 4 /\ f[0].elems = <<>>
    BY <2>1
  <2>3. Len(<<>>) = 0 /\ (\A k \in 1 .. 0 : FALSE) /\ 0 \in 0 .. n
    BY <1>1
  <2>4. ReadsTo(f[0], 0, at[0], w)
    BY <1>3, <2>2, <2>3, Zenon DEF ReadsTo
  <2>. QED  BY <2>3, <2>4, Zenon
<1>6. ASSUME NEW k \in 0 .. n - 1, k \in T PROVE k + 1 \in T
  <2>1. k \in Nat /\ k \in 0 .. n /\ k + 1 \in 1 .. n /\ k + 1 \in 0 .. n /\ (k + 1) - 1 = k
    BY <1>1
  <2>2. f[k] \in ReadElems /\ f[k + 1] = NextElement(in, f[k])
    BY <1>4, <2>1, Zenon DEF RunsOver
  <2>3. at[k] \in Nat /\ at[k + 1] = at[k] + Len(ss[k + 1]) /\ Holds(in, at[k], ss[k + 1])
    BY <1>3, <2>1, Zenon
  <2>4. CarriesEntity(ss[k + 1], w[k + 1])
    BY <2>1, Zenon DEF n
  <2>5. ReadsTo(f[k], k, at[k], w)
    BY <1>6, Zenon
  <2>6. ReadsTo(NextElement(in, f[k]), k + 1, at[k] + Len(ss[k + 1]), w)
    BY <1>2, <2>1, <2>2, <2>3, <2>4, <2>5, NextElementReads, Zenon
  <2>7. ReadsTo(f[k + 1], k + 1, at[k + 1], w)
    BY <2>2, <2>3, <2>6, Zenon
  <2>. QED  BY <2>1, <2>7, Zenon
<1>7. \A k \in 0 .. n : k \in T
  <2>. HIDE DEF T
  <2>. QED  BY <1>1, <1>5, <1>6, Induction
<1>8. ReadsTo(f[n], n, at[n], w) /\ f[n] \in ReadElems
  <2>1. n \in 0 .. n
    BY <1>1
  <2>2. ReadsTo(f[n], n, at[n], w)
    BY <1>7, <2>1, Zenon
  <2>3. f[n] \in ReadElems
    BY <1>4, <2>1, Zenon DEF RunsOver
  <2>. QED  BY <2>2, <2>3, Zenon
<1>. HIDE DEF T
<1>9. ReadObject(in) = [p |-> f[n].p, e |-> ListEntity(f[n].elems)]
  BY <1>4, Zenon DEF RunsOver
<1>10. ReadObject(in).p = Len(in) + 1 /\ ReadObject(in).e = ListEntity(f[n].elems)
  <2>1. f[n].p = 4 + Len(fl)
    BY <1>3, <1>8, Zenon DEF ReadsTo
  <2>2. 4 + Len(fl) = Len(in) + 1
    BY <1>2 DEF fl
  <2>. QED  BY <1>9, <2>1, <2>2
<1>11. f[n].elems \in Seq(Ents)
  BY <1>8 DEF ReadElems
<1>12. Len(f[n].elems) = n /\ \A i \in 1 .. n : f[n].elems[i] = w[i]
  BY <1>8, Zenon DEF ReadsTo
<1>13. ReadsList(in, n, w)
  BY <1>10, <1>11, <1>12, Zenon DEF ReadsList, IsList
<1>. QED  BY <1>13 DEF n

\* A list, supported or not, is a list of entities.
LEMMA ListEntities ==
  ASSUME NEW ss \in Seq(Seq(Wire)), NEW in, ListOf(in, ss, Len(ss)) PROVE \E elems : IsList(in, elems)
<1>. DEFINE n == Len(ss)
<1>1. n \in Nat /\ n \in 0 .. n
  OBVIOUS
<1>2. in \in Seq(Wire) /\ ReadsAny(in) /\ Size(At(in, 2, "int"), At(in, 3, "int")) = n
  BY ListHeader, Zenon
<1>. HIDE DEF n
<1>3. PICK f : RunsOver(in, n, f)
  BY <1>1, <1>2, ListLoop, Zenon
<1>4. f[n] \in ReadElems /\ ReadObject(in) = [p |-> f[n].p, e |-> ListEntity(f[n].elems)]
  BY <1>1, <1>3, Zenon DEF RunsOver
<1>5. f[n].elems \in Seq(Ents) /\ ReadObject(in).e = ListEntity(f[n].elems)
  BY <1>4 DEF ReadElems
<1>. QED  BY <1>5, Zenon DEF IsList

Parts(elems) == [i \in DOMAIN elems |-> GetEntity(elems[i], TRUE)]

Assembled(elems) ==
  LET failed == {i \in DOMAIN Parts(elems) : Parts(elems)[i].kind \in {"NULL", "error"}}
  IN  IF failed = {} THEN RList(Parts(elems)) ELSE Parts(elems)[Min(failed)]

GotList(elems, x) ==
  /\ x.kind \in {"list"} \cup Stopped
  /\ (\A i \in DOMAIN elems : GetEntity(elems[i], TRUE).kind \notin Stopped) => x = RList(Parts(elems))

LEMMA ListGot == ASSUME NEW elems \in Seq(Ents) PROVE GotList(elems, GetObject(ListEntity(elems)))
<1>. DEFINE e == ListEntity(elems)
            parts == Parts(elems)
            failed == {i \in DOMAIN parts : parts[i].kind \in Stopped}
            x == IF failed = {} THEN RList(parts) ELSE parts[Min(failed)]
<1>1. e.form = DF_VECTOR /\ e.type = DT_ANY /\ e.elems = elems
  <2>1. Object(DF_VECTOR, DT_ANY) \in Ents
    BY ObjectType DEF DF_VECTOR, DT_ANY
  <2>. QED  BY DEF ListEntity, Object
<1>2. ReturnRType(e.form, e.type)[1] = "list"
  <2>1. ReturnRType(DF_VECTOR, DT_ANY) = <<"list", "">>
    BY RTypes, Zenon
  <2>2. <<"list", "">>[1] = "list"
    OBVIOUS
  <2>. QED  BY <1>1, <2>1, <2>2, Zenon
<1>. HIDE DEF e
<1>3. GetObject(e) = x
  <2>1. GetObject(e) = Assembled(e.elems)
    BY <1>2, Zenon DEF GetObject, Assembled, Parts
  <2>2. Assembled(e.elems) = Assembled(elems)
    BY <1>1, Zenon
  <2>3. Assembled(elems) = x
    BY Zenon DEF Assembled, Stopped
  <2>. HIDE DEF x
  <2>. QED  BY <2>1, <2>2, <2>3, Zenon
<1>4. DOMAIN parts = DOMAIN elems /\ \A i \in DOMAIN elems : parts[i] = GetEntity(elems[i], TRUE)
  BY DEF Parts
<1>5. failed # {} => Min(failed) \in failed
  <2>1. DOMAIN elems \subseteq Nat
    OBVIOUS
  <2>2. failed \subseteq Nat
    BY <1>4, <2>1
  <2>. HIDE DEF failed
  <2>3. ASSUME failed # {} PROVE Min(failed) \in failed
    <3>1. \E i \in failed : \A j \in failed : i =< j
      BY <2>2, <2>3, Least
    <3>. QED  BY <3>1 DEF Min
  <2>. QED  BY <2>3
<1>6. RList(parts).kind = "list"
  BY DEF RList
<1>7. x.kind \in {"list"} \cup Stopped
  <2>. HIDE DEF parts
  <2>. QED  BY <1>5, <1>6, Zenon
<1>8. (\A i \in DOMAIN elems : GetEntity(elems[i], TRUE).kind \notin Stopped) => x = RList(parts)
  <2>. HIDE DEF parts
  <2>. QED  BY <1>4, Zenon
<1>. HIDE DEF x
<1>9. GotList(elems, x)
  BY <1>7, <1>8, Zenon DEF GotList
<1>. QED  BY <1>3, <1>9, Zenon DEF e

LEMMA DListFetched == ASSUME NEW o \in DLists PROVE DFetched(o)
<1>. DEFINE in == Encode(o)
            n == Len(o.elems)
            ss == DElems(o)
            w == [i \in 1 .. n |-> CHOOSE e : ArrivesAs(o.elems[i], e)]
<1>1. o.v.t = DT_ANY /\ n \in Nat /\ DOMAIN o.elems = 1 .. n /\ \A i \in 1 .. n : o.elems[i] \in DEntities
  BY DListType, Zenon
<1>2. /\ ss \in Seq(Seq(Wire)) /\ Len(ss) = n /\ \A i \in 1 .. n : ss[i] = EncodeEntity(o.elems[i])
      /\ ListOf(in, ss, n)
  BY EncodedList, Zenon
<1>. HIDE DEF in, n, ss
<1>3. ListOf(in, ss, Len(ss))
  BY <1>2, Zenon
<1>4. in \in Seq(Wire)
  BY <1>2, <1>3, ListHeader, Zenon
<1>5. Fetched(in).kind \in {"list"} \cup Stopped
  <2>1. PICK elems : IsList(in, elems)
    BY <1>2, <1>3, ListEntities, Zenon
  <2>2. GotList(elems, GetObject(ListEntity(elems)))
    BY <2>1, ListGot, Zenon DEF IsList
  <2>3. Fetched(in) = GetObject(ListEntity(elems))
    BY <2>1, Zenon DEF Fetched, IsList
  <2>. QED  BY <2>2, <2>3, Zenon DEF GotList
<1>6. ASSUME Supported(o) PROVE Drains(in) /\ ArrivesIn(o, Fetched(in))
  <2>1. ASSUME NEW i \in 1 .. n PROVE ArrivesAs(o.elems[i], w[i])
    <3>1. SupportedEntity(o.elems[i])
      BY <1>1, <1>6, Zenon DEF Supported
    <3>2. \E e : ArrivesAs(o.elems[i], e)
      BY <1>1, <3>1, EntityArrives, Zenon
    <3>3. w[i] = CHOOSE e : ArrivesAs(o.elems[i], e)
      BY Zenon
    <3>. QED  BY <3>2, <3>3, Zenon
  <2>. HIDE DEF w
  <2>2. \A i \in 1 .. Len(ss) : CarriesEntity(ss[i], w[i])
    BY <1>2, <2>1, Zenon DEF ArrivesAs
  <2>3. ReadsList(in, Len(ss), w)
    BY <1>2, <1>3, <2>2, ListRead, Zenon
  <2>4. PICK elems \in Seq(Ents) :
          /\ Len(elems) = n /\ \A i \in 1 .. n : elems[i] = w[i]
          /\ IsList(in, elems) /\ ReadObject(in).p = Len(in) + 1
    BY <1>2, <2>3, Zenon DEF ReadsList
  <2>5. DOMAIN elems = 1 .. n
    BY <2>4
  <2>6. Drains(in)
    BY <2>4, Zenon DEF Drains
  <2>7. Fetched(in) = RList(Parts(elems))
    <3>1. GotList(elems, GetObject(ListEntity(elems)))
      BY <2>4, ListGot, Zenon
    <3>2. Fetched(in) = GetObject(ListEntity(elems))
      BY <2>4, Zenon DEF Fetched, IsList
    <3>3. \A i \in DOMAIN elems : GetEntity(elems[i], TRUE).kind \notin Stopped
      BY <2>1, <2>4, <2>5, Zenon DEF ArrivesAs, Stopped
    <3>. QED  BY <3>1, <3>2, <3>3, Zenon DEF GotList
  <2>8. RList(Parts(elems)).kind = "list" /\ RList(Parts(elems)).elems = Parts(elems)
    BY DEF RList
  <2>9. Len(Parts(elems)) = n
    <3>1. DOMAIN Parts(elems) = 1 .. n
      BY <2>5, Zenon DEF Parts
    <3>. QED  BY <1>1, <3>1, LenDomain, Zenon
  <2>10. ASSUME NEW i \in 1 .. n
         PROVE  LostInList(o.elems[i]) \/ Same(ExpectedEntity(o.elems[i]), Parts(elems)[i], TRUE)
    <3>1. Parts(elems)[i] = GetEntity(w[i], TRUE)
      BY <2>4, <2>5, Zenon DEF Parts
    <3>. QED  BY <2>1, <3>1, Zenon DEF ArrivesAs
  <2>11. ArrivesIn(o, Fetched(in))
    BY <1>1, <2>7, <2>8, <2>9, <2>10, Zenon DEF ArrivesIn, n
  <2>. QED  BY <2>6, <2>11
<1>7. DFetched(o)
  BY <1>4, <1>5, <1>6, Zenon DEF DFetched, in
<1>. QED  BY <1>7

-----------------------------------------------------------------------------
(* The inductive invariant: the variable is what the object it was made    *)
(* from is on the wire, and a fetch holds what is read of the variable.    *)

Typed ==
  /\ pc \in {"idle", "receive", "decode"} /\ origin.by \in {"none", "R", "DolphinDB"}
  /\ entity = <<>> \/ \E e : entity = <<e>>
  /\ origin.by = "none" => var = <<>>

Uploaded ==
  origin.by = "R" => origin.obj \in AllRObjects /\ Uploadable(origin.obj) /\ var = UploadEntity(origin.obj)

Assigned ==
  origin.by = "DolphinDB" => origin.obj \in Alone \cup DLists /\ var = Encode(origin.obj)

Received ==
  /\ pc # "idle" => origin.by # "none" /\ result = <<>>
  /\ pc = "receive" => stream = var
  /\ pc = "decode" => entity = <<ReadObject(var).e>> /\ stream = SubSeq(var, ReadObject(var).p, Len(var))

Decoded ==
  result # <<>> =>
    /\ origin.by # "none" /\ result = <<Fetched(var)>>
    /\ entity # <<>> <=> result[1] = RError

IInv == Typed /\ Uploaded /\ Assigned /\ Received /\ Decoded

LEMMA Start == Init => IInv
<1>. SUFFICES ASSUME Init PROVE IInv
  OBVIOUS
<1>1. pc = "idle" /\ var = <<>> /\ origin.by = "none" /\ entity = <<>> /\ result = <<>>
  BY DEF Init, None
<1>. QED  BY <1>1 DEF IInv, Typed, Uploaded, Assigned, Received, Decoded

\* What the variable's object is fetched as.
OriginFetched ==
  /\ origin.by = "R" => RFetched(origin.obj) /\ var = UploadEntity(origin.obj)
  /\ origin.by = "DolphinDB" => DFetched(origin.obj) /\ var = Encode(origin.obj)

LEMMA IsFetched == ASSUME IInv PROVE OriginFetched
<1>1. ASSUME origin.by = "R" PROVE RFetched(origin.obj) /\ var = UploadEntity(origin.obj)
  <2>1. origin.obj \in AllRObjects /\ Uploadable(origin.obj) /\ var = UploadEntity(origin.obj)
    BY <1>1, Zenon DEF IInv, Uploaded
  <2>. QED  BY <2>1, ObjectFetched, Zenon
<1>2. ASSUME origin.by = "DolphinDB" PROVE DFetched(origin.obj) /\ var = Encode(origin.obj)
  <2>1. origin.obj \in Alone \cup DLists /\ var = Encode(origin.obj)
    BY <1>2, Zenon DEF IInv, Assigned
  <2>. QED  BY <2>1, DEntityFetched, DListFetched, Zenon
<1>. QED  BY <1>1, <1>2, Zenon DEF OriginFetched

\* A result is an object that can be uploaded, a list, or none.
LEMMA ResultKind ==
  ASSUME IInv, result # <<>>
  PROVE  /\ Len(result) = 1 /\ result[1] = Fetched(var)
         /\ result[1] \in AllRObjects \/ result[1].kind \in {"list"} \cup Stopped
<1>. DEFINE x == Fetched(var)
<1>1. result = <<x>> /\ origin.by \in {"R", "DolphinDB"}
  BY DEF IInv, Typed, Decoded
<1>2. x \in AllRObjects \/ x.kind \in {"list"} \cup Stopped
  BY <1>1, IsFetched, Zenon DEF OriginFetched, RFetched, DFetched
<1>. HIDE DEF x
<1>3. Len(result) = 1 /\ result[1] = x
  BY <1>1
<1>. QED  BY <1>2, <1>3 DEF x

LEMMA UploadStep == ASSUME IInv, NEW r \in AllRObjects, Upload(r) PROVE IInv'
<1>1. pc = "idle" /\ pc' = "idle" /\ Uploadable(r) /\ var' = UploadEntity(r) /\ entity' = <<>> /\ result' = <<>>
  BY Zenon DEF Upload
<1>2. origin'.by = "R" /\ origin'.obj = r
  <2>1. origin' = [by |-> "R", obj |-> r]
    BY Zenon DEF Upload
  <2>. QED  BY <2>1
<1>3. Uploaded'
  BY <1>1, <1>2, Zenon DEF Uploaded
<1>. QED  BY <1>1, <1>2, <1>3 DEF IInv, Typed, Assigned, Received, Decoded

LEMMA AssignStep == ASSUME IInv, NEW o \in Alone \cup DLists, Assign(o) PROVE IInv'
<1>1. pc = "idle" /\ pc' = "idle" /\ var' = Encode(o) /\ entity' = <<>> /\ result' = <<>>
  BY Zenon DEF Assign
<1>2. origin'.by = "DolphinDB" /\ origin'.obj = o
  <2>1. origin' = [by |-> "DolphinDB", obj |-> o]
    BY Zenon DEF Assign
  <2>. QED  BY <2>1
<1>3. Assigned'
  BY <1>1, <1>2, Zenon DEF Assigned
<1>. QED  BY <1>1, <1>2, <1>3 DEF IInv, Typed, Uploaded, Received, Decoded

\* Only what can be sent whole is uploaded again.
LEMMA UploadResultStep == ASSUME IInv, UploadResult PROVE IInv'
<1>1. result # <<>> /\ Upload(result[1])
  BY DEF UploadResult
<1>2. Uploadable(result[1])
  BY <1>1, Zenon DEF Upload
<1>3. result[1] \in AllRObjects
  <2>1. result[1] \in AllRObjects \/ result[1].kind \in {"list"} \cup Stopped
    BY <1>1, ResultKind
  <2>2. result[1].kind \notin {"list", "NULL", "error"}
    BY <1>2 DEF Uploadable
  <2>. QED  BY <2>1, <2>2 DEF Stopped
<1>. QED  BY <1>1, <1>3, UploadStep, Zenon

LEMMA UndefineStep == ASSUME IInv, Undefine \/ Reconnect PROVE IInv'
<1>1. pc' = "idle" /\ var' = <<>> /\ origin'.by = "none" /\ result' = <<>> /\ (entity' = <<>> \/ entity' = entity)
  BY DEF Undefine, Reconnect, None
<1>2. Typed'
  <2>1. entity = <<>> \/ \E e : entity = <<e>>
    BY Zenon DEF IInv, Typed
  <2>2. entity' = <<>> \/ \E e : entity' = <<e>>
    BY <1>1, <2>1, Zenon
  <2>. QED  BY <1>1, <2>2 DEF Typed
<1>. QED  BY <1>1, <1>2 DEF IInv, Uploaded, Assigned, Received, Decoded

LEMMA FetchStep == ASSUME IInv, Fetch PROVE IInv'
<1>1. /\ pc' = "receive" /\ stream' = var /\ var # <<>> /\ result = <<>>
      /\ var' = var /\ origin' = origin /\ entity' = entity /\ result' = result
  BY DEF Fetch
<1>2. Typed /\ Uploaded /\ Assigned
  BY DEF IInv
<1>3. Typed' /\ Uploaded' /\ Assigned'
  BY <1>1, <1>2, Zenon DEF Typed, Uploaded, Assigned
<1>4. Received' /\ Decoded'
  BY <1>1, <1>2 DEF Typed, Received, Decoded
<1>. QED  BY <1>3, <1>4 DEF IInv

LEMMA ReceiveStep == ASSUME IInv, ReceiveEntity PROVE IInv'
<1>1. /\ pc = "receive" /\ pc' = "decode"
      /\ stream' = SubSeq(stream, ReadObject(stream).p, Len(stream)) /\ entity' = <<ReadObject(stream).e>>
      /\ var' = var /\ origin' = origin /\ result' = result
  BY DEF ReceiveEntity
<1>2. Typed /\ Uploaded /\ Assigned /\ stream = var /\ result = <<>> /\ origin.by # "none"
  BY <1>1 DEF IInv, Received
<1>3. Typed' /\ Uploaded' /\ Assigned'
  <2>1. \E e : entity' = <<e>>
    BY <1>1, Zenon
  <2>. QED  BY <1>1, <1>2, <2>1, Zenon DEF Typed, Uploaded, Assigned
<1>4. Received'
  <2>1. entity' = <<ReadObject(var').e>> /\ stream' = SubSeq(var', ReadObject(var').p, Len(var'))
    BY <1>1, <1>2, Zenon
  <2>. QED  BY <1>1, <1>2, <2>1 DEF Received
<1>5. Decoded'
  BY <1>1, <1>2 DEF Decoded
<1>. QED  BY <1>3, <1>4, <1>5 DEF IInv

LEMMA DecodeStep == ASSUME IInv, Decode PROVE IInv'
<1>1. /\ pc = "decode" /\ pc' = "idle" /\ result' = <<GetObject(entity[1])>>
      /\ entity' = IF result'[1] = RError THEN entity ELSE <<>>
      /\ var' = var /\ origin' = origin
  BY Zenon DEF Decode
<1>2. Typed /\ Uploaded /\ Assigned /\ entity = <<ReadObject(var).e>> /\ origin.by # "none"
  BY <1>1 DEF IInv, Received
<1>3. entity[1] = ReadObject(var).e /\ entity # <<>>
  <2>. DEFINE e == ReadObject(var).e
  <2>1. entity = <<e>>
    BY <1>2
  <2>. HIDE DEF e
  <2>2. entity[1] = e /\ entity # <<>>
    BY <2>1
  <2>. QED  BY <2>2 DEF e
<1>4. result' = <<Fetched(var')>>
  BY <1>1, <1>3, Zenon DEF Fetched
<1>5. Typed' /\ Uploaded' /\ Assigned'
  <2>1. entity' = <<>> \/ \E e : entity' = <<e>>
    BY <1>1, <1>2, Zenon
  <2>. QED  BY <1>1, <1>2, <2>1, Zenon DEF Typed, Uploaded, Assigned
<1>6. Decoded'
  <2>1. entity' # <<>> <=> result'[1] = RError
    BY <1>1, <1>3, Zenon
  <2>. QED  BY <1>1, <1>2, <1>4, <2>1, Zenon DEF Decoded
<1>7. Received'
  BY <1>1 DEF Received
<1>. QED  BY <1>5, <1>6, <1>7 DEF IInv

LEMMA Step == IInv /\ [Next]_vars => IInv'
<1>. SUFFICES ASSUME IInv, [Next]_vars PROVE IInv'
  OBVIOUS
<1>1. CASE \E r \in RObjects : Upload(r)
  <2>1. PICK r \in RObjects : Upload(r)
    BY <1>1
  <2>2. r \in AllRObjects
    BY <2>1, TransferAssumption
  <2>. QED  BY <2>1, <2>2, UploadStep, Zenon
<1>2. CASE \E o \in DObjects : Assign(o)
  <2>1. PICK o \in DObjects : Assign(o)
    BY <1>2
  <2>2. o \in Alone \cup DLists
    BY <2>1, TransferAssumption DEF Alone
  <2>. QED  BY <2>1, <2>2, AssignStep, Zenon
<1>3. CASE UploadResult
  BY <1>3, UploadResultStep, Zenon
<1>4. CASE Undefine \/ Reconnect
  BY <1>4, UndefineStep, Zenon
<1>5. CASE Fetch
  BY <1>5, FetchStep, Zenon
<1>6. CASE ReceiveEntity
  BY <1>6, ReceiveStep, Zenon
<1>7. CASE Decode
  BY <1>7, DecodeStep, Zenon
<1>8. CASE UNCHANGED vars
  <2>1. /\ pc' = pc /\ var' = var /\ origin' = origin /\ stream' = stream
        /\ entity' = entity /\ result' = result
    BY <1>8 DEF vars
  <2>. QED  BY <2>1, Zenon DEF IInv, Typed, Uploaded, Assigned, Received, Decoded
<1>. QED  BY <1>1, <1>2, <1>3, <1>4, <1>5, <1>6, <1>7, <1>8, Zenon DEF Next

LEMMA Invariant == Spec => []IInv
BY Start, Step, PTL DEF Spec

-----------------------------------------------------------------------------
(* The theorems.                                                           *)

\* Type correctness; in particular a fetch leaves no object behind unless R
\* stopped with an error, whatever was fetched.
THEOREM TypeCorrect == Spec => []TypeOK
<1>1. ASSUME IInv PROVE TypeOK
  <2>1. Typed /\ Decoded
    BY <1>1 DEF IInv
  <2>2. Len(entity) =< 1
    <3>1. CASE entity = <<>>
      BY <3>1
    <3>2. ASSUME NEW e, entity = <<e>> PROVE Len(entity) =< 1
      BY <3>2
    <3>. QED  BY <2>1, <3>1, <3>2, Zenon DEF Typed
  <2>3. CASE result = <<>>
    <3>1. Len(result) =< 1
      BY <2>3
    <3>. QED  BY <2>1, <2>2, <2>3, <3>1, Zenon DEF TypeOK, Typed
  <2>4. CASE result # <<>>
    <3>1. /\ Len(result) = 1
          /\ result[1] \in AllRObjects \/ result[1].kind \in {"list"} \cup Stopped
      BY <1>1, <2>4, ResultKind
    <3>2. Len(result) =< 1
      BY <3>1
    <3>3. result[1].kind \in Kinds
      <4>1. result[1] \in AllRObjects => result[1].kind \in {"vector", "factor", "matrix", "table"}
        BY RKinds
      <4>. QED  BY <3>1, <4>1 DEF Kinds, Stopped
    <3>4. entity # <<>> <=> result[1] = RError
      BY <2>1, <2>4, Zenon DEF Decoded
    <3>. QED  BY <2>1, <2>2, <3>2, <3>3, <3>4, Zenon DEF TypeOK, Typed
  <2>. QED  BY <2>3, <2>4
<1>. QED  BY <1>1, Invariant, PTL

LEMMA NothingLeft == ASSUME NEW in \in Seq(Wire) PROVE SubSeq(in, Len(in) + 1, Len(in)) = <<>>
OBVIOUS

\* The stream is drained: the readers of scalars, vectors, matrices, tables and
\* lists stop where their writer did, so that the next reply is read from its
\* beginning.
THEOREM StreamCorrect == Spec => []StreamDrained
<1>1. ASSUME IInv PROVE StreamDrained
  <2>. SUFFICES ASSUME pc = "decode", origin.by = "DolphinDB" => Supported(origin.obj) PROVE stream = <<>>
    BY DEF StreamDrained
  <2>1. stream = SubSeq(var, ReadObject(var).p, Len(var))
    BY <1>1 DEF IInv, Received
  <2>2. origin.by \in {"R", "DolphinDB"}
    BY <1>1 DEF IInv, Typed, Received
  <2>3. var \in Seq(Wire) /\ Drains(var)
    BY <1>1, <2>2, IsFetched, Zenon DEF OriginFetched, RFetched, DFetched
  <2>. QED  BY <2>1, <2>3, NothingLeft, Zenon DEF Drains
<1>. QED  BY <1>1, Invariant, PTL

\* Round trips: what is uploaded comes back the same, and again when that is
\* uploaded.  No code of a factor may be NA: FactorsKeepNA is violated.
THEOREM RoundTripCorrect == Spec => []RoundTrip
<1>1. ASSUME IInv PROVE RoundTrip
  <2>. SUFFICES ASSUME origin.by = "R", result # <<>>, ~ HasNACode(origin.obj)
                PROVE  Same(Returned(origin.obj), result[1], FALSE)
    BY DEF RoundTrip
  <2>1. result[1] = Fetched(var)
    BY <1>1, ResultKind
  <2>2. RFetched(origin.obj) /\ var = UploadEntity(origin.obj)
    BY <1>1, IsFetched, Zenon DEF OriginFetched
  <2>. QED  BY <2>1, <2>2, Zenon DEF RFetched
<1>. QED  BY <1>1, Invariant, PTL

\* The values of scripts arrive: with every null as NA, in scalars, vectors,
\* pairs, sets, matrices and tables, and in lists of them but for what
\* DDB_GetEntity does not do there.
THEOREM ArrivalCorrect == Spec => []ValuesArrive
<1>1. ASSUME IInv PROVE ValuesArrive
  <2>. SUFFICES ASSUME origin.by = "DolphinDB", result # <<>>, Supported(origin.obj) PROVE Arrives(origin.obj)
    BY DEF ValuesArrive
  <2>1. result[1] = Fetched(var)
    BY <1>1, ResultKind
  <2>2. DFetched(origin.obj) /\ var = Encode(origin.obj)
    BY <1>1, IsFetched, Zenon DEF OriginFetched
  <2>3. ArrivesIn(origin.obj, result[1])
    BY <2>1, <2>2, Zenon DEF DFetched
  <2>. QED  BY <2>3, Zenon DEF Arrives, ArrivesIn
<1>. QED  BY <1>1, Invariant, PTL

=============================================================================
