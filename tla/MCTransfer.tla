----------------------------- MODULE MCTransfer -----------------------------
(* Transfer with every type in every form, with and without nulls.         *)
EXTENDS Transfer

Types == Plain \cup {DT_SYMBASE, 19}  \* 19 is UUID, which is not supported

Of(t, data) == [t |-> t, data |-> data, base |-> IF t = DT_SYMBASE THEN 3 ELSE 0]

\* Symbols with other bases.
Symbols == {[Of(DT_SYMBASE, data) EXCEPT !.base = n] :
              n \in {0, 1, 2, 5}, data \in {<<>>, <<Null>>, <<1, Null>>, <<4, 1, 4>>}} \cap DVectors

NoVec == Of(DT_VOID, <<>>)

Thing(form, v) == [form |-> form, v |-> v, dim |-> <<0, 0>>, row |-> NoVec, clm |-> NoVec,
                   columns |-> <<>>, elems |-> <<>>]

Scalars == {Thing(DF_SCALAR, Of(t, <<v>>)) : t \in (Types \ {DT_SYMBASE}) \cup {DT_VOID}, v \in {1, Null}}

Vectors == {Thing(form, Of(t, data)) : form \in {DF_VECTOR, DF_PAIR, DF_SET}, t \in Types,
                                       data \in {<<>>, <<1>>, <<2, Null>>, <<Null, 1, 2>>}}
           \cup {Thing(DF_VECTOR, v) : v \in Symbols}

Lables == {NoVec} \cup {Of(t, <<1, 2>>) : t \in {DT_BOOL, DT_INT, DT_DATE, DT_DOUBLE, DT_STRING, 19}}
          \cup {Of(t, <<1, Null>>) : t \in {DT_BOOL, 3, DT_INT, DT_STRING}}

Matrices ==
  {[Thing(DF_MATRIX, Of(t, <<1, Null, 2, 1>>)) EXCEPT !.dim = <<2, 2>>, !.row = row, !.clm = clm] :
     t \in Types \ {19}, row \in Lables, clm \in Lables}

Columns == {Of(t, data) : t \in Types, data \in {<<>>, <<1, 2>>, <<Null, 1>>}}

Keys == {c \in Columns : c.t \in {DT_INT, DT_STRING, DT_SYMBASE}}

Tables == {[Thing(DF_TABLE, Of(DT_DICTIONARY, <<>>)) EXCEPT !.columns = columns] :
             columns \in {<<c>> : c \in Columns}
                         \cup {cd \in {<<c, d>> : c \in Columns, d \in Keys} : Len(cd[1].data) = Len(cd[2].data)}}

Plainly(o) == o.row.t \in {DT_VOID, DT_INT} /\ o.clm.t \in {DT_VOID, DT_STRING, DT_DATE}

Lists ==
  LET first  == {o \in Vectors \cup Scalars : o.v.t \in {1, 2, 4, 11, 16, 18, DT_SYMBASE}}
                \cup {o \in Matrices : Plainly(o)}
                \cup {o \in Tables : Len(o.columns) = 1}
                \cup {Thing(DF_VECTOR, Of(DT_ANY, data)) : data \in {<<>>, <<1, Null>>}}  \* a list in a list
      second == {o \in Scalars : o.v.t \in {1, 18}}
  IN  {[Thing(DF_VECTOR, Of(DT_ANY, <<>>)) EXCEPT !.elems = <<a, b>>] : a \in first, b \in second}
      \cup {[Thing(DF_VECTOR, Of(DT_ANY, <<>>)) EXCEPT !.elems = <<b, a>>] : a \in first, b \in second}
      \cup {Thing(DF_VECTOR, Of(DT_ANY, <<>>))}

MCDObjects == Scalars \cup Vectors \cup Matrices \cup Tables \cup Lists

Factors == {RFactor(levels, codes) : levels \in {<<1, 2>>, <<NA, 1>>, <<1, NA, 2>>, <<1, 2, NA>>},
                                     codes \in {<<1, 2>>, <<2, 1, 2>>, <<1>>, <<2, NA>>}}

RVectors == {RVector(class, data) : class \in RClasses,
                                    data \in {<<1>>, <<NA>>, <<Null>>, <<1, NA>>, <<NA, NA>>, <<NA, Null>>,
                                             <<2, 1, NA>>}}

RMatrices == {RMatrix(class, <<2, 1>>, data, rows, cols) :
                class \in {"logical", "integer", "numeric", "character"},
                data \in {<<1, 2>>, <<NA, 1>>, <<NA, NA>>, <<2, Null>>},
                rows \in {<<>>, <<1, 2>>, <<NA, 1>>}, cols \in {<<>>, <<2>>}}

RTables == LET columns == {c \in RVectors \cup Factors : RowCount(c) = 2}
           IN  {RTable(<<1>>, <<c>>) : c \in columns} \cup {RTable(<<1, 2>>, <<c, d>>) : c \in columns, d \in columns}

MCRObjects == Factors \cup RVectors \cup RMatrices \cup RTables

\* For the run that looks at one disagreement.
MCNone    == {}
OneFactor == {RFactor(<<1, 2>>, <<1, NA>>)}

=============================================================================
