------------------------------ MODULE Transfer ------------------------------
(***************************************************************************)
(* The transfer of objects: what dbUpload writes for an R object (the      *)
(* DDB_UploadX functions of RDolphinDB_impl.R and Rcpp_Connector), what    *)
(* the classes Entity, Scalarr, Vectorr, Matrixx, Tablee and AnyVectorr    *)
(* read back, and the R object that DDB_GetEntity makes of it.             *)
(*                                                                         *)
(* The stream is a sequence of typed items; its bytes are the business of  *)
(* InputStream.  An item read as another type than it was written, or past *)
(* the end, is Bad.  A value is opaque, but for the nulls: each type has a *)
(* Null on the wire (-32768, -DBL_MAX, "", ...), which must become NA.     *)
(***************************************************************************)
EXTENDS Integers, Sequences, FiniteSets, SequencesExt

CONSTANTS RObjects,         \* the R objects the program uploads
          DObjects,         \* the objects its scripts return
          Zone,             \* how far the clocks of the program are ahead of UTC
          StringsAsFactors  \* what R does of itself with strings: TRUE before R 4

Null == -1  \* the null of its type; in R an ordinary value, unless the type is INT
NA   == -2  \* the NA of R
Bad  == -3  \* a value that is not the one written

-----------------------------------------------------------------------------
(* DATA_TYPE and DATA_FORM.                                                *)

DT_VOID       == 0
DT_BOOL       == 1
DT_INT        == 4
DT_DATE       == 6
DT_DATETIME   == 11
DT_DOUBLE     == 16
DT_STRING     == 18
DT_ANY        == 25
DT_DICTIONARY == 27
DT_SYMBASE    == 17 + 128  \* DT_SYMBOL + 128: symbols with their base

DF_SCALAR == 0
DF_VECTOR == 1
DF_PAIR   == 2
DF_MATRIX == 3
DF_SET    == 4
DF_TABLE  == 6

\* The types with one item for each value, BOOL to STRING.
Plain     == 1 .. 18
Dates     == {DT_DATE, 7}                 \* and MONTH
Clocks    == 8 .. 10                      \* TIME, MINUTE, SECOND
IntTimes  == Clocks \cup {DT_DATETIME}
LongTimes == 12 .. 14                     \* TIMESTAMP, NANOTIME, NANOTIMESTAMP

\* What an item is read with.
Width ==
  [t \in Plain |->
     CASE t \in {DT_BOOL, 2}                          -> "char"
       [] t = 3                                       -> "short"
       [] t \in {DT_INT} \cup Dates \cup IntTimes     -> "int"
       [] t \in {5} \cup LongTimes                    -> "long"
       [] t = 15                                      -> "float"
       [] t = DT_DOUBLE                               -> "double"
       [] OTHER                                       -> "string"]

\* The class of R its values have.
Class ==
  [t \in Plain |->
     CASE t = DT_BOOL                      -> "logical"
       [] t \in 2 .. DT_INT                -> "integer"
       [] t \in {5, 15, DT_DOUBLE}         -> "numeric"
       [] t \in Dates                      -> "Date"
       [] t \in IntTimes \cup LongTimes    -> "POSIXct"
       [] OTHER                            -> "character"]

Item(w, v)    == [w |-> w, v |-> v]
Items(w, s)   == [i \in DOMAIN s |-> Item(w, s[i])]
Flag(form, t) == Item("short", form * 256 + t)

\* The R objects: a scalar is a vector of length one.  A class says how a vector
\* is stored, too: a Date or POSIXct of R may hold integers, and a POSIXct have
\* another time zone than UTC.
RVector(class, data) == [kind |-> "vector", class |-> class, data |-> data]
RFactor(levels, codes) == [kind |-> "factor", levels |-> levels, codes |-> codes]
RMatrix(class, dim, data, rows, cols) ==
  [kind |-> "matrix", class |-> class, dim |-> dim, data |-> data, rows |-> rows, cols |-> cols]
RTable(names, columns) == [kind |-> "table", names |-> names, columns |-> columns]
RList(elems) == [kind |-> "list", elems |-> elems]
RNA    == RVector("logical", <<NA>>)
RNull  == [kind |-> "NULL"]
RError == [kind |-> "error"]

AllNA(r) == \A i \in DOMAIN r.data : r.data[i] = NA

-----------------------------------------------------------------------------
(* Uploading.                                                              *)

UploadType == [logical |-> DT_BOOL, integer |-> DT_INT, numeric |-> DT_DOUBLE,
               character |-> DT_STRING, Date |-> DT_DATE, POSIXct |-> DT_DATETIME]

RClasses == DOMAIN UploadType \cup {"intDate", "intPOSIXct", "localtime"}

\* class() of a vector that is stored in one of these ways.
RClass(class) ==
  CASE class = "intDate"                       -> "Date"
    [] class \in {"intPOSIXct", "localtime"}   -> "POSIXct"
    [] OTHER                                   -> class

IsTime(r) == RClass(r.class) \in {"Date", "POSIXct"}

\* The values of an R vector with DDB_NULL_X at its NA index; NA_integer_ is
\* DDB_NULL_INTEGER already.
Nulled(data) == [i \in DOMAIN data |-> IF data[i] = NA THEN Null ELSE data[i]]

\* Rcpp_UploadEntity of a scalar, a vector and a matrix.
ScalarItems(t, data) == <<Flag(DF_SCALAR, t)>> \o Items(Width[t], Nulled(data))

VectorItems(t, data) ==
  <<Flag(DF_VECTOR, t), Item("int", Len(data)), Item("int", 1)>> \o Items(Width[t], Nulled(data))

MatrixItems(t, dim, data) ==
  <<Item("int", dim[1]), Item("int", dim[2])>> \o Items(Width[t], Nulled(data))

\* Symbols: the base, then the codes; NA_integer_ is DDB_NULL_INTEGER here too.
SymbolItems(base, codes) ==
  <<Flag(DF_VECTOR, DT_SYMBASE), Item("int", Len(codes)), Item("int", 1),
    Item("int", 0), Item("int", Len(base))>>
  \o Items("string", base) \o Items("int", Nulled(codes))

\* The null, and the levels of a factor that are not NA.
SymbolBase(levels) ==
  LET symbolBase[i \in 0 .. Len(levels)] ==
        IF i = 0 THEN <<Null>>
        ELSE IF levels[i] = NA THEN symbolBase[i - 1]
        ELSE Append(symbolBase[i - 1], levels[i])
  IN  symbolBase[Len(levels)]

\* A mutant: the codes behind the NA level are not moved up.
UploadVectorSymbolUnshifted(r) ==
  LET na == {i \in DOMAIN r.levels : r.levels[i] = NA}
      index(code) == IF code \in na THEN 0 ELSE code
      codes == [i \in DOMAIN r.codes |-> index(r.codes[i])]
  IN  SymbolItems(SymbolBase(r.levels), codes)

\* A factor: DolphinDB has its null at index 0 of the symbol base, R may have
\* an NA level anywhere.  An NA code (INT_MIN) is below every NA level.
UploadVectorSymbol(r) ==
  LET na == {i \in DOMAIN r.levels : r.levels[i] = NA}
      index(code) == IF code \in na THEN 0
                     ELSE IF \E i \in na : code > i THEN code - 1
                     ELSE code
      codes == [i \in DOMAIN r.codes |-> index(r.codes[i])]
  IN  SymbolItems(SymbolBase(r.levels), codes)

\* Days and seconds since 1970 are sent as they are, a fraction is cut off.
UploadVectorDate(r) == VectorItems(UploadType[RClass(r.class)], r.data)

\* A column or a lable; is.integer() is asked before the class.
UploadVector(r) ==
  IF r.kind = "factor" THEN UploadVectorSymbol(r)
  ELSE IF r.class \in {"integer", "intDate", "intPOSIXct"} THEN VectorItems(DT_INT, r.data)
  ELSE IF IsTime(r) THEN UploadVectorDate(r)
  ELSE VectorItems(UploadType[r.class], r.data)

\* as.character() writes a time as the clocks of its zone show it, and
\* CountSeconds reads the text as one of UTC.  (CountDays has no zone.)
AsUTC(r) ==
  [i \in DOMAIN r.data |-> IF r.class = "localtime" /\ r.data[i] # NA
                           THEN r.data[i] + Zone ELSE r.data[i]]

\* One date or time goes through its text, which is "NA" for the null.
UploadScalarDate(r) == ScalarItems(UploadType[RClass(r.class)], AsUTC(r))

\* A logical or character NA is a scalar of type VOID.
UploadScalar(r) ==
  IF r.class \in {"logical", "character"} /\ AllNA(r)
  THEN <<Flag(DF_SCALAR, DT_VOID), Item("char", 1)>>
  ELSE ScalarItems(UploadType[r.class], r.data)

UploadMatrixLable(mtx) ==
  LET present(lable) == IF lable = <<>> THEN 0 ELSE 1
      vector(lable)  == IF lable = <<>> THEN <<>> ELSE UploadVector(RVector("character", lable))
  IN  <<Item("char", present(mtx.rows) + 2 * present(mtx.cols))>>
      \o vector(mtx.rows) \o vector(mtx.cols)

\* A matrix without a value is one of type DOUBLE.
UploadMatrix(mtx) ==
  LET t == IF AllNA(mtx) THEN DT_DOUBLE ELSE UploadType[mtx.class]
  IN  <<Flag(DF_MATRIX, t)>> \o UploadMatrixLable(mtx)
      \o <<Flag(DF_MATRIX, t)>> \o MatrixItems(t, mtx.dim, mtx.data)

RowCount(column) == IF column.kind = "factor" THEN Len(column.codes) ELSE Len(column.data)

UploadTable(tbl) ==
  <<Flag(DF_TABLE, DT_DICTIONARY), Item("int", RowCount(tbl.columns[1])),
    Item("int", Len(tbl.columns)), Item("string", Null)>>
  \o Items("string", tbl.names)
  \o FlattenSeq([i \in DOMAIN tbl.columns |-> UploadVector(tbl.columns[i])])

\* DDB_UploadEntity, of one argument.
UploadEntity(r) ==
  CASE r.kind = "matrix" -> UploadMatrix(r)
    [] r.kind = "table"  -> UploadTable(r)
    [] r.kind = "factor" -> UploadVectorSymbol(r)
    [] r.kind = "vector" /\ Len(r.data) # 1 -> IF IsTime(r) THEN UploadVectorDate(r) ELSE UploadVector(r)
    [] OTHER                                -> IF IsTime(r) THEN UploadScalarDate(r) ELSE UploadScalar(r)

\* The objects that are sent, whole; for the others Session has "skipped" and
\* "stops".
Uploadable(r) ==
  CASE r.kind = "matrix" -> r.class \in {"logical", "integer", "numeric"} \/ AllNA(r)
    [] r.kind = "vector" -> r.data # <<>>
    [] OTHER             -> r.kind \in {"table", "factor"}

-----------------------------------------------------------------------------
(* Reading: each operator reads from item p of "in" and tells where it     *)
(* stopped.                                                                *)

At(in, p, w) == IF p \in DOMAIN in /\ in[p].w = w THEN in[p].v ELSE Bad

FormOf(flag) == flag \div 256

\* A mutant: the type has seven bits.
TypeOf7(flag) == flag % 128
TypeOf(flag)  == flag % 256

Size(row, clm) == IF row * clm > 0 THEN row * clm ELSE 0

\* A scalar or a vector in C++; a null pointer remembers what it was to be.
Vec(t, row, clm, data, levels) ==
  [t |-> t, row |-> row, clm |-> clm, data |-> data, levels |-> levels]
Nothing(t) == Vec(t, 0, 0, <<>>, <<>>)

CreateScalar(in, p, t) ==
  CASE t \in Plain   -> [p |-> p + 1, vec |-> Vec(t, 0, 0, <<At(in, p, Width[t])>>, <<>>)]
    [] t = DT_VOID   -> [p |-> p + 1, vec |-> Nothing(t)]
    [] OTHER         -> [p |-> p, vec |-> Nothing(t)]

\* IsNull() of a scalar.
IsNull(scalar) == scalar.data[1] = Null

\* VectorSymbol: the base, then the codes, which count from one in R.
VectorSymbol(in, p, row, clm) ==
  LET k == Size(At(in, p + 1, "int"), 1)
      n == Size(row, clm)
      code(v) == IF v < 0 THEN Bad ELSE v + 1
  IN  [p |-> p + 2 + k + n,
       vec |-> Vec(DT_SYMBASE, row, clm, [i \in 1 .. n |-> code(At(in, p + 1 + k + i, "int"))],
                   [i \in 1 .. k |-> At(in, p + 1 + i, "string")])]

\* A vector of an unsupported type is not read at all.
CreateVector(in, p, t) ==
  LET row == At(in, p, "int")
      clm == At(in, p + 1, "int")
      n   == Size(row, clm)
  IN  CASE t = DT_SYMBASE -> VectorSymbol(in, p + 2, row, clm)
        [] t \in Plain    -> [p |-> p + 2 + n,
                              vec |-> Vec(t, row, clm, [i \in 1 .. n |-> At(in, p + 1 + i, Width[t])], <<>>)]
        [] OTHER          -> [p |-> p, vec |-> Nothing(t)]

\* A flag, and the vector it announces.
FlaggedVector(in, p) == CreateVector(in, p + 1, TypeOf(At(in, p, "short")))

\* Matrixx: the row lables and the column lables, if their bit is set.
Matrixx(in, p) ==
  LET has_lable == At(in, p, "char")
      lable(q, bit) == IF (has_lable \div bit) % 2 = 1
                       THEN FlaggedVector(in, q) ELSE [p |-> q, vec |-> Nothing(DT_VOID)]
      row == lable(p + 1, 1)
      clm == lable(row.p, 2)
      mtx == FlaggedVector(in, clm.p)
  IN  [p |-> mtx.p, row |-> row.vec, clm |-> clm.vec, mtx |-> mtx.vec]

NextColumn(in, read) ==
  LET column == FlaggedVector(in, read.p)
  IN  [p |-> column.p, columns |-> Append(read.columns, column.vec)]

Tablee(in, p) ==
  LET table_clm == Size(At(in, p + 1, "int"), 1)
      read[i \in 0 .. table_clm] ==
        IF i = 0 THEN [p |-> p + 3 + table_clm, columns |-> <<>>] ELSE NextColumn(in, read[i - 1])
  IN  [p |-> read[table_clm].p, columns |-> read[table_clm].columns,
       names |-> [i \in 1 .. table_clm |-> At(in, p + 2 + i, "string")]]

\* An Entity or an AnyVectorr; vec is its scalar, its vector or its matrix.
Object(form, t) ==
  [form |-> form, type |-> t, vec |-> Nothing(t), row |-> Nothing(DT_VOID),
   clm |-> Nothing(DT_VOID), names |-> <<>>, columns |-> <<>>, elems |-> <<>>]

Entity(in, p, form, t) ==
  LET o == Object(form, t)
      holding(read) == [p |-> read.p, e |-> [o EXCEPT !.vec = read.vec]]
  IN  CASE form = DF_SCALAR               -> holding(CreateScalar(in, p, t))
        [] form \in {DF_VECTOR, DF_PAIR}  -> holding(CreateVector(in, p, t))
        [] form = DF_SET                  -> holding(FlaggedVector(in, p))
        [] form = DF_MATRIX ->
             LET m == Matrixx(in, p)
             IN  [p |-> m.p, e |-> [o EXCEPT !.vec = m.mtx, !.row = m.row, !.clm = m.clm]]
        [] form = DF_TABLE ->
             LET t2 == Tablee(in, p)
             IN  [p |-> t2.p, e |-> [o EXCEPT !.names = t2.names, !.columns = t2.columns]]
        [] OTHER -> [p |-> p, e |-> o]

NextElement(in, read) ==
  LET flag    == At(in, read.p, "short")
      element == Entity(in, read.p + 1, FormOf(flag), TypeOf(flag))
  IN  [p |-> element.p, elems |-> Append(read.elems, element.e)]

AnyVector(in, p) ==
  LET n == Size(At(in, p, "int"), At(in, p + 1, "int"))
      read[i \in 0 .. n] ==
        IF i = 0 THEN [p |-> p + 2, elems |-> <<>>] ELSE NextElement(in, read[i - 1])
  IN  [p |-> read[n].p, e |-> [Object(DF_VECTOR, DT_ANY) EXCEPT !.elems = read[n].elems]]

\* The end of Rcpp_ReceiveEntity.
ReadObject(in) ==
  LET flag == At(in, 1, "short")
  IN  IF FormOf(flag) = DF_VECTOR /\ TypeOf(flag) = DT_ANY
      THEN AnyVector(in, 2) ELSE Entity(in, 2, FormOf(flag), TypeOf(flag))

-----------------------------------------------------------------------------
(* Receiving: the R object of an Entity or AnyVectorr.                     *)

\* Utill::ReturnRType, by the form and the class it stands for.
ReturnRType(form, t) ==
  CASE form = DF_TABLE                                         -> <<"table", "">>
    [] form = DF_SCALAR /\ t \in Plain                         -> <<"scalar", Class[t]>>
    [] form \in {DF_VECTOR, DF_PAIR, DF_SET} /\ t \in Plain    -> <<"vector", Class[t]>>
    [] form \in {DF_VECTOR, DF_PAIR, DF_SET} /\ t = DT_ANY     -> <<"list", "">>
    [] form \in {DF_VECTOR, DF_PAIR, DF_SET} /\ t = DT_SYMBASE -> <<"factor", "">>
    [] form = DF_MATRIX /\ t \in Plain                         -> <<"matrix", Class[t]>>
    [] form = DF_MATRIX /\ t = DT_SYMBASE                      -> <<"matrix", "character">>
    [] OTHER                                                   -> <<"void", "">>

\* NA_INDEX.  The constructors note the nulls in it, but for an INT, whose null
\* is NA_integer_; VectorSymbol notes its own when the strings are taken.
NAIndex(vec, taken) ==
  CASE vec.t = DT_INT     -> {}
    [] vec.t = DT_SYMBASE -> {i \in DOMAIN vec.data : taken /\ vec.data[i] = 1}
    [] OTHER              -> {i \in DOMAIN vec.data : vec.data[i] = Null}

\* getVector(), or for a matrix of symbols getStringVector().
Values(vec) ==
  LET value(v) == IF vec.t = DT_INT /\ v = Null THEN NA
                  ELSE IF vec.t # DT_SYMBASE THEN v
                  ELSE IF v \in DOMAIN vec.levels THEN vec.levels[v] ELSE Bad
  IN  [i \in DOMAIN vec.data |-> value(vec.data[i])]

SetReceiveVectorNA(data, index) == [i \in DOMAIN data |-> IF i \in index THEN NA ELSE data[i]]

\* A mutant: the index is asked for before the values.
WithNAIndexFirst(vec) == SetReceiveVectorNA(Values(vec), NAIndex(vec, FALSE))

\* The values, and then the index.
WithNA(vec) == SetReceiveVectorNA(Values(vec), NAIndex(vec, TRUE))

Factor(vec) ==
  RFactor([i \in DOMAIN vec.levels |-> IF i = 1 THEN NA ELSE vec.levels[i]], vec.data)

\* The lable types DDB_ReceiveMatrixLable knows; it sets no NA in two of them.
LableClasses == {"logical", "integer", "numeric", "character"}

LableClass(vec) == ReturnRType(DF_VECTOR, vec.t)[2]

Lable(vec) == IF LableClass(vec) \in {"logical", "numeric"} THEN WithNA(vec) ELSE Values(vec)

\* With a lable of another type "result" is not found, or it is still that of
\* the rows.  R takes lables for all rows or columns, or none.
ReceiveMatrixLable(m, e) ==
  LET none(vec)  == vec.t = DT_VOID
      known(vec) == LableClass(vec) \in LableClasses
      rows == IF none(e.row) THEN <<>> ELSE Lable(e.row)
      cols == CASE none(e.clm)  -> <<>>
                [] known(e.clm) -> Lable(e.clm)
                [] OTHER        -> rows
  IN  IF \/ ~none(e.row) /\ ~known(e.row)
         \/ ~none(e.clm) /\ ~known(e.clm) /\ none(e.row)
         \/ Len(rows) \notin {0, m.dim[1]} \/ Len(cols) \notin {0, m.dim[2]}
      THEN RError ELSE [m EXCEPT !.rows = rows, !.cols = cols]

\* Dates and times become text in a matrix.
MatrixClass(class) == IF class \in {"Date", "POSIXct"} THEN "character" ELSE class

\* ReturnMatrixX, and its lables.
MatrixOf(e, class, data) ==
  ReceiveMatrixLable(RMatrix(MatrixClass(class), <<e.vec.row, e.vec.clm>>, data, <<>>, <<>>), e)

\* factor() of strings, which may be NA; the order of the levels is R's.
AsFactor(strings) ==
  LET levels == SetToSeq({strings[i] : i \in DOMAIN strings} \ {NA})
  IN  RFactor(levels, [i \in DOMAIN strings |->
                         IF strings[i] = NA THEN NA ELSE CHOOSE k \in DOMAIN levels : levels[k] = strings[i]])

\* ReturnTableColumnX, with its NA index.
Column(vec) == IF vec.t = DT_SYMBASE THEN Factor(vec) ELSE RVector(Class[vec.t], WithNA(vec))

\* Its strings become a factor, unless they are kept.
FrameColumn(vec, kept) ==
  IF ~kept /\ vec.t \in Plain /\ Class[vec.t] = "character" THEN AsFactor(WithNA(vec)) ELSE Column(vec)

\* Only the cbind() of a table on its own has stringsAsFactors = FALSE; the
\* data.frame() that a table of one column goes through has not.
StringsKept(clm, inList) == ~StringsAsFactors \/ (~inList /\ clm > 1)

\* DDB_GetEntity of a table: a column of an unsupported type is an "error in
\* DataFrame", no column at all an R error.
GetTable(e, inList) ==
  LET kept == StringsKept(Len(e.columns), inList)
  IN  IF e.columns = <<>> THEN RError
      ELSE IF \E i \in DOMAIN e.columns : e.columns[i].t \notin Plain \cup {DT_SYMBASE} THEN RNull
      ELSE RTable(e.names, [i \in DOMAIN e.columns |-> FrameColumn(e.columns[i], kept)])

\* DDB_GetEntity of an Entity, on its own or in a list, where the NA index of
\* integers is not looked at and character matrices are not supported.
GetEntity(e, inList) ==
  LET type  == ReturnRType(e.form, e.type)
      class == type[2]
      data  == IF inList /\ class = "integer" THEN Values(e.vec) ELSE WithNA(e.vec)
      timely == class \in {"Date", "POSIXct"}
  IN  CASE type[1] = "scalar" ->
             IF ~IsNull(e.vec) THEN RVector(class, e.vec.data)
             ELSE IF inList /\ ~timely THEN RNA ELSE RVector(class, <<NA>>)
        [] type[1] = "vector" -> RVector(class, data)
        [] type[1] = "factor" -> Factor(e.vec)
        [] type[1] = "matrix" /\ ~(inList /\ class = "character") -> MatrixOf(e, class, data)
        [] type[1] = "table"  -> GetTable(e, inList)
        [] OTHER              -> RNA

GetObject(e) ==
  IF ReturnRType(e.form, e.type)[1] # "list" THEN GetEntity(e, FALSE)
  ELSE LET parts  == [i \in DOMAIN e.elems |-> GetEntity(e.elems[i], TRUE)]
           failed == {i \in DOMAIN parts : parts[i].kind \in {"NULL", "error"}}
       IN  IF failed = {} THEN RList(parts) ELSE parts[Min(failed)]

-----------------------------------------------------------------------------
(* A DolphinDB object on the wire, as the classes above read it.           *)

ItemOf(t) == CASE t \in Plain -> Width[t] [] t = DT_VOID -> "char" [] OTHER -> "unread"

\* A symbol base of n strings, the first of which is the null.
Base(n, null) == [i \in 1 .. n |-> IF i = 1 THEN null ELSE i - 1]

\* Symbol i has the code i, the null the code 0.
Body(v, dim) ==
  <<Item("int", dim[1]), Item("int", dim[2])>> \o
  IF v.t = DT_SYMBASE
  THEN <<Item("int", 0), Item("int", v.base)>> \o Items("string", Base(v.base, Null))
       \o [i \in DOMAIN v.data |-> Item("int", IF v.data[i] = Null THEN 0 ELSE v.data[i])]
  ELSE Items(ItemOf(v.t), v.data)

EncodeVector(v) == <<Flag(DF_VECTOR, v.t)>> \o Body(v, <<Len(v.data), 1>>)

EncodeEntity(o) ==
  LET bit(lable)    == IF lable.t = DT_VOID THEN 0 ELSE 1
      vector(lable) == IF lable.t = DT_VOID THEN <<>> ELSE EncodeVector(lable)
      flag == <<Flag(o.form, IF o.form = DF_TABLE THEN DT_DICTIONARY ELSE o.v.t)>>
  IN  CASE o.form = DF_SCALAR -> flag \o Items(ItemOf(o.v.t), o.v.data)
        [] o.form \in {DF_VECTOR, DF_PAIR} -> flag \o Body(o.v, <<Len(o.v.data), 1>>)
        [] o.form = DF_SET    -> flag \o EncodeVector(o.v)
        [] o.form = DF_MATRIX ->
             flag \o <<Item("char", bit(o.row) + 2 * bit(o.clm))>> \o vector(o.row) \o vector(o.clm)
             \o flag \o Body(o.v, o.dim)
        [] o.form = DF_TABLE  ->
             flag \o Items("int", <<Len(o.columns[1].data), Len(o.columns)>>) \o <<Item("string", Null)>>
             \o Items("string", [i \in DOMAIN o.columns |-> i])
             \o FlattenSeq([i \in DOMAIN o.columns |-> EncodeVector(o.columns[i])])

Encode(o) ==
  IF o.v.t # DT_ANY THEN EncodeEntity(o)
  ELSE <<Flag(DF_VECTOR, DT_ANY), Item("int", Len(o.elems)), Item("int", 1)>>
       \o FlattenSeq([i \in DOMAIN o.elems |-> EncodeEntity(o.elems[i])])

-----------------------------------------------------------------------------
(* The objects there are.                                                  *)

RValue == Nat \cup {Null, NA}

VectorObjects == [kind : {"vector"}, class : RClasses, data : Seq(RValue)]

\* R has no level twice.  A code may be NA, or what an NA comes back as.
FactorObjects ==
  {r \in [kind : {"factor"}, levels : Seq(RValue), codes : Seq(Int)] :
     /\ \A i, j \in DOMAIN r.levels : r.levels[i] = NA /\ r.levels[j] = NA => i = j
     /\ \A i \in DOMAIN r.codes : r.codes[i] \in {NA, Bad} \cup DOMAIN r.levels}

MatrixObjects ==
  {r \in [kind : {"matrix"}, class : DOMAIN UploadType, dim : Nat \X Nat,
          data : Seq(RValue), rows : Seq(RValue), cols : Seq(RValue)] :
     /\ Len(r.data) = r.dim[1] * r.dim[2]
     /\ Len(r.rows) \in {0, r.dim[1]} /\ Len(r.cols) \in {0, r.dim[2]}}

TableObjects ==
  {r \in [kind : {"table"}, names : Seq(RValue), columns : Seq(VectorObjects \cup FactorObjects)] :
     r.columns # <<>> /\ Len(r.names) = Len(r.columns)}

AllRObjects == VectorObjects \cup FactorObjects \cup MatrixObjects \cup TableObjects

\* Those of DolphinDB: a vector has a type and values, and with symbols a base;
\* an absent lable is one of type VOID, a list is a vector of type ANY.
DVectors ==
  {v \in [t : 0 .. 255, data : Seq(Nat \cup {Null}), base : Nat] :
     v.t = DT_SYMBASE =>
       \A i \in DOMAIN v.data : v.data[i] \in 1 .. v.base - 1 \/ (v.data[i] = Null /\ v.base > 0)}

\* One of type ANY is a list in a list: v.data stands for what is in it.
DEntities ==
  {o \in [form : {DF_SCALAR, DF_VECTOR, DF_PAIR, DF_SET, DF_MATRIX, DF_TABLE}, v : DVectors,
          dim : Nat \X Nat, row : DVectors, clm : DVectors, columns : Seq(DVectors), elems : {<<>>}] :
     /\ o.v.t = DT_ANY => o.form = DF_VECTOR
     /\ o.form = DF_SCALAR => Len(o.v.data) = 1
     /\ o.form = DF_TABLE => o.v.t = DT_DICTIONARY /\ o.columns # <<>>
     /\ o.form = DF_MATRIX =>
          /\ Len(o.v.data) = o.dim[1] * o.dim[2]
          /\ Len(o.row.data) = IF o.row.t = DT_VOID THEN 0 ELSE o.dim[1]
          /\ Len(o.clm.data) = IF o.clm.t = DT_VOID THEN 0 ELSE o.dim[2]}

DLists ==
  {o \in [form : {DF_VECTOR}, v : DVectors, dim : Nat \X Nat, row : DVectors, clm : DVectors,
          columns : Seq(DVectors), elems : Seq(DEntities)] : o.v.t = DT_ANY}

ASSUME TransferAssumption ==
  /\ RObjects \subseteq AllRObjects
  /\ DObjects \subseteq {o \in DEntities : o.v.t # DT_ANY} \cup DLists
  /\ Zone \in Nat /\ StringsAsFactors \in BOOLEAN

-----------------------------------------------------------------------------
(* The program uploads an object, or has a script return one, fetches it   *)
(* and may upload what it got.  When items are left over, which the next   *)
(* call would read as its reply (Session), it connects again.              *)

VARIABLES
  pc,      \* where the call in progress is
  var,     \* the variable on the server: the items it sends when asked for it
  origin,  \* the object the variable was made from: one of R or one of DolphinDB
  stream,  \* the items sent and not read
  entity,  \* what ReceiveEntity has read: a sequence of at most one
  result   \* what the last fetch returned: a sequence of at most one

vars == <<pc, var, origin, stream, entity, result>>

None == [by |-> "none"]

Init ==
  /\ pc = "idle" /\ var = <<>> /\ origin = None
  /\ stream = <<>> /\ entity = <<>> /\ result = <<>>

\* dbUpload; the server keeps what it is sent.
Upload(r) ==
  /\ pc = "idle" /\ stream = <<>>
  /\ Uploadable(r)
  /\ var' = UploadEntity(r) /\ origin' = [by |-> "R", obj |-> r]
  /\ entity' = <<>> /\ result' = <<>>
  /\ UNCHANGED <<pc, stream>>

\* dbRun of a script that makes the variable; it returns nothing.
Assign(o) ==
  /\ pc = "idle" /\ stream = <<>>
  /\ var' = Encode(o) /\ origin' = [by |-> "DolphinDB", obj |-> o]
  /\ entity' = <<>> /\ result' = <<>>
  /\ UNCHANGED <<pc, stream>>

\* dbRun of a script that drops it.
Undefine ==
  /\ pc = "idle" /\ stream = <<>> /\ result # <<>>
  /\ var' = <<>> /\ origin' = None
  /\ entity' = <<>> /\ result' = <<>>
  /\ UNCHANGED <<pc, stream>>

\* dbRun of the variable's name: the server sends it.
Fetch ==
  /\ pc = "idle" /\ var # <<>> /\ stream = <<>> /\ result = <<>>
  /\ stream' = var /\ pc' = "receive"
  /\ UNCHANGED <<var, origin, entity, result>>

ReceiveEntity ==
  /\ pc = "receive"
  /\ LET read == ReadObject(stream)
     IN  stream' = SubSeq(stream, read.p, Len(stream)) /\ entity' = <<read.e>>
  /\ pc' = "decode"
  /\ UNCHANGED <<var, origin, result>>

\* A mutant: a data frame that fails is not cleared.
DecodeKeepsTable ==
  /\ pc = "decode" /\ pc' = "idle"
  /\ result' = <<GetObject(entity[1])>>
  /\ entity' = IF result'[1] \in {RError, RNull} THEN entity ELSE <<>>
  /\ UNCHANGED <<var, origin, stream>>

\* DDB_GetEntity; an R error does not reach Clear().
Decode ==
  /\ pc = "decode" /\ pc' = "idle"
  /\ result' = <<GetObject(entity[1])>>
  /\ entity' = IF result'[1] = RError THEN entity ELSE <<>>
  /\ UNCHANGED <<var, origin, stream>>

\* dbConnect makes a new stream and a new session.
Reconnect ==
  /\ pc = "idle" /\ stream # <<>>
  /\ stream' = <<>> /\ var' = <<>> /\ origin' = None /\ result' = <<>>
  /\ UNCHANGED <<pc, entity>>

UploadResult == result # <<>> /\ Upload(result[1])

Next ==
  \/ var = <<>> /\ \E r \in RObjects : Upload(r)
  \/ var = <<>> /\ \E o \in DObjects : Assign(o)
  \/ UploadResult \/ Undefine
  \/ Fetch \/ ReceiveEntity \/ Decode \/ Reconnect

Spec == Init /\ [][Next]_vars

-----------------------------------------------------------------------------
(* Correctness.                                                            *)

Kinds == {"vector", "factor", "matrix", "table", "list", "NULL", "error"}

\* The domains of the variables; in particular a fetch, whatever came of it,
\* leaves no object behind unless R stopped with an error.
TypeOK ==
  /\ pc \in {"idle", "receive", "decode"}
  /\ origin.by \in {"none", "R", "DolphinDB"}
  /\ Len(entity) <= 1 /\ Len(result) <= 1
  /\ result # <<>> => result[1].kind \in Kinds
  /\ pc = "idle" /\ result # <<>> => (entity # <<>> <=> result[1] = RError)

NullsAreNA(data) == [i \in DOMAIN data |-> IF data[i] = Null THEN NA ELSE data[i]]

\* What a script's object is in R: every null of every type is NA, but for the
\* string, CHAR or SHORT that is the lable of a row or a column.
Expected(v) ==
  IF v.t = DT_SYMBASE
  THEN RFactor(Base(v.base, NA), [i \in DOMAIN v.data |-> IF v.data[i] = Null THEN 1 ELSE v.data[i] + 1])
  ELSE RVector(Class[v.t], NullsAreNA(v.data))

ExpectedLable(v) ==
  IF LableClass(v) = "character" \/ v.t \in {2, 3} THEN v.data ELSE NullsAreNA(v.data)

ExpectedEntity(o) ==
  LET class == IF o.v.t = DT_SYMBASE THEN "character" ELSE MatrixClass(Class[o.v.t])
  IN  CASE o.v.t = DT_VOID -> RNA
        [] o.form = DF_MATRIX ->
             RMatrix(class, o.dim, NullsAreNA(o.v.data), ExpectedLable(o.row), ExpectedLable(o.clm))
        [] o.form = DF_TABLE  ->
             RTable([i \in DOMAIN o.columns |-> i], [i \in DOMAIN o.columns |-> Expected(o.columns[i])])
        [] OTHER -> Expected(o.v)

\* What an uploaded object comes back as: a value that is the null of its type as
\* NA, and the lable of a row or a column that is NA as the null of a string.  A
\* column of dates or times that are integers comes back as integers, and a time
\* of another zone than UTC, when it is not in a vector, as what its clocks show.
ReturnedColumn(c) ==
  IF c.kind = "factor" THEN c
  ELSE RVector(IF c.class \in {"intDate", "intPOSIXct"} THEN "integer" ELSE RClass(c.class), NullsAreNA(c.data))

ReturnedVector(r) ==
  RVector(RClass(r.class), NullsAreNA(IF Len(r.data) = 1 THEN AsUTC(r) ELSE r.data))

Returned(r) ==
  CASE r.kind = "table"  -> [r EXCEPT !.columns = [i \in DOMAIN @ |-> ReturnedColumn(@[i])]]
    [] r.kind = "matrix" -> [r EXCEPT !.data = NullsAreNA(@), !.rows = Nulled(@), !.cols = Nulled(@)]
    [] r.kind = "factor" -> r
    [] OTHER             -> ReturnedVector(r)

\* Two R objects have the same values; a class may only differ where there is
\* nothing but NA, a factor may have other codes for the same values.
Content(r) ==
  IF r.kind # "factor" THEN r.data
  ELSE [i \in DOMAIN r.codes |-> IF r.codes[i] = NA THEN NA
                                 ELSE IF r.codes[i] \in DOMAIN r.levels THEN r.levels[r.codes[i]]
                                 ELSE Bad]

SameVector(a, b) ==
  /\ a.kind = b.kind /\ a.kind \in {"vector", "factor", "matrix"}
  /\ Content(a) = Content(b)
  /\ a.kind # "factor" => a.class = b.class \/ AllNA(a)
  /\ a.kind = "matrix" => a.dim = b.dim /\ a.rows = b.rows /\ a.cols = b.cols

\* A column of strings that R made a factor has them still.
SameColumn(a, b, kept) ==
  IF ~kept /\ a.kind = "vector" /\ a.class = "character"
  THEN b.kind = "factor" /\ Content(b) = a.data
  ELSE SameVector(a, b)

Same(a, b, inList) ==
  IF a.kind # "table" THEN SameVector(a, b)
  ELSE /\ b.kind = "table" /\ a.names = b.names /\ Len(a.columns) = Len(b.columns)
       /\ \A i \in DOMAIN a.columns :
            SameColumn(a.columns[i], b.columns[i], ~StringsAsFactors \/ (Len(a.columns) > 1 /\ ~inList))

HasNACode(r) ==
  CASE r.kind = "factor" -> \E i \in DOMAIN r.codes : r.codes[i] = NA
    [] r.kind = "table"  -> \E i \in DOMAIN r.columns :
                              LET c == r.columns[i]
                              IN  c.kind = "factor" /\ \E j \in DOMAIN c.codes : c.codes[j] = NA
    [] OTHER             -> FALSE

\* The types the reader knows; a matrix may have lables of four classes.
SupportedVector(v) == v.t \in Plain \cup {DT_SYMBASE}

SupportedEntity(o) ==
  CASE o.form = DF_SCALAR -> o.v.t \in Plain \cup {DT_VOID}
    [] o.form = DF_TABLE  -> \A i \in DOMAIN o.columns : SupportedVector(o.columns[i])
    [] o.form = DF_MATRIX -> /\ SupportedVector(o.v)
                             /\ \A v \in {o.row, o.clm} : v.t = DT_VOID \/ LableClass(v) \in LableClasses
    [] OTHER              -> SupportedVector(o.v)

Supported(o) ==
  IF o.v.t = DT_ANY THEN \A i \in DOMAIN o.elems : SupportedEntity(o.elems[i]) ELSE SupportedEntity(o)

\* The two things DDB_GetEntity does not do in a list: a matrix of strings or
\* symbols is NA there, and a null CHAR or SHORT of a vector or a matrix stays the
\* number that stands for it.
LostInList(o) ==
  \/ o.form = DF_MATRIX /\ ReturnRType(DF_MATRIX, o.v.t)[2] = "character"
  \/ /\ o.form \notin {DF_SCALAR, DF_TABLE} /\ o.v.t \in {2, 3}
     /\ \E i \in DOMAIN o.v.data : o.v.data[i] = Null

\* The result of a script's object.
Arrives(o) ==
  IF o.v.t # DT_ANY THEN Same(ExpectedEntity(o), result[1], FALSE)
  ELSE /\ result[1].kind = "list" /\ Len(result[1].elems) = Len(o.elems)
       /\ \A i \in DOMAIN o.elems :
            LostInList(o.elems[i]) \/ Same(ExpectedEntity(o.elems[i]), result[1].elems[i], TRUE)

\* A reader leaves the stream where its writer ended, whatever the nesting of
\* tables, lables, sets and lists, for what R uploads and for what scripts
\* return; only then is the next reply read from its beginning.
StreamDrained ==
  pc = "decode" /\ (origin.by = "DolphinDB" => Supported(origin.obj)) => stream = <<>>

\* What is uploaded comes back the same, and again when that is uploaded, in
\* any number of rounds: NULLs, dimensions, lables and the levels of factors, with
\* or without an NA level, included.  The exceptions are those of Returned, what
\* only DolphinDB or only R tells from a null, how R stores a column of dates and
\* the zone of a single time; and that R before 4.0 makes a factor of the strings
\* of a data frame with one column.
RoundTrip ==
  pc = "idle" /\ origin.by = "R" /\ result # <<>> /\ ~HasNACode(origin.obj) =>
    Same(Returned(origin.obj), result[1], FALSE)

\* What a script returns is in R the value of the table of types (README.md),
\* with every null as NA, on its own in every form that can hold it; in a list
\* too, but for the two things in LostInList.  Strings of a data frame may be a
\* factor with the same values, where R before 4.0 makes one: in a list, and
\* when there is no other column.
ValuesArrive ==
  pc = "idle" /\ origin.by = "DolphinDB" /\ result # <<>> /\ Supported(origin.obj) =>
    Arrives(origin.obj)

-----------------------------------------------------------------------------
(* What a comment says and the code does not do.                           *)

\* UploadVectorSymbol finds the nulls of R and skips them, wherever they are
\* (its comment), so a factor keeps an NA that is no level.
FactorsKeepNA ==
  pc = "idle" /\ origin.by = "R" /\ result # <<>> => Same(Returned(origin.obj), result[1], FALSE)

=============================================================================
