# Specifications of the DolphinDB R API

TLA+ models of the client in this repository, their TLC runs, and proofs checked
by TLAPS.  Everything below `tla/` was written from the code; line numbers
are in `PROJECT.json` (`map`).

## The system

An R process loads one shared library with one global `Rcpp_Connector cnt`
(`src/src/connector_cppapi.cpp`).  R is single-threaded: one API call runs at a
time, so the interleavings are those of the call with the network and the
server.  The classes of `include/Socket/` were written for several threads
(`SmartPointer` counts atomically) and are modelled as such.

| Component | State | Operations | Talks to |
|---|---|---|---|
| R API, `R/RDolphinDB.R` | `conn@connected` of each connector object | dbConnect, dbRun, dbRpc, dbUpload, dbClose | `DDB_*`, exported C++ functions |
| `DDB_*`, `R/RDolphinDB_impl.R` | none | dispatch by R class (upload) and by R type (download), NA handling, `DDB_RPC` | exported C++ functions |
| `Rcpp_Connector`, `include/R_CPP_Connector.h` | `connected`, `sessionID`, `remoteLittleEndian`, `socket`, `in`, `entity`, `anyvector` | connect, disconnect, Run*Init, Upload*, ReceiveEntity, ReceiveHeader, Clear | Socket, DataInputStream, Buffer, Entity |
| `DataInputStream`, `include/Socket/SysIO.h` | `buf_`, `capacity_`, `cursor_`, `size_`, `closed_` | readString, readLine, numeric and block reads, peeks, close | Socket |
| `Buffer`, `BufferWriter` | `buf_`, `capacity_`, `size_`, `external_`; `buffer_`, `size_` | write, clear; start, resume | Socket |
| `Socket` | `handle_`, `blocking_`, `autoClose_`, `host_`, `port_` | constructors, connect, bind, listen, accept, read, write, close | kernel |
| `SmartPointer`, `Counter` | `counterP_`; `p_`, `count_` | construct, copy, assign, clear, destroy, dereference | the object pointed to |
| `Entity`, `Scalarr`, `Vectorr`, `Matrixx`, `Tablee`, `AnyVectorr` | the object received, `NA_INDEX`, pointers to the parts | constructors that read, getters, destructors | DataInputStream, Utill |
| `Utill` | none | dates and times, `ReturnRType`, `IsVariableCandidate` | - |
| DolphinDB server (outside) | session, variables | one reply to each complete request | the TCP connection |

What is hard here, and what makes each part correct:

* **DataInputStream** - `recv()` cuts the stream anywhere; the buffer is
  compacted and reallocated between two `recv()`s of one line while offsets
  into it are kept; a block that ends inside a unit is put back.  Correct: bytes
  are delivered once, in order, lines end at the first terminator, a failed read
  and a peek consume nothing, a call returns when the peer is gone.
* **Buffer, BufferWriter and write** - the buffer grows by doubling up to a limit
  behind which values are refused, and no caller looks at the result; the kernel
  takes any part of a block.  Correct: bytes leave once and in order, and it is
  known which ones do not leave.
* **Socket** - the descriptor is a number the kernel gives to somebody else once it
  is closed; `connect`, `bind` and `listen` close it or overwrite it in the middle.
  Correct: a Socket closes its own descriptor, once.
* **SmartPointer** - another thread acts between reading a counter and
  counting.  Correct: an object is freed once, when the last pointer to it goes.
* **Connector and session** - replies are matched to requests by order alone, an
  "OK" line is left over by the handshake, errors close the connection in some
  places and not in others, received objects are raw pointers that every way
  out must delete.  Correct: one connection; a call returns its own reply;
  nothing leaks; calls return; dbConnect tells the truth.
* **Received objects** - a tree of raw pointers is built while the stream may
  end, `reserve()` may throw and types may be unknown, and is then looked at by
  code that trusts the flag.  Correct: one owner each, freed once, no pointer
  that was never set is followed.
* **Transfer of objects** - writers in R and C++ and recursive readers must agree
  on every item, and each type has its own null, handled in R, in C++, or in
  both.  Correct: the readers stop where the writers did; a round trip changes
  no value and loses no NA.
* **Dates** - four number systems, three leap rules, truncating division and
  doubles.  Correct: the conversions are the calendar, and inverse to each other.

`PROJECT.json` lists these hazards one by one under `hazards`, each at its line,
with the properties that would notice it going wrong.

## Modules

| Module | Models | Uses |
|---|---|---|
| `ByteStream` | what the stream promises to its caller: a byte sequence, a position, calls that return in one step | - |
| `InputStream` | `DataInputStream` over `Socket::read`, at the level of the buffer's memory | `ByteStream` (refinement) |
| `InputStreamProofs` | the inductive invariant of `InputStream`, the theorems, and that it implements `ByteStream` | `InputStream`, TLAPS |
| `ByteSink` | what the sending side promises: bytes leave once and in order, or are lost for good | - |
| `OutputBuffer` | `Buffer`, `BufferWriter`, the one write of `Rcpp_Connector`, `Socket::write` | `ByteSink` (refinement) |
| `OutputBufferProofs` | the inductive invariant of `OutputBuffer`, and that it implements `ByteSink` | `OutputBuffer`, TLAPS |
| `Socket` | who has which descriptor: constructors, connect, bind, listen, accept, close | - |
| `SocketProofs` | the inductive invariant of `Socket` and the theorems | `Socket`, TLAPS |
| `SmartPointer` | `SmartPointer` and `Counter`, step by step, several threads | - |
| `SmartPointerProofs` | the inductive invariant of `SmartPointer` and the theorems | `SmartPointer`, TLAPS |
| `Session` | API calls, `Rcpp_Connector`, socket, stream of items, server | - |
| `SessionProofs` | the inductive invariant of `Session` and the theorems | `Session`, TLAPS |
| `Objects` | construction, ownership and destruction of received objects | - |
| `ObjectsProofs` | the inductive invariant of `Objects` and the theorems | `Objects`, TLAPS |
| `Transfer` | layout of uploaded and received objects and their R values | - |
| `TransferProofs` | what is read of what was written, for data of any length, and the theorems | `Transfer`, TLAPS |
| `Calendar` | date and time conversions of `Utill.h` | - |
| `CalendarProofs` | the calendar as one number for each day, and the theorems | `Calendar`, TLAPS |
| `MC...` | instances for TLC | the module named |

The modules cut the system at its interfaces.  `InputStream` shows that the
buffer is a faithful byte stream; `Session` therefore takes the stream as a
sequence of lines and objects that are read whole or fail, and `Transfer` as a
sequence of typed items.  `Session` keeps only what of an object decides control
(entity, any-vector, unsupported); `Transfer` is about its contents and
`Objects` about its memory.  `Session` uses one Socket in one way, `Socket` is the
class under any sequence of calls.  Operators named in "A mutant: ..." comments are
wrong variants of the operator below them, kept to show that the properties can
fail.

### InputStream

State: the fields of `DataInputStream` under their own names (`buf` is a function
on the offsets `0 .. capacity_ - 1`, with `Junk` where memory is uninitialized),
the bytes the peer has sent, how many of them `recv()` has returned, and the call
in progress (`pc`, `op`, `need`, `unit`, `searched`).  `ReadUntil`, `ReadBytes` and
`ReadBlock` start a call; `TakeLine`, `MakeRoom`, `LineTooLarge` are one round of
`prepareBytesEndWith`, `PrepareBytes` and `BytesTooLarge` the head of
`prepareBytes`, `TakeBuffered` and `BlockFilled` the block reads, `Fail` every
way a call ends without its value (with the unit it puts back), `Recv`,
`RecvBlock`, `RecvZero`, `RecvNothing`, `RecvError` the outcomes of
`Socket::read`.  A peek is a read whose `Consume` does nothing.  `Arrive` and
`Hangup` are the peer.  A `recv()` with no room returns 0, as POSIX says, so
`RecvZero` would report a live connection as lost: `RecvHasRoom` says it
never gets there.

Run `input_stream`: `LF` and `NUL` as the byte values, `CR` the same value as
`NUL`, so that each value is the terminator of one operation and data (or the
stripped '\r') for the other.  First buffer 2, threshold 1, maximum 3, four
bytes: the order of the code's 1024 < 2048 < 65536 is kept; growth, the cap,
compaction and both "too large" cases occur; lengths 3 and 4 are at and above the
maximum, blocks of two units of two bytes and one unit that is refused.  The
socket waits or does not, and the choice is part of the initial state.
`peekBuffer` and `bufferBytes` share every step with `readBytes` but `Consume`,
which `peekLine` exercises: they are in the model and in the proofs and not in the
run.  It checks five invariants, the refinement `ImplementsByteStream`, and two
liveness properties under weak fairness of `Reader`: the thread that made the call
does nothing else, and `recv()` returns when there is something to return.
`ReadsReturn` says that no call outlives the connection or waits on a socket that
does not wait; `ArrivedLineIsRead` that a line that is there is delivered.

### OutputBuffer

A byte is its number among the bytes handed to `Buffer::write`, so a byte lost,
repeated or out of order shows.  `Write` and `Clear` are the Buffer; `Send` starts
the one write of `Rcpp_Connector` (caller "once", result and count ignored) or
`BufferWriter::start` (caller "writer"), `Resume` is `resume`, `Returns` what either
does with what `Socket::write` returned.  A blocking `send()` copies piece by
piece (`Copy`) and returns early only after a signal or a broken connection
(`SendShort`); one that does not block takes what there is room for.

Run `output_buffer`: both callers, blocking or not, a buffer of its own or an
external one; capacity 2, limit 3 (growth passes the limit once, as 2 * capacity
does in the code), a kernel with room for 2, values of 1 and 3 bytes, eight bytes
in all, which is a refused value, two blocks and several short writes.
`BufferHolds` says which bytes a Buffer holds and that only a block longer than its
limit is cut; `WriterKeepsAll` that a BufferWriter loses nothing on a live
connection; `ImplementsByteSink` that order and uniqueness hold for all callers
and what a caller "once" loses is lost whole; `BlockEnds` that the loops end, under
weak fairness of the sender and of a peer that reads (`Drain`).  The loss of the
rest of a request after a short write is therefore in the model: with "once" `cut`
is not empty, which `WriterKeepsAll` excludes for "writer" only.  No property forbids it
for "once", since the code does nothing about it (`Rcpp_Connector` ignores what `write`
returns).  The API itself has no `BufferWriter`; the class is part of the library.

### Socket

`user` is the kernel's table: who has opened a descriptor.  `NewFd` is the lowest
free one.  `OpenOther` and `CloseOther` are the rest of the process, so a number
that was closed is taken again by somebody else.  `dangling` are the Sockets
whose `handle_` is not theirs although they do not know: `bind()` and `listen()`
close the descriptor on failure and keep it, the client-mode constructor leaves
`handle_` uninitialized.  `spoiled` becomes TRUE when such a Socket closes its
handle; nothing is claimed after that.  Run `socket`: two Sockets, three
descriptors, addresses that are tried one after the other, non-blocking (the
blocking connect has the same steps but `InProgress`), symmetric in the Sockets.
The run makes Sockets with the default
constructor (`Rcpp_Connector` has it by way of `SmartPointer`), the client constructor and from
a given descriptor; it leaves out, to stay small, the constructor in server mode: one that
was made by the default constructor and has its port from `connect` takes the same steps.
`Modes` are the values the program asks for as `blocking`; the default constructor has its own.
`OwnsHandle`, `NothingElseLeaks` and
`ConnectReports` hold; the second names the leak that exists: a `connect()`
over a handle that was valid forgets it - in `Rcpp_Connector` the descriptor the
default constructor has opened.

### SmartPointer

Each operation is split where another thread can come between: reading
`counterP_`, `addRef`, the store, `release`, the two deletes.  A variable is constructed
and destroyed by its owner; `Shared` ones are there from the start, and every thread
copies and uses them; `Written` are those of them that their owner assigns or clears
meanwhile, which is the case of one writer and several readers that two comments of the class
(`SmartPointer.h:61` and `:84`) call safe.  Run `smart_pointer`: a writer `w` of the shared
variable with a variable of its own, a reader `r` with two, three counters.

It is not safe: a reader takes `counterP_` in one step and counts or follows it in the
next, and the writer may release the last reference in between.  Run `shared_writer` shows it
(`OneWriterIsSafe` is violated), and `NoUseAfterFree` says that this is all there is: the
first thread to touch a deleted Counter is a reader of a variable whose owner assigned it
after it was read.  Once such a reader has counted a Counter at zero (`revived`), nothing is
claimed of deletes any more, since the Counter is deleted again.  `CountsReferences` relates the
count to the references at every step and holds throughout, and `GarbageIsFreed`
holds under weak fairness of `Continue` (a thread in an operation goes on).  In the API
all this is done by the one thread of R.

### Session

One action per step of a call between two points where the outside can act: a
call that sends (`Run`, `Rpc`, `Upload`, `Connect`), then a step for each read
(`HandshakeOK`, `ReadHeader`, `ReadMsg`, `ReadObject`, ...), each with its failing
variant (`StreamEnded`: a read that fails leaves its variable as it was),
then `Decode`, or an R error that skips `Clear()` (`DecodeError` in DDB_GetEntity, `ReadThrows`
in a constructor).  `Fill` is one `recv()` of the stream, which takes any number of items.
`Serve` is the server, which answers a request only when every announced argument is there;
`Hangup` takes its end away at any moment and loses a suffix of what it sent.

A payload that was left unread (an object of an unsupported type) is read by the calls behind
it.  From then on (`strayed`) bytes are cut anywhere: an item read as a line may
look like any line and leave up to `MaxPieces` pieces of it (`Rests`); what is read as an object is
any object (`ReadGarbage`), or throws over its size (`ReadThrows`), or takes what there is and
wants more (`Swallow`), so that the reader waits in `recv()` for bytes a live server has
no reason to send.

Run `session`: one connector object (they all share the one connection; a second one is a
second copy of its status, which the proofs cover), two connections, three
requests, argument lists that are sent, skipped and stopping, keys with and without
repetition, one piece.  Three requests let a reply be shifted, seen, and shifted again by
a reconnection.  `CallsReturn` is checked under weak fairness of the caller and of
the server.  There are four ways for a call not to return: arguments that were
announced and not sent (`Unserved`), the end of the stream behind an "OK" line (`spin`), an
upload without a stream (`crashed`), and stray bytes that promise more than there is
(`Astray`).  `NothingLeaks` excepts what an R error left behind.  `ConnectTellsStatus`
characterises the status of the object dbConnect returns: it
is copied before the login call, so an object may say "connected" after that call
has closed the connection, and only then be wrong.  The model may stop (the process
spins or has crashed, the bounds are used up), so deadlock is not checked;
`CallsReturn` says where a call may stay.

Runs that find a disagreement with a statement of the repository:

* `upload_skipped_argument` (`UploadSendsAll`): dbUpload announces variables it
  does not send, and then both ends wait; repeated keys do the same;
* `upload_skip_loop` (`UploadReturns`): the loop over leftover "OK" lines never
  ends when the stream does.

### Objects

An object is a record with its pointers, `stack` the constructors in progress.
`BeginChild`, `ReadChild` and `SkipChild` are one step of the innermost
constructor, `Return` and `Received` its end, `Throw` the exception of a size that was
never read.  After `StreamEnds` flags keep what was in their variable: 0 where
the code initializes it, anything in `Matrixx` and `Rcpp_ReceiveEntity`, which
do not.  `Decode` is `DDB_GetEntity` as far as pointers go: what it dereferences
for the R type of the flag (`Derefs`), where it must or may stop with an R error (`MustFail`: a
table without columns; `MayFail`: a lable it has no values of, `Nameless`, since R may find a
`result` that was left from the rows), and `Clear()`.  Lables that `CreateVector` reads and
`DDB_ReceiveMatrixLable` does not know (dates, times, symbols) are of the type "date".  A form without
a class, such as a dictionary, may come from a live server; what it leaves unread is the
business of `Session`.  `DisConnect` deletes `entity` only, as the code does.  Run
`objects`: six places and at most two elements or columns: a list with a table or a
matrix with a lable, next to what earlier calls left behind.  `OneOwner` holds
throughout, `OnlyKnownLeaks` names what is left behind (the vector of a pair, which
`~Entity` forgets; what an exception or an R error gave up), `CrashExplained` when a
bad pointer is used: a matrix of an unsupported type, or an object the stream ended in.

### Transfer

Writers (`UploadX`) and readers (`CreateVector`, `Matrixx`, `Tablee`, `Entity`,
`AnyVector`) are operators on sequences of typed items; reading an item as
another type, or past the end, yields `Bad`.  `GetObject` is `DDB_GetEntity`.  The
state machine uploads an object of R or lets a script make one, fetches it,
and may upload what it got, for any number of rounds.  `Encode` is the server's
side, modelled from what the readers expect.  A value is 1, 2, or the `Null` of its
type; R's `NA` is something else, which is the point.  The value of a number and
the byte order are not modelled.

How a vector of R is stored is part of its class: a Date or POSIXct may hold integers (`intDate`,
`intPOSIXct`), and a POSIXct may be of another zone than UTC (`localtime`).  `is.integer()` is asked before
the class, so a column of integers goes as INT; a time on its own goes through
`as.character()`, which writes what the clocks of its zone show, and is read as one of UTC,
`Zone` too late (`AsUTC`); in a vector the number of seconds goes as it is.  `StringsAsFactors` is what
R does with the strings of a data frame unless told otherwise (TRUE before 4.0; the package
admits 3.2): only the `cbind()` of a table on its own is told, and a table of one column goes
through `data.frame()` behind it (`StringsKept`).  The index of a vector's nulls is there when the
vector was read, but that of symbols is made with their strings (`NAIndex`), so `WithNA` takes the
values first, as the code does.

`TransferAssumption` says which objects there are: every value that R or a script
can have in the forms above (in R, at most one level of a factor is NA, because no
level is there twice; `UploadVectorSymbol` would keep the last one only).  `RoundTrip`
compares with `Returned`, not with the object itself: a value that happens to be the null
of its type (the empty string, say) comes back as NA, and an NA
in the name of a row or column as the null of a string, since lables have no NA index on
the way back; a column of dates stored as integers comes back as integers, and a single time of
another zone as what its clocks show.  In an R that makes factors of strings, those of a data
frame of one column are a factor with the same values (`SameColumn`).  `FactorsKeepNA` is the
same without the exception for NA codes.  `ValuesArrive` says the same of lables: `ExpectedLable` leaves the nulls of a
string, CHAR or SHORT lable as they are, and excepts in a list what DDB_GetEntity does not do
there (`LostInList`): matrices of strings or symbols are NA, and the nulls of CHAR and SHORT vectors and
matrices are ordinary integers (`RDolphinDB_impl.R:374` and `:411` do not look at the NA index).

Run `transfer`: all types in all forms, vectors of none to three values with the
null in different places, matrices with every combination of lable types,
tables of one and two columns (empty ones too), lists of an object and a scalar in
both orders and the empty list, factors with the NA level at every position.
Lables of rows and columns may hold a null, and R values the null of their type.
The bounds only serve the run: the theorems of `TransferProofs` are about data of every
length.  Lists in a list are in the run and the proofs (`DEntities` has the type ANY): the reader has no
case for them and leaves their elements in the stream.  Symbol bases have none to five entries in
the run, any number in the proofs.  Only objects the reader supports are claimed to arrive.
The run has `Zone = 1` and `StringsAsFactors = TRUE`, so the exceptions occur; the theorems are about
every zone ahead of UTC and both kinds of R.  `factor_na` shows a null that is lost.

### Calendar

A walk over days, from 1970-01-01 back 140000 and ahead 160000 days (two cycles of
400 years: 1586 to 2408), that knows only the lengths of months; at every day
`ParseDate`, `CountDays` and the others are compared with it.  TLC's integers have
32 bits, so there are 2 and 4 units to a second instead of 1000 and 10^9, and
nanoseconds are looked at 5000 days around 1970.  Milliseconds of a day's range
are exact in a double; nanoseconds are not: `Double` rounds to the nearest multiple of `Ulp`, the
distance of doubles, which is 1 below `Precision` (2^53 in the code, 2^26 in the run) and
doubles with every power of two, ties to even; `DoubleDay` rounds the quotient by NANOS_PER_DAY in
the same way (`HalfPlace`), and then down.  `Powers` are the powers of two, so that no
recursion is needed.

`WalkAssumption` keeps the walk within the years 0 and 9999: before, the truncating divisions of
`ParseDate` round the other way, and nothing is claimed.  From year 10000 on the text of a
date is a character longer, and the fields are taken from fixed places (`CutText`): a scalar date is
sent as a null, which `DatesSurvive` says too.  The texts "NA" and of a day the month does not
have are nulls as well.
`DateTimesSurvive` and `NanotimestampsSurvive` say exactly where the code and the
calendar part: a DATETIME before 1970 is a day early at midnight and counts its
clock backwards at any other time, and a NANOTIMESTAMP within the two roundings of the
next midnight may get the next day's date - never while the number is a double, always
in the last unit of a day when it is not (the table of types in the repository's README
has neither exception).  `CountSeconds` is compared as far as an `int` goes
(2038-01-19).

## Proofs

Each module of proofs holds an inductive invariant: what the properties need in
addition to themselves to survive every step.  The proof of a step is one lemma for
each action, and the theorems follow from the invariant.  None bounds a constant:
what a run shows for its instance holds for every value the assumptions admit.

### InputStream

`InputStreamProofs` proves for every byte set, buffer size, threshold, maximum,
set of lengths and blocks, socket mode and number of bytes, from three assumptions
(`ByteAssumption`: terminators are bytes, uninitialized memory is not one;
`SizeAssumption`: sizes are positive, the first buffer is not larger than the
maximum; `BlockAssumption`: a unit fits the first buffer, or is larger than the
maximum and refused - the code copies what is left of a unit into the buffer
without looking at its capacity, and no caller has units of other sizes):

* `TypeCorrect`: `Spec => []TypeOK`, with `capacity_ <= MAX_CAPACITY`;
* `WindowCorrect`: `Spec => []WindowHolds`;
* `RoomForRecv`: `Spec => []RecvHasRoom`;
* `SkippedCorrect`: `Spec => []SkippedHasNoEnd`;
* `BlockCorrect`: `Spec => []BlockHolds`.

The five are not inductive one by one: a `recv()` keeps the window only if there
was room, room depends on how the buffer was moved, the skipped prefix makes
sense only with the window, and putting a unit back keeps the window only because
the block has emptied the buffer.  The invariant is their conjunction `IInv` with
`CallShape`, which ties `pc`, `op` and `need` together, and `BlockShape`, which
bounds `unit`.  Three lemmas carry the argument: `Moved` describes every way the
buffer changes between two `recv()`s (nothing, compaction, reallocation) and
`MovedWindow`/`MovedHolds` show that none changes the unread bytes; `BytesAreNext`
turns bytes of memory into bytes of the stream; `PutBackHolds` is the unit that
is put back.  Each action then has one lemma.

The last part of the module proves `StreamPromise`: `Spec => ImplementsByteStream`,
from the same assumptions.  It needs one fact more than `IInv`: a `recv()` for a line
is called only when all of the window was searched (`SearchedAll`); otherwise the
abstract stream would have had to return the line.  Each action is mapped to
the abstract action, or the stutter, that it is; that the line found in the
buffer is the first one of the stream is `BytesAreNext` again.

### OutputBuffer

From `OutputAssumption` (capacities and the kernel's room are positive, every value
has a byte): `TypeCorrect`, `HoldsCorrect` (`BufferHolds`), `WriterCorrect`
(`WriterKeepsAll`) and `SinkPromise` (`Spec => ImplementsByteSink`).  A block that is
sent in pieces keeps what the Buffer holds only together with `BlockShape` (where a
block is while it is written) and `Accounted`: every byte handed over has left,
is lost, or is in the part of the Buffer still to be sent, and in no two of
them.  `Accounted` also makes each step one of `ByteSink`: what leaves next is the
lowest byte still pending.

### Socket

For every number of Sockets and descriptors, every choice of constructors, modes
and addresses, from `SocketAssumption` (the descriptors are `0 .. n - 1`, finitely
many, the modes Boolean, at least one address is found): `TypeCorrect`,
`OwnerCorrect` (`OwnsHandle`), `LeaksKnown` (`NothingElseLeaks`) and `ReportCorrect`
(`Spec => ConnectReports`, an action property).  `OwnsHandle` and `NothingElseLeaks` are
inductive only together, with `CallShape` (between two addresses `handle_` is
invalid once the last one was tried, and a Socket that is connecting does not
dangle) and `DanglingForgets` (a Socket whose handle is not its own has forgotten
whatever it still has open, so that closing the wrong handle is the only harm it
can do).

### SmartPointer

For every finite number of threads and variables, from `PointerAssumption` (each
variable has an owner; there are counters enough for the shared variables, each of which
has an object of its own from the start): `TypeCorrect`, `CountsCorrect`
(`CountsReferences`), `UseCorrect` (`NoUseAfterFree`) and `ReadersAreSafe`: with nobody who assigns a
shared variable (`Written = {}`), `OneWriterIsSafe`, which fails with one writer, holds.  The count of a Counter is the
cardinality of its references, which every step changes by one reference at
most (`Gain`), so an operation must know where its references are
(`ThreadShape`: in particular, a Counter that was read and not yet counted is held by the
variable it was read from, unless the owner has assigned that meanwhile).  That in turn makes `release`
reach zero once, for one thread, and `OneFrees` says that this thread alone deletes and frees, as long
as no such reader has counted a Counter at zero.

### Session

For every number of connector objects, connections and requests and every list of
arguments, from `SessionAssumption` (the domains of the constants): `TypeCorrect`,
`OneCorrect` (`OneConnection`), `NothingLeft` (`NothingLeaks`), `StatusCorrect`
(`Spec => ConnectTellsStatus`, an action property) and `ReplyCorrect` (`OwnReply`).
The first four follow from `Shape`, what each variable may be at each `pc`.
`OwnReply` needs `InOrder`: as long as no payload was left unread, the items in the
stream and in the network are the front of one reply, to the request of the
call in progress, behind the "OK" line that dbConnect left if it did; and the
server has that request, or none.  It is stated with what is still to be
read (`Rest`), so reading an item, a `recv()` of any length, an answer, and a
hangup that loses any suffix each keep it.

### Objects

For a memory of any size and lists and tables of any length, from
`ObjectsAssumption` (places are positive numbers): `TypeCorrect`, `OwnersCorrect`
(`OneOwner`), `LeaksCorrect` (`OnlyKnownLeaks`) and `CrashCorrect` (`CrashExplained`).
The inductive invariant, checked by TLC on the instance of `MCObjects` before it
was proved: `Memory` and `Links` (what a place holds and who may point to what),
`StackShape` (each constructor in progress waits for the one above it), `Roots` (the
connector has what the flag promises), `Owned` (one owner each), `Rooted` (an
object without an owner is a known leak) and `Readable` (what `Derefs` will
follow in a complete entity is there, unless the stream has ended).  Lists,
entities, matrices and tables, and vectors and scalars are four ranks, and a pointer
leads to a lower one (`Lower`); with one owner each, the objects form trees of
that depth.  What is deleted from one root is therefore nothing that another root
leads to, and no pointer is left to what was deleted.

### Calendar

For every day of the years 0 to 9999, every time of day, every number of units to a
second and every size of a double's significand, the code's 1000, 10^9 and 2^53 included, from
`WalkAssumption` and `DoubleAssumption` (there are powers of two enough, and every midnight is a
double): `DatesCorrect`,
`TimesCorrect`, `DateTimesCorrect`, `TimestampsCorrect` and `NanotimestampsCorrect`, one
for each invariant of the run.  The walk knows only the lengths of months; the
inductive invariant gives the day a closed form, `YearStart(y) + Cumulated(y)[m] + d =
days + 719529`.  From it `YearOf` and `MonthOf` show that the guesses of `ParseDate`, a
365th of the days and a 32nd of those of the year, are off by one at most
and corrected to the day's own year and month, and `CountDaysIs` that `CountDays` undoes them.  The times of a day are
facts about truncating division (`DivUnique`, `Scaled`, `Lifted`, `Rest`), and `DoubleDayIs` is
about a number and a quotient rounded to doubles: rounding does not pass
a midnight, because a midnight is a double (`NearestBetween`).

### Transfer

For every set of R objects and every set of objects of DolphinDB: `TypeCorrect`
(`TypeOK`), `StreamCorrect` (`StreamDrained`), `RoundTripCorrect` (`RoundTrip`) and
`ArrivalCorrect` (`ValuesArrive`).  `TransferAssumption` says what the objects are, and no
more (and that `Zone` is a number, `StringsAsFactors` a truth value): vectors of any length, factors, matrices whose values and lables fit their
dimensions, data frames of any number of columns, of the six classes R uploads,
however they are stored; vectors (with symbol bases of any size), scalars, pairs, sets, matrices and tables of any of the 256 types, and lists
of them of any length, lists in lists included.  R has no level of a factor twice, so there is at most one
NA level; values of DolphinDB are a null or another value of their type.

The inductive invariant `IInv`, checked by TLC on the instance of `MCTransfer` before
it was proved, is short: the variable on the server is the object it was made from, as
R writes it (`Uploaded`) or as DolphinDB does (`Assigned`), a call in progress holds what
is read of it (`Received`), and a result is what `GetObject` makes of that (`Decoded`).
The work is in what the operators do to data of every length:

* `Holds(in, p, s)` says that a stream has the items `s` from `p` on.  `Carries(s, vec)` and
  `CarriesEntity(s, e)` say that whoever meets `s`, anywhere in any stream, reads `vec`
  or `e` and stops behind it.  `PlainCarries`, `SymbolsCarry`, `ScalarEntity`, `MatrixCarried`,
  `TableCarried` and `ListRead` prove this of everything that is written, so each
  container needs only what its parts carry;
* loops over columns and elements are recursive functions.  `Induction` and `Recursion` are
  proved from `Least`, which says that a set of numbers has a least element because finite
  sets are well-founded under inclusion (`FS_StrictSubsetOrderingWellFounded`): this needs
  no theorem of the library that takes an operator.  `TableReads`, `ListRead`,
  `SymbolBaseReads` and `HoldsFlattened` are inductions over it;
* `CodesAre` and `FactorCarried` follow a factor through `UploadVectorSymbol` and back: below
  an NA level the codes stay, above it they move down and are moved up again by the
  null at index 0 of the symbol base;
* `ObjectReturns` (an object of R that is uploaded) and `EntityArrives` (a supported
  object of DolphinDB, on its own and in a list) compare what `GetEntity` makes of it with
  what it was;
* `AsFactorKeeps` and `FrameColumnSame` show that a column keeps its values when R makes a factor of
  it, with `StringLevels` for the levels;
* `EntityGotten` is about the objects that are not supported, which the reader leaves
  half read: R gets NA, NULL, an error, or an object with the wrong lables.  Whatever it
  is, it can be uploaded again or is refused, so `RoundTrip` also holds for what
  comes from there.

### Only model-checked

* Liveness: `ReadsReturn`, `ArrivedLineIsRead`, `CallsReturn`, `BlockEnds` and
  `GarbageIsFreed`.  They are about fairness and ENABLED, which are beyond the prover.
* What `factor_na` and `shared_writer` refute cannot be a theorem.  `RoundTrip` excepts the NA codes
  of factors, and `NoUseAfterFree` names the readers that `OneWriterIsSafe` does not see.

Every invariant, action property and refinement that a passing run checks is a
theorem.  No module declares a RECURSIVE operator.

## Not modelled

* The file and array sources of `DataInputStream`, `reset`, `getPosition` and
  `moveToPosition`, and `DataOutputStream`: nothing in the API calls them, and
  the first two would replace the peer by a fixed sequence.
* Byte order: uploads are written in the client's order with the server's endian
  flag in the header, right on little-endian machines only.
* The text of dates, messages and warnings; `IsVariableCandidate`, a test of
  characters.
* Generated Rcpp glue, package files, manual pages, tests, Windows differences,
  socket options and address lookup: no state of their own.
* `send()` has no MSG_NOSIGNAL (`SysIO.h:435`), so a broken connection may also raise
  SIGPIPE, and what R does with the signal is not in the models: the `send()` fails.
* A request cut short in `Session`: `OutputBuffer` shows when that happens,
  `Session` takes a request as written whole or lost whole.

## Plan

Done: all modules of the table above, with a theorem for every invariant, action
property and refinement.  What could follow:

* The file and array sources of `DataInputStream` and `DataOutputStream`, should a
  caller appear.
* A request that is cut short in `Session`, which `OutputBuffer` has and `Session` takes as
  lost whole.
