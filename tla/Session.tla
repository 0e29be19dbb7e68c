------------------------------ MODULE Session ------------------------------
(***************************************************************************)
(* The session of an R process with a DolphinDB server: the API calls of   *)
(* R/RDolphinDB.R, the one global Rcpp_Connector they share, its socket    *)
(* and stream, and a server that serves one request at a time.             *)
(*                                                                         *)
(* A request is a message and the arguments it announces; a reply is a     *)
(* header line, a status line and at most one object.  The stream is taken *)
(* at that granularity (InputStream models it byte by byte): a read takes  *)
(* the next item, or fails and leaves its caller's variable as it was.  R  *)
(* runs one call at a time; the server and the network act between any two *)
(* reads of it.                                                            *)
(***************************************************************************)
EXTENDS Integers, Sequences, FiniteSets

CONSTANTS Conns,     \* the connector objects the R program holds
          ArgLists,  \* the argument lists of dbRpc and dbUpload
          Repeats,   \* how many keys of a dbUpload repeat an earlier one
          MaxConn,   \* bound on the connections made
          MaxReq,    \* bound on the requests made
          MaxPieces  \* bound on the reads that what is left of an item serves

\* How DDB_UploadEntity treats an argument: it sends it, sends nothing and
\* goes on (a list, a character matrix), or stops (NULL, a vector of length 0).
ArgKinds == {"sent", "skipped", "stops"}

ASSUME SessionAssumption ==
  /\ Conns # {} /\ ArgLists \subseteq Seq(ArgKinds) /\ Repeats \subseteq Nat
  /\ MaxConn \in Nat /\ MaxReq \in Nat /\ MaxPieces \in Nat \ {0}

VARIABLES
  connected, handle_, in_, entity, anyvector,  \* fields of Rcpp_Connector
  inbuf,     \* items received into the buffer of the stream, not yet read
  slot,      \* conn@connected of each connector object
  pc, api,   \* where the call in progress is, and which it is
  obj,       \* the connector object of the last dbConnect
  rtype,     \* what ReceiveEntity or ReceiveHeader found
  from,      \* the requests whose reply the call in progress has read from
  result,    \* what the last call returned
  fds,       \* the connections whose client end is open
  conns,     \* how many connections were made
  reqs,      \* how many requests were made
  held,      \* the received objects not yet deleted
  srv,       \* the server's end: "up" or "gone"
  toServer,  \* requests the server has not served
  net,       \* reply items sent and not yet received
  strayed,   \* a payload was left unread on this connection
  rError     \* an R error has ended a call before Clear()

link  == <<connected, handle_, in_, fds>>
heap  == <<entity, anyvector, held>>
wire  == <<srv, toServer, net>>
ghost == <<strayed, rError>>
vars  == <<connected, handle_, in_, entity, anyvector, inbuf, slot, pc, api, obj, rtype, from,
           result, fds, conns, reqs, held, srv, toServer, net, strayed, rError>>

Lines == {"hdr0", "hdr1", "ok", "err"}  \* hdr0 announces no object, hdr1 one

Init ==
  /\ connected = FALSE /\ handle_ = 0 /\ in_ = "null" /\ inbuf = <<>>
  /\ entity = 0 /\ anyvector = 0 /\ held = {}
  /\ slot = [c \in Conns |-> FALSE]
  /\ pc = "idle" /\ api = "none" /\ obj \in Conns /\ rtype = "none" /\ from = {}
  /\ result = [op |-> "none", out |-> "none", from |-> {}, own |-> 0, stray |-> FALSE]
  /\ fds = {} /\ conns = 0 /\ reqs = 0
  /\ srv = "gone" /\ toServer = <<>> /\ net = <<>>
  /\ strayed = FALSE /\ rError = FALSE

-----------------------------------------------------------------------------
(* Pieces of the connector.                                                *)

\* in -> close(); socket -> close(); connected = false.  What the kernel and
\* the server hold of the connection is lost, what the stream has buffered is
\* not.
CloseConnection ==
  /\ connected' = FALSE /\ handle_' = 0 /\ fds' = fds \ {handle_}
  /\ in_' = IF in_ = "null" THEN "null" ELSE "closed"
  /\ srv' = "gone" /\ toServer' = <<>> /\ net' = <<>>

CloseIfConnected == IF connected THEN CloseConnection ELSE UNCHANGED <<link, wire>>

\* A mutant: the any-vector is forgotten.
ClearEntityOnly ==
  /\ entity' = 0 /\ held' = held \ {entity}
  /\ UNCHANGED anyvector

\* Rcpp_ClearEntity.
Clear ==
  /\ entity' = 0 /\ anyvector' = 0
  /\ held' = held \ {entity, anyvector}

Stops(args) == \E i \in DOMAIN args : args[i] = "stops"

\* How many arguments DDB_UploadEntity puts on the wire.
Uploaded(args) ==
  Cardinality({i \in DOMAIN args : args[i] = "sent" /\ \A j \in 1 .. i : args[j] # "stops"})

\* The writes of one request, lost without notice when nobody is there.
Write(n, args) ==
  toServer' = IF handle_ # 0 /\ srv = "up"
              THEN Append(toServer, [t |-> "request", n |-> n, sent |-> Uploaded(args), id |-> reqs'])
              ELSE toServer

\* The call returns to R.
Return(op, out) ==
  /\ result' = [op |-> op, out |-> out, from |-> from, own |-> reqs, stray |-> strayed]
  /\ pc' = "idle" /\ api' = "none" /\ rtype' = "none" /\ from' = {}

-----------------------------------------------------------------------------
(* Reading from the stream.                                                *)

Reading == pc \in {"header", "skip", "msg0", "msg1", "object"}

\* Whose reply the first item is of; of stray bytes it is not told.
Sender == IF strayed THEN {} ELSE {Head(inbuf).id}

\* What is left of an item, as the reads to come take it.
Pieces(item, k) == [i \in 1 .. k |-> [t |-> "payload", id |-> item.id]]

\* What a read that ends in the first item leaves.  Behind a payload that was
\* left unread the bytes are cut anywhere, not where the server's items end.
Rests ==
  IF strayed /\ Head(inbuf).t # "payload"
  THEN {Pieces(Head(inbuf), k) \o Tail(inbuf) : k \in 0 .. MaxPieces}
  ELSE {Tail(inbuf)}

\* One item is read as a line.  Binary data can look like any line.
LinesOf(item) == IF strayed \/ item.t \notin Lines THEN Lines ELSE {item.t}

ReadLine(line) ==
  /\ inbuf # <<>>
  /\ line \in LinesOf(Head(inbuf))
  /\ inbuf' \in Rests

\* A read fails when there is nothing left and nothing will come.
StreamEnded ==
  /\ inbuf = <<>>
  /\ in_ = "closed" \/ (srv = "gone" /\ net = <<>>)
  /\ UNCHANGED inbuf

\* One recv() of the stream, made only when its buffer is empty.
Fill ==
  /\ pc = "handshake" \/ Reading
  /\ inbuf = <<>> /\ in_ = "open"
  /\ \E k \in 1 .. Len(net) :
       inbuf' = SubSeq(net, 1, k) /\ net' = SubSeq(net, k + 1, Len(net))
  /\ UNCHANGED <<link, heap, slot, pc, api, obj, rtype, from, result, conns, reqs, srv,
                 toServer, ghost>>

\* No terminator in it, or a size that is not reached: the read takes the item
\* and wants more, which the server may never send.
Swallow ==
  /\ Reading /\ strayed /\ inbuf # <<>>
  /\ inbuf' = Tail(inbuf)
  /\ UNCHANGED <<link, heap, slot, pc, api, obj, rtype, from, result, conns, reqs, wire, ghost>>

-----------------------------------------------------------------------------
(* dbConnect: Rcpp_Connect, then the login call.                           *)

\* The previous connection is closed first; the new one is not established.
ConnectFails(c) ==
  /\ pc = "idle"
  /\ CloseIfConnected
  /\ slot' = [slot EXCEPT ![c] = FALSE] /\ obj' = c
  /\ Return("connect", "object")
  /\ UNCHANGED <<heap, inbuf, conns, reqs, ghost>>

\* A mutant: the connection before this one stays open.
ConnectAgain(c, login) ==
  /\ pc = "idle" /\ conns < MaxConn /\ (login => reqs < MaxReq)
  /\ conns' = conns + 1
  /\ connected' = TRUE /\ handle_' = conns' /\ fds' = fds \cup {conns'}
  /\ in_' = "open" /\ inbuf' = <<>> /\ strayed' = FALSE
  /\ srv' = "up" /\ net' = <<>>
  /\ toServer' = <<[t |-> "connect", n |-> 0, sent |-> 0, id |-> 0]>>
  /\ pc' = "handshake" /\ api' = (IF login THEN "login" ELSE "connect") /\ obj' = c
  /\ UNCHANGED <<heap, slot, rtype, from, result, reqs, rError>>

\* A mutant: the stream of the connection before is used again.
ConnectSameStream(c, login) ==
  /\ pc = "idle" /\ conns < MaxConn /\ (login => reqs < MaxReq)
  /\ conns' = conns + 1
  /\ connected' = TRUE /\ handle_' = conns'
  /\ fds' = (IF connected THEN fds \ {handle_} ELSE fds) \cup {conns'}
  /\ in_' = "open" /\ UNCHANGED inbuf /\ strayed' = FALSE
  /\ srv' = "up" /\ net' = <<>>
  /\ toServer' = <<[t |-> "connect", n |-> 0, sent |-> 0, id |-> 0]>>
  /\ pc' = "handshake" /\ api' = (IF login THEN "login" ELSE "connect") /\ obj' = c
  /\ UNCHANGED <<heap, slot, rtype, from, result, reqs, rError>>

Connect(c, login) ==
  /\ pc = "idle" /\ conns < MaxConn /\ (login => reqs < MaxReq)
  /\ conns' = conns + 1
  /\ connected' = TRUE /\ handle_' = conns'
  /\ fds' = (IF connected THEN fds \ {handle_} ELSE fds) \cup {conns'}
  /\ in_' = "open" /\ inbuf' = <<>> /\ strayed' = FALSE
  /\ srv' = "up" /\ net' = <<>>
  /\ toServer' = <<[t |-> "connect", n |-> 0, sent |-> 0, id |-> 0]>>
  /\ pc' = "handshake" /\ api' = (IF login THEN "login" ELSE "connect") /\ obj' = c
  /\ UNCHANGED <<heap, slot, rtype, from, result, reqs, rError>>

\* The session line is accepted; the "OK" line behind it is left to the first
\* receive.  A login is an RPC with two arguments, made by dbConnect before it
\* returns the object, whose status it has set by then.
HandshakeOK ==
  /\ pc = "handshake"
  /\ \E line \in {"hdr0", "hdr1"} : ReadLine(line)
  /\ IF api = "login"
     THEN reqs' = reqs + 1 /\ pc' = "header" /\ Write(2, <<"sent", "sent">>)
          /\ UNCHANGED <<slot, api, rtype, from, result>>
     ELSE /\ slot' = [slot EXCEPT ![obj] = TRUE]
          /\ Return("connect", "object") /\ UNCHANGED <<reqs, toServer>>
  /\ UNCHANGED <<link, heap, obj, conns, srv, net, ghost>>

\* A mutant: the connector object keeps the status it had.
HandshakeFailsSilently ==
  /\ pc = "handshake"
  /\ StreamEnded \/ \E line \in {"ok", "err"} : ReadLine(line)
  /\ CloseConnection
  /\ UNCHANGED slot
  /\ Return("connect", "object")
  /\ UNCHANGED <<heap, conns, reqs, obj, ghost>>

\* "Data format error": another line, or none before the end of the stream.
HandshakeFails ==
  /\ pc = "handshake"
  /\ StreamEnded \/ \E line \in {"ok", "err"} : ReadLine(line)
  /\ CloseConnection
  /\ slot' = [slot EXCEPT ![obj] = FALSE]
  /\ Return("connect", "object")
  /\ UNCHANGED <<heap, conns, reqs, obj, ghost>>

-----------------------------------------------------------------------------
(* dbRun, dbRpc, dbUpload: the request and its arguments are sent.         *)

Send(op, n, args) ==
  /\ pc = "idle" /\ reqs < MaxReq
  /\ reqs' = reqs + 1 /\ Write(n, args)
  /\ IF Stops(args) THEN Clear ELSE UNCHANGED heap
  /\ pc' = "header" /\ api' = op
  /\ UNCHANGED <<link, inbuf, slot, obj, rtype, from, result, conns, srv, net, ghost>>

Run       == connected /\ Send("run", 0, <<>>)
Rpc(args) == connected /\ Send("rpc", Len(args), args)

\* "No connection available": dbRun goes on to DDB_GetEntity, dbRpc does not.
NotConnected(op) ==
  /\ pc = "idle" /\ ~connected
  /\ IF op = "run" THEN Clear ELSE UNCHANGED heap
  /\ Return(op, "NULL")
  /\ UNCHANGED <<link, inbuf, slot, obj, conns, reqs, wire, ghost>>

\* dbUpload compares the DISTINCT keys with the arguments, and RunUploadInit
\* announces ALL of them; it does not look at connected.
Upload(args, repeats) ==
  /\ args # <<>> /\ ~Stops(args) /\ in_ # "null"
  /\ Send("upload", Len(args) + repeats, args)

\* Nothing is sent: the keys and arguments do not match in number, a key is
\* not a name, or DDB_UploadObjectCheck refuses an argument (it refuses all
\* those that would stop the upload).
UploadRefused ==
  /\ pc = "idle"
  /\ Return("upload", "NULL")
  /\ UNCHANGED <<link, heap, inbuf, slot, obj, conns, reqs, wire, ghost>>

\* Before the first connection ReceiveHeader dereferences a null stream.
UploadWithoutStream(args) ==
  /\ pc = "idle" /\ args # <<>> /\ ~Stops(args) /\ in_ = "null"
  /\ pc' = "crashed" /\ api' = "upload"
  /\ UNCHANGED <<link, heap, inbuf, slot, obj, rtype, from, result, conns, reqs, wire, ghost>>

-----------------------------------------------------------------------------
(* Rcpp_ReceiveEntity and Rcpp_ReceiveHeader.                              *)

\* The receive goes on at "next"; src are the requests the item read belongs to.
Receive(next, type, src) ==
  /\ pc' = next /\ rtype' = type /\ from' = from \cup src
  /\ UNCHANGED <<slot, api, obj, result, conns, reqs, rError>>

\* The first header line; "OK" lines are skipped.
ReadHeader ==
  /\ pc \in {"header", "skip"}
  /\ \/ ReadLine("hdr0") /\ Receive("msg0", "none", Sender)
     \/ ReadLine("hdr1") /\ Receive("msg1", "none", Sender)
     \/ ReadLine("ok")   /\ Receive("skip", "none", {})
  /\ UNCHANGED <<link, heap, wire, strayed>>

\* "Invalid header": the connection is closed.  A failed read leaves the
\* header empty, which is not a header of three fields either.
InvalidHeader ==
  /\ \/ pc = "header" /\ StreamEnded /\ Receive("decode", "error", {})
     \/ pc \in {"header", "skip"} /\ ReadLine("err") /\ Receive("decode", "error", Sender)
  /\ CloseConnection
  /\ UNCHANGED <<heap, strayed>>

\* Behind an "OK" line a failed read leaves header = "OK": the loop that
\* skips such lines never ends.
SkipForever ==
  /\ pc = "skip" /\ StreamEnded
  /\ Receive("spin", "none", {})
  /\ UNCHANGED <<link, heap, wire, strayed>>

\* A mutant: the end of the stream is not an answer.
ReadMsgWaits ==
  /\ pc \in {"msg0", "msg1"}
  /\ \/ ReadLine("ok") /\ pc = "msg0" /\ Receive("decode", "void", Sender)
     \/ ReadLine("ok") /\ pc = "msg1" /\ Receive("object", "none", Sender)
     \/ (\E line \in Lines \ {"ok"} : ReadLine(line)) /\ Receive("decode", "error", Sender)
  /\ UNCHANGED <<link, heap, wire, strayed>>

\* The status line: anything but "OK", or nothing at all, is an error, and
\* the connection stays as it is.
ReadMsg ==
  /\ pc \in {"msg0", "msg1"}
  /\ \/ ReadLine("ok") /\ pc = "msg0" /\ Receive("decode", "void", Sender)
     \/ ReadLine("ok") /\ pc = "msg1" /\ Receive("object", "none", Sender)
     \/ (\E line \in Lines \ {"ok"} : ReadLine(line)) /\ Receive("decode", "error", Sender)
     \/ StreamEnded /\ Receive("decode", "error", {})
  /\ UNCHANGED <<link, heap, wire, strayed>>

\* A new object overwrites the pointer of its kind.
New(kind) ==
  /\ held' = held \cup {reqs}
  /\ IF kind = "any" THEN anyvector' = reqs /\ UNCHANGED entity
                     ELSE entity' = reqs /\ UNCHANGED anyvector

ReadObject ==
  /\ pc = "object" /\ inbuf # <<>>
  /\ Head(inbuf).t \in {"entity", "any"}
  /\ New(Head(inbuf).t) /\ inbuf' = Tail(inbuf)
  /\ Receive("decode", "value", Sender)
  /\ UNCHANGED <<link, wire, strayed>>

\* An object of an unsupported type is not read past its flag, and is R type 0
\* like no object at all.
ReadUnsupported ==
  /\ pc = "object" /\ inbuf # <<>>
  /\ Head(inbuf).t = "unsupported"
  /\ \E k \in 1 .. MaxPieces : inbuf' = Pieces(Head(inbuf), k) \o Tail(inbuf)
  /\ New("entity")
  /\ strayed' = TRUE
  /\ Receive("decode", "void", Sender)
  /\ UNCHANGED <<link, wire>>

\* An object is made of what is not one: other bytes are there, or the stream
\* ends inside it (flag, row and clm are uninitialized then).
NotAnObject ==
  /\ pc = "object"
  /\ StreamEnded \/ (strayed /\ inbuf # <<>> /\ inbuf' \in Rests)

\* Any object comes out.
ReadGarbage ==
  /\ NotAnObject
  /\ \E kind \in {"entity", "any"} : New(kind)
  /\ \E type \in {"garbage", "void"} : Receive("decode", type, {})
  /\ UNCHANGED <<link, wire, strayed>>

-----------------------------------------------------------------------------
(* The end of a call: DDB_GetEntity or the status of dbUpload.             *)

Outcome ==
  CASE api = "login"   -> "object"
    [] api = "upload"  -> IF rtype = "error" THEN "FALSE" ELSE "TRUE"
    [] rtype = "void"  -> "NA"
    [] rtype = "error" -> "NULL"
    [] OTHER           -> rtype

Op == IF api = "login" THEN "connect" ELSE api

\* The login's result is not looked at.
Decode ==
  /\ pc = "decode"
  /\ Clear
  /\ slot' = IF api = "login" THEN [slot EXCEPT ![obj] = TRUE] ELSE slot
  /\ Return(Op, Outcome)
  /\ UNCHANGED <<link, inbuf, obj, conns, reqs, wire, ghost>>

\* A call that stops with an R error does not reach Clear(), and a dbConnect
\* that does returns no object.
Stop ==
  /\ rError' = TRUE
  /\ Return(Op, "R error")
  /\ UNCHANGED <<link, heap, slot, obj, conns, reqs, wire, strayed>>

\* A size that was never sent is too much for reserve() or new, which throw.
ReadThrows == NotAnObject /\ Stop

\* DDB_GetEntity stops with an R error and does not reach Clear(): the labels
\* of a matrix are of an unsupported type ('result' is not found), or a table
\* has no column, in an object of its own or within an any-vector.
DecodeError ==
  /\ pc = "decode" /\ rtype \in {"value", "garbage"} /\ api \in {"run", "rpc", "login"}
  /\ Stop
  /\ UNCHANGED inbuf

-----------------------------------------------------------------------------
(* dbClose: Rcpp_DisConnect deletes the entity, but not the any-vector.    *)

\* A mutant: the pointer to the deleted entity is kept.
CloseKeepsPointer(c) ==
  /\ pc = "idle"
  /\ held' = held \ {entity} /\ UNCHANGED <<entity, anyvector>>
  /\ CloseIfConnected
  /\ slot' = [slot EXCEPT ![c] = FALSE]
  /\ Return("close", "object")
  /\ UNCHANGED <<inbuf, obj, conns, reqs, ghost>>

Close(c) ==
  /\ pc = "idle"
  /\ entity' = 0 /\ held' = held \ {entity} /\ UNCHANGED anyvector
  /\ CloseIfConnected
  /\ slot' = [slot EXCEPT ![c] = FALSE]
  /\ Return("close", "object")
  /\ UNCHANGED <<inbuf, obj, conns, reqs, ghost>>

-----------------------------------------------------------------------------
(* The server.                                                             *)

Replies == {<<"hdr0", "ok">>, <<"hdr0", "err">>, <<"hdr1", "ok", "entity">>,
            <<"hdr1", "ok", "any">>, <<"hdr1", "ok", "unsupported">>}

\* A request is served once all the arguments it announces are there.
Serve ==
  /\ srv = "up" /\ toServer # <<>>
  /\ LET req == Head(toServer)
     IN  /\ req.sent = req.n
         /\ \E reply \in IF req.t = "connect" THEN {<<"hdr0", "ok">>, <<"err">>} ELSE Replies :
              net' = net \o [i \in 1 .. Len(reply) |-> [t |-> reply[i], id |-> req.id]]
  /\ toServer' = Tail(toServer)
  /\ UNCHANGED <<link, heap, inbuf, slot, pc, api, obj, rtype, from, result, conns, reqs, srv,
                 ghost>>

\* The server's end goes away, at any moment; what it had not sent is lost.
Hangup ==
  /\ srv = "up" /\ srv' = "gone" /\ toServer' = <<>>
  /\ \E k \in 0 .. Len(net) : net' = SubSeq(net, 1, k)
  /\ UNCHANGED <<link, heap, inbuf, slot, pc, api, obj, rtype, from, result, conns, reqs, ghost>>

-----------------------------------------------------------------------------
Calls ==
  \/ \E c \in Conns : Close(c) \/ ConnectFails(c) \/ \E login \in BOOLEAN : Connect(c, login)
  \/ Run \/ \E op \in {"run", "rpc"} : NotConnected(op)
  \/ UploadRefused
  \/ \E args \in ArgLists :
       \/ Rpc(args) \/ UploadWithoutStream(args)
       \/ \E repeats \in Repeats : Upload(args, repeats)

Reader ==
  \/ Fill \/ HandshakeOK \/ HandshakeFails
  \/ ReadHeader \/ InvalidHeader \/ SkipForever \/ ReadMsg
  \/ ReadObject \/ ReadUnsupported \/ ReadGarbage \/ Swallow
  \/ Decode \/ DecodeError \/ ReadThrows

Next == Calls \/ Reader \/ Serve \/ Hangup

Spec == Init /\ [][Next]_vars

\* The R thread is in the call until it returns, and the server answers a
\* request that is complete.
FairSpec == Spec /\ WF_vars(Reader) /\ WF_vars(Serve)

-----------------------------------------------------------------------------
(* Correctness.                                                            *)

\* The domains of the variables; entity and anyvector are null or point to an
\* object that has not been deleted, whatever call ended before Clear().
TypeOK ==
  /\ connected \in BOOLEAN /\ handle_ \in 0 .. MaxConn /\ in_ \in {"null", "open", "closed"}
  /\ held \subseteq 1 .. MaxReq /\ entity \in {0} \cup held /\ anyvector \in {0} \cup held
  /\ slot \in [Conns -> BOOLEAN] /\ obj \in Conns
  /\ pc \in {"idle", "handshake", "header", "skip", "msg0", "msg1", "object", "decode",
             "spin", "crashed"}
  /\ api \in {"none", "connect", "login", "run", "rpc", "upload"}
  /\ rtype \in {"none", "void", "error", "value", "garbage"}
  /\ fds \subseteq 1 .. MaxConn /\ conns \in 0 .. MaxConn /\ reqs \in 0 .. MaxReq
  /\ from \subseteq 0 .. MaxReq /\ srv \in {"up", "gone"}

\* "There is at most one TCP connection" (RDolphinDB.R), whatever sequence of
\* dbConnect, failed handshakes, invalid replies and dbClose came before: the
\* client's end is open exactly when connected says so, on the handle and the
\* stream in use; none is left open behind it.
OneConnection ==
  /\ fds = IF connected THEN {handle_} ELSE {}
  /\ connected <=> handle_ # 0
  /\ connected <=> in_ = "open"

\* A call that returns a value, NA or TRUE has read all of it from the reply
\* to its own request, and an error it returns is that of no other request:
\* "OK" lines left over, server errors and reconnections never shift the
\* replies by one.  Only an unsupported object left unread on the connection
\* can.
OwnReply ==
  ~result.stray =>
    /\ result.op \in {"run", "rpc", "upload"} => result.from \subseteq {result.own}
    /\ result.out \in {"value", "NA", "TRUE"} => result.from = {result.own}

\* Every way out of a call deletes the object it received, from the login
\* whose result nobody looks at to an upload that stops half-way; only an R
\* error between the receive and Clear() leaves one behind.
NothingLeaks == pc = "idle" /\ ~rError => held = {} /\ entity = 0 /\ anyvector = 0

\* The calls that the server cannot answer: it waits for arguments that were
\* announced and never sent.
Unserved == toServer # <<>> /\ Head(toServer).sent < Head(toServer).n

\* The calls that wait for the rest of what they take stray bytes for, with
\* nothing on its way and the server waiting for the next request.
Astray == Reading /\ strayed /\ inbuf = <<>> /\ net = <<>> /\ toServer = <<>> /\ srv = "up"

\* Every call returns, whenever the server hangs up and whatever it answers,
\* except for the four ways not to: announced arguments that are not sent, the
\* end of the stream behind an "OK" line, an upload without a stream, and bytes
\* of an unsupported object that promise more than there is.
CallsReturn ==
  pc # "idle" ~> (pc \in {"idle", "spin", "crashed"} \/ Unserved \/ Astray)

\* dbConnect returns "the connector object with status of connection"
\* (RDolphinDB.R): an object that says not connected is returned only when the
\* connection is closed, and one that says connected on a closed connection
\* only after the reply to the login was refused, since the status was copied
\* before that call.
ConnectTellsStatus ==
  [][pc # "idle" /\ pc' = "idle" /\ api \in {"connect", "login"} /\ result'.out = "object" =>
       /\ connected' => slot'[obj]
       /\ slot'[obj] /\ ~connected' => api = "login" /\ rtype = "error"]_vars

-----------------------------------------------------------------------------
(* What the documentation says and the code does not do.                   *)

\* An upload announces the variables it sends: keys "cannot be repeated"
\* (RDolphinDB.R) and an argument of an unsupported type stops the upload
\* (comment on DDB_UploadObjectCheck).
UploadSendsAll ==
  api = "upload" =>
    \A i \in DOMAIN toServer : toServer[i].t = "request" => toServer[i].sent = toServer[i].n

\* dbUpload returns "the executed result of uploading": an upload that has
\* sent its variables returns.
UploadReturns == (api = "upload" /\ pc = "header") ~> (pc = "idle")

=============================================================================
