---------------------------- MODULE SessionProofs ----------------------------
(***************************************************************************)
(* The invariants of Session for every number of connector objects,        *)
(* connections and requests, whatever arguments are uploaded.              *)
(***************************************************************************)
EXTENDS Session, FiniteSetTheorems, SequenceTheorems, TLAPS

\* Where a call waits for an item of the reply.
Receiving == {"header", "skip", "msg0", "msg1", "object"}

Objects   == {"entity", "any", "unsupported"}
Item      == [t : Lines \cup Objects \cup {"payload"}, id : 0 .. MaxReq]
Request   == [t : {"connect", "request"}, n : Nat, sent : Nat, id : 0 .. MaxReq]
QueueType == inbuf \in Seq(Item) /\ net \in Seq(Item) /\ toServer \in Seq(Request)

\* A server that is not there has nothing to serve or to send.
WireShape ==
  /\ ~connected => srv = "gone" /\ net = <<>>
  /\ srv = "gone" => toServer = <<>>

\* The objects received: each has a pointer of its own until an R error leaves
\* some behind, and none has the number of a request that is still to receive.
HeapShape ==
  /\ entity # 0 => entity # anyvector
  /\ \A x \in held : x =< reqs
  /\ pc \in Receiving => reqs >= 1 /\ reqs \notin held
  /\ ~rError => held \subseteq {entity, anyvector} /\ (pc # "decode" => held = {})

\* The call in progress, and what a dbConnect with a login knows of its connection.
CallShape ==
  /\ pc = "handshake" => connected /\ api \in {"connect", "login"} /\ (api = "login" => reqs < MaxReq)
  /\ pc \in Receiving \cup {"decode"} => api \in {"login", "run", "rpc", "upload"}
  /\ pc \in Receiving /\ api = "login" => connected
  /\ pc = "decode" /\ api = "login" => connected \/ rtype = "error"

\* What the stream has still to deliver to the call in progress.
Rest ==
  CASE pc = "handshake"          -> {<<"hdr0", "ok">>, <<"err">>}
    [] pc \in {"header", "skip"} -> Replies
    [] pc = "msg0"               -> {<<"ok">>, <<"err">>}
    [] pc = "msg1"               -> {<<"ok", x>> : x \in Objects}
    [] pc = "object"             -> {<<x>> : x \in Objects}
    [] OTHER                     -> {<<>>}

Own   == IF pc = "handshake" THEN 0 ELSE reqs
Queue == inbuf \o net

\* The items on their way are the front of one reply, to the request of the call
\* in progress; the "OK" line that dbConnect left may come before it; and the
\* server has that request, or none.
Expected(q, o, r) ==
  /\ o = 1 => pc \in {"idle", "header"} /\ Len(q) >= 1 /\ q[1] = [t |-> "ok", id |-> 0]
  /\ Len(q) =< o + Len(r)
  /\ \A i \in o + 1 .. Len(q) : q[i].t = r[i - o] /\ q[i].id = Own
  /\ toServer # <<>> =>
       /\ pc \in {"handshake", "header", "skip"} /\ Len(q) = o /\ Len(toServer) = 1
       /\ toServer[1].id = Own /\ toServer[1].t = IF pc = "handshake" THEN "connect" ELSE "request"

InOrder ==
  ~strayed /\ pc \notin {"spin", "crashed"} => \E o \in {0, 1}, r \in Rest : Expected(Queue, o, r)

\* The requests that the call has read from.
FromShape ==
  /\ pc \in {"idle", "handshake", "header", "skip"} => from = {}
  /\ ~strayed /\ pc \in {"msg0", "msg1", "object"} => from = {reqs}
  /\ ~strayed /\ pc = "decode" => from \subseteq {reqs} /\ (rtype # "error" => from = {reqs})

\* The inductive invariant: what each variable may hold, and, on top of it, what
\* is on its way to whom.
Shape ==
  /\ TypeOK /\ OneConnection /\ QueueType /\ WireShape /\ HeapShape /\ CallShape

IInv == Shape /\ InOrder /\ FromShape /\ OwnReply

-----------------------------------------------------------------------------
(* The pieces of the connector.                                            *)

LEMMA Constants == MaxConn \in Nat /\ MaxReq \in Nat /\ MaxPieces \in Nat
<1>. QED  BY SessionAssumption

\* A read takes the first item of the stream's buffer.
LEMMA FirstItem ==
  ASSUME QueueType, inbuf # <<>>
  PROVE  Head(inbuf) \in Item /\ Head(inbuf).id \in 0 .. MaxReq /\ Tail(inbuf) \in Seq(Item)
<1>1. Head(inbuf) \in Item /\ Tail(inbuf) \in Seq(Item)
  BY HeadTailProperties DEF QueueType
<1>. QED  BY <1>1 DEF Item

\* What is left of an item is items again; nothing is, where no byte was left unread.
LEMMA PiecesTyped ==
  ASSUME QueueType, inbuf # <<>>, NEW k \in Nat
  PROVE  Pieces(Head(inbuf), k) \o Tail(inbuf) \in Seq(Item)
<1>1. Head(inbuf).id \in 0 .. MaxReq /\ Tail(inbuf) \in Seq(Item)
  BY FirstItem
<1>2. [t |-> "payload", id |-> Head(inbuf).id] \in Item
  BY <1>1 DEF Item
<1>3. Pieces(Head(inbuf), k) \in Seq(Item)
  BY <1>2 DEF Pieces
<1>. QED  BY <1>1, <1>3, ConcatProperties

LEMMA RestTyped ==
  ASSUME QueueType, inbuf # <<>>, inbuf' \in Rests
  PROVE  inbuf' \in Seq(Item) /\ (~strayed => inbuf' = Tail(inbuf))
<1>1. CASE inbuf' = Tail(inbuf)
  BY <1>1, FirstItem
<1>2. ASSUME strayed, NEW k \in 0 .. MaxPieces, inbuf' = Pieces(Head(inbuf), k) \o Tail(inbuf)
      PROVE  inbuf' \in Seq(Item) /\ (~strayed => inbuf' = Tail(inbuf))
  <2>1. k \in Nat
    BY Constants
  <2>. QED  BY <1>2, <2>1, PiecesTyped
<1>. QED  BY <1>1, <1>2 DEF Rests

LEMMA LineTyped ==
  ASSUME QueueType, NEW line, ReadLine(line)
  PROVE  inbuf # <<>> /\ inbuf' \in Seq(Item) /\ (~strayed => inbuf' = Tail(inbuf))
<1>. QED  BY RestTyped DEF ReadLine

\* The sender of an item is one of the requests.
LEMMA SenderTyped == ASSUME QueueType, inbuf # <<>> PROVE Sender \subseteq 0 .. MaxReq
<1>. QED  BY FirstItem DEF Sender

\* What is read as an object is a line's worth of bytes, or nothing.
LEMMA NotAnObjectTyped ==
  ASSUME Shape, NotAnObject
  PROVE  inbuf' \in Seq(Item) /\ (~strayed => StreamEnded)
<1>1. CASE StreamEnded
  BY <1>1 DEF StreamEnded, Shape, QueueType
<1>2. CASE strayed /\ inbuf # <<>> /\ inbuf' \in Rests
  BY <1>2, RestTyped DEF Shape
<1>. QED  BY <1>1, <1>2 DEF NotAnObject

LEMMA UploadedNat == ASSUME NEW args \in Seq(ArgKinds) PROVE Uploaded(args) \in Nat
<1>. DEFINE S == {i \in DOMAIN args : args[i] = "sent" /\ \A j \in 1 .. i : args[j] # "stops"}
<1>1. DOMAIN args = 1 .. Len(args) /\ Len(args) \in Nat
  BY LenProperties
<1>2. IsFiniteSet(1 .. Len(args)) /\ S \in SUBSET (1 .. Len(args))
  BY <1>1, FS_Interval
<1>3. IsFiniteSet(S)
  BY <1>2, FS_Subset
<1>. QED  BY <1>3, FS_CardinalityType DEF Uploaded

\* Closing leaves nothing of the connection but what the stream has buffered.
LEMMA Closed ==
  ASSUME Shape, CloseIfConnected \/ (connected /\ CloseConnection)
  PROVE  /\ connected' = FALSE /\ handle_' = 0 /\ fds' = {} /\ in_' \in {"null", "closed"}
         /\ srv' = "gone" /\ toServer' = <<>> /\ net' = <<>>
         /\ toServer' \in Seq(Request) /\ net' \in Seq(Item)
         /\ handle_' \in 0 .. MaxConn /\ fds' \subseteq 1 .. MaxConn
<1>. MaxConn \in Nat
  BY Constants
<1>. <<>> \in Seq(Request) /\ <<>> \in Seq(Item)
  BY EmptySeq
<1>1. CASE CloseConnection
  BY <1>1 DEF Shape, OneConnection, CloseConnection
<1>2. CASE ~connected /\ UNCHANGED <<link, wire>>
  BY <1>2 DEF Shape, TypeOK, OneConnection, WireShape, link, wire
<1>. QED  BY <1>1, <1>2 DEF CloseIfConnected

-----------------------------------------------------------------------------
(* Shape, one lemma per action or group of actions.                        *)

LEMMA ConnectFailsShape == ASSUME Shape, NEW c \in Conns, ConnectFails(c) PROVE Shape'
<1>1. /\ connected' = FALSE /\ handle_' = 0 /\ fds' = {} /\ in_' \in {"null", "closed"}
      /\ srv' = "gone" /\ toServer' = <<>> /\ net' = <<>>
      /\ toServer' \in Seq(Request) /\ net' \in Seq(Item)
      /\ handle_' \in 0 .. MaxConn /\ fds' \subseteq 1 .. MaxConn
  BY Closed DEF ConnectFails
<1>2. /\ pc = "idle" /\ pc' = "idle" /\ api' = "none" /\ rtype' = "none" /\ from' = {}
      /\ slot' = [slot EXCEPT ![c] = FALSE] /\ obj' = c
      /\ entity' = entity /\ anyvector' = anyvector /\ held' = held /\ inbuf' = inbuf
      /\ conns' = conns /\ reqs' = reqs /\ strayed' = strayed /\ rError' = rError
  BY DEF ConnectFails, Return, heap, ghost
<1>3. TypeOK'
  BY <1>1, <1>2, Constants DEF Shape, TypeOK
<1>4. OneConnection' /\ WireShape' /\ CallShape'
  BY <1>1, <1>2 DEF OneConnection, WireShape, CallShape, Receiving
<1>5. QueueType'
  BY <1>1, <1>2 DEF Shape, QueueType
<1>6. HeapShape'
  BY <1>2 DEF Shape, HeapShape, Receiving
<1>. QED  BY <1>3, <1>4, <1>5, <1>6 DEF Shape

LEMMA ConnectShape ==
  ASSUME Shape, NEW c \in Conns, NEW login \in BOOLEAN, Connect(c, login)
  PROVE  Shape'
<1>1. /\ pc = "idle" /\ conns < MaxConn /\ (login => reqs < MaxReq)
      /\ conns' = conns + 1 /\ connected' = TRUE /\ handle_' = conns'
      /\ fds' = (IF connected THEN fds \ {handle_} ELSE fds) \cup {conns'}
      /\ in_' = "open" /\ inbuf' = <<>> /\ strayed' = FALSE
      /\ srv' = "up" /\ net' = <<>>
      /\ toServer' = <<[t |-> "connect", n |-> 0, sent |-> 0, id |-> 0]>>
      /\ pc' = "handshake" /\ api' = (IF login THEN "login" ELSE "connect") /\ obj' = c
      /\ entity' = entity /\ anyvector' = anyvector /\ held' = held
      /\ slot' = slot /\ rtype' = rtype /\ from' = from /\ reqs' = reqs /\ rError' = rError
  BY DEF Connect, heap
<1>2. conns' \in 1 .. MaxConn
  BY <1>1, Constants DEF Shape, TypeOK
<1>3. fds' = {conns'}
  BY <1>1 DEF Shape, OneConnection
<1>4. TypeOK'
  BY <1>1, <1>2, <1>3, Constants DEF Shape, TypeOK
<1>5. OneConnection' /\ WireShape'
  BY <1>1, <1>2, <1>3 DEF OneConnection, WireShape
<1>6. CallShape'
  BY <1>1 DEF CallShape, Receiving
<1>7. QueueType'
  <2>1. [t |-> "connect", n |-> 0, sent |-> 0, id |-> 0] \in Request
    BY Constants DEF Request
  <2>. QED  BY <1>1, <2>1, EmptySeq DEF QueueType
<1>8. HeapShape'
  BY <1>1 DEF Shape, HeapShape, Receiving
<1>. QED  BY <1>4, <1>5, <1>6, <1>7, <1>8 DEF Shape

\* The objects a call has received are deleted, and no pointer to them is left.
LEMMA ClearShape ==
  ASSUME Shape, Clear, reqs' \in Nat, reqs =< reqs', rError' = rError,
         pc' \in Receiving => reqs < reqs'
  PROVE  HeapShape' /\ held' \subseteq 1 .. MaxReq /\ entity' = 0 /\ anyvector' = 0
<1>1. entity' = 0 /\ anyvector' = 0 /\ held' = held \ {entity, anyvector}
  BY DEF Clear
<1>2. held' \subseteq 1 .. MaxReq /\ reqs \in Nat /\ \A x \in held' : x \in Nat /\ x =< reqs
  BY <1>1, Constants DEF Shape, TypeOK, HeapShape
<1>3. ~rError => held' = {}
  BY <1>1 DEF Shape, HeapShape
<1>. QED  BY <1>1, <1>2, <1>3 DEF HeapShape

\* A request is written where somebody reads it, or lost.
LEMMA WriteTyped ==
  ASSUME QueueType, NEW n \in Nat, NEW args \in Seq(ArgKinds), reqs' \in 0 .. MaxReq, Write(n, args)
  PROVE  toServer' \in Seq(Request) /\ (toServer' # toServer => srv = "up")
<1>. DEFINE m == [t |-> "request", n |-> n, sent |-> Uploaded(args), id |-> reqs']
<1>1. m \in Request
  BY UploadedNat DEF Request
<1>2. toServer' = IF handle_ # 0 /\ srv = "up" THEN Append(toServer, m) ELSE toServer
  BY DEF Write
<1>. HIDE DEF m
<1>3. toServer \in Seq(Request)
  BY DEF QueueType
<1>. QED  BY <1>1, <1>2, <1>3, AppendProperties

LEMMA HandshakeOKShape == ASSUME Shape, HandshakeOK PROVE Shape'
<1>1. /\ pc = "handshake"
      /\ connected' = connected /\ handle_' = handle_ /\ in_' = in_ /\ fds' = fds
      /\ entity' = entity /\ anyvector' = anyvector /\ held' = held
      /\ obj' = obj /\ conns' = conns /\ srv' = srv /\ net' = net
      /\ strayed' = strayed /\ rError' = rError
  BY DEF HandshakeOK, link, heap, ghost
<1>2. inbuf # <<>> /\ inbuf' \in Seq(Item)
  BY LineTyped DEF HandshakeOK, Shape
<1>3. connected /\ api \in {"connect", "login"} /\ (api = "login" => reqs < MaxReq)
  BY <1>1 DEF Shape, CallShape
<1>4. CASE api = "login"
  <2>1. /\ reqs' = reqs + 1 /\ pc' = "header" /\ Write(2, <<"sent", "sent">>)
        /\ slot' = slot /\ api' = api /\ rtype' = rtype /\ from' = from
    BY <1>4 DEF HandshakeOK
  <2>2. reqs' \in 0 .. MaxReq /\ reqs' >= 1 /\ reqs' > reqs /\ reqs \in Nat /\ reqs' \in Nat
    BY <1>3, <1>4, <2>1, Constants DEF Shape, TypeOK
  <2>3. TypeOK'
    BY <1>1, <2>1, <2>2 DEF Shape, TypeOK
  <2>4. toServer' \in Seq(Request) /\ (toServer' # toServer => srv = "up")
    <3>1. <<"sent", "sent">> \in Seq(ArgKinds)
      BY DEF ArgKinds
    <3>. QED  BY <2>1, <2>2, <3>1, WriteTyped DEF Shape
  <2>5. OneConnection' /\ QueueType' /\ WireShape'
    BY <1>1, <1>2, <1>3, <2>4 DEF Shape, OneConnection, QueueType, WireShape
  <2>6. HeapShape'
    BY <1>1, <2>1, <2>2 DEF Shape, HeapShape, Receiving, TypeOK
  <2>7. CallShape'
    BY <1>1, <1>3, <1>4, <2>1 DEF CallShape, Receiving, Shape, TypeOK
  <2>. QED  BY <2>3, <2>5, <2>6, <2>7 DEF Shape
<1>5. CASE api # "login"
  <2>1. /\ pc' = "idle" /\ api' = "none" /\ rtype' = "none" /\ from' = {}
        /\ reqs' = reqs /\ toServer' = toServer /\ slot' = [slot EXCEPT ![obj] = TRUE]
    BY <1>5 DEF HandshakeOK, Return
  <2>2. TypeOK'
    BY <1>1, <2>1 DEF Shape, TypeOK
  <2>3. OneConnection' /\ QueueType' /\ WireShape'
    BY <1>1, <1>2, <1>3, <2>1 DEF Shape, OneConnection, QueueType, WireShape
  <2>4. HeapShape'
    BY <1>1, <2>1 DEF Shape, HeapShape, Receiving
  <2>5. CallShape'
    BY <2>1 DEF CallShape, Receiving
  <2>. QED  BY <2>2, <2>3, <2>4, <2>5 DEF Shape
<1>. QED  BY <1>4, <1>5

LEMMA HandshakeFailsShape == ASSUME Shape, HandshakeFails PROVE Shape'
<1>1. /\ pc = "handshake" /\ slot' = [slot EXCEPT ![obj] = FALSE] /\ obj' = obj
      /\ pc' = "idle" /\ api' = "none" /\ rtype' = "none" /\ from' = {}
      /\ entity' = entity /\ anyvector' = anyvector /\ held' = held
      /\ conns' = conns /\ reqs' = reqs /\ strayed' = strayed /\ rError' = rError
  BY DEF HandshakeFails, Return, heap, ghost
<1>2. /\ connected' = FALSE /\ handle_' = 0 /\ fds' = {} /\ in_' \in {"null", "closed"}
      /\ srv' = "gone" /\ toServer' = <<>> /\ net' = <<>>
      /\ toServer' \in Seq(Request) /\ net' \in Seq(Item)
      /\ handle_' \in 0 .. MaxConn /\ fds' \subseteq 1 .. MaxConn
  BY <1>1, Closed DEF HandshakeFails, Shape, CallShape
<1>3. inbuf' \in Seq(Item)
  BY LineTyped DEF HandshakeFails, StreamEnded, Shape, QueueType
<1>4. TypeOK'
  BY <1>1, <1>2 DEF Shape, TypeOK
<1>5. OneConnection' /\ WireShape' /\ CallShape' /\ QueueType'
  BY <1>1, <1>2, <1>3 DEF OneConnection, WireShape, CallShape, Receiving, QueueType
<1>6. HeapShape'
  BY <1>1 DEF Shape, HeapShape, Receiving
<1>. QED  BY <1>4, <1>5, <1>6 DEF Shape

LEMMA SendShape ==
  ASSUME Shape, NEW op \in {"run", "rpc", "upload"}, NEW n \in Nat, NEW args \in Seq(ArgKinds),
         Send(op, n, args)
  PROVE  Shape'
<1>1. /\ pc = "idle" /\ reqs < MaxReq /\ reqs' = reqs + 1 /\ Write(n, args)
      /\ pc' = "header" /\ api' = op
      /\ connected' = connected /\ handle_' = handle_ /\ in_' = in_ /\ fds' = fds
      /\ inbuf' = inbuf /\ slot' = slot /\ obj' = obj /\ rtype' = rtype /\ from' = from
      /\ conns' = conns /\ srv' = srv /\ net' = net /\ strayed' = strayed /\ rError' = rError
  BY DEF Send, link, ghost
<1>2. /\ reqs' \in 0 .. MaxReq /\ reqs' >= 1 /\ reqs' > reqs /\ reqs =< reqs'
      /\ reqs \in Nat /\ reqs' \in Nat
  BY <1>1, Constants DEF Shape, TypeOK
<1>3. toServer' \in Seq(Request) /\ (toServer' # toServer => srv = "up")
  BY <1>1, <1>2, WriteTyped DEF Shape
<1>4. HeapShape' /\ held' \subseteq 1 .. MaxReq /\ entity' \in {0} \cup held' /\ anyvector' \in {0} \cup held'
  <2>1. CASE Clear
    BY <1>1, <1>2, <2>1, ClearShape
  <2>2. CASE UNCHANGED heap
    BY <1>1, <1>2, <2>2 DEF heap, Shape, TypeOK, HeapShape, Receiving
  <2>. QED  BY <2>1, <2>2 DEF Send
<1>5. TypeOK'
  BY <1>1, <1>2, <1>4 DEF Shape, TypeOK
<1>6. OneConnection' /\ QueueType' /\ WireShape'
  BY <1>1, <1>3 DEF Shape, OneConnection, QueueType, WireShape
<1>7. CallShape'
  BY <1>1 DEF CallShape, Receiving
<1>. QED  BY <1>4, <1>5, <1>6, <1>7 DEF Shape

LEMMA SendsShape ==
  ASSUME Shape,
         \/ Run
         \/ \E args \in ArgLists : Rpc(args) \/ \E repeats \in Repeats : Upload(args, repeats)
  PROVE  Shape'
<1>1. CASE Run
  <2>1. <<>> \in Seq(ArgKinds)
    BY EmptySeq
  <2>. QED  BY <1>1, <2>1, SendShape DEF Run
<1>2. ASSUME NEW args \in ArgLists, Rpc(args)
      PROVE  Shape'
  <2>1. args \in Seq(ArgKinds) /\ Len(args) \in Nat
    BY SessionAssumption, LenProperties
  <2>. QED  BY <1>2, <2>1, SendShape DEF Rpc
<1>3. ASSUME NEW args \in ArgLists, NEW repeats \in Repeats, Upload(args, repeats)
      PROVE  Shape'
  <2>1. args \in Seq(ArgKinds) /\ Len(args) \in Nat /\ repeats \in Nat
    BY SessionAssumption, LenProperties
  <2>2. Len(args) + repeats \in Nat
    BY <2>1
  <2>. QED  BY <1>3, <2>1, <2>2, SendShape DEF Upload
<1>. QED  BY <1>1, <1>2, <1>3

\* Calls that end at once, or with the process.
LEMMA RefusedShape ==
  ASSUME Shape,
         \/ \E op \in {"run", "rpc"} : NotConnected(op)
         \/ UploadRefused
         \/ \E args \in ArgLists : UploadWithoutStream(args)
  PROVE  Shape'
<1>1. /\ pc = "idle" /\ pc' \in {"idle", "crashed"} /\ api' \in {"none", "upload"}
      /\ rtype' \in {"none", rtype} /\ from' \in {{}, from}
      /\ connected' = connected /\ handle_' = handle_ /\ in_' = in_ /\ fds' = fds
      /\ inbuf' = inbuf /\ slot' = slot /\ obj' = obj /\ conns' = conns /\ reqs' = reqs
      /\ srv' = srv /\ net' = net /\ toServer' = toServer
      /\ strayed' = strayed /\ rError' = rError
  BY DEF NotConnected, UploadRefused, UploadWithoutStream, Return, link, wire, ghost
<1>2. reqs \in Nat /\ reqs' \in Nat /\ reqs =< reqs' /\ pc' \notin Receiving
  BY <1>1, Constants DEF Shape, TypeOK, Receiving
<1>3. HeapShape' /\ held' \subseteq 1 .. MaxReq /\ entity' \in {0} \cup held' /\ anyvector' \in {0} \cup held'
  <2>1. CASE Clear
    BY <1>1, <1>2, <2>1, ClearShape
  <2>2. CASE UNCHANGED heap
    BY <1>1, <1>2, <2>2 DEF heap, Shape, TypeOK, HeapShape
  <2>. QED  BY <2>1, <2>2 DEF NotConnected, UploadRefused, UploadWithoutStream
<1>4. TypeOK'
  BY <1>1, <1>3 DEF Shape, TypeOK
<1>5. OneConnection' /\ QueueType' /\ WireShape'
  BY <1>1 DEF Shape, OneConnection, QueueType, WireShape
<1>6. CallShape'
  BY <1>1 DEF CallShape, Receiving
<1>. QED  BY <1>3, <1>4, <1>5, <1>6 DEF Shape

LEMMA CloseShape == ASSUME Shape, NEW c \in Conns, Close(c) PROVE Shape'
<1>1. /\ connected' = FALSE /\ handle_' = 0 /\ fds' = {} /\ in_' \in {"null", "closed"}
      /\ srv' = "gone" /\ toServer' = <<>> /\ net' = <<>>
      /\ toServer' \in Seq(Request) /\ net' \in Seq(Item)
      /\ handle_' \in 0 .. MaxConn /\ fds' \subseteq 1 .. MaxConn
  BY Closed DEF Close
<1>2. /\ pc = "idle" /\ pc' = "idle" /\ api' = "none" /\ rtype' = "none" /\ from' = {}
      /\ slot' = [slot EXCEPT ![c] = FALSE] /\ obj' = obj /\ inbuf' = inbuf
      /\ entity' = 0 /\ held' = held \ {entity} /\ anyvector' = anyvector
      /\ conns' = conns /\ reqs' = reqs /\ strayed' = strayed /\ rError' = rError
  BY DEF Close, Return, ghost
<1>3. anyvector' \in {0} \cup held'
  BY <1>2, Constants DEF Shape, TypeOK, HeapShape
<1>4. TypeOK'
  BY <1>1, <1>2, <1>3 DEF Shape, TypeOK
<1>5. OneConnection' /\ WireShape' /\ CallShape'
  BY <1>1, <1>2 DEF OneConnection, WireShape, CallShape, Receiving
<1>6. QueueType'
  BY <1>1, <1>2 DEF Shape, QueueType
<1>7. HeapShape'
  BY <1>2 DEF Shape, HeapShape, Receiving
<1>. QED  BY <1>4, <1>5, <1>6, <1>7 DEF Shape

\* The stream takes what the network has, in order.
LEMMA FillShape == ASSUME Shape, Fill PROVE Shape'
<1>1. /\ connected' = connected /\ handle_' = handle_ /\ in_' = in_ /\ fds' = fds /\ in_ = "open"
      /\ entity' = entity /\ anyvector' = anyvector /\ held' = held
      /\ slot' = slot /\ pc' = pc /\ api' = api /\ obj' = obj /\ rtype' = rtype /\ from' = from
      /\ conns' = conns /\ reqs' = reqs /\ srv' = srv /\ toServer' = toServer
      /\ strayed' = strayed /\ rError' = rError
  BY DEF Fill, link, heap, ghost
<1>2. PICK k \in 1 .. Len(net) : inbuf' = SubSeq(net, 1, k) /\ net' = SubSeq(net, k + 1, Len(net))
  BY DEF Fill
<1>3. net \in Seq(Item) /\ Len(net) \in Nat /\ \A i \in 1 .. Len(net) : net[i] \in Item
  BY LenProperties, ElementOfSeq DEF Shape, QueueType
<1>4. inbuf' \in Seq(Item) /\ net' \in Seq(Item)
  BY <1>2, <1>3, SubSeqProperties
<1>5. TypeOK' /\ HeapShape' /\ CallShape'
  BY <1>1 DEF Shape, TypeOK, HeapShape, CallShape, Receiving
<1>6. OneConnection' /\ WireShape' /\ QueueType'
  BY <1>1, <1>4 DEF Shape, OneConnection, WireShape, QueueType
<1>. QED  BY <1>5, <1>6 DEF Shape

LEMMA ServerShape == ASSUME Shape, Serve \/ Hangup PROVE Shape'
<1>1. /\ connected' = connected /\ handle_' = handle_ /\ in_' = in_ /\ fds' = fds /\ srv = "up"
      /\ entity' = entity /\ anyvector' = anyvector /\ held' = held /\ inbuf' = inbuf
      /\ slot' = slot /\ pc' = pc /\ api' = api /\ obj' = obj /\ rtype' = rtype /\ from' = from
      /\ conns' = conns /\ reqs' = reqs /\ strayed' = strayed /\ rError' = rError
  BY DEF Serve, Hangup, link, heap, ghost
<1>2. /\ srv' \in {"up", "gone"} /\ (srv' = "gone" => toServer' = <<>>)
      /\ net' \in Seq(Item) /\ toServer' \in Seq(Request)
  <2>1. CASE Serve
    <3>1. /\ srv' = srv /\ toServer # <<>> /\ toServer' = Tail(toServer)
          /\ \E reply \in {<<"hdr0", "ok">>, <<"err">>} \cup Replies :
               net' = net \o [i \in 1 .. Len(reply) |-> [t |-> reply[i], id |-> Head(toServer).id]]
      BY <2>1 DEF Serve
    <3>2. toServer' \in Seq(Request) /\ Head(toServer) \in Request
      BY <3>1, HeadTailProperties DEF Shape, QueueType
    <3>3. PICK reply \in {<<"hdr0", "ok">>, <<"err">>} \cup Replies :
            net' = net \o [i \in 1 .. Len(reply) |-> [t |-> reply[i], id |-> Head(toServer).id]]
      BY <3>1
    <3>4. Head(toServer).id \in 0 .. MaxReq
      BY <3>2 DEF Request
    <3>5. Len(reply) \in Nat /\ \A i \in 1 .. Len(reply) : reply[i] \in Lines \cup Objects
      BY DEF Replies, Lines, Objects
    <3>. DEFINE p == [i \in 1 .. Len(reply) |-> [t |-> reply[i], id |-> Head(toServer).id]]
    <3>6. p \in [1 .. Len(reply) -> Item]
      BY <3>4, <3>5 DEF Item
    <3>7. p \in Seq(Item)
      BY <3>5, <3>6
    <3>. HIDE DEF p
    <3>8. net' = net \o p
      BY <3>3 DEF p
    <3>. QED  BY <1>1, <3>1, <3>2, <3>7, <3>8, ConcatProperties DEF Shape, QueueType
  <2>2. CASE Hangup
    <3>1. srv' = "gone" /\ toServer' = <<>> /\ \E k \in 0 .. Len(net) : net' = SubSeq(net, 1, k)
      BY <2>2 DEF Hangup
    <3>2. PICK k \in 0 .. Len(net) : net' = SubSeq(net, 1, k)
      BY <3>1
    <3>3. net \in Seq(Item) /\ Len(net) \in Nat /\ \A i \in 1 .. Len(net) : net[i] \in Item
      BY LenProperties, ElementOfSeq DEF Shape, QueueType
    <3>4. net' \in Seq(Item)
      BY <3>2, <3>3, SubSeqProperties
    <3>. QED  BY <3>1, <3>4, EmptySeq
  <2>. QED  BY <2>1, <2>2
<1>3. TypeOK' /\ HeapShape' /\ CallShape'
  BY <1>1, <1>2 DEF Shape, TypeOK, HeapShape, CallShape, Receiving
<1>4. connected
  BY <1>1 DEF Shape, WireShape
<1>5. OneConnection' /\ WireShape' /\ QueueType'
  BY <1>1, <1>2, <1>4 DEF Shape, OneConnection, WireShape, QueueType
<1>. QED  BY <1>3, <1>5 DEF Shape

\* The lines of a reply.
LEMMA LineShape ==
  ASSUME Shape, ReadHeader \/ SkipForever \/ ReadMsg
  PROVE  Shape'
<1>1. /\ connected' = connected /\ handle_' = handle_ /\ in_' = in_ /\ fds' = fds
      /\ entity' = entity /\ anyvector' = anyvector /\ held' = held
      /\ srv' = srv /\ toServer' = toServer /\ net' = net /\ strayed' = strayed
      /\ slot' = slot /\ api' = api /\ obj' = obj /\ conns' = conns /\ reqs' = reqs /\ rError' = rError
  BY DEF ReadHeader, SkipForever, ReadMsg, Receive, link, heap, wire
<1>2. /\ pc \in Receiving /\ pc' \in {"skip", "msg0", "msg1", "object", "decode", "spin"}
      /\ rtype' \in {"none", "void", "error"}
  BY DEF ReadHeader, SkipForever, ReadMsg, Receive, Receiving
<1>3. inbuf' \in Seq(Item) /\ from' \subseteq 0 .. MaxReq
  <2>1. from \subseteq 0 .. MaxReq /\ inbuf \in Seq(Item)
    BY DEF Shape, TypeOK, QueueType
  <2>2. CASE inbuf = <<>>
    <3>1. inbuf' = inbuf /\ from' \in {from, from \cup {}}
      BY <2>2 DEF ReadHeader, SkipForever, ReadMsg, ReadLine, StreamEnded, Receive
    <3>. QED  BY <2>1, <3>1
  <2>3. CASE inbuf # <<>>
    <3>1. (\E line : ReadLine(line)) /\ from' \in {from \cup {}, from \cup Sender}
      BY <2>3 DEF ReadHeader, SkipForever, ReadMsg, StreamEnded, Receive
    <3>2. Sender \subseteq 0 .. MaxReq /\ QueueType
      BY <2>3, SenderTyped DEF Shape
    <3>. QED  BY <2>1, <3>1, <3>2, LineTyped
  <2>. QED  BY <2>2, <2>3
<1>4. TypeOK'
  BY <1>1, <1>2, <1>3 DEF Shape, TypeOK
<1>5. OneConnection' /\ WireShape' /\ QueueType'
  BY <1>1, <1>3 DEF Shape, OneConnection, WireShape, QueueType
<1>6. HeapShape'
  BY <1>1, <1>2 DEF Shape, HeapShape, Receiving
<1>7. CallShape'
  BY <1>1, <1>2 DEF Shape, CallShape, Receiving
<1>. QED  BY <1>4, <1>5, <1>6, <1>7 DEF Shape

LEMMA InvalidHeaderShape == ASSUME Shape, InvalidHeader PROVE Shape'
<1>1. /\ pc \in {"header", "skip"} /\ pc' = "decode" /\ rtype' = "error"
      /\ entity' = entity /\ anyvector' = anyvector /\ held' = held /\ strayed' = strayed
      /\ slot' = slot /\ api' = api /\ obj' = obj /\ conns' = conns /\ reqs' = reqs /\ rError' = rError
  BY DEF InvalidHeader, Receive, heap
<1>2. /\ connected' = FALSE /\ handle_' = 0 /\ fds' = {} /\ in_' \in {"null", "closed"}
      /\ srv' = "gone" /\ toServer' = <<>> /\ net' = <<>>
      /\ toServer' \in Seq(Request) /\ net' \in Seq(Item)
      /\ handle_' \in 0 .. MaxConn /\ fds' \subseteq 1 .. MaxConn
  <2>1. CASE connected
    BY <2>1, Closed DEF InvalidHeader
  <2>2. CASE ~connected
    <3>1. CloseIfConnected \/ CloseConnection
      BY DEF InvalidHeader
    <3>2. /\ handle_ = 0 /\ fds = {}
      BY <2>2 DEF Shape, OneConnection, TypeOK
    <3>3. /\ connected' = FALSE /\ handle_' = 0 /\ fds' = {} /\ in_' \in {"null", "closed"}
          /\ srv' = "gone" /\ toServer' = <<>> /\ net' = <<>>
      BY <3>2 DEF InvalidHeader, CloseConnection
    <3>. QED  BY <3>3, EmptySeq, Constants
  <2>. QED  BY <2>1, <2>2
<1>3. inbuf' \in Seq(Item) /\ from' \subseteq 0 .. MaxReq
  <2>1. from \subseteq 0 .. MaxReq /\ inbuf \in Seq(Item) /\ QueueType
    BY DEF Shape, TypeOK, QueueType
  <2>2. CASE StreamEnded /\ Receive("decode", "error", {})
    BY <2>1, <2>2 DEF StreamEnded, Receive
  <2>3. CASE ReadLine("err") /\ Receive("decode", "error", Sender)
    BY <2>1, <2>3, LineTyped, SenderTyped DEF Receive
  <2>. QED  BY <2>2, <2>3 DEF InvalidHeader
<1>4. TypeOK'
  BY <1>1, <1>2, <1>3 DEF Shape, TypeOK
<1>5. OneConnection' /\ WireShape' /\ QueueType'
  BY <1>1, <1>2, <1>3 DEF OneConnection, WireShape, QueueType
<1>6. HeapShape'
  BY <1>1 DEF Shape, HeapShape, Receiving
<1>7. CallShape'
  BY <1>1, <1>2 DEF Shape, CallShape, Receiving
<1>. QED  BY <1>4, <1>5, <1>6, <1>7 DEF Shape

\* What is received is a new object, with the number of its request.
LEMMA NewShape ==
  ASSUME Shape, pc = "object", NEW kind, New(kind), reqs' = reqs, rError' = rError, pc' = "decode"
  PROVE  /\ held' \subseteq 1 .. MaxReq /\ entity' \in {0} \cup held' /\ anyvector' \in {0} \cup held'
         /\ HeapShape'
<1>1. held' = held \cup {reqs}
      /\ \/ anyvector' = reqs /\ entity' = entity
         \/ anyvector' = anyvector /\ entity' = reqs
  BY DEF New
<1>2. /\ reqs \in 1 .. MaxReq /\ reqs \notin held /\ reqs # 0
      /\ held \subseteq 1 .. MaxReq /\ entity \in {0} \cup held /\ anyvector \in {0} \cup held
      /\ (entity # 0 => entity # anyvector) /\ \A x \in held : x =< reqs
      /\ (~rError => held = {})
  BY Constants DEF Shape, TypeOK, HeapShape, Receiving
<1>3. held' \subseteq 1 .. MaxReq /\ entity' \in {0} \cup held' /\ anyvector' \in {0} \cup held'
  BY <1>1, <1>2
<1>4. /\ entity' # 0 => entity' # anyvector'
      /\ \A x \in held' : x =< reqs
      /\ ~rError => held' \subseteq {entity', anyvector'}
  BY <1>1, <1>2
<1>. QED  BY <1>3, <1>4 DEF HeapShape, Receiving

LEMMA ObjectShape == ASSUME Shape, ReadObject \/ ReadUnsupported \/ ReadGarbage PROVE Shape'
<1>1. /\ connected' = connected /\ handle_' = handle_ /\ in_' = in_ /\ fds' = fds
      /\ srv' = srv /\ toServer' = toServer /\ net' = net /\ pc = "object" /\ pc' = "decode"
      /\ slot' = slot /\ api' = api /\ obj' = obj /\ conns' = conns /\ reqs' = reqs /\ rError' = rError
      /\ rtype' \in {"value", "void", "garbage"}
  BY DEF ReadObject, ReadUnsupported, ReadGarbage, NotAnObject, Receive, link, wire, ghost
<1>2. \E kind : New(kind)
  BY DEF ReadObject, ReadUnsupported, ReadGarbage
<1>3. /\ held' \subseteq 1 .. MaxReq /\ entity' \in {0} \cup held' /\ anyvector' \in {0} \cup held'
      /\ HeapShape'
  BY <1>1, <1>2, NewShape
<1>4. inbuf \in Seq(Item) /\ from \subseteq 0 .. MaxReq
  BY DEF Shape, QueueType, TypeOK
<1>5. inbuf # <<>> => Sender \subseteq 0 .. MaxReq /\ Tail(inbuf) \in Seq(Item)
  BY FirstItem, SenderTyped DEF Shape
<1>6. from' \subseteq 0 .. MaxReq
  BY <1>4, <1>5 DEF ReadObject, ReadUnsupported, ReadGarbage, Receive
<1>7. inbuf' \in Seq(Item)
  <2>1. CASE ReadObject
    BY <1>5, <2>1 DEF ReadObject
  <2>2. CASE ReadGarbage
    BY <2>2, NotAnObjectTyped DEF ReadGarbage
  <2>3. CASE ReadUnsupported
    <3>1. PICK k \in 1 .. MaxPieces : inbuf' = Pieces(Head(inbuf), k) \o Tail(inbuf)
      BY <2>3 DEF ReadUnsupported
    <3>2. k \in Nat /\ inbuf # <<>> /\ QueueType
      BY <2>3, Constants DEF ReadUnsupported, Shape
    <3>. QED  BY <3>1, <3>2, PiecesTyped
  <2>. QED  BY <2>1, <2>2, <2>3
<1>8. TypeOK'
  BY <1>1, <1>3, <1>6 DEF Shape, TypeOK
<1>9. OneConnection' /\ WireShape' /\ QueueType'
  BY <1>1, <1>7 DEF Shape, OneConnection, WireShape, QueueType
<1>10. CallShape'
  BY <1>1 DEF Shape, CallShape, Receiving
<1>. QED  BY <1>3, <1>8, <1>9, <1>10 DEF Shape

\* The call returns, and has deleted what it received unless R stopped it.
LEMMA DecodeShape == ASSUME Shape, Decode \/ DecodeError \/ ReadThrows PROVE Shape'
<1>1. /\ connected' = connected /\ handle_' = handle_ /\ in_' = in_ /\ fds' = fds
      /\ srv' = srv /\ toServer' = toServer /\ net' = net
      /\ pc' = "idle" /\ api' = "none" /\ rtype' = "none" /\ from' = {}
      /\ slot' \in {slot, [slot EXCEPT ![obj] = TRUE]} /\ obj' = obj /\ conns' = conns /\ reqs' = reqs
  BY DEF Decode, DecodeError, ReadThrows, Stop, Return, link, wire
<1>2. reqs' \in Nat /\ reqs =< reqs' /\ pc' \notin Receiving
  BY <1>1, Constants DEF Shape, TypeOK, Receiving
<1>3. HeapShape' /\ held' \subseteq 1 .. MaxReq /\ entity' \in {0} \cup held' /\ anyvector' \in {0} \cup held'
  <2>1. CASE Decode
    <3>1. Clear /\ rError' = rError
      BY <2>1 DEF Decode, ghost
    <3>. QED  BY <1>2, <3>1, ClearShape
  <2>2. CASE DecodeError \/ ReadThrows
    <3>1. entity' = entity /\ anyvector' = anyvector /\ held' = held /\ rError' = TRUE
      BY <2>2 DEF DecodeError, ReadThrows, Stop, heap
    <3>. QED  BY <1>1, <3>1 DEF Shape, TypeOK, HeapShape, Receiving
  <2>. QED  BY <2>1, <2>2
<1>4. inbuf' \in Seq(Item)
  <2>1. CASE inbuf' = inbuf
    BY <2>1 DEF Shape, QueueType
  <2>2. CASE ReadThrows
    BY <2>2, NotAnObjectTyped DEF ReadThrows
  <2>. QED  BY <2>1, <2>2 DEF Decode, DecodeError
<1>5. TypeOK'
  <2>1. slot' \in [Conns -> BOOLEAN]
    BY <1>1 DEF Shape, TypeOK
  <2>. QED  BY <1>1, <1>3, <2>1 DEF Shape, TypeOK
<1>6. OneConnection' /\ WireShape' /\ QueueType'
  BY <1>1, <1>4 DEF Shape, OneConnection, WireShape, QueueType
<1>7. CallShape'
  BY <1>1 DEF CallShape, Receiving
<1>. QED  BY <1>3, <1>5, <1>6, <1>7 DEF Shape

LEMMA SwallowShape == ASSUME Shape, Swallow PROVE Shape'
<1>1. /\ connected' = connected /\ handle_' = handle_ /\ in_' = in_ /\ fds' = fds
      /\ entity' = entity /\ anyvector' = anyvector /\ held' = held
      /\ slot' = slot /\ pc' = pc /\ api' = api /\ obj' = obj /\ rtype' = rtype /\ from' = from
      /\ conns' = conns /\ reqs' = reqs /\ srv' = srv /\ toServer' = toServer /\ net' = net
      /\ strayed' = strayed /\ rError' = rError
  BY DEF Swallow, link, heap, wire, ghost
<1>2. inbuf' \in Seq(Item)
  BY FirstItem DEF Swallow, Shape
<1>3. TypeOK' /\ HeapShape' /\ CallShape'
  BY <1>1 DEF Shape, TypeOK, HeapShape, CallShape, Receiving
<1>4. OneConnection' /\ WireShape' /\ QueueType'
  BY <1>1, <1>2 DEF Shape, OneConnection, WireShape, QueueType
<1>. QED  BY <1>3, <1>4 DEF Shape

LEMMA InitShape == Init => Shape
<1>. SUFFICES ASSUME Init
              PROVE  Shape
  OBVIOUS
<1>1. TypeOK
  <2>1. /\ handle_ \in 0 .. MaxConn /\ conns \in 0 .. MaxConn /\ reqs \in 0 .. MaxReq
        /\ held \subseteq 1 .. MaxReq /\ fds \subseteq 1 .. MaxConn /\ from \subseteq 0 .. MaxReq
    BY Constants DEF Init
  <2>2. connected \in BOOLEAN /\ slot \in [Conns -> BOOLEAN] /\ obj \in Conns
    BY DEF Init
  <2>. QED  BY <2>1, <2>2 DEF Init, TypeOK
<1>2. QueueType
  BY EmptySeq DEF Init, QueueType
<1>3. OneConnection /\ WireShape /\ HeapShape /\ CallShape
  BY DEF Init, OneConnection, WireShape, HeapShape, CallShape, Receiving
<1>. QED  BY <1>1, <1>2, <1>3 DEF Shape

LEMMA NextShape == Shape /\ [Next]_vars => Shape'
<1>. SUFFICES ASSUME Shape, [Next]_vars
              PROVE  Shape'
  OBVIOUS
<1>1. CASE UNCHANGED vars
  BY <1>1 DEF vars, Shape, TypeOK, OneConnection, QueueType, WireShape, HeapShape, CallShape
<1>2. CASE Calls
  <2>1. ASSUME NEW c \in Conns, Close(c) \/ ConnectFails(c) \/ \E login \in BOOLEAN : Connect(c, login)
        PROVE  Shape'
    BY <2>1, CloseShape, ConnectFailsShape, ConnectShape
  <2>2. CASE \/ Run
             \/ \E args \in ArgLists : Rpc(args) \/ \E repeats \in Repeats : Upload(args, repeats)
    BY <2>2, SendsShape
  <2>3. CASE \/ \E op \in {"run", "rpc"} : NotConnected(op)
             \/ UploadRefused
             \/ \E args \in ArgLists : UploadWithoutStream(args)
    BY <2>3, RefusedShape
  <2>. QED  BY <1>2, <2>1, <2>2, <2>3 DEF Calls
<1>3. CASE Reader
  <2>1. CASE Fill \/ HandshakeOK \/ HandshakeFails \/ InvalidHeader
    BY <2>1, FillShape, HandshakeOKShape, HandshakeFailsShape, InvalidHeaderShape
  <2>2. CASE ReadHeader \/ SkipForever \/ ReadMsg
    BY <2>2, LineShape
  <2>3. CASE ReadObject \/ ReadUnsupported \/ ReadGarbage
    BY <2>3, ObjectShape
  <2>4. CASE Decode \/ DecodeError \/ ReadThrows
    BY <2>4, DecodeShape
  <2>5. CASE Swallow
    BY <2>5, SwallowShape
  <2>. QED  BY <1>3, <2>1, <2>2, <2>3, <2>4, <2>5 DEF Reader
<1>4. CASE Serve \/ Hangup
  BY <1>4, ServerShape
<1>. QED  BY <1>1, <1>2, <1>3, <1>4 DEF Next

-----------------------------------------------------------------------------
(* What dbConnect returns.                                                 *)

\* The step with which a dbConnect returns.
TellsStatus ==
  pc # "idle" /\ pc' = "idle" /\ api \in {"connect", "login"} /\ result'.out = "object" =>
    /\ connected' => slot'[obj]
    /\ slot'[obj] /\ ~connected' => api = "login" /\ rtype = "error"

\* Only three steps end one.
LEMMA StepTellsStatus == Shape /\ [Next]_vars => [TellsStatus]_vars
<1>. SUFFICES ASSUME Shape, Next, pc # "idle", pc' = "idle", api \in {"connect", "login"},
                     result'.out = "object"
              PROVE  /\ connected' => slot'[obj]
                     /\ slot'[obj] /\ ~connected' => api = "login" /\ rtype = "error"
  BY DEF TellsStatus
<1>1. slot \in [Conns -> BOOLEAN] /\ obj \in Conns
  BY DEF Shape, TypeOK
<1>2. CASE HandshakeOK
  <2>1. connected' = connected /\ connected
    BY <1>2 DEF HandshakeOK, link, Shape, CallShape
  <2>2. slot' = [slot EXCEPT ![obj] = TRUE]
    BY <1>2 DEF HandshakeOK
  <2>. QED  BY <1>1, <2>1, <2>2
<1>3. CASE HandshakeFails
  <2>1. connected' = FALSE /\ slot' = [slot EXCEPT ![obj] = FALSE]
    BY <1>3 DEF HandshakeFails, CloseConnection
  <2>. QED  BY <1>1, <2>1
<1>4. CASE Decode
  <2>1. connected' = connected /\ pc = "decode"
    BY <1>4 DEF Decode, link
  <2>2. api = "login"
    BY <2>1 DEF Shape, CallShape
  <2>3. slot' = [slot EXCEPT ![obj] = TRUE]
    BY <1>4, <2>2 DEF Decode
  <2>4. connected \/ rtype = "error"
    BY <2>1, <2>2 DEF Shape, CallShape
  <2>. QED  BY <1>1, <2>1, <2>2, <2>3, <2>4
<1>5. ~Calls
  BY DEF Calls, Close, ConnectFails, Connect, Run, Rpc, Upload, Send, NotConnected, UploadRefused,
         UploadWithoutStream
<1>6. ~(DecodeError \/ ReadThrows)
  <2>. SUFFICES ASSUME Stop PROVE FALSE
    BY DEF DecodeError, ReadThrows
  <2>1. result'.out = "R error"
    BY DEF Stop, Return
  <2>. QED  BY <2>1
<1>7. ~(Fill \/ Swallow \/ Serve \/ Hangup)
  BY DEF Fill, Swallow, Serve, Hangup
<1>8. ~(ReadHeader \/ InvalidHeader \/ SkipForever \/ ReadMsg \/ ReadObject \/ ReadUnsupported \/ ReadGarbage)
  BY DEF ReadHeader, InvalidHeader, SkipForever, ReadMsg, ReadObject, ReadUnsupported, ReadGarbage,
         Receive
<1>. QED  BY <1>2, <1>3, <1>4, <1>5, <1>6, <1>7, <1>8 DEF Next, Reader

-----------------------------------------------------------------------------
(* The items on their way.                                                 *)

LEMMA Joined ==
  ASSUME NEW s \in Seq(Item), NEW t \in Seq(Item)
  PROVE  /\ s \o t \in Seq(Item) /\ Len(s \o t) = Len(s) + Len(t)
         /\ Len(s) \in Nat /\ Len(t) \in Nat
         /\ \A i \in 1 .. Len(s) : (s \o t)[i] = s[i]
         /\ \A i \in 1 .. Len(s) + Len(t) : i > Len(s) => (s \o t)[i] = t[i - Len(s)]
<1>1. Len(s) \in Nat /\ Len(t) \in Nat
  BY LenProperties
<1>2. /\ s \o t \in Seq(Item) /\ Len(s \o t) = Len(s) + Len(t)
      /\ \A i \in 1 .. Len(s) + Len(t) : (s \o t)[i] = IF i =< Len(s) THEN s[i] ELSE t[i - Len(s)]
  BY ConcatProperties
<1>. QED  BY <1>1, <1>2

LEMMA QueueItems ==
  ASSUME QueueType
  PROVE  /\ inbuf \in Seq(Item) /\ net \in Seq(Item) /\ Len(inbuf) \in Nat /\ Len(net) \in Nat
         /\ Queue \in Seq(Item) /\ Len(Queue) = Len(inbuf) + Len(net) /\ Len(Queue) \in Nat
         /\ \A i \in 1 .. Len(Queue) : Queue[i] \in Item
         /\ \A i \in 1 .. Len(inbuf) : Queue[i] = inbuf[i]
         /\ \A i \in 1 .. Len(Queue) : i > Len(inbuf) => Queue[i] = net[i - Len(inbuf)]
<1>1. inbuf \in Seq(Item) /\ net \in Seq(Item)
  BY DEF QueueType
<1>2. Queue \in Seq(Item) /\ \A i \in 1 .. Len(Queue) : Queue[i] \in Item
  BY <1>1, Joined, ElementOfSeq DEF Queue
<1>. QED  BY <1>1, <1>2, Joined DEF Queue

\* What a read takes is the first item, and the others move up; those that the
\* network still had may be lost with it.
LEMMA TakeFirst ==
  ASSUME QueueType, inbuf # <<>>
  PROVE  /\ Len(Queue) >= 1 /\ Queue[1] = Head(inbuf) /\ Queue[1] \in Item
         /\ inbuf' = Tail(inbuf) /\ net' \in {net, <<>>} =>
              /\ Len(Queue') \in Nat /\ Len(Queue') =< Len(Queue) - 1
              /\ \A i \in 1 .. Len(Queue') : Queue'[i] = Queue[i + 1]
<1>1. /\ inbuf \in Seq(Item) /\ net \in Seq(Item) /\ Len(inbuf) \in Nat /\ Len(net) \in Nat
      /\ Len(Queue) = Len(inbuf) + Len(net)
      /\ \A i \in 1 .. Len(Queue) : Queue[i] \in Item
      /\ \A i \in 1 .. Len(inbuf) : Queue[i] = inbuf[i]
      /\ \A i \in 1 .. Len(Queue) : i > Len(inbuf) => Queue[i] = net[i - Len(inbuf)]
  BY QueueItems
<1>2. Len(inbuf) >= 1 /\ Head(inbuf) = inbuf[1]
  BY <1>1, EmptySeq
<1>3. Len(Queue) >= 1 /\ Queue[1] = Head(inbuf) /\ Queue[1] \in Item
  BY <1>1, <1>2
<1>4. ASSUME inbuf' = Tail(inbuf), net' \in {net, <<>>}
      PROVE  /\ Len(Queue') \in Nat /\ Len(Queue') =< Len(Queue) - 1
             /\ \A i \in 1 .. Len(Queue') : Queue'[i] = Queue[i + 1]
  <2>. DEFINE u == Tail(inbuf)
  <2>1. /\ u \in Seq(Item) /\ Len(u) = Len(inbuf) - 1
        /\ \A i \in 1 .. Len(u) : u[i] = inbuf[i + 1]
    BY <1>1, HeadTailProperties
  <2>2. Queue' = u \o net'
    BY <1>4 DEF Queue
  <2>. HIDE DEF u
  <2>3. /\ net' \in Seq(Item) /\ Len(net') \in Nat /\ Len(net') =< Len(net)
        /\ \A i \in 1 .. Len(net') : net'[i] = net[i]
    <3>1. CASE net' = net
      BY <1>1, <3>1
    <3>2. CASE net' = <<>>
      BY <1>1, <3>2, EmptySeq
    <3>. QED  BY <1>4, <3>1, <3>2
  <2>4. /\ Len(Queue') = Len(u) + Len(net')
        /\ \A i \in 1 .. Len(u) : Queue'[i] = u[i]
        /\ \A i \in 1 .. Len(u) + Len(net') : i > Len(u) => Queue'[i] = net'[i - Len(u)]
    BY <2>1, <2>2, <2>3, Joined
  <2>5. Len(Queue') \in Nat /\ Len(Queue') =< Len(Queue) - 1
    BY <1>1, <1>2, <2>1, <2>3, <2>4
  <2>6. ASSUME NEW i \in 1 .. Len(Queue')
        PROVE  Queue'[i] = Queue[i + 1]
    <3>1. CASE i =< Len(u)
      BY <1>1, <1>2, <2>1, <2>4, <3>1
    <3>2. CASE i > Len(u)
      <4>1. Queue'[i] = net'[i - Len(u)] /\ i - Len(u) \in 1 .. Len(net')
        BY <1>1, <2>1, <2>3, <2>4, <3>2
      <4>2. i + 1 \in 1 .. Len(Queue) /\ i + 1 > Len(inbuf) /\ (i + 1) - Len(inbuf) = i - Len(u)
        BY <1>1, <1>2, <2>1, <2>3, <2>4, <3>2
      <4>. QED  BY <1>1, <2>3, <4>1, <4>2
    <3>. QED  BY <1>1, <2>1, <2>3, <2>4, <3>1, <3>2
  <2>. QED  BY <2>5, <2>6
<1>. QED  BY <1>3, <1>4

\* What the network loses is at the end.
LEMMA LoseLast ==
  ASSUME QueueType, inbuf' = inbuf, net' = <<>> \/ \E k \in 0 .. Len(net) : net' = SubSeq(net, 1, k)
  PROVE  /\ Len(Queue') \in Nat /\ Len(Queue') =< Len(Queue)
         /\ \A i \in 1 .. Len(Queue') : Queue'[i] = Queue[i]
<1>1. /\ inbuf \in Seq(Item) /\ net \in Seq(Item) /\ Len(inbuf) \in Nat /\ Len(net) \in Nat
      /\ Len(Queue) = Len(inbuf) + Len(net)
      /\ \A i \in 1 .. Len(inbuf) : Queue[i] = inbuf[i]
      /\ \A i \in 1 .. Len(Queue) : i > Len(inbuf) => Queue[i] = net[i - Len(inbuf)]
  BY QueueItems
<1>2. /\ net' \in Seq(Item) /\ Len(net') \in Nat /\ Len(net') =< Len(net)
      /\ \A i \in 1 .. Len(net') : net'[i] = net[i]
  <2>1. CASE net' = <<>>
    BY <1>1, <2>1, EmptySeq
  <2>2. ASSUME NEW k \in 0 .. Len(net), net' = SubSeq(net, 1, k)
        PROVE  /\ net' \in Seq(Item) /\ Len(net') \in Nat /\ Len(net') =< Len(net)
               /\ \A i \in 1 .. Len(net') : net'[i] = net[i]
    <3>1. \A i \in 1 .. k : net[i] \in Item
      BY <1>1, ElementOfSeq
    <3>2. /\ SubSeq(net, 1, k) \in Seq(Item)
          /\ Len(SubSeq(net, 1, k)) = IF 1 =< k THEN k - 1 + 1 ELSE 0
          /\ \A i \in 1 .. k - 1 + 1 : SubSeq(net, 1, k)[i] = net[1 + i - 1]
      BY <3>1, SubSeqProperties
    <3>. QED  BY <1>1, <2>2, <3>2
  <2>. QED  BY <2>1, <2>2
<1>3. Queue' = inbuf \o net'
  BY DEF Queue
<1>4. /\ Len(Queue') = Len(inbuf) + Len(net')
      /\ \A i \in 1 .. Len(inbuf) : Queue'[i] = inbuf[i]
      /\ \A i \in 1 .. Len(inbuf) + Len(net') : i > Len(inbuf) => Queue'[i] = net'[i - Len(inbuf)]
  BY <1>1, <1>2, <1>3, Joined
<1>5. ASSUME NEW i \in 1 .. Len(Queue')
      PROVE  Queue'[i] = Queue[i]
  <2>1. CASE i =< Len(inbuf)
    BY <1>1, <1>4, <2>1
  <2>2. CASE i > Len(inbuf)
    <3>1. Queue'[i] = net'[i - Len(inbuf)] /\ i - Len(inbuf) \in 1 .. Len(net') /\ i \in 1 .. Len(Queue)
      BY <1>1, <1>2, <1>4, <2>2
    <3>. QED  BY <1>1, <1>2, <2>2, <3>1
  <2>. QED  BY <1>1, <1>2, <1>4, <2>1, <2>2
<1>. QED  BY <1>1, <1>2, <1>4, <1>5

-----------------------------------------------------------------------------
(* The order of the items, one lemma per action or group of actions.       *)

\* What a reply looks like.
LEMMA ReplyShape ==
  ASSUME NEW r \in Replies
  PROVE  \/ Len(r) = 2 /\ r[1] = "hdr0" /\ r[2] \in {"ok", "err"}
         \/ Len(r) = 3 /\ r[1] = "hdr1" /\ r[2] = "ok" /\ r[3] \in Objects
<1>. QED  BY DEF Replies, Objects

\* What InOrder says of the state, and what shows it of the next one.
LEMMA OrderNow ==
  ASSUME InOrder, ~strayed, pc \notin {"spin", "crashed"}
  PROVE  \E o \in {0, 1}, r \in Rest :
           /\ o = 1 => pc \in {"idle", "header"} /\ Len(Queue) >= 1 /\ Queue[1] = [t |-> "ok", id |-> 0]
           /\ Len(Queue) =< o + Len(r)
           /\ \A i \in o + 1 .. Len(Queue) : Queue[i].t = r[i - o] /\ Queue[i].id = Own
           /\ toServer # <<>> =>
                /\ pc \in {"handshake", "header", "skip"} /\ Len(Queue) = o /\ Len(toServer) = 1
                /\ toServer[1].id = Own
                /\ toServer[1].t = IF pc = "handshake" THEN "connect" ELSE "request"
<1>. QED  BY DEF InOrder, Expected

LEMMA OrderNext ==
  ASSUME NEW o \in {0, 1}, NEW r \in Rest',
         o = 1 => pc' \in {"idle", "header"} /\ Len(Queue') >= 1 /\ Queue'[1] = [t |-> "ok", id |-> 0],
         Len(Queue') =< o + Len(r),
         \A i \in o + 1 .. Len(Queue') : Queue'[i].t = r[i - o] /\ Queue'[i].id = Own',
         toServer' # <<>> =>
           /\ pc' \in {"handshake", "header", "skip"} /\ Len(Queue') = o /\ Len(toServer') = 1
           /\ toServer'[1].id = Own'
           /\ toServer'[1].t = IF pc' = "handshake" THEN "connect" ELSE "request"
  PROVE  InOrder'
<1>. QED  BY DEF InOrder, Expected

\* The same, when no "OK" line is left and the server has no request.
LEMMA OrderRest ==
  ASSUME NEW r \in Rest', Len(Queue') \in Nat, Len(r) \in Nat, Len(Queue') =< Len(r), toServer' = <<>>,
         \A i \in 1 .. Len(Queue') : Queue'[i].t = r[i] /\ Queue'[i].id = Own'
  PROVE  InOrder'
<1>1. Len(Queue') =< 0 + Len(r)
  OBVIOUS
<1>2. \A i \in 0 + 1 .. Len(Queue') : Queue'[i].t = r[i - 0] /\ Queue'[i].id = Own'
  OBVIOUS
<1>. QED  BY <1>1, <1>2, OrderNext

\* Nothing is on its way when both buffers are empty.
LEMMA NothingQueued ==
  ASSUME inbuf' = <<>>, net' = <<>>
  PROVE  Len(Queue') = 0
<1>1. Queue' = <<>> \o <<>>
  BY DEF Queue
<1>2. <<>> \in Seq(Item) /\ Len(<<>>) = 0
  BY EmptySeq
<1>. QED  BY <1>1, <1>2, Joined

\* Then any rest of a reply may still come.
LEMMA EmptyOrder ==
  ASSUME Len(Queue') = 0, toServer' = <<>>
  PROVE  InOrder'
<1>1. PICK r \in Rest' : Len(r) \in Nat
  <2>1. <<>> \in Rest' \/ <<"err">> \in Rest' \/ <<"hdr0", "ok">> \in Rest' \/ <<"ok", "any">> \in Rest'
        \/ <<"any">> \in Rest'
    BY DEF Rest, Replies, Objects
  <2>. QED  BY <2>1
<1>. QED  BY <1>1, OrderNext

\* Between two calls at most the "OK" line of a dbConnect is left.
LEMMA IdleQueue ==
  ASSUME Shape, InOrder, ~strayed, pc = "idle"
  PROVE  /\ toServer = <<>>
         /\ Len(Queue) = 0 \/ (Len(Queue) = 1 /\ Queue[1] = [t |-> "ok", id |-> 0])
<1>1. Len(Queue) \in Nat
  BY QueueItems DEF Shape
<1>2. Rest = {<<>>}
  BY DEF Rest
<1>3. PICK o \in {0, 1}, r \in Rest :
        /\ o = 1 => Len(Queue) >= 1 /\ Queue[1] = [t |-> "ok", id |-> 0]
        /\ Len(Queue) =< o + Len(r)
        /\ toServer # <<>> => pc \in {"handshake", "header", "skip"}
  BY OrderNow
<1>4. Len(r) = 0
  BY <1>2, EmptySeq
<1>5. toServer = <<>>
  BY <1>3
<1>6. CASE o = 0
  BY <1>1, <1>3, <1>4, <1>5, <1>6
<1>7. CASE o = 1
  <2>0. Len(Queue) >= 1
    BY <1>3, <1>7
  <2>1. Len(Queue) = 1
    <3>1. Len(Queue) =< 1 + Len(r)
      BY <1>3, <1>7
    <3>2. Len(Queue) =< 1 + 0
      BY <1>4, <3>1
    <3>. QED  BY <1>1, <2>0, <3>2
  <2>2. Queue[1] = [t |-> "ok", id |-> 0]
    BY <1>3, <1>7
  <2>. QED  BY <1>5, <2>1, <2>2
<1>. QED  BY <1>6, <1>7

LEMMA IdleOrder ==
  ASSUME Shape, InOrder, pc = "idle", pc' = "idle", strayed' = strayed, inbuf' = inbuf,
         net' \in {net, <<>>}, toServer' \in {toServer, <<>>}
  PROVE  InOrder'
<1>. SUFFICES ASSUME ~strayed PROVE InOrder'
  BY DEF InOrder
<1>1. /\ toServer = <<>>
      /\ Len(Queue) = 0 \/ (Len(Queue) = 1 /\ Queue[1] = [t |-> "ok", id |-> 0])
  BY IdleQueue
<1>2. Len(Queue') = 0 \/ (Len(Queue') = 1 /\ Queue'[1] = Queue[1])
  <2>1. CASE net' = net
    BY <1>1, <2>1 DEF Queue
  <2>2. CASE net' = <<>>
    BY <1>1, <2>2, LoseLast DEF Shape
  <2>. QED  BY <2>1, <2>2
<1>3. CASE Len(Queue') = 0
  BY <1>1, <1>3, EmptyOrder
<1>4. CASE Len(Queue') = 1 /\ Queue'[1] = Queue[1]
  <2>1. <<>> \in Rest'
    BY DEF Rest
  <2>2. Queue'[1] = [t |-> "ok", id |-> 0] /\ Len(Queue) = 1
    BY <1>1, <1>2, <1>4, LoseLast DEF Queue
  <2>. QED  BY <1>1, <1>4, <2>1, <2>2, OrderNext
<1>. QED  BY <1>2, <1>3, <1>4

\* What OwnReply needs of a call that returns.
LEMMA Returned ==
  ASSUME NEW op, NEW out, Return(op, out), ~strayed,
         op \in {"run", "rpc", "upload"} => from \subseteq {reqs},
         out \in {"value", "NA", "TRUE"} => from = {reqs}
  PROVE  OwnReply'
<1>1. result' = [op |-> op, out |-> out, from |-> from, own |-> reqs, stray |-> strayed]
  BY DEF Return
<1>. QED  BY <1>1 DEF OwnReply

\* A connection on which a payload was left proves nothing of any call.
LEMMA ReturnedStray ==
  ASSUME NEW op, NEW out, Return(op, out), strayed
  PROVE  OwnReply'
<1>1. result' = [op |-> op, out |-> out, from |-> from, own |-> reqs, stray |-> strayed]
  BY DEF Return
<1>. QED  BY <1>1 DEF OwnReply

LEMMA SameResult == ASSUME OwnReply, result' = result PROVE OwnReply'
<1>. QED  BY DEF OwnReply

\* A call that ends at once has read nothing.
LEMMA AtOnce ==
  ASSUME FromShape, pc = "idle", NEW op, NEW out \in {"object", "NULL"}, Return(op, out)
  PROVE  FromShape' /\ OwnReply'
<1>1. from = {} /\ from' = {} /\ pc' = "idle"
  BY DEF FromShape, Return
<1>2. FromShape'
  BY <1>1 DEF FromShape
<1>3. OwnReply'
  BY <1>1, Returned, ReturnedStray
<1>. QED  BY <1>2, <1>3

\* What the connection loses when it is closed.
LEMMA CutShort ==
  ASSUME CloseIfConnected
  PROVE  net' \in {net, <<>>} /\ toServer' \in {toServer, <<>>}
<1>. QED  BY DEF CloseIfConnected, CloseConnection, wire

LEMMA AtOnceOrder ==
  ASSUME IInv, NEW c \in Conns, NEW op \in {"run", "rpc"},
         ConnectFails(c) \/ Close(c) \/ NotConnected(op) \/ UploadRefused
  PROVE  InOrder' /\ FromShape' /\ OwnReply'
<1>1. CASE ConnectFails(c)
  <2>1. /\ pc = "idle" /\ Return("connect", "object") /\ strayed' = strayed /\ inbuf' = inbuf
        /\ CloseIfConnected
    BY <1>1 DEF ConnectFails, ghost
  <2>2. pc' = "idle"
    BY <2>1 DEF Return
  <2>. QED  BY <2>1, <2>2, AtOnce, CutShort, IdleOrder DEF IInv
<1>2. CASE Close(c)
  <2>1. /\ pc = "idle" /\ Return("close", "object") /\ strayed' = strayed /\ inbuf' = inbuf
        /\ CloseIfConnected
    BY <1>2 DEF Close, ghost
  <2>2. pc' = "idle"
    BY <2>1 DEF Return
  <2>. QED  BY <2>1, <2>2, AtOnce, CutShort, IdleOrder DEF IInv
<1>3. CASE NotConnected(op)
  <2>1. /\ pc = "idle" /\ Return(op, "NULL") /\ strayed' = strayed /\ inbuf' = inbuf
        /\ net' = net /\ toServer' = toServer
    BY <1>3 DEF NotConnected, ghost, wire
  <2>2. pc' = "idle"
    BY <2>1 DEF Return
  <2>. QED  BY <2>1, <2>2, AtOnce, IdleOrder DEF IInv
<1>4. CASE UploadRefused
  <2>1. /\ pc = "idle" /\ Return("upload", "NULL") /\ strayed' = strayed /\ inbuf' = inbuf
        /\ net' = net /\ toServer' = toServer
    BY <1>4 DEF UploadRefused, ghost, wire
  <2>2. pc' = "idle"
    BY <2>1 DEF Return
  <2>. QED  BY <2>1, <2>2, AtOnce, IdleOrder DEF IInv
<1>. QED  BY <1>1, <1>2, <1>3, <1>4

LEMMA CrashOrder ==
  ASSUME IInv, NEW args, UploadWithoutStream(args)
  PROVE  InOrder' /\ FromShape' /\ OwnReply'
<1>1. pc' = "crashed" /\ from' = from /\ result' = result
  BY DEF UploadWithoutStream
<1>. QED  BY <1>1, SameResult DEF IInv, InOrder, FromShape

LEMMA ConnectOrder ==
  ASSUME IInv, NEW c \in Conns, NEW login \in BOOLEAN, Connect(c, login)
  PROVE  InOrder' /\ FromShape' /\ OwnReply'
<1>1. /\ pc = "idle" /\ pc' = "handshake" /\ inbuf' = <<>> /\ net' = <<>>
      /\ toServer' = <<[t |-> "connect", n |-> 0, sent |-> 0, id |-> 0]>>
      /\ from' = from /\ result' = result
  BY DEF Connect
<1>2. Len(Queue') = 0
  BY <1>1, NothingQueued
<1>3. <<"err">> \in Rest' /\ Own' = 0
  BY <1>1 DEF Rest, Own
<1>4. Len(toServer') = 1 /\ toServer'[1].id = Own' /\ toServer'[1].t = "connect"
  BY <1>1, <1>3
<1>5. InOrder'
  BY <1>1, <1>2, <1>3, <1>4, OrderNext
<1>. QED  BY <1>1, <1>5, SameResult DEF IInv, FromShape

\* What a read takes, and what is left behind it: the "OK" line of dbConnect
\* with the reply behind it, or an item of the reply.
LEMMA ReadNext ==
  ASSUME Shape, InOrder, ~strayed, pc \in Receiving \cup {"handshake"},
         inbuf # <<>>, inbuf' = Tail(inbuf), net' \in {net, <<>>}
  PROVE  /\ Len(Queue') \in Nat
         /\ \/ /\ pc = "header" /\ Head(inbuf).t = "ok"
               /\ \E r \in Replies :
                    /\ Len(Queue') =< Len(r)
                    /\ \A i \in 1 .. Len(Queue') : Queue'[i].t = r[i] /\ Queue'[i].id = Own
                    /\ toServer # <<>> =>
                         /\ Len(Queue') = 0 /\ Len(toServer) = 1
                         /\ toServer[1].id = Own /\ toServer[1].t = "request"
            \/ \E r \in Rest :
                 /\ toServer = <<>> /\ Len(r) >= 1
                 /\ Head(inbuf).t = r[1] /\ Head(inbuf).id = Own
                 /\ Len(Queue') + 1 =< Len(r)
                 /\ \A i \in 1 .. Len(Queue') : Queue'[i].t = r[i + 1] /\ Queue'[i].id = Own
<1>1. /\ Len(Queue) \in Nat /\ Len(Queue) >= 1 /\ Queue[1] = Head(inbuf)
      /\ Len(Queue') \in Nat /\ Len(Queue') =< Len(Queue) - 1
      /\ \A i \in 1 .. Len(Queue') : Queue'[i] = Queue[i + 1]
  BY QueueItems, TakeFirst DEF Shape
<1>2. PICK o \in {0, 1}, r \in Rest :
        /\ o = 1 => pc \in {"idle", "header"} /\ Len(Queue) >= 1 /\ Queue[1] = [t |-> "ok", id |-> 0]
        /\ Len(Queue) =< o + Len(r)
        /\ \A i \in o + 1 .. Len(Queue) : Queue[i].t = r[i - o] /\ Queue[i].id = Own
        /\ toServer # <<>> =>
             /\ pc \in {"handshake", "header", "skip"} /\ Len(Queue) = o /\ Len(toServer) = 1
             /\ toServer[1].id = Own
             /\ toServer[1].t = IF pc = "handshake" THEN "connect" ELSE "request"
  BY OrderNow DEF Receiving
<1>3. Len(Queue') \in Nat
  BY <1>1
<1>4. Len(r) \in {0, 1, 2, 3}
  BY DEF Rest, Replies, Objects
<1>5. CASE o = 1
  <2>1. pc = "header" /\ Queue[1] = [t |-> "ok", id |-> 0]
    BY <1>2, <1>5 DEF Receiving
  <2>2. r \in Replies
    BY <2>1 DEF Rest
  <2>3. Len(Queue) =< 1 + Len(r)
    BY <1>2, <1>5
  <2>4. Len(Queue') =< Len(r)
    BY <1>1, <1>4, <2>3
  <2>5. ASSUME NEW i \in 1 .. Len(Queue')
        PROVE  Queue'[i].t = r[i] /\ Queue'[i].id = Own
    <3>1. i + 1 \in 1 + 1 .. Len(Queue) /\ (i + 1) - 1 = i
      BY <1>1
    <3>2. Queue[i + 1].t = r[(i + 1) - 1] /\ Queue[i + 1].id = Own
      BY <1>2, <1>5, <3>1
    <3>. QED  BY <1>1, <3>1, <3>2
  <2>6. toServer # <<>> => /\ Len(Queue) = 1 /\ Len(toServer) = 1
                           /\ toServer[1].id = Own /\ toServer[1].t = "request"
    BY <1>2, <1>5, <2>1
  <2>7. Head(inbuf).t = "ok"
    BY <1>1, <2>1
  <2>. QED  BY <1>1, <1>3, <2>1, <2>2, <2>4, <2>5, <2>6, <2>7
<1>6. CASE o = 0
  <2>1. toServer = <<>>
    BY <1>1, <1>2, <1>6
  <2>2. Len(Queue) =< 0 + Len(r)
    BY <1>2, <1>6
  <2>3. Len(Queue') + 1 =< Len(r) /\ Len(r) >= 1
    BY <1>1, <1>4, <2>2
  <2>4. ASSUME NEW i \in 1 .. Len(Queue)
        PROVE  Queue[i].t = r[i] /\ Queue[i].id = Own
    <3>1. i \in 0 + 1 .. Len(Queue) /\ i - 0 = i
      BY <1>1
    <3>. QED  BY <1>2, <1>6, <3>1
  <2>5. Head(inbuf).t = r[1] /\ Head(inbuf).id = Own
    <3>1. 1 \in 1 .. Len(Queue)
      BY <1>1
    <3>. QED  BY <1>1, <2>4, <3>1
  <2>6. ASSUME NEW i \in 1 .. Len(Queue')
        PROVE  Queue'[i].t = r[i + 1] /\ Queue'[i].id = Own
    <3>1. i + 1 \in 1 .. Len(Queue)
      BY <1>1
    <3>. QED  BY <1>1, <2>4, <3>1
  <2>. QED  BY <1>3, <2>1, <2>3, <2>5, <2>6
<1>. QED  BY <1>2, <1>5, <1>6

\* A line that was sent as a line is read as it is.
LEMMA LineRead ==
  ASSUME NEW line, ReadLine(line), ~strayed, Head(inbuf).t \in Lines
  PROVE  line = Head(inbuf).t
<1>. QED  BY DEF ReadLine, LinesOf

\* The "OK" line of dbConnect may be left when a request is sent.
LEMMA LeftOK ==
  ASSUME Len(Queue') \in {0, 1}, Len(Queue') = 1 => Queue'[1] = [t |-> "ok", id |-> 0],
         pc' \in {"idle", "header"},
         toServer' # <<>> => /\ pc' = "header" /\ Len(toServer') = 1
                             /\ toServer'[1].id = Own' /\ toServer'[1].t = "request"
  PROVE  InOrder'
<1>1. PICK r \in Rest' : Len(r) \in {0, 2}
  <2>1. <<>> \in Rest' \/ <<"hdr0", "ok">> \in Rest'
    BY DEF Rest, Replies
  <2>. QED  BY <2>1, EmptySeq
<1>2. CASE Len(Queue') = 0
  <2>1. Len(Queue') =< 0 + Len(r)
    BY <1>1, <1>2
  <2>2. \A i \in 0 + 1 .. Len(Queue') : Queue'[i].t = r[i - 0] /\ Queue'[i].id = Own'
    BY <1>2
  <2>. QED  BY <1>2, <2>1, <2>2, OrderNext
<1>3. CASE Len(Queue') = 1
  <2>1. Len(Queue') =< 1 + Len(r)
    BY <1>1, <1>3
  <2>2. \A i \in 1 + 1 .. Len(Queue') : Queue'[i].t = r[i - 1] /\ Queue'[i].id = Own'
    BY <1>3
  <2>. QED  BY <1>3, <2>1, <2>2, OrderNext
<1>. QED  BY <1>2, <1>3

\* A server that had no request has this one, or none.
LEMMA Written ==
  ASSUME toServer = <<>>, NEW n, NEW args, Write(n, args)
  PROVE  toServer' # <<>> =>
           Len(toServer') = 1 /\ toServer'[1].id = reqs' /\ toServer'[1].t = "request"
<1>. DEFINE q == [t |-> "request", n |-> n, sent |-> Uploaded(args), id |-> reqs']
<1>1. toServer' = <<>> \/ toServer' = Append(<<>>, q)
  BY DEF Write
<1>2. Append(<<>>, q) = <<q>>
  OBVIOUS
<1>3. q.id = reqs' /\ q.t = "request"
  OBVIOUS
<1>. HIDE DEF q
<1>. QED  BY <1>1, <1>2, <1>3

LEMMA SendOrder ==
  ASSUME IInv, NEW op, NEW n, NEW args, Send(op, n, args)
  PROVE  InOrder' /\ FromShape' /\ OwnReply'
<1>1. /\ pc = "idle" /\ pc' = "header" /\ inbuf' = inbuf /\ net' = net /\ strayed' = strayed
      /\ from' = from /\ result' = result /\ Write(n, args)
  BY DEF Send, ghost
<1>2. InOrder'
  <2>. SUFFICES ASSUME ~strayed PROVE InOrder'
    BY <1>1 DEF InOrder
  <2>1. toServer = <<>> /\ (Len(Queue) = 0 \/ (Len(Queue) = 1 /\ Queue[1] = [t |-> "ok", id |-> 0]))
    BY <1>1, IdleQueue DEF IInv
  <2>2. Queue' = Queue
    BY <1>1 DEF Queue
  <2>3. Len(Queue') \in {0, 1}
    BY <2>1, <2>2
  <2>4. Len(Queue') = 1 => Queue'[1] = [t |-> "ok", id |-> 0]
    BY <2>1, <2>2
  <2>5. Own' = reqs'
    BY <1>1 DEF Own
  <2>. QED  BY <1>1, <2>1, <2>3, <2>4, <2>5, Written, LeftOK
<1>. QED  BY <1>1, <1>2, SameResult DEF IInv, FromShape

LEMMA CallsOrder == ASSUME IInv, Calls PROVE InOrder' /\ FromShape' /\ OwnReply'
<1>1. CASE \E c \in Conns : Close(c) \/ ConnectFails(c) \/ \E login \in BOOLEAN : Connect(c, login)
  BY <1>1, AtOnceOrder, ConnectOrder
<1>2. CASE Run \/ \E op \in {"run", "rpc"} : NotConnected(op)
  <2>1. CASE Run
    BY <2>1, SendOrder DEF Run
  <2>2. CASE \E op \in {"run", "rpc"} : NotConnected(op)
    <3>1. obj \in Conns
      BY DEF IInv, Shape, TypeOK
    <3>. QED  BY <2>2, <3>1, AtOnceOrder
  <2>. QED  BY <1>2, <2>1, <2>2
<1>3. CASE UploadRefused
  <2>1. obj \in Conns
    BY DEF IInv, Shape, TypeOK
  <2>. QED  BY <1>3, <2>1, AtOnceOrder
<1>4. ASSUME NEW args \in ArgLists,
             \/ Rpc(args) \/ UploadWithoutStream(args)
             \/ \E repeats \in Repeats : Upload(args, repeats)
      PROVE  InOrder' /\ FromShape' /\ OwnReply'
  <2>1. CASE Rpc(args)
    BY <2>1, SendOrder DEF Rpc
  <2>2. CASE UploadWithoutStream(args)
    BY <2>2, CrashOrder
  <2>3. CASE \E repeats \in Repeats : Upload(args, repeats)
    BY <2>3, SendOrder DEF Upload
  <2>. QED  BY <1>4, <2>1, <2>2, <2>3
<1>. QED  BY <1>1, <1>2, <1>3, <1>4 DEF Calls

LEMMA HandshakeOrder ==
  ASSUME IInv, HandshakeOK \/ HandshakeFails
  PROVE  InOrder' /\ FromShape' /\ OwnReply'
<1>0. Shape /\ InOrder /\ from = {} /\ QueueType
  BY DEF IInv, Shape, FromShape, HandshakeOK, HandshakeFails
<1>1. CASE HandshakeOK
  <2>1. PICK line \in {"hdr0", "hdr1"} : ReadLine(line)
    BY <1>1 DEF HandshakeOK
  <2>2. /\ inbuf # <<>> /\ (~strayed => inbuf' = Tail(inbuf))
        /\ net' = net /\ strayed' = strayed /\ pc = "handshake"
    BY <1>0, <1>1, <2>1, LineTyped DEF HandshakeOK, ghost
  <2>3. \/ /\ reqs' = reqs + 1 /\ pc' = "header" /\ Write(2, <<"sent", "sent">>)
           /\ from' = from /\ result' = result
        \/ Return("connect", "object") /\ toServer' = toServer
    BY <1>1 DEF HandshakeOK
  <2>4. pc' \in {"header", "idle"} /\ from' = {}
    BY <1>0, <2>3 DEF Return
  <2>5. OwnReply'
    BY <1>0, <2>3, Returned, ReturnedStray, SameResult DEF IInv
  <2>6. InOrder'
    <3>. SUFFICES ASSUME ~strayed PROVE InOrder'
      BY <2>2 DEF InOrder
    <3>1. PICK r \in Rest :
            /\ toServer = <<>> /\ Head(inbuf).t = r[1] /\ Len(Queue') + 1 =< Len(r)
            /\ \A i \in 1 .. Len(Queue') : Queue'[i].t = r[i + 1] /\ Queue'[i].id = Own
      BY <1>0, <2>2, ReadNext
    <3>2. Rest = {<<"hdr0", "ok">>, <<"err">>} /\ Own = 0
      BY <2>2 DEF Rest, Own
    <3>3. r[1] \in {"hdr0", "err"}
      BY <3>2
    <3>4. line = r[1]
      BY <2>1, <3>1, <3>3, LineRead DEF Lines
    <3>5. r = <<"hdr0", "ok">>
      BY <3>2, <3>4
    <3>6. Len(Queue') \in {0, 1}
      <4>1. Len(Queue') \in Nat
        BY <1>0, <2>2, ReadNext
      <4>2. Len(Queue') + 1 =< 2
        BY <3>1, <3>5
      <4>. QED  BY <4>1, <4>2
    <3>7. ASSUME Len(Queue') = 1 PROVE Queue'[1] = [t |-> "ok", id |-> 0]
      <4>1. Queue'[1].t = "ok" /\ Queue'[1].id = 0
        BY <3>1, <3>2, <3>5, <3>7
      <4>2. Queue'[1] = Queue[2] /\ 2 \in 1 .. Len(Queue)
        BY <1>0, <2>2, <3>7, TakeFirst, QueueItems
      <4>3. Queue'[1] \in Item
        BY <1>0, <4>2, QueueItems
      <4>. QED  BY <4>1, <4>3 DEF Item
    <3>8. toServer' # <<>> => /\ pc' = "header" /\ Len(toServer') = 1
                              /\ toServer'[1].id = Own' /\ toServer'[1].t = "request"
      <4>1. CASE pc' = "header" /\ Write(2, <<"sent", "sent">>)
        <5>1. Own' = reqs'
          BY <4>1 DEF Own
        <5>. QED  BY <3>1, <4>1, <5>1, Written
      <4>2. CASE toServer' = toServer
        BY <3>1, <4>2
      <4>. QED  BY <2>3, <4>1, <4>2
    <3>. QED  BY <2>4, <3>6, <3>7, <3>8, LeftOK
  <2>. QED  BY <2>4, <2>5, <2>6 DEF FromShape
<1>2. CASE HandshakeFails
  <2>1. /\ StreamEnded \/ \E line \in {"ok", "err"} : ReadLine(line)
        /\ net' = <<>> /\ toServer' = <<>> /\ Return("connect", "object") /\ strayed' = strayed
        /\ pc = "handshake"
    BY <1>2 DEF HandshakeFails, CloseConnection, ghost
  <2>2. pc' = "idle" /\ from' = {} /\ OwnReply'
    BY <1>0, <2>1, Returned, ReturnedStray DEF Return
  <2>3. InOrder'
    <3>. SUFFICES ASSUME ~strayed PROVE InOrder'
      BY <2>1 DEF InOrder
    <3>1. CASE StreamEnded
      BY <2>1, <3>1, NothingQueued, EmptyOrder DEF StreamEnded
    <3>2. ASSUME NEW line \in {"ok", "err"}, ReadLine(line) PROVE InOrder'
      <4>1. inbuf # <<>> /\ inbuf' = Tail(inbuf)
        BY <1>0, <3>2, LineTyped
      <4>2. PICK r \in Rest : Head(inbuf).t = r[1] /\ Len(Queue') + 1 =< Len(r)
        BY <1>0, <2>1, <4>1, ReadNext
      <4>3. Rest = {<<"hdr0", "ok">>, <<"err">>}
        BY <2>1 DEF Rest
      <4>4. r[1] \in {"hdr0", "err"}
        BY <4>3
      <4>5. line = r[1]
        BY <3>2, <4>2, <4>4, LineRead DEF Lines
      <4>6. r = <<"err">>
        BY <4>3, <4>5
      <4>7. Len(Queue') \in Nat
        BY <1>0, <2>1, <4>1, ReadNext
      <4>8. Len(Queue') + 1 =< 1
        BY <4>2, <4>6
      <4>. QED  BY <2>1, <4>7, <4>8, EmptyOrder
    <3>. QED  BY <2>1, <3>1, <3>2
  <2>. QED  BY <2>2, <2>3 DEF FromShape
<1>. QED  BY <1>1, <1>2

\* At the end of the stream nothing is on its way in either direction.
LEMMA Ended ==
  ASSUME Shape, StreamEnded
  PROVE  inbuf = <<>> /\ inbuf' = <<>> /\ net = <<>> /\ toServer = <<>>
<1>. QED  BY DEF Shape, OneConnection, WireShape, StreamEnded

LEMMA HeaderOrder == ASSUME IInv, ReadHeader PROVE InOrder' /\ FromShape' /\ OwnReply'
<1>1. /\ Shape /\ InOrder /\ FromShape /\ OwnReply /\ pc \in {"header", "skip"} /\ from = {}
      /\ result' = result /\ net' = net /\ toServer' = toServer /\ strayed' = strayed /\ reqs' = reqs
  BY DEF IInv, FromShape, ReadHeader, Receive, wire
<1>2. OwnReply'
  BY <1>1, SameResult
<1>3. CASE strayed
  <2>1. pc' = "skip" => from' = {}
    BY <1>1 DEF ReadHeader, Receive
  <2>2. pc' \in {"skip", "msg0", "msg1"}
    BY DEF ReadHeader, Receive
  <2>. QED  BY <1>1, <1>2, <1>3, <2>1, <2>2 DEF InOrder, FromShape
<1>4. CASE ~strayed
  <2>1. PICK line \in {"hdr0", "hdr1", "ok"} :
          /\ ReadLine(line)
          /\ line = "hdr0" => pc' = "msg0" /\ from' = {Head(inbuf).id}
          /\ line = "hdr1" => pc' = "msg1" /\ from' = {Head(inbuf).id}
          /\ line = "ok"   => pc' = "skip" /\ from' = {}
    BY <1>1, <1>4 DEF ReadHeader, Receive, Sender
  <2>2. inbuf # <<>> /\ inbuf' = Tail(inbuf)
    BY <1>1, <1>4, <2>1, LineTyped DEF Shape
  <2>3. Len(Queue') \in Nat /\ pc \in Receiving
    BY <1>1, <1>4, <2>2, ReadNext DEF Receiving
  <2>4. Own = reqs
    BY <1>1 DEF Own
  <2>5. Own' = reqs
    BY <1>1, <2>1 DEF Own
  <2>6. ASSUME pc = "header", Head(inbuf).t = "ok",
               NEW r \in Replies, Len(Queue') =< Len(r),
               \A i \in 1 .. Len(Queue') : Queue'[i].t = r[i] /\ Queue'[i].id = Own,
               toServer # <<>> => /\ Len(Queue') = 0 /\ Len(toServer) = 1
                                  /\ toServer[1].id = Own /\ toServer[1].t = "request"
        PROVE  InOrder' /\ FromShape'
    <3>1. line = "ok"
      BY <1>4, <2>1, <2>6, LineRead DEF Lines
    <3>2. pc' = "skip" /\ from' = {} /\ r \in Rest'
      BY <2>1, <3>1 DEF Rest
    <3>3. Len(Queue') =< 0 + Len(r)
      BY <2>6, ReplyShape
    <3>4. \A i \in 0 + 1 .. Len(Queue') : Queue'[i].t = r[i - 0] /\ Queue'[i].id = Own'
      BY <2>3, <2>4, <2>5, <2>6
    <3>5. InOrder'
      BY <1>1, <2>4, <2>5, <2>6, <3>2, <3>3, <3>4, OrderNext
    <3>. QED  BY <3>2, <3>5 DEF FromShape
  <2>7. ASSUME NEW r \in Rest, toServer = <<>>, Len(r) >= 1,
               Head(inbuf).t = r[1], Head(inbuf).id = Own, Len(Queue') + 1 =< Len(r),
               \A i \in 1 .. Len(Queue') : Queue'[i].t = r[i + 1] /\ Queue'[i].id = Own
        PROVE  InOrder' /\ FromShape'
    <3>1. r \in Replies
      BY <1>1 DEF Rest
    <3>2. line = r[1]
      <4>1. r[1] \in {"hdr0", "hdr1"}
        BY <3>1, ReplyShape
      <4>. QED  BY <1>4, <2>1, <2>7, <4>1, LineRead DEF Lines
    <3>3. CASE line = "hdr0"
      <4>1. Len(r) = 2 /\ r[2] \in {"ok", "err"}
        BY <3>1, <3>2, <3>3, ReplyShape
      <4>2. pc' = "msg0" /\ from' = {reqs} /\ <<r[2]>> \in Rest'
        BY <2>1, <2>4, <2>7, <3>3, <4>1 DEF Rest
      <4>3. Len(Queue') =< 1 /\ Len(<<r[2]>>) = 1
        BY <2>3, <2>7, <4>1
      <4>4. \A i \in 1 .. Len(Queue') : Queue'[i].t = <<r[2]>>[i] /\ Queue'[i].id = Own'
        <5>. TAKE i \in 1 .. Len(Queue')
        <5>1. i = 1 /\ i \in 1 .. Len(Queue')
          BY <2>3, <4>3
        <5>2. Queue'[i].t = r[2] /\ Queue'[i].id = Own
          BY <2>7, <5>1
        <5>. QED  BY <2>4, <2>5, <5>1, <5>2
      <4>5. InOrder'
        BY <1>1, <2>3, <2>7, <4>2, <4>3, <4>4, OrderRest
      <4>. QED  BY <1>1, <4>2, <4>5 DEF FromShape
    <3>4. CASE line = "hdr1"
      <4>1. Len(r) = 3 /\ r[2] = "ok" /\ r[3] \in Objects
        BY <3>1, <3>2, <3>4, ReplyShape
      <4>2. pc' = "msg1" /\ from' = {reqs} /\ <<"ok", r[3]>> \in Rest'
        BY <2>1, <2>4, <2>7, <3>4, <4>1 DEF Rest
      <4>3. Len(Queue') =< 2 /\ Len(<<"ok", r[3]>>) = 2
        BY <2>3, <2>7, <4>1
      <4>4. \A i \in 1 .. Len(Queue') : Queue'[i].t = <<"ok", r[3]>>[i] /\ Queue'[i].id = Own'
        <5>. TAKE i \in 1 .. Len(Queue')
        <5>1. i \in {1, 2} /\ i \in 1 .. Len(Queue')
          BY <2>3, <4>3
        <5>2. Queue'[i].t = r[i + 1] /\ Queue'[i].id = Own
          BY <2>7, <5>1
        <5>3. <<"ok", r[3]>>[i] = r[i + 1]
          BY <4>1, <5>1
        <5>. QED  BY <2>4, <2>5, <5>2, <5>3
      <4>5. InOrder'
        BY <1>1, <2>3, <2>7, <4>2, <4>3, <4>4, OrderRest
      <4>. QED  BY <1>1, <4>2, <4>5 DEF FromShape
    <3>5. line # "ok"
      BY <3>1, <3>2, ReplyShape
    <3>. QED  BY <3>3, <3>4, <3>5
  <2>. QED  BY <1>1, <1>2, <1>4, <2>2, <2>3, <2>6, <2>7, ReadNext
<1>. QED  BY <1>3, <1>4

LEMMA InvalidOrder ==
  ASSUME IInv, InvalidHeader \/ SkipForever
  PROVE  InOrder' /\ FromShape' /\ OwnReply'
<1>1. CASE InvalidHeader
  <2>1. /\ Shape /\ InOrder /\ OwnReply /\ pc \in {"header", "skip"} /\ from = {}
        /\ result' = result /\ net' = <<>> /\ toServer' = <<>> /\ strayed' = strayed
        /\ pc' = "decode" /\ rtype' = "error" /\ reqs' = reqs
        /\ \/ StreamEnded /\ from' = {}
           \/ ReadLine("err")
    BY <1>1 DEF IInv, FromShape, InvalidHeader, Receive, CloseConnection
  <2>2. OwnReply'
    BY <2>1, SameResult
  <2>3. InOrder' /\ FromShape'
    <3>. SUFFICES ASSUME ~strayed PROVE InOrder' /\ FromShape'
      BY <2>1 DEF InOrder, FromShape
    <3>1. CASE StreamEnded /\ from' = {}
      BY <2>1, <3>1, Ended, NothingQueued, EmptyOrder DEF FromShape
    <3>2. CASE ReadLine("err")
      <4>1. inbuf # <<>> /\ inbuf' = Tail(inbuf) /\ pc \in Receiving
        BY <2>1, <3>2, LineTyped DEF Receiving, Shape
      <4>2. Rest = Replies
        BY <2>1 DEF Rest
      <4>3. Head(inbuf).t \in {"ok", "hdr0", "hdr1"}
        BY <2>1, <4>1, <4>2, ReadNext, ReplyShape
      <4>. QED  BY <3>2, <4>3, LineRead DEF Lines
    <3>. QED  BY <2>1, <3>1, <3>2
  <2>. QED  BY <2>2, <2>3
<1>2. CASE SkipForever
  <2>1. pc' = "spin" /\ result' = result
    BY <1>2 DEF SkipForever, Receive
  <2>. QED  BY <2>1, SameResult DEF IInv, InOrder, FromShape
<1>. QED  BY <1>1, <1>2

LEMMA MsgOrder == ASSUME IInv, ReadMsg PROVE InOrder' /\ FromShape' /\ OwnReply'
<1>1. /\ Shape /\ InOrder /\ FromShape /\ OwnReply /\ pc \in {"msg0", "msg1"}
      /\ result' = result /\ net' = net /\ toServer' = toServer /\ strayed' = strayed /\ reqs' = reqs
      /\ pc' \in {"decode", "object"}
  BY DEF IInv, ReadMsg, Receive, wire
<1>2. OwnReply'
  BY <1>1, SameResult
<1>3. CASE strayed
  BY <1>1, <1>2, <1>3 DEF InOrder, FromShape
<1>4. CASE ~strayed
  <2>1. from = {reqs} /\ Own = reqs /\ Own' = reqs /\ pc \in Receiving
    BY <1>1, <1>4 DEF FromShape, Own, Receiving
  <2>2. CASE StreamEnded /\ Receive("decode", "error", {})
    <3>1. inbuf' = <<>> /\ net' = <<>> /\ toServer' = <<>> /\ pc' = "decode" /\ from' = {reqs}
      BY <1>1, <2>1, <2>2, Ended DEF Receive
    <3>. QED  BY <1>1, <1>2, <2>1, <3>1, NothingQueued, EmptyOrder DEF FromShape
  <2>3. ASSUME NEW line \in Lines, ReadLine(line),
               line = "ok" /\ pc = "msg1" => pc' = "object", from' = from \cup Sender
        PROVE  InOrder' /\ FromShape'
    <3>1. inbuf # <<>> /\ inbuf' = Tail(inbuf)
      BY <1>1, <1>4, <2>3, LineTyped DEF Shape
    <3>2. Len(Queue') \in Nat
      BY <1>1, <1>4, <2>1, <3>1, ReadNext
    <3>3. PICK r \in Rest :
            /\ toServer = <<>> /\ Head(inbuf).t = r[1] /\ Head(inbuf).id = Own
            /\ Len(Queue') + 1 =< Len(r)
            /\ \A i \in 1 .. Len(Queue') : Queue'[i].t = r[i + 1] /\ Queue'[i].id = Own
      BY <1>1, <1>4, <2>1, <3>1, ReadNext
    <3>4. from' = {reqs}
      BY <1>4, <2>1, <2>3, <3>3 DEF Sender
    <3>5. FromShape'
      BY <1>1, <3>4 DEF FromShape
    <3>6. CASE pc = "msg0"
      <4>1. Len(r) = 1
        BY <3>6 DEF Rest
      <4>2. Len(Queue') = 0
        BY <3>2, <3>3, <4>1
      <4>. QED  BY <1>1, <3>3, <3>5, <4>2, EmptyOrder
    <3>7. CASE pc = "msg1"
      <4>1. r[1] = "ok" /\ Len(r) = 2 /\ r[2] \in Objects
        BY <3>7 DEF Rest
      <4>2. line = "ok"
        BY <1>4, <2>3, <3>3, <4>1, LineRead DEF Lines
      <4>3. pc' = "object" /\ <<r[2]>> \in Rest'
        BY <2>3, <3>7, <4>1, <4>2 DEF Rest
      <4>4. Len(Queue') =< 1 /\ Len(<<r[2]>>) = 1
        BY <3>2, <3>3, <4>1
      <4>5. ASSUME NEW i \in 1 .. Len(Queue')
            PROVE  Queue'[i].t = <<r[2]>>[i] /\ Queue'[i].id = Own'
        <5>1. i = 1
          BY <3>2, <4>4
        <5>2. Queue'[i].t = r[2] /\ Queue'[i].id = Own
          BY <3>3, <5>1
        <5>. QED  BY <2>1, <5>1, <5>2
      <4>6. InOrder'
        BY <1>1, <3>2, <3>3, <4>3, <4>4, <4>5, OrderRest
      <4>. QED  BY <3>5, <4>6
    <3>. QED  BY <1>1, <3>6, <3>7
  <2>4. \/ StreamEnded /\ Receive("decode", "error", {})
        \/ \E line \in Lines : /\ ReadLine(line) /\ from' = from \cup Sender
                               /\ line = "ok" /\ pc = "msg1" => pc' = "object"
    BY DEF ReadMsg, Receive, Lines
  <2>. QED  BY <1>2, <2>2, <2>3, <2>4
<1>. QED  BY <1>3, <1>4

LEMMA ObjectOrder ==
  ASSUME IInv, ReadObject \/ ReadUnsupported \/ ReadGarbage
  PROVE  InOrder' /\ FromShape' /\ OwnReply'
<1>1. /\ Shape /\ InOrder /\ FromShape /\ OwnReply /\ pc = "object" /\ pc' = "decode"
      /\ result' = result /\ reqs' = reqs /\ net' = net /\ toServer' = toServer
  BY DEF IInv, ReadObject, ReadUnsupported, ReadGarbage, NotAnObject, Receive, wire
<1>2. OwnReply'
  BY <1>1, SameResult
<1>3. CASE ReadUnsupported
  <2>1. strayed'
    BY <1>3 DEF ReadUnsupported
  <2>. QED  BY <1>1, <1>2, <2>1 DEF InOrder, FromShape
<1>4. CASE ReadObject \/ ReadGarbage
  <2>0. strayed' = strayed
    BY <1>4 DEF ReadObject, ReadGarbage, ghost
  <2>. SUFFICES ASSUME ~strayed PROVE InOrder' /\ FromShape'
    BY <1>1, <1>2, <2>0 DEF InOrder, FromShape
  <2>1. from = {reqs} /\ Own = reqs /\ pc \in Receiving
    BY <1>1 DEF FromShape, Own, Receiving
  <2>2. CASE StreamEnded /\ from' = from
    <3>1. inbuf' = <<>> /\ net' = <<>> /\ toServer' = <<>>
      BY <1>1, <2>2, Ended
    <3>. QED  BY <1>1, <2>1, <2>2, <3>1, NothingQueued, EmptyOrder DEF FromShape
  <2>3. CASE inbuf # <<>> /\ inbuf' = Tail(inbuf) /\ from' = from \cup Sender
    <3>1. PICK r \in Rest : toServer = <<>> /\ Head(inbuf).id = Own /\ Len(Queue') + 1 =< Len(r)
      BY <1>1, <2>1, <2>3, ReadNext
    <3>2. Len(Queue') \in Nat
      BY <1>1, <2>1, <2>3, ReadNext
    <3>3. Len(r) = 1
      BY <1>1 DEF Rest
    <3>4. Len(Queue') = 0
      BY <3>1, <3>2, <3>3
    <3>5. from' = {reqs}
      BY <2>1, <2>3, <3>1 DEF Sender
    <3>. QED  BY <1>1, <3>1, <3>4, <3>5, EmptyOrder DEF FromShape
  <2>4. \/ StreamEnded /\ from' = from
        \/ inbuf # <<>> /\ inbuf' = Tail(inbuf) /\ from' = from \cup Sender
    BY <1>1, <1>4, NotAnObjectTyped DEF ReadObject, ReadGarbage, Receive
  <2>. QED  BY <2>2, <2>3, <2>4
<1>. QED  BY <1>3, <1>4

LEMMA DecodeOrder ==
  ASSUME IInv, Decode \/ DecodeError
  PROVE  InOrder' /\ FromShape' /\ OwnReply'
<1>1. /\ Shape /\ InOrder /\ FromShape /\ pc = "decode" /\ pc' = "idle" /\ from' = {}
      /\ inbuf' = inbuf /\ net' = net /\ toServer' = toServer /\ strayed' = strayed
  BY DEF IInv, Decode, DecodeError, Stop, Return, wire, ghost
<1>2. InOrder'
  <2>. SUFFICES ASSUME ~strayed PROVE InOrder'
    BY <1>1 DEF InOrder
  <2>1. Rest = {<<>>} /\ Len(Queue) \in Nat
    BY <1>1, QueueItems DEF Rest, Shape
  <2>2. PICK o \in {0, 1}, r \in Rest :
          o # 1 /\ Len(Queue) =< o + Len(r) /\ (toServer # <<>> => pc \in {"handshake", "header", "skip"})
    BY <1>1, OrderNow
  <2>3. Len(Queue) =< 0 + 0
    BY <2>1, <2>2, EmptySeq
  <2>4. Len(Queue') = 0 /\ toServer' = <<>>
    BY <1>1, <2>1, <2>2, <2>3 DEF Queue
  <2>. QED  BY <2>4, EmptyOrder
<1>3. OwnReply'
  <2>1. CASE strayed
    BY <2>1, ReturnedStray DEF Decode, DecodeError, Stop
  <2>2. CASE ~strayed
    <3>1. from \subseteq {reqs} /\ (rtype # "error" => from = {reqs})
      BY <1>1, <2>2 DEF FromShape
    <3>2. CASE DecodeError
      BY <2>2, <3>1, <3>2, Returned DEF DecodeError, Stop
    <3>3. CASE Decode
      <4>1. Return(Op, Outcome)
        BY <3>3 DEF Decode
      <4>2. ASSUME Outcome \in {"value", "NA", "TRUE"} PROVE from = {reqs}
        <5>1. rtype # "error"
          BY <4>2 DEF Outcome
        <5>. QED  BY <3>1, <5>1
      <4>. QED  BY <2>2, <3>1, <4>1, <4>2, Returned
    <3>. QED  BY <3>2, <3>3
  <2>. QED  BY <2>1, <2>2
<1>. QED  BY <1>1, <1>2, <1>3 DEF FromShape

\* A call that an R error ends while it reads.
LEMMA ThrowOrder ==
  ASSUME IInv, ReadThrows
  PROVE  InOrder' /\ FromShape' /\ OwnReply'
<1>1. /\ Shape /\ InOrder /\ FromShape /\ pc = "object" /\ pc' = "idle" /\ from' = {}
      /\ net' = net /\ toServer' = toServer /\ strayed' = strayed /\ Return(Op, "R error")
  BY DEF IInv, ReadThrows, NotAnObject, Stop, Return, wire
<1>2. InOrder'
  <2>. SUFFICES ASSUME ~strayed PROVE InOrder'
    BY <1>1 DEF InOrder
  <2>1. StreamEnded
    BY <1>1, NotAnObjectTyped DEF ReadThrows
  <2>. QED  BY <1>1, <2>1, Ended, NothingQueued, EmptyOrder
<1>3. OwnReply'
  <2>1. CASE strayed
    BY <1>1, <2>1, ReturnedStray
  <2>2. CASE ~strayed
    BY <1>1, <2>2, Returned DEF FromShape
  <2>. QED  BY <2>1, <2>2
<1>. QED  BY <1>1, <1>2, <1>3 DEF FromShape

\* Behind an unread payload nothing is said of what is on its way.
LEMMA SwallowOrder == ASSUME IInv, Swallow PROVE InOrder' /\ FromShape' /\ OwnReply'
<1>1. /\ strayed /\ strayed' = strayed /\ pc' = pc /\ from' = from /\ result' = result
  BY DEF Swallow, ghost
<1>. QED  BY <1>1, SameResult DEF IInv, InOrder, FromShape

\* A recv() moves items from the network to the stream's buffer.
LEMMA Moved ==
  ASSUME QueueType, inbuf = <<>>, NEW k \in 1 .. Len(net),
         inbuf' = SubSeq(net, 1, k), net' = SubSeq(net, k + 1, Len(net))
  PROVE  Len(Queue') = Len(Queue) /\ \A i \in 1 .. Len(Queue) : Queue'[i] = Queue[i]
<1>1. /\ net \in Seq(Item) /\ Len(net) \in Nat /\ \A i \in 1 .. Len(net) : net[i] \in Item
  BY QueueItems, ElementOfSeq
<1>2. Len(inbuf) = 0
  BY EmptySeq
<1>3. /\ Len(Queue) = Len(net) /\ \A i \in 1 .. Len(net) : Queue[i] = net[i]
  <2>1. Len(Queue) = 0 + Len(net)
    BY <1>1, <1>2, QueueItems
  <2>2. Len(Queue) = Len(net)
    BY <1>1, <2>1
  <2>3. ASSUME NEW i \in 1 .. Len(net) PROVE Queue[i] = net[i]
    <3>1. Queue[i] = net[i - 0]
      BY <1>1, <1>2, <2>2, QueueItems
    <3>. QED  BY <3>1
  <2>. QED  BY <2>2, <2>3
<1>4. /\ inbuf' \in Seq(Item) /\ Len(inbuf') = k /\ \A i \in 1 .. k : inbuf'[i] = net[i]
  <2>1. /\ SubSeq(net, 1, k) \in Seq(Item)
        /\ Len(SubSeq(net, 1, k)) = IF 1 =< k THEN k - 1 + 1 ELSE 0
        /\ \A i \in 1 .. k - 1 + 1 : SubSeq(net, 1, k)[i] = net[1 + i - 1]
    BY <1>1, SubSeqProperties
  <2>. QED  BY <1>1, <2>1
<1>5. /\ net' \in Seq(Item) /\ Len(net') = Len(net) - k
      /\ \A i \in 1 .. Len(net) - k : net'[i] = net[k + i]
  <2>1. /\ SubSeq(net, k + 1, Len(net)) \in Seq(Item)
        /\ Len(SubSeq(net, k + 1, Len(net))) =
             IF k + 1 =< Len(net) THEN Len(net) - (k + 1) + 1 ELSE 0
        /\ \A i \in 1 .. Len(net) - (k + 1) + 1 : SubSeq(net, k + 1, Len(net))[i] = net[(k + 1) + i - 1]
    BY <1>1, SubSeqProperties
  <2>2. ASSUME NEW i \in 1 .. Len(net) - k PROVE net'[i] = net[k + i]
    <3>1. i \in 1 .. Len(net) - (k + 1) + 1 /\ (k + 1) + i - 1 = k + i
      BY <1>1
    <3>. QED  BY <2>1, <3>1
  <2>. QED  BY <1>1, <2>1, <2>2
<1>6. Queue' = inbuf' \o net'
  BY DEF Queue
<1>7. /\ Len(Queue') = k + (Len(net) - k)
      /\ \A i \in 1 .. k : Queue'[i] = inbuf'[i]
      /\ \A i \in 1 .. Len(net) : i > k => Queue'[i] = net'[i - k]
  <2>1. /\ Len(Queue') = Len(inbuf') + Len(net')
        /\ \A i \in 1 .. Len(inbuf') : Queue'[i] = inbuf'[i]
        /\ \A i \in 1 .. Len(inbuf') + Len(net') : i > Len(inbuf') => Queue'[i] = net'[i - Len(inbuf')]
    BY <1>4, <1>5, <1>6, Joined
  <2>2. Len(inbuf') + Len(net') = Len(net)
    BY <1>1, <1>4, <1>5
  <2>. QED  BY <1>1, <1>4, <1>5, <2>1, <2>2
<1>8. ASSUME NEW i \in 1 .. Len(Queue) PROVE Queue'[i] = Queue[i]
  <2>1. CASE i =< k
    BY <1>1, <1>3, <1>4, <1>7, <2>1
  <2>2. CASE i > k
    <3>1. i - k \in 1 .. Len(net) - k /\ k + (i - k) = i /\ i \in 1 .. Len(net)
      BY <1>1, <1>3, <2>2
    <3>2. net'[i - k] = net[i]
      BY <1>5, <3>1
    <3>. QED  BY <1>3, <1>7, <2>2, <3>1, <3>2
  <2>. QED  BY <1>1, <1>3, <2>1, <2>2
<1>. QED  BY <1>1, <1>3, <1>7, <1>8

\* A reply is put behind what is on its way.
LEMMA Replied ==
  ASSUME QueueType, NEW u \in Seq(Item), inbuf' = inbuf, net' = net \o u
  PROVE  /\ Len(Queue) \in Nat /\ Len(Queue') = Len(Queue) + Len(u)
         /\ \A i \in 1 .. Len(Queue) : Queue'[i] = Queue[i]
         /\ \A i \in 1 .. Len(Queue) + Len(u) : i > Len(Queue) => Queue'[i] = u[i - Len(Queue)]
<1>1. /\ inbuf \in Seq(Item) /\ net \in Seq(Item) /\ Len(inbuf) \in Nat /\ Len(net) \in Nat
      /\ Len(Queue) = Len(inbuf) + Len(net)
      /\ \A i \in 1 .. Len(inbuf) : Queue[i] = inbuf[i]
      /\ \A i \in 1 .. Len(Queue) : i > Len(inbuf) => Queue[i] = net[i - Len(inbuf)]
  BY QueueItems
<1>2. /\ net' \in Seq(Item) /\ Len(net') = Len(net) + Len(u) /\ Len(u) \in Nat
      /\ \A i \in 1 .. Len(net) : net'[i] = net[i]
      /\ \A i \in 1 .. Len(net) + Len(u) : i > Len(net) => net'[i] = u[i - Len(net)]
  BY <1>1, Joined
<1>3. Queue' = inbuf \o net'
  BY DEF Queue
<1>4. /\ Len(Queue') = Len(inbuf) + Len(net')
      /\ \A i \in 1 .. Len(inbuf) : Queue'[i] = inbuf[i]
      /\ \A i \in 1 .. Len(inbuf) + Len(net') : i > Len(inbuf) => Queue'[i] = net'[i - Len(inbuf)]
  BY <1>1, <1>2, <1>3, Joined
<1>5. Len(Queue) \in Nat /\ Len(Queue') = Len(Queue) + Len(u)
  BY <1>1, <1>2, <1>4
<1>6. ASSUME NEW i \in 1 .. Len(Queue) PROVE Queue'[i] = Queue[i]
  <2>1. CASE i =< Len(inbuf)
    BY <1>1, <1>4, <2>1
  <2>2. CASE i > Len(inbuf)
    <3>1. i - Len(inbuf) \in 1 .. Len(net) /\ i \in 1 .. Len(inbuf) + Len(net')
      BY <1>1, <1>2, <2>2
    <3>2. Queue'[i] = net'[i - Len(inbuf)] /\ Queue[i] = net[i - Len(inbuf)]
      BY <1>1, <1>4, <2>2, <3>1
    <3>. QED  BY <1>2, <3>1, <3>2
  <2>. QED  BY <1>1, <2>1, <2>2
<1>7. ASSUME NEW i \in 1 .. Len(Queue) + Len(u), i > Len(Queue)
      PROVE  Queue'[i] = u[i - Len(Queue)]
  <2>1. /\ i \in 1 .. Len(inbuf) + Len(net') /\ i > Len(inbuf)
        /\ i - Len(inbuf) \in 1 .. Len(net) + Len(u) /\ i - Len(inbuf) > Len(net)
        /\ (i - Len(inbuf)) - Len(net) = i - Len(Queue)
    BY <1>1, <1>2, <1>7
  <2>2. Queue'[i] = net'[i - Len(inbuf)]
    BY <1>4, <2>1
  <2>3. net'[i - Len(inbuf)] = u[(i - Len(inbuf)) - Len(net)]
    BY <1>2, <2>1
  <2>. QED  BY <2>1, <2>2, <2>3
<1>. QED  BY <1>5, <1>6, <1>7

LEMMA FillOrder == ASSUME IInv, Fill PROVE InOrder' /\ FromShape' /\ OwnReply'
<1>1. /\ Shape /\ InOrder /\ FromShape /\ OwnReply /\ pc' = pc /\ result' = result /\ reqs' = reqs
      /\ toServer' = toServer /\ strayed' = strayed /\ from' = from /\ rtype' = rtype
      /\ pc \notin {"spin", "crashed", "idle"}
  BY DEF IInv, Fill, Reading, ghost
<1>2. Len(Queue') = Len(Queue) /\ \A i \in 1 .. Len(Queue) : Queue'[i] = Queue[i]
  BY Moved DEF Fill, IInv, Shape
<1>3. InOrder'
  <2>. SUFFICES ASSUME ~strayed PROVE InOrder'
    BY <1>1 DEF InOrder
  <2>1. PICK o \in {0, 1}, r \in Rest :
          /\ o = 1 => pc \in {"idle", "header"} /\ Len(Queue) >= 1 /\ Queue[1] = [t |-> "ok", id |-> 0]
          /\ Len(Queue) =< o + Len(r)
          /\ \A i \in o + 1 .. Len(Queue) : Queue[i].t = r[i - o] /\ Queue[i].id = Own
          /\ toServer # <<>> =>
               /\ pc \in {"handshake", "header", "skip"} /\ Len(Queue) = o /\ Len(toServer) = 1
               /\ toServer[1].id = Own
               /\ toServer[1].t = IF pc = "handshake" THEN "connect" ELSE "request"
    BY <1>1, OrderNow
  <2>2. r \in Rest' /\ Own' = Own /\ Len(Queue) \in Nat
    BY <1>1, QueueItems DEF Rest, Own, Shape
  <2>3. ASSUME NEW i \in o + 1 .. Len(Queue')
        PROVE  Queue'[i].t = r[i - o] /\ Queue'[i].id = Own'
    <3>1. i \in o + 1 .. Len(Queue) /\ i \in 1 .. Len(Queue)
      BY <1>2, <2>2
    <3>. QED  BY <1>2, <2>1, <2>2, <3>1
  <2>4. o = 1 => pc' \in {"idle", "header"} /\ Len(Queue') >= 1 /\ Queue'[1] = [t |-> "ok", id |-> 0]
    <3>1. Len(Queue) >= 1 => Queue'[1] = Queue[1]
      BY <1>2, <2>2
    <3>. QED  BY <1>1, <1>2, <2>1, <3>1
  <2>. QED  BY <1>1, <1>2, <2>1, <2>2, <2>3, <2>4, OrderNext
<1>. QED  BY <1>1, <1>3, SameResult DEF FromShape

LEMMA HangupOrder == ASSUME IInv, Hangup PROVE InOrder' /\ FromShape' /\ OwnReply'
<1>1. /\ Shape /\ InOrder /\ FromShape /\ OwnReply /\ pc' = pc /\ result' = result /\ reqs' = reqs
      /\ toServer' = <<>> /\ strayed' = strayed /\ from' = from /\ rtype' = rtype /\ inbuf' = inbuf
  BY DEF IInv, Hangup, ghost
<1>2. /\ Len(Queue') \in Nat /\ Len(Queue') =< Len(Queue)
      /\ \A i \in 1 .. Len(Queue') : Queue'[i] = Queue[i]
  BY <1>1, LoseLast DEF Hangup, Shape
<1>3. InOrder'
  <2>. SUFFICES ASSUME ~strayed, pc \notin {"spin", "crashed"} PROVE InOrder'
    BY <1>1 DEF InOrder
  <2>1. PICK o \in {0, 1}, r \in Rest :
          /\ o = 1 => pc \in {"idle", "header"} /\ Len(Queue) >= 1 /\ Queue[1] = [t |-> "ok", id |-> 0]
          /\ Len(Queue) =< o + Len(r)
          /\ \A i \in o + 1 .. Len(Queue) : Queue[i].t = r[i - o] /\ Queue[i].id = Own
    BY <1>1, OrderNow
  <2>2. r \in Rest' /\ Own' = Own /\ Len(Queue) \in Nat /\ Len(r) \in {0, 1, 2, 3}
    BY <1>1, QueueItems, EmptySeq DEF Rest, Own, Shape, Replies, Objects
  <2>3. ASSUME NEW i \in o + 1 .. Len(Queue')
        PROVE  Queue'[i].t = r[i - o] /\ Queue'[i].id = Own'
    <3>1. i \in o + 1 .. Len(Queue) /\ i \in 1 .. Len(Queue')
      BY <1>2, <2>2
    <3>. QED  BY <1>2, <2>1, <2>2, <3>1
  <2>4. CASE Len(Queue') = 0
    BY <1>1, <2>4, EmptyOrder
  <2>5. CASE Len(Queue') >= 1
    <3>1. Queue'[1] = Queue[1]
      BY <1>2, <2>5
    <3>2. o = 1 => pc' \in {"idle", "header"} /\ Len(Queue') >= 1 /\ Queue'[1] = [t |-> "ok", id |-> 0]
      BY <1>1, <2>1, <2>5, <3>1
    <3>3. Len(Queue') =< o + Len(r)
      BY <1>2, <2>1, <2>2
    <3>. QED  BY <1>1, <2>2, <2>3, <3>2, <3>3, OrderNext
  <2>. QED  BY <1>2, <2>4, <2>5
<1>. QED  BY <1>1, <1>3, SameResult DEF FromShape

\* The server answers the request of the call in progress when nothing of the
\* reply to it is on its way yet.
LEMMA ServeOrder == ASSUME IInv, Serve PROVE InOrder' /\ FromShape' /\ OwnReply'
<1>1. /\ Shape /\ InOrder /\ FromShape /\ OwnReply /\ pc' = pc /\ result' = result /\ reqs' = reqs
      /\ strayed' = strayed /\ from' = from /\ rtype' = rtype /\ inbuf' = inbuf
      /\ toServer # <<>> /\ toServer' = Tail(toServer)
  BY DEF IInv, Serve, ghost
<1>2. PICK reply \in IF Head(toServer).t = "connect" THEN {<<"hdr0", "ok">>, <<"err">>} ELSE Replies :
        net' = net \o [i \in 1 .. Len(reply) |-> [t |-> reply[i], id |-> Head(toServer).id]]
  BY DEF Serve
<1>. DEFINE u == [i \in 1 .. Len(reply) |-> [t |-> reply[i], id |-> Head(toServer).id]]
<1>3. /\ QueueType /\ toServer \in Seq(Request) /\ Head(toServer) = toServer[1]
      /\ Head(toServer).id \in 0 .. MaxReq
  <2>1. QueueType /\ toServer \in Seq(Request)
    BY <1>1 DEF Shape, QueueType
  <2>2. Head(toServer) = toServer[1] /\ Head(toServer) \in Request
    BY <1>1, <2>1, HeadTailProperties
  <2>. QED  BY <2>1, <2>2 DEF Request
<1>4. u \in Seq(Item) /\ Len(u) = Len(reply) /\ Len(reply) \in {1, 2, 3}
  <2>1. Len(reply) \in {1, 2, 3} /\ \A i \in 1 .. Len(reply) : reply[i] \in Lines \cup Objects
    BY DEF Replies, Lines, Objects
  <2>2. u \in [1 .. Len(reply) -> Item]
    BY <1>3, <2>1 DEF Item
  <2>. QED  BY <2>1, <2>2
<1>5. \A i \in 1 .. Len(reply) : u[i].t = reply[i] /\ u[i].id = toServer[1].id
  BY <1>3
<1>6. net' = net \o u
  BY <1>2
<1>. HIDE DEF u
<1>7. InOrder'
  <2>. SUFFICES ASSUME ~strayed, pc \notin {"spin", "crashed"} PROVE InOrder'
    BY <1>1 DEF InOrder
  <2>1. PICK o \in {0, 1} :
          /\ o = 1 => pc \in {"idle", "header"} /\ Len(Queue) >= 1 /\ Queue[1] = [t |-> "ok", id |-> 0]
          /\ pc \in {"handshake", "header", "skip"} /\ Len(Queue) = o /\ Len(toServer) = 1
          /\ toServer[1].id = Own
          /\ toServer[1].t = IF pc = "handshake" THEN "connect" ELSE "request"
    BY <1>1, OrderNow
  <2>2. reply \in Rest' /\ Own' = Own
    BY <1>1, <1>3, <2>1 DEF Rest, Own
  <2>3. toServer' = <<>>
    <3>1. Len(toServer') = 0 /\ toServer' \in Seq(Request)
      BY <1>1, <1>3, <2>1, HeadTailProperties
    <3>. QED  BY <3>1, EmptySeq
  <2>4. /\ Len(Queue') = o + Len(u)
        /\ \A i \in 1 .. o : Queue'[i] = Queue[i]
        /\ \A i \in 1 .. o + Len(u) : i > o => Queue'[i] = u[i - o]
    BY <1>1, <1>3, <1>4, <1>6, <2>1, Replied
  <2>5. ASSUME NEW i \in o + 1 .. Len(Queue')
        PROVE  Queue'[i].t = reply[i - o] /\ Queue'[i].id = Own'
    <3>1. i \in 1 .. o + Len(u) /\ i > o /\ i - o \in 1 .. Len(reply)
      BY <1>4, <2>4
    <3>2. Queue'[i] = u[i - o]
      BY <2>4, <3>1
    <3>. QED  BY <1>5, <2>1, <2>2, <3>1, <3>2
  <2>6. o = 1 => pc' \in {"idle", "header"} /\ Len(Queue') >= 1 /\ Queue'[1] = [t |-> "ok", id |-> 0]
    <3>. SUFFICES ASSUME o = 1
                  PROVE  pc' \in {"idle", "header"} /\ Len(Queue') >= 1 /\ Queue'[1] = [t |-> "ok", id |-> 0]
      OBVIOUS
    <3>1. Queue'[1] = Queue[1]
      BY <2>4
    <3>2. Len(Queue') >= 1
      BY <1>4, <2>4
    <3>. QED  BY <1>1, <2>1, <3>1, <3>2
  <2>7. Len(Queue') =< o + Len(reply)
    BY <1>4, <2>4
  <2>. QED  BY <2>2, <2>3, <2>5, <2>6, <2>7, OrderNext
<1>. QED  BY <1>1, <1>7, SameResult DEF FromShape

LEMMA InitIInv == Init => IInv
<1>. SUFFICES ASSUME Init PROVE IInv
  OBVIOUS
<1>1. Shape
  BY InitShape
<1>2. pc = "idle" /\ inbuf = <<>> /\ net = <<>> /\ toServer = <<>> /\ from = {}
  BY DEF Init
<1>3. Rest = {<<>>}
  BY <1>2 DEF Rest
<1>4. Len(Queue) = 0
  <2>1. Len(Queue) = 0 + 0
    BY <1>1, <1>2, EmptySeq, QueueItems DEF Shape
  <2>. QED  BY <2>1
<1>5. Expected(Queue, 0, <<>>)
  BY <1>2, <1>4, EmptySeq DEF Expected
<1>6. InOrder
  BY <1>3, <1>5 DEF InOrder
<1>7. FromShape
  BY <1>2 DEF FromShape
<1>8. OwnReply
  BY DEF Init, OwnReply
<1>. QED  BY <1>1, <1>6, <1>7, <1>8 DEF IInv

LEMMA NextIInv == IInv /\ [Next]_vars => IInv'
<1>. SUFFICES ASSUME IInv, [Next]_vars PROVE IInv'
  OBVIOUS
<1>1. Shape'
  BY NextShape DEF IInv
<1>2. CASE Calls
  BY <1>1, <1>2, CallsOrder DEF IInv
<1>3. CASE Reader
  <2>1. CASE Fill
    BY <1>1, <2>1, FillOrder DEF IInv
  <2>2. CASE HandshakeOK \/ HandshakeFails
    BY <1>1, <2>2, HandshakeOrder DEF IInv
  <2>3. CASE ReadHeader
    BY <1>1, <2>3, HeaderOrder DEF IInv
  <2>4. CASE InvalidHeader \/ SkipForever
    BY <1>1, <2>4, InvalidOrder DEF IInv
  <2>5. CASE ReadMsg
    BY <1>1, <2>5, MsgOrder DEF IInv
  <2>6. CASE ReadObject \/ ReadUnsupported \/ ReadGarbage
    BY <1>1, <2>6, ObjectOrder DEF IInv
  <2>7. CASE Decode \/ DecodeError
    BY <1>1, <2>7, DecodeOrder DEF IInv
  <2>8. CASE ReadThrows \/ Swallow
    BY <1>1, <2>8, ThrowOrder, SwallowOrder DEF IInv
  <2>. QED  BY <1>3, <2>1, <2>2, <2>3, <2>4, <2>5, <2>6, <2>7, <2>8 DEF Reader
<1>4. CASE Serve
  BY <1>1, <1>4, ServeOrder DEF IInv
<1>5. CASE Hangup
  BY <1>1, <1>5, HangupOrder DEF IInv
<1>6. CASE UNCHANGED vars
  <2>1. Queue' = Queue /\ Rest' = Rest /\ Own' = Own
    BY <1>6 DEF vars, Queue, Rest, Own
  <2>2. InOrder'
    BY <1>6, <2>1 DEF IInv, InOrder, Expected, vars
  <2>3. FromShape' /\ OwnReply'
    BY <1>6 DEF IInv, FromShape, OwnReply, vars
  <2>. QED  BY <1>1, <2>2, <2>3 DEF IInv
<1>. QED  BY <1>2, <1>3, <1>4, <1>5, <1>6 DEF Next

-----------------------------------------------------------------------------
(* The theorems.                                                           *)

LEMMA SpecShape == Spec => []Shape
<1>. QED  BY InitShape, NextShape, PTL DEF Spec

\* The variables stay in their domains, and a pointer to a received object is
\* null or points to one that has not been deleted, whatever call ended before
\* Clear().
THEOREM TypeCorrect == Spec => []TypeOK
<1>. QED  BY SpecShape, PTL DEF Shape

\* "There is at most one TCP connection": after any sequence of calls, failed
\* handshakes and invalid replies no other client end is open.
THEOREM OneCorrect == Spec => []OneConnection
<1>. QED  BY SpecShape, PTL DEF Shape

\* Between two calls no received object is left, unless an R error ended a call
\* before Clear().
THEOREM NothingLeft == Spec => []NothingLeaks
<1>1. Shape => NothingLeaks
  BY DEF Shape, TypeOK, HeapShape, NothingLeaks
<1>. QED  BY <1>1, SpecShape, PTL

\* The connector object that dbConnect returns tells whether it is connected,
\* but for a login that was refused behind its back.
THEOREM StatusCorrect == Spec => ConnectTellsStatus
<1>1. [TellsStatus]_vars => [pc # "idle" /\ pc' = "idle" /\ api \in {"connect", "login"} /\ result'.out = "object" =>
                               /\ connected' => slot'[obj]
                               /\ slot'[obj] /\ ~connected' => api = "login" /\ rtype = "error"]_vars
  BY DEF TellsStatus
<1>. QED  BY <1>1, SpecShape, StepTellsStatus, PTL DEF Spec, ConnectTellsStatus

\* A call returns what was sent for its own request: "OK" lines left over, errors
\* of the server, a connection that breaks anywhere and reconnections do not shift
\* the replies by one, as long as no payload was left unread.
THEOREM ReplyCorrect == Spec => []OwnReply
<1>1. Spec => []IInv
  BY InitIInv, NextIInv, PTL DEF Spec
<1>. QED  BY <1>1, PTL DEF IInv
=============================================================================
