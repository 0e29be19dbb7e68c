---------------------------- MODULE SocketProofs ----------------------------
(***************************************************************************)
(* The invariants of Socket for every number of Sockets and descriptors,   *)
(* every choice of constructors and modes and every number of addresses.   *)
(***************************************************************************)
EXTENDS Socket, FiniteSetTheorems, TLAPS

\* Where a connect() may be, and what handle_ is there.
CallShape ==
  \A s \in Socks :
    /\ ~Live(s) => pc[s] = "idle" /\ s \notin dangling
    /\ pc[s] = "connecting" => handle_[s] # Invalid /\ s \notin dangling
    /\ pc[s] = "try" /\ left[s] = 0 => handle_[s] = Invalid

\* A Socket whose handle_ is not its own has forgotten every descriptor it
\* has open.
DanglingForgets ==
  ~spoiled => \A s \in dangling, fd \in Fds : user[fd] = s => fd \in leaked

\* The inductive invariant: who owns a descriptor and who has forgotten one
\* need each other, and both need to know where connect() overwrites handle_.
IInv == TypeOK /\ OwnsHandle /\ NothingElseLeaks /\ CallShape /\ DanglingForgets

\* A descriptor is a number, and INVALID_SOCKET is none.
LEMMA Descriptors == Fds \subseteq Nat /\ Invalid \notin Fds
<1>1. Cardinality(Fds) \in Nat
  BY FS_CardinalityType, SocketAssumption
<1>2. PICK n \in Int : Fds = 0 .. n
  BY <1>1, SocketAssumption
<1>. QED  BY <1>2 DEF Invalid

LEMMA InitIInv == Init => IInv
<1>. SUFFICES ASSUME Init
              PROVE  IInv
  OBVIOUS
<1>1. TypeOK
  BY DEF Init, TypeOK
<1>2. OwnsHandle /\ CallShape /\ DanglingForgets
  BY DEF Init, OwnsHandle, CallShape, DanglingForgets, Live
<1>3. NothingElseLeaks
  BY SocketAssumption DEF Init, NothingElseLeaks
<1>. QED  BY <1>1, <1>2, <1>3 DEF IInv

-----------------------------------------------------------------------------
(* The rest of the process, constructors and destructor.                   *)

\* Another file takes a free descriptor or gives up its own: no Socket's.
LEMMA OtherIInv ==
  ASSUME IInv, OpenOther \/ \E fd \in Fds : CloseOther(fd)
  PROVE  IInv'
<1>1. UNCHANGED <<object, call, listening, ghost>>
  BY DEF OpenOther, CloseOther
<1>2. PICK fd \in Fds, u \in {Free, Other} :
        user[fd] \in {Free, Other} /\ user' = [user EXCEPT ![fd] = u]
  BY DEF OpenOther, CloseOther, NewFds
<1>3. TypeOK'
  BY <1>1, <1>2 DEF IInv, TypeOK, object, call, ghost
<1>4. \A f \in Fds, s \in Socks : user'[f] = s <=> user[f] = s
  BY <1>2, SocketAssumption DEF IInv, TypeOK
<1>5. OwnsHandle'
  <2>. SUFFICES ASSUME ~spoiled, NEW s \in Socks, Live(s), s \notin dangling, handle_[s] # Invalid
                PROVE  user'[handle_[s]] = s
    BY <1>1 DEF OwnsHandle, Live, object, ghost
  <2>1. handle_[s] \in Fds /\ user[handle_[s]] = s
    BY DEF IInv, TypeOK, OwnsHandle
  <2>. QED  BY <2>1, <1>4
<1>6. NothingElseLeaks'
  <2>. SUFFICES ASSUME ~spoiled, NEW f \in Fds, user'[f] \in Socks
                PROVE  f \in leaked \/ (Live(user[f]) /\ handle_[user[f]] = f /\ user'[f] = user[f])
    BY <1>1 DEF NothingElseLeaks, Live, object, ghost
  <2>1. user[f] = user'[f]
    BY <1>4
  <2>. QED  BY <2>1 DEF IInv, NothingElseLeaks
<1>7. CallShape' /\ DanglingForgets'
  BY <1>1, <1>4 DEF IInv, TypeOK, CallShape, DanglingForgets, Live, object, call, ghost
<1>. QED  BY <1>3, <1>5, <1>6, <1>7 DEF IInv

\* A new Socket with a descriptor that was nobody's, or with none.
LEMMA MadeIInv ==
  ASSUME IInv, ~spoiled, NEW s \in Socks, NEW k \in {"default", "server", "client"},
         NEW fd \in Fds \cup {Invalid}, NEW b \in BOOLEAN,
         fd \in Fds => user[fd] \notin Socks,
         Make(s, k, fd, b), Opened(s, fd), UNCHANGED <<listening, ghost>>
  PROVE  IInv'
<1>1. TypeOK'
  BY Descriptors DEF IInv, TypeOK, Make, Opened, ghost
<1>2. \A f \in Fds : user'[f] = IF f = fd THEN s ELSE user[f]
  BY Descriptors DEF IInv, TypeOK, Opened
<1>3. \A t \in Socks : t # s => kind'[t] = kind[t] /\ handle_'[t] = handle_[t]
  BY DEF IInv, TypeOK, Make
<1>4. kind'[s] # "none" /\ handle_'[s] = fd /\ kind[s] = "none" /\ s \notin dangling
  BY DEF IInv, TypeOK, Make, CallShape, Live
<1>5. OwnsHandle'
  <2>. SUFFICES ASSUME NEW t \in Socks, Live(t)', t \notin dangling, handle_'[t] # Invalid
                PROVE  user'[handle_'[t]] = t
    BY DEF OwnsHandle, ghost
  <2>1. CASE t = s  BY <2>1, <1>2, <1>4, Descriptors
  <2>2. CASE t # s
    <3>1. handle_[t] \in Fds /\ user[handle_[t]] = t
      BY <2>2, <1>3 DEF IInv, TypeOK, OwnsHandle, Live
    <3>. QED  BY <2>2, <3>1, <1>2, <1>3
  <2>. QED  BY <2>1, <2>2
<1>6. NothingElseLeaks'
  BY <1>2, <1>3, <1>4 DEF IInv, NothingElseLeaks, Live, ghost
<1>7. CallShape'
  BY <1>3, <1>4 DEF IInv, TypeOK, CallShape, Live, Make, ghost
<1>8. DanglingForgets'
  BY <1>2, <1>4 DEF IInv, DanglingForgets, ghost
<1>. QED  BY <1>1, <1>5, <1>6, <1>7, <1>8 DEF IInv

LEMMA ConstructIInv ==
  ASSUME IInv, ~spoiled, NEW s \in Socks, Construct(s) \/ ConstructGiven(s)
  PROVE  IInv'
<1>1. CASE Construct(s)
  <2>. PICK k \in Kinds \cap {"default", "server"}, fd \in NewFds \cup {Invalid}, b \in BOOLEAN :
         Make(s, k, fd, b) /\ Opened(s, fd)
    BY <1>1 DEF Construct
  <2>1. fd \in Fds \cup {Invalid} /\ (fd \in Fds => user[fd] \notin Socks)
    BY SocketAssumption, Descriptors DEF NewFds
  <2>. QED  BY <1>1, <2>1, MadeIInv DEF Construct
<1>2. CASE ConstructGiven(s)
  <2>. PICK fd \in Fds, b \in Modes :
         user[fd] = Other /\ Make(s, "default", fd, b) /\ Opened(s, fd)
    BY <1>2 DEF ConstructGiven
  <2>. QED  BY <1>2, MadeIInv, SocketAssumption DEF ConstructGiven
<1>. QED  BY <1>1, <1>2

LEMMA AcceptIInv ==
  ASSUME IInv, ~spoiled, NEW s \in Socks, NEW t \in Socks, Accept(s, t)
  PROVE  IInv'
<1>1. PICK fd \in NewFds : Make(t, "default", fd, blocking_[s]) /\ Opened(t, fd)
  BY DEF Accept
<1>2. fd \in Fds /\ user[fd] \notin Socks /\ blocking_[s] \in BOOLEAN
  BY SocketAssumption DEF NewFds, IInv, TypeOK
<1>. QED  BY <1>1, <1>2, MadeIInv DEF Accept

\* The client-mode constructor: whatever handle_ is, the Socket does not own it.
LEMMA ConstructClientIInv ==
  ASSUME IInv, ~spoiled, NEW s \in Socks, ConstructClient(s)
  PROVE  IInv'
<1>. PICK fd \in Fds \cup {Invalid}, b \in Modes :
       /\ Make(s, "client", fd, b)
       /\ dangling' = IF fd = Invalid THEN dangling ELSE dangling \cup {s}
  BY DEF ConstructClient
<1>1. TypeOK'
  BY SocketAssumption DEF IInv, TypeOK, Make, ConstructClient, kernel
<1>2. OwnsHandle'
  BY DEF IInv, TypeOK, OwnsHandle, Make, ConstructClient, kernel, Live
<1>3. NothingElseLeaks' /\ DanglingForgets'
  BY DEF IInv, TypeOK, NothingElseLeaks, DanglingForgets, Make, ConstructClient, kernel, Live
<1>4. CallShape'
  BY DEF IInv, TypeOK, CallShape, Make, ConstructClient, kernel, Live
<1>. QED  BY <1>1, <1>2, <1>3, <1>4 DEF IInv

\* Socket::close, alone and in the destructor: what s has open afterwards it
\* had forgotten before, and no other Socket's descriptor is touched, unless
\* handle_ was not its own.
LEMMA Closed ==
  ASSUME IInv, ~spoiled, NEW s \in Socks, Live(s), CloseHandle(s)
  PROVE  /\ handle_' = [handle_ EXCEPT ![s] = Invalid] /\ dangling' = dangling \ {s}
         /\ user' \in [Fds -> Socks \cup {Free, Other}]
         /\ listening' \subseteq Fds /\ leaked' \subseteq Fds /\ spoiled' \in BOOLEAN
         /\ ~spoiled' =>
              \A f \in Fds :
                \/ user'[f] = user[f] /\ (f \in leaked' <=> f \in leaked) /\ f # handle_[s]
                \/ user'[f] = Free /\ f = handle_[s] /\ user[f] = s
<1>1. CASE handle_[s] = Invalid
  BY <1>1, Descriptors DEF IInv, TypeOK, CloseHandle, kernel
<1>2. CASE handle_[s] # Invalid
  <2>1. CloseFd(s, handle_[s])
    BY <1>2 DEF CloseHandle
  <2>2. ~spoiled' => s \notin dangling
    BY <2>1 DEF CloseFd
  <2>3. Live(s) /\ s \notin dangling => user[handle_[s]] = s
    BY <1>2 DEF IInv, OwnsHandle
  <2>. QED
    BY <2>1, <2>2, <2>3, <1>2 DEF IInv, TypeOK, CloseHandle, CloseFd
<1>. QED  BY <1>1, <1>2

\* The descriptors of other Sockets are as they were when s has closed its own.
LEMMA ClosedOthers ==
  ASSUME IInv, ~spoiled, NEW s \in Socks, Live(s), CloseHandle(s), ~spoiled',
         NEW t \in Socks, t # s, Live(t), t \notin dangling, handle_[t] # Invalid
  PROVE  user'[handle_[t]] = t
<1>1. handle_[t] \in Fds /\ user[handle_[t]] = t
  BY DEF IInv, TypeOK, OwnsHandle
<1>2. CASE user'[handle_[t]] = user[handle_[t]]
  BY <1>1, <1>2
<1>3. CASE user[handle_[t]] = s
  BY <1>1, <1>3
<1>. QED  BY <1>1, <1>2, <1>3, Closed

\* What is left of s when its handle_ is closed: only what it had forgotten.
LEMMA ClosedForgets ==
  ASSUME IInv, ~spoiled, NEW s \in Socks, Live(s), CloseHandle(s), ~spoiled',
         NEW f \in Fds, user'[f] \in Socks
  PROVE  /\ user'[f] = user[f]
         /\ \/ f \in leaked'
            \/ user[f] # s /\ Live(user[f]) /\ handle_[user[f]] = f
<1>1. user'[f] = user[f] /\ (f \in leaked' <=> f \in leaked) /\ f # handle_[s]
  BY Closed, SocketAssumption
<1>2. f \in leaked \/ (Live(user[f]) /\ handle_[user[f]] = f)
  BY <1>1 DEF IInv, NothingElseLeaks
<1>. QED  BY <1>1, <1>2

LEMMA CloseIInv ==
  ASSUME IInv, ~spoiled, NEW s \in Socks, Close(s) \/ (Destroy(s) /\ autoClose_[s])
  PROVE  IInv'
<1>1. Live(s) /\ pc[s] = "idle" /\ CloseHandle(s) /\ UNCHANGED <<pc, left>>
  BY DEF Close, Destroy, Idle
<1>2. /\ kind' \in [Socks -> {"none", "default", "server", "client"}]
      /\ \A t \in Socks : t # s => kind'[t] = kind[t]
  BY DEF Close, Destroy, IInv, TypeOK
<1>3. TypeOK'
  <2>1. /\ autoClose_' \in [Socks -> BOOLEAN] /\ blocking_' \in [Socks -> BOOLEAN]
        /\ ret' \in [Socks -> {"none", "OK", "INPROGRESS", "DISCONNECTED", "OTHERERR"}]
    BY DEF IInv, TypeOK, Close, Destroy
  <2>. QED  BY <1>1, <1>2, <2>1, Closed DEF IInv, TypeOK
<1>4. /\ handle_'[s] = Invalid /\ dangling' = dangling \ {s}
      /\ \A t \in Socks : t # s => handle_'[t] = handle_[t]
  BY <1>1, Closed DEF IInv, TypeOK
<1>5. OwnsHandle'
  BY <1>1, <1>2, <1>4, ClosedOthers DEF OwnsHandle, Live
<1>6. NothingElseLeaks'
  BY <1>1, <1>2, <1>4, ClosedForgets DEF NothingElseLeaks, Live
<1>7. CallShape'
  BY <1>1, <1>2, <1>4 DEF IInv, CallShape, Live
<1>8. DanglingForgets'
  <2>. SUFFICES ASSUME ~spoiled', NEW t \in dangling', NEW f \in Fds, user'[f] = t
                PROVE  f \in leaked'
    BY DEF DanglingForgets
  <2>1. t \in Socks /\ t \in dangling
    BY <1>4 DEF IInv, TypeOK
  <2>2. user[f] = t /\ (f \in leaked' <=> f \in leaked)
    BY <1>1, <2>1, Closed, SocketAssumption
  <2>. QED  BY <2>1, <2>2 DEF IInv, DanglingForgets
<1>. QED  BY <1>3, <1>5, <1>6, <1>7, <1>8 DEF IInv

LEMMA DestroyOpenIInv ==
  ASSUME IInv, ~spoiled, NEW s \in Socks, Destroy(s), ~autoClose_[s]
  PROVE  IInv'
<1>1. /\ kind' = [kind EXCEPT ![s] = "none"] /\ handle_' = [handle_ EXCEPT ![s] = Invalid]
      /\ leaked' = leaked \cup Forgotten(s) /\ dangling' = dangling \ {s}
      /\ UNCHANGED <<kernel, spoiled, pc, left>> /\ pc[s] = "idle"
  BY DEF Destroy, Idle
<1>2. TypeOK'
  BY <1>1 DEF IInv, TypeOK, Destroy, Forgotten, kernel
<1>3. OwnsHandle' /\ CallShape'
  BY <1>1 DEF IInv, TypeOK, OwnsHandle, CallShape, Live, kernel
<1>4. NothingElseLeaks'
  BY <1>1 DEF IInv, TypeOK, NothingElseLeaks, DanglingForgets, Forgotten, Live, kernel
<1>5. DanglingForgets'
  BY <1>1 DEF IInv, TypeOK, DanglingForgets, kernel
<1>. QED  BY <1>2, <1>3, <1>4, <1>5 DEF IInv

LEMMA SetAutoCloseIInv ==
  ASSUME IInv, ~spoiled, NEW s \in Socks, SetAutoClose(s)
  PROVE  IInv'
BY DEF IInv, TypeOK, OwnsHandle, NothingElseLeaks, CallShape, DanglingForgets, Live, SetAutoClose,
       call, kernel, ghost

-----------------------------------------------------------------------------
(* connect().                                                              *)

\* Nothing but the call and the settings changes.
LEMMA CallIInv ==
  ASSUME IInv, ~spoiled, NEW s \in Socks,
         NotResolved(s) \/ Resolved(s) \/ ConnectAgain(s) \/ Connected(s) \/ InProgress(s)
           \/ NoAddressLeft(s)
  PROVE  IInv'
<1>1. UNCHANGED <<handle_, autoClose_, kernel, ghost>>
  BY DEF NotResolved, Resolved, ConnectAgain, Connected, InProgress, NoAddressLeft, object
<1>2. /\ \A t \in Socks : Live(t)' <=> Live(t)
      /\ kind' \in [Socks -> {"none", "default", "server", "client"}]
      /\ blocking_' \in [Socks -> BOOLEAN]
  <2>1. CASE SetHost(s)
    BY <2>1, SocketAssumption DEF SetHost, Idle, IInv, TypeOK, Live
  <2>2. CASE UNCHANGED object
    BY <2>2 DEF IInv, TypeOK, Live, object
  <2>. QED
    BY <2>1, <2>2 DEF NotResolved, Resolved, ConnectAgain, Connected, InProgress, NoAddressLeft
<1>3. /\ pc' \in [Socks -> {"idle", "try", "connecting"}] /\ left' \in [Socks -> Nat]
      /\ ret' \in [Socks -> {"none", "OK", "INPROGRESS", "DISCONNECTED", "OTHERERR"}]
  <2>1. CASE NotResolved(s) \/ (ConnectAgain(s) /\ UNCHANGED <<pc, left>>)
    BY <2>1 DEF NotResolved, ConnectAgain, StartTrying, IInv, TypeOK
  <2>2. CASE StartTrying(s)
    BY <2>2, SocketAssumption DEF StartTrying, IInv, TypeOK
  <2>3. CASE Connected(s) \/ InProgress(s) \/ NoAddressLeft(s)
    BY <2>3 DEF Connected, InProgress, NoAddressLeft, Returns, IInv, TypeOK
  <2>. QED  BY <2>1, <2>2, <2>3 DEF Resolved, ConnectAgain
<1>4. TypeOK'
  BY <1>1, <1>2, <1>3 DEF IInv, TypeOK, kernel, ghost
<1>5. OwnsHandle' /\ DanglingForgets'
  BY <1>1, <1>2 DEF IInv, OwnsHandle, DanglingForgets, kernel, ghost
<1>6. NothingElseLeaks'
  BY <1>1, <1>2 DEF IInv, NothingElseLeaks, kernel, ghost
<1>7. \A t \in Socks :
        \/ pc'[t] = "idle"
        \/ pc'[t] = pc[t] /\ left'[t] = left[t]
        \/ pc'[t] = "try" /\ left'[t] # 0 /\ Live(t)
  BY SocketAssumption
     DEF NotResolved, Resolved, ConnectAgain, Connected, InProgress, NoAddressLeft, StartTrying,
         SetHost, Idle, Returns, IInv, TypeOK
<1>8. CallShape'
  BY <1>1, <1>2, <1>7 DEF IInv, CallShape, ghost
<1>. QED  BY <1>4, <1>5, <1>6, <1>8 DEF IInv

\* The next address: a descriptor that s had is forgotten, not taken from
\* anybody.
LEMMA OpenNextIInv ==
  ASSUME IInv, ~spoiled, NEW s \in Socks, OpenNext(s)
  PROVE  IInv'
<1>. PICK fd \in NewFds \cup {Invalid} :
       /\ handle_' = [handle_ EXCEPT ![s] = fd] /\ Opened(s, fd)
       /\ pc' = [pc EXCEPT ![s] = IF fd = Invalid THEN "try" ELSE "connecting"]
  BY DEF OpenNext
<1>1. fd \in Fds \cup {Invalid} /\ (fd \in Fds => user[fd] = Free)
  BY Descriptors DEF NewFds
<1>2. /\ leaked' = leaked \cup Forgotten(s) /\ dangling' = dangling \ {s}
      /\ left' = [left EXCEPT ![s] = @ - 1] /\ left[s] > 0 /\ pc[s] = "try"
      /\ UNCHANGED <<kind, blocking_, autoClose_, ret, listening, spoiled>>
  BY DEF OpenNext
<1>3. \A f \in Fds : user'[f] = IF f = fd THEN s ELSE user[f]
  BY <1>1, Descriptors DEF IInv, TypeOK, Opened
<1>4. TypeOK'
  BY <1>1, <1>2 DEF IInv, TypeOK, Opened, Forgotten
<1>5. OwnsHandle'
  <2>. SUFFICES ASSUME NEW t \in Socks, Live(t)', t \notin dangling', handle_'[t] # Invalid
                PROVE  user'[handle_'[t]] = t
    BY DEF OwnsHandle
  <2>1. CASE t = s  BY <2>1, <1>1, <1>3 DEF IInv, TypeOK
  <2>2. CASE t # s
    <3>1. handle_'[t] = handle_[t] /\ handle_[t] \in Fds /\ user[handle_[t]] = t
      BY <2>2, <1>2 DEF IInv, TypeOK, OwnsHandle, Live
    <3>. QED  BY <3>1, <1>1, <1>3, SocketAssumption
  <2>. QED  BY <2>1, <2>2
<1>6. NothingElseLeaks'
  <2>. SUFFICES ASSUME NEW f \in Fds, user'[f] \in Socks, f \notin leaked'
                PROVE  kind'[user'[f]] # "none" /\ handle_'[user'[f]] = f
    BY DEF NothingElseLeaks, Live
  <2>1. CASE f = fd
    BY <2>1, <1>2, <1>3 DEF IInv, TypeOK, CallShape, Live
  <2>2. CASE f # fd
    <3>1. user'[f] = user[f] /\ Live(user[f]) /\ handle_[user[f]] = f
      BY <2>2, <1>2, <1>3 DEF IInv, NothingElseLeaks
    <3>2. user[f] # s
      BY <3>1, <1>2 DEF Forgotten, IInv, DanglingForgets
    <3>. QED  BY <3>1, <3>2, <1>2 DEF IInv, TypeOK, Live
  <2>. QED  BY <2>1, <2>2
<1>7. CallShape'
  BY <1>1, <1>2, Descriptors DEF IInv, TypeOK, CallShape, Live
<1>8. DanglingForgets'
  BY <1>2, <1>3 DEF IInv, TypeOK, DanglingForgets
<1>. QED  BY <1>4, <1>5, <1>6, <1>7, <1>8 DEF IInv

\* An address that refuses: the descriptor s has just opened is closed.
LEMMA RefusedIInv ==
  ASSUME IInv, ~spoiled, NEW s \in Socks, Refused(s)
  PROVE  IInv'
<1>1. /\ CloseFd(s, handle_[s]) /\ handle_' = [handle_ EXCEPT ![s] = Invalid]
      /\ pc' = [pc EXCEPT ![s] = "try"] /\ pc[s] = "connecting"
      /\ UNCHANGED <<kind, blocking_, autoClose_, left, ret, dangling>>
  BY DEF Refused
<1>2. handle_[s] \in Fds /\ Live(s) /\ s \notin dangling /\ user[handle_[s]] = s
  BY <1>1 DEF IInv, TypeOK, CallShape, OwnsHandle
<1>3. TypeOK'
  BY <1>1 DEF IInv, TypeOK, CloseFd
<1>4. OwnsHandle'
  BY <1>1, <1>2 DEF IInv, TypeOK, OwnsHandle, CloseFd, Live
<1>5. NothingElseLeaks'
  BY <1>1, <1>2, SocketAssumption DEF IInv, TypeOK, NothingElseLeaks, CloseFd, Live
<1>6. CallShape'
  BY <1>1, <1>2 DEF IInv, TypeOK, CallShape, Live
<1>7. DanglingForgets'
  BY <1>1, <1>2, SocketAssumption DEF IInv, TypeOK, DanglingForgets, CloseFd
<1>. QED  BY <1>3, <1>4, <1>5, <1>6, <1>7 DEF IInv

-----------------------------------------------------------------------------
(* The server's side.                                                      *)

LEMMA FailAndCloseIInv ==
  ASSUME IInv, ~spoiled, NEW s \in Socks, FailAndClose(s)
  PROVE  IInv'
<1>1. /\ CloseFd(s, handle_[s]) /\ Live(s) /\ pc[s] = "idle" /\ UNCHANGED <<object, call>>
      /\ dangling' = dangling \cup (IF handle_[s] = Invalid THEN {} ELSE {s})
  BY DEF FailAndClose, Idle
<1>2. TypeOK'
  BY <1>1 DEF IInv, TypeOK, CloseFd, object, call
<1>3. OwnsHandle'
  <2>. SUFFICES ASSUME ~spoiled', NEW t \in Socks, Live(t), t \notin dangling', handle_[t] # Invalid
                PROVE  user'[handle_[t]] = t
    BY <1>1 DEF OwnsHandle, Live, object
  <2>1. t # s /\ handle_[t] \in Fds /\ user[handle_[t]] = t /\ s \notin dangling
    <3>1. s \notin dangling /\ t \notin dangling
      BY <1>1 DEF CloseFd
    <3>2. handle_[t] \in Fds /\ user[handle_[t]] = t
      BY <3>1 DEF IInv, TypeOK, OwnsHandle
    <3>. QED  BY <1>1, <3>1, <3>2
  <2>2. handle_[t] # handle_[s]
    BY <1>1, <2>1 DEF IInv, OwnsHandle
  <2>. QED  BY <1>1, <2>1, <2>2 DEF CloseFd
<1>4. NothingElseLeaks'
  BY <1>1, SocketAssumption DEF IInv, TypeOK, NothingElseLeaks, CloseFd, Live, object
<1>5. CallShape'
  BY <1>1 DEF IInv, TypeOK, CallShape, Live, object, call
<1>6. DanglingForgets'
  <2>. SUFFICES ASSUME ~spoiled', NEW t \in dangling', NEW f \in Fds, user'[f] = t
                PROVE  f \in leaked'
    BY DEF DanglingForgets
  <2>1. t \in Socks /\ f # handle_[s] /\ user[f] = t /\ (f \in leaked' <=> f \in leaked)
    BY <1>1, SocketAssumption DEF IInv, TypeOK, CloseFd
  <2>2. CASE t \in dangling  BY <2>1, <2>2 DEF IInv, DanglingForgets
  <2>3. CASE t = s  BY <2>1, <2>3 DEF IInv, NothingElseLeaks
  <2>. QED  BY <1>1, <2>2, <2>3
<1>. QED  BY <1>2, <1>3, <1>4, <1>5, <1>6 DEF IInv

LEMMA ListensIInv ==
  ASSUME IInv, ~spoiled, NEW s \in Socks, Listens(s)
  PROVE  IInv'
BY DEF IInv, TypeOK, OwnsHandle, NothingElseLeaks, CallShape, DanglingForgets, Live, Listens,
       object, call, ghost

-----------------------------------------------------------------------------
(* The theorems.                                                           *)

LEMMA NextIInv == IInv /\ [Next]_vars => IInv'
<1>. SUFFICES ASSUME IInv, [Next]_vars
              PROVE  IInv'
  OBVIOUS
<1>1. CASE ~spoiled /\ (OpenOther \/ \E fd \in Fds : CloseOther(fd))
  BY <1>1, OtherIInv
<1>2. ASSUME NEW s \in Socks, ~spoiled,
             \/ Construct(s) \/ ConstructClient(s) \/ ConstructGiven(s) \/ SetAutoClose(s)
             \/ Close(s) \/ Destroy(s)
      PROVE  IInv'
  BY <1>2, ConstructIInv, ConstructClientIInv, SetAutoCloseIInv, CloseIInv, DestroyOpenIInv
<1>3. ASSUME NEW s \in Socks, ~spoiled,
             NotResolved(s) \/ Resolved(s) \/ ConnectAgain(s) \/ Connecting(s)
      PROVE  IInv'
  BY <1>3, CallIInv, OpenNextIInv, RefusedIInv DEF Connecting
<1>4. ASSUME NEW s \in Socks, ~spoiled, BindFails(s) \/ ListenFails(s) \/ Listens(s)
      PROVE  IInv'
  BY <1>4, FailAndCloseIInv, ListensIInv DEF BindFails, ListenFails
<1>5. ASSUME NEW s \in Socks, NEW t \in Socks, ~spoiled, Accept(s, t)
      PROVE  IInv'
  BY <1>5, AcceptIInv
<1>6. CASE UNCHANGED vars
  BY <1>6 DEF IInv, vars, TypeOK, OwnsHandle, NothingElseLeaks, CallShape, DanglingForgets, Live
<1>. QED  BY <1>1, <1>2, <1>3, <1>4, <1>5, <1>6 DEF Next

LEMMA SpecIInv == Spec => []IInv
BY InitIInv, NextIInv, PTL DEF Spec

\* Every variable stays in its domain; connect() tries no more addresses than
\* it was given.
THEOREM TypeCorrect == Spec => []TypeOK
BY SpecIInv, PTL DEF IInv

\* A Socket that has not been told otherwise owns the descriptor it will close.
THEOREM OwnerCorrect == Spec => []OwnsHandle
BY SpecIInv, PTL DEF IInv

\* connect() over a valid handle_ and a destructor told to are the only leaks.
THEOREM LeaksKnown == Spec => []NothingElseLeaks
BY SpecIInv, PTL DEF IInv

LEMMA ReturnsReport ==
  ASSUME IInv, ~spoiled, NEW s \in Socks, Connecting(s),
         NEW t \in Socks, pc[t] # "idle", pc'[t] = "idle"
  PROVE  ret'[t] \in {"OK", "INPROGRESS"} <=> \E fd \in Fds : handle_'[t] = fd /\ user'[fd] = t
<1>1. t = s /\ (Connected(s) \/ InProgress(s) \/ NoAddressLeft(s))
  BY DEF IInv, TypeOK, Connecting, OpenNext, Refused, Connected, InProgress, NoAddressLeft, Returns
<1>2. UNCHANGED <<handle_, user>>
  BY <1>1 DEF Connected, InProgress, NoAddressLeft, object, kernel
<1>3. CASE Connected(s) \/ InProgress(s)
  <2>1. handle_[s] \in Fds /\ user[handle_[s]] = s
    BY <1>3 DEF Connected, InProgress, IInv, TypeOK, CallShape, OwnsHandle
  <2>2. ret'[s] \in {"OK", "INPROGRESS"}
    BY <1>3 DEF Connected, InProgress, Returns, IInv, TypeOK
  <2>. QED  BY <1>1, <1>2, <2>1, <2>2
<1>4. CASE NoAddressLeft(s)
  <2>1. handle_[s] = Invalid
    BY <1>4 DEF NoAddressLeft, IInv, CallShape
  <2>2. ret'[s] = "DISCONNECTED"
    BY <1>4, <2>1 DEF NoAddressLeft, Returns, IInv, TypeOK
  <2>. QED  BY <1>1, <1>2, <2>1, <2>2, Descriptors
<1>. QED  BY <1>1, <1>3, <1>4

\* A connect() reports a connection exactly when the Socket has a descriptor
\* for it.
THEOREM ReportCorrect == Spec => ConnectReports
<1>1. IInv /\ [Next]_vars =>
        [\A s \in Socks : pc[s] # "idle" /\ pc'[s] = "idle" =>
          (ret'[s] \in {"OK", "INPROGRESS"} <=>
             \E fd \in Fds : handle_'[s] = fd /\ user'[fd] = s)]_vars
  <2>. SUFFICES ASSUME IInv, Next, NEW t \in Socks, pc[t] # "idle", pc'[t] = "idle"
                PROVE  ret'[t] \in {"OK", "INPROGRESS"} <=>
                         \E fd \in Fds : handle_'[t] = fd /\ user'[fd] = t
    OBVIOUS
  <2>1. PICK s \in Socks : ~spoiled /\ Connecting(s)
    BY DEF Next, IInv, TypeOK, OpenOther, CloseOther, Construct, ConstructClient, ConstructGiven,
           Make, SetAutoClose, Close, Destroy, Idle, NotResolved, Resolved, ConnectAgain, SetHost,
           StartTrying, BindFails, ListenFails, FailAndClose, Listens, Accept, call
  <2>. QED  BY <2>1, ReturnsReport
<1>. QED  BY <1>1, SpecIInv, PTL DEF Spec, ConnectReports
=============================================================================
