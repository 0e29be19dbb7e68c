------------------------------- MODULE Socket -------------------------------
(***************************************************************************)
(* The descriptors of the Sockets of include/Socket/SysIO.h: constructors, *)
(* connect, bind, listen, accept, close and the destructor, over the       *)
(* descriptor table of a process that opens other files too.  What is read *)
(* and written is in InputStream and OutputBuffer.                         *)
(*                                                                         *)
(* Each Socket is used by one thread, several of them by several.          *)
(***************************************************************************)
EXTENDS Integers, FiniteSets

CONSTANTS Socks,     \* the places of Socket objects
          Fds,       \* the descriptors of the process, from 0
          Modes,     \* the values of blocking_ the program asks for
          Addresses, \* how many addresses getaddrinfo may find
          Kinds      \* the constructors the program calls

Invalid == -1   \* INVALID_SOCKET, which is SOCKET_ERROR too
Free    == "free"
Other   == "other"

ASSUME SocketAssumption ==
  /\ IsFiniteSet(Fds) /\ Fds = 0 .. Cardinality(Fds) - 1 /\ Modes \subseteq BOOLEAN
  /\ Addresses \subseteq Nat \ {0} /\ Free \notin Socks /\ Other \notin Socks
  /\ Kinds \subseteq {"default", "server", "client", "given"}

VARIABLES
  kind,       \* how host_ and port_ are set, or "none": no Socket is there
  handle_, blocking_, autoClose_,
  pc, left,   \* the connect() in progress and the addresses left to it
  ret,        \* the IO_ERR of the last connect(), "none" after close()
  user,       \* who has opened a descriptor, if it is not free
  listening,  \* the descriptors that listen
  dangling,   \* the Sockets whose handle_ is not theirs and they do not know
  spoiled,    \* one of these has passed its handle_ to the kernel's close()
  leaked      \* the descriptors their Sockets have forgotten

object == <<kind, handle_, blocking_, autoClose_>>
call   == <<pc, left, ret>>
kernel == <<user, listening>>
ghost  == <<dangling, spoiled, leaked>>
vars   == <<kind, handle_, blocking_, autoClose_, pc, left, ret, user, listening, dangling,
            spoiled, leaked>>

Init ==
  /\ kind = [s \in Socks |-> "none"] /\ handle_ = [s \in Socks |-> Invalid]
  /\ blocking_ = [s \in Socks |-> TRUE] /\ autoClose_ = [s \in Socks |-> TRUE]
  /\ pc = [s \in Socks |-> "idle"] /\ left = [s \in Socks |-> 0] /\ ret = [s \in Socks |-> "none"]
  /\ user = [fd \in Fds |-> Free] /\ listening = {}
  /\ dangling = {} /\ spoiled = FALSE /\ leaked = {}

-----------------------------------------------------------------------------
(* The kernel.                                                             *)

\* The lowest free descriptor, as POSIX wants it; none if all are taken.
NewFds == {fd \in Fds : user[fd] = Free /\ \A g \in 0 .. fd - 1 : user[g] # Free}

\* Descriptor fd is closed, whoever has opened it.
CloseFd(s, fd) ==
  /\ user' = [f \in Fds |-> IF f = fd THEN Free ELSE user[f]]
  /\ listening' = listening \ {fd}
  /\ leaked' = leaked \ {fd}
  /\ spoiled' = (spoiled \/ s \in dangling)

\* The rest of the process.
OpenOther ==
  /\ \E fd \in NewFds : user' = [user EXCEPT ![fd] = Other]
  /\ UNCHANGED <<object, call, listening, ghost>>

CloseOther(fd) ==
  /\ user[fd] = Other
  /\ user' = [user EXCEPT ![fd] = Free]
  /\ UNCHANGED <<object, call, listening, ghost>>

-----------------------------------------------------------------------------
(* Constructors and destructor.                                            *)

Live(s) == kind[s] # "none"
Idle(s) == Live(s) /\ pc[s] = "idle"

Make(s, k, fd, b) ==
  /\ ~Live(s)
  /\ kind' = [kind EXCEPT ![s] = k] /\ handle_' = [handle_ EXCEPT ![s] = fd]
  /\ blocking_' = [blocking_ EXCEPT ![s] = b] /\ autoClose_' = [autoClose_ EXCEPT ![s] = TRUE]
  /\ ret' = [ret EXCEPT ![s] = "none"]
  /\ UNCHANGED <<pc, left>>

\* socket(): the descriptor fd, or none for any reason.
Opened(s, fd) ==
  user' = IF fd = Invalid THEN user ELSE [user EXCEPT ![fd] = s]

\* Socket(), which is blocking, and Socket(host, port, blocking) in server mode.
Construct(s) ==
  /\ \E k \in Kinds \cap {"default", "server"}, fd \in NewFds \cup {Invalid}, b \in BOOLEAN :
       /\ IF k = "default" THEN b ELSE b \in Modes
       /\ Make(s, k, fd, b) /\ Opened(s, fd)
  /\ UNCHANGED <<listening, ghost>>

\* Socket(host, port, blocking) in client mode does not initialize handle_.
ConstructClient(s) ==
  /\ "client" \in Kinds
  /\ \E fd \in Fds \cup {Invalid}, b \in Modes :
       /\ Make(s, "client", fd, b)
       /\ dangling' = IF fd = Invalid THEN dangling ELSE dangling \cup {s}
  /\ UNCHANGED <<kernel, spoiled, leaked>>

\* Socket(handle, blocking) takes a descriptor of the caller.
ConstructGiven(s) ==
  /\ "given" \in Kinds
  /\ \E fd \in Fds, b \in Modes :
       user[fd] = Other /\ Make(s, "default", fd, b) /\ Opened(s, fd)
  /\ UNCHANGED <<listening, ghost>>

SetAutoClose(s) ==
  /\ Idle(s)
  /\ autoClose_' = [autoClose_ EXCEPT ![s] = ~@]
  /\ UNCHANGED <<kind, handle_, blocking_, call, kernel, ghost>>

\* A mutant: handle_ still names the descriptor.
CloseKeepsHandle(s) ==
  /\ CloseFd(s, handle_[s])
  /\ dangling' = dangling \ {s}
  /\ UNCHANGED handle_

\* Socket::close: handle_ is invalid after it, whatever the kernel said.
CloseHandle(s) ==
  /\ handle_' = [handle_ EXCEPT ![s] = Invalid]
  /\ dangling' = dangling \ {s}
  /\ IF handle_[s] # Invalid THEN CloseFd(s, handle_[s]) ELSE UNCHANGED <<kernel, spoiled, leaked>>

Close(s) ==
  /\ Idle(s)
  /\ CloseHandle(s)
  /\ ret' = [ret EXCEPT ![s] = "none"]
  /\ UNCHANGED <<kind, blocking_, autoClose_, pc, left>>

\* The descriptor s is about to forget, if it is its own.
Forgotten(s) == {fd \in Fds : fd = handle_[s] /\ user[fd] = s /\ s \notin dangling}

Destroy(s) ==
  /\ Idle(s)
  /\ kind' = [kind EXCEPT ![s] = "none"] /\ ret' = [ret EXCEPT ![s] = "none"]
  /\ blocking_' = [blocking_ EXCEPT ![s] = TRUE] /\ autoClose_' = [autoClose_ EXCEPT ![s] = TRUE]
  /\ \/ autoClose_[s] /\ CloseHandle(s)
     \/ /\ ~autoClose_[s]
        /\ handle_' = [handle_ EXCEPT ![s] = Invalid]
        /\ leaked' = leaked \cup Forgotten(s) /\ dangling' = dangling \ {s}
        /\ UNCHANGED <<kernel, spoiled>>
  /\ UNCHANGED <<pc, left>>

-----------------------------------------------------------------------------
(* connect().                                                              *)

\* connect(host, port, blocking) sets these first.  Without a host or a port,
\* or if getaddrinfo fails, nothing else happens.
SetHost(s) ==
  /\ Idle(s)
  /\ \E b \in Modes : blocking_' = [blocking_ EXCEPT ![s] = b]
  /\ kind' = [kind EXCEPT ![s] = "client"]

NotResolved(s) ==
  /\ SetHost(s)
  /\ ret' = [ret EXCEPT ![s] = "OTHERERR"]
  /\ UNCHANGED <<handle_, autoClose_, pc, left, kernel, ghost>>

StartTrying(s) ==
  /\ pc' = [pc EXCEPT ![s] = "try"] /\ ret' = [ret EXCEPT ![s] = "none"]
  /\ \E n \in Addresses : left' = [left EXCEPT ![s] = n]

Resolved(s) ==
  /\ SetHost(s)
  /\ StartTrying(s)
  /\ UNCHANGED <<handle_, autoClose_, kernel, ghost>>

\* connect() of a Socket that has its host: the same, but for the settings.
ConnectAgain(s) ==
  /\ Idle(s)
  /\ \/ kind[s] = "client" /\ StartTrying(s)
     \/ kind[s] # "client" /\ ret' = [ret EXCEPT ![s] = "OTHERERR"] /\ UNCHANGED <<pc, left>>
  /\ UNCHANGED <<object, kernel, ghost>>

\* A mutant: the end of the list of addresses is not seen.
OpenNextUnchecked(s) ==
  /\ pc[s] = "try"
  /\ left' = [left EXCEPT ![s] = @ - 1]
  /\ leaked' = leaked \cup Forgotten(s) /\ dangling' = dangling \ {s}
  /\ \E fd \in NewFds \cup {Invalid} :
       /\ handle_' = [handle_ EXCEPT ![s] = fd] /\ Opened(s, fd)
       /\ pc' = [pc EXCEPT ![s] = IF fd = Invalid THEN "try" ELSE "connecting"]
  /\ UNCHANGED <<kind, blocking_, autoClose_, ret, listening, spoiled>>

\* The next address: handle_ is set to a new descriptor, whatever it was.
OpenNext(s) ==
  /\ pc[s] = "try" /\ left[s] > 0
  /\ left' = [left EXCEPT ![s] = @ - 1]
  /\ leaked' = leaked \cup Forgotten(s) /\ dangling' = dangling \ {s}
  /\ \E fd \in NewFds \cup {Invalid} :
       /\ handle_' = [handle_ EXCEPT ![s] = fd] /\ Opened(s, fd)
       /\ pc' = [pc EXCEPT ![s] = IF fd = Invalid THEN "try" ELSE "connecting"]
  /\ UNCHANGED <<kind, blocking_, autoClose_, ret, listening, spoiled>>

Returns(s, code) ==
  /\ pc' = [pc EXCEPT ![s] = "idle"] /\ left' = [left EXCEPT ![s] = 0]
  /\ ret' = [ret EXCEPT ![s] = code]

Connected(s) ==
  /\ pc[s] = "connecting"
  /\ Returns(s, "OK")
  /\ UNCHANGED <<object, kernel, ghost>>

InProgress(s) ==
  /\ pc[s] = "connecting" /\ ~blocking_[s]
  /\ Returns(s, "INPROGRESS")
  /\ UNCHANGED <<object, kernel, ghost>>

\* A mutant: the descriptor that could not be connected stays open.
RefusedKeepsFd(s) ==
  /\ pc[s] = "connecting"
  /\ handle_' = [handle_ EXCEPT ![s] = Invalid]
  /\ pc' = [pc EXCEPT ![s] = "try"]
  /\ UNCHANGED <<kind, blocking_, autoClose_, left, ret, kernel, ghost>>

\* A mutant: handle_ is not reset.
RefusedKeepsHandle(s) ==
  /\ pc[s] = "connecting"
  /\ CloseFd(s, handle_[s])
  /\ pc' = [pc EXCEPT ![s] = "try"]
  /\ UNCHANGED <<object, left, ret, dangling>>

Refused(s) ==
  /\ pc[s] = "connecting"
  /\ CloseFd(s, handle_[s]) /\ handle_' = [handle_ EXCEPT ![s] = Invalid]
  /\ pc' = [pc EXCEPT ![s] = "try"]
  /\ UNCHANGED <<kind, blocking_, autoClose_, left, ret, dangling>>

NoAddressLeft(s) ==
  /\ pc[s] = "try" /\ left[s] = 0
  /\ Returns(s, IF handle_[s] = Invalid THEN "DISCONNECTED" ELSE "OK")
  /\ UNCHANGED <<object, kernel, ghost>>

-----------------------------------------------------------------------------
(* The server's side.                                                      *)

\* bind() and listen() close the descriptor when they fail, and keep handle_.
\* bind() looks at port_ and handle_ first, listen() does not.
FailAndClose(s) ==
  /\ Idle(s)
  /\ CloseFd(s, handle_[s])
  /\ dangling' = dangling \cup (IF handle_[s] = Invalid THEN {} ELSE {s})
  /\ UNCHANGED <<object, call>>

BindFails(s) == kind[s] # "default" /\ handle_[s] # Invalid /\ FailAndClose(s)

ListenFails(s) == FailAndClose(s)

\* A bind() that succeeds changes nothing here.
Listens(s) ==
  /\ Idle(s) /\ handle_[s] # Invalid /\ user[handle_[s]] # Free
  /\ listening' = listening \cup {handle_[s]}
  /\ UNCHANGED <<object, call, user, ghost>>

\* accept(): NULL, or a new Socket that owns the new descriptor.
Accept(s, t) ==
  /\ Idle(s) /\ handle_[s] \in listening
  /\ \E fd \in NewFds : Make(t, "default", fd, blocking_[s]) /\ Opened(t, fd)
  /\ UNCHANGED <<listening, ghost>>

-----------------------------------------------------------------------------
Connecting(s) ==
  \/ OpenNext(s) \/ Connected(s) \/ InProgress(s) \/ Refused(s) \/ NoAddressLeft(s)

\* Nothing is claimed of a process that is spoiled.
Next ==
  \/ ~spoiled /\ (OpenOther \/ \E fd \in Fds : CloseOther(fd))
  \/ \E s \in Socks : ~spoiled /\
       \/ Construct(s) \/ ConstructClient(s) \/ ConstructGiven(s) \/ SetAutoClose(s)
       \/ Close(s) \/ Destroy(s)
       \/ NotResolved(s) \/ Resolved(s) \/ ConnectAgain(s) \/ Connecting(s)
       \/ BindFails(s) \/ ListenFails(s) \/ Listens(s)
  \/ \E s, t \in Socks : ~spoiled /\ Accept(s, t)

Spec == Init /\ [][Next]_vars

-----------------------------------------------------------------------------
(* Correctness.                                                            *)

\* The domains of the variables: connect() tries as many addresses as it was
\* given.
TypeOK ==
  /\ kind \in [Socks -> {"none", "default", "server", "client"}]
  /\ handle_ \in [Socks -> Fds \cup {Invalid}]
  /\ blocking_ \in [Socks -> BOOLEAN] /\ autoClose_ \in [Socks -> BOOLEAN]
  /\ pc \in [Socks -> {"idle", "try", "connecting"}] /\ left \in [Socks -> Nat]
  /\ ret \in [Socks -> {"none", "OK", "INPROGRESS", "DISCONNECTED", "OTHERERR"}]
  /\ user \in [Fds -> Socks \cup {Free, Other}]
  /\ listening \subseteq Fds /\ leaked \subseteq Fds
  /\ dangling \subseteq Socks /\ spoiled \in BOOLEAN

\* A valid handle_ names a descriptor that its Socket has opened and not
\* closed, unless bind() or listen() failed on it or the constructor left it
\* unset - until such a Socket is closed, and with it what others have opened
\* under the same number.
OwnsHandle ==
  ~spoiled =>
    \A s \in Socks : Live(s) /\ s \notin dangling /\ handle_[s] # Invalid => user[handle_[s]] = s

\* A descriptor of a Socket is left open only by a connect() over a handle_
\* that was valid, or a destructor that was told to.
NothingElseLeaks ==
  ~spoiled =>
    \A fd \in Fds : user[fd] \in Socks => fd \in leaked \/ (Live(user[fd]) /\ handle_[user[fd]] = fd)

\* When connect() reports a connection, or one in progress, handle_ is a
\* descriptor this Socket has open, and when it reports that every address was
\* refused, it is not: what Rcpp_Connect relies on.
ConnectReports ==
  [][\A s \in Socks : pc[s] # "idle" /\ pc'[s] = "idle" =>
       (ret'[s] \in {"OK", "INPROGRESS"} <=> \E fd \in Fds : handle_'[s] = fd /\ user'[fd] = s)]_vars
=============================================================================
