------------------------------ MODULE Server ------------------------------
(***************************************************************************)
(* The server of src/src/server.cc composed with its sessions: one        *)
(* acceptor with one accept outstanding (start_accept/handle_accept), a   *)
(* pool of worker threads running io_service::run, every completion       *)
(* handler of every session (Session), and the one RequestHandlerDispatcher*)
(* all sessions share.  A worker runs one completion handler at a time;    *)
(* handle_request is cut where other workers can observe it: after        *)
(* dispatch() has written handler_type_, and after async_write has been   *)
(* started but before the metrics line reads the session and              *)
(* get_handler_type().                                                     *)
(*                                                                         *)
(* The routing itself is checked in Dispatcher; here a request carries the*)
(* kind its target routes to (field kind; "ErrorHandler" for NO_MATCH).   *)
(***************************************************************************)
EXTENDS Session, FiniteSets

CONSTANTS Workers,   \* the threads of the pool (thread_pool_size_)
          MaxFds     \* the descriptors the process may hold for sockets

Idle == [pc |-> "idle"]

VARIABLES worker,        \* per thread: Idle, or [s, pc] inside handle_request
          handler_type_, \* RequestHandlerDispatcher::handler_type_ (shared)
          logged,        \* per session: the handler type its metrics line logged
          refused        \* per session: an accept for it has failed

svars == <<vars, worker, handler_type_, logged, refused>>

(* A session object holds its socket's descriptor from accept until it is *)
(* deleted; shutdown() does not release it.                                *)
OpenFds == Cardinality({s \in Conns : sess[s] \notin {"new", "freed"}})

Free(w) == worker[w].pc = "idle"

(* What dispatch() leaves in handler_type_: the kind of a matched route;   *)
(* on NO_MATCH the field is not written.                                    *)
DispatchType(s) ==
  IF msg[s].kind = "ErrorHandler" THEN handler_type_ ELSE msg[s].kind

SInit ==
  /\ Init
  /\ worker = [w \in Workers |-> Idle]
  /\ handler_type_ = ""
  /\ logged = [s \in Conns |-> "none"]
  /\ refused = [s \in Conns |-> FALSE]

(* Variant: one descriptor too few is thought available. *)
AcceptOffByOne(w, s) ==
  /\ Free(w)
  /\ OpenFds + 1 < MaxFds
  /\ Start(s)
  /\ UNCHANGED <<worker, handler_type_, logged, refused>>

(* Variant: a session is (re)started whatever its state. *)
AcceptAnyState(w, s) ==
  /\ Free(w)
  /\ OpenFds < MaxFds
  /\ sess' = [sess EXCEPT ![s] = "reading"]
  /\ request' = [request EXCEPT ![s] = <<>>]
  /\ UNCHANGED <<msg, consumed, body_, headers_done_, body_done_,
                 content_left_, res, handled>>
  /\ UNCHANGED <<worker, handler_type_, logged, refused>>

(* handle_accept without error: the waiting client's session is started   *)
(* and the next accept is armed.                                           *)
Accept(w, s) ==
  /\ Free(w)
  /\ OpenFds < MaxFds
  /\ Start(s)
  /\ UNCHANGED <<worker, handler_type_, logged, refused>>

(* handle_accept with an error (no descriptor left for the connection):   *)
(* the session object is deleted and the next accept is armed; the client *)
(* stays in the listen backlog.                                            *)
AcceptError(w, s) ==
  /\ Free(w)
  /\ sess[s] = "new"
  /\ OpenFds >= MaxFds
  /\ refused' = [refused EXCEPT ![s] = TRUE]
  /\ UNCHANGED <<vars, worker, handler_type_, logged>>

(* Variant: the worker that dispatched does not go on with the handler. *)
ReadOkLosesHandler(w, s) ==
  /\ Free(w)
  /\ HandleReadOk(s)
  /\ CASE sess'[s] = "writing" ->
            /\ worker' = [worker EXCEPT ![w] = [s |-> s, pc |-> "metrics400"]]
            /\ UNCHANGED handler_type_
       [] OTHER -> UNCHANGED <<worker, handler_type_>>
  /\ UNCHANGED <<logged, refused>>

(* handle_read on a free worker.  When it reaches dispatch(), handler_type_*)
(* is written and the worker goes on to run the handler; when it answers   *)
(* 400, async_write has been started and the worker goes on to the metrics *)
(* lines; otherwise the next read is armed and the worker is free.         *)
ReadOk(w, s) ==
  /\ Free(w)
  /\ HandleReadOk(s)
  /\ CASE sess'[s] = "dispatched" ->
            /\ worker' = [worker EXCEPT ![w] = [s |-> s, pc |-> "handler"]]
            /\ handler_type_' = DispatchType(s)
       [] sess'[s] = "writing" ->
            /\ worker' = [worker EXCEPT ![w] = [s |-> s, pc |-> "metrics400"]]
            /\ UNCHANGED handler_type_
       [] OTHER -> UNCHANGED <<worker, handler_type_>>
  /\ UNCHANGED <<logged, refused>>

(* handler->handle_request, delete handler, http::async_write: from here  *)
(* the write's completion may run on another worker.                       *)
Handle(w) ==
  /\ worker[w].pc = "handler"
  /\ RunHandler(worker[w].s)
  /\ worker' = [worker EXCEPT ![w].pc = "metrics"]
  /\ UNCHANGED <<handler_type_, logged, refused>>

(* The handler type the metrics line logs. *)
MetricsType(w) ==
  IF worker[w].pc = "metrics400" THEN "ErrorHandler" ELSE handler_type_

(* Variant: the worker is marked idle but keeps its session. *)
MetricsStaleWorker(w) ==
  LET s == worker[w].s
  IN /\ worker[w].pc \in {"metrics", "metrics400"}
     /\ logged' = [logged EXCEPT ![s] = MetricsType(w)]
     /\ worker' = [worker EXCEPT ![w].pc = "idle"]
     /\ UNCHANGED <<vars, handler_type_, refused>>

(* The metrics lines after async_write: res.result_int() and the        *)
(* session's address are read, and dispatcher_->get_handler_type() -- the *)
(* 400 path logs "ErrorHandler" instead; then the worker returns to      *)
(* io_service::run.                                                        *)
Metrics(w) ==
  LET s == worker[w].s
  IN /\ worker[w].pc \in {"metrics", "metrics400"}
     /\ logged' = [logged EXCEPT ![s] = MetricsType(w)]
     /\ worker' = [worker EXCEPT ![w] = Idle]
     /\ UNCHANGED <<vars, handler_type_, refused>>

(* The other completion handlers, each run whole by a free worker. *)
Callback(w, s) ==
  /\ Free(w)
  /\ \/ HandleReadError(s)
     \/ HandleWriteOk(s)
     \/ HandleWriteError(s)
  /\ UNCHANGED <<worker, handler_type_, logged, refused>>

SNext ==
  \E w \in Workers :
    \/ Handle(w)
    \/ Metrics(w)
    \/ \E s \in Conns : Accept(w, s) \/ AcceptError(w, s) \/ ReadOk(w, s)
                       \/ Callback(w, s)

(* io_service::run: a free thread takes any ready completion handler, and *)
(* a thread inside handle_request runs on.  Errors are not forced.         *)
SFairness ==
  /\ \A w \in Workers : WF_svars(Handle(w)) /\ WF_svars(Metrics(w))
  /\ \A s \in Conns :
       /\ WF_svars(\E w \in Workers : Accept(w, s))
       /\ WF_svars(\E w \in Workers : ReadOk(w, s))
       /\ WF_svars(\E w \in Workers : Free(w) /\ HandleWriteOk(s)
                                       /\ UNCHANGED <<worker, handler_type_,
                                                      logged, refused>>)

SSpec == SInit /\ [][SNext]_svars /\ SFairness

-----------------------------------------------------------------------------
STypeOK ==
  /\ TypeOK
  /\ \A w \in Workers :
       \/ worker[w] = Idle
       \/ worker[w] \in [s : Conns, pc : {"handler", "metrics", "metrics400"}]
  /\ refused \in [Conns -> BOOLEAN]

(* Every client whose whole request has arrived is answered (or dropped   *)
(* on a socket error): the acceptor keeps accepting while descriptors     *)
(* remain, and the pool runs every session's ready completion handlers.   *)
EveryClientAnswered ==
  \A s \in Conns : Complete(msg[s]) => <>(sess[s] \in {"shutdown", "freed"})

(* Every client that has been accepted and has sent its whole request is  *)
(* answered (or dropped on a socket error): the pool runs every accepted  *)
(* session's ready completion handlers, whatever the other sessions do.   *)
AcceptedClientAnswered ==
  \A s \in Conns :
    Complete(msg[s]) => (sess[s] = "reading" ~> sess[s] \in {"shutdown", "freed"})

(* The metrics line of a request logs the type of the handler that served *)
(* that request (the shared handler_type_ is read after dispatch()).      *)
LoggedOwnHandlerType ==
  \A s \in Conns : logged[s] # "none" => logged[s] = msg[s].kind

(* handle_request never touches its session after the session has been   *)
(* deleted: no worker is still inside handle_request of a freed session.  *)
NoUseAfterFree ==
  \A w \in Workers : ~Free(w) => sess[worker[w].s] # "freed"
=============================================================================
