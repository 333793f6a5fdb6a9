----------------------------- MODULE Connection -----------------------------
(***************************************************************************)
(* What a connection promises (spec.md 4.5 and 6): the server reads one    *)
(* request, answers it exactly once -- with 400 when the request does not  *)
(* parse and with the routed handler's response otherwise -- and then the  *)
(* connection is over.  It may end early, without an answer, on a socket   *)
(* error.  No keep-alive: nothing happens on a connection after it closes. *)
(***************************************************************************)
EXTENDS Naturals

CONSTANTS Conns,     \* the connections (model values)
          Requests   \* the requests a client may send (see Session)

VARIABLES msg,       \* the request each client sends
          conn,      \* "new", "open", "answered" or "closed"
          answer     \* "none", "400" or "handler"

vars == <<msg, conn, answer>>

Verdict(m) == IF m.verdict = "malformed" THEN "400" ELSE "handler"

Init ==
  /\ msg \in [Conns -> Requests]
  /\ conn = [s \in Conns |-> "new"]
  /\ answer = [s \in Conns |-> "none"]

Open(s) ==
  /\ conn[s] = "new"
  /\ conn' = [conn EXCEPT ![s] = "open"]
  /\ UNCHANGED <<msg, answer>>

Respond(s) ==
  /\ conn[s] = "open"
  /\ conn' = [conn EXCEPT ![s] = "answered"]
  /\ answer' = [answer EXCEPT ![s] = Verdict(msg[s])]
  /\ UNCHANGED msg

Close(s) ==
  /\ conn[s] \in {"open", "answered"}
  /\ conn' = [conn EXCEPT ![s] = "closed"]
  /\ UNCHANGED <<msg, answer>>

Next == \E s \in Conns : Open(s) \/ Respond(s) \/ Close(s)

Spec == Init /\ [][Next]_vars
=============================================================================
