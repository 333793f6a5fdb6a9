------------------------------ MODULE Session ------------------------------
(***************************************************************************)
(* The per-connection state machine of src/src/session.cc: start() arms a *)
(* read, handle_read()/handle_request() reassemble one HTTP request out of *)
(* the fragments async_read_some delivers, and either answer 400 or        *)
(* dispatch it, and handle_write() ends the connection.                    *)
(*                                                                         *)
(* Bytes are abstracted to a small alphabet: "h" a header byte, "CR" and   *)
(* "LF", "b" a body byte, "NUL" a zero byte and "j" a non-zero byte that   *)
(* was not received (memory read past the bytes transferred).  Whether the *)
(* header block parses is a property of the request the client sends      *)
(* (field verdict); its Content-Length is field cl.                        *)
(***************************************************************************)
EXTENDS Integers, Sequences, SequencesExt

CONSTANTS Conns,         \* the sessions (model values)
          Requests,      \* the requests a client may send
          ReadMax,       \* max_length: the size of data_ (1024 in the code)
          UninitBuffer   \* may unread bytes of data_ be non-zero?

NoContentLength == -1
Terminator == <<"CR", "LF", "CR", "LF">>
Bytes == {"h", "CR", "LF", "b", "NUL", "j"}

ASSUME /\ ReadMax \in Nat \ {0}
       /\ UninitBuffer \in BOOLEAN
       /\ \A m \in Requests :
            /\ m.bytes \in Seq(Bytes \ {"j"})
            /\ m.verdict \in {"ok", "malformed"}
            /\ m.cl \in Nat \cup {NoContentLength}

VARIABLES msg,            \* the request the client of each session sends
          sess,           \* "new", "reading", "dispatched", "writing",
                          \* "shutdown", "freed"
          consumed,       \* bytes of msg delivered by reads so far
          request,        \* session::request, the accumulation buffer
          body_,          \* session::body_
          headers_done_,  \* session::headers_done_
          body_done_,     \* session::body_done_
          content_left_,  \* session::content_left_
          res,            \* the response written: "none", "400", "handler"
          handled         \* the body handed to the request handler

vars == <<msg, sess, consumed, request, body_, headers_done_, body_done_,
          content_left_, res, handled>>

(* The index of the first CRLFCRLF in r (request.find), 0 if absent. *)
FindCRLF(r) ==
  LET at == {i \in 1..(Len(r) - 3) : SubSeq(r, i, i + 3) = Terminator}
  IN IF at = {} THEN 0 ELSE Min(at)

(* std::string(data_): the bytes of the buffer up to its first zero byte. *)
CString(buf) ==
  LET nul == {i \in DOMAIN buf : buf[i] = "NUL"}
  IN IF nul = {} THEN buf ELSE SubSeq(buf, 1, Min(nul) - 1)

HeaderLen(m) == FindCRLF(m.bytes) + 3
HeaderOf(m) == SubSeq(m.bytes, 1, HeaderLen(m))
DeclaredBody(m) ==
  IF m.cl = NoContentLength THEN <<>>
  ELSE SubSeq(m.bytes, HeaderLen(m) + 1, HeaderLen(m) + m.cl)
(* The client has sent every byte the request declares. *)
Complete(m) ==
  /\ FindCRLF(m.bytes) # 0
  /\ m.cl # NoContentLength => Len(m.bytes) >= HeaderLen(m) + m.cl

(* What the read leaves beyond the bytes transferred: data_ is not       *)
(* initialised before the first read, and a read that fills all of it    *)
(* leaves no terminating zero, so std::string(data_) reads on.  Later    *)
(* short reads follow memset(data_, '\0', max_length).                   *)
Beyond(s, k) ==
  IF UninitBuffer /\ (consumed[s] = 0 \/ k = ReadMax)
  THEN {<<>>, <<"j">>} ELSE {<<>>}

(* parser_.put(headers): the client's own header block parses as its     *)
(* verdict says; a block altered by stray bytes may or may not parse.    *)
ParseOutcomes(s, hdr) ==
  IF hdr = HeaderOf(msg[s]) THEN {msg[s].verdict = "ok"} ELSE BOOLEAN

-----------------------------------------------------------------------------
Init ==
  /\ msg \in [Conns -> Requests]
  /\ sess = [s \in Conns |-> "new"]
  /\ consumed = [s \in Conns |-> 0]
  /\ request = [s \in Conns |-> <<>>]
  /\ body_ = [s \in Conns |-> <<>>]
  /\ headers_done_ = [s \in Conns |-> FALSE]
  /\ body_done_ = [s \in Conns |-> FALSE]
  /\ content_left_ = [s \in Conns |-> 0]
  /\ res = [s \in Conns |-> "none"]
  /\ handled = [s \in Conns |-> <<>>]

(* session::start: the request is emptied and the first read armed. *)
Start(s) ==
  /\ sess[s] = "new"
  /\ sess' = [sess EXCEPT ![s] = "reading"]
  /\ request' = [request EXCEPT ![s] = <<>>]
  /\ UNCHANGED <<msg, consumed, body_, headers_done_, body_done_,
                 content_left_, res, handled>>

(* Variant: content_left_ += body_part.size() *)
ConsumeWrongSign(left, part) == left + Len(part)

(* content_left_ -= body_part.size() *)
Consume(left, part) == left - Len(part)

(* Variant: content_left_ < 0 *)
BodyCompleteStrict(left) == left < 0

(* content_left_ <= 0 *)
BodyComplete(left) == left <= 0

(* The 400 branch of handle_request: the response is written and the     *)
(* function returns; no further read is armed.                          *)
Reply400(s) ==
  /\ headers_done_' = [headers_done_ EXCEPT ![s] = TRUE]
  /\ res' = [res EXCEPT ![s] = "400"]
  /\ sess' = [sess EXCEPT ![s] = "writing"]
  /\ UNCHANGED <<body_, body_done_, content_left_, handled>>

(* The rest of handle_request once headers are looked at: take the       *)
(* Content-Length, add the body part to body_, and either dispatch and   *)
(* write the response or arm the next read.                              *)
AccumulateBody(s, req, crlf, found, data_copy) ==
  LET hasCL == found /\ msg[s].cl # NoContentLength
      left0 == IF hasCL THEN msg[s].cl ELSE content_left_[s]
      part  == IF hasCL THEN SubSeq(req, crlf + 4, Len(req)) ELSE data_copy
      done0 == body_done_[s] \/ (found /\ ~hasCL)
      hdone == headers_done_[s] \/ found
      body1 == IF done0 THEN body_[s] ELSE body_[s] \o part
      left1 == IF done0 THEN left0 ELSE Consume(left0, part)
      done1 == done0 \/ BodyComplete(left1)
  IN /\ headers_done_' = [headers_done_ EXCEPT ![s] = hdone]
     /\ body_done_' = [body_done_ EXCEPT ![s] = done1]
     /\ body_' = [body_ EXCEPT ![s] = body1]
     /\ content_left_' = [content_left_ EXCEPT ![s] = left1]
     /\ IF hdone /\ done1
        THEN /\ handled' = [handled EXCEPT ![s] = body1]
             /\ sess' = [sess EXCEPT ![s] = "dispatched"]
        ELSE /\ sess' = [sess EXCEPT ![s] = "reading"]
             /\ UNCHANGED handled
     /\ UNCHANGED res

(* Variant: the 400 branch without its return falls through. *)
HandleRequestFallThrough(s, data_copy) ==
  LET req   == request[s] \o data_copy
      crlf  == FindCRLF(req)
      found == ~headers_done_[s] /\ crlf # 0
  IN /\ request' = [request EXCEPT ![s] = req]
     /\ \E parsed \in IF found THEN ParseOutcomes(s, SubSeq(req, 1, crlf + 3))
                      ELSE {TRUE} :
          IF found /\ ~parsed
          THEN LET part == data_copy
                   left1 == Consume(content_left_[s], part)
               IN /\ headers_done_' = [headers_done_ EXCEPT ![s] = TRUE]
                  /\ body_' = [body_ EXCEPT ![s] = @ \o part]
                  /\ content_left_' = [content_left_ EXCEPT ![s] = left1]
                  /\ body_done_' = [body_done_ EXCEPT ![s] = BodyComplete(left1)]
                  /\ res' = [res EXCEPT ![s] = "400"]
                  /\ handled' = [handled EXCEPT ![s] =
                               IF BodyComplete(left1) THEN body_[s] \o part ELSE @]
                  /\ sess' = [sess EXCEPT ![s] =
                               IF BodyComplete(left1) THEN "dispatched" ELSE "writing"]
          ELSE AccumulateBody(s, req, crlf, found, data_copy)

(* session::handle_request: append the bytes read, look for the end of   *)
(* the headers if not yet seen, parse them, then account for the body.   *)
HandleRequest(s, data_copy) ==
  LET req   == request[s] \o data_copy
      crlf  == FindCRLF(req)
      found == ~headers_done_[s] /\ crlf # 0
  IN /\ request' = [request EXCEPT ![s] = req]
     /\ \E parsed \in IF found THEN ParseOutcomes(s, SubSeq(req, 1, crlf + 3))
                      ELSE {TRUE} :
          IF found /\ ~parsed
          THEN Reply400(s)
          ELSE AccumulateBody(s, req, crlf, found, data_copy)

(* handle_read without error: async_read_some delivered k bytes. *)
HandleReadOk(s) ==
  /\ sess[s] = "reading"
  /\ \E k \in 1..ReadMax :
       /\ consumed[s] + k <= Len(msg[s].bytes)
       /\ consumed' = [consumed EXCEPT ![s] = @ + k]
       /\ \E extra \in Beyond(s, k) :
            HandleRequest(s, CString(SubSeq(msg[s].bytes, consumed[s] + 1,
                                            consumed[s] + k) \o extra))
  /\ UNCHANGED msg

(* The end of handle_request after dispatcher_->dispatch(): the handler  *)
(* runs on the request, is deleted, the response is written with         *)
(* async_write, and get_handler_type() is logged.  It is a step of its    *)
(* own because the dispatcher is shared: other workers' callbacks run     *)
(* between dispatch() and get_handler_type() (see Server).                *)
RunHandler(s) ==
  /\ sess[s] = "dispatched"
  /\ sess' = [sess EXCEPT ![s] = "writing"]
  /\ res' = [res EXCEPT ![s] = "handler"]
  /\ UNCHANGED <<msg, consumed, request, body_, headers_done_, body_done_,
                 content_left_, handled>>

(* handle_read with an error (peer closed or reset): delete this. *)
HandleReadError(s) ==
  /\ sess[s] = "reading"
  /\ sess' = [sess EXCEPT ![s] = "freed"]
  /\ UNCHANGED <<msg, consumed, request, body_, headers_done_, body_done_,
                 content_left_, res, handled>>

(* handle_write without error: the socket is shut down; the session     *)
(* object is not deleted.                                                *)
HandleWriteOk(s) ==
  /\ sess[s] = "writing"
  /\ sess' = [sess EXCEPT ![s] = "shutdown"]
  /\ UNCHANGED <<msg, consumed, request, body_, headers_done_, body_done_,
                 content_left_, res, handled>>

(* handle_write with an error: delete this. *)
HandleWriteError(s) ==
  /\ sess[s] = "writing"
  /\ sess' = [sess EXCEPT ![s] = "freed"]
  /\ UNCHANGED <<msg, consumed, request, body_, headers_done_, body_done_,
                 content_left_, res, handled>>

Next ==
  \E s \in Conns :
    \/ Start(s)
    \/ HandleReadOk(s)
    \/ HandleReadError(s)
    \/ RunHandler(s)
    \/ HandleWriteOk(s)
    \/ HandleWriteError(s)

(* The reactor runs every ready completion handler eventually: a read    *)
(* with bytes waiting completes, a write completes.  Errors are not     *)
(* forced.                                                               *)
Fairness ==
  \A s \in Conns : /\ WF_vars(Start(s))
                   /\ WF_vars(HandleReadOk(s))
                   /\ WF_vars(RunHandler(s))
                   /\ WF_vars(HandleWriteOk(s))

Spec == Init /\ [][Next]_vars /\ Fairness

-----------------------------------------------------------------------------
MaxLen == Max({Len(m.bytes) : m \in Requests} \cup {0})
MaxCL == Max({m.cl : m \in Requests} \cup {0})

TypeOK ==
  /\ msg \in [Conns -> Requests]
  /\ sess \in [Conns -> {"new", "reading", "dispatched", "writing", "shutdown",
                         "freed"}]
  /\ consumed \in [Conns -> 0..MaxLen]
  /\ \A s \in Conns :
       /\ request[s] \in Seq(Bytes) /\ body_[s] \in Seq(Bytes)
       /\ handled[s] \in Seq(Bytes)
  /\ headers_done_ \in [Conns -> BOOLEAN]
  /\ body_done_ \in [Conns -> BOOLEAN]
  /\ content_left_ \in [Conns -> (-(MaxLen + 1))..MaxCL]
  /\ res \in [Conns -> {"none", "400", "handler"}]

(* Refinement: every session behaves as a Connection -- answered at most  *)
(* once, 400 exactly for a request that does not parse, the handler's     *)
(* response otherwise, and never read from again once answered.          *)
ConnState(st) ==
  CASE st = "new" -> "new"
    [] st \in {"reading", "dispatched"} -> "open"
    [] st = "writing" -> "answered"
    [] st \in {"shutdown", "freed"} -> "closed"

Abstract == INSTANCE Connection
              WITH conn <- [s \in Conns |-> ConnState(sess[s])],
                   answer <- res

ConnectionSpec == Abstract!Spec

(* Liveness: a client that has sent its whole request (every byte its    *)
(* Content-Length declares) and waits is eventually answered, or its    *)
(* connection dropped on an error -- the session never waits forever for *)
(* bytes that have already arrived.                                      *)
CompleteRequestAnswered ==
  \A s \in Conns :
    Complete(msg[s]) => <>(sess[s] \in {"shutdown", "freed"})

(* handle_request hands the handler exactly the body the request         *)
(* declares: its Content-Length bytes after the headers (spec.md 4.5 and *)
(* 8), however the bytes were split across reads.                        *)
DispatchedBodyIsDeclaredBody ==
  \A s \in Conns : sess[s] = "dispatched" => handled[s] = DeclaredBody(msg[s])

(* session::request holds exactly the bytes received so far. *)
RequestIsReceivedBytes ==
  \A s \in Conns : request[s] = SubSeq(msg[s].bytes, 1, consumed[s])
=============================================================================
