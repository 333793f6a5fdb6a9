----------------------------- MODULE MC_Server -----------------------------
(* Server with a few clients and a small pool: each client sends a GET    *)
(* whose target routes to a handler kind, or a request that does not     *)
(* parse.                                                                 *)
EXTENDS Server

Get == <<"CR", "LF", "CR", "LF">>

ReqEcho == [bytes |-> Get, verdict |-> "ok", cl |-> NoContentLength,
            kind |-> "EchoHandler"]
ReqStatic == [bytes |-> Get, verdict |-> "ok", cl |-> NoContentLength,
              kind |-> "StaticHandler"]
ReqNotFound == [bytes |-> Get, verdict |-> "ok", cl |-> NoContentLength,
                kind |-> "ErrorHandler"]
ReqMalformed == [bytes |-> Get, verdict |-> "malformed", cl |-> NoContentLength,
                 kind |-> "ErrorHandler"]

MCRequests == {ReqEcho, ReqNotFound, ReqMalformed}
MCRequestsServe == {ReqEcho, ReqMalformed}
MCRequestsRouted == {ReqEcho, ReqStatic}
=============================================================================
