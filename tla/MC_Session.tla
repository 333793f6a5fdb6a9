---------------------------- MODULE MC_Session ----------------------------
(***************************************************************************)
(* Model-checking instance of Session: the requests a client may send.    *)
(* The header block is one header byte and the CRLFCRLF terminator, so    *)
(* with ReadMax = 6 it can arrive whole in the first read or split at any *)
(* byte, the terminator itself included.                                  *)
(***************************************************************************)
EXTENDS Session

Hdr == <<"h", "CR", "LF", "CR", "LF">>

\* GET with no Content-Length and no body.
ReqGet == [bytes |-> Hdr, verdict |-> "ok", cl |-> NoContentLength]
\* POST with Content-Length: 2 and its two body bytes.
ReqPost == [bytes |-> Hdr \o <<"b", "b">>, verdict |-> "ok", cl |-> 2]
\* POST with Content-Length: 1 followed by one more byte on the wire.
ReqOvershoot == [bytes |-> Hdr \o <<"b", "b">>, verdict |-> "ok", cl |-> 1]
\* A start line beast rejects ("GET /echo asdf").
ReqMalformed == [bytes |-> Hdr, verdict |-> "malformed", cl |-> NoContentLength]
\* POST with Content-Length: 2 whose client stalls after one body byte.
ReqStalled == [bytes |-> Hdr \o <<"b">>, verdict |-> "ok", cl |-> 2]
\* POST with Content-Length: 2 whose body holds a zero byte.
ReqNulBody == [bytes |-> Hdr \o <<"NUL", "b">>, verdict |-> "ok", cl |-> 2]
\* POST with Content-Length: 1 and its one body byte.
ReqPostOne == [bytes |-> Hdr \o <<"b">>, verdict |-> "ok", cl |-> 1]

MCRequests == {ReqGet, ReqPost, ReqOvershoot, ReqMalformed, ReqStalled}
MCRequestsExact == {ReqGet, ReqPost, ReqPostOne}
MCRequestsNul == {ReqNulBody}
=============================================================================
