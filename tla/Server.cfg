\* Three clients, two workers, two descriptors: both workers can be inside
\* handle_request at once, and the third client meets a full descriptor
\* table.  Reads deliver one byte each, which gives the most points at which
\* the sessions' callbacks interleave (how one session reassembles
\* fragments is checked in Session.cfg).  Once every accepted client is
\* done the server only waits for connections: deadlock is not an error.
CONSTANTS
  Conns = {c1, c2, c3}
  Workers = {w1, w2}
  MaxFds = 2
  Requests <- MCRequestsServe
  ReadMax = 1
  UninitBuffer = FALSE
SPECIFICATION SSpec
INVARIANT STypeOK
PROPERTY ConnectionSpec
PROPERTY AcceptedClientAnswered
CHECK_DEADLOCK FALSE
