\* One session per client request shape; reads of 1..6 bytes; the bytes
\* past those transferred read as zero.  A finished session waits for
\* nothing, so the model stops: deadlock is not an error here.
CONSTANTS
  Conns = {c1}
  Requests <- MCRequests
  ReadMax = 6
  UninitBuffer = FALSE
SPECIFICATION Spec
INVARIANT TypeOK
PROPERTY ConnectionSpec
PROPERTY CompleteRequestAnswered
CHECK_DEADLOCK FALSE
