\* Two clients, two workers; reads of one to five bytes.
CONSTANTS
  Conns = {c1, c2}
  Workers = {w1, w2}
  MaxFds = 2
  Requests <- MCRequestsRouted
  ReadMax = 5
  UninitBuffer = FALSE
SPECIFICATION SSpec
INVARIANT LoggedOwnHandlerType
CHECK_DEADLOCK FALSE
