\* Two clients, two workers, one descriptor; reads of one to five bytes.
CONSTANTS
  Conns = {c1, c2}
  Workers = {w1, w2}
  MaxFds = 1
  Requests <- MCRequests
  ReadMax = 5
  UninitBuffer = FALSE
SPECIFICATION SSpec
PROPERTY EveryClientAnswered
CHECK_DEADLOCK FALSE
