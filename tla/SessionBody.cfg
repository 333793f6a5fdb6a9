\* Requests whose bytes all arrive, split across reads at any byte.
CONSTANTS
  Conns = {c1}
  Requests <- MCRequestsExact
  ReadMax = 6
  UninitBuffer = FALSE
SPECIFICATION Spec
INVARIANT DispatchedBodyIsDeclaredBody
CHECK_DEADLOCK FALSE
