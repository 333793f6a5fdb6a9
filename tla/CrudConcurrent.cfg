\* Two clients on two workers, each sending up to two requests: the
\* handler against the atomic store of CrudStore.
CONSTANTS
  Clients = {c1, c2}
  Ids <- IdCanonical
  Impls = {"disk"}
  MaxOps = 2
SPECIFICATION Spec
PROPERTY CrudStoreSpec
CHECK_DEADLOCK FALSE
