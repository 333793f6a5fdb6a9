\* One client sending up to six requests of every method, with canonical
\* and invalid ids, on the disk and the fake filesystem.  Once its requests
\* are sent the client stops: deadlock is not an error here.
CONSTANTS
  Clients = {c1}
  Ids <- IdCanonical
  Impls = {"disk", "fake"}
  MaxOps = 6
SPECIFICATION Spec
INVARIANT TypeOK
PROPERTY CrudStoreSpec
CHECK_DEADLOCK FALSE
