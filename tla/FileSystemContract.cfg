\* DiskFileSystem, driven by any sequence of calls, against the contract.
CONSTANTS
  Impls = {"disk"}
  Paths <- MCPaths
  Bodies = {"x", "y"}
SPECIFICATION Spec
PROPERTY FsContract
CHECK_DEADLOCK FALSE
