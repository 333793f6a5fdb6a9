-------------------------- MODULE MC_FileSystems --------------------------
(* FileSystem calls on every path of at most two names over two names,   *)
(* so that one path can be the parent of another, a regular file can     *)
(* stand where a directory is needed, and a directory can have two        *)
(* children.                                                               *)
EXTENDS FileSystems

MCPaths == BoundedSeq({"a", "b"}, 2) \ {<<>>}
=============================================================================
