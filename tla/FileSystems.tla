---------------------------- MODULE FileSystems ----------------------------
(***************************************************************************)
(* The two FileSystem implementations, one call at a time (each handler   *)
(* owns its FileSystem object): DiskFileSystem (src/src/filesystem_disk.cc,*)
(* over boost::filesystem on Linux) and FakeFileSystem                     *)
(* (src/src/filesystem_fake.cc, the map the unit tests use).  Both are     *)
(* represented by a map from path to entry, the fake's files_ and the      *)
(* disk's directory tree, and ec_, the error slot err() consumes.          *)
(*                                                                         *)
(* Paths are sequences of names below the data directory, as the CRUD     *)
(* handler builds them; they are already in the form __fake::resolve       *)
(* gives (absolute, lexically normal, no trailing '/').  The ancestors    *)
(* above the data directory exist on the disk; the fake adds them with    *)
(* its first write, and no caller names them.                              *)
(***************************************************************************)
EXTENDS Sequences, SequencesExt, Functions

CONSTANTS Impls,   \* the implementations: "disk", "fake"
          Paths,   \* the paths the caller names
          Bodies   \* the contents written

Empty == ""

VARIABLES impl,    \* the implementation the caller was given
          files_,  \* path -> __fake::File [type, body] / the disk's nodes
          ec_,     \* the error_code member: set (TRUE) or clear
          call,    \* the last call, [op, path]
          ret      \* its return value

vars == <<impl, files_, ec_, call, ret>>

Parent(p) == Front(p)
Ancestors(p) == {SubSeq(p, 1, n) : n \in 1..Len(p) - 1}
IsFile(p) == p \in DOMAIN files_ /\ files_[p].type = "file"
IsDir(p) == p \in DOMAIN files_ /\ files_[p].type = "dir"
Dir == [type |-> "dir", body |-> Empty]
File(body) == [type |-> "file", body |-> body]

(* The names of the entries whose parent path is p. *)
Children(p) == {q[Len(q)] : q \in {q \in DOMAIN files_ : Parent(q) = p}}

(* The entries p and every entry whose path starts with p's segments. *)
Subtree(p) == {q \in DOMAIN files_ : IsPrefix(p, q)}

Return(op, p, r) == call' = [op |-> op, path |-> p] /\ ret' = r

(* A call that leaves the tree as it is. *)
Look(op, p, r) == Return(op, p, r) /\ UNCHANGED files_

Init ==
  /\ impl \in Impls
  /\ files_ = [p \in {} |-> Dir]
  /\ ec_ = FALSE
  /\ call = [op |-> "none", path |-> <<>>]
  /\ ret = FALSE

-----------------------------------------------------------------------------
(* DiskFileSystem.  fs::exists(p, ec_) and fs::is_*(p, ec_) clear ec_ for *)
(* a path that is missing or lies below a regular file (ENOENT and ENOTDIR *)
(* are "not found"); fs::canonical sets it for a missing path.             *)

DiskExists(p) == Look("exists", p, p \in DOMAIN files_) /\ ec_' = FALSE

DiskIsRegularFile(p) == Look("is_regular_file", p, IsFile(p)) /\ ec_' = FALSE

DiskIsDirectory(p) == Look("is_directory", p, IsDir(p)) /\ ec_' = FALSE

(* canonical, then fs::ifstream: a directory opens (fopen on Linux) and   *)
(* reading it yields nothing, so "" is returned with ec_ clear.            *)
DiskGet(p) ==
  CASE p \notin DOMAIN files_ -> Look("get", p, Empty) /\ ec_' = TRUE
    [] OTHER -> Look("get", p, files_[p].body) /\ ec_' = FALSE

(* canonical, then the entries of a directory; nothing for a file. *)
DiskListDir(p) ==
  CASE p \notin DOMAIN files_ -> Look("list_dir", p, {}) /\ ec_' = TRUE
    [] IsDir(p) -> Look("list_dir", p, Children(p)) /\ ec_' = FALSE
    [] OTHER -> Look("list_dir", p, {}) /\ ec_' = FALSE

(* An existing path is opened out|trunc: a regular file is overwritten;   *)
(* a directory does not open and write returns false with ec_ clear.      *)
(* A new path: create_directories of its parent fails below a regular     *)
(* file, else the file is created.                                         *)
DiskWrite(p, body) ==
  CASE IsFile(p) -> /\ files_' = [files_ EXCEPT ![p] = File(body)]
                    /\ Return("write", p, TRUE) /\ ec_' = FALSE
    [] IsDir(p) -> Look("write", p, FALSE) /\ ec_' = FALSE
    [] \E a \in Ancestors(p) : IsFile(a) -> Look("write", p, FALSE) /\ ec_' = TRUE
    [] OTHER -> /\ files_' = (p :> File(body))
                             @@ [a \in Ancestors(p) \ DOMAIN files_ |-> Dir] @@ files_
                /\ Return("write", p, TRUE) /\ ec_' = FALSE

(* canonical fails on a missing path; else remove_all of the subtree. *)
DiskRemove(p) ==
  IF p \notin DOMAIN files_
  THEN Look("remove", p, FALSE) /\ ec_' = TRUE
  ELSE /\ files_' = Restrict(files_, DOMAIN files_ \ Subtree(p))
       /\ Return("remove", p, TRUE) /\ ec_' = FALSE

-----------------------------------------------------------------------------
(* FakeFileSystem: lookups in files_. *)

(* exists() does not touch ec_. *)
FakeExists(p) == Look("exists", p, p \in DOMAIN files_) /\ UNCHANGED ec_

(* is_regular_file / is_directory: no_such_file_or_directory when missing. *)
FakeIsType(op, p, type) ==
  IF p \notin DOMAIN files_ THEN Look(op, p, FALSE) /\ ec_' = TRUE
  ELSE Look(op, p, files_[p].type = type) /\ ec_' = FALSE

(* get: the entry's contents_, a directory's included (""). *)
FakeGet(p) ==
  IF p \in DOMAIN files_ THEN Look("get", p, files_[p].body) /\ ec_' = FALSE
  ELSE Look("get", p, Empty) /\ ec_' = TRUE

(* list_dir: the names of every entry whose parent_path is p, whatever p is. *)
FakeListDir(p) ==
  /\ Look("list_dir", p, Children(p))
  /\ ec_' = FALSE

(* write: every ancestor that does not exist becomes a Directory entry     *)
(* (one that exists is left as it is), then files_[abspath] is a          *)
(* RegularFile; it never fails.                                            *)
FakeWrite(p, body) ==
  /\ files_' = (p :> File(body)) @@ [a \in Ancestors(p) \ DOMAIN files_ |-> Dir] @@ files_
  /\ Return("write", p, TRUE)
  /\ ec_' = FALSE

(* remove: nothing to remove (false, ec_ clear); a regular file is erased; *)
(* a directory is erased with every entry whose path starts with its       *)
(* segments (the segment-by-segment loop).                                 *)
FakeRemove(p) ==
  /\ CASE p \notin DOMAIN files_ -> Look("remove", p, FALSE)
       [] IsFile(p) -> files_' = Restrict(files_, DOMAIN files_ \ {p}) /\ Return("remove", p, TRUE)
       [] OTHER -> files_' = Restrict(files_, DOMAIN files_ \ Subtree(p)) /\ Return("remove", p, TRUE)
  /\ ec_' = FALSE

(* err(), the same in both: the code is returned and cleared. *)
Err == Look("err", <<>>, ec_) /\ ec_' = FALSE

-----------------------------------------------------------------------------
Disk(p) ==
  \/ DiskExists(p) \/ DiskIsRegularFile(p) \/ DiskIsDirectory(p)
  \/ DiskGet(p) \/ DiskListDir(p)
  \/ \E b \in Bodies : DiskWrite(p, b)
  \/ DiskRemove(p)

Fake(p) ==
  \/ FakeExists(p)
  \/ FakeIsType("is_regular_file", p, "file") \/ FakeIsType("is_directory", p, "dir")
  \/ FakeGet(p) \/ FakeListDir(p)
  \/ \E b \in Bodies : FakeWrite(p, b)
  \/ FakeRemove(p)

Next ==
  /\ UNCHANGED impl
  /\ \/ \E p \in Paths : IF impl = "disk" THEN Disk(p) ELSE Fake(p)
     \/ Err

Spec == Init /\ [][Next]_vars

-----------------------------------------------------------------------------
(* Each implementation keeps the contract of spec.md 4 for every sequence *)
(* of calls: what each call returns, what it does to the tree and whether *)
(* it sets the error slot err() reports -- in particular a write or a      *)
(* read that does not happen sets the slot, and a write never puts an     *)
(* entry below a regular file.                                             *)
Contract == INSTANCE FileSystem WITH tree <- files_, err_ <- ec_

FsContract == Contract!Spec
=============================================================================
