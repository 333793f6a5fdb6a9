----------------------------- MODULE FileSystem -----------------------------
(***************************************************************************)
(* The filesystem capability the CRUD handler depends on (spec.md 4, the  *)
(* handler contract; the FileSystem interface of src/include/filesystem.h):*)
(* exists, is-regular-file, is-directory, read-whole-file, list-directory- *)
(* entries, write-whole-file (create-or-overwrite, creating parent         *)
(* directories as needed) and remove (recursive for directories); each     *)
(* operation clears or sets one "last error" slot, which err() returns    *)
(* once.                                                                   *)
(*                                                                         *)
(* A path is a sequence of names below a root that always exists.  Where  *)
(* the spec says nothing -- the slot after a query, after listing what is *)
(* not a directory, after removing what is not there -- either value is   *)
(* allowed.                                                                 *)
(***************************************************************************)
EXTENDS Sequences, SequencesExt, Functions

CONSTANTS Paths,   \* the paths the caller names
          Bodies   \* the contents written

Empty == ""        \* the empty string read-whole-file returns on failure

VARIABLES tree,    \* path -> [type |-> "file" | "dir", body]
          err_,    \* the last-error slot
          call,    \* the last operation, [op, path]
          ret      \* what it returned

vars == <<tree, err_, call, ret>>

Parent(p) == Front(p)

(* The proper ancestors of p below the root. *)
Ancestors(p) == {SubSeq(p, 1, n) : n \in 1..Len(p) - 1}

IsFile(t, p) == p \in DOMAIN t /\ t[p].type = "file"
IsDir(t, p) == p \in DOMAIN t /\ t[p].type = "dir"

Children(t, p) == {q[Len(q)] : q \in {q \in DOMAIN t : Len(q) > 0 /\ Parent(q) = p}}

Subtree(t, p) == {q \in DOMAIN t : IsPrefix(p, q)}

Dir == [type |-> "dir", body |-> Empty]

Init ==
  /\ tree = [p \in {} |-> Dir]
  /\ err_ = FALSE
  /\ call = [op |-> "none", path |-> <<>>]
  /\ ret = FALSE

Return(op, p, r) == call' = [op |-> op, path |-> p] /\ ret' = r

Query(op, p, r) ==
  /\ Return(op, p, r)
  /\ err_' \in BOOLEAN
  /\ UNCHANGED tree

Exists(p) == Query("exists", p, p \in DOMAIN tree)

IsRegularFile(p) == Query("is_regular_file", p, IsFile(tree, p))

IsDirectory(p) == Query("is_directory", p, IsDir(tree, p))

(* read-whole-file: the contents of a regular file; anything else fails. *)
Get(p) ==
  /\ IF IsFile(tree, p) THEN Return("get", p, tree[p].body) /\ err_' = FALSE
     ELSE Return("get", p, Empty) /\ err_' = TRUE
  /\ UNCHANGED tree

(* list-directory-entries: the names of a directory's children; listing  *)
(* what does not exist fails.                                              *)
ListDir(p) ==
  /\ CASE IsDir(tree, p) -> Return("list_dir", p, Children(tree, p)) /\ err_' = FALSE
       [] p \notin DOMAIN tree -> Return("list_dir", p, {}) /\ err_' = TRUE
       [] OTHER -> Return("list_dir", p, {}) /\ err_' \in BOOLEAN
  /\ UNCHANGED tree

(* write-whole-file: create or overwrite a regular file, creating the     *)
(* missing parent directories; it fails, changing nothing, when the path  *)
(* is a directory or lies below a regular file.                           *)
Write(p, body) ==
  IF IsDir(tree, p) \/ \E a \in Ancestors(p) : IsFile(tree, a)
  THEN Return("write", p, FALSE) /\ err_' = TRUE /\ UNCHANGED tree
  ELSE /\ tree' = (p :> [type |-> "file", body |-> body])
                  @@ [a \in Ancestors(p) \ DOMAIN tree |-> Dir] @@ tree
       /\ Return("write", p, TRUE)
       /\ err_' = FALSE

(* remove: the node and, for a directory, everything below it. *)
RemoveAll(p) ==
  IF p \in DOMAIN tree
  THEN /\ tree' = Restrict(tree, DOMAIN tree \ Subtree(tree, p))
       /\ Return("remove", p, TRUE)
       /\ err_' = FALSE
  ELSE Return("remove", p, FALSE) /\ err_' \in BOOLEAN /\ UNCHANGED tree

(* err(): the slot, which is cleared. *)
Err == Return("err", <<>>, err_) /\ err_' = FALSE /\ UNCHANGED tree

Next ==
  \/ \E p \in Paths :
       \/ Exists(p) \/ IsRegularFile(p) \/ IsDirectory(p)
       \/ Get(p) \/ ListDir(p) \/ RemoveAll(p)
       \/ \E b \in Bodies : Write(p, b)
  \/ Err

Spec == Init /\ [][Next]_vars
=============================================================================
