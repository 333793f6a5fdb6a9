------------------------------- MODULE Crud -------------------------------
(***************************************************************************)
(* CrudHandler (src/src/request_handler_crud.cc) on one entity type: the   *)
(* directory data_path/<type> of a DiskFileSystem, shared by every worker  *)
(* that runs a CRUD request.  Each handler is built per request with its   *)
(* own DiskFileSystem, and nothing serialises handlers: a handler's        *)
(* filesystem calls are separate steps, and the steps of handlers on       *)
(* different workers interleave.  POST is cut once, after               *)
(* get_next_available_id (the directory, once made, is never removed);   *)
(* PUT, DELETE and GET are cut at each filesystem call they make.         *)
(*                                                                         *)
(* The filesystem is a DiskFileSystem in the server (CrudHandlerFactory) *)
(* and a FakeFileSystem in the unit tests, which drive one handler with   *)
(* sequential requests; impl is the one the handler was built with.       *)
(*                                                                         *)
(* A file name is a sequence of characters ("0".."9", and "x" for any     *)
(* other character).  A body is the client and its request number.     *)
(***************************************************************************)
EXTENDS Integers, Sequences, SequencesExt, Functions

CONSTANTS Clients,   \* concurrent clients, each on its own worker
          Ids,       \* the entity ids clients name in PUT and DELETE targets
          MaxOps,    \* requests each client sends
          Impls      \* the FileSystem implementations: "disk", "fake"

DigitChars == <<"0", "1", "2", "3", "4", "5", "6", "7", "8", "9">>
IntMax == 2147483647            \* INT_MAX: std::stoi's range
Overflow == -1

Idle == "idle"

VARIABLES impl,       \* the handler's FileSystem: "disk" or "fake"
          dirExists,  \* the entity type's directory exists
          files,      \* the directory's entries: name -> body
          pc,         \* per client: Idle, or the step pending: "post" (the
                      \* write), "put_kind" (is_regular_file), "put_status"
                      \* (exists), "put" (the write), "delete_kind",
                      \* "delete" (remove), "get" (is_regular_file), "read"
                      \* (get)
          pend,       \* per client: the name the pending step targets
          status_,    \* per client: the success status handle_put chose
          ops,        \* per client: requests sent
          resp,       \* per client: the last response, [m, code, val]
          crashed     \* an exception escaped a handler: std::terminate

vars == <<impl, dirExists, files, pc, pend, status_, ops, resp, crashed>>

NoResp == [m |-> "none", code |-> 0, val |-> {}]

(* is_valid_id: regex_match "^[0-9]+$". *)
IsValidId(name) == name # <<>> /\ ToSet(name) \subseteq ToSet(DigitChars)

Digit(ch) == CHOOSE d \in 0..9 : DigitChars[d + 1] = ch

(* std::stoi of a string of digits; Overflow when std::out_of_range. *)
Stoi(name) ==
  FoldLeft(LAMBDA acc, ch :
             IF acc = Overflow \/ acc > (IntMax - Digit(ch)) \div 10
             THEN Overflow ELSE acc * 10 + Digit(ch),
           0, name)

(* std::to_string of a natural number. *)
RECURSIVE ToDigits(_)
ToDigits(n) ==
  IF n < 10 THEN <<DigitChars[n + 1]>>
  ELSE ToDigits(n \div 10) \o <<DigitChars[(n % 10) + 1]>>

(* The while loop: the first n with n >= size or n # entity_ids[n]. *)
RECURSIVE FirstGap(_, _)
FirstGap(ids, n) ==
  IF n < Len(ids) /\ n = ids[n + 1] THEN FirstGap(ids, n + 1) ELSE n

(* The names list_dir returns, filtered by is_valid_id, each converted    *)
(* with std::stoi and sorted (two names may give the same int).           *)
SortedIds(fs) ==
  LET names == SetToSeq({name \in DOMAIN fs : IsValidId(name)})
  IN SortSeq([i \in DOMAIN names |-> Stoi(names[i])], <)

(* get_next_available_id on an existing directory. *)
NextAvailableId(fs) == ToDigits(FirstGap(SortedIds(fs), 0))

IdOverflows(fs) == \E name \in DOMAIN fs : IsValidId(name) /\ Stoi(name) = Overflow

(* DiskFileSystem::write: create the parent directories, then create or  *)
(* truncate the file and write the body.                                   *)
WriteFile(fs, name, body) == (name :> body) @@ fs

(* DiskFileSystem::remove: canonical() fails on a missing path (nothing   *)
(* removed), else remove_all.                                             *)
RemoveFile(fs, name) == Restrict(fs, DOMAIN fs \ {name})

(* DiskFileSystem::remove as [fs, ec]: canonical() sets the error on a     *)
(* missing path; remove_all of a regular file succeeds.                    *)
DiskRemove(fs, name) ==
  IF name \in DOMAIN fs THEN [fs |-> RemoveFile(fs, name), ec |-> FALSE]
  ELSE [fs |-> fs, ec |-> TRUE]

(* Variant: the fake finds the entry but does not erase it. *)
FakeRemoveKeep(fs, name) == [fs |-> fs, ec |-> FALSE]

(* FakeFileSystem::remove: a missing path is "nothing to remove" and      *)
(* clears the error; a regular file is erased.                             *)
FakeRemove(fs, name) == [fs |-> RemoveFile(fs, name), ec |-> FALSE]

(* DiskFileSystem::get as [val, ec]: canonical() fails on a missing path; *)
(* a regular file opens and is read whole.                                 *)
DiskGet(fs, name) ==
  IF name \in DOMAIN fs THEN [val |-> fs[name], ec |-> FALSE]
  ELSE [val |-> Idle, ec |-> TRUE]

(* FakeFileSystem::get: the entry's contents, or "" with the error set. *)
FakeGet(fs, name) ==
  IF name \in DOMAIN fs THEN [val |-> fs[name], ec |-> FALSE]
  ELSE [val |-> Idle, ec |-> TRUE]

FsRemove(fs, name) == IF impl = "disk" THEN DiskRemove(fs, name) ELSE FakeRemove(fs, name)
FsGet(fs, name) == IF impl = "disk" THEN DiskGet(fs, name) ELSE FakeGet(fs, name)

-----------------------------------------------------------------------------
Init ==
  /\ impl \in Impls
  /\ dirExists = FALSE
  /\ files = [n \in {} |-> Idle]
  /\ pc = [c \in Clients |-> Idle]
  /\ pend = [c \in Clients |-> <<>>]
  /\ status_ = [c \in Clients |-> 0]
  /\ ops = [c \in Clients |-> 0]
  /\ resp = [c \in Clients |-> NoResp]
  /\ crashed = FALSE

(* A client sends its next request (bounded by MaxOps). *)
Send(c) ==
  /\ ~crashed
  /\ pc[c] = Idle
  /\ ops[c] < MaxOps
  /\ ops' = [ops EXCEPT ![c] = @ + 1]

(* The body of the request client c is sending. *)
Body(c) == <<c, ops[c]>>

(* The request is answered: the client is idle again with a response. *)
Reply(c, m, code, val) ==
  /\ resp' = [resp EXCEPT ![c] = [m |-> m, code |-> code, val |-> val]]
  /\ pc' = [pc EXCEPT ![c] = Idle]

(* A request answered without touching the directory (an HttpException). *)
Answer(c, m, code) ==
  /\ Reply(c, m, code, {})
  /\ UNCHANGED <<dirExists, files, pend, status_, crashed>>

(* handle_post up to the write: the directory is an entity type (it holds *)
(* only regular files), get_next_available_id lists it -- "0" when it does *)
(* not exist -- and std::stoi on a name out of int range throws            *)
(* std::out_of_range, which no catch (HttpException&) stops.               *)
PostPrepare(c) ==
  /\ Send(c)
  /\ IF dirExists /\ IdOverflows(files)
     THEN /\ crashed' = TRUE
          /\ UNCHANGED <<dirExists, files, pc, pend, status_, resp>>
     ELSE /\ pend' = [pend EXCEPT ![c] =
                        IF dirExists THEN NextAvailableId(files) ELSE <<"0">>]
          /\ pc' = [pc EXCEPT ![c] = "post"]
          /\ UNCHANGED <<dirExists, files, status_, resp, crashed>>

(* Variant: the write does not create the missing directory. *)
PostWriteNoDir(c) ==
  /\ pc[c] = "post"
  /\ files' = WriteFile(files, pend[c], Body(c))
  /\ Reply(c, "POST", 201, {pend[c]})
  /\ UNCHANGED <<dirExists, pend, status_, ops, crashed>>

(* fs_->write(new_entity_filepath, body): creates the directories, then   *)
(* creates or truncates the file; 201 with the id.                          *)
PostWrite(c) ==
  /\ pc[c] = "post"
  /\ files' = WriteFile(files, pend[c], Body(c))
  /\ dirExists' = TRUE
  /\ Reply(c, "POST", 201, {pend[c]})
  /\ UNCHANGED <<pend, status_, ops, crashed>>

(* handle_put up to its checks: 400 for an invalid id; then the first    *)
(* exists() of "exists() && !is_regular_file()".                           *)
PutPrepare(c, id) ==
  /\ Send(c)
  /\ IF IsValidId(id)
     THEN /\ pc' = [pc EXCEPT ![c] = IF id \in DOMAIN files THEN "put_kind"
                                                           ELSE "put_status"]
          /\ pend' = [pend EXCEPT ![c] = id]
          /\ UNCHANGED <<dirExists, files, status_, resp, crashed>>
     ELSE Answer(c, "PUT", 400)

(* is_regular_file() of a path that existed: 400 "not an entity" when it  *)
(* is gone (a regular file is the only kind of entry in the directory).    *)
PutKind(c) ==
  /\ pc[c] = "put_kind"
  /\ IF pend[c] \in DOMAIN files
     THEN pc' = [pc EXCEPT ![c] = "put_status"] /\ UNCHANGED resp
     ELSE Reply(c, "PUT", 400, {})
  /\ UNCHANGED <<dirExists, files, pend, status_, ops, crashed>>

(* success_status: exists() again, 200 if the entity exists, else 201. *)
PutStatus(c) ==
  /\ pc[c] = "put_status"
  /\ status_' = [status_ EXCEPT ![c] = IF pend[c] \in DOMAIN files THEN 200 ELSE 201]
  /\ pc' = [pc EXCEPT ![c] = "put"]
  /\ UNCHANGED <<dirExists, files, pend, ops, resp, crashed>>

(* Variant: the status is taken after the write, which always finds the file. *)
PutWriteStatusAfter(c) ==
  /\ pc[c] = "put"
  /\ files' = WriteFile(files, pend[c], Body(c))
  /\ dirExists' = TRUE
  /\ Reply(c, "PUT", 200, {})
  /\ UNCHANGED <<pend, status_, ops, crashed>>

(* fs_->write(local_file_path, body), then the status chosen before it. *)
PutWrite(c) ==
  /\ pc[c] = "put"
  /\ files' = WriteFile(files, pend[c], Body(c))
  /\ dirExists' = TRUE
  /\ Reply(c, "PUT", status_[c], {})
  /\ UNCHANGED <<pend, status_, ops, crashed>>

(* handle_delete up to its checks: 400 for an invalid id, 404 unless     *)
(* exists().                                                                *)
DeletePrepare(c, id) ==
  /\ Send(c)
  /\ CASE ~IsValidId(id) -> Answer(c, "DELETE", 400)
       [] id \notin DOMAIN files -> Answer(c, "DELETE", 404)
       [] OTHER -> /\ pc' = [pc EXCEPT ![c] = "delete_kind"]
                   /\ pend' = [pend EXCEPT ![c] = id]
                   /\ UNCHANGED <<dirExists, files, status_, resp, crashed>>

(* is_regular_file(): 400 "not an entity" for a file removed since. *)
DeleteKind(c) ==
  /\ pc[c] = "delete_kind"
  /\ IF pend[c] \in DOMAIN files
     THEN pc' = [pc EXCEPT ![c] = "delete"] /\ UNCHANGED resp
     ELSE Reply(c, "DELETE", 400, {})
  /\ UNCHANGED <<dirExists, files, pend, status_, ops, crashed>>

(* fs_->remove: canonical() fails on a file removed in the meantime (500); *)
(* otherwise remove_all deletes it (200).                                    *)
DeleteRemove(c) ==
  /\ pc[c] = "delete"
  /\ LET r == FsRemove(files, pend[c])
     IN files' = r.fs /\ Reply(c, "DELETE", IF r.ec THEN 500 ELSE 200, {})
  /\ UNCHANGED <<dirExists, pend, status_, ops, crashed>>

(* handle_get of an entity, first call: 404 unless exists(). *)
GetPrepare(c, id) ==
  /\ Send(c)
  /\ IF id \in DOMAIN files
     THEN /\ pc' = [pc EXCEPT ![c] = "get"]
          /\ pend' = [pend EXCEPT ![c] = id]
          /\ UNCHANGED <<dirExists, files, status_, resp, crashed>>
     ELSE Answer(c, "GET", 404)

(* is_regular_file(), then is_directory(): a file removed since exists() *)
(* is neither, 400; otherwise the id is checked (its name is valid).       *)
GetKind(c) ==
  /\ pc[c] = "get"
  /\ IF pend[c] \in DOMAIN files
     THEN pc' = [pc EXCEPT ![c] = "read"] /\ UNCHANGED resp
     ELSE Reply(c, "GET", 400, {})
  /\ UNCHANGED <<dirExists, files, pend, status_, ops, crashed>>

(* fs_->get: canonical() fails on a file removed since (500); else 200     *)
(* with the contents.                                                      *)
GetRead(c) ==
  /\ pc[c] = "read"
  /\ LET r == FsGet(files, pend[c])
     IN IF r.ec THEN Reply(c, "GET", 500, {}) ELSE Reply(c, "GET", 200, {r.val})
  /\ UNCHANGED <<dirExists, files, pend, status_, ops, crashed>>

(* handle_get of the entity type: 404 when the directory does not exist,  *)
(* else list_dir filtered by is_valid_id, 200.  The directory is never     *)
(* removed, so its checks and the listing cannot be told apart.            *)
ListType(c) ==
  /\ Send(c)
  /\ IF dirExists
     THEN /\ Reply(c, "GET", 200, {n \in DOMAIN files : IsValidId(n)})
          /\ UNCHANGED <<dirExists, files, pend, status_, crashed>>
     ELSE Answer(c, "GET", 404)

(* A method other than GET, POST, PUT and DELETE: 501. *)
Unsupported(c) == Send(c) /\ Answer(c, "OTHER", 501)

Next ==
  /\ UNCHANGED impl
  /\ \E c \in Clients :
      \/ PostPrepare(c)
      \/ PostWrite(c)
      \/ \E id \in Ids : \/ PutPrepare(c, id) \/ DeletePrepare(c, id)
                         \/ GetPrepare(c, id)
      \/ PutKind(c)
      \/ PutStatus(c)
      \/ PutWrite(c)
      \/ DeleteKind(c)
      \/ DeleteRemove(c)
      \/ GetKind(c)
      \/ GetRead(c)
      \/ ListType(c)
      \/ Unsupported(c)

Spec == Init /\ [][Next]_vars

-----------------------------------------------------------------------------
TypeOK ==
  /\ impl \in Impls
  /\ dirExists \in BOOLEAN
  /\ \A n \in DOMAIN files : n \in Seq(ToSet(DigitChars) \cup {"x"}) /\ n # <<>>
  /\ DOMAIN files # {} => dirExists
  /\ pc \in [Clients -> {Idle, "post", "put_kind", "put_status", "put",
                          "delete_kind", "delete", "get", "read"}]
  /\ ops \in [Clients -> 0..MaxOps]
  /\ crashed \in BOOLEAN

(* Every request is answered: no request ends the server process (a CRUD  *)
(* error is a 400, 404 or 500 response).                                   *)
NoCrash == ~crashed

(* The handler implements the atomic store of CrudStore: every request    *)
(* answers as one CrudStore step taken where it changes the directory or  *)
(* makes its last check would; this covers Create's fresh id, PUT's       *)
(* 200/201, and GET and DELETE answering 404 only for a missing entity.   *)
Store == INSTANCE CrudStore WITH typeExists <- dirExists, store <- files,
                                  Bodies <- Clients \X (1..MaxOps)

CrudStoreSpec == Store!Spec
=============================================================================
