---------------------------- MODULE StaticHandler ----------------------------
(***************************************************************************)
(* StaticHandler::handle_request (src/src/request_handler_static.cc) for a *)
(* handler constructed with [location, url, root] (Dispatcher's Create),   *)
(* over a disk whose files do not change while the server runs.  Strings  *)
(* (targets, roots, file paths, contents) are sequences of characters.     *)
(* The MIME type extension_to_type picks from the extension is left out:  *)
(* only whether the target has an extension decides what is answered.     *)
(***************************************************************************)
EXTENDS Naturals, Sequences

CONSTANT Disk   \* local path -> [type |-> "file" | "dir", body]

(* The body of the 404 answer, "File not found.\r\n". *)
NotFoundBody == <<"File not found.">>

(* request_url_.find_last_of(".") != npos: the target has an extension. *)
HasExtension(url) == \E i \in DOMAIN url : url[i] = "."

(* Variant: the character after the location (its '/') is skipped too. *)
RequestedFilePathPastSlash(h) == SubSeq(h.url, Len(h.location) + 2, Len(h.url))

(* request_url_.substr(location_.length()): the target after the location. *)
RequestedFilePath(h) == SubSeq(h.url, Len(h.location) + 1, Len(h.url))

(* root_ + requested_file_path, unnormalised. *)
LocalFilePath(h) == h.root \o RequestedFilePath(h)

(* std::ifstream opens what exists: a regular file, and on Linux also a   *)
(* directory, from which f.get(c) reads nothing.                           *)
Opens(p) == p \in DOMAIN Disk

ReadAll(p) == IF Disk[p].type = "file" THEN Disk[p].body ELSE <<>>

(* handle_request: without an extension it returns false having set       *)
(* nothing, and the session writes its default-constructed response (200, *)
(* empty body); a path that does not open gets 404 "File not found.";     *)
(* otherwise 200 with what was read.                                       *)
HandleRequest(h) ==
  CASE ~HasExtension(h.url) -> [status |-> 200, body |-> <<>>]
    [] ~Opens(LocalFilePath(h)) -> [status |-> 404, body |-> NotFoundBody]
    [] OTHER -> [status |-> 200, body |-> ReadAll(LocalFilePath(h))]
=============================================================================
