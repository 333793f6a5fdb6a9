---------------------------- MODULE DispatchStatic ----------------------------
(***************************************************************************)
(* A request routed to a static location: session::handle_request calls   *)
(* dispatch (Dispatcher), which creates the StaticHandler through its      *)
(* factory, and at once the handler's handle_request (StaticHandler).      *)
(* Nothing happens between the two calls, and the disk does not change,   *)
(* so the response is a function of the handler created.                   *)
(***************************************************************************)
EXTENDS Dispatcher, StaticHandler

(* The file a target names as spec.md 4.4 and 3 route it: the root of the *)
(* declaration it routes to, then the target after that declaration's     *)
(* path.                                                                   *)
RoutedFile ==
  LET d == SpecDecl(locs, lastUrl)
  IN SpecOption(d.config, "root") \o SubSeq(lastUrl, Len(SpecPath(d.path)) + 1, Len(lastUrl))

StaticResponse == HandleRequest(created)

(* A static request is answered 404 only when the file its target routes  *)
(* to does not exist, and a 200 with a body only with the contents of that *)
(* regular file: dispatch's matched location, the factory's get_root and  *)
(* handle_request's substr(location_.length()) and concatenation agree on *)
(* which file a target names.                                              *)
StaticServesRoutedFile ==
  created.kind = "StaticHandler" =>
    /\ StaticResponse.status = 404 => RoutedFile \notin DOMAIN Disk
    /\ StaticResponse.status = 200 /\ StaticResponse.body # <<>> =>
         /\ RoutedFile \in DOMAIN Disk
         /\ Disk[RoutedFile] = [type |-> "file", body |-> StaticResponse.body]

(* What request_handler_static_test.cc expects of handle_request: a       *)
(* regular file that exists is answered 200 with its contents, a path that *)
(* does not exist 404 "File not found.".                                   *)
StaticAnswersAsTested ==
  created.kind = "StaticHandler" =>
    /\ RoutedFile \notin DOMAIN Disk => StaticResponse.status = 404
    /\ RoutedFile \in DOMAIN Disk /\ Disk[RoutedFile].type = "file" =>
         StaticResponse = [status |-> 200, body |-> Disk[RoutedFile].body]
=============================================================================
