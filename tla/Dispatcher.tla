----------------------------- MODULE Dispatcher -----------------------------
(***************************************************************************)
(* RequestHandlerDispatcher (src/src/request_handler_dispatcher.cc) and    *)
(* what it takes from the configuration: get_location_mapping with        *)
(* remove_trailing_slash (config_parser.cc) and createHandlerFactory      *)
(* (utils.cc), and the factories' create() (request_handler_factory.cc)  *)
(* with get_root and get_data_path.  A path is a sequence of characters   *)
(* over a small alphabet; a location's block is the sequence of its       *)
(* statements' tokens; a handler is the arguments it is constructed with. *)
(***************************************************************************)
EXTENDS Integers, Sequences, SequencesExt

CONSTANTS LocationConfigs,  \* possible location statements of the server
                            \* block: sequences of [path, kind, config] in
                            \* file order, config the location's block
          Urls              \* request targets dispatched

NoMatch == <<"/">>          \* RequestHandlerDispatcher::NO_MATCH
Null == [kind |-> "null", config |-> <<>>]   \* createHandlerFactory returned nullptr
None == "none"
NoHandler == [kind |-> None, location |-> <<>>, url |-> <<>>, root |-> <<>>]

(* The kinds createHandlerFactory knows (utils.cc, kStaticHandler ...). *)
KnownKinds == {"StaticHandler", "EchoHandler", "ErrorHandler", "CrudHandler",
               "SleepHandler", "HealthHandler"}

VARIABLES locs,          \* the location statements of the configuration
          loc_map_,      \* RequestHandlerDispatcher::loc_map_: path -> [kind, config]
          routes_,       \* RequestHandlerDispatcher::routes_: path -> factory
          handler_type_, \* RequestHandlerDispatcher::handler_type_
          lastUrl,       \* the target of the last dispatch
          created,       \* the handler the last dispatch created
          crashed        \* a dispatch called create() through nullptr

vars == <<locs, loc_map_, routes_, handler_type_, lastUrl, created, crashed>>

(* Variant: the trailing '/' is kept. *)
KeepTrailingSlash(p) == p

(* remove_trailing_slash: drop trailing '/' while more than one character *)
(* remains.                                                               *)
RECURSIVE RemoveTrailingSlash(_)
RemoveTrailingSlash(p) ==
  IF Len(p) > 1 /\ Last(p) = "/" THEN RemoveTrailingSlash(Front(p)) ELSE p

Entry(st) == [kind |-> st.kind, config |-> st.config]

(* Variant: the first declaration of a path wins. *)
LocationMappingFirstWins(ls) ==
  FoldLeft(LAMBDA acc, st : acc @@ (RemoveTrailingSlash(st.path) :> Entry(st)),
           [p \in {} |-> None], ls)

(* get_location_mapping: each location statement, in file order, stores  *)
(* its kind and a copy of its block under its normalised path; a later    *)
(* duplicate overwrites both.                                              *)
LocationMapping(ls) ==
  FoldLeft(LAMBDA acc, st : (RemoveTrailingSlash(st.path) :> Entry(st)) @@ acc,
           [p \in {} |-> None], ls)

(* get_root / get_data_path: the second token of the first statement of   *)
(* the block (its own statements only) that has two tokens, the first     *)
(* being key; "" (<<>>) when there is none.  A value is a sequence of     *)
(* characters, like a target.                                              *)
FirstValue(block, key) ==
  LET s == SelectSeq(block, LAMBDA st : Len(st) = 2 /\ st[1] = key)
  IN IF s = <<>> THEN <<>> ELSE Head(s)[2]

GetRoot(block) == FirstValue(block, "root")

GetDataPath(block) == FirstValue(block, "data_path")

(* createHandlerFactory: nullptr for a kind it does not know; the static   *)
(* and CRUD factories keep the location's block, the others nothing.       *)
Factory(kind, config) ==
  CASE kind \notin KnownKinds -> Null
    [] kind \in {"StaticHandler", "CrudHandler"} -> [kind |-> kind, config |-> config]
    [] OTHER -> [kind |-> kind, config |-> <<>>]

(* The constructor: one factory per location path, then routes_[NO_MATCH] *)
(* is assigned the ErrorHandler factory (with no block) unconditionally.   *)
Routes(lm) ==
  [p \in DOMAIN lm \cup {NoMatch} |->
     IF p = NoMatch THEN Factory("ErrorHandler", <<>>) ELSE Factory(lm[p].kind, lm[p].config)]

(* Variant: the static factory reads data_path. *)
CreateStaticDataPath(f, location, url) ==
  [kind |-> f.kind, location |-> location, url |-> url,
   root |-> IF f.kind \in {"StaticHandler", "CrudHandler"} THEN GetDataPath(f.config) ELSE <<>>]

(* create(location, url): a handler of the factory's kind given the matched*)
(* location and the whole target; StaticHandler also gets get_root() and   *)
(* CrudHandler get_data_path() of the factory's block.                     *)
Create(f, location, url) ==
  [kind |-> f.kind, location |-> location, url |-> url,
   root |-> CASE f.kind = "StaticHandler" -> GetRoot(f.config)
              [] f.kind = "CrudHandler" -> GetDataPath(f.config)
              [] OTHER -> <<>>]

(* Variant: find_first_of instead of find_last_of. *)
FirstSlash(cur) ==
  LET at == {j \in DOMAIN cur : cur[j] = "/"} IN IF at = {} THEN -1 ELSE Min(at) - 1

(* curr_url.find_last_of("/", url_length) as an int: the 0-based index of *)
(* the last '/', which is the length of the prefix before it; npos is -1. *)
LastSlash(cur) ==
  LET at == {j \in DOMAIN cur : cur[j] = "/"} IN IF at = {} THEN -1 ELSE Max(at) - 1

(* match: try the target cut to url_length; on a miss cut it before its   *)
(* last '/'; NO_MATCH once the length is not positive.                     *)
RECURSIVE MatchFrom(_, _, _)
MatchFrom(keys, url, len) ==
  IF len <= 0 THEN NoMatch
  ELSE LET cur == SubSeq(url, 1, len)
       IN IF cur \in keys THEN cur ELSE MatchFrom(keys, url, LastSlash(cur))

Match(keys, url) == MatchFrom(keys, url, Len(url))

-----------------------------------------------------------------------------
(* RequestHandlerDispatcher(config), run once before any worker starts. *)
Init ==
  /\ locs \in LocationConfigs
  /\ loc_map_ = LocationMapping(locs)
  /\ routes_ = Routes(loc_map_)
  /\ handler_type_ = ""
  /\ lastUrl = <<>>
  /\ created = NoHandler
  /\ crashed = FALSE

(* dispatch(request_url): match, record the kind unless it is NO_MATCH,    *)
(* and create the handler through the route's factory.                      *)
Dispatch(url) ==
  LET loc == Match(DOMAIN routes_, url)
  IN /\ ~crashed
     /\ lastUrl' = url
     /\ IF loc = NoMatch
        THEN /\ created' = Create(routes_[NoMatch], loc, url)
             /\ UNCHANGED <<handler_type_, crashed>>
        ELSE /\ handler_type_' = loc_map_[loc].kind
             /\ IF routes_[loc] = Null
                THEN /\ crashed' = TRUE
                     /\ UNCHANGED created
                ELSE /\ created' = Create(routes_[loc], loc, url)
                     /\ UNCHANGED crashed
     /\ UNCHANGED <<locs, loc_map_, routes_>>

Next == \E u \in Urls : Dispatch(u)

Spec == Init /\ [][Next]_vars

-----------------------------------------------------------------------------
(* The routing spec.md 4.4 describes, stated without the loop: the        *)
(* longest key that is the whole target or the part of it before a '/'.   *)
SegmentPrefixes(url) ==
  {SubSeq(url, 1, n) : n \in {n \in 1..Len(url) : n = Len(url) \/ url[n + 1] = "/"}}

LongestSegmentPrefix(keys, url) ==
  LET c == SegmentPrefixes(url) \cap keys
  IN IF c = {} THEN NoMatch ELSE CHOOSE p \in c : \A q \in c : Len(q) <= Len(p)

(* A declared path without its trailing '/' characters ('/' stays '/'). *)
SpecPath(p) ==
  LET keep == {i \in DOMAIN p : p[i] # "/"}
  IN IF keep = {} THEN <<"/">> ELSE SubSeq(p, 1, Max(keep))

(* The request path of a target (spec.md 4.5, step 4): what precedes its  *)
(* query, the first '?'.                                                   *)
RequestPath(url) ==
  LET q == {i \in DOMAIN url : url[i] = "?"}
  IN IF q = {} THEN url ELSE SubSeq(url, 1, Min(q) - 1)

(* The declaration spec.md 4.4 routes a target to: the last declaration   *)
(* of its longest declared segment prefix (a declared '/' included); the  *)
(* ErrorHandler at "/" when no location covers it.                         *)
SpecDecl(ls, url) ==
  LET lm == [p \in {SpecPath(ls[i].path) : i \in DOMAIN ls} |->
               ls[CHOOSE i \in DOMAIN ls :
                    /\ SpecPath(ls[i].path) = p
                    /\ \A j \in DOMAIN ls : SpecPath(ls[j].path) = p => j <= i]]
      c == SegmentPrefixes(RequestPath(url)) \cap DOMAIN lm
  IN IF c = {} THEN [path |-> NoMatch, kind |-> "ErrorHandler", config |-> <<>>]
     ELSE lm[CHOOSE p \in c : \A q \in c : Len(q) <= Len(p)]

SpecKind(ls, url) == SpecDecl(ls, url).kind

(* An option of a block as spec.md 3 and 4.1 state it: the value of the   *)
(* first two-token "key <value>" statement, "" (<<>>) if there is none.   *)
SpecOption(block, key) ==
  LET at == {i \in DOMAIN block : Len(block[i]) = 2 /\ block[i][1] = key}
  IN IF at = {} THEN <<>> ELSE block[Min(at)][2]

TypeOK ==
  /\ \A p \in DOMAIN routes_ :
       /\ p = NoMatch \/ Last(p) # "/"
       /\ routes_[p] = Null \/ routes_[p].kind \in KnownKinds
  /\ NoMatch \in DOMAIN routes_
  /\ created = NoHandler \/ created.kind \in KnownKinds
  /\ crashed \in BOOLEAN

(* match finds, for every target and every routing table built, the       *)
(* longest route that is a whole-segment prefix of the target.             *)
MatchIsLongestSegmentPrefix ==
  \A u \in Urls : Match(DOMAIN routes_, u) = LongestSegmentPrefix(DOMAIN routes_, u)

(* Every dispatched request gets a handler of the kind its most specific  *)
(* declared location names (later declarations of a path win, a trailing  *)
(* '/' is ignored), and an ErrorHandler when no location covers it.        *)
ServedByDeclaredRoute ==
  created # NoHandler => created.kind = SpecKind(locs, lastUrl)

(* Every handler is constructed as spec.md 4.4 and 3 describe: with the    *)
(* matched location (the routed path without its trailing '/', or "/"     *)
(* for the fallback) and the whole target, and a static or CRUD handler   *)
(* with the root or data_path of the same declaration that chose its      *)
(* kind.  It is about get_location_mapping's pairs, the factories and     *)
(* create().                                                               *)
HandlerConfiguredByItsLocation ==
  created # NoHandler =>
    LET d == SpecDecl(locs, lastUrl)
    IN /\ created.url = lastUrl
       /\ created.location = SpecPath(d.path)
       /\ created.root = CASE created.kind = "StaticHandler" -> SpecOption(d.config, "root")
                           [] created.kind = "CrudHandler" -> SpecOption(d.config, "data_path")
                           [] OTHER -> <<>>

(* A location with an unknown handler kind is rejected when the            *)
(* dispatcher is built (spec.md 4.4), so no request ever reaches a null    *)
(* factory.                                                                *)
NoNullFactoryDispatch == ~crashed

(* handler_type_, which session.cc logs after dispatch(), names the kind  *)
(* of the handler that dispatch() just created.                            *)
HandlerTypeMatchesCreated ==
  created # NoHandler => handler_type_ = created.kind
=============================================================================
