----------------------------- MODULE ServerInit -----------------------------
(***************************************************************************)
(* Process start-up: main (src/src/server_main.cc), server_init's file    *)
(* constructor (server_init.cc), the settings it reads from the parsed    *)
(* tree (NginxConfig::get_port, get_max_threads), the server constructor  *)
(* and run() (server.cc), and the RequestHandlerDispatcher constructor    *)
(* with get_location_mapping (config_parser.cc).  Start-up is entered     *)
(* from main, or from a unit test through server_init's istream            *)
(* constructor (server_init_test.cc).                                      *)
(*                                                                         *)
(* The text is parsed by ConfigParser's Parse, and the routing table is    *)
(* built by Dispatcher's LocationMapping and Routes, both by INSTANCE.     *)
(* Characters are ConfigParser's; a keyword or handler kind ("port",       *)
(* "EchoHandler", ...) is one character of the model, as no configuration *)
(* text of the model splits one.                                          *)
(***************************************************************************)
EXTENDS Integers, Sequences, SequencesExt

CONSTANTS Configs,     \* the contents of the configuration file
          ThreadLimit  \* the threads the system lets the process create

VARIABLES entry,       \* "main", or "test": the istream constructor
          input,       \* the file's contents
          parsed,      \* Parse's result and the tree config_ holds
          argc,        \* main's argument count
          phase,       \* "main", "parse", "settings", "stream",
                       \* "stream_settings", "construct", "run", "serving",
                       \* "exited", "crashed"; "threw" and "returned" for
                       \* the test's constructor call
          port,        \* server_init's port
          num_threads, \* server_init's num_threads
          bound,       \* the port the acceptor listens on (-1: none)
          loc_map_,    \* RequestHandlerDispatcher::loc_map_
          routes_,     \* RequestHandlerDispatcher::routes_
          exit_code    \* the process's exit status once it has exited

vars == <<entry, input, parsed, argc, phase, port, num_threads, bound, loc_map_,
          routes_, exit_code>>

CP == INSTANCE ConfigParser WITH Inputs <- Configs
D == INSTANCE Dispatcher WITH LocationConfigs <- {}, Urls <- {}, locs <- <<>>,
                              handler_type_ <- "", lastUrl <- <<>>,
                              created <- "none", crashed <- FALSE

Digits == <<"0", "1", "2", "3", "4", "5", "6", "7", "8", "9">>
IsDigit(c) == c \in ToSet(Digits)
DigitValue(c) == CHOOSE d \in 0..9 : Digits[d + 1] = c

(* atoi: an optional sign, then the longest run of digits; 0 when there   *)
(* is none.  (A token cannot start with whitespace.)  Values stay far     *)
(* below INT_MAX in the model.                                             *)
Atoi(t) ==
  LET neg == t # <<>> /\ t[1] = "-"
      s == IF t # <<>> /\ t[1] \in {"-", "+"} THEN Tail(t) ELSE t
      run == IF \A i \in DOMAIN s : IsDigit(s[i]) THEN Len(s)
             ELSE Min({i \in DOMAIN s : ~IsDigit(s[i])}) - 1
      n == FoldLeft(LAMBDA acc, c : acc * 10 + DigitValue(c), 0, SubSeq(s, 1, run))
  IN IF neg THEN -n ELSE n

(* The statements of block b (0: the root), in file order. *)
BlockStmts(stmts, b) == SetToSortSeq({i \in DOMAIN stmts : stmts[i].blk = b}, <)

(* ret >= 0 && ret <= 0xffff, the range get_port and get_max_threads accept. *)
InRange(n) == n >= 0 /\ n <= 65535

(* The depth-first search of get_port and get_max_threads over the        *)
(* statements is (indices, in order): a two-token statement naming key    *)
(* ends the search with its value, or -1 outside 0..0xffff; a statement   *)
(* with a child block ends it only when the block yields a value.          *)
RECURSIVE Setting(_, _, _)
Setting(stmts, is, key) ==
  IF is = <<>> THEN -1
  ELSE LET st == stmts[Head(is)]
       IN IF ~st.child
          THEN IF Len(st.tokens) = 2 /\ st.tokens[1] = <<key>>
               THEN LET n == Atoi(st.tokens[2])
                    IN IF InRange(n) THEN n ELSE -1
               ELSE Setting(stmts, Tail(is), key)
          ELSE LET r == Setting(stmts, BlockStmts(stmts, Head(is)), key)
               IN IF r # -1 THEN r ELSE Setting(stmts, Tail(is), key)

GetPort(stmts) == Setting(stmts, BlockStmts(stmts, 0), "port")

GetMaxThreads(stmts) == Setting(stmts, BlockStmts(stmts, 0), "threads")

(* thread_pool_size_ > ThreadLimit for std::size_t thread_pool_size_ =    *)
(* num_threads: a negative int converts to 2^64 + n, beyond any limit.     *)
PoolExceeds(n) == n < 0 \/ n > ThreadLimit

(* (short)port, converted back to the unsigned short of tcp::endpoint: the *)
(* port modulo 2^16 (-1 becomes 65535).                                    *)
ShortPort(p) == p % 65536

(* The handler kind a token names: a one-character token is the keyword  *)
(* itself; anything longer names no kind.                                  *)
KindOf(t) == IF Len(t) = 1 THEN t[1] ELSE "unknown"

(* get_location_mapping: "ub" when statements_[0] does not exist or a      *)
(* child_block_ it dereferences is null; error 1 when the first statement *)
(* is not "server"; otherwise the server block's three-token "location"   *)
(* statements in file order, as [path, kind, config]; the blocks' options *)
(* are Dispatcher's concern, so config is left empty.                      *)
LocationMapping(stmts) ==
  LET root == BlockStmts(stmts, 0)
      srv == Head(root)
      locs == SelectSeq(BlockStmts(stmts, srv),
                        LAMBDA i : Len(stmts[i].tokens) = 3
                                   /\ stmts[i].tokens[1] = <<"location">>)
  IN CASE root = <<>> -> [result |-> "ub"]
       [] stmts[srv].tokens[1] # <<"server">> -> [result |-> "error", locs |-> <<>>]
       [] ~stmts[srv].child -> [result |-> "ub"]
       [] \E k \in ToSet(locs) : ~stmts[k].child -> [result |-> "ub"]
       [] OTHER -> [result |-> "ok",
                    locs |-> [k \in DOMAIN locs |->
                                [path |-> stmts[locs[k]].tokens[2],
                                 kind |-> KindOf(stmts[locs[k]].tokens[3]),
                                 config |-> <<>>]]]

-----------------------------------------------------------------------------
Init ==
  /\ entry \in {"main", "test"}
  /\ input \in Configs
  /\ parsed = CP!Outcome("none", <<>>)
  /\ argc \in IF entry = "main" THEN {1, 2} ELSE {0}
  /\ phase = IF entry = "main" THEN "main" ELSE "stream"
  /\ port = -1
  /\ num_threads = 0
  /\ bound = -1
  /\ loc_map_ = <<>>
  /\ routes_ = <<>>
  /\ exit_code = 0

Exit(code) == /\ phase' = "exited" /\ exit_code' = code

(* An exception out of server_init: main's catch returns 0; the test's    *)
(* own try block receives it.                                              *)
Throw == IF entry = "main" THEN Exit(0) ELSE phase' = "threw" /\ UNCHANGED exit_code

(* main: a usage error unless there is exactly one argument; otherwise    *)
(* server_init is constructed.                                             *)
Main ==
  /\ phase = "main"
  /\ IF argc # 2 THEN Exit(1) ELSE phase' = "parse" /\ UNCHANGED exit_code
  /\ UNCHANGED <<input, parsed, argc, port, num_threads, bound, loc_map_, routes_>>

(* config_parser_.Parse(file_name, &config_): false on a file that does    *)
(* not open, else Parse of its contents; the result is not looked at.      *)
ParseFile ==
  /\ phase = "parse"
  /\ \/ CP!ParseConfig
     \/ parsed' = CP!Outcome("false", <<>>) /\ UNCHANGED input
  /\ phase' = "settings"
  /\ UNCHANGED <<argc, port, num_threads, bound, loc_map_, routes_, exit_code>>

(* get_port(), and get_max_threads() with the default of 10 for -1. *)
ReadSettings ==
  /\ phase = "settings"
  /\ port' = GetPort(parsed.stmts)
  /\ num_threads' = LET n == GetMaxThreads(parsed.stmts) IN IF n = -1 THEN 10 ELSE n
  /\ phase' = "construct"
  /\ UNCHANGED <<input, parsed, argc, bound, loc_map_, routes_, exit_code>>

(* server_init(io_service, config_file): Parse of the stream (one that    *)
(* did not open reads as empty text), its result not looked at.            *)
ParseStream ==
  /\ phase = "stream"
  /\ CP!ParseConfig
  /\ phase' = "stream_settings"
  /\ UNCHANGED <<argc, port, num_threads, bound, loc_map_, routes_, exit_code>>

(* get_port() and get_max_threads(), the -1 of either passed on as is. *)
StreamSettings ==
  /\ phase = "stream_settings"
  /\ port' = GetPort(parsed.stmts)
  /\ num_threads' = GetMaxThreads(parsed.stmts)
  /\ phase' = "construct"
  /\ UNCHANGED <<input, parsed, argc, bound, loc_map_, routes_, exit_code>>

(* new server(io_service, (short)port, ...): the acceptor opens and binds  *)
(* (a port in use or not permitted throws);                                 *)
(* then the dispatcher is built from get_location_mapping, whose error     *)
(* flag it ignores, and the first accept is armed.                         *)
Construct ==
  LET lm == LocationMapping(parsed.stmts)
  IN /\ phase = "construct"
     /\ \/ /\ Throw
           /\ UNCHANGED <<bound, loc_map_, routes_>>
        \/ /\ bound' = ShortPort(port)
           /\ IF lm.result = "ub"
              THEN /\ phase' = "crashed"
                   /\ UNCHANGED <<loc_map_, routes_, exit_code>>
              ELSE LET m == D!LocationMapping(lm.locs)
                   IN /\ loc_map_' = m
                      /\ routes_' = D!Routes(m)
                      /\ phase' = "run"
                      /\ UNCHANGED exit_code
     /\ UNCHANGED <<input, parsed, argc, port, num_threads>>

(* run(): thread_pool_size_ threads run io_service::run and are joined.  *)
(* With none the call returns at once (main then returns 0).  Creating    *)
(* more threads than ThreadLimit throws boost::thread_resource_error out   *)
(* of run(), or, when a joinable thread's destructor terminates (Boost.    *)
(* Thread's choice by version), ends the process.                          *)
Run ==
  /\ phase = "run"
  /\ CASE num_threads = 0 -> IF entry = "main" THEN Exit(0)
                                ELSE phase' = "returned" /\ UNCHANGED exit_code
       [] PoolExceeds(num_threads) -> \/ Throw
                                      \/ phase' = "crashed" /\ UNCHANGED exit_code
       [] OTHER -> phase' = "serving" /\ UNCHANGED exit_code
  /\ UNCHANGED <<input, parsed, argc, port, num_threads, bound, loc_map_, routes_>>

Next ==
  /\ UNCHANGED entry
  /\ \/ Main \/ ParseFile \/ ReadSettings
     \/ ParseStream \/ StreamSettings
     \/ Construct \/ Run

Spec == Init /\ [][Next]_vars /\ WF_vars(Next)

-----------------------------------------------------------------------------
TypeOK ==
  /\ phase \in {"main", "parse", "settings", "stream", "stream_settings",
                "construct", "run", "serving", "exited", "crashed", "threw",
                "returned"}
  /\ port \in -1..65535
  /\ num_threads \in -1..65535
  /\ bound \in -1..65535
  /\ exit_code \in {0, 1}

(* The server listens only on a port the configuration validly names:    *)
(* get_port's -1 (no port, or one out of range) is a sentinel callers must *)
(* check, and a bad port ends start-up with a non-zero exit (spec.md,     *)
(* sections 6 and 7).  It is about server_init's (short)port of a -1.    *)
ListensOnlyOnConfiguredPort ==
  phase = "serving" => GetPort(parsed.stmts) # -1 /\ bound = GetPort(parsed.stmts)

(* The server runs only on a configuration Parse accepted (spec.md 7:     *)
(* startup must abort rather than run with a partial configuration).      *)
StartsOnlyOnValidConfig == phase = "serving" => parsed.result = "true"
=============================================================================
