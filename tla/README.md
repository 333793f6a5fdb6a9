# TLA+ models of the Webserver

This directory holds TLA+ specifications of the C++ web server under `src/`. It also holds the TLC configurations that check them, and `PROJECT.json`, which records the following:
- the components;
- the runs;
- the mutants that show each checked property can fail;
- the map from each definition to the source lines it translates;
- the findings;
- the hazards.

Run a check from this directory, for example:

    tlc -workers 2 -config Server.cfg MC_Server

## The system

The server is a single process made of five parts.

1. **Configuration parser** (`config_parser.cc`).
   - `ParseToken` is a character tokenizer.
   - `Parse` builds a tree of statements and child blocks, using a stack of open blocks.
   - `ToString` serialises a tree.
   - Accessors (`get_port`, `get_max_threads`, `get_root`, `get_data_path`, `get_location_mapping`) search the tree.
2. **Dispatcher** (`request_handler_dispatcher.cc`, `utils.cc`). The constructor maps each `location <path> <Kind>` statement of the `server` block to a handler factory. Trailing `/` characters are removed from the path. `routes_[NO_MATCH]`, which is `routes_["/"]`, is the ErrorHandler. `dispatch(url)` finds the longest route with `match`, records the route's kind in `handler_type_` and creates a handler.
3. **Session** (`session.cc`). This is one object per connection.
   - `start` arms a read.
   - `handle_read`/`handle_request` append each fragment to `request`.
   - Once CRLFCRLF appears, the header block goes to the beast parser. A parse error is answered 400; otherwise `Content-Length` is taken.
   - Body bytes are counted down in `content_left_`.
   - When headers and body are done, the request is dispatched, the handler runs and the response is written with `async_write`.
   - `handle_write` shuts the socket down on success and deletes the session on error.
4. **Server** (`server.cc`, `server_init.cc`).
   - There is one acceptor, with one `async_accept` outstanding.
   - A pool of `threads` worker threads all run the same `io_service`.
   - Every session holds a pointer to the one shared dispatcher.
   - `server_init` parses the configuration file and reads the port and thread count.
5. **Handlers**. Echo, static, error, health and sleep build a response from the request. The CRUD handler (`request_handler_crud.cc`) stores entities as files under `data_path` through the `FileSystem` interface (`filesystem.h`): a `DiskFileSystem` in the server, a `FakeFileSystem` (a map of paths) in the unit tests.

How the parts interact:
- The parser's tree feeds the dispatcher's constructor.
- Every session calls the shared dispatcher once per request.
- The completion handlers of all sessions, and of the acceptor, run on any free worker thread. Nothing serialises two handlers of different sessions.
- Two CRUD handlers on different workers touch the same directory with no lock.

## Modules

| module | models | state (code) | actions (code) |
|---|---|---|---|
| `ConfigParser` | `ParseToken`, `Parse`, `ToString` | `input` (the file's contents) and `parsed` (Parse's result and tree); one action, `ParseConfig`, is the call | `Scan`/`ParseToken` are the tokenizer states; `ParseLoop` is the `while (true)` of `Parse`, with `AddToken`, `OpenChild`, `EndBlockAllowed`; `BlockText`/`StatementText` are the two `ToString`s |
| `StaticHandler` | `StaticHandler::handle_request` | none: the operator `HandleRequest(h)` of a created handler over the constant `Disk` (local path -> file or directory) | the extension check, `substr(location_.length())`, `root_ +`, the `ifstream` open (a directory opens), the read, the 404 |
| `DispatchStatic` | `session::handle_request` calling `dispatch` and then the handler's `handle_request` | Dispatcher's | `StaticResponse` is the answer to the last dispatched request |
| `Dispatcher` | constructor, `dispatch`, `match`, `get_location_mapping`, `remove_trailing_slash`, `createHandlerFactory`, every factory's `create()`, `get_root`, `get_data_path` | `loc_map_` (path -> kind and block), `routes_` (path -> factory: kind, and the block for static and CRUD), `handler_type_`, `created` (the constructor arguments of the last handler: kind, location, target, root or data_path) | `Init` is the constructor; `Dispatch(url)` is `dispatch` with `create()` |
| `Connection` | what a connection promises (spec.md 4.5, 6): one answer, 400 exactly for a request that does not parse, then closed | `conn`, `answer` | `Open`, `Respond`, `Close` |
| `Session` | `session.cc` | the `session` fields `request`, `body_`, `headers_done_`, `body_done_`, `content_left_`; `sess` is where the object is in its life | `Start`; `HandleReadOk` (with `HandleRequest`, `Reply400`, `AccumulateBody`); `RunHandler` (the rest of `handle_request` after `dispatch`); `HandleReadError`; `HandleWriteOk`; `HandleWriteError` |
| `Server` | `server.cc` composed with `Session` | `Session`'s variables, per worker the callback it is inside, the shared `handler_type_` | `Accept`/`AcceptError` (`handle_accept`); `ReadOk`, which writes `handler_type_` at `dispatch`; `Handle` (handler and `async_write`); `Metrics` (the lines after `async_write`); `Callback` (the other completion handlers) |
| `ServerInit` | `main`, both `server_init` constructors (file name, and the istream one the tests use), `get_port`, `get_max_threads`, `get_location_mapping`, the `server` constructor and `run` | `input`/`parsed` (shared with `ConfigParser` by INSTANCE), `entry` (main or the test's istream constructor), `phase`, `port`, `num_threads`, the `bound` port, the dispatcher's `loc_map_`/`routes_`, `exit_code` | `Main` (argument check); `ParseFile` (`ConfigParser!ParseConfig`, or a file that does not open); `ReadSettings`; `ParseStream` and `StreamSettings` (the istream constructor: no default for the thread count); `Construct` (bind, or the exception main catches; then `get_location_mapping` and the dispatcher via `Dispatcher!LocationMapping`/`Routes`); `Run` (no threads, a pool within `ThreadLimit`, or more threads than `ThreadLimit`, where a negative count converted to `size_t` is SIZE_MAX: a thrown `thread_resource_error` or the end of the process) |
| `CrudStore` | what the CRUD handler promises (the comments of `request_handler_crud.cc`, spec.md 8): a store in which each request is one atomic step | `typeExists`, `store`, `resp` | `Create`, `Update`, `Retrieve`, `Delete`, `List`, `Unsupported` |
| `FileSystem` | the filesystem contract of spec.md 4 (the handler contract): exists, is-regular-file, is-directory, read, list, write creating parents, recursive remove, one last-error slot | `tree`, `err_`, the last `call` and its `ret` | one action per method, and `Err` |
| `FileSystems` | every method of `DiskFileSystem` and of `FakeFileSystem` | `impl`, `files_` (path -> entry: the fake's map, the disk's tree), `ec_`, `call`, `ret` | `DiskExists` ... `DiskRemove`, `FakeExists` ... `FakeRemove`, `Err`; `Disk(p)`/`Fake(p)` choose by `impl` |
| `Crud` | `CrudHandler` GET/POST/PUT/DELETE and other methods, `get_next_available_id`, `is_valid_id`, `DiskFileSystem::exists/is_regular_file/get/list_dir/write/remove`, `FakeFileSystem::get/remove` | the handler's filesystem (`impl`: disk or fake), the entity-type directory (`files`, `dirExists`), each client's pending request (`pc`, `pend`, PUT's `status_`) and last response | `GetPrepare`/`GetKind`/`GetRead`, `ListType`, `PostPrepare`/`PostWrite`, `PutPrepare`/`PutKind`/`PutStatus`/`PutWrite`, `DeletePrepare`/`DeleteKind`/`DeleteRemove`, `Unsupported` |

Abstractions:

- **Bytes.** In Session they are the alphabet `"h"` (a header byte), `"CR"`, `"LF"`, `"b"` (a body byte), `"NUL"` and `"j"`. `"j"` is a non-zero byte of `data_` that the read did not transfer.
  - Whether a header block parses is a field `verdict` of the request the client sends. A header block altered by stray bytes may parse or fail (`ParseOutcomes`).
  - `std::string(data_)` is modelled by what it does (`CString`): it stops at the first zero byte and ignores `bytes_transferred`.
  - The bytes past those transferred follow the code. They are uninitialised before the first read and after a read that fills all of `data_`, and zero after the `memset` of line 165 (`Beyond`).
- **Paths, tokens and file names** are sequences of one-character strings.
- **Factories and handlers.** In Dispatcher a factory is its kind and, for the static and CRUD factories, the location's block. A handler is the arguments it is constructed with. A block is the token lists of its statements; nested blocks are left out, since `get_root` and `get_data_path` do not descend. ServerInit keeps a location's kind and not its block. In Server a request carries the kind its target routes to (routing itself is checked in Dispatcher).
- **Dispatch and the handler run.** `handle_request` up to `dispatch()` and the handler's run are separate steps (`HandleReadOk`, then `RunHandler`). Between them another worker can run, and Server needs that interleaving.
  - In Server, `handle_request` is cut once more, after `async_write`. From that point the write's completion handler can run on another worker while this worker still executes the metrics lines (session.cc 155-159, and 102-107 on the 400 path).
- **FileSystems.** A path is a sequence of names below the data directory, in the normal form `__fake::resolve` gives; contents are two model values. boost::filesystem is reduced to what the disk methods rely on, on Linux: `canonical` fails on a missing path, `exists` and `is_*` clear the error for a missing path or one below a regular file, `create_directories` fails below a regular file, an `ofstream` does not open a directory and an `ifstream` does (reading it gives nothing), `remove_all` removes a subtree. A handler owns its filesystem object, so calls are sequential.
- **Crud** cuts PUT, DELETE and GET at each filesystem call. POST is cut once, after `get_next_available_id`: the directory, once made, is never removed, so its `exists` and `list_dir` read the same state. Each `DiskFileSystem` call is a syscall that other workers interleave with. A file's content is the writing client and its request number, so two writes of the same id differ. The filesystem is the disk one (what `CrudHandlerFactory` builds) or the fake one the unit tests inject; their `get` and `remove` are separate operators, and the other calls act alike on one directory of regular files. A response records the method it answers, as the client that sent the request knows it.

The refinement: `Session` and `Server` define `ConnectionSpec == Abstract!Spec` with `Abstract == INSTANCE Connection WITH conn <- [s |-> ConnState(sess[s])], answer <- res`. `ConnState` maps these states as follows:
- `reading` and `dispatched` to `open`;
- `writing` to `answered`;
- `shutdown` and `freed` to `closed`.

`Crud` defines `CrudStoreSpec == Store!Spec` with `Store == INSTANCE CrudStore WITH typeExists <- dirExists, store <- files` (the response variable has the same name in both). A request's last step (the reply) is the abstract step; the steps before it change nothing the abstract spec sees.

`FileSystems` defines `FsContract == Contract!Spec` with `Contract == INSTANCE FileSystem WITH tree <- files_, err_ <- ec_` (`call` and `ret` have the same names). Every call is one abstract step. Where spec.md says nothing about the error slot (after a query, after listing something that is not a directory, after removing something missing), the abstract step allows either value.

## Runs

| run | cfg | expect | what it checks |
|---|---|---|---|
| session | `Session.cfg` | pass | One session, five request shapes (GET, POST, POST with one byte more than declared, malformed, stalled POST) and reads of 1 to 6 bytes. Every way of splitting the bytes is covered, the terminator included. `ConnectionSpec` (refinement) and `CompleteRequestAnswered` (liveness) hold. |
| session_body | `SessionBody.cfg` | violation | `DispatchedBodyIsDeclaredBody`: a GET whose header arrives in two reads is dispatched with body `"h"`. |
| dispatcher | `Dispatcher.cfg` | pass | Every list of up to 3 location statements (paths `/a`, `/a/`, `/a/b`, `/b`; duplicates and trailing slashes included) and every target of up to 4 characters over `/`, `a`, `b`. `match` gives the longest whole-segment prefix; the handler is the one the last declaration of that path names. Each handler gets the matched location, the whole target and, for static and CRUD handlers, the `root` or `data_path` of that same declaration's block, the first two-token one (`HandlerConfiguredByItsLocation`). A few longer targets with an extension reach three static locations over a small disk. A static handler answers 404 only when the file its target routes to (by spec.md's routing) is missing, and a 200 with a body only with that regular file's contents (`StaticServesRoutedFile`). |
| config_parser | `ConfigParser.cfg` | pass | Every text of up to 5 characters over `a ' ; { } # \n \r` (37,449 texts). Every accepted text round-trips through `ToString` and `Parse`, and every tree is well formed. |
| server | `Server.cfg` | pass | Three clients, two workers, two descriptors, one-byte reads. Accepts both succeed and fail. Each session refines Connection in the composition and every accepted client with a complete request is answered (`AcceptedClientAnswered`). |
| server_handler_type_race | `ServerHandlerTypeRace.cfg` | violation | `LoggedOwnHandlerType`: two requests with matched routes. The one shared `handler_type_` is overwritten between a worker's `dispatch` and its `get_handler_type`. |
| server_use_after_free | `ServerUseAfterFree.cfg` | violation | `NoUseAfterFree`: `handle_write` fails and deletes the session while the worker that started the write is still in the metrics lines. |
| server_fd_exhaustion | `ServerFdExhaustion.cfg` | violation | `EveryClientAnswered` with one descriptor: the first session is answered but never deleted, so every accept for the second client fails. |
| crud | `Crud.cfg` | pass | One client and up to 6 requests of every method over ids `0`, `1`, `2` and `x`. Both the disk and the fake filesystem are checked. The handler refines `CrudStore` (`CrudStoreSpec`): every status, body, created id and listing is the atomic store's. A POST creates an entity under an id that is not in use, because that is what `CrudStore`'s `Create` does. |
| crud_concurrent | `CrudConcurrent.cfg` | violation | `CrudStoreSpec` with two clients on the disk filesystem and two requests each: two concurrent POSTs both get id 0 and 201, and one entity is lost. |
| server_init | `ServerInit.cfg` | violation | About 800 configuration files built from statements (valid, out-of-range and non-numeric ports and thread counts; locations with and without a block, and with an unknown kind; an unterminated quote), with and without the file argument, through `main` and through the istream constructor, and with bind failures and thread-creation failures. `ListensOnlyOnConfiguredPort`: a file that names no valid port (for example `port -1;`, or none at all) starts a server listening on 65535. `get_port`'s -1 is passed unchecked through the `(short)` cast to the endpoint's unsigned short. |
| filesystem_contract | `FileSystemContract.cfg` | violation | `FsContract` for `DiskFileSystem` over every sequence of calls on the paths `a`, `b`, `a/a`, `a/b`, `b/a`, `b/b`: after `write a/a` (which creates the directory `a`), `write a` returns false and `get a` returns `""`, both with the error slot clear. |

The properties that are stated and found violated, but are not in a run, are listed in `PROJECT.json` as hazards with a note. These are:
- `RequestIsReceivedBytes`, over-reading `data_`; violated with `UninitBuffer = TRUE`.
- `HandlerTypeMatchesCreated` and `NoNullFactoryDispatch` in Dispatcher.
- `TrailingNewlineNeutral`, `NoEmptyStackAccess` and `NoWhitespaceInPlainTokens` in ConfigParser.
- `CompleteRequestAnswered` in Session on a body holding a zero byte: `Session.cfg` with `Requests <- MCRequestsNul` and `CompleteRequestAnswered` alone finds a complete request never answered.
- `ServedByDeclaredRoute` on targets with a query: `Dispatcher.cfg` with `Urls <- MCQueryTargets` and that invariant alone finds `/a?` dispatched to the ErrorHandler under a location `/a`. The session passes `req.target()`, query included, where spec.md 4.5 routes the request path (the part before `?`, `RequestPath`).
- `StaticAnswersAsTested` in DispatchStatic: `Dispatcher.cfg` with `INVARIANT StaticAnswersAsTested` alone finds the target `/a/a` answered 200 with an empty body. The file `r/a` does not exist, and request_handler_static_test.cc expects 404 for a missing file. `handle_request` returns before the lookup when the target has no `.`, and the session writes its default response.
- `StartsOnlyOnValidConfig` in ServerInit: `ServerInit.cfg` with `INVARIANT StartsOnlyOnValidConfig` alone finds the server serving after Parse rejected an unterminated quote, on port 65535 with 10 threads (spec.md 7 says start-up must abort).
- `FsContract` for the fake: `FileSystemContract.cfg` with `Impls = {"fake"}` finds `list_dir` of a missing path clearing the error. Write below a regular file, write over a directory, remove of a file with children and get of a directory each break the contract too.
- `CrudStoreSpec` on ids with leading zeros: `Crud.cfg` with `Ids <- IdZeroPadded` finds that after PUT `0`, `00` and `1`, a POST answers with the existing id 1 and overwrites it. `get_next_available_id` reads `0` and `00` as the duplicate ints 0, 0.
- `NoCrash` in Crud: `Crud.cfg` with `Ids <- IdHuge` and `INVARIANT NoCrash` alone finds that a PUT of id `9999999999` and then a POST terminate the server, since `std::stoi` throws `out_of_range` and `handle_request` does not catch it.

The same applies to `ServedByDeclaredRoute` on configurations that declare `"/"` (`MCRootConfigs`). The dispatcher run leaves `"/"` out of its locations for this reason: the code diverges from spec.md 4.4 there (routes_[NO_MATCH] overwrites it).

### Bounds

- **Session.** Two header bytes more than the terminator would only lengthen the splits; one header byte already lets a read end inside the terminator. `ReadMax = 6` allows both a whole request in one read and every split. Only one session runs, because sessions share nothing in `session.cc`; their interleaving is Server's job.
- **Server.** Two workers are the least that shows one worker's callback interleaving with another's. In the passing run, three clients and two descriptors make the third accept fail while two sessions run. One-byte reads keep that state space within minutes. The violation runs use two clients and reads of up to five bytes. One descriptor there makes the leak visible.
- **Dispatcher.** The four paths cover a nested prefix (`/a` and `/a/b`), the same path with and without a trailing `/`, and a sibling. Three statements cover a duplicate declaration in either order. The blocks give a static location a `data_path` before its `root`, two `root`s, a one-token `root` before the real one, and no options. They give a CRUD location a `root` before its `data_path`. So a factory reading the wrong key, or the wrong statement, is seen. The static targets are these:
- a file;
- a directory whose name has a `.`;
- a missing file;
- a file below the nested `/a/b`;
- a file read from the filesystem root (a static `/b/` without `root`);
- a target without an extension;
- one with a trailing `/`;
- the location itself.

Every file's contents is its own path, so reading the wrong file is seen.
- **ConfigParser.** Five characters reach nested blocks (`a{a;}`), quotes, comments, both line endings and unbalanced braces.
- **ServerInit.** Start-up is one sequential thread; the only question is which file it reads. Two top-level statements, or a server block of two inner statements and one more, are enough to put a port before or after the server block, inside it, twice, or together with a syntax error. `ThreadLimit` = 32768 stands for the number of threads the system lets the process create; the configurations name 0 and 2 threads, below it, and the -1 the istream constructor passes on for a missing or invalid count is beyond it, so both sides of the check are reached.
- **FileSystems.** Paths of at most two names over two names give a parent with two children, a sibling subtree, and a regular file where a directory is needed. Two contents tell an overwrite from no write. The run stops at the first violation, two calls in.
- **Crud.** Ids `0`, `1` and `2` let a gap open at 0 or between two entities after a DELETE, and `x` is an invalid id. Six requests reach PUT 0, PUT 2, POST into the gap at 1, DELETE, and GET or a list of the result. The concurrent run needs two requests per client to show the race.

### Fairness

- **Session.** Weak fairness on `Start`, `HandleReadOk`, `RunHandler` and `HandleWriteOk` per session. The reactor runs every ready completion handler; a read with bytes waiting is ready. Errors (`HandleReadError`, `HandleWriteError`) are not forced.
- **Server.** Weak fairness per worker on continuing inside `handle_request` (`Handle`, `Metrics`), and per session on its accept, its reads and its write completion being taken by some free worker. `io_service::run` on every pool thread guarantees this as long as a thread is free.
- **Crud, Dispatcher and ServerInit** only check safety (ServerInit states weak fairness on `Next` for completeness).

### Mutants

`PROJECT.json` lists, for every property of every passing run, a variant of one mapped definition that a plausible bug would produce. Each variant is defined just before the definition it replaces, with a `Variant:` comment. TLC finds the property violated with the variant in place. Examples:
- `content_left_ +=` instead of `-=`;
- `< 0` instead of `<= 0`;
- `find_first_of` instead of `find_last_of`;
- the first duplicate declaration winning;
- tokens joined without spaces;
- a dispatched request whose handler never runs;
- PUT's status taken after the write;
- the fake filesystem's remove leaving the entry in place;
- the static handler factory reading `data_path` instead of `root`;
- the static handler cutting the target one character past its location.

FileSystems and ServerInit appear only in violation runs, so they have no mutants.

## Findings

These are in `PROJECT.json`, each with its run:
1. **Fragmented headers corrupt the body** (session.cc:130). Body accounting runs before the headers are complete.
2. **The `handler_type_` data race** on the shared dispatcher (request_handler_dispatcher.cc:54).
3. **Use after free of a session** by the metrics lines after `async_write` (session.cc:156, and 103-107 on the 400 path).
4. **Answered sessions are never deleted** (session.cc:179). Descriptors run out and the acceptor fails forever.
5. **A configuration without a valid port is served on 65535** (server_init.cc:48, and :25 for the istream constructor). `get_port`'s -1 sentinel goes unchecked into `(short)port`, where spec.md 7 says callers must check it and spec.md 6 says a bad port ends start-up with a non-zero exit.
6. **Concurrent requests are not atomic** (request_handler_crud.cc:147). Two POSTs get the same id and one entity is lost. With POST left out, two PUTs of a new id are both answered 201 (line 185), and a second DELETE of an entity is answered 500 instead of 404 (line 227).
7. **The disk filesystem fails silently on a directory** (filesystem_disk.cc:112 and 39-51). `write` to an existing directory and `get` of one report no error. The CRUD handler tests only `err()`, so a PUT that races with a PUT below the same id answers 201 having written nothing.

More are recorded as hazards with the configuration that shows them:
- start-up ignoring a failed parse and serving the partial tree (server_init.cc:34);
- the fake filesystem breaking the contract the disk one is held to (filesystem_fake.cc:93);
- a zero byte in the body makes the connection hang (session.cc:70, through `std::string(data_)`), and a stored id above INT_MAX makes the next POST terminate the server (request_handler_crud.cc:270).

## Not modelled yet, and the plan

- **Session**: a `Content-Length` above INT_MAX (`std::stoi` at session.cc:118 throws out of a completion handler).
- **Crud over a tree.** Crud models one entity type, a directory of regular files, with its own operators for the disk's and the fake's `get` and `remove`. Nested targets (`PUT /t/0/1` makes `t/0` a directory) are left out. They would show `GET /t` listing a directory as an entity (request_handler_crud.cc:116), and the PUT and GET races that meet FileSystems' silent failures on a directory. These are hazards in `PROJECT.json`. The fake is used only by the unit tests, each of which drives one handler sequentially, so it is not put in the concurrent run.
- **FakeFileSystem::reset and `__fake::resolve`.** `reset` is called only by tests between cases and is not part of the interface. Paths are taken in normal form, so `.`, `..` and a trailing `/` are not modelled.
- **Echo, static, health, error and sleep handlers**: stateless response builders, each one `Handle` step. The sleep handler's five seconds are not modelled (no time). The static handler's file lookup is modelled in StaticHandler. Its MIME table (`extension_to_type`) and the response headers are not: formatting only. Nor is the OS's resolution of `..`: a `..` in the target reads outside the root (request_handler_static.cc:65), a hazard in `PROJECT.json` without a property.
- **Logging and the signal handler**: output only. `server_init`'s istream constructor is modelled as the second entry of ServerInit; unlike the file constructor it does not map a missing thread count to 10, so `run()` asks for SIZE_MAX threads and fails (a hazard at server_init.cc:24, reached by the model but asserted by no run, since nothing states what the tests expect there).
- **Start-up crashes and exit status.** ServerInit reaches a crash for an empty or unreadable file, for `server;` without a block, and for a location without a block; and a bind failure exits 0. These are hazards in `PROJECT.json`, each without a run of its own.
