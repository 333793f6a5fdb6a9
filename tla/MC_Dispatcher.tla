--------------------------- MODULE MC_Dispatcher ---------------------------
(***************************************************************************)
(* Model-checking instance of Dispatcher.  Targets are every string of at *)
(* most four characters over '/', 'a', 'b'; location statements are drawn *)
(* from a few declarations that nest ("/a" and "/a/b"), repeat a path      *)
(* with and without a trailing '/', and disagree on its kind and block.    *)
(***************************************************************************)
EXTENDS DispatchStatic

Loc(path, kind, config) == [path |-> path, kind |-> kind, config |-> config]

\* Location blocks: a root, a data_path, a root repeated, a one-token root
\* statement before the real one, and nothing.
RootR == <<"root", <<"r">>>>
RootS == <<"root", <<"s">>>>
DataD == <<"data_path", <<"d">>>>

DeclaredLocations ==
  { Loc(<<"/", "a">>, "EchoHandler", <<RootR>>),
    Loc(<<"/", "a", "/">>, "StaticHandler", <<DataD, RootR, RootS>>),
    Loc(<<"/", "a", "/", "b">>, "StaticHandler", <<<<"root">>, RootS>>),
    Loc(<<"/", "b">>, "CrudHandler", <<RootR, DataD>>),
    Loc(<<"/", "b", "/">>, "StaticHandler", <<>>) }

\* Server blocks of up to three of those statements, in any order.
MCLocationConfigs == BoundedSeq(DeclaredLocations, 3)

\* Server blocks that also declare "/" itself.
MCRootConfigs ==
  { <<Loc(<<"/">>, "EchoHandler", <<>>)>>,
    <<Loc(<<"/", "a">>, "StaticHandler", <<RootR>>), Loc(<<"/">>, "HealthHandler", <<>>)>> }

\* Server blocks naming a handler kind createHandlerFactory does not know.
MCUnknownKindConfigs ==
  { <<Loc(<<"/", "a">>, "EchoHandler", <<>>), Loc(<<"/", "b">>, "FooHandler", <<>>)>> }

MCUrls == BoundedSeq({"/", "a", "b"}, 4)

\* Longer targets with an extension, for the static locations: a file, a
\* directory named with a '.', a missing file, a file below "/a/b", one
\* read from the filesystem root (a static "/b/" has no root), no
\* extension, a trailing '/', and the location itself.
StaticUrls ==
  { <<"/", "a", "/", "a", ".", "b">>, <<"/", "a", "/", "a", ".", "a">>,
    <<"/", "a", "/", "b", ".", "b">>, <<"/", "a", "/", "b", "/", "a", ".", "b">>,
    <<"/", "b", "/", "a", ".", "b">>, <<"/", "a", "/", "a">>,
    <<"/", "a", "/", "a", ".", "b", "/">>, <<"/", "a", "/", "b">> }

MCTargets == MCUrls \cup StaticUrls

\* Targets with a query string.
MCQueryTargets == {<<"/", "a", "?">>, <<"/", "a", "/", "b", "?", "a">>, <<"/", "?", "a">>}

\* The disk: the roots r and s and the data path d as directories, files
\* whose contents are their own path (so a wrong file is seen), a
\* directory whose name has a '.', and a file at the filesystem root.
DiskFile(p) == p :> [type |-> "file", body |-> p]
DiskDir(p) == p :> [type |-> "dir", body |-> <<>>]

MCDisk ==
  DiskDir(<<"r">>) @@ DiskDir(<<"s">>) @@ DiskDir(<<"d">>)
  @@ DiskFile(<<"r", "/", "a", ".", "b">>) @@ DiskDir(<<"r", "/", "a", ".", "a">>)
  @@ DiskFile(<<"s", "/", "a", ".", "b">>) @@ DiskFile(<<"d", "/", "a", ".", "b">>)
  @@ DiskFile(<<"/", "a", ".", "b">>)
=============================================================================
