-------------------------- MODULE MC_ServerInit --------------------------
(***************************************************************************)
(* Model-checking instance of ServerInit.  Configuration files are built   *)
(* from statements: up to two top-level ones, or a server block of up to  *)
(* two inner statements followed by at most one more.  They name valid,   *)
(* out-of-range and non-numeric ports and thread counts, locations with   *)
(* and without a block and with an unknown kind, and an unterminated      *)
(* quote.                                                                  *)
(***************************************************************************)
EXTENDS ServerInit

Stmt(key, v) == <<key, "SP">> \o v \o <<";", "NL">>
Loc(path, kind, blk) ==
  <<"location", "SP">> \o path \o <<"SP", kind>>
  \o (IF blk THEN <<"SP", "{", "}", "NL">> ELSE <<";", "NL">>)

Top ==
  { Stmt("port", <<"8", "0">>), Stmt("port", <<"6", "5", "5", "3", "5">>),
    Stmt("port", <<"-", "1">>), Stmt("port", <<"7", "0", "0", "0", "0">>), Stmt("threads", <<"0">>),
    Stmt("threads", <<"2">>), Stmt("threads", <<"a">>),
    <<"'">>, <<"}">> }

Inner ==
  { Stmt("port", <<"4", "0", "0", "0", "0">>), Stmt("threads", <<"2">>),
    Loc(<<"/", "a">>, "EchoHandler", TRUE), Loc(<<"/">>, "Foo", TRUE),
    Loc(<<"/", "a">>, "EchoHandler", FALSE) }

ServerBlock(body) == <<"server", "SP", "{", "NL">> \o body \o <<"}", "NL">>

MCConfigs ==
  { FlattenSeq(ps) : ps \in BoundedSeq(Top, 2) }
  \cup { ServerBlock(FlattenSeq(ps)) \o FlattenSeq(qs) :
           ps \in BoundedSeq(Inner, 2), qs \in BoundedSeq(Top, 1) }
=============================================================================
