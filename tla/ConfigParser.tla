---------------------------- MODULE ConfigParser ----------------------------
(***************************************************************************)
(* NginxConfigParser (src/src/config_parser.cc): the character tokenizer   *)
(* ParseToken, the stack-based Parse loop, and NginxConfig::ToString.      *)
(*                                                                         *)
(* Characters are strings: letters and punctuation stand for themselves,   *)
(* "SP", "TAB", "NL" and "CR" for ' ', '\t', '\n' and '\r'.  A token value *)
(* is a sequence of characters.  The tree is kept flat: stmts is the       *)
(* sequence of statements in the order Parse creates them (preorder), each *)
(* [blk, tokens, child] where blk is the block holding it -- 0 for the     *)
(* root, i for the child block of statement i -- and child tells whether   *)
(* it has a child block.  Parse is a function of its input, so it is      *)
(* modelled as operators and checked over every input up to a length.    *)
(***************************************************************************)
EXTENDS Integers, Sequences, SequencesExt

CONSTANT Inputs   \* the configuration texts parsed

Whitespace == {"SP", "TAB", "NL", "CR"}

(* TokenParserState and TokenType *)
INITIAL == "INITIAL_WHITESPACE"
SQUOTE == "SINGLE_QUOTE"
DQUOTE == "DOUBLE_QUOTE"
COMMENT == "COMMENT"
NORMAL == "NORMAL"
START == "START"
START_BLOCK == "START_BLOCK"
END_BLOCK == "END_BLOCK"
STATEMENT_END == "STATEMENT_END"
EOF == "EOF"
ERROR == "ERROR"

Tok(type, value, rest) == [type |-> type, value |-> value, rest |-> rest]

(* The characters that end a TOKEN_STATE_TOKEN_TYPE_NORMAL token: the    *)
(* code tests ' ', '\t', '\n', '\t' again, ';', '{', '}' -- not '\r'.     *)
EndsPlainToken(c) == c \in {"SP", "TAB", "NL", ";", "{", "}"}

(* ParseToken: scan from state st with value v so far; the result names   *)
(* the token, its value, and the input left (a plain token's terminating  *)
(* character is put back with unget).                                      *)
RECURSIVE Scan(_, _, _)
Scan(in, st, v) ==
  IF in = <<>>
  THEN Tok(IF st \in {SQUOTE, DQUOTE} THEN ERROR ELSE EOF, v, in)
  ELSE LET c == Head(in)
           r == Tail(in)
       IN CASE st = INITIAL ->
                 CASE c = "{" -> Tok(START_BLOCK, <<c>>, r)
                   [] c = "}" -> Tok(END_BLOCK, <<c>>, r)
                   [] c = "#" -> Scan(r, COMMENT, <<c>>)
                   [] c = "\"" -> Scan(r, DQUOTE, <<c>>)
                   [] c = "'" -> Scan(r, SQUOTE, <<c>>)
                   [] c = ";" -> Tok(STATEMENT_END, <<c>>, r)
                   [] c \in Whitespace -> Scan(r, INITIAL, v)
                   [] OTHER -> Scan(r, NORMAL, Append(v, c))
            [] st = SQUOTE ->
                 IF c = "'" THEN Tok(NORMAL, Append(v, c), r)
                 ELSE Scan(r, SQUOTE, Append(v, c))
            [] st = DQUOTE ->
                 IF c = "\"" THEN Tok(NORMAL, Append(v, c), r)
                 ELSE Scan(r, DQUOTE, Append(v, c))
            [] st = COMMENT ->
                 IF c \in {"NL", "CR"} THEN Tok(COMMENT, v, r)
                 ELSE Scan(r, COMMENT, Append(v, c))
            [] st = NORMAL ->
                 IF EndsPlainToken(c) THEN Tok(NORMAL, v, in)
                 ELSE Scan(r, NORMAL, Append(v, c))

ParseToken(in) == Scan(in, INITIAL, <<>>)

-----------------------------------------------------------------------------
(* The outcome of Parse: "true", "false", or "ub" when the loop calls     *)
(* top() or pop() on the empty config_stack.                              *)
Outcome(r, stmts) == [result |-> r, stmts |-> stmts]

(* config_stack.top()->statements_.back(): the last statement of block b. *)
BackOf(stmts, b) == Max({i \in DOMAIN stmts : stmts[i].blk = b})

(* A NORMAL token: a fresh statement unless the previous token was NORMAL, *)
(* then the token is appended to the top block's last statement.           *)
AddToken(stmts, b, v, fresh) ==
  IF fresh THEN Append(stmts, [blk |-> b, tokens |-> <<v>>, child |-> FALSE])
  ELSE [stmts EXCEPT ![BackOf(stmts, b)].tokens = Append(@, v)]

(* Variant: the statement is not given its child block. *)
OpenChildLost(stmts, b) == stmts

(* A START_BLOCK: the top block's last statement gets a child block. *)
OpenChild(stmts, b) == [stmts EXCEPT ![BackOf(stmts, b)].child = TRUE]

(* The tokens after which '}' is valid. *)
EndBlockAllowed(last) == last \in {STATEMENT_END, START_BLOCK, END_BLOCK}

(* The Parse loop over the tokens of in: stack is config_stack (block ids, *)
(* top last), last is last_token_type.                                      *)
RECURSIVE ParseLoop(_, _, _, _)
ParseLoop(in, stack, last, stmts) ==
  LET t == ParseToken(in)
  IN CASE t.type = ERROR -> Outcome("false", stmts)
       [] t.type = COMMENT -> ParseLoop(t.rest, stack, last, stmts)
       [] t.type = NORMAL ->
            IF last \notin {START, STATEMENT_END, START_BLOCK, END_BLOCK, NORMAL}
            THEN Outcome("false", stmts)
            ELSE IF stack = <<>> THEN Outcome("ub", stmts)
            ELSE ParseLoop(t.rest, stack, NORMAL,
                           AddToken(stmts, Last(stack), t.value, last # NORMAL))
       [] t.type = STATEMENT_END ->
            IF last # NORMAL THEN Outcome("false", stmts)
            ELSE ParseLoop(t.rest, stack, STATEMENT_END, stmts)
       [] t.type = START_BLOCK ->
            IF last # NORMAL THEN Outcome("false", stmts)
            ELSE ParseLoop(t.rest, Append(stack, BackOf(stmts, Last(stack))),
                           START_BLOCK, OpenChild(stmts, Last(stack)))
       [] t.type = END_BLOCK ->
            IF ~EndBlockAllowed(last) THEN Outcome("false", stmts)
            ELSE IF stack = <<>> THEN Outcome("ub", stmts)
            ELSE ParseLoop(t.rest, Front(stack), END_BLOCK, stmts)
       [] t.type = EOF ->
            IF last \in {STATEMENT_END, END_BLOCK, START}
            THEN Outcome("true", stmts) ELSE Outcome("false", stmts)

(* NginxConfigParser::Parse(istream, config) on an empty root config. *)
Parse(in) == ParseLoop(in, <<0>>, START, <<>>)

-----------------------------------------------------------------------------
Indent(depth) == [i \in 1..(2 * depth) |-> "SP"]

(* Variant: the tokens are appended without the separating space. *)
JoinedTight(ts) == FlattenSeq(ts)

(* The tokens of a statement joined by single spaces. *)
RECURSIVE Joined(_)
Joined(ts) ==
  IF Len(ts) <= 1 THEN FlattenSeq(ts) ELSE Head(ts) \o <<"SP">> \o Joined(Tail(ts))

(* NginxConfig::ToString(depth) of block b, and                          *)
(* NginxConfigStatement::ToString(depth) of each of its statements.      *)
RECURSIVE BlockText(_, _, _), StatementText(_, _, _)
BlockText(stmts, b, depth) ==
  FoldLeft(LAMBDA acc, i : acc \o StatementText(stmts, i, depth), <<>>,
           SetToSortSeq({i \in DOMAIN stmts : stmts[i].blk = b}, <))

StatementText(stmts, i, depth) ==
  Indent(depth) \o Joined(stmts[i].tokens)
  \o (IF stmts[i].child
      THEN <<"SP", "{", "NL">> \o BlockText(stmts, i, depth + 1)
           \o Indent(depth) \o <<"}">>
      ELSE <<";">>)
  \o <<"NL">>

SerializedConfig(stmts) == BlockText(stmts, 0, 0)

-----------------------------------------------------------------------------
VARIABLES input,   \* the configuration text
          parsed   \* what Parse returned, with the config tree it built

vars == <<input, parsed>>

Init ==
  /\ input \in Inputs
  /\ parsed = Outcome("none", <<>>)

(* NginxConfigParser::Parse(file_name, &config) on an empty config, the   *)
(* file opened (input is its contents).                                   *)
ParseConfig ==
  /\ parsed.result = "none"
  /\ parsed' = Parse(input)
  /\ UNCHANGED input

Spec == Init /\ [][ParseConfig]_vars

(* Every statement has tokens and lives in the root or in the child block *)
(* of an earlier statement.                                               *)
TypeOK ==
  /\ input \in Inputs
  /\ parsed.result \in {"none", "true", "false", "ub"}
  /\ \A i \in DOMAIN parsed.stmts :
       /\ parsed.stmts[i].tokens # <<>>
       /\ \/ parsed.stmts[i].blk = 0
          \/ parsed.stmts[i].blk < i /\ parsed.stmts[parsed.stmts[i].blk].child

(* Round trip (spec.md 8): a configuration Parse accepts, serialised with *)
(* ToString and parsed again, is accepted and gives the same tree.        *)
RoundTrip ==
  parsed.result = "true" => Parse(SerializedConfig(parsed.stmts)) = parsed

(* A newline at the end of the file changes nothing: Parse accepts the    *)
(* text with and without it alike, with the same tree (spec.md 4.2: EOF   *)
(* is valid only after ';', '}' or nothing, so no token is left behind).  *)
TrailingNewlineNeutral ==
  LET withNL == Parse(input \o <<"NL">>)
  IN /\ withNL.result = Parse(input).result
     /\ withNL.result = "true" => withNL.stmts = Parse(input).stmts

(* Parse never calls top() or pop() on the empty config_stack. *)
NoEmptyStackAccess == Parse(input).result # "ub"

(* A plain token ends at whitespace (spec.md 4.1): no unquoted token of  *)
(* an accepted configuration holds a whitespace character.               *)
NoWhitespaceInPlainTokens ==
  Parse(input).result = "true" =>
    \A i \in DOMAIN Parse(input).stmts :
      \A v \in ToSet(Parse(input).stmts[i].tokens) :
        v[1] \notin {"'", "\""} => ToSet(v) \cap Whitespace = {}
=============================================================================
