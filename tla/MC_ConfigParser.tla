-------------------------- MODULE MC_ConfigParser --------------------------
(***************************************************************************)
(* Model-checking instance of ConfigParser: every text of at most five   *)
(* characters over a word character, a quote, the three structural        *)
(* characters, a comment mark, newline and carriage return.               *)
(***************************************************************************)
EXTENDS ConfigParser

Chars == {"a", "'", ";", "{", "}", "#", "NL", "CR"}

MCInputs == BoundedSeq(Chars, 5)
=============================================================================
