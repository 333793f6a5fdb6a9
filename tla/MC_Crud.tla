------------------------------ MODULE MC_Crud ------------------------------
(* CRUD requests on one entity type.  Id targets are sequences of          *)
(* characters: canonical ids (three, so that a gap can open below the      *)
(* largest), an invalid id, an id with a leading zero, and one beyond      *)
(* INT_MAX.                                                                 *)
EXTENDS Crud

IdCanonical == {<<"0">>, <<"1">>, <<"2">>, <<"x">>}
IdZeroPadded == {<<"0">>, <<"0", "0">>, <<"1">>}
IdHuge == {<<"9", "9", "9", "9", "9", "9", "9", "9", "9", "9">>}
=============================================================================
