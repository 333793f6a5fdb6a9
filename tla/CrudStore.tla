------------------------------ MODULE CrudStore ------------------------------
(***************************************************************************)
(* What the CRUD handler promises for one entity type (the contracts in    *)
(* the comments of request_handler_crud.cc, and spec.md 8 for the next    *)
(* id): a store of entities, and each request a single atomic step that   *)
(* answers its client.  Create takes the first unused id; Update answers  *)
(* 201 when it creates the entity and 200 when it replaces it; Retrieve,  *)
(* Delete and List answer 404 for what does not exist; an invalid id is   *)
(* 400 and another method 501.                                             *)
(***************************************************************************)
EXTENDS Integers, Sequences, SequencesExt, FiniteSets

CONSTANTS Clients,   \* the clients sending requests
          Ids,       \* the ids their PUT, GET and DELETE targets name
          Bodies     \* the request bodies they send

VARIABLES typeExists,  \* the entity type has been created
          store,       \* id -> the body stored
          resp         \* per client: the last response [m, code, val] to its
                       \* request of method m; val is
                       \* the created id, the entity read or the ids listed,
                       \* as a set

vars == <<typeExists, store, resp>>

NoResp == [m |-> "none", code |-> 0, val |-> {}]

Numerals == <<"0", "1", "2", "3", "4", "5", "6", "7", "8", "9">>

ValidId(id) == id # <<>> /\ ToSet(id) \subseteq ToSet(Numerals)

NumeralOf(ch) == CHOOSE d \in 0..9 : Numerals[d + 1] = ch

IdValue(id) == FoldLeft(LAMBDA acc, ch : acc * 10 + NumeralOf(ch), 0, id)

RECURSIVE Decimal(_)
Decimal(n) == IF n < 10 THEN <<Numerals[n + 1]>>
              ELSE Decimal(n \div 10) \o <<Numerals[(n % 10) + 1]>>

(* spec.md 8: the first gap in the ascending ids, or one past the largest. *)
NewId == LET used == {IdValue(id) : id \in DOMAIN store}
         IN Decimal(Min({n \in 0..Cardinality(used) : n \notin used}))

Answer(c, m, code, val) ==
  resp' = [resp EXCEPT ![c] = [m |-> m, code |-> code, val |-> val]]

Init ==
  /\ typeExists = FALSE
  /\ store = [id \in {} |-> {}]
  /\ resp = [c \in Clients |-> NoResp]

Create(c, body) ==
  /\ store' = (NewId :> body) @@ store
  /\ typeExists' = TRUE
  /\ Answer(c, "POST", 201, {NewId})

Update(c, id, body) ==
  IF ValidId(id)
  THEN /\ store' = (id :> body) @@ store
       /\ typeExists' = TRUE
       /\ Answer(c, "PUT", IF id \in DOMAIN store THEN 200 ELSE 201, {})
  ELSE Answer(c, "PUT", 400, {}) /\ UNCHANGED <<typeExists, store>>

Retrieve(c, id) ==
  /\ IF id \in DOMAIN store THEN Answer(c, "GET", 200, {store[id]})
     ELSE Answer(c, "GET", 404, {})
  /\ UNCHANGED <<typeExists, store>>

Delete(c, id) ==
  CASE ~ValidId(id) -> Answer(c, "DELETE", 400, {}) /\ UNCHANGED <<typeExists, store>>
    [] id \notin DOMAIN store -> Answer(c, "DELETE", 404, {}) /\ UNCHANGED <<typeExists, store>>
    [] OTHER -> /\ store' = [i \in DOMAIN store \ {id} |-> store[i]]
                /\ Answer(c, "DELETE", 200, {})
                /\ UNCHANGED typeExists

List(c) ==
  /\ IF typeExists THEN Answer(c, "GET", 200, DOMAIN store) ELSE Answer(c, "GET", 404, {})
  /\ UNCHANGED <<typeExists, store>>

Unsupported(c) == Answer(c, "OTHER", 501, {}) /\ UNCHANGED <<typeExists, store>>

Next ==
  \E c \in Clients :
    \/ \E body \in Bodies : Create(c, body)
    \/ \E id \in Ids : \/ \E body \in Bodies : Update(c, id, body)
                       \/ Retrieve(c, id) \/ Delete(c, id)
    \/ List(c)
    \/ Unsupported(c)

Spec == Init /\ [][Next]_vars
=============================================================================
