------------------------- MODULE MCIdempotencyMenus -------------------------
(***************************************************************************)
(* Small instances of Idempotency and Menus, which share nothing: each     *)
(* behaviour is one of either, chosen at the start, and the other rests.   *)
(* What rests has no step to be fair to.                                   *)
(***************************************************************************)
EXTENDS Idempotency, MCMenus

VARIABLE part

\* Requests, and payloads, are interchangeable: every behaviour is, but for names,
\* one in which the requests leave the steps before business logic in an order fixed
\* for good, and the first of that order has a payload fixed for good.
Early == {r \in Requests : pc[r] \in {"idle", "find", "delete", "create"}}

InOrder ==
    /\ Early \ Early' \subseteq {r \in Early : r = CHOOSE s \in Early : TRUE}
    /\ payload'[CHOOSE r \in Requests : TRUE] \in {NoPayload, CHOOSE p \in Payloads : TRUE}

bothVars == <<vars, menuVars, part>>

BothInit == part \in {"idempotency", "menus"} /\ Init /\ MenuInit

BothNext ==
    \/ part = "idempotency" /\ Next /\ InOrder /\ UNCHANGED <<menuVars, part>>
    \/ part = "menus" /\ MenuNext /\ UNCHANGED <<vars, part>>

BothSpec == BothInit /\ [][BothNext]_bothVars /\ ServedFairly
=============================================================================
