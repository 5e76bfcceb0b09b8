------------------------- MODULE MCReactionsImport -------------------------
(***************************************************************************)
(* Small instances of Reactions and Migration, which share nothing: each   *)
(* behaviour is one of either, chosen at the start, and the other rests.   *)
(* What rests has no step to be fair to.                                   *)
(***************************************************************************)
EXTENDS Reactions, MCMigration

VARIABLE part

\* Toggles are interchangeable: every behaviour is, but for names, one in which they
\* leave their first steps in an order fixed for good.
Early == {t \in Toggles : pc[t] \in {"idle", "write"}}

InOrder == Early \ Early' \subseteq {t \in Early : t = CHOOSE s \in Early : TRUE}

bothVars == <<vars, importVars, part>>

BothInit ==
    /\ Init /\ ImportInit
    /\ \/ part = "reactions" /\ export = CHOOSE e \in Exports : TRUE
       \/ part = "import"

BothNext ==
    \/ part = "reactions" /\ Next /\ InOrder /\ UNCHANGED <<importVars, part>>
    \/ part = "import" /\ ImportNext /\ UNCHANGED <<vars, part>>

BothSpec == BothInit /\ [][BothNext]_bothVars /\ ToggledFairly
=============================================================================
