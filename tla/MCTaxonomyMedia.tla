-------------------------- MODULE MCTaxonomyMedia --------------------------
(***************************************************************************)
(* Small instances of Taxonomy and MediaSync, which share nothing: each    *)
(* behaviour is one of either, chosen at the start, and the other rests.   *)
(* What rests has no step to be fair to.                                   *)
(***************************************************************************)
EXTENDS MCTaxonomy, MCMediaSync

VARIABLE part

bothVars == <<vars, syncVars, part>>

BothInit == part \in {"taxonomy", "media_sync"} /\ Init /\ SyncInit

BothNext ==
    \/ part = "taxonomy" /\ Next /\ UNCHANGED <<syncVars, part>>
    \/ part = "media_sync" /\ SyncNext /\ UNCHANGED <<vars, part>>

BothSpec == BothInit /\ [][BothNext]_bothVars /\ Fairness
=============================================================================
