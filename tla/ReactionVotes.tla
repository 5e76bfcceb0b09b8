--------------------------- MODULE ReactionVotes ---------------------------
(***************************************************************************)
(* What toggling reactions promises, as if every toggle were atomic: each  *)
(* user has at most one reaction to an object, toggling sets, changes or   *)
(* removes it, and the tally follows every reaction.                       *)
(***************************************************************************)
EXTENDS Integers, FiniteSets

CONSTANTS Users, Types, NoType

VARIABLES vote, tally

vars == <<vote, tally>>

Init ==
    /\ vote = [u \in Users |-> NoType]
    /\ tally = [ty \in Types |-> 0]

\* The vote of a user who had v and toggles ty.
Toggled(v, ty) == IF v = ty THEN NoType ELSE ty

\* What the tally of k gains when a vote moves from old to new.
Gain(old, new, k) == (IF new = k THEN 1 ELSE 0) - (IF old = k THEN 1 ELSE 0)

Toggle(u, ty) ==
    /\ vote' = [vote EXCEPT ![u] = Toggled(@, ty)]
    /\ tally' = [k \in Types |-> tally[k] + Gain(vote[u], Toggled(vote[u], ty), k)]

Next == \E u \in Users, ty \in Types : Toggle(u, ty)

Spec == Init /\ [][Next]_vars

\* The tally of a type is the number of users whose reaction it is.
Counted == \A ty \in Types : tally[ty] = Cardinality({u \in Users : vote[u] = ty})
=============================================================================
