------------------------------ MODULE PageTree ------------------------------
(***************************************************************************)
(* What the page station promises, as if every request were atomic: live   *)
(* pages make no cycle among themselves, no two pages of a tenant share a  *)
(* slug, and a page that was taken down is never touched again, though it  *)
(* may still be the parent of others.                                      *)
(***************************************************************************)
CONSTANTS Pages, NoPage, Owner, Slugs, NoSlug

VARIABLES parent, slug, live

vars == <<parent, slug, live>>

Children(p) == {c \in live : parent[c] = p}

\* The pages at or below p, by way of live pages: those in every set that holds p
\* and its members' children.
Below(p) ==
    {q \in Pages : \A D \in SUBSET Pages :
        p \in D /\ (\A d \in D : Children(d) \subseteq D) => q \in D}

\* No cycle of live pages: whatever live pages are taken, one of them has its
\* parent elsewhere.
Forest == \A C \in SUBSET live : C # {} => \E c \in C : parent[c] \notin C

FreeSlug(s, p) == \A q \in Pages \ {p} : Owner[q] = Owner[p] => slug[q] # s

Init == Forest /\ live \subseteq {p \in Pages : slug[p] # NoSlug}

Put(p, q, s, l) ==
    /\ FreeSlug(s, p)
    /\ parent' = [parent EXCEPT ![p] = q]
    /\ slug' = [slug EXCEPT ![p] = s]
    /\ live' = l

\* A page that never was is created under another, or at the root.
Add(p, q, s) ==
    /\ slug[p] = NoSlug
    /\ q = NoPage \/ slug[q] # NoSlug
    /\ Put(p, q, s, live \cup {p})

\* A live page is renamed, moved to a place not below it, or taken down.
Change(p, q, s, l) ==
    /\ p \in live
    /\ l \in {live, live \ {p}}
    /\ Put(p, q, s, l)
    /\ q = parent[p] \/ q \notin Below(p)

Next ==
    \E p \in Pages, q \in Pages \cup {NoPage}, s \in Slugs :
        \/ Add(p, q, s)
        \/ \E l \in {live, live \ {p}} : Change(p, q, s, l)

Spec == Init /\ [][Next]_vars
=============================================================================
