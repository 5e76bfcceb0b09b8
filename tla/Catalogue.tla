----------------------------- MODULE Catalogue -----------------------------
(***************************************************************************)
(* What the taxonomy promises, as if every request were atomic: items of a *)
(* kind never share a slug, only an item that is listed is changed, and a  *)
(* category is put below one that is listed.                               *)
(***************************************************************************)
CONSTANTS Items, Categories, Slugs, NoSlug, NoItem

VARIABLE rows

Exists(i) == rows[i].slug # NoSlug

Alike(i) == IF i \in Categories THEN Categories ELSE Items \ Categories

Free(i, s) == \A j \in Alike(i) \ {i} : rows[j].slug # s

Listed(i) == Exists(i) /\ rows[i].active

Parent(i, p) == i \in Categories /\ p \in Categories \ {i} /\ Listed(p)

Create(i, s, p) ==
    /\ ~Exists(i)
    /\ Free(i, s)
    /\ p = NoItem \/ Parent(i, p)
    /\ rows' = [rows EXCEPT ![i] = [slug |-> s, active |-> TRUE, parent |-> p]]

Change(i, s, a, p) ==
    /\ Listed(i)
    /\ Free(i, s)
    /\ p = rows[i].parent \/ Parent(i, p)
    /\ rows' = [rows EXCEPT ![i] = [slug |-> s, active |-> a, parent |-> p]]

Next ==
    \E i \in Items, s \in Slugs, p \in Items \cup {NoItem} :
        Create(i, s, p) \/ \E a \in BOOLEAN : Change(i, s, a, p)
=============================================================================
