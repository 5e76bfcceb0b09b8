----------------------------- MODULE MCTaxonomy -----------------------------
(***************************************************************************)
(* A small instance of Taxonomy: a category, one below it, one more to be  *)
(* created, and a tag with the slug of the first.                          *)
(***************************************************************************)
EXTENDS Taxonomy, TLC

CONSTANTS c1, c2, c3, t1, s1, s2, s3

Body(s, a, p) == [slug |-> s, active |-> a, parent |-> p]

MCEdits ==
    {Body(s3, "keep", NoItem), Body(s3, "keep", c1), Body(s1, "keep", NoItem),
     Body(NoSlug, "on", NoItem), Body(NoSlug, "off", NoItem)}
        \cup {Body(NoSlug, "keep", p) : p \in {c1, c2, c3}}

Row(s) == [slug |-> s, active |-> TRUE, parent |-> NoItem]

MCSeeded ==
    (c1 :> Row(s1)) @@ (c2 :> [Row(s2) EXCEPT !.parent = c1]) @@ (c3 :> NoRow) @@ (t1 :> Row(s1))
=============================================================================
