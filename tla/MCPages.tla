------------------------------ MODULE MCPages ------------------------------
(***************************************************************************)
(* A small instance of Pages: two requests over tables of up to three      *)
(* pages of one tenant and a page of another.                              *)
(***************************************************************************)
EXTENDS Pages, TLC

CONSTANTS p1, p2, p3, p4, home, away, a, b, c

MCTenant == [p \in Pages |-> IF p = p4 THEN away ELSE home]

At(q, s, up, l) ==
    [parent |-> q, slug |-> s, path |-> up \o s, depth |-> Len(up), active |-> l]

\* The third slug could be taken for the path of the second page below the first.
MCSlugs == {<<a>>, <<b>>, <<c>>, <<a, b>>}

\* The other tenant has deleted its page, or it is below p1 and has a child of the
\* first tenant.
Foreign == p4 :> At(NoPage, <<a>>, <<>>, FALSE)

\* A chain; a page with two children; a page whose child is in the way of a third
\* page when it is renamed; a page with one child, deleted or not, and room for
\* a third page.
MCTrees ==
    {(p1 :> At(NoPage, <<a>>, <<>>, TRUE)) @@ (p2 :> At(p1, <<b>>, <<a>>, TRUE))
        @@ (p3 :> At(p2, <<c>>, <<a, b>>, TRUE)) @@ Foreign,
     (p1 :> At(NoPage, <<a>>, <<>>, TRUE)) @@ (p2 :> At(p1, <<b>>, <<a>>, TRUE))
        @@ (p3 :> At(p1, <<c>>, <<a>>, TRUE)) @@ Foreign,
     (p1 :> At(NoPage, <<c>>, <<>>, TRUE)) @@ (p2 :> At(p1, <<b>>, <<c>>, TRUE))
        @@ (p3 :> At(NoPage, <<a, b>>, <<>>, TRUE)) @@ Foreign,
     (p1 :> At(NoPage, <<a>>, <<>>, TRUE)) @@ (p4 :> At(p1, <<b>>, <<a>>, TRUE))
        @@ (p3 :> At(p4, <<c>>, <<a, b>>, TRUE)) @@ (p2 :> At(NoPage, <<b>>, <<>>, FALSE))}
    \cup {(p1 :> At(NoPage, <<a>>, <<>>, TRUE)) @@ (p2 :> At(p1, <<b>>, <<a>>, l))
             @@ (p3 :> Absent) @@ Foreign : l \in BOOLEAN}

\* A move, a rename, both, a change that leaves the place alone, a deactivation,
\* and one that sends the active flag as it is.
MCEdits ==
    {[parent |-> q, slug |-> Keep, active |-> "keep"] : q \in Pages \cup {NoPage, Keep}}
    \cup {[parent |-> Keep, slug |-> s, active |-> "keep"] : s \in {<<a>>, <<c>>, <<a, b>>}}
    \cup {[parent |-> NoPage, slug |-> <<a, b>>, active |-> "keep"]}
    \cup {[parent |-> Keep, slug |-> Keep, active |-> l] : l \in {"on", "off"}}
=============================================================================
