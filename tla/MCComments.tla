----------------------------- MODULE MCComments -----------------------------
(***************************************************************************)
(* A small instance of Comments: an author and a moderator, one approved   *)
(* comment and room for two more.                                          *)
(***************************************************************************)
EXTENDS Comments, TLC

CONSTANTS c1, c2, c3, u1, u2, p1, hello, shout

Old(s, l) ==
    [author |-> u1, post |-> p1, parent |-> NoComment, depth |-> 0, text |-> hello,
     status |-> s, active |-> l, pinned |-> FALSE, flags |-> 0]

\* The comment the requests find: approved, or deleted.
MCTables ==
    {[c \in Comments |-> IF c = c1 THEN t ELSE Absent] :
        t \in {Old("APPROVED", TRUE), Old("DELETED", FALSE)}}

\* Requests are interchangeable.
Symmetry == Permutations(Requests)

\* shout is hello in capitals.
MCNormal == [t \in Texts |-> hello]
=============================================================================
