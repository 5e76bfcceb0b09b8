----------------------------- MODULE Moderation -----------------------------
(***************************************************************************)
(* What the comment station promises, as if every request were atomic: a   *)
(* comment is read, judged and pinned as it stands, a deleted one is never *)
(* edited or answered, and every flag counts.  Deletion is not final: a    *)
(* moderator may give a deleted comment another status, though not make it *)
(* active again.                                                           *)
(***************************************************************************)
EXTENDS Integers

CONSTANTS Comments, NoComment, Texts, NoText, Statuses, MaxDepth

\* row[c]: the comment, whose text is NoText when there is none.
VARIABLE row

\* Another comment may be answered by c at depth d.
Answers(c, q, d) ==
    IF q = NoComment THEN d = 0
    ELSE /\ row[q].text # NoText
         /\ row[q].status \notin {"DELETED", "REJECTED"}
         /\ d = row[q].depth + 1 /\ d <= MaxDepth

Submit(c) ==
    /\ row[c].text = NoText
    /\ \E t \in Texts, q \in Comments \cup {NoComment}, d \in 0..MaxDepth :
        /\ Answers(c, q, d)
        /\ row' = [row EXCEPT ![c] = [parent |-> q, depth |-> d, text |-> t,
                                      status |-> "PENDING", active |-> TRUE,
                                      pinned |-> FALSE, flags |-> 0]]

\* Edited comments are moderated again.
Edit(c) ==
    /\ row[c].status # "DELETED"
    /\ \E t \in Texts : row' = [row EXCEPT ![c].text = t, ![c].status = "PENDING"]

Remove(c) == row' = [row EXCEPT ![c].status = "DELETED", ![c].active = FALSE]

Judge(c) == \E s \in Statuses : row' = [row EXCEPT ![c].status = s]

Pin(c) ==
    /\ row[c].status = "APPROVED"
    /\ \E b \in BOOLEAN : row' = [row EXCEPT ![c].pinned = b]

Flag(c) == row' = [row EXCEPT ![c].flags = @ + 1]

Next ==
    \E c \in Comments :
        \/ Submit(c)
        \/ row[c].text # NoText /\ (Edit(c) \/ Remove(c) \/ Judge(c) \/ Pin(c) \/ Flag(c))
=============================================================================
