-------------------------- MODULE MCPostPublishing --------------------------
(***************************************************************************)
(* A small instance of PostPublishing: one request creates the post, two   *)
(* more run against it and against the jobs of two worker processes.       *)
(***************************************************************************)
EXTENDS PostPublishing

CONSTANTS c1, c2

\* One input for each kind of change a handler distinguishes: each status, with
\* and without a date, a new date, a new text, a text of which nothing is left, and the
\* active flag.
MCEdits ==
    {[NoInput EXCEPT !.content = c1],
     [NoInput EXCEPT !.content = c1, !.status = "SCHEDULED", !.scheduledAt = 2],
     [NoInput EXCEPT !.content = c2],
     [NoInput EXCEPT !.content = Blank],
     [NoInput EXCEPT !.scheduledAt = 3],
     [NoInput EXCEPT !.active = "on"]}
    \cup {[NoInput EXCEPT !.status = s] : s \in Statuses \ {"REVIEW"}}
=============================================================================
