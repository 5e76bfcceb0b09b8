--------------------------- MODULE PostLifecycle ---------------------------
(***************************************************************************)
(* What the CMS promises about one post, as if every operation were        *)
(* atomic: its status moves only along the allowed transitions, a          *)
(* scheduled post has a date, and it is published by the scheduler once    *)
(* that date has come and at no other time.                                *)
(***************************************************************************)
EXTENDS Naturals

CONSTANTS
    MaxTime,     \* the last instant of the model
    Contents,    \* the texts a post can have
    NoContent    \* the text of a post that does not exist

VARIABLES now, post

Statuses == {"DRAFT", "REVIEW", "SCHEDULED", "PUBLISHED", "ARCHIVED"}

\* validateStateTransition's table.
Allowed ==
    [DRAFT     |-> {"REVIEW", "SCHEDULED", "PUBLISHED", "ARCHIVED"},
     REVIEW    |-> {"DRAFT", "SCHEDULED", "PUBLISHED", "ARCHIVED"},
     SCHEDULED |-> {"DRAFT", "PUBLISHED", "ARCHIVED"},
     PUBLISHED |-> {"ARCHIVED", "DRAFT"},
     ARCHIVED  |-> {"DRAFT"}]

\* Instants are 1..MaxTime; 0 is a null column.
Dates == 0..MaxTime

Posts == [status : Statuses \cup {"NONE"}, scheduledAt : Dates, publishedAt : Dates,
          active : BOOLEAN, content : Contents \cup {NoContent}]
NoPost == [status |-> "NONE", scheduledAt |-> 0, publishedAt |-> 0,
           active |-> FALSE, content |-> NoContent]

WellScheduled(p) == p.status = "SCHEDULED" => p.scheduledAt # 0

Init == now = 1 /\ post = NoPost

\* A post is created in any status, with a date if that is SCHEDULED.
Create ==
    /\ post = NoPost
    /\ post' \in Posts
    /\ post'.status \in Statuses /\ post'.active /\ WellScheduled(post')
    /\ UNCHANGED now

\* An editor changes an active post, its status along the table only; a date it
\* has is never taken away.
Edit ==
    /\ post.active
    /\ post' \in Posts
    /\ post'.status \in Allowed[post.status] \cup {post.status}
    /\ WellScheduled(post')
    /\ post.scheduledAt # 0 => post'.scheduledAt # 0
    /\ UNCHANGED now

\* An editor removes a post; nothing else about it changes.
Delete ==
    /\ post # NoPost
    /\ post' = [post EXCEPT !.active = FALSE]
    /\ UNCHANGED now

\* The scheduler publishes an active post whose date has come.
PublishDue ==
    /\ post.status = "SCHEDULED" /\ post.active
    /\ post.scheduledAt \in 1..now
    /\ post' = [post EXCEPT !.status = "PUBLISHED",
                            !.publishedAt = post.scheduledAt,
                            !.scheduledAt = 0]
    /\ UNCHANGED now

Tick == now < MaxTime /\ now' = now + 1 /\ UNCHANGED post

Next == Create \/ Edit \/ Delete \/ PublishDue \/ Tick

vars == <<now, post>>

Spec == Init /\ [][Next]_vars
=============================================================================
