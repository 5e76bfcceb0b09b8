------------------------------ MODULE Comments ------------------------------
(***************************************************************************)
(* The comments of one tenant (modules/comments): requests that create,    *)
(* edit, delete, moderate, pin and flag comments.  Each reads the comment  *)
(* with findById, checks what it read, and updates the row by id in a      *)
(* later statement; creation counts and searches before it inserts.        *)
(*                                                                         *)
(* Texts are abstract, with a normal form: what createComment compares is  *)
(* the normal form of the new text, what it stores is the text itself.     *)
(* rootId is left out: it is the top of the chain of parents.              *)
(***************************************************************************)
EXTENDS Integers, FiniteSets

CONSTANTS
    Comments, NoComment,   \* comment ids, and null
    Users, Moderators,     \* users, and those with a moderating role
    Posts,
    Texts, NoText,
    Normal,                \* Normal[t]: t trimmed, in lower case, single-spaced
    Requests,
    Limit,                 \* comments a user may create in a minute (5)
    MaxDepth,              \* MAX_NESTING_DEPTH (10)
    Judgements,            \* bound: the statuses that moderators set
    Tables                 \* the comments the requests may find, none flagged

Statuses == {"PENDING", "APPROVED", "REJECTED", "DELETED", "SPAM", "REMOVED"}

Rows ==
    [author : Users, post : Posts, parent : Comments \cup {NoComment}, depth : 0..MaxDepth,
     text : Texts, status : Statuses, active : BOOLEAN, pinned : BOOLEAN, flags : Nat]

\* A comment that was never created.
Absent ==
    [author |-> CHOOSE u \in Users : TRUE, post |-> CHOOSE p \in Posts : TRUE,
     parent |-> NoComment, depth |-> 0, text |-> NoText, status |-> "PENDING",
     active |-> FALSE, pinned |-> FALSE, flags |-> 0]

ASSUME CommentsConstants ==
    /\ NoComment \notin Comments /\ NoText \notin Texts
    /\ Users # {} /\ Posts # {} /\ Moderators \subseteq Users
    /\ Normal \in [Texts -> Texts]
    /\ Limit \in Nat /\ MaxDepth \in Nat
    /\ Judgements \subseteq Statuses
    /\ Tables \subseteq [Comments -> Rows \cup {Absent}]
    /\ \A t \in Tables, c \in Comments : t[c].flags = 0

VARIABLES
    row,        \* row[c]: the row of comment c
    age,        \* age[c]: created within the last minute, five minutes, or before
    pc,         \* pc[r]: the await at which request r stands
    req,        \* req[r]: the comment r is about, and what it asks for
    seen,       \* seen[r]: the row r read: its comment's, or its parent's
    approved,   \* history: the text of c that the request approving it read
    flagged,    \* history: requests that have flagged a comment
    counted,    \* history: the comments its user had when r counted them
    stale,      \* history: an update or reply was decided on a row since changed
    crowded     \* history: a comment was created by a user who had created
                \* others since they were counted

vars == <<row, age, pc, req, seen, approved, flagged, counted, stale, crowded>>

Ages == {"new", "recent", "old"}

Locations ==
    {"idle", "duplicate", "parent", "create", "update", "delete", "moderate", "pin",
     "flag", "done"}

\* What a request asks for: its user and comment, and the new text, parent and
\* post, status, or pin, whichever its operation takes.
NoReq ==
    [user |-> Absent.author, comment |-> NoComment, text |-> NoText, parent |-> NoComment,
     post |-> Absent.post, status |-> "PENDING", pin |-> FALSE]

Reqs ==
    [user : Users, comment : Comments \cup {NoComment}, text : Texts \cup {NoText},
     parent : Comments \cup {NoComment}, post : Posts, status : Statuses, pin : BOOLEAN]

Init ==
    /\ \E t \in Tables : row = t
    /\ age = [c \in Comments |-> "old"]
    /\ pc = [r \in Requests |-> "idle"]
    /\ req = [r \in Requests |-> NoReq]
    /\ seen = [r \in Requests |-> Absent]
    /\ approved = [c \in Comments |-> IF row[c].status = "APPROVED" THEN row[c].text ELSE NoText]
    /\ flagged = {}
    /\ counted = [r \in Requests |-> {}]
    /\ stale = FALSE /\ crowded = FALSE

Exists(c) == c \in Comments /\ row[c] # Absent

CommentsBy(u) == {c \in Comments : Exists(c) /\ row[c].author = u}

\* countRecentByUser.
NewBy(u) == {c \in CommentsBy(u) : age[c] = "new"}

\* findDuplicate, given the normal form of the new text.
DuplicatesOf(u, p, t) ==
    {c \in Comments :
        Exists(c) /\ row[c].author = u /\ row[c].post = p /\ row[c].text = t /\ age[c] # "old"}

Goto(r, l) == pc' = [pc EXCEPT ![r] = l]

\* The request is answered, or its process is gone.
End(r) ==
    /\ Goto(r, "done")
    /\ req' = [req EXCEPT ![r] = NoReq]
    /\ seen' = [seen EXCEPT ![r] = Absent]
    /\ counted' = [counted EXCEPT ![r] = {}]

Refused(r) == End(r) /\ UNCHANGED <<row, age, approved, flagged, stale, crowded>>

----------------------------------------------------------------------------
(* createComment *)

\* Deviation: one comment too many is let through.
CountOneMore(r, u, p, q, t) ==
    /\ pc[r] = "idle"
    /\ Cardinality(NewBy(u)) <= Limit
    /\ req' = [req EXCEPT ![r] = [NoReq EXCEPT !.user = u, !.text = t, !.parent = q, !.post = p]]
    /\ counted' = [counted EXCEPT ![r] = CommentsBy(u)]
    /\ Goto(r, "duplicate")
    /\ UNCHANGED <<row, age, seen, approved, flagged, stale, crowded>>

\* The user's comments of the last minute are counted.
Count(r, u, p, q, t) ==
    /\ pc[r] = "idle"
    /\ Cardinality(NewBy(u)) < Limit
    /\ req' = [req EXCEPT ![r] = [NoReq EXCEPT !.user = u, !.text = t, !.parent = q, !.post = p]]
    /\ counted' = [counted EXCEPT ![r] = CommentsBy(u)]
    /\ Goto(r, "duplicate")
    /\ UNCHANGED <<row, age, seen, approved, flagged, stale, crowded>>

CheckDuplicate(r) ==
    /\ pc[r] = "duplicate"
    /\ IF DuplicatesOf(req[r].user, req[r].post, Normal[req[r].text]) # {}
       THEN Refused(r)
       ELSE /\ Goto(r, IF req[r].parent = NoComment THEN "create" ELSE "parent")
            /\ UNCHANGED <<row, age, req, seen, approved, flagged, counted, stale, crowded>>

\* Deviation: the depth of the parent is compared, not that of the reply.
AnswerableOneDeeper(q) ==
    /\ Exists(q)
    /\ row[q].status \notin {"DELETED", "REJECTED"}
    /\ row[q].depth <= MaxDepth

\* The parent is neither deleted nor rejected, nor too deep.
Answerable(q) ==
    /\ Exists(q)
    /\ row[q].status \notin {"DELETED", "REJECTED"}
    /\ row[q].depth + 1 <= MaxDepth

FindParent(r) ==
    /\ pc[r] = "parent"
    /\ IF Answerable(req[r].parent)
       THEN /\ seen' = [seen EXCEPT ![r] = row[req[r].parent]]
            /\ Goto(r, "create")
            /\ UNCHANGED <<row, age, req, approved, flagged, counted, stale, crowded>>
       ELSE Refused(r)

Create(r, c) ==
    /\ pc[r] = "create"
    /\ ~Exists(c)
    /\ row' = [row EXCEPT ![c] =
                  [author |-> req[r].user, post |-> req[r].post, parent |-> req[r].parent,
                   depth |-> IF req[r].parent = NoComment THEN 0 ELSE seen[r].depth + 1,
                   text |-> req[r].text, status |-> "PENDING", active |-> TRUE,
                   pinned |-> FALSE, flags |-> 0]]
    /\ age' = [age EXCEPT ![c] = "new"]
    /\ stale' = (stale \/ (req[r].parent # NoComment
                             /\ row[req[r].parent].status # seen[r].status))
    /\ crowded' = (crowded \/ ~(CommentsBy(req[r].user) \subseteq counted[r]))
    /\ End(r)
    /\ UNCHANGED <<approved, flagged>>

----------------------------------------------------------------------------
(* The operations on a comment: findById and the checks, then the update. *)

Find(r, u, c, l) ==
    /\ pc[r] = "idle"
    /\ Exists(c)
    /\ seen' = [seen EXCEPT ![r] = row[c]]
    /\ Goto(r, l)
    /\ UNCHANGED <<row, age, approved, flagged, counted, stale, crowded>>

\* Deviation: deleted comments can be edited.
FindToUpdateAny(r, u, c, t) ==
    /\ Find(r, u, c, "update")
    /\ row[c].author = u
    /\ req' = [req EXCEPT ![r] = [NoReq EXCEPT !.user = u, !.comment = c, !.text = t]]

\* The author's own comment, not deleted.
FindToUpdate(r, u, c, t) ==
    /\ Find(r, u, c, "update")
    /\ row[c].author = u
    /\ row[c].status # "DELETED"
    /\ req' = [req EXCEPT ![r] = [NoReq EXCEPT !.user = u, !.comment = c, !.text = t]]

\* The author's own comment, or anyone's for a moderator.
FindToDelete(r, u, c) ==
    /\ Find(r, u, c, "delete")
    /\ u \in Moderators \/ row[c].author = u
    /\ req' = [req EXCEPT ![r] = [NoReq EXCEPT !.user = u, !.comment = c]]

\* Any status may follow any other: a deleted comment too is given the new one, as
\* the branch that would keep it DELETED is empty (comments.station.ts:142).
FindToModerate(r, u, c, s) ==
    /\ Find(r, u, c, "moderate")
    /\ u \in Moderators
    /\ req' = [req EXCEPT ![r] = [NoReq EXCEPT !.user = u, !.comment = c, !.status = s]]

FindToPin(r, u, c, b) ==
    /\ Find(r, u, c, "pin")
    /\ u \in Moderators
    /\ row[c].status = "APPROVED"
    /\ req' = [req EXCEPT ![r] = [NoReq EXCEPT !.user = u, !.comment = c, !.pin = b]]

FindToFlag(r, u, c) ==
    /\ Find(r, u, c, "flag")
    /\ req' = [req EXCEPT ![r] = [NoReq EXCEPT !.user = u, !.comment = c]]

\* commentsRepository.update by id, of request r standing at l, with new for
\* the row; d says that what the operation decided on has changed.
Put(r, l, new, d) ==
    /\ pc[r] = l
    /\ row' = [row EXCEPT ![req[r].comment] = new]
    /\ stale' = (stale \/ d)
    /\ End(r)
    /\ UNCHANGED <<age, crowded>>

Now(r) == row[req[r].comment]

\* Deviation: an edited comment keeps its status.
UpdateKeepingStatus(r) ==
    /\ Put(r, "update", [Now(r) EXCEPT !.text = req[r].text], Now(r).status # seen[r].status)
    /\ UNCHANGED <<approved, flagged>>

Update(r) ==
    /\ Put(r, "update", [Now(r) EXCEPT !.text = req[r].text, !.status = "PENDING"],
           Now(r).status # seen[r].status)
    /\ UNCHANGED <<approved, flagged>>

Delete(r) ==
    /\ Put(r, "delete", [Now(r) EXCEPT !.status = "DELETED", !.active = FALSE], FALSE)
    /\ UNCHANGED <<approved, flagged>>

Moderate(r) ==
    /\ Put(r, "moderate", [Now(r) EXCEPT !.status = req[r].status], Now(r).text # seen[r].text)
    /\ approved' = IF req[r].status = "APPROVED"
                   THEN [approved EXCEPT ![req[r].comment] = seen[r].text]
                   ELSE approved
    /\ UNCHANGED flagged

Pin(r) ==
    /\ Put(r, "pin", [Now(r) EXCEPT !.pinned = req[r].pin], Now(r).status # seen[r].status)
    /\ UNCHANGED <<approved, flagged>>

\* Deviation: the count that was read is stored, increased by one.
FlagFromRead(r) ==
    /\ Put(r, "flag", [Now(r) EXCEPT !.flags = seen[r].flags + 1], FALSE)
    /\ flagged' = flagged \cup {[by |-> r, comment |-> req[r].comment]}
    /\ UNCHANGED approved

\* flagCount: { increment: 1 }, in the statement itself.
Flag(r) ==
    /\ Put(r, "flag", [Now(r) EXCEPT !.flags = @ + 1], FALSE)
    /\ flagged' = flagged \cup {[by |-> r, comment |-> req[r].comment]}
    /\ UNCHANGED approved

----------------------------------------------------------------------------

\* Turned away at once, or cut short by a crash or a failing statement.
Stop(r) == pc[r] # "done" /\ Refused(r)

\* A minute, then five, have passed since c was created.
Age(c) ==
    /\ age[c] # "old"
    /\ age' = [age EXCEPT ![c] = IF @ = "new" THEN "recent" ELSE "old"]
    /\ UNCHANGED <<row, pc, req, seen, approved, flagged, counted, stale, crowded>>

Start(r, u) ==
    \/ \E p \in Posts, q \in Comments \cup {NoComment}, t \in Texts : Count(r, u, p, q, t)
    \/ \E c \in Comments :
        \/ \E t \in Texts : FindToUpdate(r, u, c, t)
        \/ FindToDelete(r, u, c) \/ FindToFlag(r, u, c)
        \/ \E s \in Judgements : FindToModerate(r, u, c, s)
        \/ \E b \in BOOLEAN : FindToPin(r, u, c, b)

Write(r) ==
    \/ \E c \in Comments : Create(r, c)
    \/ Update(r) \/ Delete(r) \/ Moderate(r) \/ Pin(r) \/ Flag(r)

Next ==
    \/ \E r \in Requests :
        \/ \E u \in Users : Start(r, u)
        \/ CheckDuplicate(r) \/ FindParent(r) \/ Write(r) \/ Stop(r)
    \/ \E c \in Comments : Age(c)

Spec == Init /\ [][Next]_vars

\* Requests of one user that come one after the other, and do not change a comment
\* that a request of another user changes or answers at the time.
UnderWay(r) == pc[r] \notin {"idle", "done"}

About(r) == {req[r].comment, req[r].parent} \ {NoComment}

InTurn ==
    \A r, s \in Requests :
        UnderWay(r) /\ UnderWay(s)
            /\ (req[r].user = req[s].user \/ req[r].comment \in About(s)) => r = s

SpecInTurn == Init /\ [][Next /\ InTurn']_vars

----------------------------------------------------------------------------

TypeOK ==
    /\ row \in [Comments -> Rows \cup {Absent}]
    /\ age \in [Comments -> Ages]
    /\ pc \in [Requests -> Locations]
    /\ req \in [Requests -> Reqs]
    /\ seen \in [Requests -> Rows \cup {Absent}]
    /\ approved \in [Comments -> Texts \cup {NoText}]
    /\ flagged \subseteq [by : Requests, comment : Comments]
    /\ counted \in [Requests -> SUBSET Comments]
    /\ stale \in BOOLEAN /\ crowded \in BOOLEAN

----------------------------------------------------------------------------
(* Safety. *)

\* "Re-moderate on update": the text of an approved comment is the text that the
\* request which approved it found in its own read, so every edit after that has
\* taken the approval back.  It is not the text the moderator was looking at when
\* sending that request: nothing in the code ties the two together, and an edit
\* that comes before the request is approved unseen.
ApprovedAsRead == \A c \in Comments : row[c].status = "APPROVED" => approved[c] = row[c].text

\* It is, until an operation is decided on a row that has changed since: an edit
\* between the two statements of the approval is approved too.
ApprovedAsReadUnlessStale == stale \/ ApprovedAsRead

\* No user has more than Limit comments younger than a minute.
WithinLimit == \A u \in Users : Cardinality(NewBy(u)) <= Limit

\* None has, until a comment is created while another of the same user is between
\* its count and its insert.
RateHeldUnlessCrowded == crowded \/ WithinLimit

\* Every flag counts, however many users flag a comment at once.
NoFlagLost ==
    \A c \in Comments : row[c].flags = Cardinality({f \in flagged : f.comment = c})

\* Two comments of one user on one post with the same normal form are never
\* both younger than five minutes, unless created at once.
NoDuplicates ==
    \/ crowded
    \/ \A c, d \in Comments :
        Exists(c) /\ Exists(d) /\ c # d /\ age[c] # "old" /\ age[d] # "old"
            /\ row[c].author = row[d].author /\ row[c].post = row[d].post
            => Normal[row[c].text] # Normal[row[d].text]

\* "DELETED is final for now or requires explicit RESTORE"
\* (comments.station.ts:143), and there is no such operation: a deleted comment
\* stays deleted.  The code gives it whatever status is asked for.
DeletedIsFinal ==
    [][\A c \in Comments : row[c].status = "DELETED" => row'[c].status = "DELETED"]_row

Atomic == INSTANCE Moderation WITH
    row <- [c \in Comments |->
              [parent |-> row[c].parent, depth |-> row[c].depth, text |-> row[c].text,
               status |-> row[c].status, active |-> row[c].active,
               pinned |-> row[c].pinned, flags |-> row[c].flags]]

\* Until then each request is at most one atomic operation: no deleted comment
\* is edited or answered, and none is pinned that is not approved.  Moderators may
\* take a comment out of DELETED, as they may in the code.
ImplementsModeration == [][~stale' => Atomic!Next]_row

\* When they take turns each request is at most one atomic operation.
ImplementsModerationInTurn == [][Atomic!Next]_row
=============================================================================
