--------------------------- MODULE PostPublishing ---------------------------
(***************************************************************************)
(* One post: the editors that create, update and delete it through the     *)
(* posts station, and the scheduled-post-publisher jobs of the worker      *)
(* processes.  Each handler loads the row, decides on the copy, and later  *)
(* writes the row by id; other handlers run at every await in between.     *)
(*                                                                         *)
(* A content stands for the title, excerpt and text that a revision keeps  *)
(* together, as xss() leaves it; Blank is a text of which it leaves        *)
(* nothing, like a lone HTML comment, sent without a title or an excerpt.  *)
(* Slugs, tags, media and the audit log are left out: a taken slug only    *)
(* makes a handler end early, which Refuse covers, and the audit service   *)
(* swallows its own failures.  So is a publishedAt sent in a body: it      *)
(* replaces the instant the handler would fill in and decides nothing.     *)
(***************************************************************************)
EXTENDS Naturals

CONSTANTS
    Editors,     \* API requests; each runs one operation
    Workers,     \* processes that run the publisher, one job at a time each
    Contents, Blank, NoContent,
    Edits,       \* the inputs of create and update that requests are sent with
    MaxTime      \* bound: the last instant of the model

Actors == Editors \cup Workers

Statuses == {"DRAFT", "REVIEW", "SCHEDULED", "PUBLISHED", "ARCHIVED"}

\* Instants are 1..MaxTime; 0 stands for null in a column and for a field the
\* request does not have, "keep" and NoContent for the other absent fields.
Dates  == 0..MaxTime
Inputs == [status : Statuses \cup {"keep"}, scheduledAt : Dates,
           active : {"keep", "on", "off"}, content : Contents \cup {NoContent}]

ASSUME PublishingConstants ==
    /\ Editors \cap Workers = {}
    /\ NoContent \notin Contents /\ Blank \in Contents
    /\ MaxTime \in Nat \ {0}
    /\ Edits \subseteq Inputs

VARIABLES
    now,         \* the clock
    post,        \* the row of the post, or NoPost
    revisions,   \* the contents saved as revisions
    pc,          \* pc[a]: the await at which actor a stands
    input,       \* input[e]: the validated body of editor e's request
    loaded,      \* loaded[a]: the row actor a read
    announced,   \* number of CMS_POST_PUBLISHED events emitted
    published,   \* history: number of times the row became PUBLISHED
    everLive,    \* history: every content the row has had
    blanked,     \* history: the contents an update replaced by Blank
    stale        \* history: an update was written over a row that had changed
                 \* since the writer read it

vars == <<now, post, revisions, pc, input, loaded, announced, published, everLive, blanked, stale>>

Posts  == [status : Statuses \cup {"NONE"}, scheduledAt : Dates, publishedAt : Dates,
           active : BOOLEAN, content : Contents \cup {NoContent}]
NoPost == [status |-> "NONE", scheduledAt |-> 0, publishedAt |-> 0,
           active |-> FALSE, content |-> NoContent]
NoInput == [status |-> "keep", scheduledAt |-> 0, active |-> "keep", content |-> NoContent]

Locations == {"idle", "revise", "save", "delete", "publish", "announce", "done"}

Init ==
    /\ now = 1
    /\ post = NoPost
    /\ revisions = {}
    /\ pc = [a \in Actors |-> "idle"]
    /\ input = [e \in Editors |-> NoInput]
    /\ loaded = [a \in Actors |-> NoPost]
    /\ announced = 0
    /\ published = 0
    /\ everLive = {}
    /\ blanked = {}
    /\ stale = FALSE

Goto(a, l) == pc' = [pc EXCEPT ![a] = l]

\* The row becomes p, written by a, which next announces it or is done; what a
\* had loaded is of no further use.
Write(a, p, next) ==
    /\ post' = p
    /\ loaded' = [loaded EXCEPT ![a] = NoPost]
    /\ everLive' = everLive \cup {p.content}
    /\ published' = IF p.status = "PUBLISHED" /\ post.status # "PUBLISHED"
                    THEN published + 1 ELSE published
    /\ Goto(a, next)

----------------------------------------------------------------------------
(* createPost *)

\* prisma.post.create, after the checks of the scheduling fields.
Create(e, d) ==
    /\ pc[e] = "idle"
    /\ post = NoPost
    /\ d.content # NoContent /\ d.active = "keep"
    /\ ~(d.status = "SCHEDULED" /\ d.scheduledAt = 0)
    /\ LET status == IF d.status = "keep" THEN "DRAFT" ELSE d.status
       IN Write(e, [status |-> status, scheduledAt |-> d.scheduledAt,
                    publishedAt |-> IF status = "PUBLISHED" THEN now ELSE 0,
                    active |-> TRUE, content |-> d.content],
                IF status = "PUBLISHED" THEN "announce" ELSE "done")
    /\ UNCHANGED <<now, revisions, input, announced, blanked, stale>>

----------------------------------------------------------------------------
(* updatePost *)

\* validateStateTransition's table.
Allowed ==
    [DRAFT     |-> {"REVIEW", "SCHEDULED", "PUBLISHED", "ARCHIVED"},
     REVIEW    |-> {"DRAFT", "SCHEDULED", "PUBLISHED", "ARCHIVED"},
     SCHEDULED |-> {"DRAFT", "PUBLISHED", "ARCHIVED"},
     PUBLISHED |-> {"ARCHIVED", "DRAFT"},
     ARCHIVED  |-> {"DRAFT"}]

\* Deviation: SCHEDULED is accepted without a date.
AcceptsUndated(p, d) == d.status \notin {"keep", p.status} => d.status \in Allowed[p.status]

\* The checks updatePost makes on the row p it loaded.
Accepts(p, d) ==
    /\ d.status \notin {"keep", p.status} => d.status \in Allowed[p.status]
    /\ d.status = "SCHEDULED" => d.scheduledAt # 0 \/ p.scheduledAt # 0

\* Deviation: no revision is made of the text that is replaced.
LoadWithoutRevision(e, d) ==
    /\ pc[e] = "idle"
    /\ post.active
    /\ Accepts(post, d)
    /\ input' = [input EXCEPT ![e] = d]
    /\ loaded' = [loaded EXCEPT ![e] = post]
    /\ Goto(e, "save")
    /\ UNCHANGED <<now, post, revisions, announced, published, everLive, blanked, stale>>

\* findPostById, the checks and the sanitising: goes on to the revision, or
\* straight to the update when the body has no text or nothing is left of it.
Load(e, d) ==
    /\ pc[e] = "idle"
    /\ post.active
    /\ Accepts(post, d)
    /\ input' = [input EXCEPT ![e] = d]
    /\ loaded' = [loaded EXCEPT ![e] = post]
    /\ Goto(e, IF d.content \notin {NoContent, Blank} THEN "revise" ELSE "save")
    /\ UNCHANGED <<now, post, revisions, announced, published, everLive, blanked, stale>>

\* createRevision keeps the text that was loaded.
Revise(e) ==
    /\ pc[e] = "revise"
    /\ revisions' = revisions \cup {loaded[e].content}
    /\ Goto(e, "save")
    /\ UNCHANGED <<now, post, input, loaded, announced, published, everLive, blanked, stale>>

\* Deviation: an absent status is written as if it were one.
MergedBlindly(row, old, d) ==
    [row EXCEPT !.status = d.status,
                !.content = IF d.content = NoContent THEN row.content ELSE d.content]

\* The row after UPDATE ... SET of the fields d has; whether publishedAt is
\* among them was decided on the loaded row.
Merged(row, old, d) ==
    [status      |-> IF d.status = "keep" THEN row.status ELSE d.status,
     scheduledAt |-> IF d.scheduledAt = 0 THEN row.scheduledAt ELSE d.scheduledAt,
     publishedAt |-> IF d.status = "PUBLISHED" /\ old.publishedAt = 0 THEN now ELSE row.publishedAt,
     active      |-> IF d.active = "keep" THEN row.active ELSE d.active = "on",
     content     |-> IF d.content = NoContent THEN row.content ELSE d.content]

\* Deviation: every save of a PUBLISHED row emits the event.
SaveAnnouncingAlways(e) ==
    /\ pc[e] = "save"
    /\ LET new == Merged(post, loaded[e], input[e])
       IN Write(e, new, IF new.status = "PUBLISHED" THEN "announce" ELSE "done")
    /\ input' = [input EXCEPT ![e] = NoInput]
    /\ stale' = (stale \/ post # loaded[e])
    /\ blanked' = IF input[e].content = Blank THEN blanked \cup {post.content} ELSE blanked
    /\ UNCHANGED <<now, revisions, announced>>

\* prisma.post.update by id.  The event is emitted when the loaded row was not
\* PUBLISHED and the row returned is.
Save(e) ==
    /\ pc[e] = "save"
    /\ LET new == Merged(post, loaded[e], input[e])
       IN Write(e, new, IF loaded[e].status # "PUBLISHED" /\ new.status = "PUBLISHED"
                        THEN "announce" ELSE "done")
    /\ input' = [input EXCEPT ![e] = NoInput]
    /\ stale' = (stale \/ post # loaded[e])
    /\ blanked' = IF input[e].content = Blank THEN blanked \cup {post.content} ELSE blanked
    /\ UNCHANGED <<now, revisions, announced>>

----------------------------------------------------------------------------
(* deletePost *)

LoadForDelete(e) ==
    /\ pc[e] = "idle"
    /\ post.active
    /\ loaded' = [loaded EXCEPT ![e] = post]
    /\ Goto(e, "delete")
    /\ UNCHANGED <<now, post, revisions, input, announced, published, everLive, blanked, stale>>

\* softDeletePost writes one column and depends on nothing it read.
SoftDelete(e) ==
    /\ pc[e] = "delete"
    /\ Write(e, [post EXCEPT !.active = FALSE], "done")
    /\ UNCHANGED <<now, revisions, input, announced, blanked, stale>>

----------------------------------------------------------------------------
(* The publisher job, started every minute. *)

\* Deviation: deleted posts are published too.
DueEvenDeleted(p) == p.status = "SCHEDULED" /\ p.scheduledAt \in 1..now

\* Deviation: only posts whose date is the very minute of the job.
DueThisMinute(p) == p.status = "SCHEDULED" /\ p.active /\ p.scheduledAt = now

Due(p) == p.status = "SCHEDULED" /\ p.active /\ p.scheduledAt \in 1..now

\* findMany selects the post.
FindDue(w) ==
    /\ pc[w] = "idle"
    /\ Due(post)
    /\ loaded' = [loaded EXCEPT ![w] = post]
    /\ Goto(w, "publish")
    /\ UNCHANGED <<now, post, revisions, input, announced, published, everLive, blanked, stale>>

\* prisma.post.update by id alone.
Publish(w) ==
    /\ pc[w] = "publish"
    /\ Write(w, [post EXCEPT !.status = "PUBLISHED",
                             !.publishedAt = loaded[w].scheduledAt,
                             !.scheduledAt = 0], "announce")
    /\ stale' = (stale \/ post # loaded[w])
    /\ UNCHANGED <<now, revisions, input, announced, blanked>>

----------------------------------------------------------------------------
(* Both *)

\* eventEmitter.emit('CMS_POST_PUBLISHED', ...).
Announce(a) ==
    /\ pc[a] = "announce"
    /\ announced' = announced + 1
    /\ Goto(a, IF a \in Workers THEN "idle" ELSE "done")
    /\ UNCHANGED <<now, post, revisions, input, loaded, published, everLive, blanked, stale>>

\* The handler stops where it is: its process dies, the database refuses the
\* statement, or the queue refuses the job that follows it.  A worker's next
\* job starts afresh.
Stop(a) ==
    /\ pc[a] \notin {"idle", "done"}
    /\ Goto(a, IF a \in Workers THEN "idle" ELSE "done")
    /\ loaded' = [loaded EXCEPT ![a] = NoPost]
    /\ input' = [e \in Editors |-> IF e = a THEN NoInput ELSE input[e]]
    /\ UNCHANGED <<now, post, revisions, announced, published, everLive, blanked, stale>>

\* A request that is turned away: no such post, a check fails, the slug is taken.
Refuse(e) ==
    /\ pc[e] = "idle"
    /\ Goto(e, "done")
    /\ UNCHANGED <<now, post, revisions, input, loaded, announced, published, everLive, blanked, stale>>

Tick ==
    /\ now < MaxTime
    /\ now' = now + 1
    /\ UNCHANGED <<post, revisions, pc, input, loaded, announced, published, everLive, blanked, stale>>

Edit(e) ==
    \/ \E d \in Edits : Create(e, d) \/ Load(e, d)
    \/ Revise(e) \/ Save(e) \/ LoadForDelete(e) \/ SoftDelete(e)

Job(w) == FindDue(w) \/ Publish(w)

Next ==
    \/ \E e \in Editors : Edit(e) \/ Refuse(e)
    \/ \E w \in Workers : Job(w)
    \/ \E a \in Actors : Announce(a) \/ Stop(a)
    \/ Tick

Spec == Init /\ [][Next]_vars

\* The clock advances; the worker processes keep starting jobs, and a job that
\* is restarted over and over is let through to the database in the end.
FairSpec ==
    /\ Spec
    /\ WF_vars(Tick)
    /\ \A w \in Workers : WF_vars(FindDue(w)) /\ SF_vars(Publish(w)) /\ WF_vars(Announce(w))

\* A handler between its read and its write.
Busy(a) == pc[a] \in {"revise", "save", "delete", "publish"}

\* Handlers that read and write one after the other, whatever else overlaps.
InTurn == \A a, b \in Actors : Busy(a) /\ Busy(b) => a = b

SpecInTurn == Init /\ [][Next /\ InTurn']_vars

----------------------------------------------------------------------------

TypeOK ==
    /\ now \in 1..MaxTime
    /\ post \in Posts
    /\ revisions \subseteq Contents
    /\ pc \in [Actors -> Locations]
    /\ input \in [Editors -> Inputs]
    /\ loaded \in [Actors -> Posts]
    /\ announced \in Nat /\ published \in Nat
    /\ everLive \subseteq Contents /\ blanked \subseteq Contents
    /\ stale \in BOOLEAN

----------------------------------------------------------------------------
(* Safety.  "UnlessStale": until some update is written over a row that    *)
(* changed after its writer read it.                                       *)

\* "Scheduled posts must have a scheduledAt date": one without a date is never
\* published by the job.
ScheduledHasDate == post.status = "SCHEDULED" => post.scheduledAt # 0

ScheduledHasDateUnlessStale == stale \/ ScheduledHasDate

\* "Create Revision if content changes" (posts.station.ts:128): a text that was
\* live is either still live or kept as a revision.  An update whose own text
\* sanitises to nothing breaks it: there is no revision, and the row is blank.
EveryTextKept == everLive \subseteq revisions \cup {post.content}

\* Until a stale write, the texts that blank updates replaced are the only ones
\* lost: no order of handlers, and no stop half-way, loses another.
TextKeptUnlessBlanked ==
    stale \/ everLive \subseteq revisions \cup {post.content} \cup blanked

\* The published event is emitted at most once for each time the post becomes
\* PUBLISHED, with any number of workers and editors.
AnnouncedOnceUnlessStale == stale \/ announced <= published

Lifecycle == INSTANCE PostLifecycle

\* Every write of the handlers is an atomic operation of the post's lifecycle,
\* by the strict transition table and the schedule, or leaves the post alone.
ImplementsLifecycle == Lifecycle!Init /\ [][~stale' => Lifecycle!Next]_(Lifecycle!vars)

\* When handlers take turns every write is such an operation.
ImplementsLifecycleInTurn == Lifecycle!Spec

----------------------------------------------------------------------------
(* Liveness. *)

\* An active scheduled post does not stay scheduled for ever: the job publishes
\* it unless an editor moves or deletes it, whatever jobs crash on the way.
ScheduledLeaves ==
    (post.status = "SCHEDULED" /\ post.active)
        ~> (stale \/ post.status # "SCHEDULED" \/ ~post.active)
=============================================================================
