----------------------------- MODULE MediaSync -----------------------------
(***************************************************************************)
(* The media of one post: requests store its text and then queue a job,    *)
(* and the post-media-sync workers of the API and worker processes read    *)
(* the text, find its media, read what is attached, and write the          *)
(* difference in one transaction.                                          *)
(*                                                                         *)
(* A job is named by the request that queued it.  A stalled job goes back  *)
(* to the queue although the worker that had it may only have been slow:   *)
(* that worker goes on, and its end is no longer heard.                    *)
(***************************************************************************)
EXTENDS Integers, FiniteSets

CONSTANTS
    Editors,            \* requests that store a text; also the jobs
    Workers,            \* workers of the queue, one in each process
    Nobody,
    Texts,              \* texts: sets of <img> sources, [base |-> ..., key |-> ...]
    Library,            \* rows of Media: [id |-> ..., key |-> ..., center |-> ...]
    Home,               \* the gaming center of the post
    Attempts, Stalls    \* BullMQ: attempts of a job (3), and stalls (1)

MediaIds == {m.id : m \in Library}

ASSUME MediaSyncConstants ==
    /\ Nobody \notin Editors \cup Workers
    /\ {} \in Texts
    /\ Attempts \in Nat \ {0} /\ Stalls \in Nat

VARIABLES
    text,        \* the images of the post's text
    attached,    \* the post's PostMedia rows of type 'in-content': their media
    doing,       \* doing[r]: where request r stands
    job,         \* job[r]: the job that r queued
    run,         \* run[w]: what worker w runs, and what it has read
    lost,        \* history: a text was stored whose job was not queued, or given up
    disturbed,   \* history: workers that have read the text, and another has committed since
    overlapped   \* history: one of them has committed too

syncVars == <<text, attached, doing, job, run, lost, disturbed, overlapped>>

JobStates == {"none", "waiting", "active", "completed", "failed"}

Jobs == [state : JobStates, by : Workers \cup {Nobody}, tries : 0..Attempts, stalls : 0..(Stalls + 1)]

NoJob == [state |-> "none", by |-> Nobody, tries |-> 0, stalls |-> 0]

Runs == [job : Editors \cup {Nobody}, at : {"idle", "post", "attachments", "commit", "end"},
         found : SUBSET MediaIds, current : SUBSET MediaIds]

Idle == [job |-> Nobody, at |-> "idle", found |-> {}, current |-> {}]

SyncInit ==
    /\ text = {} /\ attached = {}
    /\ doing = [r \in Editors |-> "idle"]
    /\ job = [r \in Editors |-> NoJob]
    /\ run = [w \in Workers |-> Idle]
    /\ lost = FALSE /\ disturbed = {} /\ overlapped = FALSE

----------------------------------------------------------------------------
(* createPost, and updatePost with a text *)

\* post.create or post.update with a text that is one after sanitisation; the
\* audit entry that follows cannot fail.
Store(r) ==
    /\ doing[r] = "idle"
    /\ text' \in Texts
    /\ doing' = [doing EXCEPT ![r] = "queue"]
    /\ UNCHANGED <<attached, job, run, lost, disturbed, overlapped>>

\* updatePost with a text of which sanitisation leaves nothing: it is stored all
\* the same, and no job is queued.
StoreNothing(r) ==
    /\ doing[r] = "idle"
    /\ text' = {}
    /\ lost' = TRUE
    /\ doing' = [doing EXCEPT ![r] = "done"]
    /\ UNCHANGED <<attached, job, run, disturbed, overlapped>>

\* cmsSyncMediaQueue.add.
Queue(r) ==
    /\ doing[r] = "queue"
    /\ job' = [job EXCEPT ![r].state = "waiting"]
    /\ doing' = [doing EXCEPT ![r] = "done"]
    /\ UNCHANGED <<text, attached, run, lost, disturbed, overlapped>>

\* The queue refuses the job, or the process is gone before it is added.
Break(r) ==
    /\ doing[r] = "queue"
    /\ lost' = TRUE
    /\ doing' = [doing EXCEPT ![r] = "done"]
    /\ UNCHANGED <<text, attached, job, run, disturbed, overlapped>>

----------------------------------------------------------------------------
(* The worker *)

Take(w, r) ==
    /\ run[w] = Idle
    /\ job[r].state = "waiting"
    /\ job' = [job EXCEPT ![r].state = "active", ![r].by = w]
    /\ run' = [run EXCEPT ![w].job = r, ![w].at = "post"]
    /\ UNCHANGED <<text, attached, doing, lost, disturbed, overlapped>>

\* extractMediaKeysFromHtml: what follows /uploads/, the public path or /media/.
MediaKeys(t) == {i.key : i \in {i \in t : i.base \in {"uploads", "public", "media"}}}

\* Deviation: the media of any gaming center.
FoundAnywhere(t) == {m.id : m \in {m \in Library : m.key \in MediaKeys(t)}}

\* The media of the post's own gaming center with these keys.
Found(t) == {m.id : m \in {m \in Library : m.key \in MediaKeys(t) /\ m.center = Home}}

ReadPost(w) ==
    /\ run[w].at = "post"
    /\ run' = [run EXCEPT ![w].found = Found(text), ![w].at = "attachments"]
    /\ disturbed' = disturbed \ {w}
    /\ UNCHANGED <<text, attached, doing, job, lost, overlapped>>

ReadAttachments(w) ==
    /\ run[w].at = "attachments"
    /\ run' = [run EXCEPT ![w].current = attached, ![w].at = "commit"]
    /\ UNCHANGED <<text, attached, doing, job, lost, disturbed, overlapped>>

ToAdd(w) == run[w].found \ run[w].current

ToRemove(w) == run[w].current \ run[w].found

\* Deviation: what is no longer in the text stays attached.
CommitAdding(w) ==
    /\ run[w].at = "commit"
    /\ ToAdd(w) \cap attached = {}
    /\ attached' = attached \cup ToAdd(w)
    /\ run' = [run EXCEPT ![w] = [Idle EXCEPT !.job = run[w].job, !.at = "end"]]
    /\ disturbed' = {v \in Workers \ {w} : run[v].at \in {"attachments", "commit"}} \cup (disturbed \ {w})
    /\ overlapped' = (overlapped \/ w \in disturbed)
    /\ UNCHANGED <<text, doing, job, lost>>

\* $transaction: the rows to add, which the unique post, media and type may
\* refuse, and the rows to remove.
CommitSync(w) ==
    /\ run[w].at = "commit"
    /\ ToAdd(w) \cap attached = {}
    /\ attached' = (attached \cup ToAdd(w)) \ ToRemove(w)
    /\ run' = [run EXCEPT ![w] = [Idle EXCEPT !.job = run[w].job, !.at = "end"]]
    /\ disturbed' = {v \in Workers \ {w} : run[v].at \in {"attachments", "commit"}} \cup (disturbed \ {w})
    /\ overlapped' = (overlapped \/ w \in disturbed)
    /\ UNCHANGED <<text, doing, job, lost>>

\* Whether the end of w's run is heard: the job is still w's.
Owns(w) == LET r == run[w].job IN r # Nobody /\ job[r].state = "active" /\ job[r].by = w

Leave(w) == run' = [run EXCEPT ![w] = Idle]

Complete(w) ==
    /\ run[w].at = "end"
    /\ job' = IF Owns(w) THEN [job EXCEPT ![run[w].job].state = "completed"] ELSE job
    /\ Leave(w)
    /\ UNCHANGED <<text, attached, doing, lost, disturbed, overlapped>>

\* Deviation: a job that fails is not tried again, and nobody is told.
RejectForGood(w) ==
    /\ run[w].at \in {"post", "attachments", "commit"}
    /\ job' = IF Owns(w) THEN [job EXCEPT ![run[w].job].state = "completed"] ELSE job
    /\ Leave(w)
    /\ UNCHANGED <<text, attached, doing, lost, disturbed, overlapped>>

\* A statement throws, the transaction for one: the job is tried again, up to
\* its attempts.
Reject(w) ==
    /\ run[w].at \in {"post", "attachments", "commit"}
    /\ LET r    == run[w].job
           last == job[r].tries + 1 >= Attempts
       IN IF Owns(w)
          THEN /\ job' = [job EXCEPT ![r].state = IF last THEN "failed" ELSE "waiting",
                                     ![r].by = Nobody, ![r].tries = @ + 1]
               /\ lost' = (lost \/ last)
          ELSE UNCHANGED <<job, lost>>
    /\ Leave(w)
    /\ UNCHANGED <<text, attached, doing, disturbed, overlapped>>

\* The process of the worker dies.
Crash(w) ==
    /\ run[w] # Idle
    /\ Leave(w)
    /\ UNCHANGED <<text, attached, doing, job, lost, disturbed, overlapped>>

\* The lock of the job runs out, whether its worker is gone or slow.
Stall(r) ==
    /\ job[r].state = "active"
    /\ LET last == job[r].stalls >= Stalls
       IN /\ job' = [job EXCEPT ![r].state = IF last THEN "failed" ELSE "waiting",
                                ![r].by = Nobody, ![r].stalls = @ + 1]
          /\ lost' = (lost \/ last)
    /\ UNCHANGED <<text, attached, doing, run, disturbed, overlapped>>

Abandoned(r) == \A w \in Workers : ~(run[w].job = r /\ Owns(w))

----------------------------------------------------------------------------

Request(r) == Store(r) \/ StoreNothing(r) \/ Queue(r) \/ Break(r)

Work(w) ==
    \/ ReadPost(w) \/ ReadAttachments(w) \/ CommitSync(w) \/ Complete(w) \/ Reject(w)
    \/ \E r \in Editors : Take(w, r)

SyncNext ==
    \/ \E r \in Editors : Request(r) \/ Stall(r)
    \/ \E w \in Workers : Work(w) \/ Crash(w)

\* Requests end, workers go on with what they have, and a job whose worker is
\* gone is found to have stalled.
Fairness ==
    /\ \A r \in Editors : WF_syncVars(Queue(r) \/ Break(r)) /\ WF_syncVars(Stall(r) /\ Abandoned(r))
    /\ \A w \in Workers : WF_syncVars(Work(w))

SyncSpec == SyncInit /\ [][SyncNext]_syncVars /\ Fairness

----------------------------------------------------------------------------

SyncTypeOK ==
    /\ text \in Texts
    /\ attached \subseteq {m.id : m \in {m \in Library : m.center = Home}}
    /\ doing \in [Editors -> {"idle", "queue", "done"}]
    /\ job \in [Editors -> Jobs]
    /\ run \in [Workers -> Runs]
    /\ lost \in BOOLEAN
    /\ disturbed \subseteq Workers
    /\ overlapped \in BOOLEAN

Quiet ==
    /\ \A r \in Editors : doing[r] # "queue" /\ job[r].state \notin {"waiting", "active"}
    /\ \A w \in Workers : run[w] = Idle

\* Once nothing is under way, the media attached to the post are those of its
\* text, whatever texts came while a job ran and however often it was tried.  Two
\* cases are excused, and in both the code may leave the attachments wrong: a
\* text had no job, or one that was given up (the queue refused it, a process
\* died, attempts or stalls were used up, or sanitisation left nothing of the text
\* of an update); and a worker committed although another had committed since it
\* read the text.
AttachedFollowUnlessOverlapped ==
    Quiet => attached = Found(text) \/ lost \/ overlapped

\* In the end they are those of the text for good, with the same two excuses.
Converges == <>[](attached = Found(text) \/ lost \/ overlapped)
=============================================================================
