# Sayra Blog in TLA+

Specifications of the parts of the Sayra content server whose correctness depends on what
happens *between* the statements of a handler: requests served at once by one Node.js
process, jobs run by several processes, a PostgreSQL database at READ COMMITTED, Redis, and
processes that may die at any `await`.

The modules are read next to the code: every definition that stands for code is listed with
its file and lines under `map` in `PROJECT.json`.

## 1. The system

A multi-tenant CMS: an Express API (`src/src/app.ts`, `server.ts`), stations (services) over
repositories over Prisma, BullMQ workers in the API process and in a worker process, Redis
for queues and idempotency keys, a migration tool and a backup container.

| Part | State | Operations | What makes it correct |
|---|---|---|---|
| Idempotent requests | one Redis record per key, with a TTL | find, delete, `SET NX`, run, update | business logic once per key and TTL; a replay answers the same payload; no key blocked for ever |
| Posts, publishing | the post's row, its revisions, the clock | create, update, delete; the publisher job of each process | the transition table; a scheduled post has a date and is published; no text lost; one announcement per publication |
| Reactions | one row per user and object, one counter per type | toggle, in one transaction | counters count rows; a toggle is atomic; no toggle stuck |
| Pages | parent, slug, full path, depth, active | create, update (move, rename), delete, path propagation | a forest; paths follow it; walks end |
| Comments | status, pin, flags, parent | create, update, delete, moderate, pin, flag | an edit takes an approval back, so that an approved text is the one the approving request read; no deleted comment is edited by its author or answered; limits and flag counts hold |
| Authentication | one-time passwords, sessions, users and customers | ask for a code, verify, register, log in, refresh, log out | who is verified or let in has entered a code of the phone, or a password; a code is used once |
| SMS queue | a BullMQ job for each execution of an add | enqueue, attempt, retry, stall | a queued code leaves or is given up; a bounded number of messages |
| Media sync | the post's text, attachments, jobs | store and queue; a job that diffs the text against the attachments | after the last edit, attachments are those of the text |
| Categories, tags | rows with slug, parent and active flag | create, update, delete | slugs unique; no cycle; only listed rows change |
| Menus | menus, items with parent and visibility | create, update, delete, build the tree | every visible item is in the tree; deleted items stay deleted |
| Migration | exported files, the tables | import in one transaction, check, report, repeat | all or nothing; success and refusal mean what they say; a repetition changes what the application had changed, some stamps, and nothing else |
| Media upload | objects in storage, rows | put, then insert | no row without its object |
| Users, audit, settings, gaming centers | single rows | read, write | unique keys only |
| Backup | dump files | dump, prune | the newest dump is kept |

How they interact: stations call repositories directly and share rows through the database;
posts and the publisher job share the post's row and nothing else; posts queue media-sync
jobs after their own write; codes queue SMS jobs; staff and customers share one table of codes
and one of sessions. Domain events are emitted on an in-process emitter that has no listener
at this commit. Importing `jobs/workers` starts a worker in every process, the API's too.

Some code is there and not reached at this commit: no route mounts the idempotency middleware
or the routers of pages and of menus, no route calls the media upload, nothing queues the
`pageId` branch of the media-sync job, and the public route of the menu tree never sets the
actor the tree is filtered for. It is modelled, where it is, as its own code, comments and
documents say it is used.

The hard behaviours are listed line by line under `hazards` in `PROJECT.json`. Most are of one
shape: **read, decide, write by id**. A handler reads a row, validates what it read, and
writes with the row's id as the only condition, several awaits later.

## 2. How staleness is modelled

Each such component has history variables, which decide nothing. They become true in the step
after which a promise can no longer be expected:

| History | Module | Becomes true when |
|---|---|---|
| `stale` | PostPublishing, Reactions, Comments, Taxonomy, Menus | a write is decided on a row that has changed, or was deleted, since its writer read it |
| `stolen` | Idempotency | a request deletes or overwrites a record that another request has made: a retry that read the one before it, or an `updateKey` whose key expired in between |
| `raced` | Pages, Auth | a page is written after rows it was decided on changed; a code is consumed a second time |
| `crowded` | Comments | a comment is inserted after another of its user since the count |
| `torn` | Pages | a propagation of paths ends early |
| `overlapped` | MediaSync | a run commits although another committed since it read the text |
| `lost` | MediaSync | a stored text had no job (the queue refused it, the process died, or nothing was left of the text after `xss()`), or one that used up its attempts or stalls |
| `blanked` | PostPublishing | holds the texts replaced by an update whose own text `xss()` left empty |
| `edited` | Migration | holds the imported rows that the application has changed or removed since they were loaded; `Retag` alone reads it, to tell a tag that was taken off a post from one that was never there |
| `turned` | Taxonomy, Menus | an item is put below itself, or below one that is already below it |

A property named `...UnlessStale` (and so on) says what the code keeps as long as that has
not happened, in every interleaving of everything else: crashes, refused statements,
concurrent requests, retries, time. The histories mark real deviations of the code: two
retries of a failed request both run (`idempotency.ts:109`), a count is taken down twice
(`reactions.repository.ts:51`), two moves put two pages below one another (`pages.station.ts:76`),
two requests use one code (`auth.station.ts:100`), two updates make a cycle of categories
(`taxonomy.station.ts:73`). They are shown by the histories becoming true; what each excuses is a
hazard that the property beside it does not cover.

Five promises that a comment or a test of the repository makes without such an excuse are checked as
they stand, by runs that are expected to fail: `posts_date`, `posts_text`, `pages_ancestor`,
`comments_duplicates` and `comments_final`. In `posts_text`, `pages_ancestor` and `comments_final` the
requests take turns (below), so that no race is to blame. Each counterexample is a finding. A sixth
finding is of a document: `docs/auth.md` describes a sign-in that the code does not have (section 3, Auth).

The abstract specification of a component has atomic operations and no history variable; the
component implements it (`Implements...`) step by step until the first stale write.

Four modules also say which overlaps these are. `InTurn` names the handlers that must not
overlap, `SpecInTurn` is the specification restricted to the behaviours in which they do not, and
there `stale`, `crowded` and `raced` never become true and the promises hold without them
(`blanked` and `torn` remain: no turn-taking prevents a blank text or a crash):

| Module | `InTurn`: what must not overlap | What still may |
|---|---|---|
| Reactions | two toggles of one user | toggles of different users, deadlocks, failures |
| Comments | two requests of one user; a request that changes a comment and another that is about it | all other requests, replies to one parent too |
| PostPublishing | two handlers between their read of the post and their write | announcements, the clock, crashes |
| Pages | two requests | crashes at any statement, with paths half spread |

It is a hypothesis that isolates the cause, not how the system is deployed: nothing in the
code makes a request wait for another.

## 3. Modules

**Idempotency** (`common/middleware/idempotency.ts`, `common/repositories/idempotency.repo.ts`).
The life of one key: `record` is the Redis value, `pc[r]` the await at which request `r`
stands, `seen[r]` the record it last read. `FindKey`, `DeleteKey`, `CreateKey`,
`UpdateFind`, `UpdateStore` are the Redis commands, one action each; `Handle` runs the business
logic and answers through the wrapped `res.json`/`res.send`, with a success, a redirect, or an error of
either class. `CreateResent` is ioredis sending a command again after a reconnection, `Abandon` a crash, a
disconnected client or a failed update. `Expire` is the TTL; it may fall anywhere but inside business logic,
which is taken to be shorter than a day, so also between the two commands of `updateKey`. `OnceOnly` is the
promise: a slot that is free, held by one request or done. `layers` counts how often a body has been
serialised: Express' `res.json` ends in `res.send`, so the wrappers store the text, and a replay serialises
that text once more. No route mounts the middleware at this commit; it is modelled as its own comments and
`docs/api/booking-contract.md` describe its use.

**PostPublishing** (`modules/posts`, `jobs/workers/scheduled-post-publisher.worker.ts`). One
post, some requests and one job per worker process. `Load`/`LoadForDelete` read the row and
validate (`Accepts`, `Allowed`), `Revise` writes the revision, `Save`/`SoftDelete` write by id;
`FindDue`, `Publish` are the job's two statements, `Announce` is the emission that follows
either. `Stop` ends a handler at any await. Texts are as `xss()` leaves them; `Blank` is one of which it
leaves nothing. An update with a blank text skips the revision, whose condition is tested on what is left,
and stores the empty text all the same: `blanked` holds what such updates replaced. `PostLifecycle` is the
promise: atomic creation, edits by the transition table, publication of a due post, deletion.

**Reactions** (`modules/reactions/reactions.repository.ts`). `toggleReaction` as an
interactive transaction: `Find`, `WriteRow` (or `WriteRefused`, when the row it read is gone or
the unique key is taken), one `Upsert` per aggregate row in the code's order, `Commit`. Row
locks are held until the end; `Fail` rolls back at any statement, and deadlocks are broken.
`ReactionVotes` is the promise: toggles as atomic votes.

**Pages** (`modules/pages`). The table `page`, and of each request `e` the await `pc[e]`, what it
asks for `req[e]`, its page's row as it found it `loaded[e]`, the pages
`isDescendant` has yet to read `walk[e]`, the path it computed `place[e]` and the work
`updateChildrenPaths` has left `todo[e]`. Every statement is an action: `StartUpdate` finds the page,
`Walk` reads one page's children, `Resolve` the parent, `Unique` the path, `Update` writes the
row, `ListChildren` and `WriteChild` spread the path; `Create`, `CheckChildren`, `Remove` likewise; unique constraints and
the length of an index row refuse writes (`...Refused`), and `Stop` ends a request anywhere. Siblings have
no order. A slug may hold slashes, so slugs and paths are sequences of names. Each page has a tenant: paths are
unique within one, but a parent may be of another, since the lookup asks only for an id. `since[e]` is history: the
rows written since `e` first read the table, and whether a parent or an active flag was among
them (a row that is changed and changed back counts as changed). `raced` says that some
write was decided on such rows, `torn` that a propagation ended early.

What the code keeps is weaker than what its comment says. `isDescendant` goes down the active children,
and the parent is looked up whether it is active or not, so one request can put a page below its own deleted
child. (A page is brought back only by an update that found it live and writes `active: true` after a
deletion: `raced`.) What holds, and what `Forest` says, is that no cycle consists of live pages alone. `NeverUnderItself` says what the comment says, and
fails in `pages_ancestor`. `PageTree` is the promise of the weaker kind: atomic changes that never put
a live page below its own live descendant.

**Comments** (`modules/comments`). The rows, each comment's `age` (within a minute, within five,
older: all that the two time windows tell apart), and of each request its await, its arguments and the row it read.
`Count`, `CheckDuplicate`, `FindParent`, `Create` are creation's statements; the other
operations are a `Find...` and a write. A text is a value with a normal form. Histories: `approved` (the
text that the request approving a comment read, in the handler itself: what the moderator saw in
an earlier GET is not part of any request, so an edit between the two is approved unseen), `flagged`, `counted`.
`stale` is set by a write decided on a row since changed, `crowded` by an insert that follows another of the
same user since it counted. `Moderation` is the promise: each operation atomic; `Judge` moves a comment to any
status, out of `DELETED` too, as the code does. That a comment of the code calls `DELETED` final is checked apart,
by `DeletedIsFinal` in `comments_final`, which fails. `rootId` and the tree built for readers are left out:
nothing is decided on them.

**Auth** (`modules/auth`). A code is named by the request that asked for it, a session by the request that
opened it; `call[r]` is the await at which request `r` stands, the account it is about and the code or session it
has found. `AskStaff`/`AskCustomer`, `Issue`, `QueueSms` are the request for a code; `Enter` finds
the newest code and compares; a code is entered by who has read it or by who has guessed it, since attempts
are not limited (`auth.station.ts:109`). `Consume` marks it used, `MarkStaff`, `FindCustomer`, `CreateCustomer`,
`MarkCustomer` are what follows in either flow; `FindUsedCode`, `FindStaff`, `LogInWithPassword`, `Open` the
sign-in; `FindSession`, `Revoke` refresh and logout; `Hire` is `createStaffMember` of the users module.
Time is what it decides: a code expires (`ExpireCode`), and its use is no longer recent (`CloseWindow`).
The model follows the code where `docs/auth.md:13` and 59-63 do not: that document lets a customer in with
a phone alone, the code after a code was entered and consumed; `AccountsProved` would be false of the former,
and a finding records it. `revoked` is kept because `Revoke` writes it; no property reads it, since no
modelled statement depends on it. `SignIn` is the promise: codes used at most once, customers registered and
sessions opened only for phones that have had a code used, or with a password.

**SmsQueue** (`jobs/producers/sms.producer.ts`, `jobs/workers/sms.worker.ts`). BullMQ's side of a code. A
message stands for one execution of `add`: an `add` that the client sends again after it lost the answer
is a second job, with its own bound. `TakeSms`, `Send`, `CompleteSms`, `RejectSms` are an attempt, which may
fail before or after the message has left; `CrashSms` ends a worker, and `StallSms` gives a job back whether
its worker is gone or slow. A slow worker goes on, sends if it has not sent, and is no longer heard (`Holds`).

**MediaSync** (`jobs/workers/post-media-sync.worker.ts`, `common/utils/htmlParser.ts`, the text of
`posts.station.ts`). Requests store a text and queue a job; `StoreNothing` is an update whose text `xss()`
leaves empty, which is stored and queues nothing. Each worker takes a job, reads the
text (`Found` is what the parser and the library make of it), reads the attachments, and writes the
difference in one transaction (`CommitSync`). A job that fails is tried again; one that stalls goes back to the
queue while its worker may go on, whose end is then no longer heard; a worker may crash, and the queue may
refuse a job.

**Taxonomy** (`modules/taxonomy`). Categories and tags run the same steps: find the row, the
holder of the slug, the parent, and write by id; unique constraints refuse. `Catalogue` is the
promise: only listed rows change, slugs are unique, a parent is listed when it is given.

**Menus** (`modules/navigation`). A request finds a menu with its active items, and writes one item
by id; the item's parent may be deleted or of another menu, which no statement checks.
`Filtered`, `RootItems` and `Tree` are what a reader is given: what is reached from the roots,
stated as the least set that holds them and is closed under children.

**Migration** (`src/src/migration`). `Earlier` is the order of the upserts in `loadData`: by table,
then as the rows come in the files; `loaded` are the rows upserted so far. `BeginRun`, `Connect`
(or `NotReachable`, the simulation mode), `UpsertRow`/`Refuse` by foreign keys and unique columns,
`CommitLoad`, `Abort` and `Report` are a run. A row has every unique value of its columns (`keys`: a user's
phone, username and email, slugs, a page's path), and an `updatedAt`, which is the run's for users and for
posts' tags (`Stamped`); links that no transformer asks for null are mapped as they are (`Given`).
Meanwhile the application edits rows (`Edit`, which may change the slug or path of the tables that allow it,
`Renamed`), replaces the tags of a post (`Retag`), and makes rows of its own (`Occupy`). `IsValid` is the integrity
validator, which a report of success implies unless a post comes twice: the extractor pages through
tables without an order (`batch-extractor.py:65`), so a row may. A run is refused for an export that no run could
load (`Unloadable`) or because the application has given an imported row the slug of another (`Displaced`).

The modules `Menus`, `MediaSync`, `Migration` and `SmsQueue` have names of their own (`MenuSpec`, `SyncSpec`,
`ImportSpec`, `SmsSpec`), so that one module of proofs, or one instance for TLC, extends several.

Deviations that are not the code (`...WithoutNX`, `...EvenDeleted`, "Deviation:" in the comments)
stand before the definitions they alter. No specification uses them: they are the plausible
bugs each property is known to catch, listed under `mutants`.

## 4. Runs

| Run | Shows |
|---|---|
| `idempotency_menus` | either `ExclusiveUnlessStolen`, `ReplayUnlessStolen`, `ImplementsOnceOnly`, `KeyIsReleased` for 3 requests with one key, 2 payloads; or `ShownUnlessTurned`, `DeletedStaysUnlessStale` for 3 requests about 2 menus and 3 items |
| `posts` | `ScheduledHasDateUnlessStale`, `TextKeptUnlessBlanked`, `AnnouncedOnceUnlessStale`, `ImplementsLifecycle`, `ScheduledLeaves` for 3 requests, 2 worker processes |
| `posts_date` | fails: a scheduled post without a date (`posts.station.ts:140`) |
| `posts_text` | fails, with handlers in turn: a text replaced by a blank one is kept nowhere (`posts.station.ts:125`) |
| `reactions_import` | either `CountsMatchUnlessStale`, `ImplementsVotes`, `ToggleEnds` for 4 toggles of 2 users; or `OutcomeMeant`, `RerunsAgree` for 3 runs of the import over each of 7 exports |
| `pages` | `ForestUnlessRaced`, `PathsFollowUnlessRaced`, `ImplementsTree`, `RequestEnds` for 2 requests over six trees of up to 4 pages of two tenants |
| `pages_ancestor` | fails, with requests in turn: a page is moved below its own deleted child (`pages.repository.ts:58`) |
| `comments` | `ApprovedAsReadUnlessStale`, `RateHeldUnlessCrowded`, `NoFlagLost`, `ImplementsModeration` for 3 requests of an author and a moderator about up to 3 comments, the first of them approved or deleted |
| `comments_duplicates` | fails: a second text that differs in capitals is not taken for a duplicate (`comments.station.ts:21`) |
| `comments_final` | fails, with requests in turn: a deleted comment gets another status (`comments.station.ts:144`) |
| `auth_sms` | either `AccountsProved`, `ImplementsSignIn` for 4 requests of both flows about the phones of a member of the staff and of a customer, with 2 codes; or `MessagesBounded`, `CodeIsSentOrGivenUp` for 2 jobs and 2 workers |
| `taxonomy_media` | either `AcyclicUnlessTurned`, `ImplementsCatalogue` for 3 requests about 3 categories and a tag; or `AttachedFollowUnlessOverlapped`, `Converges` for 2 texts, one after the other or at once, and 2 workers |

Four runs hold two components each, which share no state: a behaviour is one of either. The variable `part`
is chosen at the start and never changes; the component it does not name rests at its initial state, where
its invariants and refinements are those of a system that does nothing yet, and where no action that fairness
asks for is enabled (`...Spec` of `MCIdempotencyMenus`, `MCReactionsImport`, `MCAuthSms`, `MCTaxonomyMedia`).
The states of such a run are therefore those of the two components side by side, not their product.

The passing runs also check a type invariant. Bounds, and why they are enough:
- three requests with one key: a failed one and the two retries that race after it, or one whose key
  expires and two that come after;
- three requests to a post: one creates it, two race with each other and with two jobs (one
  per process, as deployed); the clock runs to 3, so that a date can be before, at and after
  another; `MCEdits` has one input for each distinction the handlers make, a blank text among them;
- four toggles: two of one user and two of another, or all of one; two types give opposite lock orders;
- two requests over four pages: three pages are the least for a move below a grandchild, for a
  cycle by two moves and for a child whose new path is taken, and the fourth is of another tenant; the trees
  are those shapes, some with a deleted page, one with a page of the second tenant between two of the
  first, and `MCEdits` has each kind of change. `MaxPath = 4` is the longest path of a forest of
  live pages of one tenant here (a chain of three, one slug of two names), and longer ones are refused as by
  the database's index; a cycle, where paths grow until that index refuses the row, meets it too;
- three requests about comments: a reader who decides, one who changes what it decided on, and one
  who sees the result; `Limit = 1` and `MaxDepth = 1` put both limits within reach; `Judgements` are three of
  the six statuses, which are all that the operations and properties tell apart;
- four requests to sign in: two ask for codes, of one phone or of two, one enters a code and a fourth races to
  consume it or opens a session after it; a phone of the staff with a password and one of a customer whom
  nobody verified are the two rows that `prisma/seed.ts` leaves. `MaxCodes = 2` are the codes;
- two jobs of the SMS queue, for two codes or for one whose `add` was executed twice; `MaxAttempts = 3`
  and `MaxStalls = 1` are the code's options and BullMQ's default, and two workers let a slow one go on
  beside its successor;
- two texts and two workers: a job that stalls and comes back beside its first worker, and a
  second job beside either; `Attempts = 2` and `Stalls = 1` are the least with a retry of each kind;
  `MCLibrary` has a media of another center with the same key, `MCTexts` an image whose address names no media;
- three requests about categories: a find, a deletion in between and a write; three categories
  are a cycle longer than the two that an update could refuse. A tag has the slug of a
  category, which is no conflict;
- three requests about menu items: an item is created below one of another menu, that one is
  deleted and brought back, or one request is between its statements meanwhile;
- three runs of the import: one that fails, one that loads, one that repeats; each of the seven
  exports has one of the orders and defects that decide (`MCMigration`): it loads, refers to a later table,
  has two users without a phone or with one email, a child before its parent, a post without an author, a
  post in two versions. `MCOthers` are the slugs that the application may give: one that an export has, one
  that none has, and that of a post.

Four more configurations check, before their proofs, the specifications `SpecInTurn` of section 2;
they are not among the runs, since what they check is proved (section 6):

| Configuration | Module | Checks | Distinct states |
|---|---|---|---|
| `MCPostPublishingInTurn.cfg` | `MCPostPublishing` | `ScheduledHasDate`, `ImplementsLifecycleInTurn` | 13,038 |
| `MCReactionsInTurn.cfg` | `Reactions` | `CountsMatch`, `ImplementsVotesInTurn` | 26,515 |
| `MCPagesInTurn.cfg` | `MCPages` | `Forest`, `PathsFollowUnlessTorn`, `ImplementsTreeInTurn` | 509,887 |
| `MCCommentsInTurn.cfg` | `MCComments` | `ApprovedAsRead`, `WithinLimit`, `ImplementsModerationInTurn` | 162,470 |

They have the bounds of the runs, and three requests over pages: one that stops half-way, leaving
paths that are not their parents', one that moves what it left, and one that sees the result.

Symmetry under permutations of requests is used where the requests are interchangeable and no liveness
property depends on them: in `comments`, and in `auth_sms` for the requests of `Auth`, which has none; the
liveness checked there is that of the queue, whose states the permutations leave as they are.
Where a liveness property is checked of interchangeable requests or toggles, no symmetry is used but
an order of names, `InOrder` of `MCIdempotencyMenus` and `MCReactionsImport`: every behaviour is, up to a
renaming that changes none of the properties, one in which the requests leave their first steps in that order,
and the others are left out.
Deadlock is not checked where every request may have been served (`CHECK_DEADLOCK FALSE`):
the models have finitely many requests.

## 5. Fairness

- `Idempotency`: weak fairness of a request's own steps (a live process runs its requests) and
  of `Expire` (Redis expires keys). None for `Abandon`.
- `PostPublishing`: weak fairness of the clock and of the job's steps (`queues.ts:12` repeats it every
  minute for ever), strong fairness of `Publish`: a job may be cut short before it any number
  of times, but not for ever. None for editors.
- `Reactions`: weak fairness of each toggle's statements and of the database's deadlock
  detection. None for `Fail`.
- `Pages`: weak fairness of each running request's statements. None for `Stop` or for requests to come.
- `SmsQueue`: weak fairness of each worker's steps (workers go on taking jobs and ending attempts), and of
  finding that a job whose worker is gone has stalled. None for crashes, for adds, or for the stall of a
  job whose worker is alive.
- `MediaSync`: weak fairness of a request's queueing (or breaking off), of each worker's steps,
  and of finding that a job whose worker is gone has stalled (BullMQ looks every 30 seconds). None
  for crashes, for new texts, or for the stall of a job whose worker is alive.
- `Auth`, `Comments`, `Taxonomy`, `Menus`, `Migration`: none; they have no liveness property, every handler
  being a straight line.

## 6. Proofs

Every safety property that a passing run checks, and every refinement, is a theorem, for all values
of the constants, under the `ASSUME` of each module only, which says that the
names of "none" are not among the values, that the numbers are naturals, and that the rows at
the start are rows the program can have (slugs unique; parents that exist; of categories, in no cycle; of an
export, that rows have the columns of their tables and posts a slug). No proof assumes the sets of requests
or items to be finite; `Reactions` assumes finitely many users, whose reactions it counts, and `SmsQueue`
finitely many workers, whose messages it counts.

`IdempotencyProofs`: `IInv` adds to the types what each location of a request implies about
the record (who is in progress, who may still write) as long as nothing is stolen, and that then
what is cached came from a request with the hash of the record. `Exclusive`, `ReplayCorrect`
and `Refinement` follow. `ReplayCorrect` has the exception too: an `updateKey` that overwrites the record of
another payload leaves its own answer under the other's hash or the reverse, and only what no server error or
redirect is ever replayed holds without it. `SequentialClient` shows that a client with one request in
flight never meets the exception, if no key expires between the answer and the record of it (`ResultsInTime`).

`PostPublishingProofs`: the invariant ties each handler's copy to what it has validated (an
editor about to save has checked its input against the row it loaded, and has kept that
row's text as a revision if it replaces it by one that is not blank), so that an unchanged row makes the write
legal. `ContentKept` says that every text is stored, kept, or in `blanked`: the last is not a
weakness of the proof, since `posts_text` shows such a text lost. `Scheduled`, `ContentKept` and `Refinement` follow. `AnnouncedOnce` needs a count: as long as
nothing is stale, the announcements made and the actors about to announce (a finite set,
`Announcing`) are together no more than the times the row became `PUBLISHED`; only the write that
publishes lets an actor in, and an actor leaves by announcing or by stopping. `Current` is the
invariant of `SpecInTurn`: a handler between its read and its write has read the row that is stored.
`ScheduledInTurn` proves the very property that the run `posts_date` refutes of handlers that overlap.

`PagesProofs`, in four stages. `IInv`: types, unique slugs, parents that exist, and what each
request knows at each await. `Sees`: what a request has read still holds of the rows that nobody
has changed since (`Same`: its page's row is `loaded[e]`; `Searched`: the pages `isDescendant` has
been through, with those on its list, hold every child of theirs; `Placed`: the computed place is
the one that slug and parent give). `ForestKept`: a write that nothing overtook moves a page below
one outside a set that holds it and is closed under live children, and such a move makes no cycle of live pages, which is
all the theorem says (a cycle that a deleted page closes is what `pages_ancestor` shows); as for
categories, acyclicity is about sets and needs no induction over paths. The same facts make
each statement one atomic change of `PageTree` (`Refinement`). `PathsKept`: each active page is in
place, or a task of some `updateChildrenPaths` will still write it or list it (`Pending`): a move puts the
children of the page on the list before it ends, a child that is written hands its own children on, and only
the processing of a task, or the end of its request, which sets `torn`, takes one away. The whole path of
`isDescendant` and the recursion over children are in these proofs, for trees of any depth.

`Calm` is the invariant of `SpecInTurn`, and answers a question the history leaves open: does a
request overtake *itself*? It spreads paths over pages it has read earlier, one statement each, so
its own writes come between. `Frontier` says why not: there is a set of pages that it has written and that
is connected upward to its page; every task of its list starts at one of these, a page yet to be
listed has no child among them, and a page yet to be written is outside. So no page is written
twice, and each is written with the slug and below the path that are stored. `ForestInTurn`,
`PathsInTurn` and `RefinementInTurn` follow, without the exception of `raced`.

`ReactionsProofs`: the invariant says that transactions that have written hold different rows
(`LockInv`), that a transaction about to commit has upserted every aggregate it must
(`CountedInv`), and that a type in use has an aggregate row (`ListedInv`), without which the
clamp at zero would lose a decrement. `Refinement` shows every commit to be one atomic toggle,
and `Counted` follows from the abstract invariant with the library's facts on cardinality.
`Fresh` shows that what an open toggle has read is the user's row as long as no other toggle of
this user is open, so that `CountedInTurn` and `RefinementInTurn` need no exception: the
counters go wrong by two clicks of one user and by nothing else.

`CommentsProofs`: the invariant says what a request knows at each await (`Knows`): the comment it
is about exists, what it read allowed what it is about to do, and the depth it read is still the
parent's. `Refinement` and `ApprovedTextKept` follow from it. `FlagInv` adds that a request flags once,
`RateInv` that of the comments a creating request has counted fewer than the limit are still new,
whatever has been created since; `FlagsCounted` and `RateHeld` follow by cardinality. In turn, the
row a request has read is stored as it was (`Current`) and every comment of its user is one it has
counted: `ApprovedTextInTurn`, `RateHeldInTurn`, `RefinementInTurn`.

`AuthProofs`: that a phone is proved (`Used`: a code of it was entered rightly and
consumed) never becomes false again, so it can be carried in `Knows` from the await that
established it to those that act on it: `Proved` needs this across both flows, which consume
each other's codes. `Own` says that a request makes one code and one session at most, so that each statement
is one step of `SignIn` (`Refinement`). For the queue, `Bounded` counts the times a job can be taken: its
failed attempts and stalls, and one more while it is active or completed (`Turns`); the messages that have left and
the workers that have it and have not yet sent (`PendingIn`) are together no more.

`TaxonomyProofs`: `Knows` keeps what each request has checked, `Sure` that what it found is
still listed unless deleted since: `Refinement`. The rows at the start may have parents that make no cycle. `NoCycle` states acyclicity without paths: every
non-empty set of categories has one whose parent is outside. If a move of `i` below `p` broke
this for a set `U`, then the least part of `U` that holds `p` and is closed under children
(`Below`) either shows that such a set was there before the move, or leaves a rest of `U` that shows `p`
to be below `i`, which is what sets `turned`; no induction over paths is needed.

`ContentProofs`, about three components that promise an invariant and no atomic operations.

Menus: the same form of acyclicity for items, across menus. `Shown` follows from it: what
a tree left out of the items a reader may see would be a set in which every item has its parent.
`DeletedStays` follows from `Sure`.

Attachments: unless a job was lost or runs overlapped, either the attachments are
the text's and no undisturbed worker is about to change them (`Settled`), or some request or job is
still `Due` to read the text that is stored now. `ReadsLast` is what makes a commit end the
debt: a worker that nobody has disturbed has read what is attached. `Followed` is that invariant
when nothing is under way.

The import: inside the transaction, what has been upserted is closed under `Earlier`, each row it
holds is the last with its id so far, refers only to rows of the export and, a post, shares its slug with no
other (`InTransaction`); in the database, rows are there all or none but for tags taken off posts, and each is
the last of the export with its id, but for what the application edited and for the stamp of the run that
loaded it (`AsLoaded`, `Present`). With `loaded` a set and `Earlier` a relation, no induction over
sequences is needed. `Meant` and `Repeated` follow; the second because the last row with an id is the
same in every run but for `updatedAt` of users and posts' tags. That a refused run is `Unloadable` or
`Displaced` uses that a unique value met in the database is of a row of the application's own, of one
it has renamed, or of another row of the same export.

Model-checked only: liveness (`KeyIsReleased`, `ScheduledLeaves`, `ToggleEnds`, `RequestEnds`,
`CodeIsSentOrGivenUp`, `Converges`), which the prover does not reach, and the five runs that are
expected to fail.

## 7. Plan

What would add most, in this order:
1. A run of `Auth` and `SmsQueue` together, in which a code is read from a message that has left: what an older
   message that arrives late does to a customer who has asked again.
2. `InTurn` for the others: `raced` of `Auth` (requests about one phone), `stale` of `Taxonomy` and
   `Menus`, `overlapped` of `MediaSync` (one worker, no stall). `turned` needs no overlap and so has none.
3. What the runs with liveness rest on, as safety theorems: that some action of a request under way
   is always possible (a toggle waits only for a toggle that does not wait), for any number of them.

## 8. Not modelled

- Media upload: one put to storage, then one row; no route calls it.
- Backup: one script in a loop, with nothing beside it to interleave. It stops at its first cycle:
  `((cycle++))` is false when `cycle` is 0, under `set -e` (`docker/backup/entrypoint.sh:23`), which
  one run of the script shows.
- Process layout (start and stop of the two processes), settings, gaming centers, the other
  operations of users: single statements on single rows.
- Audit (append-only, failures swallowed), webhooks (they answer 501), events (no listener).
- Request validation, formatting, pagination, logging, metrics, rate limits by a library, the
  database client, mocks, seed data and documents: no state that two steps could disagree about.
- Access tokens: they are not stored, and nothing compares them with a session, so that one
  outlives its session's revocation (`auth.station.ts:205`); `isActive` of users and customers is read by no
  statement of the sign-in. The list schemas turn a missing number into `NaN`
  (`taxonomy.validation.ts:26`), which one request shows.
- In modelled components: slugs and their generation for posts, tags and categories of posts,
  reading times; the status and dates of pages; `rootId` and the tree of comments; what a moderator saw
  in requests before the one that approves; imported rows that the application deletes for good; the extractor and media validator of the migration tool, and the kinds it transforms and never loads.
