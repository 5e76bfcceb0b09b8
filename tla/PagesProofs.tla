---------------------------- MODULE PagesProofs ----------------------------
(***************************************************************************)
(* Proofs about the page tree, for every set of pages, slugs, bodies and   *)
(* requests in flight and every table at the start: until a write is       *)
(* decided on rows that have changed, live pages make no cycle among       *)
(* themselves, each request is at most one atomic change of the tree, and  *)
(* the stored paths follow it or are about to.  Cycles that go through a   *)
(* deleted page are not excluded, and the code does make them.             *)
(***************************************************************************)
EXTENDS Pages, TLAPS

Exists(p) == page[p] # Absent

\* Where a request has found the page it is about.
Finding == {"walk", "resolve", "unique", "write", "children", "remove"}

Creating == {"createUnique", "create"}

\* What a request knows of its page, its parent and its tasks at the await where
\* it stands.
Knows(e) ==
    /\ pc[e] \in Deciding => req[e] \in Reqs
    /\ pc[e] \in Finding => Exists(req[e].page) /\ loaded[e] \in Rows /\ loaded[e].active
    /\ pc[e] \in {"unique", "write"} /\ NewParent(e) \in Pages => Exists(NewParent(e))
    /\ pc[e] \in Creating =>
        /\ ~Exists(req[e].page)
        /\ req[e].parent # Keep /\ req[e].slug # Keep
        /\ req[e].parent \in Pages => Exists(req[e].parent)
        /\ \A f \in Requests \ {e} : req[f].page # req[e].page
    /\ pc[e] # "spread" => todo[e] = {}
    /\ \A w \in todo[e] : w.kind = "write" => Exists(w.child)

\* Slugs of a tenant's pages are unique, and parents are pages.
Table ==
    /\ \A p, q \in Pages : p # q /\ Tenant[p] = Tenant[q] /\ Exists(p) /\ Exists(q) =>
            page[p].slug # page[q].slug
    /\ \A p \in Pages : page[p].parent \in Pages => Exists(page[p].parent)

IInv == TypeOK /\ Table /\ \A e \in Requests : Knows(e)

----------------------------------------------------------------------------
(* Rows, places and tasks *)

LEMMA AbsentFacts ==
    /\ Absent \notin Rows /\ Absent.parent = NoPage /\ Absent.slug = <<>> /\ Absent.path = <<>>
    /\ Absent.depth = 0 /\ Absent.active = FALSE
    /\ <<>> \notin Slugs /\ <<>> \in Seq(Names) /\ NoPage \notin Pages /\ Keep \notin Pages \cup {NoPage}
    /\ Keep \notin Slugs /\ Slugs \subseteq Seq(Names)
    /\ NoReq.page = NoPage
<1>1. <<>> \notin Slugs /\ Slugs \subseteq Seq(Names) /\ NoPage \notin Pages
      /\ Keep \notin Pages \cup {NoPage} /\ Keep \notin Slugs
  BY PagesConstants
<1>2. QED
  BY <1>1 DEF Absent, Rows, NoReq

LEMMA RowFacts ==
    ASSUME NEW row \in Rows \cup {Absent}
    PROVE  /\ row.parent \in Pages \cup {NoPage} /\ row.path \in Seq(Names)
           /\ row.depth \in Nat /\ row.active \in BOOLEAN
           /\ row.slug \in Slugs \/ row = Absent
           /\ row # Absent => row \in Rows
           /\ row.active => row \in Rows
<1>1. CASE row = Absent
  <2>1. Absent.parent \in Pages \cup {NoPage} /\ Absent.path \in Seq(Names)
    BY AbsentFacts
  <2>2. Absent.depth \in Nat /\ Absent.active \in BOOLEAN /\ ~Absent.active
    BY DEF Absent
  <2>3. QED
    BY <1>1, <2>1, <2>2
<1>2. CASE row \in Rows
  BY <1>2 DEF Rows
<1>3. QED
  BY <1>1, <1>2

LEMMA MakeRow ==
    ASSUME NEW q \in Pages \cup {NoPage}, NEW s \in Slugs, NEW t \in Seq(Names), NEW d \in Nat,
           NEW a \in BOOLEAN
    PROVE  [parent |-> q, slug |-> s, path |-> t, depth |-> d, active |-> a] \in Rows
  BY DEF Rows

LEMMA PlaceFacts ==
    ASSUME TypeOK, NEW q \in Pages \cup {NoPage}, NEW s \in Slugs
    PROVE  PathUnder(page, q, s) \in Seq(Names) /\ DepthUnder(page, q) \in Nat
<1>1. s \in Seq(Names)
  BY AbsentFacts
<1>2. CASE q \in Pages
  <2>1. page[q].path \in Seq(Names) /\ page[q].depth \in Nat
    BY <1>2, RowFacts DEF TypeOK
  <2>2. page[q].path \o s \in Seq(Names) /\ page[q].depth + 1 \in Nat
    BY <1>1, <2>1
  <2>3. QED
    BY <1>1, <2>2 DEF PathUnder, DepthUnder
<1>3. CASE q = NoPage
  BY <1>1, <1>3 DEF PathUnder, DepthUnder
<1>4. QED
  BY <1>2, <1>3

LEMMA MakePlace ==
    ASSUME NEW t \in Seq(Names), NEW d \in Nat, NEW m \in BOOLEAN
    PROVE  LET x == [path |-> t, depth |-> d, moved |-> m]
           IN x \in Places /\ x.path = t /\ x.depth = d /\ x.moved = m
  BY DEF Places

LEMMA TaskFacts ==
    ASSUME NEW w \in Tasks
    PROVE  /\ w.kind \in {"list", "write"} /\ w.page \in Pages /\ w.path \in Seq(Names) /\ w.depth \in Nat
           /\ w.kind = "write" => w.child \in Pages /\ w.slug \in Slugs
<1>1. CASE w \in [kind : {"list"}, page : Pages, path : Seq(Names), depth : Nat]
  BY <1>1
<1>2. CASE w \in [kind : {"write"}, child : Pages, slug : Slugs, page : Pages, path : Seq(Names), depth : Nat]
  BY <1>2
<1>3. QED
  BY <1>1, <1>2 DEF Tasks

ListTask(p, t, d) == [kind |-> "list", page |-> p, path |-> t, depth |-> d]

WriteTask(w, c) ==
    [kind |-> "write", child |-> c, slug |-> page[c].slug, page |-> w.page, path |-> w.path, depth |-> w.depth]

LEMMA MakeListTask ==
    ASSUME NEW p \in Pages, NEW t \in Seq(Names), NEW d \in Nat
    PROVE  /\ ListTask(p, t, d) \in Tasks /\ ListTask(p, t, d).kind = "list"
           /\ ListTask(p, t, d).page = p /\ ListTask(p, t, d).path = t /\ ListTask(p, t, d).depth = d
<1>1. ListTask(p, t, d) \in [kind : {"list"}, page : Pages, path : Seq(Names), depth : Nat]
  BY DEF ListTask
<1>2. QED
  BY <1>1 DEF Tasks, ListTask

LEMMA MakeWriteTask ==
    ASSUME TypeOK, NEW w \in Tasks, NEW c \in Pages, Exists(c)
    PROVE  /\ WriteTask(w, c) \in Tasks /\ WriteTask(w, c).kind = "write" /\ WriteTask(w, c).child = c
           /\ WriteTask(w, c).slug = page[c].slug
<1>1. page[c].slug \in Slugs /\ w.page \in Pages /\ w.path \in Seq(Names) /\ w.depth \in Nat
  BY RowFacts, TaskFacts DEF TypeOK, Exists
<1>2. WriteTask(w, c) \in [kind : {"write"}, child : Pages, slug : Slugs, page : Pages,
                           path : Seq(Names), depth : Nat]
  BY <1>1 DEF WriteTask
<1>3. QED
  BY <1>2 DEF Tasks, WriteTask

ChildTask(c, s, p, t, d) ==
    [kind |-> "write", child |-> c, slug |-> s, page |-> p, path |-> t, depth |-> d]

\* A task is its fields.
LEMMA TaskRecords ==
    ASSUME NEW w \in Tasks
    PROVE  /\ w.kind = "list" => w = ListTask(w.page, w.path, w.depth)
           /\ w.kind = "write" => w = ChildTask(w.child, w.slug, w.page, w.path, w.depth)
  BY DEF Tasks, ListTask, ChildTask

----------------------------------------------------------------------------
(* What steps leave alone *)

\* The other requests stand where they stood.
Alone(e) ==
    \A f \in Requests \ {e} :
        /\ pc'[f] = pc[f] /\ req'[f] = req[f] /\ loaded'[f] = loaded[f] /\ walk'[f] = walk[f]
        /\ place'[f] = place[f] /\ todo'[f] = todo[f]

LEMMA EndFacts ==
    ASSUME TypeOK, NEW e \in Requests, End(e)
    PROVE  /\ pc' \in [Requests -> Locations] /\ req' \in [Requests -> Reqs \cup {NoReq}]
           /\ loaded' \in [Requests -> Rows \cup {Absent}] /\ walk' \in [Requests -> SUBSET Pages]
           /\ place' \in [Requests -> Places] /\ todo' \in [Requests -> SUBSET Tasks]
           /\ torn' \in BOOLEAN
           /\ pc'[e] = "done" /\ req'[e] = NoReq /\ todo'[e] = {} /\ Alone(e)
<1>1. NoPlace \in Places
  BY AbsentFacts DEF NoPlace, Places
<1>2. "done" \in Locations
  BY DEF Locations
<1>3. QED
  BY <1>1, <1>2 DEF End, Goto, Alone, TypeOK

\* Pages stay, and a request that creates one is not in the way of e.
LEMMA OthersKnow ==
    ASSUME IInv, NEW e \in Requests, Alone(e),
           \A p \in Pages : Exists(p) => page'[p] # Absent,
           \A f \in Requests \ {e} : pc[f] \in Creating =>
               page'[req[f].page] = page[req[f].page] /\ req'[e].page # req[f].page
    PROVE  \A f \in Requests \ {e} : Knows(f)'
<1> SUFFICES ASSUME NEW f \in Requests \ {e} PROVE Knows(f)'
  OBVIOUS
<1>1. /\ pc'[f] = pc[f] /\ req'[f] = req[f] /\ loaded'[f] = loaded[f] /\ todo'[f] = todo[f]
      /\ NewParent(f)' = NewParent(f)
  BY DEF Alone, NewParent
<1>2. Knows(f)
  BY DEF IInv
<1>3. pc[f] \in Deciding => req[f].page \in Pages /\ (req[f].parent \in Pages => req[f].parent \in Pages)
  BY <1>2 DEF Knows, Reqs
<1>4. Finding \subseteq Deciding /\ Creating \subseteq Deciding
  BY DEF Finding, Creating, Deciding, Locations
<1>5. \A w \in todo[f] : w \in Tasks /\ (w.kind = "write" => w.child \in Pages)
  BY TaskFacts DEF IInv, TypeOK
<1>6. pc[f] \in Finding => page'[req[f].page] # Absent
  BY <1>2, <1>3, <1>4 DEF Knows
<1>7. pc[f] \in Creating => page'[req[f].page] = Absent /\ \A g \in Requests \ {f} : req'[g].page # req[f].page
  BY <1>2, <1>4 DEF Knows, Exists, Alone
<1>8. \A w \in todo[f] : w.kind = "write" => page'[w.child] # Absent
  BY <1>2, <1>5 DEF Knows
<1>9. pc[f] \in {"unique", "write"} /\ NewParent(f) \in Pages => page'[NewParent(f)] # Absent
  BY <1>2 DEF Knows
<1>10. pc[f] \in Creating /\ req[f].parent \in Pages => page'[req[f].parent] # Absent
  BY <1>2 DEF Knows
<1>11. QED
  BY <1>1, <1>2, <1>6, <1>7, <1>8, <1>9, <1>10 DEF Knows, Exists

----------------------------------------------------------------------------
(* Steps that change no page *)

\* A step of e that changes no page keeps the invariant when it does for e.
LEMMA QuietStep ==
    ASSUME IInv, NEW e \in Requests, Alone(e), page' = page, TypeOK', Knows(e)',
           req'[e] = req[e] \/ req'[e] = NoReq \/ Exists(req'[e].page)
             \/ \A f \in Requests : req[f].page # req'[e].page
    PROVE  IInv'
<1>1. \A f \in Requests \ {e} : pc[f] \in Creating =>
          page'[req[f].page] = page[req[f].page] /\ req'[e].page # req[f].page
  <2> SUFFICES ASSUME NEW f \in Requests \ {e}, pc[f] \in Creating
               PROVE  req'[e].page # req[f].page
    OBVIOUS
  <2>1. Creating \subseteq Deciding
    BY DEF Creating, Deciding, Locations
  <2>2. req[f] \in Reqs /\ ~Exists(req[f].page) /\ \A g \in Requests \ {f} : req[g].page # req[f].page
    BY <2>1 DEF IInv, Knows
  <2>3. req[f].page \in Pages
    BY <2>2 DEF Reqs
  <2>4. QED
    BY <2>2, <2>3, AbsentFacts
<1>2. \A p \in Pages : Exists(p) => page'[p] # Absent
  BY DEF Exists
<1>3. \A f \in Requests \ {e} : Knows(f)'
  BY <1>1, <1>2, OthersKnow
<1>4. Table'
  BY DEF IInv, Table, Exists
<1>5. QED
  BY <1>3, <1>4 DEF IInv

LEMMA RefusedStep ==
    ASSUME IInv, NEW e \in Requests, Refused(e)
    PROVE  IInv'
<1>1. TypeOK
  BY DEF IInv
<1>2. End(e) /\ page' = page /\ raced' = raced /\ since' = [since EXCEPT ![e] = Still]
  BY DEF Refused
<1>3. TypeOK'
  <2>1. since' \in [Requests -> [rows : SUBSET Pages, shape : BOOLEAN]]
    BY <1>1, <1>2 DEF TypeOK, Still
  <2>2. QED
    BY <1>1, <1>2, <2>1, EndFacts DEF TypeOK
<1>4. pc'[e] = "done" /\ req'[e] = NoReq /\ todo'[e] = {} /\ Alone(e)
  BY <1>1, <1>2, EndFacts
<1>5. Knows(e)'
  BY <1>4 DEF Knows, Deciding, Finding, Creating
<1>6. QED
  BY <1>2, <1>3, <1>4, <1>5, QuietStep

LEMMA StartCreateStep ==
    ASSUME IInv, NEW e \in Requests, NEW p \in Pages, NEW q \in Pages \cup {NoPage}, NEW s \in Slugs,
           StartCreate(e, p, q, s)
    PROVE  IInv'
<1> DEFINE r == [page |-> p, parent |-> q, slug |-> s, active |-> "keep"]
           x == [path |-> PathUnder(page, q, s), depth |-> DepthUnder(page, q), moved |-> FALSE]
<1>1. TypeOK /\ Knows(e)
  BY DEF IInv
<1>2. /\ pc[e] = "idle" /\ ~Exists(p) /\ \A f \in Requests : req[f].page # p
      /\ q \in Pages => Exists(q)
      /\ req' = [req EXCEPT ![e] = r] /\ place' = [place EXCEPT ![e] = x]
      /\ pc' = [pc EXCEPT ![e] = "createUnique"]
      /\ UNCHANGED <<page, loaded, since, walk, todo, raced, torn>>
  BY DEF StartCreate, Goto, Exists
<1>3. r \in Reqs /\ r.page = p /\ r.parent = q /\ r.slug = s
  BY DEF Reqs
<1>4. x \in Places
  BY <1>1, PlaceFacts, MakePlace
<1>5. TypeOK'
  BY <1>1, <1>2, <1>3, <1>4 DEF TypeOK, Locations
<1>6. pc'[e] = "createUnique" /\ req'[e] = r /\ todo'[e] = {} /\ Alone(e)
  BY <1>1, <1>2 DEF TypeOK, Alone, Knows
<1>7. \A f \in Requests \ {e} : req'[f].page # p
  BY <1>2, <1>6 DEF Alone
<1>8. q # Keep /\ s # Keep
  BY AbsentFacts
<1>9. Knows(e)'
  BY <1>2, <1>3, <1>6, <1>7, <1>8 DEF Knows, Finding, Exists
<1>10. QED
  BY <1>2, <1>3, <1>5, <1>6, <1>9, QuietStep

\* A request that found its page asks about it.
LEMMA FindStep ==
    ASSUME IInv, NEW e \in Requests, NEW p \in Pages, NEW l \in {"walk", "resolve", "children"},
           NEW r \in Reqs, r.page = p, NEW W \in SUBSET Pages,
           Find(e, p, l), req' = [req EXCEPT ![e] = r], walk' = [walk EXCEPT ![e] = W],
           UNCHANGED <<page, since, place, todo, raced, torn>>
    PROVE  IInv'
<1>1. TypeOK /\ Knows(e)
  BY DEF IInv
<1>2. /\ pc[e] = "idle" /\ page[p].active /\ loaded' = [loaded EXCEPT ![e] = page[p]]
      /\ pc' = [pc EXCEPT ![e] = l]
  BY DEF Find, Goto
<1>3. page[p] \in Rows /\ Exists(p)
  BY <1>1, <1>2, RowFacts, AbsentFacts DEF TypeOK, Exists
<1>4. TypeOK'
  BY <1>1, <1>2, <1>3 DEF TypeOK, Locations
<1>5. pc'[e] = l /\ req'[e] = r /\ loaded'[e] = page[p] /\ todo'[e] = {} /\ Alone(e)
  BY <1>1, <1>2 DEF TypeOK, Alone, Knows
<1>6. Knows(e)'
  BY <1>2, <1>3, <1>5 DEF Knows, Creating, Exists
<1>7. QED
  BY <1>3, <1>4, <1>5, <1>6, QuietStep

LEMMA StartUpdateStep ==
    ASSUME IInv, NEW e \in Requests, NEW p \in Pages, NEW d \in Edits, StartUpdate(e, p, d)
    PROVE  IInv'
<1> DEFINE r == [page |-> p, parent |-> d.parent, slug |-> d.slug, active |-> d.active]
           l == IF d.parent \in Pages THEN "walk" ELSE "resolve"
           W == IF d.parent \in Pages THEN {p} ELSE {}
<1>1. d \in Inputs
  BY PagesConstants
<1>2. r \in Reqs /\ r.page = p
  BY <1>1 DEF Inputs, Reqs
<1>3. Find(e, p, l) /\ req' = [req EXCEPT ![e] = r] /\ walk' = [walk EXCEPT ![e] = W]
      /\ UNCHANGED <<page, since, place, todo, raced, torn>>
  BY DEF StartUpdate
<1>4. l \in {"walk", "resolve", "children"} /\ W \in SUBSET Pages /\ r \in Reqs
  BY <1>2
<1> HIDE DEF r, l, W
<1>5. QED
  BY <1>2, <1>3, <1>4, FindStep

LEMMA StartDeleteStep ==
    ASSUME IInv, NEW e \in Requests, NEW p \in Pages, StartDelete(e, p)
    PROVE  IInv'
<1> DEFINE r == [NoReq EXCEPT !.page = p]
<1>1. r \in Reqs /\ r.page = p
  BY DEF NoReq, Reqs
<1>2. Find(e, p, "children") /\ req' = [req EXCEPT ![e] = r]
      /\ UNCHANGED <<page, since, walk, place, todo, raced, torn>>
  BY DEF StartDelete
<1>3. walk[e] \in SUBSET Pages /\ walk' = [walk EXCEPT ![e] = walk[e]]
  BY <1>2 DEF IInv, TypeOK
<1>4. QED
  BY <1>1, <1>2, <1>3, FindStep

\* A request goes on where it may, with what it has read.
LEMMA GoesOn ==
    ASSUME IInv, NEW e \in Requests, NEW l \in Locations, Goto(e, l),
           UNCHANGED <<page, req, loaded, since, raced, torn>>,
           walk' \in [Requests -> SUBSET Pages], place' \in [Requests -> Places],
           todo' \in [Requests -> SUBSET Tasks],
           \A f \in Requests \ {e} : walk'[f] = walk[f] /\ place'[f] = place[f] /\ todo'[f] = todo[f],
           pc[e] \in Deciding, l \in Deciding,
           l \in Finding <=> pc[e] \in Finding, l \in Creating <=> pc[e] \in Creating,
           l \in {"unique", "write"} /\ NewParent(e) \in Pages => Exists(NewParent(e)),
           todo'[e] = todo[e]
    PROVE  IInv'
<1>1. TypeOK /\ Knows(e)
  BY DEF IInv
<1>2. pc' = [pc EXCEPT ![e] = l]
  BY DEF Goto
<1>3. TypeOK'
  BY <1>1, <1>2 DEF TypeOK
<1>4. pc'[e] = l /\ Alone(e)
  BY <1>1, <1>2 DEF TypeOK, Alone
<1>5. NewParent(e)' = NewParent(e)
  BY DEF NewParent
<1>6. pc[e] # "spread"
  BY DEF Deciding
<1>7. \A f \in Requests : req'[f] = req[f]
  OBVIOUS
<1>8. Knows(e)'
  BY <1>1, <1>4, <1>5, <1>6, <1>7 DEF Knows, Exists
<1>9. QED
  BY <1>3, <1>4, <1>8, QuietStep

LEMMA UniqueStep ==
    ASSUME IInv, NEW e \in Requests, Unique(e)
    PROVE  IInv'
<1> DEFINE l == IF pc[e] = "unique" THEN "write" ELSE "create"
<1>1. TypeOK /\ Knows(e)
  BY DEF IInv
<1>2. pc[e] \in {"unique", "createUnique"} /\ Goto(e, l)
      /\ UNCHANGED <<page, req, loaded, since, walk, place, todo, raced, torn>>
  BY DEF Unique
<1>3. l \in Locations /\ l \in Deciding /\ pc[e] \in Deciding
      /\ (l \in Finding <=> pc[e] \in Finding) /\ (l \in Creating <=> pc[e] \in Creating)
      /\ (l \in {"unique", "write"} => pc[e] = "unique")
  BY <1>2 DEF Locations, Deciding, Finding, Creating
<1>4. pc[e] = "unique" /\ NewParent(e) \in Pages => Exists(NewParent(e))
  BY <1>1 DEF Knows
<1> HIDE DEF l
<1>5. QED
  BY <1>1, <1>2, <1>3, <1>4, GoesOn DEF TypeOK

LEMMA WalkStep ==
    ASSUME IInv, NEW e \in Requests, NEW q \in Pages, Walk(e, q)
    PROVE  IInv'
<1> DEFINE W == (walk[e] \ {q}) \cup Children(q)
           l == IF walk'[e] = {} THEN "resolve" ELSE "walk"
<1>1. TypeOK /\ Knows(e)
  BY DEF IInv
<1>2. pc[e] = "walk" /\ walk' = [walk EXCEPT ![e] = W] /\ Goto(e, l)
      /\ UNCHANGED <<page, req, loaded, since, place, todo, raced, torn>>
  BY DEF Walk
<1>3. W \in SUBSET Pages
  BY <1>1 DEF TypeOK, Children
<1>4. l \in Locations /\ l \in Deciding /\ pc[e] \in Deciding
      /\ (l \in Finding <=> pc[e] \in Finding) /\ (l \in Creating <=> pc[e] \in Creating)
      /\ l \notin {"unique", "write"}
  BY <1>2 DEF Locations, Deciding, Finding, Creating
<1> HIDE DEF l, W
<1>5. QED
  BY <1>1, <1>2, <1>3, <1>4, GoesOn DEF TypeOK

LEMMA LoadedFacts ==
    ASSUME IInv, NEW e \in Requests, pc[e] \in Finding
    PROVE  /\ req[e] \in Reqs /\ req[e].page \in Pages /\ Exists(req[e].page)
           /\ loaded[e] \in Rows /\ loaded[e].active
           /\ NewParent(e) \in Pages \cup {NoPage} /\ NewSlug(e) \in Slugs
<1>1. req[e] \in Reqs /\ Exists(req[e].page) /\ loaded[e] \in Rows /\ loaded[e].active
  BY DEF IInv, Knows, Finding, Deciding, Locations
<1>2. req[e].page \in Pages /\ req[e].parent \in Pages \cup {NoPage, Keep}
      /\ req[e].slug \in Slugs \cup {Keep}
  BY <1>1 DEF Reqs
<1>3. loaded[e].parent \in Pages \cup {NoPage} /\ loaded[e].slug \in Slugs
  BY <1>1 DEF Rows
<1>4. QED
  BY <1>1, <1>2, <1>3 DEF NewParent, NewSlug

LEMMA ResolveStep ==
    ASSUME IInv, NEW e \in Requests, Resolve(e)
    PROVE  IInv'
<1> DEFINE l == IF Moves(e) THEN "unique" ELSE "write"
<1>1. TypeOK /\ Knows(e)
  BY DEF IInv
<1>2. pc[e] = "resolve" /\ place' = [place EXCEPT ![e] = PlaceOf(e)] /\ Goto(e, l)
      /\ (NewParent(e) \in Pages => Exists(NewParent(e)))
      /\ UNCHANGED <<page, req, loaded, since, walk, todo, raced, torn>>
  BY DEF Resolve, Exists
<1>3. loaded[e] \in Rows /\ NewParent(e) \in Pages \cup {NoPage} /\ NewSlug(e) \in Slugs
  BY <1>2, LoadedFacts DEF Finding
<1>4. loaded[e].path \in Seq(Names) /\ loaded[e].depth \in Nat
  BY <1>3 DEF Rows
<1>5. PlaceOf(e) \in Places
  <2>1. PathUnder(page, NewParent(e), NewSlug(e)) \in Seq(Names) /\ DepthUnder(page, NewParent(e)) \in Nat
    BY <1>1, <1>3, PlaceFacts
  <2>2. (IF NewParent(e) = loaded[e].parent THEN loaded[e].depth ELSE DepthUnder(page, NewParent(e))) \in Nat
    BY <1>4, <2>1
  <2>3. QED
    BY <1>4, <2>1, <2>2, MakePlace DEF PlaceOf
<1>6. l \in Locations /\ l \in Deciding /\ pc[e] \in Deciding
      /\ (l \in Finding <=> pc[e] \in Finding) /\ (l \in Creating <=> pc[e] \in Creating)
  BY <1>2 DEF Locations, Deciding, Finding, Creating
<1> HIDE DEF l
<1>7. QED
  BY <1>1, <1>2, <1>5, <1>6, GoesOn DEF TypeOK

LEMMA CheckChildrenStep ==
    ASSUME IInv, NEW e \in Requests, CheckChildren(e), ~Refused(e)
    PROVE  IInv'
<1>1. TypeOK /\ Knows(e)
  BY DEF IInv
<1>2. pc[e] = "children" /\ Goto(e, "remove")
      /\ UNCHANGED <<page, req, loaded, since, walk, place, todo, raced, torn>>
  BY DEF CheckChildren
<1>3. "remove" \in Locations /\ "remove" \in Deciding /\ pc[e] \in Deciding
      /\ "remove" \in Finding /\ pc[e] \in Finding /\ "remove" \notin Creating /\ pc[e] \notin Creating
      /\ "remove" \notin {"unique", "write"}
  BY <1>2 DEF Locations, Deciding, Finding, Creating
<1>4. QED
  BY <1>1, <1>2, <1>3, GoesOn DEF TypeOK

LEMMA ListChildrenStep ==
    ASSUME IInv, NEW e \in Requests, NEW w \in todo[e], ListChildren(e, w)
    PROVE  IInv'
<1> DEFINE T == (todo[e] \ {w}) \cup {WriteTask(w, c) : c \in Children(w.page)}
<1>1. TypeOK /\ Knows(e) /\ w \in Tasks
  BY DEF IInv, TypeOK
<1>2. pc[e] = "spread" /\ todo' = [todo EXCEPT ![e] = T]
      /\ UNCHANGED <<page, pc, req, loaded, since, walk, place, raced, torn>>
  BY DEF ListChildren, WriteTask
<1>3. \A c \in Children(w.page) : c \in Pages /\ Exists(c)
  BY AbsentFacts DEF Children, Exists
<1>4. \A c \in Children(w.page) :
          WriteTask(w, c) \in Tasks /\ WriteTask(w, c).kind = "write" /\ WriteTask(w, c).child = c
  BY <1>1, <1>3, MakeWriteTask
<1>5. T \in SUBSET Tasks /\ \A v \in T : v \in todo[e] \/ \E c \in Children(w.page) : v = WriteTask(w, c)
  BY <1>1, <1>4 DEF TypeOK
<1>6. \A v \in T : v.kind = "write" => Exists(v.child)
  BY <1>1, <1>3, <1>4, <1>5 DEF Knows
<1> HIDE DEF T
<1>7. TypeOK'
  BY <1>1, <1>2, <1>5 DEF TypeOK
<1>8. pc'[e] = "spread" /\ todo'[e] = T /\ Alone(e)
  BY <1>1, <1>2 DEF TypeOK, Alone
<1>9. Knows(e)'
  BY <1>2, <1>6, <1>8 DEF Knows, Deciding, Finding, Creating, Exists
<1>10. QED
  BY <1>2, <1>7, <1>8, <1>9, QuietStep

----------------------------------------------------------------------------
(* Steps that store a row *)

LEMMA StoreFacts ==
    ASSUME TypeOK, NEW p \in Pages, NEW new \in Rows, Store(p, new)
    PROVE  /\ page' = [page EXCEPT ![p] = new] /\ page'[p] = new
           /\ \A q \in Pages \ {p} : page'[q] = page[q]
           /\ page' \in [Pages -> Rows \cup {Absent}]
           /\ since' \in [Requests -> [rows : SUBSET Pages, shape : BOOLEAN]]
<1>1. page' = [page EXCEPT ![p] = new]
  BY DEF Store
<1>2. ASSUME NEW f \in Requests
      PROVE  [rows |-> since[f].rows \cup (IF new = page[p] THEN {} ELSE {p}),
              shape |-> since[f].shape \/ new.parent # page[p].parent \/ new.active # page[p].active]
                \in [rows : SUBSET Pages, shape : BOOLEAN]
  BY <1>2 DEF TypeOK
<1>3. Still \in [rows : SUBSET Pages, shape : BOOLEAN]
  BY DEF Still
<1>4. since' \in [Requests -> [rows : SUBSET Pages, shape : BOOLEAN]]
  BY <1>2, <1>3 DEF Store
<1>5. QED
  BY <1>1, <1>4 DEF TypeOK

\* A new row with a slug of its own and a parent that is there, at no page that
\* another request is about to create.
LEMMA StoreStep ==
    ASSUME IInv, NEW e \in Requests, Alone(e), NEW p \in Pages, NEW new \in Rows, Store(p, new),
           new.parent \in Pages => Exists(new.parent),
           \A q \in Pages \ {p} : Tenant[q] = Tenant[p] => page[q].slug # new.slug,
           Exists(p) \/ (pc[e] \in Creating /\ req[e].page = p),
           req'[e] = req[e] \/ req'[e] = NoReq,
           TypeOK', Knows(e)'
    PROVE  IInv'
<1>1. page'[p] = new /\ (\A q \in Pages \ {p} : page'[q] = page[q]) /\ new # Absent
  BY StoreFacts, AbsentFacts DEF IInv
<1>2. \A q \in Pages : Exists(q) => page'[q] # Absent
  BY <1>1 DEF Exists
<1>3. Table'
  <2>1. \A q, r \in Pages : q # r /\ Tenant[q] = Tenant[r] /\ page'[q] # Absent /\ page'[r] # Absent =>
            page'[q].slug # page'[r].slug
    BY <1>1 DEF IInv, Table, Exists
  <2>2. \A q \in Pages : page'[q].parent \in Pages => page'[page'[q].parent] # Absent
    BY <1>1, <1>2 DEF IInv, Table, Exists
  <2>3. QED
    BY <2>1, <2>2 DEF Table, Exists
<1>4. \A f \in Requests \ {e} : pc[f] \in Creating =>
          page'[req[f].page] = page[req[f].page] /\ req'[e].page # req[f].page
  <2> SUFFICES ASSUME NEW f \in Requests \ {e}, pc[f] \in Creating
               PROVE  page'[req[f].page] = page[req[f].page] /\ req'[e].page # req[f].page
    OBVIOUS
  <2>1. Creating \subseteq Deciding
    BY DEF Creating, Deciding, Locations
  <2>2. req[f] \in Reqs /\ ~Exists(req[f].page) /\ \A g \in Requests \ {f} : req[g].page # req[f].page
    BY <2>1 DEF IInv, Knows
  <2>3. req[f].page \in Pages
    BY <2>2 DEF Reqs
  <2>4. QED
    BY <1>1, <2>2, <2>3, AbsentFacts
<1>5. \A f \in Requests \ {e} : Knows(f)'
  BY <1>2, <1>4, OthersKnow
<1>6. QED
  BY <1>3, <1>5 DEF IInv

\* A row stored by a request that ends with it.
LEMMA LastStep ==
    ASSUME IInv, NEW e \in Requests, pc[e] \in Finding \cup Creating, NEW new \in Rows,
           End(e), Store(req[e].page, new), raced' \in BOOLEAN,
           new.parent \in Pages => Exists(new.parent),
           \A q \in Pages \ {req[e].page} : Tenant[q] = Tenant[req[e].page] => page[q].slug # new.slug
    PROVE  IInv'
<1>1. TypeOK /\ Knows(e)
  BY DEF IInv
<1>2. pc[e] \in Deciding /\ req[e].page \in Pages
  BY <1>1 DEF Knows, Finding, Creating, Deciding, Locations, Reqs
<1>3. pc'[e] = "done" /\ req'[e] = NoReq /\ todo'[e] = {} /\ Alone(e)
  BY <1>1, EndFacts
<1>4. TypeOK'
  BY <1>1, <1>2, EndFacts, StoreFacts DEF TypeOK
<1>5. Knows(e)'
  BY <1>3 DEF Knows, Deciding, Finding, Creating
<1>6. Exists(req[e].page) \/ pc[e] \in Creating
  BY <1>1 DEF Knows
<1>7. QED
  BY <1>2, <1>3, <1>4, <1>5, <1>6, StoreStep

LEMMA CreateFacts ==
    ASSUME IInv, NEW e \in Requests, pc[e] = "create"
    PROVE  /\ CreateRow(e) \in Rows /\ req[e] \in Reqs /\ req[e].page \in Pages /\ ~Exists(req[e].page)
           /\ req[e].parent \in Pages \cup {NoPage} /\ req[e].slug \in Slugs
           /\ req[e].parent \in Pages => Exists(req[e].parent)
           /\ CreateRow(e).parent = req[e].parent /\ CreateRow(e).slug = req[e].slug
           /\ CreateRow(e).active /\ CreateRow(e).path = place[e].path /\ CreateRow(e).depth = place[e].depth
<1>1. /\ req[e] \in Reqs /\ ~Exists(req[e].page) /\ req[e].parent # Keep /\ req[e].slug # Keep
      /\ req[e].parent \in Pages => Exists(req[e].parent)
  BY DEF IInv, Knows, Creating, Deciding, Locations
<1>2. req[e].page \in Pages /\ req[e].parent \in Pages \cup {NoPage} /\ req[e].slug \in Slugs
  BY <1>1 DEF Reqs
<1>3. place[e].path \in Seq(Names) /\ place[e].depth \in Nat
  BY DEF IInv, TypeOK, Places
<1>4. CreateRow(e) \in Rows
  BY <1>2, <1>3, MakeRow DEF CreateRow
<1>5. QED
  BY <1>1, <1>2, <1>4 DEF CreateRow

LEMMA CreateStep ==
    ASSUME IInv, NEW e \in Requests, Create(e)
    PROVE  IInv'
<1>1. pc[e] = "create" /\ Fits(req[e].page, CreateRow(e)) /\ End(e) /\ Store(req[e].page, CreateRow(e))
      /\ raced' = (raced \/ Changed(e, req[e].parent))
  BY DEF Create
<1>2. \A q \in Pages \ {req[e].page} : Tenant[q] = Tenant[req[e].page] => page[q].slug # CreateRow(e).slug
  BY <1>1 DEF Fits
<1>3. raced' \in BOOLEAN /\ pc[e] \in Creating
  BY <1>1 DEF Creating
<1>4. QED
  BY <1>1, <1>2, <1>3, CreateFacts, LastStep

LEMMA UpdateFacts ==
    ASSUME IInv, NEW e \in Requests, pc[e] = "write"
    PROVE  /\ UpdateRow(e) \in Rows /\ req[e].page \in Pages /\ page[req[e].page] \in Rows
           /\ UpdateRow(e).parent = IF req[e].parent = Keep THEN page[req[e].page].parent ELSE req[e].parent
           /\ UpdateRow(e).slug = IF req[e].slug = Keep THEN page[req[e].page].slug ELSE req[e].slug
           /\ UpdateRow(e).path = place[e].path /\ UpdateRow(e).depth = place[e].depth
           /\ UpdateRow(e).parent \in Pages => Exists(UpdateRow(e).parent)
<1> DEFINE old == page[req[e].page]
           u == IF req[e].parent = Keep THEN old.parent ELSE req[e].parent
           s == IF req[e].slug = Keep THEN old.slug ELSE req[e].slug
           a == ActiveOf(old, req[e])
<1>1. req[e] \in Reqs /\ req[e].page \in Pages /\ Exists(req[e].page)
  BY LoadedFacts DEF Finding
<1>2. old \in Rows
  BY <1>1, RowFacts DEF IInv, TypeOK, Exists
<1>3. req[e].parent \in Pages \cup {NoPage, Keep} /\ req[e].slug \in Slugs \cup {Keep}
  BY <1>1 DEF Reqs
<1>4. u \in Pages \cup {NoPage} /\ s \in Slugs /\ a \in BOOLEAN
  BY <1>2, <1>3 DEF Rows, ActiveOf
<1>5. place[e].path \in Seq(Names) /\ place[e].depth \in Nat
  BY DEF IInv, TypeOK, Places
<1>6. u \in Pages => Exists(u)
  <2>1. CASE req[e].parent = Keep
    BY <1>1, <2>1 DEF IInv, Table, Exists
  <2>2. CASE req[e].parent # Keep
    BY <2>2 DEF IInv, Knows, NewParent
  <2>3. QED
    BY <2>1, <2>2
<1>7. UpdateRow(e) = [parent |-> u, slug |-> s, path |-> place[e].path, depth |-> place[e].depth, active |-> a]
  BY DEF UpdateRow
<1> HIDE DEF u, s, a
<1>9. UpdateRow(e) \in Rows
  BY <1>4, <1>5, <1>7, MakeRow
<1>10. UpdateRow(e).parent = u /\ UpdateRow(e).slug = s /\ UpdateRow(e).active = a
       /\ UpdateRow(e).path = place[e].path /\ UpdateRow(e).depth = place[e].depth
  BY <1>7
<1>11. QED
  BY <1>1, <1>2, <1>6, <1>9, <1>10 DEF u, s, a

LEMMA UpdateStep ==
    ASSUME IInv, NEW e \in Requests, Update(e)
    PROVE  IInv'
<1> DEFINE p == req[e].page
           L == {ListTask(p, place[e].path, place[e].depth)}
<1>1. /\ pc[e] = "write" /\ Fits(p, UpdateRow(e)) /\ Store(p, UpdateRow(e))
      /\ raced' = (raced \/ Overtaken(e))
      /\ IF place[e].moved
         THEN todo' = [todo EXCEPT ![e] = L] /\ pc' = [pc EXCEPT ![e] = "spread"]
              /\ UNCHANGED <<req, loaded, walk, place, torn>>
         ELSE End(e)
  BY DEF Update, ListTask, Goto
<1>2. TypeOK /\ Knows(e)
  BY DEF IInv
<1>3. \A q \in Pages \ {p} : Tenant[q] = Tenant[p] => page[q].slug # UpdateRow(e).slug
  BY <1>1 DEF Fits
<1>4. raced' \in BOOLEAN /\ pc[e] \in Finding
  BY <1>1 DEF Finding
<1>5. p \in Pages /\ UpdateRow(e) \in Rows /\ (UpdateRow(e).parent \in Pages => Exists(UpdateRow(e).parent))
  BY <1>1, UpdateFacts
<1>6. CASE ~place[e].moved
  BY <1>1, <1>3, <1>4, <1>5, <1>6, LastStep
<1>7. CASE place[e].moved
  <2>1. place[e].path \in Seq(Names) /\ place[e].depth \in Nat
    BY <1>2 DEF TypeOK, Places
  <2>2. L \in SUBSET Tasks /\ \A w \in L : w.kind = "list"
    BY <1>5, <2>1, MakeListTask
  <2> HIDE DEF L
  <2>3. TypeOK'
    BY <1>1, <1>2, <1>4, <1>5, <1>7, <2>2, StoreFacts DEF TypeOK, Locations
  <2>4. pc'[e] = "spread" /\ todo'[e] = L /\ req'[e] = req[e] /\ Alone(e)
    BY <1>1, <1>2, <1>7 DEF TypeOK, Alone
  <2>5. Knows(e)'
    BY <2>2, <2>4 DEF Knows, Deciding, Finding, Creating
  <2>6. Exists(p)
    BY <1>4, LoadedFacts
  <2>7. QED
    BY <1>1, <1>3, <1>5, <2>3, <2>4, <2>5, <2>6, StoreStep
<1>8. QED
  BY <1>6, <1>7

LEMMA TaskRowFacts ==
    ASSUME IInv, NEW e \in Requests, NEW w \in todo[e], w.kind = "write"
    PROVE  /\ w \in Tasks /\ w.child \in Pages /\ Exists(w.child) /\ TaskRow(w) \in Rows
           /\ TaskRow(w).parent = page[w.child].parent /\ TaskRow(w).slug = page[w.child].slug
           /\ TaskRow(w).active = page[w.child].active
           /\ TaskRow(w).path = w.path \o w.slug /\ TaskRow(w).depth = w.depth + 1
           /\ TaskRow(w).path \in Seq(Names) /\ TaskRow(w).depth \in Nat
<1>1. w \in Tasks /\ Exists(w.child)
  BY DEF IInv, TypeOK, Knows
<1>2. w.child \in Pages /\ w.slug \in Seq(Names) /\ w.path \in Seq(Names) /\ w.depth \in Nat
  BY <1>1, TaskFacts, AbsentFacts
<1>3. page[w.child] \in Rows
  BY <1>1, <1>2, RowFacts DEF IInv, TypeOK, Exists
<1>4. w.path \o w.slug \in Seq(Names) /\ w.depth + 1 \in Nat
  BY <1>2
<1>5. TaskRow(w) \in Rows /\ TaskRow(w).parent = page[w.child].parent
      /\ TaskRow(w).slug = page[w.child].slug /\ TaskRow(w).active = page[w.child].active
      /\ TaskRow(w).path = w.path \o w.slug /\ TaskRow(w).depth = w.depth + 1
  BY <1>3, <1>4 DEF TaskRow, Rows
<1>6. QED
  BY <1>1, <1>2, <1>4, <1>5

LEMMA WriteChildStep ==
    ASSUME IInv, NEW e \in Requests, NEW w \in todo[e], WriteChild(e, w)
    PROVE  IInv'
<1> DEFINE v == ListTask(w.child, TaskRow(w).path, TaskRow(w).depth)
           T == (todo[e] \ {w}) \cup {v}
<1>1. /\ pc[e] = "spread" /\ w.kind = "write" /\ Fits(w.child, TaskRow(w)) /\ Store(w.child, TaskRow(w))
      /\ raced' = (raced \/ Outdated(w)) /\ todo' = [todo EXCEPT ![e] = T]
      /\ UNCHANGED <<pc, req, loaded, walk, place, torn>>
  BY DEF WriteChild, ListTask
<1>2. TypeOK /\ Knows(e)
  BY DEF IInv
<1>3. /\ w \in Tasks /\ w.child \in Pages /\ Exists(w.child) /\ TaskRow(w) \in Rows
      /\ TaskRow(w).parent = page[w.child].parent
      /\ TaskRow(w).path \in Seq(Names) /\ TaskRow(w).depth \in Nat
  BY <1>1, TaskRowFacts
<1>4. v \in Tasks /\ v.kind = "list"
  BY <1>3, MakeListTask
<1> HIDE DEF v
<1>5. T \in SUBSET Tasks /\ \A u \in T : u \in todo[e] \/ u.kind = "list"
  BY <1>2, <1>4 DEF TypeOK
<1> HIDE DEF T
<1>6. raced' \in BOOLEAN
  BY <1>1
<1>7. TypeOK'
  BY <1>1, <1>2, <1>3, <1>5, <1>6, StoreFacts DEF TypeOK
<1>8. pc'[e] = "spread" /\ todo'[e] = T /\ req'[e] = req[e] /\ Alone(e)
  BY <1>1, <1>2 DEF TypeOK, Alone
<1>9. \A q \in Pages \ {w.child} : Tenant[q] = Tenant[w.child] => page[q].slug # TaskRow(w).slug
  BY <1>1 DEF Fits
<1>10. TaskRow(w).parent \in Pages => Exists(TaskRow(w).parent)
  BY <1>3 DEF IInv, Table
<1>11. page'[w.child] = TaskRow(w) /\ \A q \in Pages \ {w.child} : page'[q] = page[q]
  BY <1>1, <1>2, <1>3, StoreFacts
<1>12. \A u \in T : u.kind = "write" => page'[u.child] # Absent
  <2> SUFFICES ASSUME NEW u \in T, u.kind = "write"
               PROVE  page'[u.child] # Absent
    OBVIOUS
  <2>1. u \in Tasks /\ Exists(u.child)
    BY <1>2, <1>5 DEF Knows
  <2>2. u.child \in Pages
    BY <2>1, TaskFacts
  <2>3. QED
    BY <1>3, <1>11, <2>1, <2>2, AbsentFacts DEF Exists
<1>13. Knows(e)'
  BY <1>8, <1>12 DEF Knows, Deciding, Finding, Creating, Exists
<1>14. QED
  BY <1>1, <1>3, <1>7, <1>8, <1>9, <1>10, <1>13, StoreStep

RemovedRow(e) == [page[req[e].page] EXCEPT !.active = FALSE]

LEMMA RemoveFacts ==
    ASSUME IInv, NEW e \in Requests, pc[e] = "remove"
    PROVE  /\ RemovedRow(e) \in Rows /\ req[e].page \in Pages /\ Exists(req[e].page)
           /\ RemovedRow(e).parent = page[req[e].page].parent /\ RemovedRow(e).slug = page[req[e].page].slug
           /\ RemovedRow(e).path = page[req[e].page].path /\ RemovedRow(e).depth = page[req[e].page].depth
           /\ ~RemovedRow(e).active
           /\ \A q \in Pages \ {req[e].page} : Tenant[q] = Tenant[req[e].page] => page[q].slug # page[req[e].page].slug
<1>1. req[e].page \in Pages /\ Exists(req[e].page)
  BY LoadedFacts DEF Finding
<1>2. page[req[e].page] \in Rows
  BY <1>1, RowFacts DEF IInv, TypeOK, Exists
<1>3. \A q \in Pages \ {req[e].page} : Tenant[q] = Tenant[req[e].page] => page[q].slug # page[req[e].page].slug
  <2> SUFFICES ASSUME NEW q \in Pages \ {req[e].page}, Tenant[q] = Tenant[req[e].page]
               PROVE  page[q].slug # page[req[e].page].slug
    OBVIOUS
  <2>1. CASE Exists(q)
    BY <1>1, <2>1 DEF IInv, Table
  <2>2. CASE page[q] = Absent
    BY <1>2, <2>2, AbsentFacts DEF Rows
  <2>3. QED
    BY <2>1, <2>2 DEF Exists
<1>4. QED
  BY <1>1, <1>2, <1>3 DEF RemovedRow, Rows

LEMMA RemoveStep ==
    ASSUME IInv, NEW e \in Requests, Remove(e)
    PROVE  IInv'
<1>1. pc[e] = "remove" /\ End(e) /\ Store(req[e].page, RemovedRow(e))
      /\ raced' = (raced \/ Changed(e, req[e].page))
  BY DEF Remove, RemovedRow
<1>2. raced' \in BOOLEAN /\ pc[e] \in Finding
  BY <1>1 DEF Finding
<1>3. RemovedRow(e).parent \in Pages => Exists(RemovedRow(e).parent)
  BY <1>1, RemoveFacts DEF IInv, Table
<1>4. RemovedRow(e) \in Rows /\ \A q \in Pages \ {req[e].page} : Tenant[q] = Tenant[req[e].page] => page[q].slug # RemovedRow(e).slug
  BY <1>1, RemoveFacts
<1>5. QED
  BY <1>1, <1>2, <1>3, <1>4, LastStep

----------------------------------------------------------------------------
(* The invariant *)

LEMMA IInvInit == Init => IInv
<1> SUFFICES ASSUME Init PROVE IInv
  OBVIOUS
<1>1. page \in [Pages -> Rows \cup {Absent}]
      /\ (\A p \in Pages : page[p].parent \in Pages => Exists(page[p].parent))
      /\ (\A p, q \in Pages : Exists(p) /\ Exists(q) /\ p # q /\ Tenant[p] = Tenant[q] =>
              page[p].slug # page[q].slug)
  BY PagesConstants DEF Init, Built, Exists
<1>2. Table
  BY <1>1 DEF Table
<1>3. NoPlace \in Places
  BY AbsentFacts DEF NoPlace, Places
<1>4. Still \in [rows : SUBSET Pages, shape : BOOLEAN] /\ "idle" \in Locations
  BY DEF Still, Locations
<1>5. TypeOK
  BY <1>1, <1>3, <1>4 DEF Init, TypeOK
<1>6. \A e \in Requests : Knows(e)
  BY DEF Init, Knows, Deciding, Finding, Creating
<1>7. QED
  BY <1>2, <1>5, <1>6 DEF IInv

\* A step of e: all the ways a request ends without storing a row are one.
Kinds(e) ==
    \/ Refused(e) \/ Unique(e) \/ Create(e) \/ Resolve(e) \/ Update(e) \/ Remove(e)
    \/ CheckChildren(e) /\ ~Refused(e)
    \/ \E p \in Pages, q \in Pages \cup {NoPage}, s \in Slugs : StartCreate(e, p, q, s)
    \/ \E p \in Pages, d \in Edits : StartUpdate(e, p, d)
    \/ \E p \in Pages : StartDelete(e, p) \/ Walk(e, p)
    \/ \E w \in todo[e] : ListChildren(e, w) \/ WriteChild(e, w)

LEMMA StepKinds == Next => \E e \in Requests : Kinds(e)
  BY DEF Next, Start, Step, Refuse, Stop, ChecksRefused, CreateRefused, WalkRefused, UpdateRefused,
         WriteChildRefused, Spread, Kinds

LEMMA IInvStep == IInv /\ [Next]_vars => IInv'
<1>1. ASSUME IInv, Next PROVE IInv'
  <2>1. PICK e \in Requests : Kinds(e)
    BY <1>1, StepKinds
  <2>2. QED
    BY <1>1, <2>1, RefusedStep, UniqueStep, CreateStep, ResolveStep, UpdateStep, RemoveStep,
       CheckChildrenStep, StartCreateStep, StartUpdateStep, StartDeleteStep, WalkStep,
       ListChildrenStep, WriteChildStep DEF Kinds
<1>2. ASSUME IInv, UNCHANGED vars PROVE IInv'
  BY <1>2 DEF IInv, TypeOK, Table, Knows, Exists, NewParent, vars
<1>3. QED
  BY <1>1, <1>2

LEMMA Invariant == Spec => []IInv
  BY IInvInit, IInvStep, PTL DEF Spec

\* Types: the rows, requests and tasks of the page station stay what the table
\* and the handlers take them for.
THEOREM TypeCorrect == Spec => []TypeOK
<1>1. IInv => TypeOK
  BY DEF IInv
<1>2. QED
  BY <1>1, Invariant, PTL

----------------------------------------------------------------------------
(* What a request has read still holds of the rows that have not changed. *)

\* The row found.
Same(e) == pc[e] \in Finding /\ ~Changed(e, req[e].page) => page[req[e].page] = loaded[e]

\* D: the pages isDescendant has gone through.
Closed(e, D) ==
    /\ req[e].page \in D \cup walk[e] /\ req[e].parent \notin D \cup walk[e]
    /\ \A d \in D : Children(d) \subseteq D \cup walk[e]

\* The new parent is not below the page, as far as isDescendant has come.
Searched(e) ==
    /\ pc[e] \in {"walk", "resolve", "unique", "write"} /\ req[e].parent \in Pages /\ ~since[e].shape =>
            \E D \in SUBSET Pages : Closed(e, D)
    /\ pc[e] \in {"resolve", "unique", "write"} => walk[e] = {}

\* The path and depth computed.
Placed(e) ==
    /\ pc[e] \in {"unique", "write"} =>
        /\ place[e].moved = Moves(e)
        /\ place[e].moved /\ ~Changed(e, NewParent(e)) =>
            /\ place[e].path = PathUnder(page, NewParent(e), NewSlug(e))
            /\ NewParent(e) # loaded[e].parent => place[e].depth = DepthUnder(page, NewParent(e))
        /\ NewParent(e) = loaded[e].parent => place[e].depth = loaded[e].depth
        /\ ~place[e].moved => place[e].path = loaded[e].path
    /\ pc[e] \in Creating /\ ~Changed(e, req[e].parent) =>
        /\ place[e].path = PathUnder(page, req[e].parent, req[e].slug)
        /\ place[e].depth = DepthUnder(page, req[e].parent)

Sees(e) == Same(e) /\ Searched(e) /\ Placed(e)

\* No change escapes the history kept for request f.
Noted(f) ==
    /\ \A p \in Pages : page'[p] # page[p] => p \in since'[f].rows
    /\ since[f].rows \subseteq since'[f].rows
    /\ \A p \in Pages : page'[p].parent # page[p].parent \/ page'[p].active # page[p].active
                        => since'[f].shape
    /\ since[f].shape => since'[f].shape

LEMMA StoreNoted ==
    ASSUME TypeOK, NEW p \in Pages, NEW new \in Rows, Store(p, new),
           NEW f \in Requests, pc'[f] \in Deciding
    PROVE  Noted(f)
<1>1. page'[p] = new /\ \A q \in Pages \ {p} : page'[q] = page[q]
  BY StoreFacts
<1>2. /\ since'[f].rows = since[f].rows \cup (IF new = page[p] THEN {} ELSE {p})
      /\ since'[f].shape = (since[f].shape \/ new.parent # page[p].parent \/ new.active # page[p].active)
  BY DEF Store
<1>3. QED
  BY <1>1, <1>2 DEF Noted

LEMMA CalmNoted ==
    ASSUME page' = page, NEW f \in Requests, since'[f] = since[f]
    PROVE  Noted(f)
  BY DEF Noted

LEMMA OtherSees ==
    ASSUME IInv, NEW e \in Requests, NEW f \in Requests \ {e}, Alone(e), Sees(f),
           pc[f] \in Deciding => Noted(f)
    PROVE  Sees(f)'
<1>1. /\ pc'[f] = pc[f] /\ req'[f] = req[f] /\ loaded'[f] = loaded[f] /\ walk'[f] = walk[f]
      /\ place'[f] = place[f]
  BY DEF Alone
<1>2. NewParent(f)' = NewParent(f) /\ NewSlug(f)' = NewSlug(f) /\ Moves(f)' = Moves(f)
  BY <1>1 DEF NewParent, NewSlug, Moves
<1>3. Finding \subseteq Deciding /\ Creating \subseteq Deciding
      /\ {"walk", "resolve", "unique", "write"} \subseteq Finding
  BY DEF Finding, Creating, Deciding, Locations
<1>4. CASE pc[f] \in Finding
  <2>1. Noted(f) /\ req[f].page \in Pages /\ NewParent(f) \in Pages \cup {NoPage} /\ pc[f] \notin Creating
    BY <1>3, <1>4, LoadedFacts DEF Finding, Creating
  <2>2. Same(f)'
    BY <1>1, <1>4, <2>1 DEF Sees, Same, Noted, Changed
  <2>3. Searched(f)'
    <3>1. ASSUME pc[f] \in {"walk", "resolve", "unique", "write"}, req[f].parent \in Pages, ~since'[f].shape
          PROVE  \E D \in SUBSET Pages : Closed(f, D)'
      <4>1. ~since[f].shape /\ \A p \in Pages : page'[p].parent = page[p].parent /\ page'[p].active = page[p].active
        BY <2>1, <3>1 DEF Noted
      <4>2. PICK D \in SUBSET Pages : Closed(f, D)
        BY <3>1, <4>1 DEF Sees, Searched
      <4>3. \A d \in D : Children(d)' = Children(d)
        BY <4>1 DEF Children
      <4>4. Closed(f, D)'
        BY <1>1, <4>2, <4>3 DEF Closed
      <4>5. QED
        BY <4>4
    <3>2. QED
      BY <1>1, <3>1 DEF Sees, Searched
  <2>4. Placed(f)'
    <3>1. ASSUME ~Changed(f, NewParent(f))'
          PROVE  /\ ~Changed(f, NewParent(f))
                 /\ PathUnder(page', NewParent(f), NewSlug(f)) = PathUnder(page, NewParent(f), NewSlug(f))
                 /\ DepthUnder(page', NewParent(f)) = DepthUnder(page, NewParent(f))
      BY <1>2, <2>1, <3>1 DEF Noted, Changed, PathUnder, DepthUnder
    <3>2. QED
      BY <1>1, <1>2, <2>1, <3>1 DEF Sees, Placed, PathUnder, DepthUnder
  <2>5. QED
    BY <2>2, <2>3, <2>4 DEF Sees
<1>5. CASE pc[f] \in Creating
  <2>1. Noted(f) /\ req[f].parent \in Pages \cup {NoPage, Keep} /\ req[f].parent # Keep /\ pc[f] \notin Finding
    BY <1>3, <1>5 DEF IInv, Knows, Reqs, Finding, Creating
  <2>2. Same(f)' /\ Searched(f)'
    BY <1>1, <1>3, <2>1 DEF Same, Searched
  <2>3. ASSUME ~Changed(f, req[f].parent)'
        PROVE  /\ ~Changed(f, req[f].parent)
               /\ PathUnder(page', req[f].parent, req[f].slug) = PathUnder(page, req[f].parent, req[f].slug)
               /\ DepthUnder(page', req[f].parent) = DepthUnder(page, req[f].parent)
    BY <1>1, <2>1, <2>3 DEF Noted, Changed, PathUnder, DepthUnder
  <2>4. Placed(f)'
    BY <1>1, <1>3, <2>1, <2>3 DEF Sees, Placed, PathUnder, DepthUnder
  <2>5. QED
    BY <2>2, <2>4 DEF Sees
<1>6. CASE pc[f] \notin Finding \cup Creating
  BY <1>1, <1>3, <1>6 DEF Sees, Same, Searched, Placed
<1>7. QED
  BY <1>4, <1>5, <1>6

\* A request that decides nothing more.
LEMMA EndSees ==
    ASSUME NEW e \in Requests, pc'[e] \in {"done", "spread"}
    PROVE  Sees(e)'
  BY DEF Sees, Same, Searched, Placed, Finding, Creating

\* Every step leaves the other requests where they stand, and changes no page or
\* stores the row of one.
Effect(e) ==
    /\ Alone(e)
    /\ \/ page' = page /\ \A f \in Requests \ {e} : since'[f] = since[f]
       \/ \E p \in Pages, new \in Rows : Store(p, new)

LEMMA EffectOfQuiet ==
    ASSUME IInv, NEW e \in Requests,
           \/ Refused(e) \/ Unique(e) \/ Resolve(e)
           \/ CheckChildren(e) /\ ~Refused(e)
           \/ \E p \in Pages, q \in Pages \cup {NoPage}, s \in Slugs : StartCreate(e, p, q, s)
           \/ \E p \in Pages, d \in Edits : StartUpdate(e, p, d)
           \/ \E p \in Pages : StartDelete(e, p) \/ Walk(e, p)
           \/ \E w \in todo[e] : ListChildren(e, w)
    PROVE  Effect(e)
<1>1. TypeOK
  BY DEF IInv
<1>2. CASE Refused(e)
  BY <1>1, <1>2, EndFacts DEF Refused, Effect, TypeOK
<1>3. CASE Unique(e)
  BY <1>1, <1>3 DEF Unique, Goto, Effect, Alone, TypeOK
<1>4. CASE Resolve(e)
  BY <1>1, <1>4 DEF Resolve, Goto, Effect, Alone, TypeOK
<1>5. CASE CheckChildren(e) /\ ~Refused(e)
  BY <1>1, <1>5 DEF CheckChildren, Goto, Effect, Alone, TypeOK
<1>6. CASE \E p \in Pages, q \in Pages \cup {NoPage}, s \in Slugs : StartCreate(e, p, q, s)
  BY <1>1, <1>6 DEF StartCreate, Goto, Effect, Alone, TypeOK
<1>7. CASE \E p \in Pages, d \in Edits : StartUpdate(e, p, d)
  BY <1>1, <1>7 DEF StartUpdate, Find, Goto, Effect, Alone, TypeOK
<1>8. CASE \E p \in Pages : StartDelete(e, p)
  BY <1>1, <1>8 DEF StartDelete, Find, Goto, Effect, Alone, TypeOK
<1>9. CASE \E p \in Pages : Walk(e, p)
  BY <1>1, <1>9 DEF Walk, Goto, Effect, Alone, TypeOK
<1>10. CASE \E w \in todo[e] : ListChildren(e, w)
  BY <1>1, <1>10 DEF ListChildren, Effect, Alone, TypeOK
<1>11. QED
  BY <1>2, <1>3, <1>4, <1>5, <1>6, <1>7, <1>8, <1>9, <1>10

LEMMA EffectOfStore ==
    ASSUME IInv, NEW e \in Requests,
           Create(e) \/ Update(e) \/ Remove(e) \/ \E w \in todo[e] : WriteChild(e, w)
    PROVE  Effect(e) /\ pc'[e] \in {"done", "spread"}
<1>1. TypeOK
  BY DEF IInv
<1>2. CASE Create(e)
  <2>1. pc[e] = "create" /\ End(e) /\ Store(req[e].page, CreateRow(e))
    BY <1>2 DEF Create
  <2>2. CreateRow(e) \in Rows /\ req[e].page \in Pages
    BY <2>1, CreateFacts
  <2>3. QED
    BY <1>1, <2>1, <2>2, EndFacts DEF Effect
<1>3. CASE Update(e)
  <2>1. pc[e] = "write" /\ Store(req[e].page, UpdateRow(e))
    BY <1>3 DEF Update
  <2>2. UpdateRow(e) \in Rows /\ req[e].page \in Pages
    BY <2>1, UpdateFacts
  <2>3. Alone(e) /\ pc'[e] \in {"done", "spread"}
    <3>1. CASE End(e)
      BY <1>1, <3>1, EndFacts
    <3>2. CASE ~End(e)
      BY <1>1, <1>3, <3>2 DEF Update, Goto, Alone, TypeOK
    <3>3. QED
      BY <3>1, <3>2
  <2>4. QED
    BY <2>1, <2>2, <2>3 DEF Effect
<1>4. CASE Remove(e)
  <2>1. pc[e] = "remove" /\ End(e) /\ Store(req[e].page, RemovedRow(e))
    BY <1>4 DEF Remove, RemovedRow
  <2>2. RemovedRow(e) \in Rows /\ req[e].page \in Pages
    BY <2>1, RemoveFacts
  <2>3. QED
    BY <1>1, <2>1, <2>2, EndFacts DEF Effect
<1>5. CASE \E w \in todo[e] : WriteChild(e, w)
  <2>1. PICK w \in todo[e] : WriteChild(e, w)
    BY <1>5
  <2>2. /\ pc[e] = "spread" /\ w.kind = "write" /\ Store(w.child, TaskRow(w))
        /\ todo' = [todo EXCEPT ![e] = todo'[e]] /\ UNCHANGED <<pc, req, loaded, walk, place>>
    BY <1>1, <2>1 DEF WriteChild, TypeOK
  <2>3. TaskRow(w) \in Rows /\ w.child \in Pages
    BY <2>2, TaskRowFacts
  <2>4. Alone(e)
    BY <1>1, <2>2 DEF Alone, TypeOK
  <2>5. QED
    BY <2>2, <2>3, <2>4 DEF Effect
<1>6. QED
  BY <1>2, <1>3, <1>4, <1>5

LEMMA OthersSee ==
    ASSUME IInv, NEW e \in Requests, Effect(e), NEW f \in Requests \ {e}, Sees(f)
    PROVE  Sees(f)'
<1>1. Alone(e) /\ pc'[f] = pc[f]
  BY DEF Effect, Alone
<1>2. CASE page' = page /\ since'[f] = since[f]
  BY <1>1, <1>2, CalmNoted, OtherSees
<1>3. CASE \E p \in Pages, new \in Rows : Store(p, new)
  <2>1. PICK p \in Pages, new \in Rows : Store(p, new)
    BY <1>3
  <2>2. pc[f] \in Deciding => Noted(f)
    BY <1>1, <2>1, StoreNoted DEF IInv
  <2>3. QED
    BY <1>1, <2>2, OtherSees
<1>4. QED
  BY <1>2, <1>3 DEF Effect

LEMMA StartCreateSees ==
    ASSUME IInv, NEW e \in Requests, NEW p \in Pages, NEW q \in Pages \cup {NoPage}, NEW s \in Slugs,
           StartCreate(e, p, q, s)
    PROVE  Sees(e)'
<1>1. /\ pc'[e] = "createUnique" /\ req'[e].parent = q /\ req'[e].slug = s /\ page' = page
      /\ place'[e].path = PathUnder(page, q, s) /\ place'[e].depth = DepthUnder(page, q)
  BY DEF StartCreate, Goto, IInv, TypeOK
<1>2. PathUnder(page', q, s) = PathUnder(page, q, s) /\ DepthUnder(page', q) = DepthUnder(page, q)
  BY <1>1 DEF PathUnder, DepthUnder
<1>3. Same(e)' /\ Searched(e)'
  BY <1>1 DEF Same, Searched, Finding
<1>4. Placed(e)'
  BY <1>1, <1>2 DEF Placed, PathUnder, DepthUnder
<1>5. QED
  BY <1>3, <1>4 DEF Sees

LEMMA StartUpdateSees ==
    ASSUME IInv, NEW e \in Requests, NEW p \in Pages, NEW d \in Edits, StartUpdate(e, p, d)
    PROVE  Sees(e)'
<1>1. /\ d.parent # p /\ page' = page /\ loaded'[e] = page[p] /\ req'[e].page = p /\ req'[e].parent = d.parent
      /\ pc'[e] = (IF d.parent \in Pages THEN "walk" ELSE "resolve")
      /\ walk'[e] = (IF d.parent \in Pages THEN {p} ELSE {})
  BY DEF StartUpdate, Find, Goto, IInv, TypeOK
<1>2. Same(e)'
  BY <1>1 DEF Same
<1>3. Searched(e)'
  <2>1. d.parent \in Pages => Closed(e, {})'
    BY <1>1 DEF Closed
  <2>2. d.parent \in Pages => \E D \in SUBSET Pages : Closed(e, D)'
    BY <2>1
  <2>3. QED
    BY <1>1, <2>2 DEF Searched
<1>4. Placed(e)'
  BY <1>1 DEF Placed, Creating
<1>5. QED
  BY <1>2, <1>3, <1>4 DEF Sees

LEMMA StartDeleteSees ==
    ASSUME IInv, NEW e \in Requests, NEW p \in Pages, StartDelete(e, p)
    PROVE  Sees(e)'
<1>1. page' = page /\ loaded'[e] = page[p] /\ req'[e] = [NoReq EXCEPT !.page = p] /\ pc'[e] = "children"
  BY DEF StartDelete, Find, Goto, IInv, TypeOK
<1>2. req'[e].page = p
  BY <1>1 DEF NoReq
<1>3. QED
  BY <1>1, <1>2 DEF Sees, Same, Searched, Placed, Creating

\* A request that stands elsewhere with what it had.
LEMMA GoesOnSees ==
    ASSUME IInv, NEW e \in Requests, Sees(e),
           UNCHANGED <<page, req, loaded, since, walk, place>>,
           \/ pc[e] = "unique" /\ pc'[e] = "write"
           \/ pc[e] = "createUnique" /\ pc'[e] = "create"
           \/ pc[e] = "children" /\ pc'[e] = "remove"
    PROVE  Sees(e)'
<1>1. NewParent(e)' = NewParent(e) /\ NewSlug(e)' = NewSlug(e) /\ Moves(e)' = Moves(e)
  BY DEF NewParent, NewSlug, Moves
<1>2. Same(e)'
  BY DEF Sees, Same, Finding, Changed
<1>3. Searched(e)'
  <2>1. \A D \in SUBSET Pages : Closed(e, D)' <=> Closed(e, D)
    BY DEF Closed, Children
  <2>2. QED
    BY <2>1 DEF Sees, Searched
<1>4. Placed(e)'
  BY <1>1 DEF Sees, Placed, Creating, Changed, PathUnder, DepthUnder
<1>5. QED
  BY <1>2, <1>3, <1>4 DEF Sees

LEMMA WalkSees ==
    ASSUME IInv, NEW e \in Requests, Sees(e), NEW q \in Pages, Walk(e, q)
    PROVE  Sees(e)'
<1>1. /\ pc[e] = "walk" /\ q \in walk[e] /\ req[e].parent \notin Children(q)
      /\ walk'[e] = (walk[e] \ {q}) \cup Children(q)
      /\ pc'[e] = (IF walk'[e] = {} THEN "resolve" ELSE "walk")
      /\ UNCHANGED <<page, req, loaded, since, place>>
  BY DEF Walk, Goto, IInv, TypeOK
<1>2. Same(e)'
  BY <1>1 DEF Sees, Same, Finding, Changed
<1>3. Searched(e)'
  <2>1. ASSUME req[e].parent \in Pages, ~since[e].shape
        PROVE  \E D \in SUBSET Pages : Closed(e, D)'
    <3>1. PICK D \in SUBSET Pages : Closed(e, D)
      BY <1>1, <2>1 DEF Sees, Searched
    <3>2. \A d \in Pages : Children(d)' = Children(d)
      BY <1>1 DEF Children
    <3>3. Closed(e, D \cup {q})'
      BY <1>1, <3>1, <3>2 DEF Closed
    <3>4. D \cup {q} \in SUBSET Pages
      OBVIOUS
    <3>5. QED
      BY <3>3, <3>4
  <2>2. QED
    BY <1>1, <2>1 DEF Searched
<1>4. Placed(e)'
  BY <1>1 DEF Placed, Creating
<1>5. QED
  BY <1>2, <1>3, <1>4 DEF Sees

LEMMA ResolveSees ==
    ASSUME IInv, NEW e \in Requests, Sees(e), Resolve(e)
    PROVE  Sees(e)'
<1>1. /\ pc[e] = "resolve" /\ place'[e] = PlaceOf(e) /\ pc'[e] = (IF Moves(e) THEN "unique" ELSE "write")
      /\ UNCHANGED <<page, req, loaded, since, walk>>
  BY DEF Resolve, Goto, IInv, TypeOK
<1>2. NewParent(e)' = NewParent(e) /\ NewSlug(e)' = NewSlug(e) /\ Moves(e)' = Moves(e)
  BY <1>1 DEF NewParent, NewSlug, Moves
<1>3. Same(e)'
  BY <1>1 DEF Sees, Same, Finding, Changed
<1>4. Searched(e)'
  <2>1. \A D \in SUBSET Pages : Closed(e, D)' <=> Closed(e, D)
    BY <1>1 DEF Closed, Children
  <2>2. QED
    BY <1>1, <2>1 DEF Sees, Searched
<1>5. Placed(e)'
  <2>1. CASE Moves(e)
    BY <1>1, <1>2, <2>1 DEF Placed, Creating, PlaceOf, PathUnder, DepthUnder
  <2>2. CASE ~Moves(e)
    <3>1. /\ place'[e].moved = FALSE /\ place'[e].depth = loaded[e].depth
          /\ place'[e].path = loaded[e].path /\ Moves(e) = FALSE
      BY <1>1, <2>2 DEF PlaceOf, Moves
    <3>2. QED
      BY <1>1, <1>2, <2>2, <3>1 DEF Placed, Creating
  <2>3. QED
    BY <2>1, <2>2
<1>6. QED
  BY <1>3, <1>4, <1>5 DEF Sees

Kept == IInv /\ \A e \in Requests : Sees(e)

LEMMA KeptInit == Init => Kept
<1>1. Init => \A e \in Requests : Sees(e)
  BY DEF Init, Sees, Same, Searched, Placed, Finding, Creating
<1>2. QED
  BY <1>1, IInvInit DEF Kept

LEMMA KindsSee ==
    ASSUME IInv, NEW e \in Requests, Sees(e), Kinds(e)
    PROVE  Effect(e) /\ Sees(e)'
<1>1. CASE Refused(e)
  <2>1. pc'[e] = "done"
    BY <1>1, EndFacts DEF Refused, IInv
  <2>2. QED
    BY <1>1, <2>1, EndSees, EffectOfQuiet
<1>2. CASE Create(e) \/ Update(e) \/ Remove(e) \/ \E w \in todo[e] : WriteChild(e, w)
  BY <1>2, EffectOfStore, EndSees
<1>3. CASE Unique(e)
  <2>1. /\ UNCHANGED <<page, req, loaded, since, walk, place>>
        /\ (pc[e] = "unique" /\ pc'[e] = "write") \/ (pc[e] = "createUnique" /\ pc'[e] = "create")
    BY <1>3 DEF Unique, Goto, IInv, TypeOK
  <2>2. QED
    BY <1>3, <2>1, GoesOnSees, EffectOfQuiet
<1>4. CASE CheckChildren(e) /\ ~Refused(e)
  <2>1. UNCHANGED <<page, req, loaded, since, walk, place>> /\ pc[e] = "children" /\ pc'[e] = "remove"
    BY <1>4 DEF CheckChildren, Goto, IInv, TypeOK
  <2>2. QED
    BY <1>4, <2>1, GoesOnSees, EffectOfQuiet
<1>5. CASE Resolve(e)
  BY <1>5, ResolveSees, EffectOfQuiet
<1>6. CASE \E p \in Pages, q \in Pages \cup {NoPage}, s \in Slugs : StartCreate(e, p, q, s)
  BY <1>6, StartCreateSees, EffectOfQuiet
<1>7. CASE \E p \in Pages, d \in Edits : StartUpdate(e, p, d)
  BY <1>7, StartUpdateSees, EffectOfQuiet
<1>8. CASE \E p \in Pages : StartDelete(e, p)
  BY <1>8, StartDeleteSees, EffectOfQuiet
<1>9. CASE \E p \in Pages : Walk(e, p)
  BY <1>9, WalkSees, EffectOfQuiet
<1>10. CASE \E w \in todo[e] : ListChildren(e, w)
  <2>1. pc'[e] = "spread"
    BY <1>10 DEF ListChildren
  <2>2. QED
    BY <1>10, <2>1, EndSees, EffectOfQuiet
<1>11. QED
  BY <1>1, <1>2, <1>3, <1>4, <1>5, <1>6, <1>7, <1>8, <1>9, <1>10 DEF Kinds

LEMMA KeptStep == Kept /\ [Next]_vars => Kept'
<1>1. ASSUME Kept, Next PROVE Kept'
  <2>1. PICK e \in Requests : Kinds(e)
    BY <1>1, StepKinds
  <2>2. Effect(e) /\ Sees(e)'
    BY <1>1, <2>1, KindsSee DEF Kept
  <2>3. \A f \in Requests \ {e} : Sees(f)'
    BY <1>1, <2>2, OthersSee DEF Kept
  <2>4. QED
    BY <1>1, <2>2, <2>3, IInvStep DEF Kept
<1>2. ASSUME Kept, UNCHANGED vars PROVE Kept'
  <2>1. IInv'
    BY <1>2, IInvStep DEF Kept
  <2>2. ASSUME NEW e \in Requests PROVE Sees(e)'
    <3>1. NewParent(e)' = NewParent(e) /\ NewSlug(e)' = NewSlug(e) /\ Moves(e)' = Moves(e)
      BY <1>2 DEF NewParent, NewSlug, Moves, vars
    <3>2. \A D \in SUBSET Pages : Closed(e, D)' <=> Closed(e, D)
      BY <1>2 DEF Closed, Children, vars
    <3>3. QED
      BY <1>2, <3>1, <3>2 DEF Kept, Sees, Same, Searched, Placed, Changed, PathUnder, DepthUnder, vars
  <2>3. QED
    BY <2>1, <2>2 DEF Kept
<1>3. QED
  BY <1>1, <1>2

----------------------------------------------------------------------------
(* The forest *)

\* Tree!Forest of the table t.
Rooted(t) ==
    \A C \in SUBSET Pages :
        C # {} /\ (\A c \in C : t[c].active) => \E c \in C : t[c].parent \notin C

LEMMA RootedForest == (Tree!Forest <=> Rooted(page)) /\ (Tree!Forest' <=> Rooted(page'))
<1>1. Tree!Forest <=> Rooted(page)
  BY DEF Tree!Forest, Rooted
<1>2. Tree!Forest' <=> Rooted(page')
  BY DEF Tree!Forest, Rooted
<1>3. QED
  BY <1>1, <1>2

\* A row may move below any page outside a set that holds it and is closed under
\* children.
LEMMA ForestStore ==
    ASSUME TypeOK, Rooted(page), NEW p \in Pages, NEW new \in Rows, page' = [page EXCEPT ![p] = new],
           new.active =>
               \/ page[p].active /\ new.parent = page[p].parent
               \/ new.parent \notin Pages
               \/ \E D \in SUBSET Pages :
                     p \in D /\ new.parent \notin D /\ \A d \in D : Children(d) \subseteq D
    PROVE  Rooted(page')
<1> SUFFICES ASSUME NEW C \in SUBSET Pages, C # {}, \A c \in C : page'[c].active,
                    \A c \in C : page'[c].parent \in C
             PROVE  FALSE
  BY DEF Rooted
<1>1. page'[p] = new /\ \A q \in Pages \ {p} : page'[q] = page[q]
  BY DEF TypeOK
<1>2. ~((\A c \in C : page[c].active) /\ (\A c \in C : page[c].parent \in C))
  BY DEF Rooted
<1>3. p \in C /\ new.active /\ new.parent \in C
  BY <1>1, <1>2
<1>4. ~(page[p].active /\ new.parent = page[p].parent)
  BY <1>1, <1>2, <1>3
<1>5. PICK D \in SUBSET Pages : p \in D /\ new.parent \notin D /\ \A d \in D : Children(d) \subseteq D
  BY <1>3, <1>4
<1>6. C \ D # {} /\ C \ D \in SUBSET Pages
  BY <1>3, <1>5
<1>7. \A c \in C \ D : page[c].active /\ page[c].parent \in C
  BY <1>1, <1>5
<1>8. \A c \in C \ D : page[c].parent \notin D
  BY <1>5, <1>7 DEF Children
<1>9. QED
  BY <1>6, <1>7, <1>8 DEF Rooted

\* A write that nothing overtook stores what was decided on the rows as they are.
LEMMA UpdateSeen ==
    ASSUME Kept, NEW e \in Requests, Update(e), ~raced'
    PROVE  /\ ~raced /\ pc[e] = "write" /\ page[req[e].page] = loaded[e] /\ loaded[e].active
           /\ UpdateRow(e).parent = NewParent(e) /\ UpdateRow(e).slug = NewSlug(e)
           /\ place[e].moved => ~Changed(e, NewParent(e))
           /\ \/ NewParent(e) = loaded[e].parent
              \/ NewParent(e) \notin Pages
              \/ \E D \in SUBSET Pages :
                    req[e].page \in D /\ NewParent(e) \notin D /\ \A d \in D : Children(d) \subseteq D
<1>1. pc[e] = "write" /\ ~raced /\ ~Overtaken(e) /\ pc[e] \in Finding
  BY DEF Update, Finding
<1>2. IInv /\ Sees(e)
  BY DEF Kept
<1>3. page[req[e].page] = loaded[e] /\ loaded[e].active
  BY <1>1, <1>2, LoadedFacts DEF Overtaken, Sees, Same
<1>4. UpdateRow(e).parent = NewParent(e) /\ UpdateRow(e).slug = NewSlug(e)
  BY <1>1, <1>2, <1>3, UpdateFacts DEF NewParent, NewSlug
<1>5. ASSUME NewParent(e) # loaded[e].parent, NewParent(e) \in Pages
      PROVE  \E D \in SUBSET Pages :
                req[e].page \in D /\ NewParent(e) \notin D /\ \A d \in D : Children(d) \subseteq D
  <2>1. ~since[e].shape /\ req[e].parent \in Pages /\ NewParent(e) = req[e].parent
    BY <1>1, <1>5 DEF Overtaken, NewParent
  <2>2. PICK D \in SUBSET Pages : Closed(e, D)
    BY <1>1, <1>2, <2>1 DEF Sees, Searched
  <2>3. walk[e] = {}
    BY <1>1, <1>2 DEF Sees, Searched
  <2>4. QED
    BY <2>1, <2>2, <2>3 DEF Closed
<1>6. QED
  BY <1>1, <1>3, <1>4, <1>5 DEF Overtaken

LEMMA ForestStep ==
    ASSUME Kept, Rooted(page), [Next]_vars, ~raced'
    PROVE  Rooted(page')
<1>1. CASE UNCHANGED vars
  BY <1>1 DEF vars
<1>2. ASSUME NEW e \in Requests, Kinds(e) PROVE Rooted(page')
  <2>1. IInv /\ TypeOK /\ Table
    BY DEF Kept, IInv
  <2>2. CASE page' = page
    BY <2>2
  <2>3. CASE Create(e)
    <3>1. pc[e] = "create" /\ Store(req[e].page, CreateRow(e))
      BY <2>3 DEF Create
    <3>2. /\ CreateRow(e) \in Rows /\ req[e].page \in Pages /\ ~Exists(req[e].page)
          /\ CreateRow(e).parent \in Pages => Exists(CreateRow(e).parent)
      BY <2>1, <3>1, CreateFacts
    <3>3. Children(req[e].page) = {}
      BY <2>1, <3>2 DEF Table, Children, Exists
    <3>4. \/ CreateRow(e).parent \notin Pages
          \/ \E D \in SUBSET Pages :
                req[e].page \in D /\ CreateRow(e).parent \notin D /\ \A d \in D : Children(d) \subseteq D
      <4>1. CreateRow(e).parent \in Pages => CreateRow(e).parent \notin {req[e].page}
        BY <3>2
      <4>2. {req[e].page} \in SUBSET Pages /\ \A d \in {req[e].page} : Children(d) \subseteq {req[e].page}
        BY <3>2, <3>3
      <4>3. QED
        BY <4>1, <4>2
    <3>5. QED
      BY <2>1, <3>1, <3>2, <3>4, ForestStore DEF Store
  <2>4. CASE Update(e)
    <3>1. pc[e] = "write" /\ Store(req[e].page, UpdateRow(e))
      BY <2>4 DEF Update
    <3>2. UpdateRow(e) \in Rows /\ req[e].page \in Pages
      BY <2>1, <3>1, UpdateFacts
    <3>3. UpdateRow(e).active =>
               \/ page[req[e].page].active /\ UpdateRow(e).parent = page[req[e].page].parent
               \/ UpdateRow(e).parent \notin Pages
               \/ \E D \in SUBSET Pages :
                     req[e].page \in D /\ UpdateRow(e).parent \notin D /\ \A d \in D : Children(d) \subseteq D
      BY <2>4, UpdateSeen
    <3>4. QED
      BY <2>1, <3>1, <3>2, <3>3, ForestStore DEF Store
  <2>5. CASE Remove(e)
    <3>1. pc[e] = "remove" /\ Store(req[e].page, RemovedRow(e))
      BY <2>5 DEF Remove, RemovedRow
    <3>2. RemovedRow(e) \in Rows /\ req[e].page \in Pages /\ ~RemovedRow(e).active
      BY <2>1, <3>1, RemoveFacts
    <3>3. QED
      BY <2>1, <3>1, <3>2, ForestStore DEF Store
  <2>6. CASE \E w \in todo[e] : WriteChild(e, w)
    <3>1. PICK w \in todo[e] : w.kind = "write" /\ Store(w.child, TaskRow(w))
      BY <2>6 DEF WriteChild
    <3>2. /\ TaskRow(w) \in Rows /\ w.child \in Pages
          /\ TaskRow(w).active = page[w.child].active /\ TaskRow(w).parent = page[w.child].parent
      BY <2>1, <3>1, TaskRowFacts
    <3>3. QED
      BY <2>1, <3>1, <3>2, ForestStore DEF Store
  <2>7. Create(e) \/ Update(e) \/ Remove(e) \/ (\E w \in todo[e] : WriteChild(e, w)) \/ page' = page
    BY <1>2 DEF Kinds, Refused, Unique, Resolve, CheckChildren, StartCreate, StartUpdate, StartDelete,
       Walk, ListChildren
  <2>8. QED
    BY <2>2, <2>3, <2>4, <2>5, <2>6, <2>7
<1>3. QED
  BY <1>1, <1>2, StepKinds

LEMMA Remembered == TypeOK /\ [Next]_vars => (raced => raced') /\ (torn => torn')
<1> SUFFICES ASSUME raced \in BOOLEAN, torn \in BOOLEAN, [Next]_vars
             PROVE  (raced => raced') /\ (torn => torn')
  BY DEF TypeOK
<1>1. CASE UNCHANGED vars
  BY <1>1 DEF vars
<1>2. ASSUME NEW e \in Requests, Kinds(e) PROVE (raced => raced') /\ (torn => torn')
  <2>1. CASE Refused(e) \/ Create(e) \/ Update(e) \/ Remove(e)
    BY <2>1 DEF Refused, End, Create, Update, Remove
  <2>2. CASE \E w \in todo[e] : ListChildren(e, w) \/ WriteChild(e, w)
    BY <2>2 DEF ListChildren, WriteChild
  <2>3. CASE Unique(e) \/ Resolve(e) \/ (CheckChildren(e) /\ ~Refused(e))
    BY <2>3 DEF Unique, Resolve, CheckChildren
  <2>4. CASE \E p \in Pages, q \in Pages \cup {NoPage}, s \in Slugs : StartCreate(e, p, q, s)
    BY <2>4 DEF StartCreate
  <2>5. CASE \E p \in Pages, d \in Edits : StartUpdate(e, p, d)
    BY <2>5 DEF StartUpdate
  <2>6. CASE \E p \in Pages : StartDelete(e, p) \/ Walk(e, p)
    BY <2>6 DEF StartDelete, Walk
  <2>7. QED
    BY <1>2, <2>1, <2>2, <2>3, <2>4, <2>5, <2>6 DEF Kinds
<1>3. QED
  BY <1>1, <1>2, StepKinds

LEMMA ForestInvariant == Spec => [](Kept /\ (raced \/ Rooted(page)))
<1>1. Init => Kept /\ Rooted(page)
  BY KeptInit, PagesConstants DEF Init, Built, Rooted
<1>2. Kept /\ (raced \/ Rooted(page)) /\ [Next]_vars => Kept' /\ (raced' \/ Rooted(page'))
  BY KeptStep, ForestStep, Remembered DEF Kept, IInv
<1>3. Init => Kept /\ (raced \/ Rooted(page))
  BY <1>1
<1>4. Kept /\ (raced \/ Rooted(page)) /\ [Next]_vars => (Kept /\ (raced \/ Rooted(page)))'
  BY <1>2
<1>5. QED
  BY <1>3, <1>4, PTL DEF Spec

\* The forest: as long as no write is decided on rows that have changed, no
\* interleaving of creations, moves and deletions, stopped anywhere, makes a cycle
\* all of whose pages are live, the pages findChildren returns, so isDescendant
\* and updateChildrenPaths cannot go round.  A live page may still become its own
\* ancestor by way of a deleted one.
THEOREM ForestKept == Spec => []ForestUnlessRaced
<1>1. Kept /\ (raced \/ Rooted(page)) => ForestUnlessRaced
  BY RootedForest DEF ForestUnlessRaced
<1>2. QED
  BY <1>1, ForestInvariant, PTL

----------------------------------------------------------------------------
(* Each request is one atomic change of the tree, or none. *)

ParentOf == [p \in Pages |-> page[p].parent]
SlugOf   == [p \in Pages |-> page[p].slug]
Live     == {p \in Pages : page[p].active}

LEMMA TreePut ==
    ASSUME TypeOK, NEW p \in Pages, NEW new \in Rows, page' = [page EXCEPT ![p] = new],
           \A q \in Pages \ {p} : Tenant[q] = Tenant[p] => page[q].slug # new.slug
    PROVE  /\ Tree!FreeSlug(new.slug, p)
           /\ ParentOf' = [ParentOf EXCEPT ![p] = new.parent] /\ SlugOf' = [SlugOf EXCEPT ![p] = new.slug]
           /\ Live' = IF new.active THEN Live \cup {p} ELSE Live \ {p}
<1>1. page'[p] = new /\ \A q \in Pages \ {p} : page'[q] = page[q]
  BY DEF TypeOK
<1>2. ParentOf' = [ParentOf EXCEPT ![p] = new.parent] /\ SlugOf' = [SlugOf EXCEPT ![p] = new.slug]
  <2>1. \A q \in Pages : /\ page'[q].parent = (IF q = p THEN new.parent ELSE page[q].parent)
                         /\ page'[q].slug = (IF q = p THEN new.slug ELSE page[q].slug)
    BY <1>1
  <2>2. [ParentOf EXCEPT ![p] = new.parent] = [q \in Pages |-> IF q = p THEN new.parent ELSE page[q].parent]
    BY DEF ParentOf
  <2>3. [SlugOf EXCEPT ![p] = new.slug] = [q \in Pages |-> IF q = p THEN new.slug ELSE page[q].slug]
    BY DEF SlugOf
  <2>4. QED
    BY <2>1, <2>2, <2>3 DEF ParentOf, SlugOf
<1>3. Live' = IF new.active THEN Live \cup {p} ELSE Live \ {p}
  BY <1>1 DEF Live
<1>4. Tree!FreeSlug(new.slug, p)
  BY DEF Tree!FreeSlug
<1>5. QED
  BY <1>2, <1>3, <1>4

LEMMA TreeAdd ==
    ASSUME TypeOK, NEW p \in Pages, NEW new \in Rows, page' = [page EXCEPT ![p] = new],
           \A q \in Pages \ {p} : Tenant[q] = Tenant[p] => page[q].slug # new.slug,
           new.active, page[p].slug = <<>>, new.parent \in Pages => page[new.parent].slug # <<>>
    PROVE  Tree!Next
<1>1. new.parent \in Pages \cup {NoPage} /\ new.slug \in Slugs
  BY DEF Rows
<1>2. Tree!Put(p, new.parent, new.slug, Live \cup {p})
  BY TreePut DEF Tree!Put, ParentOf, SlugOf, Live
<1>3. Tree!Add(p, new.parent, new.slug)
  BY <1>1, <1>2 DEF Tree!Add, Live
<1>4. QED
  BY <1>1, <1>3 DEF Tree!Next

LEMMA TreeChange ==
    ASSUME TypeOK, NEW p \in Pages, NEW new \in Rows, page' = [page EXCEPT ![p] = new],
           \A q \in Pages \ {p} : Tenant[q] = Tenant[p] => page[q].slug # new.slug,
           page[p].active,
           \/ new.parent = page[p].parent
           \/ new.parent \notin Pages
           \/ \E D \in SUBSET Pages :
                 p \in D /\ new.parent \notin D /\ \A d \in D : Children(d) \subseteq D
    PROVE  Tree!Next
<1> DEFINE l == IF new.active THEN Live ELSE Live \ {p}
<1>1. new.parent \in Pages \cup {NoPage} /\ new.slug \in Slugs
  BY DEF Rows
<1>2. p \in Live /\ Live \cup {p} = Live
  BY DEF Live
<1>3. l = (IF new.active THEN Live \cup {p} ELSE Live \ {p}) /\ l \in {Live, Live \ {p}}
  BY <1>2
<1> HIDE DEF l
<1>4. Tree!Put(p, new.parent, new.slug, l)
  BY <1>2, <1>3, TreePut DEF Tree!Put, ParentOf, SlugOf, Live
<1>5. new.parent = ParentOf[p] \/ new.parent \notin Tree!Below(p)
  <2>1. \A d \in Pages : Tree!Children(d) = Children(d)
    BY DEF Tree!Children, Children
  <2>2. CASE \E D \in SUBSET Pages :
               p \in D /\ new.parent \notin D /\ \A d \in D : Children(d) \subseteq D
    BY <2>1, <2>2 DEF Tree!Below
  <2>3. CASE new.parent \notin Pages
    BY <2>3 DEF Tree!Below
  <2>4. QED
    BY <2>2, <2>3 DEF ParentOf
<1>6. Tree!Change(p, new.parent, new.slug, l)
  BY <1>2, <1>3, <1>4, <1>5 DEF Tree!Change, Live, ParentOf
<1>7. QED
  BY <1>1, <1>3, <1>6 DEF Tree!Next, Live

LEMMA TreeStep ==
    ASSUME Kept, [Next]_vars, ~raced', ~UNCHANGED Tree!vars
    PROVE  Tree!Next
<1>1. IInv /\ TypeOK /\ Table
  BY DEF Kept, IInv
<1>2. page' # page
  BY DEF Tree!vars
<1>3. PICK e \in Requests : Kinds(e)
  BY <1>2, StepKinds DEF vars
<1>4. CASE Create(e)
  <2> DEFINE p == req[e].page
             new == CreateRow(e)
  <2>1. pc[e] = "create" /\ Store(p, new) /\ Fits(p, new)
    BY <1>4 DEF Create
  <2>2. /\ new \in Rows /\ p \in Pages /\ ~Exists(p) /\ new.active
        /\ new.parent \in Pages \cup {NoPage} /\ new.slug \in Slugs
        /\ new.parent \in Pages => Exists(new.parent)
    BY <1>1, <2>1, CreateFacts
  <2>3. page' = [page EXCEPT ![p] = new] /\ \A q \in Pages \ {p} : Tenant[q] = Tenant[p] => page[q].slug # new.slug
    BY <2>1 DEF Store, Fits
  <2>4. page[p].slug = <<>> /\ (new.parent \in Pages => page[new.parent].slug # <<>>)
    <3>1. new.parent \in Pages => page[new.parent] \in Rows
      BY <1>1, <2>2, RowFacts DEF TypeOK, Exists
    <3>2. QED
      BY <2>2, <3>1, AbsentFacts DEF Exists, Rows
  <2> HIDE DEF p, new
  <2>5. QED
    BY <1>1, <2>2, <2>3, <2>4, TreeAdd
<1>5. CASE Update(e)
  <2> DEFINE p == req[e].page
             new == UpdateRow(e)
  <2>1. pc[e] = "write" /\ Store(p, new) /\ Fits(p, new)
    BY <1>5 DEF Update
  <2>2. new \in Rows /\ p \in Pages
    BY <1>1, <2>1, UpdateFacts
  <2>3. page' = [page EXCEPT ![p] = new] /\ \A q \in Pages \ {p} : Tenant[q] = Tenant[p] => page[q].slug # new.slug
    BY <2>1 DEF Store, Fits
  <2>4. /\ page[p].active
        /\ \/ new.parent = page[p].parent
           \/ new.parent \notin Pages
           \/ \E D \in SUBSET Pages :
                 p \in D /\ new.parent \notin D /\ \A d \in D : Children(d) \subseteq D
    BY <1>5, UpdateSeen
  <2> HIDE DEF p, new
  <2>5. QED
    BY <1>1, <2>2, <2>3, <2>4, TreeChange
<1>6. CASE Remove(e)
  <2> DEFINE p == req[e].page
             new == RemovedRow(e)
  <2>1. pc[e] = "remove" /\ Store(p, new) /\ ~Changed(e, p) /\ pc[e] \in Finding
    BY <1>6 DEF Remove, RemovedRow, Finding
  <2>2. /\ new \in Rows /\ p \in Pages /\ new.parent = page[p].parent /\ ~new.active
        /\ \A q \in Pages \ {p} : Tenant[q] = Tenant[p] => page[q].slug # new.slug
    BY <1>1, <2>1, RemoveFacts
  <2>3. page[p].active
    BY <1>1, <2>1, LoadedFacts DEF Kept, Sees, Same
  <2>4. page' = [page EXCEPT ![p] = new]
    BY <2>1 DEF Store
  <2> HIDE DEF p, new
  <2>5. QED
    BY <1>1, <2>2, <2>3, <2>4, TreeChange
<1>7. CASE \E w \in todo[e] : WriteChild(e, w)
  <2>1. PICK w \in todo[e] : w.kind = "write" /\ Store(w.child, TaskRow(w))
    BY <1>7 DEF WriteChild
  <2>2. /\ w.child \in Pages /\ page' = [page EXCEPT ![w.child] = TaskRow(w)]
        /\ TaskRow(w).active = page[w.child].active /\ TaskRow(w).parent = page[w.child].parent
        /\ TaskRow(w).slug = page[w.child].slug
    BY <1>1, <2>1, TaskRowFacts DEF Store
  <2>3. \A q \in Pages : /\ page'[q].parent = page[q].parent /\ page'[q].slug = page[q].slug
                         /\ page'[q].active = page[q].active
    BY <1>1, <2>2 DEF TypeOK
  <2>4. QED
    BY <2>3 DEF Tree!vars
<1>8. QED
  BY <1>2, <1>3, <1>4, <1>5, <1>6, <1>7 DEF Kinds, Refused, Unique, Resolve, CheckChildren, StartCreate,
     StartUpdate, StartDelete, Walk, ListChildren

\* Refinement: until a write is overtaken, what the page station does in many
\* statements is what PageTree does in one, each time.
THEOREM Refinement == Spec => ImplementsTree
<1>1. Init => Tree!Init
  <2>1. Init => Rooted(page) /\ page \in [Pages -> Rows \cup {Absent}]
    BY PagesConstants DEF Init, Built, Rooted
  <2>2. ASSUME page \in [Pages -> Rows \cup {Absent}], NEW p \in Pages, page[p].active
        PROVE  page[p].slug # <<>>
    BY <2>2, RowFacts, AbsentFacts DEF Rows
  <2>3. QED
    BY <2>1, <2>2, RootedForest DEF Tree!Init
<1>2. Kept /\ [Next]_vars => [~raced' => Tree!Next]_(Tree!vars)
  BY TreeStep
<1>3. Spec => []Kept
  BY ForestInvariant, PTL
<1>4. QED
  BY <1>1, <1>2, <1>3, PTL DEF Spec, ImplementsTree

----------------------------------------------------------------------------
(* The stored paths follow the tree, or are about to. *)

Follows(c) == page[c].active => InPlace(page, c) \/ Pending(c)

\* The row of c and the place of its parent are what they were.
LEMMA InPlaceKept ==
    ASSUME NEW c \in Pages, InPlace(page, c), page[c].parent \in Pages \cup {NoPage},
           page'[c].parent = page[c].parent, page'[c].slug = page[c].slug, page'[c].path = page[c].path,
           page'[c].depth = page[c].depth,
           page[c].parent \in Pages => /\ page'[page[c].parent].path = page[page[c].parent].path
                                       /\ page'[page[c].parent].depth = page[page[c].parent].depth
    PROVE  InPlace(page', c)
  BY DEF InPlace, PathUnder, DepthUnder

\* What is pending stays so while its task does.
LEMMA PendingKept ==
    ASSUME NEW c \in Pages, Pending(c), page'[c].parent = page[c].parent,
           \A f \in Requests : \A w \in todo[f] :
               \/ w \in todo'[f]
               \/ ~(w.kind = "write" /\ w.child = c) /\ ~(w.kind = "list" /\ w.page = page[c].parent)
    PROVE  Pending(c)'
<1>1. PICK f \in Requests : \E w \in todo[f] :
          (w.kind = "write" /\ w.child = c) \/ (w.kind = "list" /\ w.page = page[c].parent)
  BY DEF Pending
<1>2. PICK w \in todo[f] :
          (w.kind = "write" /\ w.child = c) \/ (w.kind = "list" /\ w.page = page[c].parent)
  BY <1>1
<1>3. w \in todo'[f]
  BY <1>2
<1>4. QED
  BY <1>2, <1>3 DEF Pending

\* A page that does not move keeps its place when the page above it keeps its own.
LEMMA FollowsKept ==
    ASSUME IInv, NEW c \in Pages, Follows(c), page'[c].active => page[c].active,
           page'[c].parent = page[c].parent, page'[c].slug = page[c].slug, page'[c].path = page[c].path,
           page'[c].depth = page[c].depth,
           page[c].parent \in Pages => /\ page'[page[c].parent].path = page[page[c].parent].path
                                       /\ page'[page[c].parent].depth = page[page[c].parent].depth,
           \A f \in Requests : \A w \in todo[f] :
               \/ w \in todo'[f]
               \/ ~(w.kind = "write" /\ w.child = c) /\ ~(w.kind = "list" /\ w.page = page[c].parent)
    PROVE  Follows(c)'
<1> SUFFICES ASSUME page'[c].active PROVE InPlace(page', c) \/ Pending(c)'
  BY DEF Follows
<1>1. page[c].parent \in Pages \cup {NoPage}
  BY RowFacts DEF IInv, TypeOK
<1>2. CASE InPlace(page, c)
  BY <1>1, <1>2, InPlaceKept
<1>3. CASE Pending(c)
  BY <1>3, PendingKept
<1>4. QED
  BY <1>2, <1>3 DEF Follows

\* Only the processing of a task takes it away, or the end of the request, which
\* tears what is left.
LEMMA TodoKept ==
    ASSUME IInv, NEW e \in Requests, Kinds(e), ~torn',
           ~ \E w \in todo[e] : ListChildren(e, w) \/ WriteChild(e, w)
    PROVE  \A f \in Requests : todo[f] \subseteq todo'[f]
<1>1. TypeOK /\ Knows(e)
  BY DEF IInv
<1>2. CASE End(e)
  BY <1>1, <1>2 DEF End, TypeOK
<1>3. CASE Update(e)
  <2>1. todo[e] = {}
    BY <1>1, <1>3 DEF Update, Knows
  <2>2. CASE End(e)
    BY <1>2, <2>2
  <2>3. CASE ~End(e)
    BY <1>1, <1>3, <2>1, <2>3 DEF Update, TypeOK
  <2>4. QED
    BY <2>2, <2>3
<1>4. CASE UNCHANGED todo
  BY <1>4
<1>5. Refused(e) \/ Create(e) \/ Remove(e) => End(e)
  BY DEF Refused, Create, Remove
<1>6. Unique(e) \/ Resolve(e) \/ (CheckChildren(e) /\ ~Refused(e)) => UNCHANGED todo
  BY DEF Unique, Resolve, CheckChildren
<1>7. \A p \in Pages : StartDelete(e, p) \/ Walk(e, p) => UNCHANGED todo
  BY DEF StartDelete, Walk
<1>8. \A p \in Pages, d \in Edits : StartUpdate(e, p, d) => UNCHANGED todo
  BY DEF StartUpdate
<1>9. \A p \in Pages, q \in Pages \cup {NoPage}, s \in Slugs : StartCreate(e, p, q, s) => UNCHANGED todo
  BY DEF StartCreate
<1>10. QED
  BY <1>2, <1>3, <1>4, <1>5, <1>6, <1>7, <1>8, <1>9 DEF Kinds

LEMMA NotOwnParent ==
    ASSUME Rooted(page), NEW p \in Pages, page[p].active
    PROVE  page[p].parent # p
<1>1. {p} \in SUBSET Pages /\ {p} # {} /\ \A c \in {p} : page[c].active
  OBVIOUS
<1>2. \E c \in {p} : page[c].parent \notin {p}
  BY <1>1 DEF Rooted
<1>3. QED
  BY <1>2

LEMMA QuietFollows ==
    ASSUME IInv, page' = page, \A f \in Requests : todo[f] \subseteq todo'[f], NEW c \in Pages, Follows(c)
    PROVE  Follows(c)'
  BY FollowsKept

LEMMA ListChildrenFollows ==
    ASSUME IInv, NEW e \in Requests, NEW w \in todo[e], ListChildren(e, w), NEW c \in Pages, Follows(c)
    PROVE  Follows(c)'
<1>1. /\ w.kind = "list" /\ page' = page
      /\ todo'[e] = (todo[e] \ {w}) \cup {WriteTask(w, d) : d \in Children(w.page)}
      /\ \A f \in Requests \ {e} : todo'[f] = todo[f]
  BY DEF ListChildren, WriteTask, IInv, TypeOK
<1>2. CASE page[c].active /\ page[c].parent = w.page
  <2>1. WriteTask(w, c) \in todo'[e]
    BY <1>1, <1>2 DEF Children
  <2>2. WriteTask(w, c).kind = "write" /\ WriteTask(w, c).child = c
    BY DEF WriteTask
  <2>3. Pending(c)'
    BY <2>1, <2>2 DEF Pending
  <2>4. QED
    BY <2>3 DEF Follows
<1>3. CASE page[c].active /\ page[c].parent # w.page
  BY <1>1, <1>3, FollowsKept
<1>4. CASE ~page[c].active
  BY <1>1, <1>4 DEF Follows
<1>5. QED
  BY <1>2, <1>3, <1>4

\* A child written where its parent is: it is in place, and its children are next.
LEMMA WriteChildFollows ==
    ASSUME Kept, Rooted(page), NEW e \in Requests, NEW w \in todo[e], WriteChild(e, w), ~raced',
           NEW c \in Pages, Follows(c)
    PROVE  Follows(c)'
<1> DEFINE v == ListTask(w.child, TaskRow(w).path, TaskRow(w).depth)
<1>1. IInv
  BY DEF Kept
<1>2. /\ w.kind = "write" /\ Store(w.child, TaskRow(w)) /\ ~Outdated(w)
      /\ todo'[e] = (todo[e] \ {w}) \cup {v} /\ \A f \in Requests \ {e} : todo'[f] = todo[f]
  BY <1>1 DEF WriteChild, ListTask, IInv, TypeOK
<1>3. /\ w \in Tasks /\ w.child \in Pages /\ TaskRow(w) \in Rows
      /\ TaskRow(w).parent = page[w.child].parent /\ TaskRow(w).slug = page[w.child].slug
      /\ TaskRow(w).active = page[w.child].active
      /\ TaskRow(w).path = w.path \o w.slug /\ TaskRow(w).depth = w.depth + 1
  BY <1>1, <1>2, TaskRowFacts
<1>4. page'[w.child] = TaskRow(w) /\ \A q \in Pages \ {w.child} : page'[q] = page[q]
  BY <1>1, <1>2, <1>3, StoreFacts DEF IInv
<1>5. /\ page[w.child].parent = w.page /\ page[w.child].slug = w.slug
      /\ page[w.page].path = w.path /\ page[w.page].depth = w.depth
      /\ w.page \in Pages
  BY <1>2, <1>3, TaskFacts DEF Outdated
<1>6. CASE c = w.child
  <2> SUFFICES ASSUME page'[c].active PROVE InPlace(page', c)
    BY DEF Follows
  <2>1. w.page # c
    BY <1>3, <1>4, <1>5, <1>6, NotOwnParent
  <2>2. page'[w.page] = page[w.page]
    BY <1>4, <1>5, <1>6, <2>1
  <2>3. w.page # NoPage
    BY <1>5, AbsentFacts
  <2>4. QED
    BY <1>3, <1>4, <1>5, <1>6, <2>2, <2>3 DEF InPlace, PathUnder, DepthUnder
<1>7. CASE c # w.child /\ page[c].parent = w.child
  <2>1. v \in todo'[e] /\ v.kind = "list" /\ v.page = w.child
    BY <1>2 DEF ListTask
  <2> HIDE DEF v
  <2>2. page'[c].parent = w.child
    BY <1>4, <1>7
  <2>3. Pending(c)'
    BY <2>1, <2>2 DEF Pending
  <2>4. QED
    BY <2>3 DEF Follows
<1>8. CASE c # w.child /\ page[c].parent # w.child
  <2> HIDE DEF v
  <2>1. page'[c] = page[c] /\ (page[c].parent \in Pages => page'[page[c].parent] = page[page[c].parent])
    BY <1>4, <1>8
  <2>2. \A f \in Requests : \A u \in todo[f] :
           \/ u \in todo'[f]
           \/ ~(u.kind = "write" /\ u.child = c) /\ ~(u.kind = "list" /\ u.page = page[c].parent)
    BY <1>2, <1>8
  <2>3. QED
    BY <1>1, <2>1, <2>2, FollowsKept
<1>9. QED
  BY <1>6, <1>7, <1>8

LEMMA CreateFollows ==
    ASSUME Kept, NEW e \in Requests, Create(e), ~raced', \A f \in Requests : todo[f] \subseteq todo'[f],
           NEW c \in Pages, Follows(c)
    PROVE  Follows(c)'
<1> DEFINE p == req[e].page
           new == CreateRow(e)
<1>1. IInv /\ Table /\ Sees(e)
  BY DEF Kept, IInv
<1>2. pc[e] = "create" /\ Store(p, new) /\ ~Changed(e, req[e].parent)
  BY DEF Create
<1>3. /\ new \in Rows /\ p \in Pages /\ ~Exists(p) /\ new.parent = req[e].parent /\ new.slug = req[e].slug
      /\ new.path = place[e].path /\ new.depth = place[e].depth
      /\ new.parent \in Pages \cup {NoPage} /\ (new.parent \in Pages => Exists(new.parent))
  BY <1>1, <1>2, CreateFacts
<1>4. new.path = PathUnder(page, new.parent, new.slug) /\ new.depth = DepthUnder(page, new.parent)
  BY <1>1, <1>2, <1>3 DEF Sees, Placed, Creating
<1> HIDE DEF p, new
<1>5. page'[p] = new /\ \A q \in Pages \ {p} : page'[q] = page[q]
  BY <1>1, <1>2, <1>3, StoreFacts DEF IInv
<1>6. CASE c = p
  <2>1. new.parent \in Pages => page'[new.parent] = page[new.parent]
    BY <1>3, <1>5
  <2>2. InPlace(page', c)
    BY <1>3, <1>4, <1>5, <1>6, <2>1 DEF InPlace, PathUnder, DepthUnder
  <2>3. QED
    BY <2>2 DEF Follows
<1>7. CASE c # p
  <2>1. page[c].parent \in Pages => page'[page[c].parent] = page[page[c].parent]
    BY <1>1, <1>3, <1>5 DEF Table
  <2>2. QED
    BY <1>1, <1>5, <1>7, <2>1, FollowsKept
<1>8. QED
  BY <1>6, <1>7

LEMMA RemoveFollows ==
    ASSUME IInv, NEW e \in Requests, Remove(e), \A f \in Requests : todo[f] \subseteq todo'[f],
           NEW c \in Pages, Follows(c)
    PROVE  Follows(c)'
<1> DEFINE p == req[e].page
           new == RemovedRow(e)
<1>1. pc[e] = "remove" /\ Store(p, new)
  BY DEF Remove, RemovedRow
<1>2. /\ new \in Rows /\ p \in Pages /\ new.parent = page[p].parent /\ new.slug = page[p].slug
      /\ new.path = page[p].path /\ new.depth = page[p].depth /\ ~new.active
  BY <1>1, RemoveFacts
<1> HIDE DEF p, new
<1>3. page'[p] = new /\ \A q \in Pages \ {p} : page'[q] = page[q]
  BY <1>1, <1>2, StoreFacts DEF IInv
<1>4. \A q \in Pages : /\ page'[q].parent = page[q].parent /\ page'[q].slug = page[q].slug
                       /\ page'[q].path = page[q].path /\ page'[q].depth = page[q].depth
                       /\ page'[q].active => page[q].active
  BY <1>2, <1>3
<1>5. page[c].parent \in Pages => /\ page'[page[c].parent].path = page[page[c].parent].path
                                  /\ page'[page[c].parent].depth = page[page[c].parent].depth
  BY <1>4
<1>6. /\ page'[c].parent = page[c].parent /\ page'[c].slug = page[c].slug /\ page'[c].path = page[c].path
      /\ page'[c].depth = page[c].depth /\ (page'[c].active => page[c].active)
  BY <1>4
<1>7. QED
  BY <1>5, <1>6, FollowsKept

\* A page moved is in place, or as pending as it was when it was only renamed, and
\* its children are next; a page not moved keeps path and depth.
LEMMA UpdateFollows ==
    ASSUME Kept, Rooted(page), NEW e \in Requests, Update(e), ~raced',
           \A f \in Requests : todo[f] \subseteq todo'[f], NEW c \in Pages, Follows(c)
    PROVE  Follows(c)'
<1> DEFINE p == req[e].page
           new == UpdateRow(e)
           v == ListTask(p, place[e].path, place[e].depth)
<1>1. IInv /\ Sees(e)
  BY DEF Kept
<1>2. /\ pc[e] = "write" /\ Store(p, new) /\ page[p] = loaded[e] /\ page[p].active
      /\ new.parent = NewParent(e) /\ new.slug = NewSlug(e)
      /\ place[e].moved => ~Changed(e, NewParent(e))
      /\ \/ new.parent = page[p].parent
         \/ new.parent \notin Pages
         \/ \E D \in SUBSET Pages :
               p \in D /\ new.parent \notin D /\ \A d \in D : Children(d) \subseteq D
  BY UpdateSeen DEF Update
<1>3. /\ new \in Rows /\ p \in Pages /\ new.path = place[e].path /\ new.depth = place[e].depth
      /\ (new.active => page[p].active) /\ new.parent \in Pages \cup {NoPage}
  BY <1>1, <1>2, UpdateFacts DEF Rows
<1>4. /\ place[e].moved = Moves(e)
      /\ place[e].moved =>
            /\ new.path = PathUnder(page, new.parent, new.slug)
            /\ new.parent # page[p].parent => new.depth = DepthUnder(page, new.parent)
      /\ new.parent = page[p].parent => new.depth = page[p].depth
      /\ ~place[e].moved => new.path = page[p].path
  BY <1>1, <1>2, <1>3 DEF Sees, Placed
<1>5. ~place[e].moved => new.parent = page[p].parent /\ new.slug = page[p].slug
  BY <1>2, <1>4 DEF Moves
<1>6. place[e].moved => v \in todo'[e] /\ v.kind = "list" /\ v.page = p
  BY <1>1 DEF Update, ListTask, IInv, TypeOK
<1> HIDE DEF p, new, v
<1>7. page'[p] = new /\ \A q \in Pages \ {p} : page'[q] = page[q]
  BY <1>1, <1>2, <1>3, StoreFacts DEF IInv
<1>8. new.parent # p
  BY <1>2, <1>3, NotOwnParent, AbsentFacts
<1>9. CASE ~place[e].moved
  <2>1. \A q \in Pages : /\ page'[q].parent = page[q].parent /\ page'[q].slug = page[q].slug
                         /\ page'[q].path = page[q].path /\ page'[q].depth = page[q].depth
                         /\ page'[q].active => page[q].active
    BY <1>3, <1>4, <1>5, <1>7, <1>9
  <2>2. page[c].parent \in Pages => /\ page'[page[c].parent].path = page[page[c].parent].path
                                    /\ page'[page[c].parent].depth = page[page[c].parent].depth
    BY <2>1
  <2>3. /\ page'[c].parent = page[c].parent /\ page'[c].slug = page[c].slug /\ page'[c].path = page[c].path
        /\ page'[c].depth = page[c].depth /\ (page'[c].active => page[c].active)
    BY <2>1
  <2>4. QED
    BY <1>1, <2>2, <2>3, FollowsKept
<1>10. CASE place[e].moved /\ c = p
  <2>1. new.parent \in Pages => page'[new.parent] = page[new.parent]
    BY <1>7, <1>8
  <2>2. new.path = PathUnder(page', new.parent, new.slug)
        /\ DepthUnder(page', new.parent) = DepthUnder(page, new.parent)
    BY <1>3, <1>4, <1>10, <2>1 DEF PathUnder, DepthUnder
  <2>3. CASE new.parent # page[p].parent
    BY <1>4, <1>7, <1>10, <2>2, <2>3 DEF Follows, InPlace
  <2>4. CASE new.parent = page[p].parent
    <3>1. CASE InPlace(page, c)
      <4>1. new.depth = DepthUnder(page', new.parent)
        BY <1>4, <1>10, <2>2, <2>4, <3>1 DEF InPlace
      <4>2. QED
        BY <1>7, <1>10, <2>2, <4>1 DEF Follows, InPlace
    <3>2. CASE Pending(c)
      <4>1. page'[c].parent = page[c].parent
        BY <1>7, <1>10, <2>4
      <4>2. Pending(c)'
        BY <3>2, <4>1, PendingKept
      <4>3. QED
        BY <4>2 DEF Follows
    <3>3. QED
      BY <1>2, <1>10, <3>1, <3>2 DEF Follows
  <2>5. QED
    BY <2>3, <2>4
<1>11. CASE place[e].moved /\ c # p /\ page[c].parent = p
  <2>1. page'[c].parent = p
    BY <1>7, <1>11
  <2>2. Pending(c)'
    BY <1>6, <1>11, <2>1 DEF Pending
  <2>3. QED
    BY <2>2 DEF Follows
<1>12. CASE place[e].moved /\ c # p /\ page[c].parent # p
  <2>1. page'[c] = page[c] /\ (page[c].parent \in Pages => page'[page[c].parent] = page[page[c].parent])
    BY <1>7, <1>12
  <2>2. QED
    BY <1>1, <2>1, FollowsKept
<1>13. QED
  BY <1>9, <1>10, <1>11, <1>12

LEMMA FollowsStep ==
    ASSUME Kept, Rooted(page), [Next]_vars, ~raced', ~torn', \A c \in Pages : Follows(c)
    PROVE  \A c \in Pages : Follows(c)'
<1> SUFFICES ASSUME NEW c \in Pages PROVE Follows(c)'
  OBVIOUS
<1>1. IInv
  BY DEF Kept
<1>2. CASE UNCHANGED vars
  <2>1. page' = page /\ \A f \in Requests : todo[f] \subseteq todo'[f]
    BY <1>2 DEF vars
  <2>2. QED
    BY <1>1, <2>1, QuietFollows
<1>3. ASSUME NEW e \in Requests, Kinds(e) PROVE Follows(c)'
  <2>1. CASE \E w \in todo[e] : ListChildren(e, w) \/ WriteChild(e, w)
    BY <1>1, <2>1, ListChildrenFollows, WriteChildFollows
  <2>2. CASE ~ \E w \in todo[e] : ListChildren(e, w) \/ WriteChild(e, w)
    <3>1. \A f \in Requests : todo[f] \subseteq todo'[f]
      BY <1>1, <1>3, <2>2, TodoKept
    <3>2. CASE Create(e)
      BY <3>1, <3>2, CreateFollows
    <3>3. CASE Update(e)
      BY <3>1, <3>3, UpdateFollows
    <3>4. CASE Remove(e)
      BY <1>1, <3>1, <3>4, RemoveFollows
    <3>5. CASE page' = page
      BY <1>1, <3>1, <3>5, QuietFollows
    <3>6. Create(e) \/ Update(e) \/ Remove(e) \/ page' = page
      BY <1>3, <2>2 DEF Kinds, Refused, Unique, Resolve, CheckChildren, StartCreate, StartUpdate,
         StartDelete, Walk
    <3>7. QED
      BY <3>2, <3>3, <3>4, <3>5, <3>6
  <2>3. QED
    BY <2>1, <2>2
<1>4. QED
  BY <1>2, <1>3, StepKinds

\* The paths: as long as no write is decided on rows that have changed and no
\* updateChildrenPaths is cut short, each live page is stored at the path and
\* depth its place gives it, or some request is still to write it there.
THEOREM PathsKept == Spec => []PathsFollowUnlessRaced
<1> DEFINE J == Kept /\ (raced \/ Rooted(page)) /\ PathsFollowUnlessRaced
<1>1. Init => J
  <2> SUFFICES ASSUME Init PROVE J
    OBVIOUS
  <2>1. Kept /\ Rooted(page)
    BY KeptInit, PagesConstants DEF Init, Built, Rooted
  <2>2. \A c \in Pages : page[c].active => InPlace(page, c)
    BY PagesConstants, AbsentFacts DEF Init, Built
  <2>3. QED
    BY <2>1, <2>2 DEF PathsFollowUnlessRaced
<1>2. J /\ [Next]_vars => J'
  <2> SUFFICES ASSUME J, [Next]_vars PROVE J'
    OBVIOUS
  <2>1. Kept' /\ (raced' \/ Rooted(page'))
    BY KeptStep, ForestStep, Remembered DEF Kept, IInv
  <2>2. PathsFollowUnlessRaced'
    <3> SUFFICES ASSUME ~raced', ~torn' PROVE \A c \in Pages : Follows(c)'
      BY DEF PathsFollowUnlessRaced, Follows
    <3>1. ~raced /\ ~torn
      BY Remembered DEF Kept, IInv
    <3>2. \A c \in Pages : Follows(c)
      BY <3>1 DEF PathsFollowUnlessRaced, Follows
    <3>3. QED
      BY <3>1, <3>2, FollowsStep
  <2>3. QED
    BY <2>1, <2>2
<1>3. J => PathsFollowUnlessRaced
  OBVIOUS
<1> HIDE DEF J
<1>4. QED
  BY <1>1, <1>2, <1>3, PTL DEF Spec

----------------------------------------------------------------------------
(* Requests that come one after the other never write on changed rows. *)

Busy(e) == pc[e] \notin {"idle", "done"}

\* D: the pages updateChildrenPaths has written, from the page of e down.  Each
\* task is below one of them and agrees with the rows as they are, and no page
\* has two tasks.
Frontier(e, D) ==
    /\ \A d \in D \ {req[e].page} : page[d].active /\ page[d].parent \in D
    /\ \A w \in todo[e] :
        /\ w.page \in D
        /\ page[w.page].path = w.path /\ page[w.page].depth = w.depth
        /\ w.kind = "list" => \A d \in D \ {req[e].page} : page[d].parent # w.page
        /\ w.kind = "write" =>
            /\ w.child \notin D /\ page[w.child].active
            /\ page[w.child].parent = w.page /\ page[w.child].slug = w.slug
            /\ \A v \in todo[e] : v.kind = "list" => v.page # w.page

Orderly(e) == \E D \in SUBSET Pages : Frontier(e, D)

Calm ==
    /\ Kept /\ Rooted(page) /\ InTurn
    /\ ~raced
    /\ \A e \in Requests : since[e] = Still /\ Orderly(e)

LEMMA NoTasks == \A e \in Requests : todo[e] = {} => Orderly(e)
<1>1. ASSUME NEW e \in Requests, todo[e] = {} PROVE Frontier(e, {})
  BY <1>1 DEF Frontier
<1>2. QED
  BY <1>1 DEF Orderly

LEMMA NoTasksNext == \A e \in Requests : todo'[e] = {} => Orderly(e)'
<1>1. ASSUME NEW e \in Requests, todo'[e] = {} PROVE Frontier(e, {})'
  BY <1>1 DEF Frontier
<1>2. QED
  BY <1>1 DEF Orderly

\* A listed page is not above the page of the request, and none of its children
\* has been listed or written.
LEMMA ListChildrenOrderly ==
    ASSUME IInv, Rooted(page), NEW e \in Requests, NEW w \in todo[e], ListChildren(e, w), Orderly(e)
    PROVE  Orderly(e)'
<1> DEFINE T == {WriteTask(w, c) : c \in Children(w.page)}
<1>1. /\ w.kind = "list" /\ UNCHANGED <<page, req>> /\ w \in Tasks /\ w.page \in Pages
      /\ todo'[e] = (todo[e] \ {w}) \cup T
  BY TaskFacts DEF ListChildren, WriteTask, IInv, TypeOK
<1>2. PICK D \in SUBSET Pages : Frontier(e, D)
  BY DEF Orderly
<1>3. /\ w.page \in D /\ page[w.page].path = w.path /\ page[w.page].depth = w.depth
      /\ \A d \in D \ {req[e].page} : page[d].active /\ page[d].parent \in D /\ page[d].parent # w.page
  BY <1>1, <1>2 DEF Frontier
<1>4. \A c \in Children(w.page) : c \in Pages /\ page[c].active /\ page[c].parent = w.page
  BY DEF Children
<1>5. ASSUME NEW c \in Children(w.page) PROVE c \notin D
  <2> SUFFICES ASSUME c \in D PROVE FALSE
    OBVIOUS
  <2>1. c = req[e].page
    BY <1>3, <1>4
  <2>2. \A d \in D : page[d].active /\ page[d].parent \in D
    BY <1>3, <1>4, <2>1
  <2>3. QED
    BY <2>2 DEF Rooted
<1>6. ASSUME NEW v \in todo[e] \ {w}, v.kind = "list" PROVE v.page # w.page
  <2> SUFFICES ASSUME v.page = w.page PROVE FALSE
    OBVIOUS
  <2>1. v.path = w.path /\ v.depth = w.depth
    BY <1>2, <1>3 DEF Frontier
  <2>2. v = ListTask(v.page, v.path, v.depth) /\ w = ListTask(w.page, w.path, w.depth)
    <3>1. v \in Tasks
      BY <1>6 DEF IInv, TypeOK
    <3>2. QED
      BY <1>1, <1>6, <3>1, TaskRecords
  <2>3. QED
    BY <1>6, <2>1, <2>2
<1>7. ASSUME NEW u \in T
      PROVE  /\ u.kind = "write" /\ u.page = w.page /\ u.path = w.path /\ u.depth = w.depth
             /\ u.child \in Children(w.page) /\ u.slug = page[u.child].slug
  BY DEF WriteTask
<1> HIDE DEF T
<1>8. ASSUME NEW u \in todo'[e]
      PROVE  /\ u.page \in D
             /\ page[u.page].path = u.path /\ page[u.page].depth = u.depth
             /\ u.kind = "list" => \A d \in D \ {req[e].page} : page[d].parent # u.page
             /\ u.kind = "write" =>
                 /\ u.child \notin D /\ page[u.child].active
                 /\ page[u.child].parent = u.page /\ page[u.child].slug = u.slug
                 /\ \A v \in todo'[e] : v.kind = "list" => v.page # u.page
  <2>1. CASE u \in T
    BY <1>1, <1>3, <1>4, <1>5, <1>6, <1>7, <2>1
  <2>2. CASE u \in todo[e] \ {w}
    <3>1. \A v \in todo'[e] : v.kind = "list" => v \in todo[e]
      BY <1>1, <1>7
    <3>2. QED
      BY <1>2, <2>2, <3>1 DEF Frontier
  <2>3. QED
    BY <1>1, <2>1, <2>2
<1>9. Frontier(e, D)'
  BY <1>1, <1>3, <1>8 DEF Frontier
<1>10. QED
  BY <1>9 DEF Orderly

\* The child written joins the pages written; no other task is about it.
LEMMA WriteChildOrderly ==
    ASSUME IInv, NEW e \in Requests, NEW w \in todo[e], WriteChild(e, w), Orderly(e)
    PROVE  Orderly(e)' /\ ~Outdated(w)
<1> DEFINE c == w.child
           l == ListTask(c, TaskRow(w).path, TaskRow(w).depth)
<1>1. /\ w.kind = "write" /\ Store(c, TaskRow(w)) /\ UNCHANGED req
      /\ todo'[e] = (todo[e] \ {w}) \cup {l}
  BY DEF WriteChild, ListTask, IInv, TypeOK
<1>2. /\ w \in Tasks /\ c \in Pages /\ TaskRow(w) \in Rows
      /\ TaskRow(w).parent = page[c].parent /\ TaskRow(w).slug = page[c].slug
      /\ TaskRow(w).active = page[c].active
      /\ TaskRow(w).path \in Seq(Names) /\ TaskRow(w).depth \in Nat
  BY <1>1, TaskRowFacts
<1>3. page'[c] = TaskRow(w) /\ \A q \in Pages \ {c} : page'[q] = page[q]
  BY <1>1, <1>2, StoreFacts DEF IInv
<1>4. l.kind = "list" /\ l.page = c /\ l.path = TaskRow(w).path /\ l.depth = TaskRow(w).depth
  BY <1>2, MakeListTask
<1>5. PICK D \in SUBSET Pages : Frontier(e, D)
  BY DEF Orderly
<1>6. /\ w.page \in D /\ page[w.page].path = w.path /\ page[w.page].depth = w.depth
      /\ c \notin D /\ page[c].active /\ page[c].parent = w.page /\ page[c].slug = w.slug
      /\ \A v \in todo[e] : v.kind = "list" => v.page # w.page
  BY <1>1, <1>5 DEF Frontier
<1>7. /\ \A q \in Pages : /\ page'[q].parent = page[q].parent /\ page'[q].slug = page[q].slug
                          /\ page'[q].active = page[q].active
      /\ \A d \in D : page'[d] = page[d]
  BY <1>2, <1>3, <1>6
<1> HIDE DEF l
<1> DEFINE E == D \cup {c}
<1>8. E \in SUBSET Pages
  BY <1>2
<1>9. \A d \in E \ {req[e].page} : page'[d].active /\ page'[d].parent \in E
  BY <1>2, <1>5, <1>6, <1>7 DEF Frontier
<1>10. ASSUME NEW v \in todo[e] \ {w}, v.kind = "write" PROVE v.child # c
  <2> SUFFICES ASSUME v.child = c PROVE FALSE
    OBVIOUS
  <2>1. /\ page[v.page].path = v.path /\ page[v.page].depth = v.depth
        /\ page[c].parent = v.page /\ page[c].slug = v.slug
    BY <1>5, <1>10 DEF Frontier
  <2>2. v.page = w.page /\ v.path = w.path /\ v.depth = w.depth /\ v.slug = w.slug
    BY <1>6, <2>1
  <2>3. v = ChildTask(v.child, v.slug, v.page, v.path, v.depth)
        /\ w = ChildTask(w.child, w.slug, w.page, w.path, w.depth)
    <3>1. v \in Tasks
      BY <1>10 DEF IInv, TypeOK
    <3>2. QED
      BY <1>1, <1>2, <1>10, <3>1, TaskRecords
  <2>4. QED
    BY <1>10, <2>2, <2>3
<1>11. ASSUME NEW u \in todo'[e]
       PROVE  /\ u.page \in E
              /\ page'[u.page].path = u.path /\ page'[u.page].depth = u.depth
              /\ u.kind = "list" => \A d \in E \ {req[e].page} : page'[d].parent # u.page
              /\ u.kind = "write" =>
                  /\ u.child \notin E /\ page'[u.child].active
                  /\ page'[u.child].parent = u.page /\ page'[u.child].slug = u.slug
                  /\ \A v \in todo'[e] : v.kind = "list" => v.page # u.page
  <2>1. CASE u = l
    <3>1. \A d \in E \ {req[e].page} : page'[d].parent # c
      BY <1>2, <1>5, <1>6, <1>7 DEF Frontier
    <3>2. QED
      BY <1>3, <1>4, <2>1, <3>1
  <2>2. CASE u \in todo[e] \ {w}
    <3>1. /\ u.page \in D /\ page[u.page].path = u.path /\ page[u.page].depth = u.depth
          /\ u.kind = "list" => \A d \in D \ {req[e].page} : page[d].parent # u.page
          /\ u.kind = "write" =>
              /\ u.child \notin D /\ page[u.child].active
              /\ page[u.child].parent = u.page /\ page[u.child].slug = u.slug
              /\ \A v \in todo[e] : v.kind = "list" => v.page # u.page
      BY <1>5, <2>2 DEF Frontier
    <3>2. page'[u.page].path = u.path /\ page'[u.page].depth = u.depth
      BY <1>7, <3>1
    <3>3. u.kind = "list" => \A d \in E \ {req[e].page} : page'[d].parent # u.page
      BY <1>2, <1>6, <1>7, <2>2, <3>1
    <3>4. u.kind = "write" => u.child \in Pages
      BY <2>2, TaskFacts DEF IInv, TypeOK
    <3>5. u.kind = "write" =>
              /\ u.child \notin E /\ page'[u.child].active
              /\ page'[u.child].parent = u.page /\ page'[u.child].slug = u.slug
      BY <1>7, <1>10, <2>2, <3>1, <3>4
    <3>6. u.kind = "write" => \A v \in todo'[e] : v.kind = "list" => v.page # u.page
      BY <1>1, <1>4, <1>6, <3>1
    <3>7. QED
      BY <3>1, <3>2, <3>3, <3>5, <3>6
  <2>3. QED
    BY <1>1, <2>1, <2>2
<1>12. Frontier(e, E)'
  BY <1>1, <1>9, <1>11 DEF Frontier
<1>13. Orderly(e)'
  BY <1>8, <1>12 DEF Orderly
<1>14. QED
  BY <1>6, <1>13 DEF Outdated

\* The moved page is the first of the pages written.
LEMMA UpdateOrderly ==
    ASSUME IInv, NEW e \in Requests, Update(e)
    PROVE  Orderly(e)'
<1> DEFINE p == req[e].page
<1>1. pc[e] = "write" /\ Store(p, UpdateRow(e))
  BY DEF Update
<1>2. /\ UpdateRow(e) \in Rows /\ p \in Pages
      /\ UpdateRow(e).path = place[e].path /\ UpdateRow(e).depth = place[e].depth
  BY <1>1, UpdateFacts
<1>3. page'[p] = UpdateRow(e)
  BY <1>1, <1>2, StoreFacts DEF IInv
<1>4. CASE place[e].moved
  <2> DEFINE l == ListTask(p, place[e].path, place[e].depth)
  <2>1. todo'[e] = {l} /\ UNCHANGED req
    BY <1>4 DEF Update, ListTask, IInv, TypeOK
  <2>2. l.kind = "list" /\ l.page = p /\ l.path = place[e].path /\ l.depth = place[e].depth
    BY DEF ListTask
  <2> HIDE DEF l
  <2>3. ASSUME NEW D \in SUBSET Pages, D = {p} PROVE Frontier(e, D)'
    BY <1>2, <1>3, <2>1, <2>2, <2>3 DEF Frontier
  <2>4. {p} \in SUBSET Pages
    BY <1>2
  <2>5. QED
    BY <2>3, <2>4 DEF Orderly
<1>5. CASE ~place[e].moved
  BY <1>5, EndFacts, NoTasksNext DEF Update, IInv
<1>6. QED
  BY <1>4, <1>5

\* A row is stored by the one request that is busy, and nothing has changed since
\* that request first read the table.
LEMMA StoreCalm ==
    ASSUME Calm, NEW e \in Requests,
           Create(e) \/ Update(e) \/ Remove(e) \/ \E w \in todo[e] : WriteChild(e, w)
    PROVE  ~raced' /\ \A f \in Requests : since'[f] = Still /\ Orderly(f)'
<1>1. IInv /\ TypeOK /\ since[e] = Still /\ ~raced /\ Orderly(e)
  BY DEF Calm, Kept, IInv
<1>2. Effect(e) /\ pc'[e] \in {"done", "spread"} /\ Busy(e)
  BY <1>1, EffectOfStore DEF Create, Update, Remove, WriteChild, Busy
<1>3. \A f \in Requests \ {e} : ~Busy(f)
  BY <1>2 DEF Calm, InTurn, Busy
<1>4. \A f \in Requests : pc'[f] \notin Deciding
  BY <1>2, <1>3 DEF Effect, Alone, Deciding, Busy
<1>5. \A f \in Requests : since'[f] = Still
  BY <1>4 DEF Create, Update, Remove, WriteChild, Store
<1>6. ~raced' /\ Orderly(e)'
  <2>1. \A p : ~Changed(e, p)
    BY <1>1 DEF Changed, Still
  <2>2. CASE Create(e)
    BY <1>1, <2>1, <2>2, EndFacts, NoTasksNext DEF Create
  <2>3. CASE Update(e)
    <3>1. ~Overtaken(e)
      BY <1>1, <2>1 DEF Overtaken, Still
    <3>2. QED
      BY <1>1, <2>3, <3>1, UpdateOrderly DEF Update
  <2>4. CASE Remove(e)
    BY <1>1, <2>1, <2>4, EndFacts, NoTasksNext DEF Remove
  <2>5. CASE \E w \in todo[e] : WriteChild(e, w)
    <3>1. PICK w \in todo[e] : WriteChild(e, w)
      BY <2>5
    <3>2. Orderly(e)' /\ ~Outdated(w)
      BY <1>1, <3>1, WriteChildOrderly
    <3>3. QED
      BY <1>1, <3>1, <3>2 DEF WriteChild
  <2>6. QED
    BY <2>2, <2>3, <2>4, <2>5
<1>7. ASSUME NEW f \in Requests \ {e} PROVE Orderly(f)'
  <2>1. todo[f] = {}
    BY <1>1, <1>3 DEF IInv, Knows, Busy
  <2>2. todo'[f] = {}
    BY <1>2, <2>1 DEF Effect, Alone
  <2>3. QED
    BY <2>2, NoTasksNext
<1>8. QED
  BY <1>5, <1>6, <1>7

\* Whatever stores no row leaves the tasks of the others as true as they were.
LEMMA QuietCalm ==
    ASSUME Calm, NEW e \in Requests, Kinds(e),
           ~(Create(e) \/ Update(e) \/ Remove(e) \/ \E w \in todo[e] : WriteChild(e, w))
    PROVE  ~raced' /\ \A f \in Requests : since'[f] = Still /\ Orderly(f)'
<1>1. IInv /\ TypeOK /\ Knows(e) /\ Rooted(page) /\ ~raced /\ \A f \in Requests : since[f] = Still /\ Orderly(f)
  BY DEF Calm, Kept, IInv
<1>2. /\ Alone(e) /\ page' = page /\ raced' = raced
      /\ UNCHANGED since \/ since' = [since EXCEPT ![e] = Still]
  <2>1. Alone(e)
    BY <1>1, EffectOfQuiet DEF Kinds, Effect
  <2>2. CASE Refused(e)
    BY <2>1, <2>2 DEF Refused
  <2>3. CASE Unique(e) \/ Resolve(e) \/ (CheckChildren(e) /\ ~Refused(e))
    BY <2>1, <2>3 DEF Unique, Resolve, CheckChildren
  <2>4. CASE \E p \in Pages, q \in Pages \cup {NoPage}, s \in Slugs : StartCreate(e, p, q, s)
    BY <2>1, <2>4 DEF StartCreate
  <2>5. CASE \E p \in Pages, d \in Edits : StartUpdate(e, p, d)
    BY <2>1, <2>5 DEF StartUpdate
  <2>6. CASE \E p \in Pages : StartDelete(e, p) \/ Walk(e, p)
    BY <2>1, <2>6 DEF StartDelete, Walk
  <2>7. CASE \E w \in todo[e] : ListChildren(e, w)
    BY <2>1, <2>7 DEF ListChildren
  <2>8. QED
    BY <2>2, <2>3, <2>4, <2>5, <2>6, <2>7 DEF Kinds
<1>3. \A f \in Requests : since'[f] = Still
  BY <1>1, <1>2 DEF TypeOK
<1>4. Orderly(e)'
  <2>1. CASE \E w \in todo[e] : ListChildren(e, w)
    BY <1>1, <2>1, ListChildrenOrderly
  <2>2. CASE End(e)
    BY <1>1, <2>2, EndFacts, NoTasksNext
  <2>3. CASE pc[e] # "spread" /\ UNCHANGED todo
    BY <1>1, <2>3, NoTasksNext DEF Knows
  <2>4. CASE Unique(e) \/ Resolve(e) \/ (CheckChildren(e) /\ ~Refused(e))
    BY <2>3, <2>4 DEF Unique, Resolve, CheckChildren
  <2>5. CASE \E p \in Pages, q \in Pages \cup {NoPage}, s \in Slugs : StartCreate(e, p, q, s)
    BY <2>3, <2>5 DEF StartCreate
  <2>6. CASE \E p \in Pages, d \in Edits : StartUpdate(e, p, d)
    BY <2>3, <2>6 DEF StartUpdate, Find
  <2>7. CASE \E p \in Pages : StartDelete(e, p) \/ Walk(e, p)
    BY <2>3, <2>7 DEF StartDelete, Find, Walk
  <2>8. QED
    BY <2>1, <2>2, <2>4, <2>5, <2>6, <2>7 DEF Kinds, Refused
<1>5. ASSUME NEW f \in Requests \ {e} PROVE Orderly(f)'
  <2>1. todo'[f] = todo[f] /\ req'[f] = req[f]
    BY <1>2 DEF Alone
  <2>2. PICK D \in SUBSET Pages : Frontier(f, D)
    BY <1>1 DEF Orderly
  <2>3. Frontier(f, D)'
    BY <1>2, <2>1, <2>2 DEF Frontier
  <2>4. QED
    BY <2>3 DEF Orderly
<1>6. QED
  BY <1>1, <1>2, <1>3, <1>4, <1>5

LEMMA CalmInit == Init => Calm
<1> SUFFICES ASSUME Init PROVE Calm
  OBVIOUS
<1>1. Kept /\ Rooted(page)
  BY KeptInit, PagesConstants DEF Init, Built, Rooted
<1>2. InTurn /\ ~raced /\ \A e \in Requests : since[e] = Still /\ todo[e] = {}
  BY DEF Init, InTurn
<1>3. QED
  BY <1>1, <1>2, NoTasks DEF Calm

LEMMA CalmStep == Calm /\ [Next /\ InTurn']_vars => Calm'
<1>1. ASSUME Calm, Next, InTurn' PROVE Calm'
  <2>1. PICK e \in Requests : Kinds(e)
    BY <1>1, StepKinds
  <2>2. ~raced' /\ \A f \in Requests : since'[f] = Still /\ Orderly(f)'
    BY <1>1, <2>1, StoreCalm, QuietCalm
  <2>3. Kept' /\ Rooted(page')
    BY <1>1, <2>2, KeptStep, ForestStep DEF Calm
  <2>4. Rooted(page)'
    BY <2>3 DEF Rooted
  <2>5. QED
    BY <1>1, <2>2, <2>3, <2>4 DEF Calm
<1>2. ASSUME Calm, UNCHANGED vars PROVE Calm'
  <2>1. Kept'
    BY <1>2, KeptStep DEF Calm
  <2>2. \A e \in Requests : Orderly(e)'
    BY <1>2 DEF Calm, Orderly, Frontier, vars
  <2>3. QED
    BY <1>2, <2>1, <2>2 DEF Calm, Rooted, InTurn, vars
<1>3. QED
  BY <1>1, <1>2

LEMMA CalmInvariant == SpecInTurn => []Calm
  BY CalmInit, CalmStep, PTL DEF SpecInTurn

\* Requests that come one after the other, wherever they stop and whatever they
\* ask for, make no cycle all of whose pages are live.  They may close one through
\* a deleted page: NeverUnderItself is false of them.
THEOREM ForestInTurn == SpecInTurn => []Forest
<1>1. Calm => Forest
  BY RootedForest DEF Calm, Forest
<1>2. QED
  BY <1>1, CalmInvariant, PTL

\* They leave every live page at its path and depth, or are about to, as long as
\* no updateChildrenPaths is cut short.
THEOREM PathsInTurn == SpecInTurn => []PathsFollowUnlessTorn
<1>1. SpecInTurn => Spec
  <2>1. [Next /\ InTurn']_vars => [Next]_vars
    OBVIOUS
  <2>2. QED
    BY <2>1, PTL DEF SpecInTurn, Spec
<1>2. Calm /\ PathsFollowUnlessRaced => PathsFollowUnlessTorn
  BY DEF Calm, PathsFollowUnlessRaced, PathsFollowUnlessTorn
<1>3. QED
  BY <1>1, <1>2, CalmInvariant, PathsKept, PTL

\* Each of them is at most one atomic change of the tree.
THEOREM RefinementInTurn == SpecInTurn => ImplementsTreeInTurn
<1>1. SpecInTurn => Spec
  <2>1. [Next /\ InTurn']_vars => [Next]_vars
    OBVIOUS
  <2>2. QED
    BY <2>1, PTL DEF SpecInTurn, Spec
<1>2. Calm' /\ [~raced' => Tree!Next]_(Tree!vars) => [Tree!Next]_(Tree!vars)
  BY DEF Calm
<1>3. QED
  BY <1>1, <1>2, CalmInvariant, Refinement, PTL DEF ImplementsTree, ImplementsTreeInTurn, Tree!Spec

=============================================================================
