------------------------------- MODULE Pages -------------------------------
(***************************************************************************)
(* The page table (modules/pages): requests that create, change and delete *)
(* pages, each a sequence of single statements without a transaction, any  *)
(* number of them in flight at once.  A request is about a page of its own *)
(* tenant, but the parent and the children it reads may be anybody's.      *)
(*                                                                         *)
(* A slug is any text, so it may hold slashes: it is a sequence of names,  *)
(* and a full path is the concatenation of the slugs from the root down.   *)
(* Status, dates and texts of pages are left out: no statement here        *)
(* depends on them.                                                        *)
(***************************************************************************)
EXTENDS Integers, Sequences, FiniteSets

CONSTANTS
    Pages, NoPage,    \* page ids, and null
    Tenant,           \* Tenant[p]: the gaming center page p belongs to
    Names, Slugs,     \* names between slashes; the slugs in use
    Keep,             \* a field that a PATCH leaves out
    Requests,
    Edits,            \* the PATCH bodies tried, among Inputs
    Trees,            \* the page tables the requests may find
    MaxPath           \* bound: a longer full path does not fit its index

Inputs == [parent : Pages \cup {NoPage, Keep}, slug : Slugs \cup {Keep},
           active : {"keep", "on", "off"}]

Rows ==
    [parent : Pages \cup {NoPage}, slug : Slugs, path : Seq(Names), depth : Nat,
     active : BOOLEAN]

\* A page that was never created.
Absent == [parent |-> NoPage, slug |-> <<>>, path |-> <<>>, depth |-> 0, active |-> FALSE]

VARIABLES
    page,      \* page[p]: the row of page p
    pc,        \* pc[e]: the await at which request e stands
    req,       \* req[e]: the page e is about, and what it asks for
    loaded,    \* loaded[e]: the row of its page as e found it
    since,     \* history: since e first read the table, the pages whose rows have
               \* been changed, and whether a parent or an active flag has
    walk,      \* walk[e]: pages whose children isDescendant has yet to read
    place,     \* place[e]: the path and depth e computed, and whether it moves
    todo,      \* todo[e]: what updateChildrenPaths has yet to do
    raced,     \* history: some write was decided on rows that changed since
    torn       \* history: some updateChildrenPaths ended before its last page

vars == <<page, pc, req, loaded, since, walk, place, todo, raced, torn>>

Locations ==
    {"idle", "walk", "resolve", "unique", "write", "spread",
     "createUnique", "create", "children", "remove", "done"}

\* Where a request has still to decide on what it has read.
Deciding == Locations \ {"idle", "spread", "done"}

NoPlace == [path |-> <<>>, depth |-> 0, moved |-> FALSE]
Places  == [path : Seq(Names), depth : Nat, moved : BOOLEAN]

NoReq == [page |-> NoPage, parent |-> Keep, slug |-> Keep, active |-> "keep"]
Reqs  == [page : Pages, parent : Pages \cup {NoPage, Keep}, slug : Slugs \cup {Keep},
          active : {"keep", "on", "off"}]

\* A page whose children have to be read, or a child of it that has to be
\* written, with the slug it was listed with and the page's path and depth.
Tasks ==
    [kind : {"list"}, page : Pages, path : Seq(Names), depth : Nat]
    \cup [kind : {"write"}, child : Pages, slug : Slugs, page : Pages, path : Seq(Names),
          depth : Nat]

Still == [rows |-> {}, shape |-> FALSE]

----------------------------------------------------------------------------
(* The table. *)

\* findChildren.
Children(p) == {c \in Pages : page[c].active /\ page[c].parent = p}

PathUnder(t, p, s) == IF p = NoPage THEN s ELSE t[p].path \o s
DepthUnder(t, p)   == IF p = NoPage THEN 0 ELSE t[p].depth + 1

\* The row's path and depth are those its place in the tree t gives it.
InPlace(t, c) ==
    /\ t[c].path = PathUnder(t, t[c].parent, t[c].slug)
    /\ t[c].depth = DepthUnder(t, t[c].parent)

\* @@unique([gamingCenterId, slug]) and @@unique([gamingCenterId, fullPath]),
\* over every row of the tenant, deactivated ones included.
Fits(p, row) ==
    /\ Len(row.path) <= MaxPath
    /\ \A q \in Pages \ {p} : Tenant[q] = Tenant[p] =>
            page[q].slug # row.slug /\ page[q].path # row.path

\* A table that sequential creations have built.
Built(t) ==
    /\ t \in [Pages -> Rows \cup {Absent}]
    /\ \A p \in Pages : t[p] = Absent \/ InPlace(t, p)
    /\ \A p \in Pages : t[p].parent \in Pages => t[t[p].parent] # Absent
    /\ \A p, q \in Pages : t[p] # Absent /\ t[q] # Absent /\ p # q /\ Tenant[p] = Tenant[q] =>
            t[p].slug # t[q].slug /\ t[p].path # t[q].path
    /\ \A C \in SUBSET {p \in Pages : t[p].active} :
            C # {} => \E c \in C : t[c].parent \notin C

ASSUME PagesConstants ==
    /\ NoPage \notin Pages /\ Keep \notin Pages \cup {NoPage}
    /\ Slugs \subseteq Seq(Names) \ {<<>>} /\ Keep \notin Slugs
    /\ Edits \subseteq Inputs
    /\ MaxPath \in Nat
    /\ \A t \in Trees : Built(t)

Init ==
    /\ page \in Trees
    /\ pc = [e \in Requests |-> "idle"]
    /\ req = [e \in Requests |-> NoReq]
    /\ loaded = [e \in Requests |-> Absent]
    /\ since = [e \in Requests |-> Still]
    /\ walk = [e \in Requests |-> {}]
    /\ place = [e \in Requests |-> NoPlace]
    /\ todo = [e \in Requests |-> {}]
    /\ raced = FALSE /\ torn = FALSE

Goto(e, l) == pc' = [pc EXCEPT ![e] = l]

\* The request is answered, or its process is gone.
End(e) ==
    /\ Goto(e, "done")
    /\ req' = [req EXCEPT ![e] = NoReq]
    /\ loaded' = [loaded EXCEPT ![e] = Absent]
    /\ walk' = [walk EXCEPT ![e] = {}]
    /\ place' = [place EXCEPT ![e] = NoPlace]
    /\ todo' = [todo EXCEPT ![e] = {}]
    /\ torn' = (torn \/ todo[e] # {})

\* Page p has been changed since e first read the table, though it may have been
\* changed back.
Changed(e, p) == p \in since[e].rows

\* The row of page p is stored.
Store(p, new) ==
    /\ page' = [page EXCEPT ![p] = new]
    /\ since' = [f \in Requests |->
                    IF pc'[f] \in Deciding
                    THEN [rows |-> since[f].rows \cup (IF new = page[p] THEN {} ELSE {p}),
                          shape |-> since[f].shape \/ new.parent # page[p].parent
                                                  \/ new.active # page[p].active]
                    ELSE Still]

Refused(e) ==
    /\ End(e)
    /\ since' = [since EXCEPT ![e] = Still]
    /\ UNCHANGED <<page, raced>>

\* The loaded row is looked up by findPageById; the request ends when it is not
\* there.
Find(e, p, l) ==
    /\ pc[e] = "idle"
    /\ page[p].active
    /\ loaded' = [loaded EXCEPT ![e] = page[p]]
    /\ Goto(e, l)

----------------------------------------------------------------------------
(* createPage *)

\* The parent is read, deactivated or not and whoever's it is, and gives the path.
StartCreate(e, p, q, s) ==
    /\ pc[e] = "idle"
    /\ page[p] = Absent /\ \A f \in Requests : req[f].page # p
    /\ q \in Pages => page[q] # Absent
    /\ req' = [req EXCEPT ![e] = [page |-> p, parent |-> q, slug |-> s, active |-> "keep"]]
    /\ place' = [place EXCEPT ![e] = [path |-> PathUnder(page, q, s),
                                      depth |-> DepthUnder(page, q), moved |-> FALSE]]
    /\ Goto(e, "createUnique")
    /\ UNCHANGED <<page, loaded, since, walk, todo, raced, torn>>

CreateRow(e) ==
    [parent |-> req[e].parent, slug |-> req[e].slug, path |-> place[e].path,
     depth |-> place[e].depth, active |-> TRUE]

Create(e) ==
    /\ pc[e] = "create"
    /\ Fits(req[e].page, CreateRow(e))
    /\ raced' = (raced \/ Changed(e, req[e].parent))
    /\ End(e)
    /\ Store(req[e].page, CreateRow(e))

\* The insert breaks a unique constraint (P2002).
CreateRefused(e) ==
    /\ pc[e] = "create"
    /\ ~Fits(req[e].page, CreateRow(e))
    /\ Refused(e)

----------------------------------------------------------------------------
(* updatePage *)

\* Deviation: deactivated pages are changed too.
StartUpdateInactive(e, p, d) ==
    /\ pc[e] = "idle" /\ page[p] # Absent /\ d.parent # p
    /\ loaded' = [loaded EXCEPT ![e] = page[p]]
    /\ Goto(e, IF d.parent \in Pages THEN "walk" ELSE "resolve")
    /\ req' = [req EXCEPT ![e] = [page |-> p, parent |-> d.parent, slug |-> d.slug,
                                  active |-> d.active]]
    /\ walk' = [walk EXCEPT ![e] = IF d.parent \in Pages THEN {p} ELSE {}]
    /\ UNCHANGED <<page, since, place, todo, raced, torn>>

\* findPageById; a page cannot be its own parent, and a parent that is given
\* has to be searched for below the page.
StartUpdate(e, p, d) ==
    /\ d.parent # p
    /\ Find(e, p, IF d.parent \in Pages THEN "walk" ELSE "resolve")
    /\ req' = [req EXCEPT ![e] = [page |-> p, parent |-> d.parent, slug |-> d.slug,
                                  active |-> d.active]]
    /\ walk' = [walk EXCEPT ![e] = IF d.parent \in Pages THEN {p} ELSE {}]
    /\ UNCHANGED <<page, since, place, todo, raced, torn>>

\* Deviation: isDescendant looks at the children only.
WalkChildrenOnly(e, q) ==
    /\ pc[e] = "walk"
    /\ q \in walk[e]
    /\ req[e].parent \notin Children(q)
    /\ walk' = [walk EXCEPT ![e] = {}]
    /\ Goto(e, "resolve")
    /\ UNCHANGED <<page, req, loaded, since, place, todo, raced, torn>>

\* isDescendant reads the children of one more page.  Siblings come in no
\* particular order, so the pages still to be read are a set.
Walk(e, q) ==
    /\ pc[e] = "walk"
    /\ q \in walk[e]
    /\ req[e].parent \notin Children(q)
    /\ walk' = [walk EXCEPT ![e] = (@ \ {q}) \cup Children(q)]
    /\ Goto(e, IF walk'[e] = {} THEN "resolve" ELSE "walk")
    /\ UNCHANGED <<page, req, loaded, since, place, todo, raced, torn>>

\* The new parent is a descendant.
WalkRefused(e, q) ==
    /\ pc[e] = "walk"
    /\ q \in walk[e]
    /\ req[e].parent \in Children(q)
    /\ Refused(e)

NewParent(e) == IF req[e].parent = Keep THEN loaded[e].parent ELSE req[e].parent
NewSlug(e)   == IF req[e].slug = Keep THEN loaded[e].slug ELSE req[e].slug

Moves(e) == NewParent(e) # loaded[e].parent \/ NewSlug(e) # loaded[e].slug

\* The depth is left as loaded when the page is only renamed.
PlaceOf(e) ==
    IF Moves(e)
    THEN [path |-> PathUnder(page, NewParent(e), NewSlug(e)),
          depth |-> IF NewParent(e) = loaded[e].parent THEN loaded[e].depth
                    ELSE DepthUnder(page, NewParent(e)),
          moved |-> TRUE]
    ELSE [path |-> loaded[e].path, depth |-> loaded[e].depth, moved |-> FALSE]

\* The parent is read and the new path computed, if the page moves.
Resolve(e) ==
    /\ pc[e] = "resolve"
    /\ NewParent(e) \in Pages => page[NewParent(e)] # Absent
    /\ place' = [place EXCEPT ![e] = PlaceOf(e)]
    /\ Goto(e, IF Moves(e) THEN "unique" ELSE "write")
    /\ UNCHANGED <<page, req, loaded, since, walk, todo, raced, torn>>

\* findPageByFullPath finds no other live page of the tenant at the path.
PathFree(e) ==
    \A q \in Pages \ {req[e].page} :
        page[q].active /\ Tenant[q] = Tenant[req[e].page] => page[q].path # place[e].path

Unique(e) ==
    /\ pc[e] \in {"unique", "createUnique"}
    /\ PathFree(e)
    /\ Goto(e, IF pc[e] = "unique" THEN "write" ELSE "create")
    /\ UNCHANGED <<page, req, loaded, since, walk, place, todo, raced, torn>>

\* "Parent page not found", or a page with this path exists.
ChecksRefused(e) ==
    /\ \/ pc[e] = "resolve" /\ NewParent(e) \in Pages /\ page[NewParent(e)] = Absent
       \/ pc[e] \in {"unique", "createUnique"} /\ ~PathFree(e)
    /\ Refused(e)

\* The active flag: any request may send one.
ActiveOf(old, d) == IF d.active = "keep" THEN old.active ELSE d.active = "on"

\* Deviation: a slug that is not given is stored as null.
UpdateRowBlindly(e) ==
    LET old == page[req[e].page]
    IN [parent |-> IF req[e].parent = Keep THEN old.parent ELSE req[e].parent,
        slug |-> req[e].slug,
        path |-> place[e].path,
        depth |-> place[e].depth,
        active |-> ActiveOf(old, req[e])]

\* The row after prisma.page.update by id: the fields that were given, and the
\* path and depth in any case.
UpdateRow(e) ==
    LET old == page[req[e].page]
    IN [parent |-> IF req[e].parent = Keep THEN old.parent ELSE req[e].parent,
        slug |-> IF req[e].slug = Keep THEN old.slug ELSE req[e].slug,
        path |-> place[e].path,
        depth |-> place[e].depth,
        active |-> ActiveOf(old, req[e])]

\* What the request decided on has changed: the row itself, its new parent, or
\* what lies below what.
Overtaken(e) ==
    \/ Changed(e, req[e].page)
    \/ place[e].moved /\ Changed(e, NewParent(e))
    \/ NewParent(e) # loaded[e].parent /\ since[e].shape

Update(e) ==
    /\ pc[e] = "write"
    /\ Fits(req[e].page, UpdateRow(e))
    /\ raced' = (raced \/ Overtaken(e))
    /\ IF place[e].moved
       THEN /\ todo' = [todo EXCEPT ![e] =
                           {[kind |-> "list", page |-> req[e].page,
                             path |-> place[e].path, depth |-> place[e].depth]}]
            /\ Goto(e, "spread")
            /\ UNCHANGED <<req, loaded, walk, place, torn>>
       ELSE End(e)
    /\ Store(req[e].page, UpdateRow(e))

UpdateRefused(e) ==
    /\ pc[e] = "write"
    /\ ~Fits(req[e].page, UpdateRow(e))
    /\ Refused(e)

----------------------------------------------------------------------------
(* updateChildrenPaths *)

\* findChildren of one page: each child is to be written below it.  Siblings
\* come in no particular order, and here their subtrees may interleave, which
\* allows more than the loop does and costs no property.
ListChildren(e, w) ==
    /\ pc[e] = "spread"
    /\ w \in todo[e] /\ w.kind = "list"
    /\ todo' = [todo EXCEPT ![e] = (@ \ {w}) \cup
                   {[kind |-> "write", child |-> c, slug |-> page[c].slug,
                     page |-> w.page, path |-> w.path, depth |-> w.depth] :
                       c \in Children(w.page)}]
    /\ UNCHANGED <<page, pc, req, loaded, since, walk, place, raced, torn>>

\* Deviation: the children get the depth of their parent.
TaskRowLevel(w) == [page[w.child] EXCEPT !.path = w.path \o w.slug, !.depth = w.depth]

TaskRow(w) == [page[w.child] EXCEPT !.path = w.path \o w.slug, !.depth = w.depth + 1]

\* The child listed is elsewhere or renamed, or its parent is.
Outdated(w) ==
    \/ page[w.child].parent # w.page \/ page[w.child].slug # w.slug
    \/ page[w.page].path # w.path \/ page[w.page].depth # w.depth

\* One child's path and depth are stored, and its own children come next.
WriteChild(e, w) ==
    /\ pc[e] = "spread"
    /\ w \in todo[e] /\ w.kind = "write"
    /\ Fits(w.child, TaskRow(w))
    /\ raced' = (raced \/ Outdated(w))
    /\ todo' = [todo EXCEPT ![e] = (@ \ {w}) \cup
                   {[kind |-> "list", page |-> w.child,
                     path |-> TaskRow(w).path, depth |-> TaskRow(w).depth]}]
    /\ UNCHANGED <<pc, req, loaded, walk, place, torn>>
    /\ Store(w.child, TaskRow(w))

\* Deviation: the statement is repeated until it succeeds.
WriteChildRetried(e, w) ==
    /\ pc[e] = "spread"
    /\ w \in todo[e] /\ w.kind = "write"
    /\ ~Fits(w.child, TaskRow(w))
    /\ UNCHANGED vars

\* A child's new path is taken or too long: the request fails half-way.
WriteChildRefused(e, w) ==
    /\ pc[e] = "spread"
    /\ w \in todo[e] /\ w.kind = "write"
    /\ ~Fits(w.child, TaskRow(w))
    /\ Refused(e)

Spread(e) ==
    /\ pc[e] = "spread"
    /\ todo[e] = {}
    /\ Refused(e)

----------------------------------------------------------------------------
(* deletePage *)

StartDelete(e, p) ==
    /\ Find(e, p, "children")
    /\ req' = [req EXCEPT ![e] = [NoReq EXCEPT !.page = p]]
    /\ UNCHANGED <<page, since, walk, place, todo, raced, torn>>

\* A page with children is not deleted.
CheckChildren(e) ==
    /\ pc[e] = "children"
    /\ IF Children(req[e].page) = {}
       THEN /\ Goto(e, "remove")
            /\ UNCHANGED <<page, req, loaded, since, walk, place, todo, raced, torn>>
       ELSE Refused(e)

\* softDeletePage.
Remove(e) ==
    /\ pc[e] = "remove"
    /\ raced' = (raced \/ Changed(e, req[e].page))
    /\ End(e)
    /\ Store(req[e].page, [page[req[e].page] EXCEPT !.active = FALSE])

----------------------------------------------------------------------------

\* Turned away at once: no such page or parent, its own parent.
Refuse(e) == pc[e] = "idle" /\ Refused(e)

\* The process dies, or the database fails.
Stop(e) == pc[e] \notin {"idle", "done"} /\ Refused(e)

Start(e) ==
    \E p \in Pages :
        \/ \E q \in Pages \cup {NoPage}, s \in Slugs : StartCreate(e, p, q, s)
        \/ \E d \in Edits : StartUpdate(e, p, d)
        \/ StartDelete(e, p)

Step(e) ==
    \/ Unique(e) \/ ChecksRefused(e) \/ Create(e) \/ CreateRefused(e)
    \/ \E q \in Pages : Walk(e, q) \/ WalkRefused(e, q)
    \/ Resolve(e) \/ Update(e) \/ UpdateRefused(e)
    \/ \E w \in todo[e] : ListChildren(e, w) \/ WriteChild(e, w) \/ WriteChildRefused(e, w)
    \/ Spread(e) \/ CheckChildren(e) \/ Remove(e)

Next == \E e \in Requests : Start(e) \/ Refuse(e) \/ Step(e) \/ Stop(e)

Spec == Init /\ [][Next]_vars

\* A request that runs in a live process goes on.
FairSpec == Spec /\ \A e \in Requests : WF_vars(Step(e))

\* Requests that come one after the other, each when the one before has ended.
InTurn ==
    \A e, f \in Requests : {pc[e], pc[f]} \cap {"idle", "done"} = {} => e = f

SpecInTurn == Init /\ [][Next /\ InTurn']_vars

----------------------------------------------------------------------------

TypeOK ==
    /\ page \in [Pages -> Rows \cup {Absent}]
    /\ pc \in [Requests -> Locations]
    /\ req \in [Requests -> Reqs \cup {NoReq}]
    /\ loaded \in [Requests -> Rows \cup {Absent}]
    /\ since \in [Requests -> [rows : SUBSET Pages, shape : BOOLEAN]]
    /\ walk \in [Requests -> SUBSET Pages]
    /\ place \in [Requests -> Places]
    /\ todo \in [Requests -> SUBSET Tasks]
    /\ raced \in BOOLEAN /\ torn \in BOOLEAN

----------------------------------------------------------------------------
(* Safety. *)

Tree == INSTANCE PageTree WITH
    NoSlug <- <<>>,
    Owner <- Tenant,
    parent <- [p \in Pages |-> page[p].parent],
    slug   <- [p \in Pages |-> page[p].slug],
    live   <- {p \in Pages : page[p].active}

\* The pages above p, by parentId, whatever rows that goes through.
Above(p) ==
    {q \in Pages : \A D \in SUBSET Pages :
        /\ page[p].parent \in Pages => page[p].parent \in D
        /\ \A d \in D : page[d].parent \in Pages => page[d].parent \in D
        => q \in D}

\* "A page cannot be moved under its own descendant" (pages.station.ts:78): no
\* live page is its own ancestor.  isDescendant asks for the active children
\* only, so a page may be moved below a child that was deleted.
NeverUnderItself == \A p \in Pages : page[p].active => p \notin Above(p)

\* Until a write is decided on rows that have changed, there is no cycle of live
\* pages alone, however long: that is what findChildren goes down, so the
\* recursions end.  It does not exclude a cycle that a deleted page closes.
ForestUnlessRaced == raced \/ Tree!Forest

\* A change of this page's path is under way: it or its parent is still to be
\* processed by some updateChildrenPaths.
Pending(c) ==
    \E e \in Requests : \E w \in todo[e] :
        \/ w.kind = "write" /\ w.child = c
        \/ w.kind = "list" /\ w.page = page[c].parent

\* Each live page is stored at the path and depth its place gives it, or is
\* about to be, until a write is overtaken or an updateChildrenPaths cut short.
PathsFollowUnlessRaced ==
    \/ raced \/ torn
    \/ \A c \in Pages : page[c].active => InPlace(page, c) \/ Pending(c)

\* Until a write is overtaken, each request is at most one atomic change of the
\* tree, whichever requests run with it and wherever they stop.
ImplementsTree == Tree!Init /\ [][~raced' => Tree!Next]_(Tree!vars)

\* Requests that come one after the other, stopped or not, never close a cycle of
\* live pages alone: isDescendant goes all the way down them.
Forest == Tree!Forest

\* They leave each live page at the path and depth its place gives it, or are
\* about to, until an updateChildrenPaths is cut short.
PathsFollowUnlessTorn ==
    torn \/ \A c \in Pages : page[c].active => InPlace(page, c) \/ Pending(c)

\* Each of them is at most one atomic change of the tree, updateChildrenPaths
\* or not.
ImplementsTreeInTurn == Tree!Spec

----------------------------------------------------------------------------
(* Liveness. *)

\* isDescendant and updateChildrenPaths recurse without a bound; they end
\* unless some write was overtaken.
RequestEnds ==
    \A e \in Requests : (pc[e] \notin {"idle", "done"}) ~> (raced \/ pc[e] = "done")
=============================================================================
