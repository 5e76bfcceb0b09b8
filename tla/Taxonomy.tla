------------------------------ MODULE Taxonomy ------------------------------
(***************************************************************************)
(* The categories and tags of a gaming center (modules/taxonomy).  Each    *)
(* request stands between two statements of its handler: it finds the row, *)
(* the holder of the slug and the parent one after the other, and writes   *)
(* by id.  The two kinds run the same steps; only categories have parents. *)
(* Names, descriptions and the order decide nothing.                       *)
(***************************************************************************)
EXTENDS Integers

CONSTANTS
    Requests,
    Items, Categories,     \* ids, and those of categories; the others are tags
    Slugs, NoSlug, NoItem,
    Seeded,                \* the rows at the start
    Edits                  \* the bodies that requests are sent with

Rows == [slug : Slugs \cup {NoSlug}, active : BOOLEAN, parent : Items \cup {NoItem}]

NoRow == [slug |-> NoSlug, active |-> FALSE, parent |-> NoItem]

\* A body: NoSlug, "keep" and NoItem stand for the fields it does not have.
Inputs == [slug : Slugs \cup {NoSlug}, active : {"keep", "on", "off"}, parent : Categories \cup {NoItem}]

NoInput == [slug |-> NoSlug, active |-> "keep", parent |-> NoItem]

Alike(i) == IF i \in Categories THEN Categories ELSE Items \ Categories

ASSUME TaxonomyConstants ==
    /\ Categories \subseteq Items /\ NoItem \notin Items /\ NoSlug \notin Slugs
    /\ Seeded \in [Items -> Rows] /\ Edits \subseteq Inputs
    /\ \A i \in Items : \A j \in Alike(i) \ {i} : Seeded[i].slug # NoSlug => Seeded[i].slug # Seeded[j].slug
    /\ \A i \in Items : Seeded[i].slug = NoSlug => Seeded[i] = NoRow
    /\ \A i \in Items : Seeded[i].parent # NoItem =>
          i \in Categories /\ Seeded[i].parent \in Categories /\ Seeded[Seeded[i].parent] # NoRow
    /\ \A U \in (SUBSET Categories) \ {{}} : \E u \in U : Seeded[u].parent \notin U

VARIABLES
    rows,     \* rows[i]: the row with id i, NoRow when there is none
    call,     \* call[r]: where request r stands, its item and its body; history:
              \* the items deleted since it began
    stale,    \* history: a row was written that had been deleted since the request
              \* began, or put below one that had been
    turned    \* history: a category was put below one that was already below it

vars == <<rows, call, stale, turned>>

Locations == {"idle", "slug", "parent", "insert", "update", "delete", "done"}

Calls == [at : Locations, id : Items \cup {NoItem}, in : Inputs, creates : BOOLEAN, gone : SUBSET Items]

Fresh(l) == [at |-> l, id |-> NoItem, in |-> NoInput, creates |-> FALSE, gone |-> {}]

Init ==
    /\ rows = Seeded
    /\ call = [r \in Requests |-> Fresh("idle")]
    /\ stale = FALSE /\ turned = FALSE

At(r) == call[r].at

Id(r) == call[r].id

In(r) == call[r].in

End(r) == call' = [call EXCEPT ![r] = Fresh("done")]

Goto(r, l) == call' = [call EXCEPT ![r].at = l]

\* findCategoryById and findTagById: the active row.
Listed(i) == rows[i].slug # NoSlug /\ rows[i].active

\* findCategoryBySlug and findTagBySlug: any row, active or not.
Taken(i, s) == \E j \in Alike(i) \ {i} : rows[j].slug = s

History == <<stale, turned>>

\* The row of r's item becomes row, which ends r.
Put(r, row) ==
    /\ rows' = [rows EXCEPT ![Id(r)] = row]
    /\ call' = [q \in Requests |->
           IF q = r THEN Fresh("done")
           ELSE IF row.active \/ At(q) \in {"idle", "done"} THEN call[q]
           ELSE [call[q] EXCEPT !.gone = @ \cup {Id(r)}]]
    /\ stale' = (stale \/ {Id(r), In(r).parent} \cap call[r].gone # {})

----------------------------------------------------------------------------
(* createCategory and createTag *)

Create(r, i, d) ==
    /\ At(r) = "idle"
    /\ rows[i] = NoRow /\ d.slug # NoSlug /\ d.active = "keep"
    /\ i \notin Categories => d.parent = NoItem
    /\ call' = [call EXCEPT ![r] = [at |-> "slug", id |-> i, in |-> d, creates |-> TRUE, gone |-> {}]]
    /\ UNCHANGED <<rows, History>>

\* prisma.create, which the unique slug may refuse.
Insert(r) ==
    /\ At(r) = "insert"
    /\ IF rows[Id(r)] # NoRow \/ Taken(Id(r), In(r).slug)
       THEN End(r) /\ UNCHANGED <<rows, History>>
       ELSE /\ Put(r, [slug |-> In(r).slug, active |-> TRUE, parent |-> In(r).parent])
            /\ UNCHANGED turned

----------------------------------------------------------------------------
(* updateCategory and updateTag *)

\* Deviation: a category may be its own parent.
UpdateOntoItself(r, i, d) ==
    /\ At(r) = "idle"
    /\ Listed(i)
    /\ i \notin Categories => d.parent = NoItem
    /\ call' = [call EXCEPT ![r] =
           [at |-> IF d.slug \notin {NoSlug, rows[i].slug} THEN "slug" ELSE "parent",
            id |-> i, in |-> d, creates |-> FALSE, gone |-> {}]]
    /\ UNCHANGED <<rows, History>>

Update(r, i, d) ==
    /\ At(r) = "idle"
    /\ Listed(i) /\ d.parent # i
    /\ i \notin Categories => d.parent = NoItem
    /\ call' = [call EXCEPT ![r] =
           [at |-> IF d.slug \notin {NoSlug, rows[i].slug} THEN "slug" ELSE "parent",
            id |-> i, in |-> d, creates |-> FALSE, gone |-> {}]]
    /\ UNCHANGED <<rows, History>>

CheckSlug(r) ==
    /\ At(r) = "slug"
    /\ IF Taken(Id(r), In(r).slug) THEN End(r) ELSE Goto(r, "parent")
    /\ UNCHANGED <<rows, History>>

\* Deviation: any row will do as a parent, deleted or not.
FindParentEvenDeleted(r) ==
    /\ At(r) = "parent"
    /\ IF In(r).parent # NoItem /\ rows[In(r).parent] = NoRow
       THEN End(r)
       ELSE Goto(r, IF call[r].creates THEN "insert" ELSE "update")
    /\ UNCHANGED <<rows, History>>

\* Passed at once when the body has no parent.
FindParent(r) ==
    /\ At(r) = "parent"
    /\ IF In(r).parent # NoItem /\ ~Listed(In(r).parent)
       THEN End(r)
       ELSE Goto(r, IF call[r].creates THEN "insert" ELSE "update")
    /\ UNCHANGED <<rows, History>>

\* Deviation: the slug is written even when d has none.
MergedBlindly(row, d) == [row EXCEPT !.slug = d.slug]

\* UPDATE ... SET of the fields that d has.
Merged(row, d) ==
    [slug   |-> IF d.slug = NoSlug THEN row.slug ELSE d.slug,
     active |-> IF d.active = "keep" THEN row.active ELSE d.active = "on",
     parent |-> IF d.parent = NoItem THEN row.parent ELSE d.parent]

\* Whether i is strictly above p, along the parents.
Above(i, p) ==
    \E U \in SUBSET Categories :
        /\ i \in U /\ p \notin U
        /\ \A u \in U \ {i} : rows[u].parent \in U
        /\ rows[p].parent \in U

\* prisma.update by id, which the unique slug may refuse.
Write(r) ==
    /\ At(r) = "update"
    /\ IF In(r).slug # NoSlug /\ Taken(Id(r), In(r).slug)
       THEN End(r) /\ UNCHANGED <<rows, History>>
       ELSE /\ Put(r, Merged(rows[Id(r)], In(r)))
            /\ turned' = (turned \/ (In(r).parent # NoItem /\ Above(Id(r), In(r).parent)))

----------------------------------------------------------------------------
(* deleteCategory and deleteTag *)

Delete(r, i) ==
    /\ At(r) = "idle"
    /\ Listed(i)
    /\ call' = [call EXCEPT ![r] = [at |-> "delete", id |-> i, in |-> NoInput, creates |-> FALSE, gone |-> {}]]
    /\ UNCHANGED <<rows, History>>

SoftDelete(r) ==
    /\ At(r) = "delete"
    /\ Put(r, [rows[Id(r)] EXCEPT !.active = FALSE])
    /\ UNCHANGED turned

\* A statement fails, or the process is gone.
BreakOff(r) ==
    /\ At(r) \notin {"idle", "done"}
    /\ End(r)
    /\ UNCHANGED <<rows, History>>

----------------------------------------------------------------------------

Start(r) ==
    \E i \in Items :
        \/ Delete(r, i)
        \/ \E d \in Edits : Create(r, i, d) \/ Update(r, i, d)

Step(r) ==
    \/ CheckSlug(r) \/ FindParent(r)
    \/ Insert(r) \/ Write(r) \/ SoftDelete(r)
    \/ BreakOff(r)

Next == \E r \in Requests : Start(r) \/ Step(r)

Spec == Init /\ [][Next]_vars

----------------------------------------------------------------------------

\* Rows are what the schema lets them be: of their type, every one that exists
\* with a slug no other of its kind has, tags without parents.
TypeOK ==
    /\ rows \in [Items -> Rows]
    /\ \A i \in Items : rows[i].slug = NoSlug => rows[i] = NoRow
    /\ \A i \in Items : Taken(i, rows[i].slug) => rows[i] = NoRow
    /\ \A i \in Items \ Categories : rows[i].parent = NoItem
    /\ call \in [Requests -> Calls]
    /\ stale \in BOOLEAN /\ turned \in BOOLEAN

\* The parents of categories make no cycle, which no request looks for, as long
\* as none is put below a category that was already below it.
AcyclicUnlessTurned ==
    turned \/ \A U \in (SUBSET Categories) \ {{}} : \E u \in U : rows[u].parent \notin U

Shop == INSTANCE Catalogue

\* Each write is one atomic operation of the promise, until a row is written, or
\* gets a parent, that was deleted after the request began.
ImplementsCatalogue == [][~stale' => Shop!Next]_rows
=============================================================================
