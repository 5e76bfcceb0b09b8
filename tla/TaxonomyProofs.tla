--------------------------- MODULE TaxonomyProofs ---------------------------
(***************************************************************************)
(* Proofs about categories and tags, for every set of requests, items,     *)
(* slugs, bodies and rows at the start: rows stay what the schema lets     *)
(* them be, parents make no cycle that no move asked for, and until an     *)
(* item is written, or gets a parent, that was deleted meanwhile, every    *)
(* write is one atomic operation of the catalogue.                         *)
(***************************************************************************)
EXTENDS Taxonomy, TLAPS

Busy(r) == At(r) \notin {"idle", "done"}

Exists(i) == rows[i] # NoRow

\* What a request knows of its item and its body at the await where it stands.
Knows(r) ==
    /\ Busy(r) =>
        /\ Id(r) \in Items
        /\ Id(r) \notin Categories => In(r).parent = NoItem
        /\ call[r].creates => In(r).slug \in Slugs
        /\ ~call[r].creates => Exists(Id(r)) /\ In(r).parent # Id(r)
    /\ At(r) = "insert" => call[r].creates
    /\ At(r) \in {"update", "delete"} => ~call[r].creates
    /\ At(r) = "delete" => In(r).parent = NoItem
    /\ At(r) \in {"insert", "update"} /\ In(r).parent # NoItem => Exists(In(r).parent)

\* What it has found is still listed, unless it was deleted since.
Sure(r) ==
    /\ Busy(r) /\ ~call[r].creates /\ Id(r) \notin call[r].gone => Listed(Id(r))
    /\ At(r) \in {"insert", "update"} /\ In(r).parent \notin {NoItem} \cup call[r].gone => Listed(In(r).parent)

Parents == \A i \in Items : rows[i].parent # NoItem => rows[i].parent \in Categories /\ Exists(rows[i].parent)

IInv == TypeOK /\ Parents /\ \A r \in Requests : Knows(r) /\ Sure(r)

LEMMA NoRowFacts ==
    /\ NoRow \in Rows /\ NoRow.slug = NoSlug /\ NoRow.active = FALSE /\ NoRow.parent = NoItem
    /\ NoInput \in Inputs /\ NoInput.parent = NoItem
    /\ \A l \in Locations : Fresh(l) \in Calls /\ Fresh(l).at = l
  BY DEF NoRow, Rows, NoInput, Inputs, Fresh, Calls

LEMMA IInvInit == Init => IInv
<1> SUFFICES ASSUME Init PROVE IInv
  OBVIOUS
<1>1. rows \in [Items -> Rows] /\ \A i \in Items : rows[i] = Seeded[i]
  BY TaxonomyConstants DEF Init
<1>2. call \in [Requests -> Calls] /\ \A r \in Requests : At(r) = "idle"
  BY NoRowFacts DEF Init, At, Locations
<1>3. TypeOK
  <2>1. \A i \in Items : rows[i].slug = NoSlug => rows[i] = NoRow
    BY <1>1, TaxonomyConstants
  <2>2. \A i \in Items : Taken(i, rows[i].slug) => rows[i] = NoRow
    BY <1>1, <2>1, TaxonomyConstants DEF Taken, Alike
  <2>3. \A i \in Items \ Categories : rows[i].parent = NoItem
    BY <1>1, TaxonomyConstants
  <2>4. QED
    BY <1>1, <1>2, <2>1, <2>2, <2>3 DEF Init, TypeOK
<1>4. Parents /\ \A r \in Requests : Knows(r) /\ Sure(r)
  <2>1. Parents
    BY <1>1, TaxonomyConstants DEF Parents, Exists
  <2>2. \A r \in Requests : Knows(r) /\ Sure(r)
    BY <1>2 DEF Knows, Sure, Busy
  <2>3. QED
    BY <2>1, <2>2
<1>5. QED
  BY <1>3, <1>4 DEF IInv

\* A row that a request of item i may leave.
Legal(i, row) ==
    /\ row \in Rows /\ row.slug \in Slugs
    /\ \A j \in Alike(i) \ {i} : rows[j].slug # row.slug
    /\ i \notin Categories => row.parent = NoItem
    /\ row.parent # NoItem => row.parent \in Categories /\ Exists(row.parent)

\* What a write leaves of the requests.
LEMMA PutCalls ==
    ASSUME IInv, NEW r \in Requests, NEW row, Put(r, row), Id(r) \in Items
    PROVE  /\ call' \in [Requests -> Calls]
           /\ At(r)' = "done"
           /\ \A q \in Requests \ {r} :
                 /\ At(q)' = At(q) /\ Id(q)' = Id(q) /\ In(q)' = In(q)
                 /\ call'[q].creates = call[q].creates
                 /\ call[q].gone \subseteq call'[q].gone
                 /\ Busy(q) /\ ~row.active => Id(r) \in call'[q].gone
<1>1. \A q \in Requests : call[q] \in Calls
  BY DEF IInv, TypeOK
<1>2. Fresh("done") \in Calls /\ Fresh("done").at = "done"
  BY NoRowFacts DEF Locations
<1>3. \A q \in Requests : LET g == [call[q] EXCEPT !.gone = @ \cup {Id(r)}]
                         IN /\ g \in Calls /\ g.at = call[q].at /\ g.id = call[q].id /\ g.in = call[q].in
                            /\ g.creates = call[q].creates /\ g.gone = call[q].gone \cup {Id(r)}
  BY <1>1 DEF Calls
<1>4. \A q \in Requests : call'[q] =
           IF q = r THEN Fresh("done")
           ELSE IF row.active \/ At(q) \in {"idle", "done"} THEN call[q]
           ELSE [call[q] EXCEPT !.gone = @ \cup {Id(r)}]
  BY DEF Put
<1>5. call' \in [Requests -> Calls]
  <2>1. \A q \in Requests : call'[q] \in Calls
    BY <1>1, <1>2, <1>3, <1>4
  <2>2. QED
    BY <2>1 DEF Put
<1>6. At(r)' = "done"
  BY <1>2, <1>4 DEF At
<1>7. QED
  BY <1>3, <1>4, <1>5, <1>6 DEF At, Id, In, Busy

LEMMA PutStep ==
    ASSUME IInv, NEW r \in Requests, NEW row, Put(r, row), Busy(r), Legal(Id(r), row),
           turned' \in BOOLEAN
    PROVE  IInv'
<1>1. Id(r) \in Items
  BY DEF IInv, Knows
<1> DEFINE i == Id(r)
<1>2. /\ rows' \in [Items -> Rows] /\ rows'[i] = row
      /\ \A j \in Items \ {i} : rows'[j] = rows[j]
      /\ \A j \in Items : rows[j] \in Rows
  BY <1>1 DEF Put, Legal, IInv, TypeOK
<1>3. row # NoRow /\ row.slug # NoSlug
  BY NoRowFacts, TaxonomyConstants DEF Legal
<1>4. \A j \in Items : Exists(j) => Exists(j)'
  BY <1>2, <1>3 DEF Exists
<1>5. TypeOK'
  <2>1. \A j \in Items : (rows'[j].slug = NoSlug => rows'[j] = NoRow)
    BY <1>2, <1>3 DEF IInv, TypeOK
  <2>2. ASSUME NEW j \in Items, Taken(j, rows[j].slug)' PROVE rows'[j] = NoRow
    <3>1. PICK k \in Alike(j) \ {j} : rows'[k].slug = rows'[j].slug
      BY <2>2 DEF Taken
    <3>2. k \in Items /\ j \in Alike(k) \ {k}
      BY TaxonomyConstants DEF Alike
    <3>3. CASE j = i
      BY <1>2, <3>1, <3>2, <3>3 DEF Legal
    <3>4. CASE k = i
      BY <1>2, <3>1, <3>2, <3>4 DEF Legal
    <3>5. CASE j # i /\ k # i
      BY <1>2, <3>1, <3>2, <3>5 DEF IInv, TypeOK, Taken
    <3>6. QED
      BY <3>3, <3>4, <3>5
  <2>3. \A j \in Items \ Categories : rows'[j].parent = NoItem
    BY <1>2 DEF Legal, IInv, TypeOK
  <2>4. call' \in [Requests -> Calls] /\ stale' \in BOOLEAN
    BY <1>1, PutCalls DEF Put, IInv, TypeOK
  <2>5. QED
    BY <1>2, <2>1, <2>2, <2>3, <2>4 DEF TypeOK
<1>6. Parents'
  <2>1. ASSUME NEW j \in Items, rows'[j].parent # NoItem
        PROVE  rows'[j].parent \in Categories /\ Exists(rows[j].parent)'
    <3>1. rows'[j].parent \in Categories /\ Exists(rows'[j].parent)
      BY <1>2, <2>1 DEF Legal, IInv, Parents
    <3>2. QED
      BY <1>4, <3>1, TaxonomyConstants DEF Exists
  <2>2. QED
    BY <2>1 DEF Parents
<1>7. ASSUME NEW q \in Requests PROVE Knows(q)' /\ Sure(q)'
  <2>1. CASE q = r
    BY <1>1, <2>1, PutCalls DEF Knows, Sure, Busy
  <2>2. CASE q # r
    <3>1. /\ At(q)' = At(q) /\ Id(q)' = Id(q) /\ In(q)' = In(q) /\ Busy(q)' = Busy(q)
          /\ call'[q].creates = call[q].creates
          /\ call[q].gone \subseteq call'[q].gone
          /\ Busy(q) /\ ~row.active => i \in call'[q].gone
      BY <1>1, <2>2, PutCalls DEF Busy
    <3>2. Knows(q) /\ Sure(q)
      BY DEF IInv
    <3>3. In(q).parent \in Items \cup {NoItem}
      BY TaxonomyConstants DEF IInv, TypeOK, Calls, Inputs, In
    <3>4. Knows(q)'
      BY <1>4, <3>1, <3>2, <3>3 DEF Knows, Exists
    <3>5. ASSUME NEW j \in Items, Busy(q), Listed(j), j \notin call'[q].gone PROVE Listed(j)'
      BY <1>2, <1>3, <3>1, <3>5 DEF Listed
    <3>6. Sure(q)'
      <4>1. At(q) \in {"insert", "update"} => Busy(q)
        BY DEF Busy
      <4>2. Busy(q) => Id(q) \in Items
        BY <3>2 DEF Knows
      <4>3. QED
        BY <3>1, <3>2, <3>3, <3>5, <4>1, <4>2 DEF Sure
    <3>7. QED
      BY <3>4, <3>6
  <2>3. QED
    BY <2>1, <2>2
<1>8. QED
  BY <1>5, <1>6, <1>7 DEF IInv

----------------------------------------------------------------------------
(* What each write leaves *)

LEMMA InsertLegal ==
    ASSUME IInv, NEW r \in Requests, At(r) = "insert", rows[Id(r)] = NoRow, ~Taken(Id(r), In(r).slug)
    PROVE  Legal(Id(r), [slug |-> In(r).slug, active |-> TRUE, parent |-> In(r).parent])
<1>1. Knows(r) /\ Busy(r) /\ call[r].creates
  BY DEF IInv, Knows, Busy
<1>2. In(r) \in Inputs
  BY DEF IInv, TypeOK, Calls, In
<1>3. Id(r) \in Items /\ In(r).slug \in Slugs /\ In(r).parent \in Categories \cup {NoItem}
  BY <1>1, <1>2 DEF Knows, Inputs
<1>4. QED
  BY <1>1, <1>3, TaxonomyConstants DEF Legal, Knows, Rows, Taken

LEMMA MergedFacts ==
    ASSUME IInv, NEW r \in Requests, Busy(r), ~call[r].creates
    PROVE  LET i == Id(r)
               m == Merged(rows[i], In(r))
           IN /\ i \in Items /\ rows[i] \in Rows /\ rows[i].slug \in Slugs
              /\ m \in Rows /\ m.slug \in Slugs
              /\ m.slug = IF In(r).slug = NoSlug THEN rows[i].slug ELSE In(r).slug
              /\ m.parent = IF In(r).parent = NoItem THEN rows[i].parent ELSE In(r).parent
              /\ \A j \in Alike(i) \ {i} : rows[j].slug # rows[i].slug
<1>1. Id(r) \in Items /\ Exists(Id(r))
  BY DEF IInv, Knows
<1>2. In(r) \in Inputs
  BY DEF IInv, TypeOK, Calls, In
<1>3. rows[Id(r)] \in Rows /\ rows[Id(r)].slug \in Slugs
  BY <1>1 DEF IInv, TypeOK, Exists, Rows
<1>4. \A j \in Alike(Id(r)) \ {Id(r)} : rows[j].slug # rows[Id(r)].slug
  BY <1>1 DEF IInv, TypeOK, Exists, Taken
<1>5. In(r).parent \in Items \cup {NoItem}
  BY <1>2, TaxonomyConstants DEF Inputs
<1>6. QED
  BY <1>1, <1>2, <1>3, <1>4, <1>5 DEF Merged, Rows, Inputs

LEMMA WriteLegal ==
    ASSUME IInv, NEW r \in Requests, At(r) = "update",
           In(r).slug = NoSlug \/ ~Taken(Id(r), In(r).slug)
    PROVE  Legal(Id(r), Merged(rows[Id(r)], In(r)))
<1>1. Knows(r) /\ Busy(r) /\ ~call[r].creates
  BY DEF IInv, Knows, Busy
<1>2. In(r).parent \in Categories \cup {NoItem}
  BY DEF IInv, TypeOK, Calls, In, Inputs
<1>3. Id(r) \notin Categories => rows[Id(r)].parent = NoItem
  BY <1>1, MergedFacts DEF IInv, TypeOK
<1>4. rows[Id(r)].parent # NoItem => rows[Id(r)].parent \in Categories /\ Exists(rows[Id(r)].parent)
  BY <1>1, MergedFacts DEF IInv, Parents
<1>5. QED
  BY <1>1, <1>2, <1>3, <1>4, MergedFacts DEF Legal, Knows, Taken

LEMMA DeleteLegal ==
    ASSUME IInv, NEW r \in Requests, At(r) = "delete"
    PROVE  Legal(Id(r), [rows[Id(r)] EXCEPT !.active = FALSE])
<1>1. Knows(r) /\ Busy(r) /\ ~call[r].creates
  BY DEF IInv, Knows, Busy
<1> DEFINE row == [rows[Id(r)] EXCEPT !.active = FALSE]
<1>2. row \in Rows /\ row.slug = rows[Id(r)].slug /\ row.parent = rows[Id(r)].parent
  BY <1>1, MergedFacts DEF Rows
<1>3. Id(r) \notin Categories => rows[Id(r)].parent = NoItem
  BY <1>1, MergedFacts DEF IInv, TypeOK
<1>4. rows[Id(r)].parent # NoItem => rows[Id(r)].parent \in Categories /\ Exists(rows[Id(r)].parent)
  BY <1>1, MergedFacts DEF IInv, Parents
<1>5. QED
  BY <1>1, <1>2, <1>3, <1>4, MergedFacts DEF Legal

----------------------------------------------------------------------------
(* The steps that write no row *)

LEMMA QuietStep ==
    ASSUME IInv, NEW r \in Requests, NEW c \in Calls, call' = [call EXCEPT ![r] = c],
           UNCHANGED <<rows, History>>, (Knows(r) /\ Sure(r))'
    PROVE  IInv'
<1>1. call' \in [Requests -> Calls] /\ \A q \in Requests \ {r} : call'[q] = call[q]
  BY DEF IInv, TypeOK
<1>2. TypeOK'
  BY <1>1 DEF IInv, TypeOK, Taken, History
<1>3. Parents'
  BY DEF IInv, Parents, Exists
<1>4. ASSUME NEW q \in Requests PROVE Knows(q)' /\ Sure(q)'
  <2>1. CASE q # r
    BY <1>1, <2>1 DEF IInv, Knows, Sure, Busy, Exists, Listed, At, Id, In
  <2>2. QED
    BY <2>1
<1>5. QED
  BY <1>2, <1>3, <1>4 DEF IInv

LEMMA EndStep ==
    ASSUME IInv, NEW r \in Requests, End(r), UNCHANGED <<rows, History>>
    PROVE  IInv'
<1>1. Fresh("done") \in Calls /\ Fresh("done").at = "done"
  BY NoRowFacts DEF Locations
<1>2. call' = [call EXCEPT ![r] = Fresh("done")] /\ call'[r] = Fresh("done")
  BY DEF End, IInv, TypeOK
<1>3. (Knows(r) /\ Sure(r))'
  BY <1>1, <1>2 DEF Knows, Sure, Busy, At
<1>4. QED
  BY <1>1, <1>2, <1>3, QuietStep

LEMMA GotoStep ==
    ASSUME IInv, NEW r \in Requests, NEW l \in Locations, Goto(r, l), UNCHANGED <<rows, History>>, Busy(r),
           l = "insert" => call[r].creates,
           l = "update" => ~call[r].creates,
           l # "delete",
           l \in {"insert", "update"} /\ In(r).parent # NoItem => Listed(In(r).parent)
    PROVE  IInv'
<1> DEFINE c == [call[r] EXCEPT !.at = l]
<1>1. c \in Calls /\ c.at = l /\ c.id = Id(r) /\ c.in = In(r) /\ c.creates = call[r].creates /\ c.gone = call[r].gone
  BY DEF IInv, TypeOK, Calls, Id, In
<1>2. call' = [call EXCEPT ![r] = c] /\ call'[r] = c
  BY DEF Goto, IInv, TypeOK
<1>3. /\ At(r)' = l /\ Id(r)' = Id(r) /\ In(r)' = In(r)
      /\ call'[r].creates = call[r].creates /\ call'[r].gone = call[r].gone
  BY <1>1, <1>2 DEF At, Id, In
<1>4. Knows(r) /\ Sure(r)
  BY DEF IInv
<1>5. Listed(In(r).parent) => Exists(In(r).parent)
  BY NoRowFacts DEF Listed, Exists
<1>6. Knows(r)'
  BY <1>3, <1>4, <1>5 DEF Knows, Busy, Exists
<1>7. Sure(r)'
  BY <1>3, <1>4 DEF Sure, Busy, Listed
<1>8. QED
  BY <1>1, <1>2, <1>6, <1>7, QuietStep

LEMMA StartStep ==
    ASSUME IInv, NEW r \in Requests, NEW i \in Items, NEW d \in Inputs, NEW l \in {"slug", "parent", "delete"},
           NEW b \in BOOLEAN, UNCHANGED <<rows, History>>,
           call' = [call EXCEPT ![r] = [at |-> l, id |-> i, in |-> d, creates |-> b, gone |-> {}]],
           i \notin Categories => d.parent = NoItem,
           IF b THEN d.slug \in Slugs ELSE Listed(i) /\ d.parent # i,
           l = "delete" => ~b /\ d.parent = NoItem
    PROVE  IInv'
<1> DEFINE c == [at |-> l, id |-> i, in |-> d, creates |-> b, gone |-> {}]
<1>1. c \in Calls
  BY DEF Calls, Locations
<1>2. call' = [call EXCEPT ![r] = c] /\ call'[r] = c
  BY DEF IInv, TypeOK
<1>3. At(r)' = l /\ Id(r)' = i /\ In(r)' = d /\ call'[r].creates = b
  BY <1>2 DEF At, Id, In
<1>4. Listed(i) => Exists(i)
  BY NoRowFacts DEF Listed, Exists
<1>5. Knows(r)' /\ Sure(r)'
  BY <1>3, <1>4 DEF Knows, Sure, Busy, Exists, Listed
<1>6. QED
  BY <1>1, <1>2, <1>5, QuietStep

LEMMA IInvStep == IInv /\ [Next]_vars => IInv'
<1> SUFFICES ASSUME IInv, [Next]_vars PROVE IInv'
  OBVIOUS
<1>1. CASE UNCHANGED vars
  BY <1>1 DEF vars, IInv, TypeOK, Taken, Parents, Knows, Sure, Busy, Exists, Listed, At, Id, In
<1>2. CASE Next
  <2>1. PICK r \in Requests : Start(r) \/ Step(r)
    BY <1>2 DEF Next
  <2>2. ASSUME NEW i \in Items, NEW d \in Edits, Create(r, i, d) PROVE IInv'
    <3>1. d \in Inputs /\ d.slug \in Slugs
      BY <2>2, TaxonomyConstants DEF Create, Inputs
    <3>2. QED
      BY <2>2, <3>1, StartStep DEF Create
  <2>3. ASSUME NEW i \in Items, NEW d \in Edits, Update(r, i, d) PROVE IInv'
    <3>1. d \in Inputs
      BY TaxonomyConstants
    <3>2. QED
      BY <2>3, <3>1, StartStep DEF Update
  <2>4. ASSUME NEW i \in Items, Delete(r, i) PROVE IInv'
    <3>1. NoInput \in Inputs /\ NoInput.parent = NoItem /\ NoInput.parent # i
      BY NoRowFacts, TaxonomyConstants
    <3>2. /\ Listed(i) /\ UNCHANGED <<rows, History>>
          /\ call' = [call EXCEPT ![r] = [at |-> "delete", id |-> i, in |-> NoInput, creates |-> FALSE, gone |-> {}]]
      BY <2>4 DEF Delete
    <3>3. FALSE \in BOOLEAN /\ "delete" \in {"slug", "parent", "delete"}
      OBVIOUS
    <3>4. QED
      BY ONLY IInv, <3>1, <3>2, <3>3, StartStep
  <2>5. CASE CheckSlug(r)
    <3>1. CASE End(r)
      BY <2>5, <3>1, EndStep DEF CheckSlug
    <3>2. CASE Goto(r, "parent")
      BY <2>5, <3>2, GotoStep DEF CheckSlug, Locations, Busy
    <3>3. QED
      BY <2>5, <3>1, <3>2 DEF CheckSlug
  <2>6. CASE FindParent(r)
    <3>1. CASE In(r).parent # NoItem /\ ~Listed(In(r).parent)
      BY <2>6, <3>1, EndStep DEF FindParent
    <3>2. CASE ~(In(r).parent # NoItem /\ ~Listed(In(r).parent))
      <4>1. CASE call[r].creates
        BY <2>6, <3>2, <4>1, GotoStep DEF FindParent, Locations, Busy
      <4>2. CASE ~call[r].creates
        BY <2>6, <3>2, <4>2, GotoStep DEF FindParent, Locations, Busy
      <4>3. QED
        BY <4>1, <4>2
    <3>3. QED
      BY <3>1, <3>2
  <2>7. CASE Insert(r)
    <3>1. CASE rows[Id(r)] # NoRow \/ Taken(Id(r), In(r).slug)
      BY <2>7, <3>1, EndStep DEF Insert
    <3>2. CASE ~(rows[Id(r)] # NoRow \/ Taken(Id(r), In(r).slug))
      <4>1. Put(r, [slug |-> In(r).slug, active |-> TRUE, parent |-> In(r).parent]) /\ UNCHANGED turned
        BY <2>7, <3>2 DEF Insert
      <4>2. Legal(Id(r), [slug |-> In(r).slug, active |-> TRUE, parent |-> In(r).parent])
        BY <2>7, <3>2, InsertLegal DEF Insert
      <4>3. Busy(r) /\ turned' \in BOOLEAN
        BY <2>7, <4>1 DEF Insert, Busy, IInv, TypeOK
      <4>4. QED
        BY <4>1, <4>2, <4>3, PutStep
    <3>3. QED
      BY <3>1, <3>2
  <2>8. CASE Write(r)
    <3>1. CASE In(r).slug # NoSlug /\ Taken(Id(r), In(r).slug)
      BY <2>8, <3>1, EndStep DEF Write
    <3>2. CASE ~(In(r).slug # NoSlug /\ Taken(Id(r), In(r).slug))
      <4>1. Put(r, Merged(rows[Id(r)], In(r))) /\ turned' \in BOOLEAN
        BY <2>8, <3>2 DEF Write, IInv, TypeOK
      <4>2. Legal(Id(r), Merged(rows[Id(r)], In(r)))
        BY <2>8, <3>2, WriteLegal DEF Write
      <4>3. Busy(r)
        BY <2>8 DEF Write, Busy
      <4>4. QED
        BY <4>1, <4>2, <4>3, PutStep
    <3>3. QED
      BY <3>1, <3>2
  <2>9. CASE SoftDelete(r)
    <3>1. Busy(r) /\ turned' \in BOOLEAN
      BY <2>9 DEF SoftDelete, Busy, IInv, TypeOK
    <3>2. QED
      BY <2>9, <3>1, DeleteLegal, PutStep DEF SoftDelete
  <2>10. CASE BreakOff(r)
    BY <2>10, EndStep DEF BreakOff
  <2>11. QED
    BY <2>1, <2>2, <2>3, <2>4, <2>5, <2>6, <2>7, <2>8, <2>9, <2>10 DEF Start, Step
<1>3. QED
  BY <1>1, <1>2

LEMMA Invariant == Spec => []IInv
  BY IInvInit, IInvStep, PTL DEF Spec

(* No interleaving of handlers makes two rows of a kind share a slug, or gives a tag a parent. *)
THEOREM TypeCorrect == Spec => []TypeOK
<1>1. IInv => TypeOK
  BY DEF IInv
<1>2. QED
  BY <1>1, Invariant, PTL

----------------------------------------------------------------------------
(* Cycles *)

\* The least part of U with p in it and, with each of its members, the members of
\* U that are right below it.
Below(U, p) ==
    {u \in U : \A D \in SUBSET U :
        p \in D /\ (\A v \in U : rows[v].parent \in D => v \in D) => u \in D}

LEMMA BelowFacts ==
    ASSUME NEW U \in SUBSET Categories, NEW p \in U
    PROVE  /\ p \in Below(U, p)
           /\ \A v \in U : rows[v].parent \in Below(U, p) => v \in Below(U, p)
           /\ \A D \in SUBSET U :
                 p \in D /\ (\A v \in U : rows[v].parent \in D => v \in D) => Below(U, p) \subseteq D
  BY DEF Below

\* Once i is below p, a set of categories that holds the parents of its members
\* did so before, or has such a subset, unless i was above p.
LEMMA MoveKeepsAcyclic ==
    ASSUME NEW i \in Categories, NEW p \in Categories \ {i}, ~Above(i, p),
           NEW U \in SUBSET Categories, i \in U, p \in U,
           \A u \in U \ {i} : rows[u].parent \in U
    PROVE  \E V \in (SUBSET Categories) \ {{}} : \A v \in V : rows[v].parent \in V
<1> DEFINE D == Below(U, p)
<1>1. p \in D /\ D \subseteq U /\ \A v \in U : rows[v].parent \in D => v \in D
  BY BelowFacts DEF Below
<1>2. \A v \in D \ {p} : rows[v].parent \in D
  <2> DEFINE E == {p} \cup {v \in D : rows[v].parent \in D}
  <2>1. E \in SUBSET U /\ p \in E /\ \A v \in U : rows[v].parent \in E => v \in E
    BY <1>1
  <2>2. D \subseteq E
    BY <2>1, BelowFacts
  <2>3. QED
    BY <2>2
<1> HIDE DEF D
<1>3. CASE i \in D
  <2>1. \A u \in U : rows[u].parent \in U
    BY <1>1, <1>2, <1>3
  <2>2. U \in (SUBSET Categories) \ {{}}
    OBVIOUS
  <2>3. QED
    BY <2>1, <2>2
<1>4. CASE rows[p].parent \in D
  <2>1. \A u \in D : rows[u].parent \in D
    BY <1>2, <1>4
  <2>2. D \in (SUBSET Categories) \ {{}}
    BY <1>1
  <2>3. QED
    BY <2>1, <2>2
<1>5. CASE i \notin D /\ rows[p].parent \notin D
  <2> DEFINE V == U \ D
  <2>1. V \in SUBSET Categories /\ i \in V /\ p \notin V /\ rows[p].parent \in V
    BY <1>1, <1>5
  <2>2. \A u \in V \ {i} : rows[u].parent \in V
    BY <1>1
  <2>3. QED
    BY <2>1, <2>2 DEF Above
<1>6. QED
  BY <1>3, <1>4, <1>5

Acyclic == \A U \in (SUBSET Categories) \ {{}} : \E u \in U : rows[u].parent \notin U

\* A write keeps the parents, or makes a row that was none, or moves a category
\* below one that it is not above.
LEMMA AcyclicPut ==
    ASSUME IInv, Acyclic, NEW r \in Requests, Id(r) \in Items, NEW row, Put(r, row),
           \/ row.parent = rows[Id(r)].parent
           \/ rows[Id(r)] = NoRow /\ (row.parent # NoItem => Exists(row.parent))
           \/ row.parent # Id(r) /\ (Id(r) \in Categories => row.parent \in Categories) /\ ~Above(Id(r), row.parent)
    PROVE  Acyclic'
<1> DEFINE i == Id(r)
<1>1. rows'[i] = row /\ \A j \in Items \ {i} : rows'[j] = rows[j]
  BY DEF Put, IInv, TypeOK
<1>2. NoItem \notin Categories /\ Categories \subseteq Items
  BY TaxonomyConstants
<1>3. SUFFICES ASSUME NEW U \in (SUBSET Categories) \ {{}}, \A u \in U : rows'[u].parent \in U PROVE FALSE
  BY DEF Acyclic
<1>4. \A u \in U \ {i} : rows[u].parent \in U
  BY <1>1, <1>2, <1>3
<1>5. CASE i \notin U \/ row.parent = rows[i].parent
  <2>1. \A u \in U : rows[u].parent \in U
    BY <1>1, <1>3, <1>4, <1>5
  <2>2. QED
    BY <2>1 DEF Acyclic
<1>6. CASE i \in U /\ rows[i] = NoRow /\ (row.parent # NoItem => Exists(row.parent))
  <2>1. row.parent \in U \ {i}
    BY <1>1, <1>2, <1>3, <1>6 DEF Exists
  <2>2. \A u \in U \ {i} : rows[u].parent # i
    BY <1>2, <1>4, <1>6 DEF IInv, Parents, Exists
  <2> DEFINE V == U \ {i}
  <2>3. V \in (SUBSET Categories) \ {{}} /\ \A v \in V : rows[v].parent \in V
    BY <1>4, <2>1, <2>2
  <2>4. QED
    BY <2>3 DEF Acyclic
<1>7. CASE i \in U /\ row.parent # i /\ row.parent \in Categories /\ ~Above(i, row.parent)
  <2>1. row.parent \in U
    BY <1>1, <1>3, <1>7
  <2>2. \E V \in (SUBSET Categories) \ {{}} : \A v \in V : rows[v].parent \in V
    <3> DEFINE p == row.parent
    <3>1. i \in Categories /\ p \in Categories \ {i} /\ ~Above(i, p) /\ U \in SUBSET Categories /\ i \in U /\ p \in U
      BY <1>7, <2>1
    <3> HIDE DEF p, i
    <3>2. QED
      BY ONLY <1>4, <3>1, MoveKeepsAcyclic
  <2>3. QED
    BY <2>2 DEF Acyclic
<1>8. QED
  BY <1>5, <1>6, <1>7

LEMMA AcyclicStep == IInv /\ AcyclicUnlessTurned /\ [Next]_vars => AcyclicUnlessTurned'
<1> SUFFICES ASSUME IInv, AcyclicUnlessTurned, [Next]_vars, ~turned' PROVE Acyclic'
  BY DEF AcyclicUnlessTurned, Acyclic
<1>1. CASE UNCHANGED <<rows, History>>
  BY <1>1 DEF History, AcyclicUnlessTurned, Acyclic
<1>2. ASSUME NEW r \in Requests, Insert(r), ~UNCHANGED <<rows, History>> PROVE Acyclic'
  <2>1. ~turned /\ rows[Id(r)] = NoRow
    BY <1>2 DEF Insert
  <2>2. Acyclic /\ Knows(r) /\ Id(r) \in Items
    BY <1>2, <2>1 DEF IInv, AcyclicUnlessTurned, Acyclic, Knows, Busy, Insert
  <2> DEFINE row == [slug |-> In(r).slug, active |-> TRUE, parent |-> In(r).parent]
  <2>3. Put(r, row)
    BY <1>2 DEF Insert
  <2>4. row.parent # NoItem => Exists(row.parent)
    BY <1>2, <2>2 DEF Knows, Insert
  <2>5. QED
    BY <2>1, <2>2, <2>3, <2>4, AcyclicPut
<1>3. ASSUME NEW r \in Requests, Write(r), ~UNCHANGED <<rows, History>> PROVE Acyclic'
  <2> DEFINE row == Merged(rows[Id(r)], In(r))
  <2>1. /\ Put(r, row) /\ ~turned
        /\ In(r).parent # NoItem => ~Above(Id(r), In(r).parent)
        /\ Busy(r)
    BY <1>3 DEF Write, Busy, IInv, TypeOK
  <2>2. Acyclic /\ Knows(r) /\ ~call[r].creates /\ In(r) \in Inputs
    BY <1>3, <2>1 DEF IInv, AcyclicUnlessTurned, Acyclic, Knows, Write, TypeOK, Calls, In
  <2>3. Id(r) \in Items /\ row.parent = IF In(r).parent = NoItem THEN rows[Id(r)].parent ELSE In(r).parent
    BY <2>1, <2>2, MergedFacts
  <2> HIDE DEF row
  <2>4. CASE In(r).parent = NoItem
    BY <2>1, <2>2, <2>3, <2>4, AcyclicPut
  <2>5. CASE In(r).parent # NoItem
    <3>1. row.parent # Id(r) /\ row.parent \in Categories /\ ~Above(Id(r), row.parent)
      BY <2>1, <2>2, <2>3, <2>5 DEF Knows, Inputs
    <3>2. QED
      BY <2>1, <2>2, <2>3, <3>1, AcyclicPut
  <2>6. QED
    BY <2>4, <2>5
<1>4. ASSUME NEW r \in Requests, SoftDelete(r) PROVE Acyclic'
  <2> DEFINE row == [rows[Id(r)] EXCEPT !.active = FALSE]
  <2>1. Put(r, row) /\ ~turned /\ Busy(r) /\ ~call[r].creates
    BY <1>4 DEF SoftDelete, Busy, IInv, Knows
  <2>2. Acyclic
    BY <2>1 DEF AcyclicUnlessTurned, Acyclic
  <2>3. Id(r) \in Items /\ row.parent = rows[Id(r)].parent
    BY <2>1, MergedFacts DEF Rows
  <2>4. QED
    BY <2>1, <2>2, <2>3, AcyclicPut
<1>5. QED
  BY <1>1, <1>2, <1>3, <1>4
     DEF Next, Start, Step, vars, History, Create, Update, Delete, CheckSlug, FindParent, BreakOff

(* Parents form no cycle, whatever the handlers interleave, until a category is put below one that is *)
(* already below it: the only way to a cycle is a move that closes it.                                *)
THEOREM NoCycle == Spec => []AcyclicUnlessTurned
<1>1. Init => AcyclicUnlessTurned
  BY TaxonomyConstants DEF Init, AcyclicUnlessTurned
<1>2. QED
  BY <1>1, AcyclicStep, Invariant, PTL DEF Spec

----------------------------------------------------------------------------
(* The catalogue *)

\* What a request has found is listed when it writes, unless it was deleted meanwhile.
LEMMA FoundWhenWritten ==
    ASSUME IInv, NEW r \in Requests, Busy(r), NEW row, Put(r, row), ~stale',
           call[r].creates => rows[Id(r)] = NoRow
    PROVE  /\ ~call[r].creates => Shop!Listed(Id(r))
           /\ At(r) \in {"insert", "update"} /\ In(r).parent # NoItem => Shop!Parent(Id(r), In(r).parent)
<1>1. Id(r) \notin call[r].gone /\ In(r).parent \notin call[r].gone
  BY DEF Put
<1>2. Knows(r) /\ Sure(r) /\ Id(r) \in Items /\ In(r) \in Inputs
  BY DEF IInv, Knows, TypeOK, Calls, In
<1>3. ~call[r].creates => Shop!Listed(Id(r))
  BY <1>1, <1>2 DEF Sure, Listed, Shop!Listed, Shop!Exists
<1>4. ASSUME At(r) \in {"insert", "update"}, In(r).parent # NoItem PROVE Shop!Parent(Id(r), In(r).parent)
  <2>1. Id(r) \in Categories /\ In(r).parent \in Categories /\ Listed(In(r).parent)
    <3>1. Id(r) \in Categories
      BY <1>2, <1>4 DEF Knows, Busy
    <3>2. In(r).parent \in Categories
      BY <1>2, <1>4 DEF Inputs
    <3>3. Listed(In(r).parent)
      BY <1>1, <1>2, <1>4 DEF Sure
    <3>4. QED
      BY <3>1, <3>2, <3>3
  <2>2. In(r).parent # Id(r)
    <3>1. Listed(In(r).parent) => rows[In(r).parent] # NoRow
      BY NoRowFacts DEF Listed
    <3>2. QED
      BY <1>2, <2>1, <3>1 DEF Knows
  <2>3. QED
    BY <2>1, <2>2 DEF Shop!Parent, Shop!Listed, Shop!Exists, Listed
<1>5. QED
  BY <1>3, <1>4

LEMMA CatalogueStep == IInv /\ [Next]_vars => [~stale' => Shop!Next]_rows
<1> SUFFICES ASSUME IInv, [Next]_vars, ~stale', rows' # rows PROVE Shop!Next
  OBVIOUS
<1>1. ASSUME NEW r \in Requests, Insert(r) PROVE Shop!Next
  <2>1. /\ rows[Id(r)] = NoRow /\ ~Taken(Id(r), In(r).slug) /\ Busy(r) /\ At(r) = "insert"
        /\ Put(r, [slug |-> In(r).slug, active |-> TRUE, parent |-> In(r).parent])
    BY <1>1 DEF Insert, Busy
  <2>2. Id(r) \in Items /\ In(r).slug \in Slugs /\ In(r).parent \in Items \cup {NoItem}
    BY <2>1, TaxonomyConstants DEF IInv, Knows, TypeOK, Calls, Inputs, In
  <2>3. ~Shop!Exists(Id(r)) /\ Shop!Free(Id(r), In(r).slug)
    BY <2>1, NoRowFacts DEF Shop!Exists, Shop!Free, Taken, Alike, Shop!Alike
  <2>4. In(r).parent = NoItem \/ Shop!Parent(Id(r), In(r).parent)
    BY <2>1, FoundWhenWritten
  <2>5. Shop!Create(Id(r), In(r).slug, In(r).parent)
    BY <2>1, <2>3, <2>4 DEF Shop!Create, Put
  <2>6. QED
    BY <2>2, <2>5 DEF Shop!Next
<1>2. ASSUME NEW r \in Requests, NEW row \in Rows, Put(r, row), ~call[r].creates, Busy(r), row.slug \in Slugs,
             \A j \in Alike(Id(r)) \ {Id(r)} : rows[j].slug # row.slug,
             row.parent = rows[Id(r)].parent \/ Shop!Parent(Id(r), row.parent)
      PROVE  Shop!Next
  <2>1. Id(r) \in Items /\ Shop!Listed(Id(r))
    BY <1>2, FoundWhenWritten DEF IInv, Knows
  <2>2. row = [slug |-> row.slug, active |-> row.active, parent |-> row.parent]
        /\ row.active \in BOOLEAN /\ row.parent \in Items \cup {NoItem}
    BY DEF Rows
  <2>3. Shop!Free(Id(r), row.slug)
    BY <1>2 DEF Shop!Free, Alike, Shop!Alike
  <2>4. Shop!Change(Id(r), row.slug, row.active, row.parent)
    BY <1>2, <2>1, <2>2, <2>3 DEF Shop!Change, Put
  <2>5. QED
    BY <1>2, <2>1, <2>2, <2>4 DEF Shop!Next
<1>3. ASSUME NEW r \in Requests, Write(r) PROVE Shop!Next
  <2>1. /\ Put(r, Merged(rows[Id(r)], In(r))) /\ Busy(r) /\ ~call[r].creates
        /\ In(r).slug = NoSlug \/ ~Taken(Id(r), In(r).slug)
        /\ At(r) = "update"
    BY <1>3 DEF Write, Busy, IInv, Knows
  <2> DEFINE row == Merged(rows[Id(r)], In(r))
  <2>2. row \in Rows /\ row.slug \in Slugs /\ \A j \in Alike(Id(r)) \ {Id(r)} : rows[j].slug # row.slug
    BY <2>1, WriteLegal DEF Legal
  <2>3. row.parent = rows[Id(r)].parent \/ Shop!Parent(Id(r), row.parent)
    BY <2>1, MergedFacts, FoundWhenWritten
  <2>4. QED
    BY <1>2, <2>1, <2>2, <2>3
<1>4. ASSUME NEW r \in Requests, SoftDelete(r) PROVE Shop!Next
  <2> DEFINE row == [rows[Id(r)] EXCEPT !.active = FALSE]
  <2>1. Put(r, row) /\ Busy(r) /\ ~call[r].creates
    BY <1>4 DEF SoftDelete, Busy, IInv, Knows
  <2>2. row \in Rows /\ row.slug \in Slugs /\ \A j \in Alike(Id(r)) \ {Id(r)} : rows[j].slug # row.slug
    BY <1>4, DeleteLegal DEF Legal, SoftDelete
  <2>3. row.parent = rows[Id(r)].parent
    BY <2>1, MergedFacts DEF Rows
  <2>4. QED
    BY <1>2, <2>1, <2>2, <2>3
<1>5. QED
  BY <1>1, <1>3, <1>4
     DEF Next, Start, Step, vars, History, Create, Update, Delete, CheckSlug, FindParent, BreakOff

(* Until an item is written, or gets a parent, that was deleted after the request began, every write *)
(* is one atomic operation of the catalogue.                                                         *)
THEOREM Refinement == Spec => ImplementsCatalogue
  BY Invariant, CatalogueStep, PTL DEF Spec, ImplementsCatalogue

=============================================================================
