--------------------------- MODULE ContentProofs ---------------------------
(***************************************************************************)
(* Proofs about the three components that promise an invariant and no      *)
(* atomic operations: the menus, the attachments of a post, and the import *)
(* of the legacy site.  Their modules share no name, and neither do the    *)
(* proofs.                                                                 *)
(*                                                                         *)
(* Menus: for every set of requests, items and bodies, a deleted item      *)
(* stays as it is and every reader gets what the rules let them see, until *)
(* an item is written that was deleted meanwhile, or put below itself.     *)
(*                                                                         *)
(* Attachments: for every set of writers, workers, texts and media, and    *)
(* any numbers of attempts and stalls, once nothing is under way the       *)
(* attached media are those of the text, unless a job was lost or two runs *)
(* overlapped.                                                             *)
(*                                                                         *)
(* Import: for every set of exports, whatever their rows, and any number   *)
(* of runs, the outcome of a run means what it says, and a repeated run    *)
(* changes nothing but what the application had changed.                   *)
(***************************************************************************)
EXTENDS Menus, MediaSync, Migration, TLAPS

----------------------------------------------------------------------------
(* Menus. *)

Exists(i) == items[i] # NoRow

\* What a request knows of its item and its body at the await where it stands.
Knows(r) ==
    /\ At(r) \in {"menu", "insert", "update", "delete"} => In(r).menu \in MenuLocations
    /\ At(r) \in {"insert", "update", "delete"} => Id(r) \in Items
    /\ At(r) \in {"insert", "update"} => In(r) \in Inputs
    /\ At(r) \in {"update", "delete"} => items[Id(r)].menu \in MenuLocations

\* The item it has found is still active, unless it was deleted since.
Sure(r) == At(r) \in {"update", "delete"} /\ Id(r) \notin call[r].gone => items[Id(r)].active

Parents == \A i \in Items : items[i].parent \in Items => Exists(items[i].parent)

MenuIInv == MenuTypeOK /\ Parents /\ \A r \in Callers : Knows(r) /\ Sure(r)

\* Every set of items has one whose parent is not in it.
Acyclic == \A U \in (SUBSET Items) \ {{}} : \E u \in U : items[u].parent \notin U

LEMMA NoRowFacts ==
    /\ NoRow \in Rows /\ NoRow.menu = Nowhere /\ NoRow.parent = NoItem
    /\ NoInput.menu = Nowhere
    /\ \A l \in {"idle", "done"} : Fresh(l) \in Calls /\ Fresh(l).at = l
  BY DEF NoRow, Rows, Rules, NoInput, Fresh, Calls

LEMMA MenuIInvInit == MenuInit => MenuIInv
<1> SUFFICES ASSUME MenuInit PROVE MenuIInv
  OBVIOUS
<1>1. items = Seeded /\ items \in [Items -> Rows] /\ menus \subseteq MenuLocations
  BY MenusConstants DEF MenuInit, Rows
<1>2. call \in [Callers -> Calls] /\ \A r \in Callers : At(r) = "idle"
  BY NoRowFacts DEF MenuInit, At
<1>3. Parents
  BY <1>1, MenusConstants DEF Parents, Exists
<1>4. QED
  BY <1>1, <1>2, <1>3 DEF MenuInit, MenuIInv, MenuTypeOK, Knows, Sure

----------------------------------------------------------------------------
(* What a write leaves *)

\* A row that the request of item i may leave.
Legal(row) ==
    /\ row \in Rows /\ row.menu \in MenuLocations
    /\ row.parent \in Items => Exists(row.parent)

LEMMA PutCalls ==
    ASSUME MenuIInv, NEW r \in Callers, NEW row, Put(r, row), Id(r) \in Items
    PROVE  /\ call' \in [Callers -> Calls]
           /\ At(r)' = "done"
           /\ \A q \in Callers \ {r} :
                 /\ At(q)' = At(q) /\ Id(q)' = Id(q) /\ In(q)' = In(q)
                 /\ call[q].gone \subseteq call'[q].gone
                 /\ At(q) \notin {"idle", "done"} /\ ~row.active => Id(r) \in call'[q].gone
<1>1. \A q \in Callers : call[q] \in Calls
  BY DEF MenuIInv, MenuTypeOK
<1>2. Fresh("done") \in Calls /\ Fresh("done").at = "done"
  BY NoRowFacts
<1>3. \A q \in Callers : LET g == [call[q] EXCEPT !.gone = @ \cup {Id(r)}]
                         IN /\ g \in Calls /\ g.at = call[q].at /\ g.id = call[q].id /\ g.in = call[q].in
                            /\ g.gone = call[q].gone \cup {Id(r)}
  BY <1>1 DEF Calls
<1>4. \A q \in Callers : call'[q] =
           IF q = r THEN Fresh("done")
           ELSE IF row.active \/ At(q) \in {"idle", "done"} THEN call[q]
           ELSE [call[q] EXCEPT !.gone = @ \cup {Id(r)}]
  BY DEF Put
<1>5. call' \in [Callers -> Calls]
  <2>1. \A q \in Callers : call'[q] \in Calls
    BY <1>1, <1>2, <1>3, <1>4
  <2>2. QED
    BY <2>1 DEF Put
<1>6. At(r)' = "done"
  BY <1>2, <1>4 DEF At
<1>7. QED
  BY <1>3, <1>4, <1>5, <1>6 DEF At, Id, In

LEMMA PutStep ==
    ASSUME MenuIInv, NEW r \in Callers, NEW row, Put(r, row), Legal(row), Id(r) \in Items,
           UNCHANGED menus, turned' \in BOOLEAN
    PROVE  MenuIInv'
<1> DEFINE i == Id(r)
<1>1. /\ items' \in [Items -> Rows] /\ items'[i] = row
      /\ \A j \in Items \ {i} : items'[j] = items[j]
  BY DEF Put, Legal, MenuIInv, MenuTypeOK
<1>2. row # NoRow
  BY NoRowFacts, MenusConstants DEF Legal
<1>3. \A j \in Items : Exists(j) => Exists(j)'
  BY <1>1, <1>2 DEF Exists
<1>4. MenuTypeOK'
  BY <1>1, PutCalls DEF Put, MenuIInv, MenuTypeOK
<1>5. Parents'
  <2>1. ASSUME NEW j \in Items, items'[j].parent \in Items PROVE Exists(items'[j].parent)
    BY <1>1, <2>1 DEF Legal, MenuIInv, Parents
  <2>2. \A j \in Items : items'[j].parent \in Items => items'[items'[j].parent] # NoRow
    BY <1>3, <2>1 DEF Exists
  <2>3. QED
    BY <2>2 DEF Parents, Exists
<1>6. ASSUME NEW q \in Callers PROVE Knows(q)' /\ Sure(q)'
  <2>1. CASE q = r
    BY <2>1, PutCalls DEF Knows, Sure
  <2>2. CASE q # r
    <3>1. /\ At(q)' = At(q) /\ Id(q)' = Id(q) /\ In(q)' = In(q)
          /\ call[q].gone \subseteq call'[q].gone
          /\ At(q) \notin {"idle", "done"} /\ ~row.active => i \in call'[q].gone
      BY <2>2, PutCalls
    <3>2. Knows(q) /\ Sure(q)
      BY DEF MenuIInv
    <3>3. At(q) \in {"update", "delete"} => Id(q) \in Items
      BY <3>2 DEF Knows
    <3>4. Knows(q)'
      BY <1>1, <3>1, <3>2, <3>3 DEF Knows, Legal
    <3>5. Sure(q)'
      BY <1>1, <3>1, <3>2, <3>3 DEF Sure
    <3>6. QED
      BY <3>4, <3>5
  <2>3. QED
    BY <2>1, <2>2
<1>7. QED
  BY <1>4, <1>5, <1>6 DEF MenuIInv

LEMMA MergedFacts ==
    ASSUME NEW row \in Rows, NEW d \in Inputs
    PROVE  /\ Merged(row, d) \in Rows /\ Merged(row, d).menu = d.menu /\ d.menu \in MenuLocations
           /\ Merged(row, d).parent = IF d.parent = "keep" THEN row.parent ELSE d.parent
  BY DEF Merged, Rows, Inputs

LEMMA InsertLegal ==
    ASSUME MenuIInv, NEW d \in Inputs, Fits(d)
    PROVE  Legal(Merged([NoRow EXCEPT !.active = TRUE], d))
<1>1. [NoRow EXCEPT !.active = TRUE] \in Rows /\ [NoRow EXCEPT !.active = TRUE].parent = NoItem
  BY DEF NoRow, Rows, Rules
<1>2. QED
  BY <1>1, MergedFacts, MenusConstants DEF Legal, Fits, Exists

LEMMA WriteLegal ==
    ASSUME MenuIInv, NEW i \in Items, NEW d \in Inputs, Fits(d)
    PROVE  Legal(Merged(items[i], d))
<1>1. items[i] \in Rows /\ (items[i].parent \in Items => Exists(items[i].parent))
  BY DEF MenuIInv, MenuTypeOK, Parents
<1>2. QED
  BY <1>1, MergedFacts DEF Legal, Fits, Exists

LEMMA RemoveLegal ==
    ASSUME MenuIInv, NEW i \in Items, items[i].menu \in MenuLocations
    PROVE  /\ Legal([items[i] EXCEPT !.active = FALSE])
           /\ [items[i] EXCEPT !.active = FALSE].parent = items[i].parent
  BY DEF MenuIInv, MenuTypeOK, Parents, Legal, Rows

----------------------------------------------------------------------------
(* The steps that write no item *)

LEMMA QuietStep ==
    ASSUME MenuIInv, NEW r \in Callers, NEW c \in Calls, call' = [call EXCEPT ![r] = c],
           UNCHANGED <<items, stale, turned>>, menus' \subseteq MenuLocations, Knows(r)', Sure(r)'
    PROVE  MenuIInv'
<1>1. call' \in [Callers -> Calls] /\ \A q \in Callers \ {r} : call'[q] = call[q]
  BY DEF MenuIInv, MenuTypeOK
<1>2. MenuTypeOK' /\ Parents'
  BY <1>1 DEF MenuIInv, MenuTypeOK, Parents, Exists
<1>3. \A q \in Callers \ {r} : Knows(q)' /\ Sure(q)'
  BY <1>1 DEF MenuIInv, Knows, Sure, At, Id, In
<1>4. QED
  BY <1>2, <1>3 DEF MenuIInv

LEMMA EndStep ==
    ASSUME MenuIInv, NEW r \in Callers, End(r), UNCHANGED <<items, stale, turned>>, menus' \subseteq MenuLocations
    PROVE  MenuIInv'
<1>1. Fresh("done") \in Calls /\ Fresh("done").at = "done"
  BY NoRowFacts
<1>2. call' = [call EXCEPT ![r] = Fresh("done")] /\ call'[r] = Fresh("done")
  BY DEF End, MenuIInv, MenuTypeOK
<1>3. Knows(r)' /\ Sure(r)'
  BY <1>1, <1>2 DEF Knows, Sure, At
<1>4. QED
  BY <1>1, <1>2, <1>3, QuietStep

LEMMA BeginStep ==
    ASSUME MenuIInv, NEW r \in Callers, NEW l \in {"menu", "insert", "update", "delete"},
           NEW i \in Items \cup {NoItem}, NEW d, Begin(r, l, i, d), d.menu \in MenuLocations,
           [at |-> l, id |-> i, in |-> d, gone |-> {}] \in Calls,
           l # "menu" => i \in Items,
           l \in {"insert", "update"} => d \in Inputs,
           l \in {"update", "delete"} => FindItem(d.menu, i)
    PROVE  MenuIInv'
<1> DEFINE c == [at |-> l, id |-> i, in |-> d, gone |-> {}]
<1>1. call' = [call EXCEPT ![r] = c] /\ call'[r] = c /\ UNCHANGED <<menus, items, stale, turned>>
  BY DEF Begin, MenuIInv, MenuTypeOK
<1>2. At(r)' = l /\ Id(r)' = i /\ In(r)' = d
  BY <1>1 DEF At, Id, In
<1>3. l \in {"update", "delete"} => items[i].menu \in MenuLocations /\ items[i].active
  BY DEF FindItem, ItemsOf
<1>4. Knows(r)' /\ Sure(r)'
  BY <1>1, <1>2, <1>3 DEF Knows, Sure
<1>5. menus' \subseteq MenuLocations
  BY <1>1 DEF MenuIInv, MenuTypeOK
<1> HIDE DEF c
<1>6. QED
  BY <1>1, <1>4, <1>5, QuietStep DEF c

\* The bodies that a menu's creation and an item's deletion carry.
LEMMA PlaceFacts ==
    ASSUME NEW m \in MenuLocations
    PROVE  LET d == [NoInput EXCEPT !.menu = m]
           IN /\ d.menu = m
              /\ \A l \in {"menu", "delete"}, i \in Items \cup {NoItem} :
                    [at |-> l, id |-> i, in |-> d, gone |-> {}] \in Calls
  BY DEF NoInput, Calls

LEMMA StartStep ==
    ASSUME MenuIInv, NEW r \in Callers, Start(r)
    PROVE  MenuIInv'
<1>1. ASSUME NEW l \in MenuLocations, CreateMenu(r, l) PROVE MenuIInv'
  <2> DEFINE d == [NoInput EXCEPT !.menu = l]
  <2>1. d.menu = l /\ [at |-> "menu", id |-> NoItem, in |-> d, gone |-> {}] \in Calls
    BY PlaceFacts
  <2>2. Begin(r, "menu", NoItem, d)
    BY <1>1 DEF CreateMenu
  <2> HIDE DEF d
  <2>3. QED
    BY <2>1, <2>2, BeginStep
<1>2. ASSUME NEW i \in Items, NEW d \in Edits, NEW l \in {"insert", "update"}, Begin(r, l, i, d),
             l = "update" => FindItem(d.menu, i)
      PROVE  MenuIInv'
  <2>1. d \in Inputs /\ d.menu \in MenuLocations
    BY MenusConstants DEF Inputs
  <2>2. [at |-> l, id |-> i, in |-> d, gone |-> {}] \in Calls
    BY <2>1 DEF Calls
  <2>3. QED
    BY <1>2, <2>1, <2>2, BeginStep
<1>3. ASSUME NEW i \in Items, NEW m \in MenuLocations, DeleteItem(r, i, m) PROVE MenuIInv'
  <2> DEFINE d == [NoInput EXCEPT !.menu = m]
  <2>1. d.menu = m /\ [at |-> "delete", id |-> i, in |-> d, gone |-> {}] \in Calls
    BY PlaceFacts
  <2>2. Begin(r, "delete", i, d) /\ FindItem(d.menu, i)
    BY <1>3, <2>1 DEF DeleteItem
  <2> HIDE DEF d
  <2>3. QED
    BY <2>1, <2>2, BeginStep
<1>4. QED
  BY <1>1, <1>2, <1>3 DEF Start, AddItem, UpdateItem

LEMMA MenuIInvStep == MenuIInv /\ [MenuNext]_menuVars => MenuIInv'
<1> SUFFICES ASSUME MenuIInv, [MenuNext]_menuVars PROVE MenuIInv'
  OBVIOUS
<1>1. CASE UNCHANGED menuVars
  BY <1>1 DEF menuVars, MenuIInv, MenuTypeOK, Parents, Knows, Sure, Exists, At, Id, In
<1>2. CASE MenuNext
  <2>1. PICK r \in Callers : Start(r) \/ Step(r)
    BY <1>2 DEF MenuNext
  <2>2. Knows(r) /\ menus \subseteq MenuLocations /\ turned \in BOOLEAN
    BY DEF MenuIInv, MenuTypeOK
  <2>3. CASE InsertMenu(r)
    BY <2>2, <2>3, EndStep DEF InsertMenu, Knows
  <2>4. CASE InsertItem(r)
    <3>1. CASE items[Id(r)] = NoRow /\ Fits(In(r))
      <4> DEFINE row == Merged([NoRow EXCEPT !.active = TRUE], In(r))
      <4>1. Put(r, row) /\ UNCHANGED menus /\ turned' \in BOOLEAN
        BY <2>2, <2>4, <3>1 DEF InsertItem
      <4>2. Id(r) \in Items /\ In(r) \in Inputs /\ Fits(In(r))
        BY <2>2, <2>4, <3>1 DEF InsertItem, Knows
      <4>3. Legal(row)
        BY <4>2, InsertLegal
      <4> HIDE DEF row
      <4>4. QED
        BY <4>1, <4>2, <4>3, PutStep
    <3>2. CASE ~(items[Id(r)] = NoRow /\ Fits(In(r)))
      BY <2>2, <2>4, <3>2, EndStep DEF InsertItem
    <3>3. QED
      BY <3>1, <3>2
  <2>5. CASE WriteItem(r)
    <3>1. CASE Fits(In(r))
      <4>1. /\ Put(r, Merged(items[Id(r)], In(r))) /\ UNCHANGED menus
            /\ turned' \in BOOLEAN
        BY <2>2, <2>5, <3>1 DEF WriteItem
      <4>2. Id(r) \in Items /\ Legal(Merged(items[Id(r)], In(r)))
        BY <2>2, <2>5, <3>1, WriteLegal DEF WriteItem, Knows
      <4>3. QED
        BY <4>1, <4>2, PutStep
    <3>2. CASE ~Fits(In(r))
      BY <2>2, <2>5, <3>2, EndStep DEF WriteItem
    <3>3. QED
      BY <3>1, <3>2
  <2>6. CASE RemoveItem(r)
    BY <2>2, <2>6, PutStep, RemoveLegal DEF RemoveItem, Knows
  <2>7. CASE Fail(r)
    BY <2>2, <2>7, EndStep DEF Fail
  <2>8. QED
    BY <2>1, <2>3, <2>4, <2>5, <2>6, <2>7, StartStep DEF Step
<1>3. QED
  BY <1>1, <1>2

LEMMA MenuInvariant == MenuSpec => []MenuIInv
  BY MenuIInvInit, MenuIInvStep, PTL DEF MenuSpec

(* Menus, items and requests keep their types, in every interleaving. *)
THEOREM MenuTypeCorrect == MenuSpec => []MenuTypeOK
<1>1. MenuIInv => MenuTypeOK
  BY DEF MenuIInv
<1>2. QED
  BY <1>1, MenuInvariant, PTL

----------------------------------------------------------------------------
(* Deleted items *)

(* A deleted item is left as it is, until one is written by a request that had found it before its deletion. *)
THEOREM DeletedStays == MenuSpec => DeletedStaysUnlessStale
<1>1. ASSUME MenuIInv, [MenuNext]_menuVars
      PROVE  [stale' \/ \A i \in Items : items[i] # NoRow /\ ~items[i].active => items'[i] = items[i]]_items
  <2>1. ASSUME NEW r \in Callers, Step(r), items' # items
        PROVE  \E row : Put(r, row) /\ (items[Id(r)] = NoRow \/ At(r) \in {"update", "delete"})
    BY <2>1 DEF Step, InsertMenu, InsertItem, WriteItem, RemoveItem, Fail
  <2>2. ASSUME NEW r \in Callers, NEW row, Put(r, row), ~stale',
               items[Id(r)] = NoRow \/ At(r) \in {"update", "delete"},
               NEW i \in Items, items[i] # NoRow, ~items[i].active
        PROVE  items'[i] = items[i]
    <3>1. items' = [items EXCEPT ![Id(r)] = row] /\ Id(r) \notin call[r].gone
      BY <2>2 DEF Put
    <3>2. At(r) \in {"update", "delete"} => items[Id(r)].active
      BY <1>1, <3>1 DEF MenuIInv, Sure
    <3>3. i # Id(r)
      BY <2>2, <3>2
    <3>4. QED
      BY <1>1, <2>2, <3>1, <3>3 DEF MenuIInv, MenuTypeOK
  <2>3. ASSUME NEW r \in Callers, Start(r) PROVE UNCHANGED items
    BY <2>3 DEF Start, CreateMenu, AddItem, UpdateItem, DeleteItem, Begin
  <2>4. QED
    BY <1>1, <2>1, <2>2, <2>3 DEF MenuNext, menuVars
<1>2. QED
  BY <1>1, MenuInvariant, PTL DEF MenuSpec, DeletedStaysUnlessStale

----------------------------------------------------------------------------
(* What readers are shown *)

\* A write keeps the parent, or makes an item that was none, or moves an item to a
\* parent that is not below it, or to none.
LEMMA AcyclicPut ==
    ASSUME MenuIInv, Acyclic, NEW r \in Callers, Id(r) \in Items, NEW row, Put(r, row),
           \/ row.parent = items[Id(r)].parent \/ row.parent \notin Items
           \/ items[Id(r)] = NoRow /\ Exists(row.parent)
           \/ row.parent \in Items /\ ~Under(Id(r), row.parent)
    PROVE  Acyclic'
<1> DEFINE i == Id(r)
           p == row.parent
<1>1. items'[i] = row /\ \A j \in Items \ {i} : items'[j] = items[j]
  BY DEF Put, MenuIInv, MenuTypeOK
<1>2. SUFFICES ASSUME NEW C \in (SUBSET Items) \ {{}}, \A c \in C : items'[c].parent \in C PROVE FALSE
  BY DEF Acyclic
<1>3. \A c \in C \ {i} : items[c].parent \in C
  BY <1>1, <1>2
<1>4. CASE i \notin C \/ p = items[i].parent
  <2>1. \A c \in C : items[c].parent \in C
    BY <1>1, <1>2, <1>3, <1>4
  <2>2. QED
    BY <2>1 DEF Acyclic
<1>5. CASE i \in C /\ p \notin Items
  BY <1>1, <1>2, <1>5
<1>6. CASE i \in C /\ items[i] = NoRow /\ Exists(p)
  <2> DEFINE V == C \ {i}
  <2>1. p \in V
    BY <1>1, <1>2, <1>6 DEF Exists
  <2>2. \A c \in V : items[c].parent \in V
    BY <1>3, <1>6 DEF MenuIInv, Parents, Exists
  <2>3. V \in (SUBSET Items) \ {{}}
    BY <2>1
  <2>4. QED
    BY <2>2, <2>3 DEF Acyclic
<1>7. CASE i \in C /\ p \in Items /\ ~Under(i, p)
  <2>1. PICK U \in SUBSET Items : i \in U /\ p \notin U /\ \A c \in Items : items[c].parent \in U => c \in U
    BY <1>7 DEF Under
  <2> DEFINE V == C \ U
  <2>2. p \in V
    BY <1>1, <1>2, <1>7, <2>1
  <2>3. \A c \in V : items[c].parent \in V
    BY <1>3, <2>1
  <2>4. V \in (SUBSET Items) \ {{}}
    BY <2>2
  <2>5. QED
    BY <2>3, <2>4 DEF Acyclic
<1>8. QED
  BY <1>4, <1>5, <1>6, <1>7

AcyclicUnlessTurned == turned \/ Acyclic

LEMMA AcyclicStep == MenuIInv /\ AcyclicUnlessTurned /\ [MenuNext]_menuVars => AcyclicUnlessTurned'
<1> SUFFICES ASSUME MenuIInv, AcyclicUnlessTurned, [MenuNext]_menuVars, ~turned' PROVE Acyclic'
  BY DEF AcyclicUnlessTurned
<1>1. CASE UNCHANGED <<items, turned>>
  BY <1>1 DEF AcyclicUnlessTurned, Acyclic
<1>2. ASSUME NEW r \in Callers, InsertItem(r), ~UNCHANGED <<items, turned>> PROVE Acyclic'
  <2> DEFINE row == Merged([NoRow EXCEPT !.active = TRUE], In(r))
  <2>1. Put(r, row) /\ items[Id(r)] = NoRow /\ Fits(In(r)) /\ ~turned
    BY <1>2 DEF InsertItem
  <2>2. Acyclic /\ Id(r) \in Items /\ In(r) \in Inputs
    BY <1>2, <2>1 DEF AcyclicUnlessTurned, InsertItem, MenuIInv, Knows
  <2>3. row.parent \in Items => Exists(row.parent)
    BY <2>1, <2>2, InsertLegal DEF Legal
  <2> HIDE DEF row
  <2>4. QED
    BY <2>1, <2>2, <2>3, AcyclicPut
<1>3. ASSUME NEW r \in Callers, WriteItem(r), ~UNCHANGED <<items, turned>> PROVE Acyclic'
  <2> DEFINE row == Merged(items[Id(r)], In(r))
  <2>1. /\ Put(r, row) /\ ~turned
        /\ In(r).parent \in Items => ~Under(Id(r), In(r).parent)
    BY <1>3 DEF WriteItem, MenuIInv, MenuTypeOK
  <2>2. Acyclic /\ Id(r) \in Items /\ In(r) \in Inputs /\ items[Id(r)] \in Rows
    BY <1>3, <2>1 DEF AcyclicUnlessTurned, WriteItem, MenuIInv, MenuTypeOK, Knows
  <2>3. row.parent = IF In(r).parent = "keep" THEN items[Id(r)].parent ELSE In(r).parent
    BY <2>2, MergedFacts
  <2> HIDE DEF row
  <2>4. QED
    BY <2>1, <2>2, <2>3, AcyclicPut
<1>4. ASSUME NEW r \in Callers, RemoveItem(r) PROVE Acyclic'
  <2> DEFINE row == [items[Id(r)] EXCEPT !.active = FALSE]
  <2>1. Put(r, row) /\ ~turned
    BY <1>4 DEF RemoveItem
  <2>2. Acyclic /\ Id(r) \in Items /\ items[Id(r)].menu \in MenuLocations
    BY <1>4, <2>1 DEF AcyclicUnlessTurned, RemoveItem, MenuIInv, Knows
  <2>3. row.parent = items[Id(r)].parent
    BY <2>2, RemoveLegal
  <2> HIDE DEF row
  <2>4. QED
    BY <2>1, <2>2, <2>3, AcyclicPut
<1>5. QED
  BY <1>1, <1>2, <1>3, <1>4
     DEF MenuNext, Start, Step, menuVars, Begin, CreateMenu, AddItem, UpdateItem, DeleteItem, InsertMenu, Fail

\* Where no parents make a cycle, every item that passes the filter hangs from a root.
LEMMA AcyclicShows ==
    ASSUME Acyclic, NEW m, NEW u
    PROVE  Tree(m, u) = Filtered(m, u)
<1> DEFINE F == Filtered(m, u)
<1>1. F \subseteq Items /\ RootItems(m, u) = {i \in F : items[i].parent \notin F}
  BY DEF Filtered, ItemsOf, RootItems
<1>2. Tree(m, u) = {i \in F : \A U \in SUBSET F :
          RootItems(m, u) \subseteq U /\ (\A c \in F : items[c].parent \in U => c \in U) => i \in U}
  BY DEF Tree
<1> HIDE DEF F
<1>3. ASSUME NEW i \in F, NEW U \in SUBSET F, RootItems(m, u) \subseteq U,
             \A c \in F : items[c].parent \in U => c \in U
      PROVE  i \in U
  <2> DEFINE W == F \ U
  <2>1. \A w \in W : items[w].parent \in W
    BY <1>1, <1>3
  <2>2. W = {}
    BY <1>1, <2>1 DEF Acyclic
  <2>3. QED
    BY <2>2
<1>4. Tree(m, u) = F
  BY <1>2, <1>3
<1>5. QED
  BY <1>4 DEF F

(* Until an item is put below itself, every reader gets each item that the rules let them see, whatever *)
(* became of its parent.                                                                                *)
THEOREM Shown == MenuSpec => []ShownUnlessTurned
<1>1. MenuInit => AcyclicUnlessTurned
  BY MenusConstants DEF MenuInit, AcyclicUnlessTurned, Acyclic
<1>2. AcyclicUnlessTurned => ShownUnlessTurned
  BY AcyclicShows DEF AcyclicUnlessTurned, ShownUnlessTurned
<1>3. QED
  BY <1>1, <1>2, AcyclicStep, MenuInvariant, PTL DEF MenuSpec

----------------------------------------------------------------------------
(* Attachments. *)

HomeMedia == {m.id : m \in {m \in Library : m.center = Home}}

\* A job is there once its request is done, and has attempts and stalls left while
\* it can still run.
Left(r) ==
    /\ doing[r] # "done" => job[r].state = "none"
    /\ job[r].state \in {"none", "waiting", "active"} => job[r].tries < Attempts /\ job[r].stalls <= Stalls

\* A worker that no other has disturbed has read what is still attached.
ReadsLast(w) ==
    /\ run[w].found \subseteq HomeMedia
    /\ run[w].at = "commit" /\ w \notin disturbed => run[w].current = attached

Busy(w) == run[w].at \in {"attachments", "commit"}

\* The worker has yet to read the text, or has read the one that is stored.
Reads(w) == run[w].at = "post" \/ (Busy(w) /\ run[w].found = Found(text))

\* Somebody is still to attach the media of the text.
Due(r) ==
    \/ doing[r] = "queue" \/ job[r].state = "waiting"
    \/ job[r].state = "active" /\ \A w \in Workers : run[w].job = r /\ Owns(w) => Reads(w)

\* Nobody undisturbed is about to attach anything else.
Settled ==
    attached = Found(text) /\ \A w \in Workers : Busy(w) => run[w].found = Found(text) \/ w \in disturbed

SyncIInv ==
    /\ SyncTypeOK
    /\ \A r \in Editors : Left(r)
    /\ \A w \in Workers : ReadsLast(w)
    /\ lost \/ overlapped \/ Settled \/ \E r \in Editors : Due(r)

LEMMA NoneFacts ==
    /\ NoJob \in Jobs /\ NoJob.state = "none" /\ NoJob.tries = 0 /\ NoJob.stalls = 0
    /\ Idle \in Runs /\ Idle.at = "idle" /\ Idle.job = Nobody /\ Idle.found = {} /\ Idle.current = {}
  BY MediaSyncConstants DEF NoJob, Jobs, JobStates, Idle, Runs

LEMMA FoundFacts == \A t : Found(t) \subseteq HomeMedia /\ HomeMedia \subseteq MediaIds
  BY DEF Found, HomeMedia, MediaIds

LEMMA SyncIInvInit == SyncInit => SyncIInv
<1> SUFFICES ASSUME SyncInit PROVE SyncIInv
  OBVIOUS
<1>1. (\A r \in Editors : job[r] = NoJob) /\ (\A w \in Workers : run[w] = Idle)
  BY DEF SyncInit
<1>2. SyncTypeOK
  BY NoneFacts, MediaSyncConstants DEF SyncInit, SyncTypeOK
<1>3. (\A r \in Editors : Left(r)) /\ (\A w \in Workers : ReadsLast(w))
  BY <1>1, NoneFacts, MediaSyncConstants DEF Left, ReadsLast
<1>4. Settled
  <2>1. Found({}) = {}
    BY DEF Found, MediaKeys
  <2>2. QED
    BY <1>1, <2>1, NoneFacts DEF SyncInit, Settled, Busy
<1>5. QED
  BY <1>2, <1>3, <1>4 DEF SyncIInv

----------------------------------------------------------------------------
(* Steps that change one job, one run, or both *)

\* The job of r becomes one of state s, of worker v.
JobBecomes(r, s, v, t, l) ==
    /\ job' \in [Editors -> Jobs] /\ \A q \in Editors \ {r} : job'[q] = job[q]
    /\ job'[r].state = s /\ job'[r].by = v /\ job'[r].tries = t /\ job'[r].stalls = l

LEMMA JobStep ==
    ASSUME SyncTypeOK, NEW r \in Editors, NEW row \in Jobs, job' = [job EXCEPT ![r] = row]
    PROVE  JobBecomes(r, row.state, row.by, row.tries, row.stalls)
  BY DEF SyncTypeOK, JobBecomes

LEMMA LeftStays ==
    ASSUME SyncIInv, NEW r \in Editors, \A q \in Editors \ {r} : job'[q] = job[q] /\ doing'[q] = doing[q], Left(r)'
    PROVE  \A q \in Editors : Left(q)'
  BY DEF SyncIInv, Left

LEMMA RequestStep ==
    ASSUME SyncIInv, NEW r \in Editors, Request(r)
    PROVE  SyncIInv'
<1>1. SyncTypeOK /\ Left(r)
  BY DEF SyncIInv
<1>2. CASE Store(r)
  <2>1. SyncTypeOK'
    BY <1>1, <1>2 DEF Store, SyncTypeOK
  <2>2. Due(r)'
    BY <1>1, <1>2 DEF Store, SyncTypeOK, Due
  <2>3. /\ job' = job /\ doing'[r] = "queue" /\ \A q \in Editors \ {r} : doing'[q] = doing[q]
        /\ doing[r] = "idle" /\ \A w \in Workers : ReadsLast(w)'
    BY <1>1, <1>2 DEF SyncIInv, SyncTypeOK, Store, ReadsLast
  <2>4. Left(r)'
    BY <1>1, <2>3 DEF Left
  <2>5. QED
    BY <2>1, <2>2, <2>3, <2>4, LeftStays DEF SyncIInv
<1>3. CASE Queue(r)
  <2> DEFINE row == [job[r] EXCEPT !.state = "waiting"]
  <2>1. row \in Jobs /\ row.state = "waiting" /\ row.tries = job[r].tries /\ row.stalls = job[r].stalls
    BY <1>1 DEF SyncTypeOK, Jobs, JobStates
  <2>2. /\ job' = [job EXCEPT ![r] = row] /\ doing[r] = "queue" /\ doing' = [doing EXCEPT ![r] = "done"]
        /\ UNCHANGED <<text, attached, run, lost, disturbed, overlapped>>
    BY <1>3 DEF Queue
  <2> HIDE DEF row
  <2>3. JobBecomes(r, "waiting", row.by, job[r].tries, job[r].stalls)
    BY <1>1, <2>1, <2>2, JobStep
  <2>4. SyncTypeOK'
    BY <1>1, <2>2, <2>3 DEF SyncTypeOK, JobBecomes
  <2>5. Left(r)' /\ Due(r)' /\ \A q \in Editors \ {r} : job'[q] = job[q] /\ doing'[q] = doing[q]
    BY <1>1, <2>2, <2>3 DEF SyncTypeOK, JobBecomes, Left, Due
  <2>6. \A w \in Workers : ReadsLast(w)'
    BY <2>2 DEF SyncIInv, ReadsLast
  <2>7. QED
    BY <2>4, <2>5, <2>6, LeftStays DEF SyncIInv
<1>4. CASE Break(r)
  <2>1. SyncTypeOK'
    BY <1>1, <1>4 DEF Break, SyncTypeOK
  <2>2. lost' /\ \A w \in Workers : ReadsLast(w)'
    BY <1>4 DEF SyncIInv, Break, ReadsLast
  <2>3. job' = job /\ doing'[r] = "done" /\ \A q \in Editors \ {r} : doing'[q] = doing[q]
    BY <1>1, <1>4 DEF SyncTypeOK, Break
  <2>4. Left(r)'
    BY <1>1, <2>3 DEF Left
  <2>5. QED
    BY <2>1, <2>2, <2>3, <2>4, LeftStays DEF SyncIInv
<1>5. CASE StoreNothing(r)
  <2>1. SyncTypeOK'
    BY <1>1, <1>5, MediaSyncConstants DEF StoreNothing, SyncTypeOK
  <2>2. lost' /\ \A w \in Workers : ReadsLast(w)'
    BY <1>5 DEF SyncIInv, StoreNothing, ReadsLast
  <2>3. job' = job /\ doing[r] = "idle" /\ \A q \in Editors \ {r} : doing'[q] = doing[q]
    BY <1>1, <1>5 DEF SyncTypeOK, StoreNothing
  <2>4. Left(r)'
    BY <1>1, <2>3 DEF Left
  <2>5. QED
    BY <2>1, <2>2, <2>3, <2>4, LeftStays DEF SyncIInv
<1>6. QED
  BY <1>2, <1>3, <1>4, <1>5 DEF Request

LEMMA StallStep ==
    ASSUME SyncIInv, NEW r \in Editors, Stall(r)
    PROVE  SyncIInv'
<1> DEFINE last == job[r].stalls >= Stalls
           to == IF last THEN "failed" ELSE "waiting"
           row == [job[r] EXCEPT !.state = to, !.by = Nobody, !.stalls = job[r].stalls + 1]
<1>1. SyncTypeOK /\ Left(r) /\ job[r] \in Jobs /\ job[r].state = "active"
  BY DEF SyncIInv, SyncTypeOK, Stall
<1>2. /\ job[r].tries < Attempts /\ job[r].stalls <= Stalls /\ job[r].stalls + 1 \in 0..(Stalls + 1) /\ doing[r] = "done"
      /\ to \in JobStates
  BY <1>1, MediaSyncConstants DEF Left, Jobs, JobStates
<1>3. job' = [job EXCEPT ![r] = row] /\ lost' = (lost \/ last) /\ UNCHANGED <<text, attached, doing, run, disturbed, overlapped>>
  BY <1>1 DEF Stall, SyncTypeOK
<1>4. row \in Jobs /\ row.state = to /\ row.tries = job[r].tries /\ row.stalls = job[r].stalls + 1
  BY <1>1, <1>2 DEF Jobs
<1> HIDE DEF row
<1>5. JobBecomes(r, to, row.by, job[r].tries, job[r].stalls + 1)
  BY <1>1, <1>3, <1>4, JobStep
<1>6. SyncTypeOK'
  BY <1>1, <1>3, <1>5 DEF SyncTypeOK, JobBecomes
<1>7. Left(r)'
  BY <1>1, <1>2, <1>3, <1>5, MediaSyncConstants DEF JobBecomes, Left, Jobs
<1>8. \A q \in Editors : Left(q)'
  BY <1>3, <1>5, <1>7, LeftStays DEF JobBecomes
<1>9. \A w \in Workers : ReadsLast(w)'
  BY <1>3 DEF SyncIInv, ReadsLast
<1>10. lost' \/ Due(r)'
  BY <1>3, <1>5 DEF JobBecomes, Due
<1>11. QED
  BY <1>6, <1>8, <1>9, <1>10 DEF SyncIInv

\* A worker leaves its run, and at most the job it owns is no longer active.
LEMMA LeaveFacts ==
    ASSUME SyncTypeOK, NEW w \in Workers, Leave(w)
    PROVE  run' \in [Workers -> Runs] /\ run'[w] = Idle /\ \A v \in Workers \ {w} : run'[v] = run[v]
  BY NoneFacts DEF SyncTypeOK, Leave

\* Who leaves without a word takes nothing with it but a run that had not ended.
LEMMA SilentLeave ==
    ASSUME SyncIInv, NEW w \in Workers, Leave(w), UNCHANGED <<text, attached, doing, job, lost, disturbed, overlapped>>
    PROVE  SyncIInv'
<1>1. run' \in [Workers -> Runs] /\ run'[w] = Idle /\ \A v \in Workers \ {w} : run'[v] = run[v]
  BY LeaveFacts DEF SyncIInv
<1>2. SyncTypeOK' /\ \A r \in Editors : Left(r)'
  BY <1>1 DEF SyncIInv, SyncTypeOK, Left
<1>3. \A v \in Workers : ReadsLast(v)'
  BY <1>1, NoneFacts DEF SyncIInv, ReadsLast
<1>4. ASSUME NEW r \in Editors, Due(r) PROVE Due(r)'
  BY <1>1, <1>4, NoneFacts, MediaSyncConstants DEF Due, Owns, Reads, Busy
<1>5. Settled => Settled'
  BY <1>1, NoneFacts DEF Settled, Busy
<1>6. QED
  BY <1>2, <1>3, <1>4, <1>5 DEF SyncIInv

\* Who leaves with a word has ended the run, or gives the job back, or up.
LEMMA OwnedLeave ==
    ASSUME SyncIInv, NEW w \in Workers, Leave(w), Owns(w), NEW r \in Editors, run[w].job = r,
           NEW s \in JobStates, NEW v, NEW t, NEW l, JobBecomes(r, s, v, t, l), Left(r)',
           UNCHANGED <<text, attached, doing, disturbed, overlapped>>, lost' \in BOOLEAN, lost => lost',
           s = "waiting" \/ lost' \/ run[w].at = "end"
    PROVE  SyncIInv'
<1>1. run' \in [Workers -> Runs] /\ run'[w] = Idle /\ \A x \in Workers \ {w} : run'[x] = run[x]
  BY LeaveFacts DEF SyncIInv
<1>2. SyncTypeOK'
  BY <1>1 DEF SyncIInv, SyncTypeOK, JobBecomes
<1>3. \A q \in Editors : Left(q)'
  BY LeftStays DEF JobBecomes
<1>4. \A x \in Workers : ReadsLast(x)'
  BY <1>1, NoneFacts DEF SyncIInv, ReadsLast
<1>5. s = "waiting" => Due(r)'
  BY DEF JobBecomes, Due
<1>6. ASSUME run[w].at = "end", NEW q \in Editors, Due(q) PROVE Due(q)'
  <2>1. q # r
    BY <1>6 DEF SyncIInv, Left, Due, Owns, Reads, Busy
  <2>2. QED
    BY <1>1, <1>6, <2>1, NoneFacts, MediaSyncConstants DEF Due, Owns, Reads, Busy, JobBecomes
<1>7. Settled => Settled'
  BY <1>1, NoneFacts DEF Settled, Busy
<1>8. QED
  BY <1>2, <1>3, <1>4, <1>5, <1>6, <1>7 DEF SyncIInv

LEMMA CompleteStep ==
    ASSUME SyncIInv, NEW w \in Workers, Complete(w)
    PROVE  SyncIInv'
<1>1. CASE Owns(w)
  <2>0. PICK r \in Editors : run[w].job = r
    BY <1>1 DEF Owns, SyncIInv, SyncTypeOK, Runs
  <2> DEFINE row == [job[r] EXCEPT !.state = "completed"]
  <2>1. run[w].job = r /\ job[r] \in Jobs /\ job[r].state = "active"
    BY <1>1, <2>0 DEF Owns, SyncIInv, SyncTypeOK
  <2>2. /\ job' = [job EXCEPT ![r] = row] /\ run[w].at = "end" /\ Leave(w)
        /\ UNCHANGED <<text, attached, doing, lost, disturbed, overlapped>>
    BY <1>1, <2>0 DEF Complete
  <2>3. row \in Jobs /\ row.state = "completed"
    BY <2>1 DEF Jobs, JobStates
  <2> HIDE DEF row
  <2>4. JobBecomes(r, "completed", row.by, row.tries, row.stalls)
    BY <2>1, <2>2, <2>3, JobStep DEF SyncIInv
  <2>5. Left(r)'
    BY <2>1, <2>2, <2>4 DEF SyncIInv, Left, JobBecomes
  <2>6. lost' \in BOOLEAN /\ (lost => lost') /\ "completed" \in JobStates
    BY <2>2 DEF SyncIInv, SyncTypeOK, JobStates
  <2>7. QED
    BY <1>1, <2>1, <2>2, <2>4, <2>5, <2>6, OwnedLeave
<1>2. CASE ~Owns(w)
  BY <1>2, SilentLeave DEF Complete
<1>3. QED
  BY <1>1, <1>2

LEMMA RejectStep ==
    ASSUME SyncIInv, NEW w \in Workers, Reject(w)
    PROVE  SyncIInv'
<1>1. CASE Owns(w)
  <2>0. PICK r \in Editors : run[w].job = r
    BY <1>1 DEF Owns, SyncIInv, SyncTypeOK, Runs
  <2> DEFINE last == job[r].tries + 1 >= Attempts
             to == IF last THEN "failed" ELSE "waiting"
             row == [job[r] EXCEPT !.state = to, !.by = Nobody, !.tries = job[r].tries + 1]
  <2>1. run[w].job = r /\ job[r] \in Jobs /\ job[r].state = "active" /\ Left(r)
    BY <1>1, <2>0 DEF Owns, SyncIInv, SyncTypeOK
  <2>2. /\ job[r].tries < Attempts /\ job[r].tries + 1 \in 0..Attempts /\ job[r].stalls <= Stalls
        /\ doing[r] = "done" /\ to \in JobStates
    BY <2>1, MediaSyncConstants DEF Left, Jobs, JobStates
  <2>3. /\ job' = [job EXCEPT ![r] = row] /\ lost' = (lost \/ last) /\ Leave(w)
        /\ UNCHANGED <<text, attached, doing, disturbed, overlapped>>
    BY <1>1, <2>1 DEF Reject, SyncIInv, SyncTypeOK
  <2>4. row \in Jobs /\ row.state = to /\ row.tries = job[r].tries + 1 /\ row.stalls = job[r].stalls
    BY <2>1, <2>2 DEF Jobs
  <2> HIDE DEF row
  <2>5. JobBecomes(r, to, row.by, job[r].tries + 1, job[r].stalls)
    BY <2>1, <2>3, <2>4, JobStep DEF SyncIInv
  <2>6. Left(r)'
    BY <2>1, <2>2, <2>3, <2>5, MediaSyncConstants DEF JobBecomes, Left, Jobs
  <2>7. lost' \in BOOLEAN /\ (lost => lost') /\ (to = "waiting" \/ lost')
    BY <2>3 DEF SyncIInv, SyncTypeOK
  <2> HIDE DEF to
  <2>8. QED
    BY <1>1, <2>1, <2>2, <2>3, <2>5, <2>6, <2>7, OwnedLeave
<1>2. CASE ~Owns(w)
  BY <1>2, SilentLeave DEF Reject
<1>3. QED
  BY <1>1, <1>2

----------------------------------------------------------------------------
(* A run goes on *)

\* The run of w becomes row.
LEMMA RunFacts ==
    ASSUME SyncTypeOK, NEW w \in Workers, NEW row \in Runs, run' = [run EXCEPT ![w] = row]
    PROVE  run' \in [Workers -> Runs] /\ run'[w] = row /\ \A v \in Workers \ {w} : run'[v] = run[v]
  BY DEF SyncTypeOK

LEMMA TakeStep ==
    ASSUME SyncIInv, NEW w \in Workers, NEW r \in Editors, Take(w, r)
    PROVE  SyncIInv'
<1> DEFINE row == [job[r] EXCEPT !.state = "active", !.by = w]
           next == [run[w] EXCEPT !.job = r, !.at = "post"]
<1>1. SyncTypeOK /\ Left(r) /\ job[r] \in Jobs /\ job[r].state = "waiting" /\ run[w] = Idle
  BY DEF SyncIInv, SyncTypeOK, Take
<1>2. /\ job' = [job EXCEPT ![r] = row] /\ run' = [run EXCEPT ![w] = next]
      /\ UNCHANGED <<text, attached, doing, lost, disturbed, overlapped>>
  BY <1>1 DEF Take, SyncTypeOK
<1>3. row \in Jobs /\ row.state = "active" /\ row.by = w /\ row.tries = job[r].tries /\ row.stalls = job[r].stalls
  BY <1>1 DEF Jobs, JobStates
<1>4. next \in Runs /\ next.job = r /\ next.at = "post" /\ next.found = {} /\ next.current = {}
  BY <1>1, NoneFacts DEF Runs
<1> HIDE DEF row, next
<1>5. JobBecomes(r, "active", w, job[r].tries, job[r].stalls)
  BY <1>1, <1>2, <1>3, JobStep
<1>6. run' \in [Workers -> Runs] /\ run'[w] = next /\ \A v \in Workers \ {w} : run'[v] = run[v]
  BY <1>1, <1>2, <1>4, RunFacts
<1>7. SyncTypeOK'
  BY <1>1, <1>2, <1>5, <1>6 DEF SyncTypeOK, JobBecomes
<1>8. \A q \in Editors : Left(q)'
  <2>1. Left(r)'
    BY <1>1, <1>2, <1>5 DEF Left, JobBecomes
  <2>2. QED
    BY <1>2, <1>5, <2>1, LeftStays DEF JobBecomes
<1>9. \A v \in Workers : ReadsLast(v)'
  BY <1>2, <1>4, <1>6 DEF SyncIInv, ReadsLast
<1>10. Due(r)'
  BY <1>4, <1>5, <1>6 DEF Due, JobBecomes, Owns, Reads
<1>11. QED
  BY <1>7, <1>8, <1>9, <1>10 DEF SyncIInv

LEMMA ReadStep ==
    ASSUME SyncIInv, NEW w \in Workers, ReadPost(w) \/ ReadAttachments(w)
    PROVE  SyncIInv'
<1>1. SyncTypeOK /\ run[w] \in Runs /\ UNCHANGED <<text, attached, doing, job, lost, overlapped>>
  BY DEF SyncIInv, SyncTypeOK, ReadPost, ReadAttachments
<1>2. \A r \in Editors : Left(r)'
  BY <1>1 DEF SyncIInv, Left
<1>3. CASE ReadPost(w)
  <2> DEFINE next == [run[w] EXCEPT !.found = Found(text), !.at = "attachments"]
  <2>1. run' = [run EXCEPT ![w] = next] /\ disturbed' = disturbed \ {w} /\ run[w].at = "post"
    BY <1>1, <1>3 DEF ReadPost, SyncTypeOK
  <2>2. Found(text) \subseteq HomeMedia /\ Found(text) \subseteq MediaIds
    BY FoundFacts
  <2>3. next \in Runs /\ next.job = run[w].job /\ next.at = "attachments" /\ next.found = Found(text)
    BY <1>1, <2>2 DEF Runs
  <2> HIDE DEF next
  <2>4. run' \in [Workers -> Runs] /\ run'[w] = next /\ \A v \in Workers \ {w} : run'[v] = run[v]
    BY <1>1, <2>1, <2>3, RunFacts
  <2>5. SyncTypeOK'
    BY <1>1, <2>1, <2>4 DEF SyncTypeOK
  <2>6. \A v \in Workers : ReadsLast(v)'
    BY <1>1, <2>1, <2>2, <2>3, <2>4 DEF SyncIInv, ReadsLast
  <2>7. ASSUME NEW r \in Editors, Due(r) PROVE Due(r)'
    BY <1>1, <2>1, <2>3, <2>4, <2>7 DEF Due, Owns, Reads, Busy
  <2>8. Settled => Settled'
    BY <1>1, <2>1, <2>3, <2>4 DEF Settled, Busy
  <2>9. QED
    BY <1>1, <1>2, <2>5, <2>6, <2>7, <2>8 DEF SyncIInv
<1>4. CASE ReadAttachments(w)
  <2> DEFINE next == [run[w] EXCEPT !.current = attached, !.at = "commit"]
  <2>1. run' = [run EXCEPT ![w] = next] /\ disturbed' = disturbed /\ run[w].at = "attachments"
    BY <1>1, <1>4 DEF ReadAttachments, SyncTypeOK
  <2>2. attached \subseteq MediaIds
    BY <1>1 DEF SyncTypeOK, MediaIds
  <2>3. /\ next \in Runs /\ next.job = run[w].job /\ next.at = "commit" /\ next.found = run[w].found
        /\ next.current = attached
    BY <1>1, <2>2 DEF Runs
  <2> HIDE DEF next
  <2>4. run' \in [Workers -> Runs] /\ run'[w] = next /\ \A v \in Workers \ {w} : run'[v] = run[v]
    BY <1>1, <2>1, <2>3, RunFacts
  <2>5. SyncTypeOK'
    BY <1>1, <2>1, <2>4 DEF SyncTypeOK
  <2>6. \A v \in Workers : ReadsLast(v)'
    BY <1>1, <2>1, <2>3, <2>4 DEF SyncIInv, ReadsLast
  <2>7. ASSUME NEW r \in Editors, Due(r) PROVE Due(r)'
    BY <1>1, <2>1, <2>3, <2>4, <2>7 DEF Due, Owns, Reads, Busy
  <2>8. Settled => Settled'
    BY <1>1, <2>1, <2>3, <2>4 DEF Settled, Busy
  <2>9. QED
    BY <1>1, <1>2, <2>5, <2>6, <2>7, <2>8 DEF SyncIInv
<1>5. QED
  BY <1>3, <1>4

LEMMA CommitStep ==
    ASSUME SyncIInv, NEW w \in Workers, CommitSync(w)
    PROVE  SyncIInv'
<1> DEFINE next == [Idle EXCEPT !.job = run[w].job, !.at = "end"]
<1>1. /\ SyncTypeOK /\ run[w] \in Runs /\ run[w].at = "commit" /\ ReadsLast(w)
      /\ run' = [run EXCEPT ![w] = next]
      /\ attached' = (attached \cup ToAdd(w)) \ ToRemove(w)
      /\ disturbed' = {v \in Workers \ {w} : Busy(v)} \cup (disturbed \ {w})
      /\ overlapped' = (overlapped \/ w \in disturbed)
      /\ UNCHANGED <<text, doing, job, lost>>
  BY DEF SyncIInv, SyncTypeOK, CommitSync, Busy
<1>2. next \in Runs /\ next.job = run[w].job /\ next.at = "end" /\ next.found = {} /\ next.current = {}
  BY <1>1, NoneFacts DEF Runs
<1> HIDE DEF next
<1>3. run' \in [Workers -> Runs] /\ run'[w] = next /\ \A v \in Workers \ {w} : run'[v] = run[v]
  BY <1>1, <1>2, RunFacts
<1>4. attached' \subseteq HomeMedia
  BY <1>1 DEF SyncTypeOK, HomeMedia, ReadsLast, ToAdd
<1>5. SyncTypeOK'
  BY <1>1, <1>3, <1>4 DEF SyncTypeOK, HomeMedia
<1>6. \A r \in Editors : Left(r)'
  BY <1>1 DEF SyncIInv, Left
<1>7. \A v \in Workers : ReadsLast(v)'
  <2>1. ReadsLast(w)'
    BY <1>2, <1>3 DEF ReadsLast
  <2>2. ASSUME NEW v \in Workers \ {w} PROVE ReadsLast(v)'
    BY <1>1, <1>3 DEF SyncIInv, ReadsLast, Busy
  <2>3. QED
    BY <2>1, <2>2
<1>8. w \notin disturbed => attached' = run[w].found
  BY <1>1 DEF ReadsLast, ToAdd, ToRemove
<1>9. CASE w \in disturbed
  BY <1>1, <1>5, <1>6, <1>7, <1>9 DEF SyncIInv
<1>10. CASE w \notin disturbed /\ run[w].found = Found(text)
  <2>1. Settled'
    BY <1>1, <1>2, <1>3, <1>8, <1>10 DEF Settled, Busy
  <2>2. QED
    BY <1>5, <1>6, <1>7, <2>1 DEF SyncIInv
<1>11. CASE w \notin disturbed /\ run[w].found # Found(text)
  <2>1. ~Settled
    BY <1>1, <1>11 DEF Settled, Busy
  <2>2. ASSUME NEW r \in Editors, Due(r) PROVE Due(r)'
    <3>1. ~Reads(w)
      BY <1>1, <1>11 DEF Reads
    <3>2. ASSUME NEW v \in Workers, run'[v].job = r, Owns(v)', ~(doing[r] = "queue" \/ job[r].state = "waiting")
          PROVE  Reads(v)'
      <4>1. run[v].job = r /\ Owns(v)
        BY <1>1, <1>2, <1>3, <3>2 DEF Owns
      <4>2. Reads(v)
        BY <2>2, <3>2, <4>1 DEF Due
      <4>3. v # w
        BY <3>1, <4>2
      <4>4. QED
        BY <1>1, <1>3, <4>2, <4>3 DEF Reads, Busy
    <3>3. QED
      BY <1>1, <2>2, <3>2 DEF Due
  <2>3. QED
    BY <1>1, <1>5, <1>6, <1>7, <2>1, <2>2 DEF SyncIInv
<1>12. QED
  BY <1>9, <1>10, <1>11

----------------------------------------------------------------------------
(* The invariant *)

LEMMA SyncIInvStep == SyncIInv /\ [SyncNext]_syncVars => SyncIInv'
<1> SUFFICES ASSUME SyncIInv, [SyncNext]_syncVars PROVE SyncIInv'
  OBVIOUS
<1>1. CASE UNCHANGED syncVars
  <2>1. SyncTypeOK' /\ (\A r \in Editors : Left(r)') /\ (\A w \in Workers : ReadsLast(w)')
    BY <1>1 DEF syncVars, SyncIInv, SyncTypeOK, Left, ReadsLast
  <2>2. \A r \in Editors : Due(r) => Due(r)'
    BY <1>1 DEF syncVars, Due, Owns, Reads, Busy
  <2>3. Settled => Settled'
    BY <1>1 DEF syncVars, Settled, Busy
  <2>4. QED
    BY <1>1, <2>1, <2>2, <2>3 DEF syncVars, SyncIInv
<1>2. ASSUME NEW w \in Workers, Work(w) \/ Crash(w) PROVE SyncIInv'
  <2>1. CASE ReadPost(w) \/ ReadAttachments(w)
    BY <2>1, ReadStep
  <2>2. CASE CommitSync(w)
    BY <2>2, CommitStep
  <2>3. CASE Complete(w)
    BY <2>3, CompleteStep
  <2>4. CASE Reject(w)
    BY <2>4, RejectStep
  <2>5. CASE Crash(w)
    BY <2>5, SilentLeave DEF Crash
  <2>6. QED
    BY <1>2, <2>1, <2>2, <2>3, <2>4, <2>5, TakeStep DEF Work
<1>3. QED
  BY <1>1, <1>2, RequestStep, StallStep DEF SyncNext

LEMMA SyncInvariant == SyncSpec => []SyncIInv
  BY SyncIInvInit, SyncIInvStep, PTL DEF SyncSpec

(* Jobs keep within their attempts and stalls, and only media of the post's own gaming center are ever *)
(* attached, in every interleaving.                                                                     *)
THEOREM SyncTypeCorrect == SyncSpec => []SyncTypeOK
<1>1. SyncIInv => SyncTypeOK
  BY DEF SyncIInv
<1>2. QED
  BY <1>1, SyncInvariant, PTL

(* Once nothing is under way the attached media are those of the text, unless a text had no job, or one *)
(* that was given up, or a worker committed although another had since it read the text.                *)
THEOREM Followed == SyncSpec => []AttachedFollowUnlessOverlapped
<1>1. SyncIInv => AttachedFollowUnlessOverlapped
  <2>1. ASSUME Quiet, NEW r \in Editors PROVE ~Due(r)
    BY <2>1 DEF Quiet, Due
  <2>2. QED
    BY <2>1 DEF SyncIInv, Settled, AttachedFollowUnlessOverlapped
<1>2. QED
  BY <1>1, SyncInvariant, PTL

----------------------------------------------------------------------------
(* The import. *)

\* What the row with id i holds after the rows in S were upserted: the last of
\* those with this id.
Last(S, i, n) == n \in S /\ NewId(export[n]) = i /\ \A m \in S : NewId(export[m]) = i => m <= n

ImportTypes ==
    /\ export \in Exports
    /\ db = [i \in AllIds |-> db[i]]
    /\ loaded \subseteq DOMAIN export
    /\ edited \subseteq AllIds
    /\ runs \in Nat

Loading == at \in {"connect", "load"}

\* The transaction: what it has written, and what it has found in order.
InTransaction ==
    /\ DOMAIN tx = {NewId(export[n]) : n \in loaded}
    /\ \A i \in DOMAIN tx : \E n \in loaded : Last(loaded, i, n) /\ tx[i] = Transformed(export[n], runs)
    /\ \A n \in loaded, m \in DOMAIN export : Earlier(export, m, n) => m \in loaded
    /\ \A n \in loaded : Refs(export[n]) \subseteq Ids(export)
    /\ \A m, n \in loaded \cap RowsOf("post") : m # n => export[m].keys # export[n].keys \/ Doubled

\* The database: an export as some run loaded it, but for what the application
\* changed or took away.
AsLoaded(i) ==
    \E n \in DOMAIN export, r \in Nat : Last(DOMAIN export, i, n) /\ db[i] = Transformed(export[n], r)

Present(i) == db[i] # Absent \/ i \in edited

Whole ==
    /\ {i \in AllIds : Present(i)} \in {{}, Ids(export)}
    /\ \A i \in edited : db[i] = Absent => i[1] = "posttag"
    /\ \A i \in AllIds \ edited : db[i] # Absent => AsLoaded(i)

Succeeded ==
    (at = "report" \/ report = "SUCCESS") /\ ~simulated =>
        (IsValid \/ Doubled) /\ \A i \in Ids(export) : Present(i)

ImportIInv ==
    /\ ImportTypes
    /\ Loading => InTransaction
    /\ at = "connect" => loaded = {}
    /\ Whole
    /\ Succeeded

----------------------------------------------------------------------------
(* Rows and ids *)

LEMMA RowFacts ==
    /\ \A s, q, r : Keys(s, q) = Keys(s, r)
    /\ \A s, r : Transformed(s, r).keys = Keys(s, r) /\ Transformed(s, r).text = s.text
    /\ \A s, q, r : s.kind \notin Stamped => Transformed(s, q) = Transformed(s, r)
    /\ \A s, q, r : s.kind \in Stamped => Transformed(s, r) = [Transformed(s, q) EXCEPT !.updatedAt = r]
<1>1. \A s, q, r : Keys(s, q) = Keys(s, r)
  BY DEF Keys
<1>2. \A s, r : Transformed(s, r).keys = Keys(s, r) /\ Transformed(s, r).text = s.text
  BY DEF Transformed
<1>3. ASSUME NEW s, NEW q, NEW r, s.kind \notin Stamped PROVE Transformed(s, q) = Transformed(s, r)
  BY <1>1, <1>3 DEF Transformed
<1>4. ASSUME NEW s, NEW q, NEW r, s.kind \in Stamped
      PROVE  Transformed(s, r) = [Transformed(s, q) EXCEPT !.updatedAt = r]
  BY <1>1, <1>4 DEF Transformed
<1>5. QED
  BY <1>1, <1>2, <1>3, <1>4

LEMMA IdFacts == \A s : NewId(s)[1] = s.kind
<1> SUFFICES ASSUME NEW s PROVE NewId(s)[1] = s.kind
  OBVIOUS
<1>1. CASE s.kind = "authorprofile"
  BY <1>1 DEF NewId
<1>2. CASE s.kind = "posttag"
  BY <1>2 DEF NewId
<1>3. CASE s.kind \notin {"authorprofile", "posttag"}
  BY <1>3 DEF NewId
<1>4. QED
  BY <1>1, <1>2, <1>3

LEMMA ExportFacts ==
    ASSUME export \in Exports
    PROVE  /\ Ids(export) \subseteq AllIds
           /\ \A n \in DOMAIN export :
                /\ n \in Nat /\ NewId(export[n]) \in Ids(export)
                /\ export[n].kind \in DOMAIN Target /\ DOMAIN export[n].links = DOMAIN Target[export[n].kind]
                /\ export[n].kind = "post" => export[n].keys # {} /\ \A r : Keys(export[n], r) = export[n].keys
                /\ \A r : Transformed(export[n], r) # Absent
<1>1. Ids(export) \subseteq AllIds
  BY DEF AllIds
<1>2. ASSUME NEW n \in DOMAIN export
      PROVE  /\ n \in Nat /\ NewId(export[n]) \in Ids(export)
             /\ export[n].kind \in DOMAIN Target /\ DOMAIN export[n].links = DOMAIN Target[export[n].kind]
             /\ export[n].kind = "post" => export[n].keys # {}
             /\ export[n].text # "absent"
  BY <1>2, MigrationConstants DEF Ids
<1>3. ASSUME NEW n \in DOMAIN export, NEW r PROVE Transformed(export[n], r) # Absent
  BY <1>2, <1>3 DEF Transformed, Absent
<1>4. ASSUME NEW n \in DOMAIN export, export[n].kind = "post", NEW r PROVE Keys(export[n], r) = export[n].keys
  BY <1>4 DEF Keys
<1>5. QED
  BY <1>1, <1>2, <1>3, <1>4

\* Every row of an export that is whole passes the checks of the report.
LEMMA WholeIsValid ==
    ASSUME export \in Exports, \A n \in DOMAIN export : Refs(export[n]) \subseteq Ids(export),
           \A m, n \in RowsOf("post") : m # n => export[m].keys # export[n].keys
    PROVE  IsValid
<1>1. ASSUME NEW k, NEW f PROVE ~Missing(k, f)
  BY DEF Missing, Refs, RowsOf
<1>2. QED
  BY <1>1 DEF IsValid

----------------------------------------------------------------------------
(* The invariant *)

LEMMA ImportIInvInit == ImportInit => ImportIInv
<1> SUFFICES ASSUME ImportInit PROVE ImportIInv
  OBVIOUS
<1>1. ImportTypes /\ Whole
  <2>1. \A i \in AllIds : db[i] = Absent
    BY DEF ImportInit
  <2>2. ImportTypes
    BY DEF ImportInit, ImportTypes
  <2>3. edited = {}
    BY DEF ImportInit
  <2>4. {i \in AllIds : Present(i)} = {}
    BY <2>1, <2>3 DEF Present
  <2>5. QED
    BY <2>1, <2>2, <2>3, <2>4 DEF Whole
<1>2. QED
  BY <1>1 DEF ImportInit, ImportIInv, Loading, Succeeded

\* What has not changed since is still true of the rows in the database.
LEMMA WholeStays ==
    ASSUME Whole, UNCHANGED <<export, db, edited>>
    PROVE  Whole'
  BY DEF Whole, AsLoaded, Last, Present

\* A run that stops, or goes on without a statement.
LEMMA QuietRunStep ==
    ASSUME ImportIInv, BeginRun \/ Connect \/ NotReachable \/ Abort \/ Report \/ \E n \in DOMAIN export : Refuse(n)
    PROVE  ImportIInv'
<1>1. UNCHANGED <<export, db, taken, edited>>
  BY DEF BeginRun, Connect, NotReachable, Abort, Report, Refuse, World
<1>2. /\ Whole' /\ (IsValid <=> IsValid') /\ (Doubled <=> Doubled') /\ Ids(export)' = Ids(export)
      /\ \A i : Present(i) <=> Present(i)'
  BY <1>1, WholeStays DEF ImportIInv, IsValid, Missing, RowsOf, Ids, Doubled, Present
<1>3. CASE BeginRun
  <2>1. /\ loaded' = {} /\ tx' = NoRows /\ at' \in {"connect", "done"} /\ runs' = runs + 1
        /\ report' # "SUCCESS"
    BY <1>3 DEF BeginRun
  <2>2. ImportTypes' /\ Succeeded'
    BY <1>1, <2>1 DEF ImportIInv, ImportTypes, Succeeded
  <2>3. DOMAIN tx' = {}
    BY <2>1 DEF NoRows
  <2>4. InTransaction'
    BY <2>1, <2>3 DEF InTransaction
  <2>5. QED
    BY <1>2, <2>1, <2>2, <2>4 DEF ImportIInv
<1>4. CASE Connect
  <2>1. UNCHANGED <<loaded, tx, runs, report, simulated, refused>> /\ at = "connect" /\ at' = "load"
    BY <1>4 DEF Connect
  <2>2. InTransaction'
    BY <1>1, <2>1 DEF ImportIInv, Loading, InTransaction, Last, RowsOf, Ids, Doubled
  <2>3. QED
    BY <1>1, <1>2, <2>1, <2>2 DEF ImportIInv, ImportTypes, Succeeded
<1>5. CASE NotReachable \/ Abort \/ Report \/ \E n \in DOMAIN export : Refuse(n)
  <2>1. /\ UNCHANGED <<loaded, runs>> /\ at' \in {"report", "done"}
        /\ (at' = "report" \/ report' = "SUCCESS") /\ ~simulated' => (at = "report" \/ report = "SUCCESS") /\ ~simulated
    BY <1>5 DEF NotReachable, Abort, Report, Refuse
  <2>2. Succeeded'
    BY <1>1, <1>2, <2>1 DEF ImportIInv, Succeeded
  <2>3. QED
    BY <1>1, <1>2, <2>1, <2>2 DEF ImportIInv, ImportTypes, Loading
<1>6. QED
  BY <1>3, <1>4, <1>5

\* A row that the transaction finds is of the export, and has the unique values
\* that the export gives it unless the application has changed it.
LEMMA SeenFacts ==
    ASSUME ImportIInv, at = "load", NEW i \in AllIds, Seen(i) # Absent
    PROVE  /\ i \in Ids(export)
           /\ \/ \E n \in DOMAIN export : NewId(export[n]) = i /\ Seen(i).keys = Keys(export[n], runs)
              \/ i \in edited /\ Seen(i) = db[i]
<1>1. export \in Exports /\ loaded \subseteq DOMAIN export /\ InTransaction /\ Whole
  BY DEF ImportIInv, ImportTypes, Loading
<1>2. CASE i \in DOMAIN tx
  <2>1. PICK n \in loaded : Last(loaded, i, n) /\ tx[i] = Transformed(export[n], runs)
    BY <1>1, <1>2 DEF InTransaction
  <2>2. NewId(export[n]) = i /\ Seen(i).keys = Keys(export[n], runs)
    BY <1>2, <2>1, RowFacts DEF Last, Seen
  <2>3. QED
    BY <1>1, <2>2, ExportFacts
<1>3. CASE i \notin DOMAIN tx
  <2>1. db[i] # Absent /\ Seen(i) = db[i]
    BY <1>3 DEF Seen
  <2>2. i \in Ids(export)
    BY <1>1, <2>1 DEF Whole, Present
  <2>3. ASSUME i \notin edited
        PROVE  \E n \in DOMAIN export : NewId(export[n]) = i /\ Seen(i).keys = Keys(export[n], runs)
    <3>1. PICK n \in DOMAIN export, r \in Nat : Last(DOMAIN export, i, n) /\ db[i] = Transformed(export[n], r)
      BY <1>1, <2>1, <2>3 DEF Whole, AsLoaded
    <3>2. QED
      BY <2>1, <3>1, RowFacts DEF Last
  <2>4. QED
    BY <2>1, <2>2, <2>3
<1>4. QED
  BY <1>2, <1>3

LEMMA UpsertRowStep ==
    ASSUME ImportIInv, NEW n \in DOMAIN export, UpsertRow(n)
    PROVE  ImportIInv'
<1> DEFINE s == export[n]
           row == Transformed(s, runs)
<1>1. /\ export \in Exports /\ loaded \subseteq DOMAIN export /\ InTransaction /\ at = "load" /\ n \notin loaded
      /\ \A m \in DOMAIN export : Earlier(export, m, n) => m \in loaded
  BY DEF ImportIInv, ImportTypes, Loading, UpsertRow, IsNext
<1>2. UNCHANGED <<export, db, taken, edited, at, runs, report, simulated, refused>> /\ loaded' = loaded \cup {n}
  BY DEF UpsertRow, World
<1>3. tx' = [i \in DOMAIN tx \cup {NewId(s)} |-> IF i = NewId(s) THEN row ELSE tx[i]]
  BY DEF UpsertRow
<1> HIDE DEF row
<1>4. /\ DOMAIN tx' = DOMAIN tx \cup {NewId(s)} /\ tx'[NewId(s)] = row
      /\ \A i \in DOMAIN tx \ {NewId(s)} : tx'[i] = tx[i]
  BY <1>3
<1>5. Accepts(s)
  BY DEF UpsertRow
<1>6. \A m \in loaded : NewId(export[m]) = NewId(s) => m <= n
  <2>1. SUFFICES ASSUME NEW m \in loaded, NewId(export[m]) = NewId(s), ~(m <= n) PROVE FALSE
    OBVIOUS
  <2>2. export[m].kind = s.kind
    BY <2>1, IdFacts
  <2>3. m \in Nat /\ n \in Nat /\ n < m
    BY <1>1, <2>1, ExportFacts
  <2>4. Earlier(export, n, m)
    BY <2>2, <2>3 DEF Earlier
  <2>5. QED
    BY <1>1, <2>4 DEF InTransaction
<1>7. DOMAIN tx' = {NewId(export'[m]) : m \in loaded'}
  BY <1>1, <1>2, <1>4 DEF InTransaction
<1>8. \A i \in DOMAIN tx' : \E m \in loaded' : Last(loaded, i, m)' /\ tx'[i] = Transformed(export'[m], runs')
  <2>1. Last(loaded, NewId(s), n)'
    BY <1>1, <1>2, <1>6, ExportFacts DEF Last
  <2>2. ASSUME NEW i \in DOMAIN tx \ {NewId(s)}, NEW m \in loaded, Last(loaded, i, m) PROVE Last(loaded, i, m)'
    BY <1>2, <2>2 DEF Last
  <2>3. \A i \in DOMAIN tx \ {NewId(s)} : \E m \in loaded' : Last(loaded, i, m)' /\ tx'[i] = Transformed(export'[m], runs')
    BY <1>1, <1>2, <1>4, <2>2 DEF InTransaction
  <2>4. QED
    BY <1>2, <1>4, <2>1, <2>3 DEF row
<1>9. Refs(s) \subseteq Ids(export)
  BY <1>1, <1>5, SeenFacts, ExportFacts DEF Accepts, ImportIInv
<1>10. ASSUME NEW m \in loaded \cap RowsOf("post"), s.kind = "post", ~Doubled PROVE export[m].keys # s.keys
  <2> DEFINE i == NewId(export[m])
  <2>1. m \in DOMAIN export /\ export[m].kind = "post" /\ n \in RowsOf("post") /\ m \in RowsOf("post") /\ m # n
    BY <1>1, <1>10 DEF RowsOf
  <2>2. i # NewId(s)
    BY <1>10, <2>1 DEF Doubled
  <2>3. PICK l \in loaded : Last(loaded, i, l) /\ tx[i] = Transformed(export[l], runs) /\ i \in DOMAIN tx
    BY <1>1 DEF InTransaction
  <2>4. l = m
    <3>1. NewId(export[l]) = NewId(export[m])
      BY <2>3 DEF Last
    <3>2. export[l].kind = "post"
      BY <2>1, <3>1, IdFacts
    <3>3. l \in RowsOf("post")
      BY <1>1, <3>2 DEF RowsOf
    <3>4. QED
      BY <1>10, <2>1, <3>1, <3>3 DEF Doubled
  <2>5. Seen(i).keys = export[m].keys
    BY <1>1, <2>1, <2>3, <2>4, ExportFacts, RowFacts DEF Seen
  <2>6. Keys(s, runs) = s.keys /\ s.keys # {}
    BY <1>1, <1>10, ExportFacts
  <2>7. i \in AllIds /\ i[1] = s.kind
    BY <1>1, <1>10, <2>1, ExportFacts, IdFacts
  <2>8. QED
    BY <1>5, <2>2, <2>5, <2>6, <2>7 DEF Accepts
<1>11. InTransaction'
  <2>1. \A p \in loaded', m \in DOMAIN export' : Earlier(export', m, p) => m \in loaded'
    BY <1>1, <1>2 DEF InTransaction
  <2>2. \A p \in loaded' : Refs(export'[p]) \subseteq Ids(export')
    BY <1>1, <1>2, <1>9 DEF InTransaction
  <2>3. RowsOf("post")' = RowsOf("post") /\ (Doubled <=> Doubled')
    BY <1>2 DEF Doubled, RowsOf
  <2>4. \A m, p \in loaded' \cap RowsOf("post") : m # p => export[m].keys # export[p].keys \/ Doubled
    <3>1. n \in RowsOf("post") => s.kind = "post"
      BY DEF RowsOf
    <3>2. QED
      BY <1>1, <1>2, <1>10, <3>1 DEF InTransaction
  <2>5. \A m, p \in loaded' \cap RowsOf("post")' : m # p => export'[m].keys # export'[p].keys \/ Doubled'
    BY <1>2, <2>3, <2>4
  <2>6. QED
    BY <1>7, <1>8, <2>1, <2>2, <2>5 DEF InTransaction
<1>12. /\ Whole' /\ (IsValid <=> IsValid') /\ (Doubled <=> Doubled')
       /\ \A i : Present(i) <=> Present(i)'
  BY <1>2, WholeStays DEF ImportIInv, IsValid, Missing, RowsOf, Ids, Doubled, Present
<1>13. QED
  BY <1>1, <1>2, <1>11, <1>12 DEF ImportIInv, ImportTypes, Succeeded

\* What a statement can be refused for.
LEMMA RefuseStep ==
    ASSUME ImportIInv, NEW n \in DOMAIN export, Refuse(n)
    PROVE  Unloadable \/ Displaced
<1> DEFINE s == export[n]
           before == {m \in DOMAIN export : Earlier(export, m, n)}
<1>1. /\ export \in Exports /\ loaded \subseteq DOMAIN export /\ InTransaction /\ at = "load" /\ n \notin loaded
      /\ before \subseteq loaded /\ ~Accepts(s)
  BY DEF ImportIInv, ImportTypes, Loading, Refuse, IsNext
<1>2. CASE \E i \in Refs(s) \ {NewId(s)} : ~(i \in AllIds /\ Seen(i) # Absent)
  <2>1. PICK i \in Refs(s) \ {NewId(s)} : ~(i \in AllIds /\ Seen(i) # Absent)
    BY <1>2
  <2>2. ASSUME NEW m \in before, NewId(export[m]) = i PROVE FALSE
    <3>1. i \in AllIds /\ i \in DOMAIN tx
      BY <1>1, <2>2, ExportFacts DEF InTransaction
    <3>2. Seen(i) # Absent
      BY <1>1, <3>1, ExportFacts DEF InTransaction, Seen
    <3>3. QED
      BY <2>1, <3>1, <3>2
  <2>3. QED
    BY <2>1, <2>2 DEF Unloadable
<1>3. CASE \E k \in Keys(s, runs) : <<s.kind, k>> \in taken
  BY <1>3 DEF Unloadable
<1>4. CASE \E k \in Keys(s, runs), i \in AllIds \ {NewId(s)} : i[1] = s.kind /\ k \in Seen(i).keys
  <2>1. PICK k \in Keys(s, runs), i \in AllIds \ {NewId(s)} : i[1] = s.kind /\ k \in Seen(i).keys
    BY <1>4
  <2>2. Seen(i) # Absent
    BY <2>1 DEF Absent
  <2>3. CASE i \in edited /\ Seen(i) = db[i]
    BY <2>1, <2>3 DEF Displaced
  <2>4. ASSUME NEW m \in DOMAIN export, NewId(export[m]) = i, Seen(i).keys = Keys(export[m], runs)
        PROVE  Unloadable
    <3>1. export[m].kind = s.kind /\ NewId(export[m]) # NewId(s) /\ m # n
      BY <2>1, <2>4, IdFacts
    <3>2. Earlier(export, m, n) \/ Earlier(export, n, m)
      BY <1>1, <3>1, ExportFacts DEF Earlier
    <3>3. Keys(export[m], runs) \cap Keys(s, runs) # {}
      BY <2>1, <2>4
    <3>4. QED
      BY <3>1, <3>2, <3>3 DEF Unloadable
  <2>5. QED
    BY <1>1, <2>2, <2>3, <2>4, SeenFacts DEF ImportIInv
<1>5. QED
  BY <1>1, <1>2, <1>3, <1>4 DEF Accepts

\* The transaction has written every row of the export, each as it comes last.
LEMMA CommitFacts ==
    ASSUME ImportIInv, CommitLoad
    PROVE  /\ export \in Exports /\ DOMAIN tx = Ids(export)
           /\ \A i \in Ids(export) :
                /\ db'[i] = tx[i] /\ tx[i] # Absent
                /\ \E n \in DOMAIN export : Last(DOMAIN export, i, n) /\ tx[i] = Transformed(export[n], runs)
           /\ \A i \in AllIds \ Ids(export) : db'[i] = Absent
<1>1. export \in Exports /\ loaded = DOMAIN export /\ InTransaction /\ Whole
  BY DEF ImportIInv, ImportTypes, Loading, CommitLoad
<1>2. DOMAIN tx = Ids(export)
  BY <1>1 DEF InTransaction, Ids
<1>3. \A i \in AllIds : db'[i] = IF i \in DOMAIN tx THEN tx[i] ELSE db[i]
  BY DEF CommitLoad, Seen
<1>4. \A i \in Ids(export) : \E n \in DOMAIN export : Last(DOMAIN export, i, n) /\ tx[i] = Transformed(export[n], runs)
  BY <1>1, <1>2 DEF InTransaction
<1>5. \A i \in Ids(export) : tx[i] # Absent
  BY <1>1, <1>4, ExportFacts
<1>6. \A i \in AllIds \ Ids(export) : db[i] = Absent
  BY <1>1 DEF Whole, Present
<1>7. QED
  BY <1>1, <1>2, <1>3, <1>4, <1>5, <1>6, ExportFacts

LEMMA CommitLoadStep ==
    ASSUME ImportIInv, CommitLoad
    PROVE  ImportIInv'
<1>1. /\ UNCHANGED <<export, taken, loaded, runs, report, simulated, refused>>
      /\ at' = "report" /\ loaded = DOMAIN export /\ InTransaction /\ Whole /\ export \in Exports
      /\ edited' = edited \ DOMAIN tx /\ db' = [i \in AllIds |-> Seen(i)] /\ edited \subseteq AllIds
      /\ DOMAIN tx = Ids(export) /\ runs \in Nat
  BY CommitFacts DEF CommitLoad, ImportIInv, ImportTypes, Loading
<1>2. edited' = {}
  BY <1>1 DEF Whole, Present
<1>3. {i \in AllIds : Present(i)'} = Ids(export)
  BY <1>2, CommitFacts, ExportFacts DEF Present
<1>4. ASSUME NEW i \in Ids(export) PROVE AsLoaded(i)'
  <2>1. PICK n \in DOMAIN export : Last(DOMAIN export, i, n) /\ tx[i] = Transformed(export[n], runs) /\ db'[i] = tx[i]
    BY CommitFacts
  <2>2. Last(DOMAIN export, i, n)'
    BY <1>1, <2>1 DEF Last
  <2>3. QED
    BY <1>1, <2>1, <2>2 DEF AsLoaded
<1>5. Whole'
  <2>1. Ids(export') = Ids(export)
    BY <1>1
  <2>2. \A i \in AllIds : db'[i] # Absent => AsLoaded(i)'
    BY <1>4, CommitFacts
  <2>3. QED
    BY <1>2, <1>3, <2>1, <2>2 DEF Whole
<1>6. IsValid \/ Doubled
  BY <1>1, WholeIsValid DEF InTransaction, RowsOf
<1>7. (IsValid <=> IsValid') /\ (Doubled <=> Doubled')
  BY <1>1 DEF IsValid, Missing, RowsOf, Ids, Doubled
<1>8. \A i \in Ids(export') : Present(i)'
  BY <1>1, <1>3
<1>9. ImportTypes'
  BY <1>1, <1>2 DEF ImportTypes
<1>10. QED
  BY <1>1, <1>5, <1>6, <1>7, <1>8, <1>9 DEF ImportIInv, Succeeded, Loading

\* The application changes or removes a row of the export.
LEMMA ChangeStep ==
    ASSUME ImportIInv, NEW i \in AllIds, Edit(i) \/ Retag(i)
    PROVE  ImportIInv'
<1>1. /\ UNCHANGED <<export, taken, at, loaded, tx, runs, report, simulated, refused>>
      /\ edited' = edited \cup {i}
  BY DEF Edit, Retag
<1>2. db = [j \in AllIds |-> db[j]] /\ edited \subseteq AllIds /\ export \in Exports /\ Whole
  BY DEF ImportIInv, ImportTypes
<1>3. /\ \A j \in AllIds \ {i} : db'[j] = db[j]
      /\ db' = [j \in AllIds |-> db'[j]]
      /\ Present(i)
      /\ db'[i] = Absent => i[1] = "posttag"
  <2>1. CASE Edit(i)
    <3>1. PICK K : db' = [db EXCEPT ![i] = [keys |-> K, text |-> "edited", updatedAt |-> 0]]
      BY <2>1 DEF Edit
    <3>2. db'[i].text = "edited"
      BY <1>2, <3>1
    <3>3. db'[i] # Absent /\ Present(i)
      BY <2>1, <3>2 DEF Absent, Edit, Present
    <3>4. QED
      BY <1>2, <3>1, <3>3
  <2>2. CASE Retag(i)
    <3>1. PICK row : db' = [db EXCEPT ![i] = row]
      BY <2>2 DEF Retag
    <3>2. i[1] = "posttag" /\ Present(i)
      BY <2>2 DEF Retag, Present
    <3>3. QED
      BY <1>2, <3>1, <3>2
  <2>3. QED
    BY <2>1, <2>2
<1>4. \A j \in AllIds : Present(j)' <=> Present(j)
  BY <1>1, <1>3 DEF Present
<1>5. \A j \in AllIds \ edited' : db'[j] # Absent => AsLoaded(j)'
  BY <1>1, <1>2, <1>3 DEF Whole, AsLoaded, Last
<1>6. Whole'
  <2>1. {j \in AllIds : Present(j)'} = {j \in AllIds : Present(j)} /\ Ids(export') = Ids(export)
    BY <1>1, <1>4
  <2>2. \A j \in edited' : db'[j] = Absent => j[1] = "posttag"
    BY <1>1, <1>2, <1>3 DEF Whole
  <2>3. QED
    BY <1>2, <1>5, <2>1, <2>2 DEF Whole
<1>7. /\ (IsValid <=> IsValid') /\ (Doubled <=> Doubled') /\ (InTransaction => InTransaction')
      /\ Ids(export)' = Ids(export)
  BY <1>1 DEF IsValid, Missing, RowsOf, Ids, Doubled, InTransaction, Last
<1>8. Succeeded'
  BY <1>1, <1>2, <1>4, <1>7, ExportFacts DEF ImportIInv, Succeeded
<1>9. ImportTypes'
  BY <1>1, <1>2, <1>3 DEF ImportIInv, ImportTypes
<1>10. QED
  BY <1>1, <1>6, <1>7, <1>8, <1>9 DEF ImportIInv, Loading

LEMMA ImportIInvStep == ImportIInv /\ [ImportNext]_importVars => ImportIInv'
<1> SUFFICES ASSUME ImportIInv, [ImportNext]_importVars PROVE ImportIInv'
  OBVIOUS
<1>1. CASE UNCHANGED importVars \/ \E o \in Others : Occupy(o)
  <2>1. UNCHANGED <<export, db, at, loaded, tx, runs, report, simulated, refused, edited>>
    BY <1>1 DEF importVars, Occupy
  <2>2. /\ (IsValid <=> IsValid') /\ (Doubled <=> Doubled') /\ \A i : Present(i) <=> Present(i)'
        /\ (InTransaction => InTransaction') /\ Ids(export)' = Ids(export)
    BY <2>1 DEF IsValid, Missing, RowsOf, Ids, Doubled, InTransaction, Last, Present
  <2>3. Whole'
    BY <2>1, WholeStays DEF ImportIInv
  <2>4. QED
    BY <2>1, <2>2, <2>3 DEF ImportIInv, ImportTypes, Succeeded, Loading
<1>2. CASE ImportNext
  BY <1>1, <1>2, QuietRunStep, UpsertRowStep, CommitLoadStep, ChangeStep DEF ImportNext, Load
<1>3. QED
  BY <1>1, <1>2

LEMMA ImportInvariant == ImportSpec => []ImportIInv
  BY ImportIInvInit, ImportIInvStep, PTL DEF ImportSpec

(* Rows are loaded all or none, but for tags that the application took off a post since; a report of    *)
(* success, with the database in reach, means rows that are valid unless a post came twice, and as they *)
(* were exported or as the application changed them; a run is refused only for an export that cannot be *)
(* loaded, or where the application gave one imported row the slug or path of another.  For every       *)
(* export, however its rows are ordered or repeated, and any number of runs beside the application.     *)
THEOREM Meant == ImportSpec => OutcomeMeant
<1>1. ImportIInv => SuccessMeant
  <2> SUFFICES ASSUME ImportIInv PROVE SuccessMeant
    OBVIOUS
  <2>1. export \in Exports /\ Whole /\ Succeeded /\ edited \subseteq AllIds
    BY DEF ImportIInv, ImportTypes
  <2>2. ASSUME report = "SUCCESS", ~simulated, NEW i \in Ids(export), i \notin edited
        PROVE  \E n \in DOMAIN export : NewId(export[n]) = i /\ db[i].text = export[n].text
    <3>1. AsLoaded(i)
      BY <2>1, <2>2, ExportFacts DEF Whole, Succeeded, Present
    <3>2. PICK n \in DOMAIN export, r \in Nat : Last(DOMAIN export, i, n) /\ db[i] = Transformed(export[n], r)
      BY <3>1 DEF AsLoaded
    <3>3. QED
      BY <3>2, RowFacts DEF Last
  <2>3. {i \in AllIds : db[i] # Absent \/ i \in edited} \in {{}, Ids(export)}
    BY <2>1 DEF Whole, Present
  <2>4. QED
    BY <2>1, <2>2, <2>3 DEF SuccessMeant, Whole, Succeeded
<1>2. ImportIInv /\ [ImportNext]_importVars => (refused' /\ ~refused => Unloadable \/ Displaced)
  <2>1. ASSUME ImportIInv, [ImportNext]_importVars, refused', ~refused PROVE \E n \in DOMAIN export : Refuse(n)
    BY <2>1 DEF ImportNext, Load, importVars, BeginRun, Connect, NotReachable, UpsertRow, CommitLoad, Abort, Report,
                Edit, Retag, Occupy
  <2>2. QED
    BY <2>1, RefuseStep
<1>3. QED
  BY <1>1, <1>2, ImportInvariant, PTL DEF ImportSpec, OutcomeMeant

(* A repeated import changes no row but those that the application had changed, and of users and posts' *)
(* tags nothing but updatedAt: the rest of what it writes depends on nothing but the export, however    *)
(* often its rows come.                                                                                 *)
THEOREM Repeated == ImportSpec => RerunsAgree
<1>1. ASSUME ImportIInv, [ImportNext]_importVars
      PROVE  [\A i \in AllIds : db[i] # Absent /\ i \notin edited =>
                 \/ db'[i] = db[i] \/ i \in edited'
                 \/ i[1] \in Stamped /\ db'[i] = [db[i] EXCEPT !.updatedAt = runs]]_db
  <2>1. SUFFICES ASSUME db' # db, NEW i \in AllIds, db[i] # Absent, i \notin edited, i \notin edited'
                 PROVE  \/ db'[i] = db[i]
                        \/ i[1] \in Stamped /\ db'[i] = [db[i] EXCEPT !.updatedAt = runs]
    OBVIOUS
  <2>2. CASE CommitLoad
    <3>1. PICK n \in DOMAIN export, r \in Nat : Last(DOMAIN export, i, n) /\ db[i] = Transformed(export[n], r)
      BY <1>1, <2>1 DEF ImportIInv, Whole, AsLoaded
    <3>2. i \in Ids(export) /\ export \in Exports
      BY <1>1, <2>2, <3>1, CommitFacts DEF Last, Ids
    <3>3. PICK m \in DOMAIN export : Last(DOMAIN export, i, m) /\ db'[i] = Transformed(export[m], runs)
      BY <1>1, <2>2, <3>2, CommitFacts
    <3>4. m = n
      <4>1. m \in Nat /\ n \in Nat /\ m <= n /\ n <= m
        BY <3>1, <3>2, <3>3, ExportFacts DEF Last
      <4>2. QED
        BY <4>1
    <3>5. i[1] = export[n].kind
      BY <3>1, IdFacts DEF Last
    <3>6. QED
      BY <3>1, <3>3, <3>4, <3>5, RowFacts
  <2>3. ASSUME NEW j \in AllIds, Edit(j) \/ Retag(j) PROVE db'[i] = db[i]
    <3>1. db = [k \in AllIds |-> db[k]] /\ i # j
      BY <1>1, <2>1, <2>3 DEF Edit, Retag, ImportIInv, ImportTypes
    <3>2. PICK row : db' = [db EXCEPT ![j] = row]
      BY <2>3 DEF Edit, Retag
    <3>3. QED
      BY <3>1, <3>2
  <2>4. QED
    BY <2>1, <2>2, <2>3, <1>1
       DEF ImportNext, Load, importVars, BeginRun, Connect, NotReachable, UpsertRow, Refuse, Abort, Report, Occupy, World
<1>2. QED
  BY <1>1, ImportInvariant, PTL DEF ImportSpec, RerunsAgree
=============================================================================
