------------------------------- MODULE Menus -------------------------------
(***************************************************************************)
(* The menus of a gaming center and their items (modules/navigation).  A   *)
(* request finds a menu, with its active items, and then writes one row by *)
(* id; a menu is named by its location, of which a center has one.  The    *)
(* tree of a menu is built from one read of its active items.  Labels,     *)
(* addresses and the order decide nothing.                                 *)
(***************************************************************************)
EXTENDS Integers

CONSTANTS
    Callers,
    MenuLocations,          \* places of menus
    Items, NoItem,      \* ids of menu items
    Edits,              \* the bodies that item requests are sent with
    Seeded              \* the items at the start

Rules == {"PUBLIC", "AUTHENTICATED", "STAFF", "ADMIN"}

\* Who asks for a tree: nobody in particular, a customer, or one of the staff.
Readers == {"NOBODY", "CUSTOMER", "STAFF", "MANAGER", "ADMIN"}

Nowhere == "NONE"

Rows == [menu : MenuLocations \cup {Nowhere}, parent : Items \cup {NoItem}, active : BOOLEAN, visibility : Rules]

NoRow == [menu |-> Nowhere, parent |-> NoItem, active |-> FALSE, visibility |-> "PUBLIC"]

\* A body: "keep" stands for a field it does not have, NoItem for a null parent.
Inputs == [menu : MenuLocations, parent : Items \cup {NoItem, "keep"},
           active : {"keep", "on", "off"}, visibility : Rules \cup {"keep"}]

ASSUME MenusConstants ==
    /\ NoItem \notin Items /\ Nowhere \notin MenuLocations /\ "keep" \notin Items
    /\ Edits \subseteq Inputs
    /\ Seeded \in [Items -> Rows]
    /\ \A i \in Items : Seeded[i].parent \in Items => Seeded[Seeded[i].parent] # NoRow
    /\ \A U \in (SUBSET Items) \ {{}} : \E u \in U : Seeded[u].parent \notin U

VARIABLES
    menus,    \* the locations that have a menu
    items,    \* items[i]: the row with id i, NoRow when there is none
    call,     \* call[r]: where request r stands, its item and its body; history:
              \* the items deleted since it began
    stale,    \* history: an item was written that had been deleted since the
              \* request began
    turned    \* history: an item was put below itself

menuVars == <<menus, items, call, stale, turned>>

NoInput == [menu |-> Nowhere, parent |-> "keep", active |-> "keep", visibility |-> "keep"]

Calls == [at : {"idle", "menu", "insert", "update", "delete", "done"}, id : Items \cup {NoItem},
          in : Inputs \cup [menu : MenuLocations \cup {Nowhere}, parent : {"keep"}, active : {"keep"}, visibility : {"keep"}],
          gone : SUBSET Items]

Fresh(l) == [at |-> l, id |-> NoItem, in |-> NoInput, gone |-> {}]

MenuInit ==
    /\ menus = {Seeded[i].menu : i \in Items} \ {Nowhere}
    /\ items = Seeded
    /\ call = [r \in Callers |-> Fresh("idle")]
    /\ stale = FALSE /\ turned = FALSE

At(r) == call[r].at

Id(r) == call[r].id

In(r) == call[r].in

Begin(r, l, i, d) ==
    /\ At(r) = "idle"
    /\ call' = [call EXCEPT ![r] = [at |-> l, id |-> i, in |-> d, gone |-> {}]]
    /\ UNCHANGED <<menus, items, stale, turned>>

End(r) == call' = [call EXCEPT ![r] = Fresh("done")]

----------------------------------------------------------------------------
(* createMenu *)

\* findMenuByLocation.
CreateMenu(r, l) ==
    /\ l \notin menus
    /\ Begin(r, "menu", NoItem, [NoInput EXCEPT !.menu = l])

\* prisma.menu.create; the unique location refuses a second one.
InsertMenu(r) ==
    /\ At(r) = "menu"
    /\ menus' = menus \cup {In(r).menu}
    /\ End(r)
    /\ UNCHANGED <<items, stale, turned>>

----------------------------------------------------------------------------
(* addMenuItem, updateMenuItem, deleteMenuItem *)

\* The active items that findMenuByLocation and findMenuById include.
ItemsOf(m) == {i \in Items : items[i].menu = m /\ items[i].active}

\* Deviation: the deleted items are included.
FindAnyItem(m, i) == m \in menus /\ items[i].menu = m

\* findMenuById, and the item among those of the menu.
FindItem(m, i) == m \in menus /\ i \in ItemsOf(m)

AddItem(r, i, d) ==
    /\ items[i] = NoRow /\ d.menu \in menus /\ d.active = "keep"
    /\ Begin(r, "insert", i, d)

UpdateItem(r, i, d) == FindItem(d.menu, i) /\ Begin(r, "update", i, d)

DeleteItem(r, i, m) == FindItem(m, i) /\ Begin(r, "delete", i, [NoInput EXCEPT !.menu = m])

\* The row of r's item becomes row, which ends r.
Put(r, row) ==
    /\ items' = [items EXCEPT ![Id(r)] = row]
    /\ call' = [q \in Callers |->
           IF q = r THEN Fresh("done")
           ELSE IF row.active \/ At(q) \in {"idle", "done"} THEN call[q]
           ELSE [call[q] EXCEPT !.gone = @ \cup {Id(r)}]]
    /\ stale' = (stale \/ Id(r) \in call[r].gone)

\* A parent has to be there, in whatever menu, deleted or not.
Fits(d) == d.parent \in Items => items[d.parent] # NoRow

\* The row that a create or an update of row leaves.
Merged(row, d) ==
    [menu       |-> d.menu,
     parent     |-> IF d.parent = "keep" THEN row.parent ELSE d.parent,
     active     |-> IF d.active = "keep" THEN row.active ELSE d.active = "on",
     visibility |-> IF d.visibility = "keep" THEN row.visibility ELSE d.visibility]

\* prisma.menuItem.create, once its id is not taken.
InsertItem(r) ==
    /\ At(r) = "insert"
    /\ IF items[Id(r)] = NoRow /\ Fits(In(r))
       THEN Put(r, Merged([NoRow EXCEPT !.active = TRUE], In(r)))
       ELSE End(r) /\ UNCHANGED <<items, stale>>
    /\ UNCHANGED <<menus, turned>>

\* Whether p is i or below it: every set with i that has the children of its
\* members has p.
Under(i, p) ==
    \A U \in SUBSET Items :
        i \in U /\ (\A c \in Items : items[c].parent \in U => c \in U) => p \in U

\* prisma.menuItem.update by id.
WriteItem(r) ==
    /\ At(r) = "update"
    /\ IF Fits(In(r))
       THEN /\ Put(r, Merged(items[Id(r)], In(r)))
            /\ turned' = (turned \/ (In(r).parent \in Items /\ Under(Id(r), In(r).parent)))
       ELSE End(r) /\ UNCHANGED <<items, stale, turned>>
    /\ UNCHANGED menus

\* deleteMenuItem of the repository, an update too.
RemoveItem(r) ==
    /\ At(r) = "delete"
    /\ Put(r, [items[Id(r)] EXCEPT !.active = FALSE])
    /\ UNCHANGED <<menus, turned>>

\* A statement fails, or the process is gone.
Fail(r) ==
    /\ At(r) \notin {"idle", "done"}
    /\ End(r)
    /\ UNCHANGED <<menus, items, stale, turned>>

----------------------------------------------------------------------------

Start(r) ==
    \/ \E l \in MenuLocations : CreateMenu(r, l)
    \/ \E i \in Items : \E d \in Edits : AddItem(r, i, d) \/ UpdateItem(r, i, d)
    \/ \E i \in Items, m \in MenuLocations : DeleteItem(r, i, m)

Step(r) == InsertMenu(r) \/ InsertItem(r) \/ WriteItem(r) \/ RemoveItem(r) \/ Fail(r)

MenuNext == \E r \in Callers : Start(r) \/ Step(r)

MenuSpec == MenuInit /\ [][MenuNext]_menuVars

----------------------------------------------------------------------------
(* getMenuTree *)

Sees(u, rule) ==
    \/ rule = "PUBLIC"
    \/ rule = "AUTHENTICATED" /\ u # "NOBODY"
    \/ rule = "STAFF" /\ u \in {"STAFF", "MANAGER", "ADMIN"}
    \/ rule = "ADMIN" /\ u = "ADMIN"

Filtered(m, u) == {i \in ItemsOf(m) : Sees(u, items[i].visibility)}

\* Deviation: only items without a parent are roots.
ParentlessRoots(m, u) == {i \in Filtered(m, u) : items[i].parent = NoItem}

\* An item whose parent was filtered out, or is of another menu, is a root too.
RootItems(m, u) == {i \in Filtered(m, u) : items[i].parent \notin Filtered(m, u)}

\* What is reached from the roots through the lists of children.
Tree(m, u) ==
    {i \in Filtered(m, u) :
        \A U \in SUBSET Filtered(m, u) :
            RootItems(m, u) \subseteq U
                /\ (\A c \in Filtered(m, u) : items[c].parent \in U => c \in U) => i \in U}

----------------------------------------------------------------------------

MenuTypeOK ==
    /\ menus \subseteq MenuLocations
    /\ items \in [Items -> Rows]
    /\ call \in [Callers -> Calls]
    /\ stale \in BOOLEAN /\ turned \in BOOLEAN

\* Every reader gets every item that the rules let them see, whatever became of
\* its parent and whichever menu that is in, until an item is put below itself,
\* which no request looks for: a cycle hangs from no root.
ShownUnlessTurned ==
    turned \/ \A m \in menus, u \in Readers : Tree(m, u) = Filtered(m, u)

\* A deleted item is left as it is, until one is written by a request that had
\* found it before its deletion.
DeletedStaysUnlessStale ==
    [][stale' \/ \A i \in Items : items[i] # NoRow /\ ~items[i].active => items'[i] = items[i]]_items
=============================================================================
