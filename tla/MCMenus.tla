------------------------------ MODULE MCMenus ------------------------------
(***************************************************************************)
(* A small instance of Menus: a menu of two items, one for the staff, and  *)
(* another menu and a third item to come.                                  *)
(***************************************************************************)
EXTENDS Menus, TLC

CONSTANTS i1, i2, i3

Body(m, p, a, v) == [menu |-> m, parent |-> p, active |-> a, visibility |-> v]

MCEdits ==
    {Body("HEADER", p, "keep", "keep") : p \in {i1, i2, i3}}
        \cup {Body("FOOTER", p, "keep", v) : p \in {NoItem, i1}, v \in {"keep", "AUTHENTICATED"}}
        \cup {Body("HEADER", "keep", a, "ADMIN") : a \in {"on", "off"}}

MCSeeded ==
    (i1 :> [NoRow EXCEPT !.menu = "HEADER", !.active = TRUE, !.visibility = "STAFF"])
        @@ (i2 :> [NoRow EXCEPT !.menu = "HEADER", !.active = TRUE])
        @@ (i3 :> NoRow)
=============================================================================
