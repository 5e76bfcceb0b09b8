----------------------------- MODULE Reactions -----------------------------
(***************************************************************************)
(* Reactions to one object: requests that toggle a user's reaction, each   *)
(* in an interactive database transaction that reads the user's row,       *)
(* deletes, updates or inserts it, and upserts the aggregate rows.         *)
(*                                                                         *)
(* The transactions run at READ COMMITTED, the database's default: each    *)
(* statement sees what is committed when it runs, a written row stays      *)
(* locked until its transaction ends, and nothing is visible before the    *)
(* commit.  Requests of other tenants are left out: an object belongs to   *)
(* one tenant.                                                             *)
(***************************************************************************)
EXTENDS Integers, FiniteSets

CONSTANTS
    Users, NoUser,
    Types, NoType,      \* reaction types, and none
    Toggles, NoToggle   \* requests to toggle; NoToggle is the id of no row

ASSUME ReactionConstants ==
    /\ IsFiniteSet(Users)
    /\ NoUser \notin Users
    /\ NoType \notin Types
    /\ NoToggle \notin Toggles

VARIABLES
    row,       \* row[u]: the committed reaction of user u, or NoRow
    tally,     \* tally[ty]: the committed count of ty's aggregate row
    listed,    \* the types that have an aggregate row
    pc,        \* pc[t]: the await at which toggle t stands
    req,       \* req[t]: whose reaction t toggles, and which, while it does
    seen,      \* seen[t]: the row t read
    held,      \* held[t]: the types whose aggregate rows t has upserted
    stale      \* history: a toggle committed its write of a row whose type had
               \* changed since the toggle read it

vars == <<row, tally, listed, pc, req, seen, held, stale>>

\* A row's id is the toggle that inserted it.
NoRow == [id |-> NoToggle, type |-> NoType]
Rows  == [id : Toggles, type : Types] \cup {NoRow}

NoRequest == [user |-> NoUser, type |-> NoType]
Requests  == [user : Users, type : Types]

Locations == {"idle", "write", "count", "commit", "done"}

Init ==
    /\ row = [u \in Users |-> NoRow]
    /\ tally = [ty \in Types |-> 0]
    /\ listed = {}
    /\ pc = [t \in Toggles |-> "idle"]
    /\ req = [t \in Toggles |-> NoRequest]
    /\ seen = [t \in Toggles |-> NoRow]
    /\ held = [t \in Toggles |-> {}]
    /\ stale = FALSE

Goto(t, l) == pc' = [pc EXCEPT ![t] = l]

\* The transaction is over and its locks are released.
End(t) ==
    /\ Goto(t, "done")
    /\ req' = [req EXCEPT ![t] = NoRequest]
    /\ seen' = [seen EXCEPT ![t] = NoRow]
    /\ held' = [held EXCEPT ![t] = {}]

----------------------------------------------------------------------------
(* What toggle t does, decided on the row it read. *)

\* The reaction its user will have: none when the toggled type is the present one.
NewType(t) == IF seen[t].type = req[t].type THEN NoType ELSE req[t].type

\* Deviation: the row of a removed reaction is kept, without a type.
RowAfterBlanked(t) == [id |-> row[req[t].user].id, type |-> NewType(t)]

\* The row t leaves: deleted, inserted, or updated in place.
RowAfter(t) ==
    IF NewType(t) = NoType THEN NoRow
    ELSE [id |-> IF seen[t] = NoRow THEN t ELSE row[req[t].user].id, type |-> NewType(t)]

\* What t adds to the count of ty.
Gain(t, ty) == (IF NewType(t) = ty THEN 1 ELSE 0) - (IF seen[t].type = ty THEN 1 ELSE 0)

\* Deviation: a change of type does not take the old type's count down.
ToCountIgnoringOld(t) == {NewType(t)} \ (held[t] \cup {NoType})

\* The aggregates t has still to upsert.
ToCount(t) == {seen[t].type, NewType(t)} \ (held[t] \cup {NoType})

\* The next one: the type that loses a reaction before the one that gains it.
NextType(t, ty) ==
    /\ ty \in ToCount(t)
    /\ seen[t].type \in ToCount(t) => ty = seen[t].type

----------------------------------------------------------------------------
(* Locks: a transaction that has written a row holds it until it ends. *)

Writers == {t \in Toggles : pc[t] \in {"count", "commit"}}

RowBusy(t) == \E s \in Writers \ {t} : req[s].user = req[t].user

TallyBusy(t, ty) == \E s \in Writers \ {t} : ty \in held[s]

----------------------------------------------------------------------------
(* toggleReaction *)

\* findUnique, the first statement of the transaction.
Find(t, r) ==
    /\ pc[t] = "idle"
    /\ req' = [req EXCEPT ![t] = r]
    /\ seen' = [seen EXCEPT ![t] = row[r.user]]
    /\ Goto(t, "write")
    /\ UNCHANGED <<row, tally, listed, held, stale>>

\* The delete or update by id finds its row, or the insert finds the unique
\* key free.
WriteRow(t) ==
    /\ pc[t] = "write"
    /\ ~RowBusy(t)
    /\ row[req[t].user].id = seen[t].id
    /\ Goto(t, "count")
    /\ UNCHANGED <<row, tally, listed, req, seen, held, stale>>

\* Deviation: the error leaves the transaction open.
WriteRefusedLeftOpen(t) ==
    /\ pc[t] = "write"
    /\ ~RowBusy(t)
    /\ row[req[t].user].id # seen[t].id
    /\ UNCHANGED vars

\* The row is gone, or the key was taken: the statement fails (P2025, P2002)
\* and the transaction rolls back.
WriteRefused(t) ==
    /\ pc[t] = "write"
    /\ ~RowBusy(t)
    /\ row[req[t].user].id # seen[t].id
    /\ End(t)
    /\ UNCHANGED <<row, tally, listed, stale>>

\* updateAggregate: INSERT ... ON CONFLICT DO UPDATE of one aggregate row.
Upsert(t, ty) ==
    /\ pc[t] = "count"
    /\ NextType(t, ty)
    /\ ~TallyBusy(t, ty)
    /\ held' = [held EXCEPT ![t] = @ \cup {ty}]
    /\ Goto(t, IF ToCount(t) = {ty} THEN "commit" ELSE "count")
    /\ UNCHANGED <<row, tally, listed, req, seen, stale>>

\* The count of ty once t commits: incremented, or that of a new row.
TallyAfter(t, ty) ==
    IF ty \notin held[t] THEN tally[ty]
    ELSE IF ty \in listed THEN tally[ty] + Gain(t, ty)
    ELSE IF Gain(t, ty) > 0 THEN Gain(t, ty) ELSE 0

Commit(t) ==
    /\ pc[t] = "commit"
    /\ row' = [row EXCEPT ![req[t].user] = RowAfter(t)]
    /\ tally' = [ty \in Types |-> TallyAfter(t, ty)]
    /\ listed' = listed \cup held[t]
    /\ stale' = (stale \/ row[req[t].user].type # seen[t].type)
    /\ End(t)

----------------------------------------------------------------------------
(* The environment *)

\* Deviation: the statements run outside a transaction.
FailKeepingRow(t) ==
    /\ pc[t] \in {"write", "count", "commit"}
    /\ row' = IF pc[t] = "write" THEN row ELSE [row EXCEPT ![req[t].user] = RowAfter(t)]
    /\ End(t)
    /\ UNCHANGED <<tally, listed, stale>>

\* The transaction is rolled back: its connection or process is lost, its time
\* limit passes, or the database picks it to break a deadlock.
Fail(t) ==
    /\ pc[t] \in {"write", "count", "commit"}
    /\ End(t)
    /\ UNCHANGED <<row, tally, listed, stale>>

\* t waits for a row that s holds.
WaitsFor(t, s) ==
    /\ s \in Writers \ {t}
    /\ \/ pc[t] = "write" /\ req[s].user = req[t].user
       \/ pc[t] = "count" /\ \E ty \in Types : NextType(t, ty) /\ ty \in held[s]

\* The database breaks deadlocks: one of a set of transactions that all wait
\* for one another is rolled back.
BreakDeadlock ==
    \E S \in SUBSET Writers :
        /\ S # {} /\ \A t \in S : \E s \in S : WaitsFor(t, s)
        /\ \E t \in S : Fail(t)

----------------------------------------------------------------------------

Step(t) ==
    \/ \E r \in Requests : Find(t, r)
    \/ WriteRow(t) \/ WriteRefused(t) \/ Commit(t)
    \/ \E ty \in Types : Upsert(t, ty)

Next == \E t \in Toggles : Step(t) \/ Fail(t)

Spec == Init /\ [][Next]_vars

\* Requests that run go on, and the database's deadlock detection works.
ToggledFairly == (\A t \in Toggles : WF_vars(Step(t))) /\ WF_vars(BreakDeadlock)

FairSpec == Spec /\ ToggledFairly

\* Users who click once at a time: each of their toggles is over before the next.
Open(t) == pc[t] \in {"write", "count", "commit"}

InTurn ==
    \A s, t \in Toggles : Open(s) /\ Open(t) /\ req[s].user = req[t].user => s = t

SpecInTurn == Init /\ [][Next /\ InTurn']_vars

----------------------------------------------------------------------------

TypeOK ==
    /\ row \in [Users -> Rows]
    /\ tally \in [Types -> Int]
    /\ listed \subseteq Types
    /\ pc \in [Toggles -> Locations]
    /\ req \in [Toggles -> Requests \cup {NoRequest}]
    /\ seen \in [Toggles -> Rows]
    /\ held \in [Toggles -> SUBSET Types]
    /\ stale \in BOOLEAN

----------------------------------------------------------------------------
(* Safety. *)

\* "Reaction Concurrency & Consistency": the count getAggregates returns for a
\* type is the number of users whose reaction it is.
CountsMatch == \A ty \in Types : tally[ty] = Cardinality({u \in Users : row[u].type = ty})

\* The counts are right until a toggle writes a row that another toggle of the
\* same user changed after it was read: two clicks in flight are the only way
\* to go wrong, whatever other users do and whatever fails.
CountsMatchUnlessStale == stale \/ CountsMatch

Votes == INSTANCE ReactionVotes WITH vote <- [u \in Users |-> row[u].type]

\* Until then every commit is one atomic toggle, and a toggle that fails has no
\* effect at all.
ImplementsVotes == Votes!Init /\ [][~stale' => Votes!Next]_(Votes!vars)

\* With users who click once at a time that is so without exception, however the
\* toggles of different users interleave on the aggregates.
ImplementsVotesInTurn == Votes!Spec

----------------------------------------------------------------------------
(* Liveness. *)

\* Every toggle that reads its row is answered: no set of toggles blocks one
\* another for ever, though two changes in opposite directions can deadlock.
ToggleEnds == \A t \in Toggles : (pc[t] = "write") ~> (pc[t] = "done")
=============================================================================
