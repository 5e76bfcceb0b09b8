-------------------------- MODULE ReactionsProofs --------------------------
(***************************************************************************)
(* Proofs about toggling reactions, for every set of users, types and      *)
(* toggles: type correctness, right counts until a stale write, and until  *)
(* then the implementation of atomic toggles.                              *)
(***************************************************************************)
EXTENDS Reactions, FiniteSetTheorems, TLAPS

\* A transaction that is open knows its request, and two that have written
\* hold the rows of different users.
LockInv ==
    /\ \A t \in Toggles : Open(t) => req[t] \in Requests
    /\ \A t \in Writers : row[req[t].user].id = seen[t].id
    /\ \A s, t \in Writers : req[s].user = req[t].user => s = t

\* A transaction about to commit has upserted every aggregate it has to.
CountedInv == \A t \in Toggles : pc[t] = "commit" => ToCount(t) = {}

\* Every type in use has an aggregate row, and a count without a row is zero.
ListedInv ==
    /\ \A u \in Users : row[u].type \in listed \cup {NoType}
    /\ \A ty \in Types : ty \notin listed => tally[ty] = 0

IInv == TypeOK /\ LockInv /\ CountedInv /\ ListedInv

LEMMA RowFacts ==
    /\ NoRow \in Rows /\ NoRow.id = NoToggle /\ NoRow.type = NoType
    /\ \A r \in Rows : r # NoRow <=> r.id \in Toggles
    /\ \A r \in Rows : r # NoRow <=> r.type \in Types
  BY ReactionConstants DEF Rows, NoRow

LEMMA IInvInit == Init => IInv
<1>1. Init => TypeOK
  <2> SUFFICES ASSUME Init PROVE TypeOK
    OBVIOUS
  <2>1. row \in [Users -> Rows] /\ seen \in [Toggles -> Rows]
    BY RowFacts DEF Init
  <2>2. pc \in [Toggles -> Locations] /\ req \in [Toggles -> Requests \cup {NoRequest}]
    BY DEF Init, Locations
  <2>3. tally \in [Types -> Int] /\ held \in [Toggles -> SUBSET Types]
    BY DEF Init
  <2>4. QED
    BY <2>1, <2>2, <2>3 DEF Init, TypeOK
<1>2. Init => LockInv /\ CountedInv /\ ListedInv
  BY RowFacts DEF Init, LockInv, Open, Writers, CountedInv, ListedInv
<1>3. QED
  BY <1>1, <1>2 DEF IInv

\* What the transaction leaves is a row, of the type it computed.
LEMMA RowAfterType ==
    ASSUME IInv, NEW t \in Toggles, pc[t] = "commit"
    PROVE  /\ RowAfter(t) \in Rows /\ RowAfter(t).type = NewType(t)
           /\ req[t] \in Requests /\ req[t].user \in Users /\ req[t].type \in Types
           /\ NewType(t) \in Types \cup {NoType}
<1>1. /\ req[t] \in Requests /\ req[t].user \in Users /\ req[t].type \in Types
      /\ t \in Writers
  BY DEF IInv, LockInv, Open, Requests, Writers
<1>2. NewType(t) \in Types \cup {NoType}
  BY <1>1 DEF NewType
<1>3. row[req[t].user] \in Rows /\ seen[t] \in Rows /\ row[req[t].user].id = seen[t].id
  BY <1>1 DEF IInv, TypeOK, LockInv
<1>4. CASE NewType(t) = NoType
  BY <1>1, <1>2, <1>4, RowFacts DEF RowAfter
<1>5. CASE NewType(t) # NoType
  <2>1. seen[t] # NoRow => row[req[t].user].id \in Toggles
    BY <1>3, RowFacts
  <2>2. QED
    BY <1>1, <1>2, <1>5, <2>1 DEF RowAfter, Rows
<1>6. QED
  BY <1>1, <1>2, <1>4, <1>5

\* The end of a transaction keeps what is known of the others.
LEMMA EndStep ==
    ASSUME IInv, NEW t \in Toggles, End(t), row' = row
    PROVE  /\ pc' \in [Toggles -> Locations] /\ seen' \in [Toggles -> Rows]
           /\ req' \in [Toggles -> Requests \cup {NoRequest}]
           /\ held' \in [Toggles -> SUBSET Types]
           /\ LockInv' /\ CountedInv'
<1>1. /\ pc' \in [Toggles -> Locations] /\ seen' \in [Toggles -> Rows]
      /\ req' \in [Toggles -> Requests \cup {NoRequest}]
      /\ held' \in [Toggles -> SUBSET Types]
  BY RowFacts DEF IInv, TypeOK, End, Goto, Locations
<1>2. pc'[t] = "done" /\ \A s \in Toggles \ {t} :
          pc'[s] = pc[s] /\ seen'[s] = seen[s] /\ req'[s] = req[s] /\ held'[s] = held[s]
  BY DEF IInv, TypeOK, End, Goto
<1>3. LockInv'
  BY <1>2 DEF IInv, LockInv, Open, Writers
<1>4. CountedInv'
  BY <1>2 DEF IInv, CountedInv, ToCount, NewType
<1>5. QED
  BY <1>1, <1>3, <1>4

LEMMA IInvStep == IInv /\ [Next]_vars => IInv'
<1> SUFFICES ASSUME IInv, [Next]_vars PROVE IInv'
  OBVIOUS
<1> USE DEF IInv
<1>1. ASSUME NEW t \in Toggles, NEW r \in Requests, Find(t, r) PROVE IInv'
  <2>1. r.user \in Users
    BY DEF Requests
  <2>2. TypeOK'
    BY <1>1, <2>1 DEF Find, Goto, TypeOK, Locations
  <2>3. LockInv'
    BY <1>1 DEF Find, Goto, TypeOK, LockInv, Open, Writers
  <2>4. CountedInv' /\ ListedInv'
    BY <1>1 DEF Find, Goto, TypeOK, CountedInv, ListedInv, ToCount, NewType
  <2>5. QED
    BY <2>2, <2>3, <2>4
<1>2. ASSUME NEW t \in Toggles, WriteRow(t) PROVE IInv'
  <2>1. TypeOK'
    BY <1>2 DEF WriteRow, Goto, TypeOK, Locations
  <2>2. LockInv'
    BY <1>2 DEF WriteRow, Goto, TypeOK, LockInv, Open, Writers, RowBusy
  <2>3. CountedInv' /\ ListedInv'
    BY <1>2 DEF WriteRow, Goto, TypeOK, CountedInv, ListedInv, ToCount, NewType
  <2>4. QED
    BY <2>1, <2>2, <2>3
<1>3. ASSUME NEW t \in Toggles, WriteRefused(t) \/ Fail(t) PROVE IInv'
  <2>1. End(t) /\ UNCHANGED <<row, tally, listed, stale>>
    BY <1>3 DEF WriteRefused, Fail
  <2>2. TypeOK' /\ LockInv' /\ CountedInv'
    BY <2>1, EndStep DEF TypeOK
  <2>3. ListedInv'
    BY <2>1 DEF ListedInv
  <2>4. QED
    BY <2>2, <2>3
<1>4. ASSUME NEW t \in Toggles, NEW ty \in Types, Upsert(t, ty) PROVE IInv'
  <2>1. TypeOK'
    BY <1>4 DEF Upsert, Goto, TypeOK, Locations
  <2>2. LockInv'
    BY <1>4 DEF Upsert, Goto, TypeOK, LockInv, Open, Writers
  <2>3. CountedInv'
    BY <1>4 DEF Upsert, Goto, TypeOK, CountedInv, ToCount, NewType
  <2>4. ListedInv'
    BY <1>4 DEF Upsert, ListedInv
  <2>5. QED
    BY <2>1, <2>2, <2>3, <2>4
<1>5. ASSUME NEW t \in Toggles, Commit(t) PROVE IInv'
  <2> DEFINE u == req[t].user
  <2>1. pc[t] = "commit" /\ t \in Writers
    BY <1>5 DEF Commit, Writers
  <2>2. /\ RowAfter(t) \in Rows /\ RowAfter(t).type = NewType(t)
        /\ u \in Users /\ NewType(t) \in Types \cup {NoType}
    BY <2>1, RowAfterType
  <2>3. row' \in [Users -> Rows] /\ row'[u] = RowAfter(t)
        /\ \A v \in Users \ {u} : row'[v] = row[v]
    BY <1>5, <2>2 DEF Commit, TypeOK
  <2>4. pc'[t] = "done" /\ \A s \in Toggles \ {t} :
            pc'[s] = pc[s] /\ seen'[s] = seen[s] /\ req'[s] = req[s] /\ held'[s] = held[s]
    BY <1>5 DEF Commit, End, Goto, TypeOK
  <2>5. TypeOK'
    <3>1. \A ty \in Types : Gain(t, ty) \in Int
      BY DEF Gain
    <3>2. tally' \in [Types -> Int]
      BY <1>5, <3>1 DEF Commit, TallyAfter, TypeOK
    <3>3. listed' \in SUBSET Types /\ stale' \in BOOLEAN
      BY <1>5 DEF Commit, TypeOK
    <3>4. /\ pc' \in [Toggles -> Locations] /\ seen' \in [Toggles -> Rows]
          /\ req' \in [Toggles -> Requests \cup {NoRequest}]
          /\ held' \in [Toggles -> SUBSET Types]
      BY <1>5, RowFacts DEF Commit, End, Goto, TypeOK, Locations
    <3>5. QED
      BY <2>3, <3>2, <3>3, <3>4 DEF TypeOK
  <2>6. LockInv'
    <3>1. \A s \in Writers' : s \in Writers /\ s # t
      BY <2>4 DEF Writers
    <3>2. \A s \in Writers \ {t} : req[s].user # u /\ req[s].user \in Users
      BY <2>1 DEF LockInv, Open, Writers, Requests
    <3>3. \A s \in Writers' : row'[req'[s].user].id = seen'[s].id
      BY <2>3, <2>4, <3>1, <3>2 DEF LockInv, Writers
    <3>4. \A s \in Toggles : Open(s)' => req'[s] \in Requests
      BY <2>4 DEF LockInv, Open
    <3>5. \A r, s \in Writers' : req'[r].user = req'[s].user => r = s
      BY <2>4, <3>1 DEF LockInv, Writers
    <3>6. QED
      BY <3>3, <3>4, <3>5 DEF LockInv
  <2>7. CountedInv'
    BY <2>4 DEF CountedInv, ToCount, NewType
  <2>8. ListedInv'
    <3>1. NewType(t) \in held[t] \cup {NoType}
      BY <2>1 DEF CountedInv, ToCount
    <3>2. listed' = listed \cup held[t]
      BY <1>5 DEF Commit
    <3>3. \A v \in Users : row'[v].type \in listed' \cup {NoType}
      BY <2>2, <2>3, <3>1, <3>2 DEF ListedInv
    <3>4. \A ty \in Types : ty \notin listed' => tally'[ty] = 0
      BY <1>5, <3>2 DEF Commit, TallyAfter, ListedInv
    <3>5. QED
      BY <3>3, <3>4 DEF ListedInv
  <2>9. QED
    BY <2>5, <2>6, <2>7, <2>8
<1>6. CASE UNCHANGED vars
  BY <1>6 DEF vars, TypeOK, LockInv, Open, Writers, CountedInv, ListedInv, ToCount, NewType
<1>7. QED
  BY <1>1, <1>2, <1>3, <1>4, <1>5, <1>6 DEF Next, Step

LEMMA Invariant == Spec => []IInv
  BY IInvInit, IInvStep, PTL DEF Spec

\* The rows, the aggregates and the transactions always have their types: no
\* aggregate or reaction is left half-written, whatever fails.
THEOREM TypeCorrect == Spec => []TypeOK
<1>1. IInv => TypeOK
  BY DEF IInv
<1>2. QED
  BY Invariant, <1>1, PTL

----------------------------------------------------------------------------
(* Refinement. *)

\* A commit over the row that was read is one atomic toggle.
LEMMA CommitToggles ==
    ASSUME IInv, NEW t \in Toggles, Commit(t), ~stale'
    PROVE  Votes!Toggle(req[t].user, req[t].type)
<1> DEFINE u == req[t].user
           ty == req[t].type
           vote == [v \in Users |-> row[v].type]
<1>1. pc[t] = "commit" /\ row[u].type = seen[t].type
  BY DEF Commit
<1>2. /\ RowAfter(t).type = NewType(t) /\ u \in Users
      /\ NewType(t) = Votes!Toggled(vote[u], ty)
  BY <1>1, RowAfterType DEF NewType, Votes!Toggled
<1>3. row' = [row EXCEPT ![u] = RowAfter(t)] /\ row \in [Users -> Rows]
  BY DEF Commit, IInv, TypeOK
<1>4. [v \in Users |-> row'[v].type] = [vote EXCEPT ![u] = Votes!Toggled(@, ty)]
  BY <1>2, <1>3
<1>5. ASSUME NEW k \in Types
      PROVE  tally'[k] = tally[k] + Votes!Gain(vote[u], Votes!Toggled(vote[u], ty), k)
  <2>1. Gain(t, k) = Votes!Gain(vote[u], Votes!Toggled(vote[u], ty), k)
    BY <1>1, <1>2 DEF Gain, Votes!Gain
  <2>2. tally'[k] = TallyAfter(t, k) /\ tally[k] \in Int
    BY DEF Commit, IInv, TypeOK
  <2>3. CASE k \notin held[t]
    <3>1. k # NewType(t) /\ k # seen[t].type
      BY <1>1, <2>3, ReactionConstants DEF IInv, CountedInv, ToCount
    <3>2. Gain(t, k) = 0
      BY <3>1 DEF Gain
    <3>3. QED
      BY <2>1, <2>2, <2>3, <3>2 DEF TallyAfter
  <2>4. CASE k \in held[t] /\ k \in listed
    BY <2>1, <2>2, <2>4 DEF TallyAfter
  <2>5. CASE k \in held[t] /\ k \notin listed
    <3>1. tally[k] = 0 /\ seen[t].type # k
      BY <1>1, <1>2, <2>5, ReactionConstants DEF IInv, ListedInv
    <3>2. Gain(t, k) = 0 \/ Gain(t, k) = 1
      BY <3>1 DEF Gain
    <3>3. QED
      BY <2>1, <2>2, <2>5, <3>1, <3>2 DEF TallyAfter
  <2>6. QED
    BY <2>3, <2>4, <2>5
<1>6. tally' = [k \in Types |-> tally[k] + Votes!Gain(vote[u], Votes!Toggled(vote[u], ty), k)]
  <2>1. tally' = [k \in Types |-> tally'[k]]
    BY DEF Commit
  <2>2. QED
    BY <1>5, <2>1
<1>7. QED
  BY <1>4, <1>6 DEF Votes!Toggle

LEMMA VotesStep == IInv /\ [Next]_vars /\ ~stale' => [Votes!Next]_(Votes!vars)
<1> SUFFICES ASSUME IInv, [Next]_vars, ~stale' PROVE [Votes!Next]_(Votes!vars)
  OBVIOUS
<1>1. ASSUME NEW t \in Toggles, Commit(t) PROVE Votes!Next
  <2>1. req[t].user \in Users /\ req[t].type \in Types
    BY <1>1, RowAfterType DEF Commit
  <2>2. PICK u \in Users, ty \in Types : u = req[t].user /\ ty = req[t].type
    BY <2>1
  <2>3. Votes!Toggle(u, ty)
    BY <1>1, <2>2, CommitToggles DEF Votes!Toggle
  <2>4. QED
    BY <2>3 DEF Votes!Next
<1>2. ASSUME UNCHANGED <<row, tally>> PROVE UNCHANGED Votes!vars
  BY <1>2 DEF Votes!vars
<1>3. ASSUME NEW t \in Toggles, NEW r \in Requests, Find(t, r) PROVE UNCHANGED <<row, tally>>
  BY <1>3 DEF Find
<1>4. ASSUME NEW t \in Toggles, WriteRow(t) \/ WriteRefused(t) \/ Fail(t)
      PROVE  UNCHANGED <<row, tally>>
  BY <1>4 DEF WriteRow, WriteRefused, Fail
<1>5. ASSUME NEW t \in Toggles, NEW ty \in Types, Upsert(t, ty) PROVE UNCHANGED <<row, tally>>
  BY <1>5 DEF Upsert
<1>6. QED
  BY <1>1, <1>2, <1>3, <1>4, <1>5 DEF Next, Step, vars

\* Until a stale write, any number of concurrent and failing toggles implement
\* atomic ones.
THEOREM Refinement == Spec => ImplementsVotes
<1>1. Init => Votes!Init
  BY DEF Init, Votes!Init, NoRow
<1>2. IInv /\ [Next]_vars => [~stale' => Votes!Next]_(Votes!vars)
  BY VotesStep
<1>3. QED
  BY <1>1, <1>2, Invariant, PTL DEF Spec, ImplementsVotes

----------------------------------------------------------------------------
(* Counting. *)

\* One vote more or less makes the number of votes one more or less.
LEMMA ToggleCounts ==
    ASSUME NEW vote \in [Users -> Types \cup {NoType}], NEW u \in Users, NEW v, NEW k \in Types,
           NEW next, next = [vote EXCEPT ![u] = v]
    PROVE  Cardinality({w \in Users : next[w] = k})
             = Cardinality({w \in Users : vote[w] = k}) + Votes!Gain(vote[u], v, k)
<1> DEFINE S == {w \in Users : vote[w] = k}
           T == {w \in Users : next[w] = k}
<1>1. IsFiniteSet(S) /\ Cardinality(S) \in Nat
  BY ReactionConstants, FS_Subset, FS_CardinalityType
<1>2. CASE vote[u] = k /\ v = k
  <2>1. T = S
    BY <1>2
  <2>2. QED
    BY <1>1, <1>2, <2>1 DEF Votes!Gain
<1>3. CASE vote[u] # k /\ v # k
  <2>1. T = S
    BY <1>3
  <2>2. QED
    BY <1>1, <1>3, <2>1 DEF Votes!Gain
<1>4. CASE vote[u] = k /\ v # k
  <2>1. T = S \ {u} /\ u \in S
    BY <1>4
  <2>2. Cardinality(T) = Cardinality(S) - 1
    BY <1>1, <2>1, FS_RemoveElement
  <2>3. QED
    BY <1>1, <1>4, <2>2 DEF Votes!Gain
<1>5. CASE vote[u] # k /\ v = k
  <2>1. T = S \cup {u} /\ u \notin S
    BY <1>5
  <2>2. Cardinality(T) = Cardinality(S) + 1
    BY <1>1, <2>1, FS_AddElement
  <2>3. QED
    BY <1>1, <1>5, <2>2 DEF Votes!Gain
<1>6. QED
  BY <1>2, <1>3, <1>4, <1>5

LEMMA CountsInit == Init => CountsMatchUnlessStale
<1> SUFFICES ASSUME Init PROVE CountsMatchUnlessStale
  OBVIOUS
<1>1. ASSUME NEW ty \in Types PROVE {u \in Users : row[u].type = ty} = {}
  BY ReactionConstants DEF Init, NoRow
<1>2. QED
  BY <1>1, FS_EmptySet DEF Init, CountsMatchUnlessStale, CountsMatch

LEMMA CountsStep == IInv /\ CountsMatchUnlessStale /\ [Next]_vars => CountsMatchUnlessStale'
<1> SUFFICES ASSUME IInv, CountsMatchUnlessStale, [Next]_vars, ~stale' PROVE CountsMatch'
  BY DEF CountsMatchUnlessStale
<1> DEFINE vote == [w \in Users |-> row[w].type]
<1>1. CASE UNCHANGED <<row, tally, stale>>
  BY <1>1 DEF CountsMatchUnlessStale, CountsMatch
<1>2. ASSUME NEW t \in Toggles, Commit(t) PROVE CountsMatch'
  <2> DEFINE u == req[t].user
             v == Votes!Toggled(vote[u], req[t].type)
  <2>1. Votes!Toggle(u, req[t].type) /\ u \in Users
    BY <1>2, CommitToggles, RowAfterType DEF Commit
  <2>2. /\ [w \in Users |-> row'[w].type] = [vote EXCEPT ![u] = v]
        /\ \A k \in Types : tally'[k] = tally[k] + Votes!Gain(vote[u], v, k)
    BY <2>1 DEF Votes!Toggle
  <2>3. vote \in [Users -> Types \cup {NoType}]
    BY RowFacts DEF IInv, TypeOK
  <2>4. CountsMatch
    BY <1>2 DEF CountsMatchUnlessStale, Commit, IInv, TypeOK
  <2>5. ASSUME NEW k \in Types
        PROVE  tally'[k] = Cardinality({w \in Users : row'[w].type = k})
    <3> DEFINE next == [w \in Users |-> row'[w].type]
    <3>0. next = [vote EXCEPT ![u] = v] /\ u \in Users
      BY <2>1, <2>2
    <3> HIDE DEF v, u, vote, next
    <3>1. Cardinality({w \in Users : next[w] = k})
            = Cardinality({w \in Users : vote[w] = k}) + Votes!Gain(vote[u], v, k)
      BY <2>3, <3>0, ToggleCounts
    <3>2. {w \in Users : next[w] = k} = {w \in Users : row'[w].type = k}
      BY DEF next
    <3>3. {w \in Users : vote[w] = k} = {w \in Users : row[w].type = k}
      BY DEF vote
    <3>4. QED
      BY <2>2, <2>4, <3>1, <3>2, <3>3 DEF CountsMatch
  <2>6. QED
    BY <2>5 DEF CountsMatch
<1>3. ASSUME NEW t \in Toggles, Step(t) \/ Fail(t), ~Commit(t)
      PROVE  UNCHANGED <<row, tally, stale>>
  BY <1>3 DEF Step, Find, WriteRow, WriteRefused, Upsert, Fail
<1>4. QED
  BY <1>1, <1>2, <1>3 DEF Next, vars

\* The displayed counts are the numbers of reactions until a stale write.
THEOREM Counted == Spec => []CountsMatchUnlessStale
  BY CountsInit, CountsStep, Invariant, PTL DEF Spec

----------------------------------------------------------------------------
(* Users who click once at a time *)

\* What a toggle has read is still there: nobody else writes its user's row.
Fresh ==
    /\ IInv /\ CountsMatchUnlessStale /\ InTurn
    /\ ~stale
    /\ \A t \in Toggles : Open(t) => row[req[t].user] = seen[t]

LEMMA FreshInit == Init => Fresh
<1>1. Init => InTurn /\ ~stale /\ \A t \in Toggles : ~Open(t)
  BY DEF Init, InTurn, Open
<1>2. QED
  BY <1>1, IInvInit, CountsInit DEF Fresh

LEMMA FreshStep == Fresh /\ [Next /\ InTurn']_vars => Fresh'
<1> SUFFICES ASSUME Fresh, [Next /\ InTurn']_vars PROVE Fresh'
  OBVIOUS
<1>1. /\ IInv /\ TypeOK /\ CountsMatchUnlessStale /\ InTurn /\ ~stale
      /\ \A t \in Toggles : Open(t) => row[req[t].user] = seen[t]
  BY DEF Fresh, IInv
<1>2. IInv' /\ CountsMatchUnlessStale'
  BY <1>1, IInvStep, CountsStep
<1>3. ASSUME UNCHANGED vars PROVE Fresh'
  BY <1>1, <1>2, <1>3 DEF Fresh, InTurn, Open, vars
<1>4. ASSUME NEW t \in Toggles, Step(t) \/ Fail(t), InTurn' PROVE Fresh'
  <2>1. ASSUME NEW r \in Requests, Find(t, r) PROVE Fresh'
    <3>1. ~stale' /\ row' = row /\ req'[t] = r /\ seen'[t] = row[r.user]
          /\ \A s \in Toggles \ {t} : req'[s] = req[s] /\ seen'[s] = seen[s] /\ pc'[s] = pc[s]
      BY <1>1, <2>1 DEF Find, Goto, TypeOK
    <3>2. QED
      BY <1>1, <1>2, <1>4, <3>1 DEF Fresh, Open
  <2>2. ASSUME WriteRow(t) \/ \E ty \in Types : Upsert(t, ty) PROVE Fresh'
    <3>1. Open(t) /\ ~stale' /\ UNCHANGED <<row, req, seen>>
          /\ \A s \in Toggles \ {t} : pc'[s] = pc[s]
      BY <1>1, <2>2 DEF WriteRow, Upsert, Goto, Open, TypeOK
    <3>2. QED
      BY <1>1, <1>2, <1>4, <3>1 DEF Fresh, Open
  <2>3. ASSUME WriteRefused(t) \/ Fail(t) PROVE Fresh'
    <3>1. ~stale' /\ row' = row /\ pc'[t] = "done"
          /\ \A s \in Toggles \ {t} : req'[s] = req[s] /\ seen'[s] = seen[s] /\ pc'[s] = pc[s]
      BY <1>1, <2>3 DEF WriteRefused, Fail, End, Goto, TypeOK
    <3>2. QED
      BY <1>1, <1>2, <1>4, <3>1 DEF Fresh, Open
  <2>4. ASSUME Commit(t) PROVE Fresh'
    <3>1. Open(t) /\ pc'[t] = "done" /\ row' = [row EXCEPT ![req[t].user] = RowAfter(t)]
          /\ stale' = (stale \/ row[req[t].user].type # seen[t].type)
          /\ \A s \in Toggles \ {t} : req'[s] = req[s] /\ seen'[s] = seen[s] /\ pc'[s] = pc[s]
      BY <1>1, <2>4 DEF Commit, End, Goto, Open, TypeOK
    <3>2. ~stale'
      BY <1>1, <3>1
    <3>3. ASSUME NEW s \in Toggles, Open(s)' PROVE row'[req'[s].user] = seen'[s]
      <4>1. s # t /\ Open(s) /\ req'[s] = req[s] /\ seen'[s] = seen[s]
        BY <3>1, <3>3 DEF Open
      <4>2. req[s].user # req[t].user /\ req[s].user \in Users
        BY <1>1, <3>1, <4>1 DEF InTurn, IInv, LockInv, Open, Requests
      <4>3. QED
        BY <1>1, <3>1, <4>1, <4>2 DEF TypeOK
    <3>4. QED
      BY <1>2, <1>4, <3>2, <3>3 DEF Fresh
  <2>5. QED
    BY <1>4, <2>1, <2>2, <2>3, <2>4 DEF Step
<1>5. QED
  BY <1>3, <1>4 DEF Next

LEMMA FreshInvariant == SpecInTurn => []Fresh
  BY FreshInit, FreshStep, PTL DEF SpecInTurn

\* When each user waits for an answer before the next click, the displayed counts
\* are always the numbers of reactions, whatever different users do at once and
\* whatever fails.
THEOREM CountedInTurn == SpecInTurn => []CountsMatch
<1>1. Fresh => CountsMatch
  BY DEF Fresh, CountsMatchUnlessStale
<1>2. QED
  BY <1>1, FreshInvariant, PTL

\* Then every commit is one atomic toggle.
THEOREM RefinementInTurn == SpecInTurn => ImplementsVotesInTurn
<1>1. SpecInTurn => Spec
  <2>1. [Next /\ InTurn']_vars => [Next]_vars
    OBVIOUS
  <2>2. QED
    BY <2>1, PTL DEF SpecInTurn, Spec
<1>2. Fresh' /\ [~stale' => Votes!Next]_(Votes!vars) => [Votes!Next]_(Votes!vars)
  BY DEF Fresh
<1>3. QED
  BY <1>1, <1>2, FreshInvariant, Refinement, PTL DEF ImplementsVotes, ImplementsVotesInTurn, Votes!Spec
=============================================================================
