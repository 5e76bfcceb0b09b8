--------------------------- MODULE CommentsProofs ---------------------------
(***************************************************************************)
(* Proofs about comments, for every set of comments, users, moderators and *)
(* requests and every limit: type correctness, edits that take approvals   *)
(* back until a stale write, exact flag counts, the rate limit, and until a     *)
(* stale write the implementation of atomic operations.                    *)
(***************************************************************************)
EXTENDS Comments, FiniteSetTheorems, TLAPS

Updates == {"update", "delete", "moderate", "pin", "flag"}

\* What a request knows at the await where it stands.
Knows(r) ==
    /\ pc[r] \in {"duplicate", "parent", "create", "update"} => req[r].text \in Texts
    /\ pc[r] = "parent" => req[r].parent # NoComment
    /\ pc[r] \in Updates => Exists(req[r].comment)
    /\ pc[r] = "create" /\ req[r].parent # NoComment =>
          /\ Exists(req[r].parent)
          /\ seen[r].depth = row[req[r].parent].depth
          /\ seen[r].depth + 1 <= MaxDepth
          /\ seen[r].status \notin {"DELETED", "REJECTED"}
    /\ pc[r] = "update" => seen[r].status # "DELETED"
    /\ pc[r] = "pin" => seen[r].status = "APPROVED"

IInv == TypeOK /\ \A r \in Requests : Knows(r)

\* A comment that exists keeps its author, post, parent and depth.
Lasting(c) ==
    Exists(c) =>
        /\ row'[c] # Absent
        /\ row'[c].author = row[c].author /\ row'[c].depth = row[c].depth

LEMMA AbsentFacts ==
    /\ Absent.author \in Users /\ Absent.post \in Posts /\ Absent.depth = 0
    /\ Absent.text = NoText /\ Absent.status = "PENDING" /\ Absent.flags = 0
    /\ Absent.parent = NoComment /\ Absent.active = FALSE /\ Absent.pinned = FALSE
    /\ Absent \notin Rows /\ NoReq \in Reqs
<1>1. Absent.author \in Users /\ Absent.post \in Posts
  BY CommentsConstants, Zenon DEF Absent
<1>2. /\ Absent.text = NoText /\ Absent.status = "PENDING" /\ Absent.flags = 0
      /\ Absent.depth = 0
      /\ Absent.parent = NoComment /\ Absent.active = FALSE /\ Absent.pinned = FALSE
  BY DEF Absent
<1>3. Absent \notin Rows
  BY <1>2, CommentsConstants DEF Rows
<1>4. NoReq \in Reqs
  <2>1. "PENDING" \in Statuses
    BY DEF Statuses
  <2>2. QED
    BY <1>1, <2>1 DEF NoReq, Reqs
<1>5. QED
  BY <1>1, <1>2, <1>3, <1>4

\* A comment that exists is a row of the table.
LEMMA ExistsRow ==
    ASSUME TypeOK, NEW c, Exists(c)
    PROVE  c \in Comments /\ row[c] \in Rows /\ row[c].text \in Texts /\ row[c].text # NoText
  BY CommentsConstants DEF TypeOK, Exists, Rows

LEMMA IInvInit == Init => IInv
<1> SUFFICES ASSUME Init PROVE IInv
  OBVIOUS
<1>1. row \in [Comments -> Rows \cup {Absent}]
  BY CommentsConstants DEF Init
<1>2. approved \in [Comments -> Texts \cup {NoText}]
  <2>1. \A c \in Comments : row[c].text \in Texts \cup {NoText}
    BY <1>1, AbsentFacts DEF Rows
  <2>2. QED
    BY <2>1 DEF Init
<1>3. TypeOK
  <2>1. age \in [Comments -> Ages] /\ pc \in [Requests -> Locations]
    BY DEF Init, Ages, Locations
  <2>2. req \in [Requests -> Reqs] /\ seen \in [Requests -> Rows \cup {Absent}]
    BY AbsentFacts DEF Init
  <2>3. flagged = {} /\ counted \in [Requests -> SUBSET Comments]
    BY DEF Init
  <2>4. QED
    BY <1>1, <1>2, <2>1, <2>2, <2>3 DEF Init, TypeOK
<1>4. \A r \in Requests : Knows(r)
  BY DEF Init, Knows, Updates
<1>5. QED
  BY <1>3, <1>4 DEF IInv

\* A request that does not step, over rows that last, knows what it knew.
LEMMA OthersKnow ==
    ASSUME IInv, NEW r \in Requests, pc'[r] = pc[r], req'[r] = req[r], seen'[r] = seen[r],
           \A c \in Comments : Lasting(c)
    PROVE  Knows(r)'
  BY DEF IInv, Knows, Lasting, Exists, Updates

\* The end of a request keeps the types of the requests, and it knows nothing.
LEMMA EndStep ==
    ASSUME IInv, NEW r \in Requests, End(r)
    PROVE  /\ pc' \in [Requests -> Locations] /\ req' \in [Requests -> Reqs]
           /\ seen' \in [Requests -> Rows \cup {Absent}]
           /\ counted' \in [Requests -> SUBSET Comments]
           /\ pc'[r] = "done" /\ counted'[r] = {}
           /\ Knows(r)'
           /\ \A s \in Requests \ {r} : /\ pc'[s] = pc[s] /\ req'[s] = req[s]
                                        /\ seen'[s] = seen[s] /\ counted'[s] = counted[s]
<1>1. /\ pc' \in [Requests -> Locations] /\ req' \in [Requests -> Reqs]
      /\ seen' \in [Requests -> Rows \cup {Absent}]
      /\ counted' \in [Requests -> SUBSET Comments]
  BY AbsentFacts DEF End, Goto, IInv, TypeOK, Locations
<1>2. /\ pc'[r] = "done" /\ counted'[r] = {}
      /\ \A s \in Requests \ {r} : /\ pc'[s] = pc[s] /\ req'[s] = req[s]
                                   /\ seen'[s] = seen[s] /\ counted'[s] = counted[s]
  BY DEF End, Goto, IInv, TypeOK
<1>3. Knows(r)'
  BY <1>2 DEF Knows, Updates
<1>4. QED
  BY <1>1, <1>2, <1>3

\* What each update leaves of the row, and the row it is decided on.
LEMMA PutRow ==
    ASSUME IInv, NEW r \in Requests, NEW l \in Updates, NEW new, NEW d, Put(r, l, new, d),
           new \in Rows, new.author = Now(r).author, new.depth = Now(r).depth
    PROVE  /\ row' \in [Comments -> Rows \cup {Absent}]
           /\ req[r].comment \in Comments /\ row'[req[r].comment] = new
           /\ \A c \in Comments \ {req[r].comment} : row'[c] = row[c]
           /\ \A c \in Comments : Lasting(c)
<1>1. Exists(req[r].comment) /\ req[r].comment \in Comments
  BY DEF IInv, Knows, Put, Exists
<1>2. /\ row' \in [Comments -> Rows \cup {Absent}] /\ row'[req[r].comment] = new
      /\ \A c \in Comments \ {req[r].comment} : row'[c] = row[c]
  BY <1>1 DEF Put, IInv, TypeOK
<1>3. \A c \in Comments : Lasting(c)
  BY <1>1, <1>2, AbsentFacts DEF Lasting, Now, Exists
<1>4. QED
  BY <1>1, <1>2, <1>3

\* Every update of a comment stores a row that differs in what it is about only.
LEMMA UpdateWrites ==
    ASSUME IInv, NEW r \in Requests,
           Update(r) \/ Delete(r) \/ Moderate(r) \/ Pin(r) \/ Flag(r)
    PROVE  /\ row' \in [Comments -> Rows \cup {Absent}]
           /\ \A c \in Comments : Lasting(c)
           /\ End(r) /\ UNCHANGED <<age, crowded>>
           /\ stale' \in BOOLEAN /\ (stale => stale')
           /\ \A c \in Comments : c # req[r].comment => row'[c] = row[c]
           /\ req[r].comment \in Comments /\ Exists(req[r].comment)
<1> DEFINE c == req[r].comment
<1>1. pc[r] \in Updates /\ Exists(c)
  BY DEF Update, Delete, Moderate, Pin, Flag, Put, Updates, IInv, Knows
<1>2. Now(r) \in Rows
  BY <1>1, ExistsRow DEF Now, IInv
<1>3. ASSUME NEW l \in Updates, NEW new \in Rows, NEW d \in BOOLEAN, Put(r, l, new, d),
             new.author = Now(r).author, new.depth = Now(r).depth
      PROVE  /\ row' \in [Comments -> Rows \cup {Absent}]
             /\ \A x \in Comments : Lasting(x)
             /\ stale' \in BOOLEAN /\ (stale => stale')
             /\ \A x \in Comments : x # c => row'[x] = row[x]
  <2>1. /\ row' \in [Comments -> Rows \cup {Absent}]
        /\ \A x \in Comments : Lasting(x)
        /\ \A x \in Comments : x # c => row'[x] = row[x]
    BY <1>3, PutRow
  <2>2. stale' \in BOOLEAN /\ (stale => stale')
    BY <1>3 DEF Put, IInv, TypeOK
  <2>3. QED
    BY <1>3, <2>1, <2>2 DEF Put
<1>4. End(r) /\ UNCHANGED <<age, crowded>>
  BY DEF Update, Delete, Moderate, Pin, Flag, Put
<1>5. CASE Update(r)
  <2>1. req[r].text \in Texts
    BY <1>5 DEF Update, Put, IInv, Knows
  <2> DEFINE new == [Now(r) EXCEPT !.text = req[r].text, !.status = "PENDING"]
  <2>2. new \in Rows /\ new.author = Now(r).author /\ new.depth = Now(r).depth
    BY <1>2, <2>1 DEF Rows, Statuses
  <2>3. Put(r, "update", new, Now(r).status # seen[r].status)
    BY <1>5 DEF Update
  <2> HIDE DEF new
  <2>4. QED
    BY <1>1, <1>3, <1>4, <2>2, <2>3 DEF Updates, Exists
<1>6. CASE Delete(r)
  <2> DEFINE new == [Now(r) EXCEPT !.status = "DELETED", !.active = FALSE]
  <2>1. new \in Rows /\ new.author = Now(r).author /\ new.depth = Now(r).depth
    BY <1>2 DEF Rows, Statuses
  <2>2. Put(r, "delete", new, FALSE)
    BY <1>6 DEF Delete
  <2> HIDE DEF new
  <2>3. QED
    BY <1>1, <1>3, <1>4, <2>1, <2>2 DEF Updates, Exists
<1>7. CASE Moderate(r)
  <2>1. req[r].status \in Statuses
    BY DEF IInv, TypeOK, Reqs
  <2> DEFINE new == [Now(r) EXCEPT !.status = req[r].status]
  <2>2. new \in Rows /\ new.author = Now(r).author /\ new.depth = Now(r).depth
    BY <1>2, <2>1 DEF Rows
  <2>3. Put(r, "moderate", new, Now(r).text # seen[r].text)
    BY <1>7 DEF Moderate
  <2> HIDE DEF new
  <2>4. QED
    BY <1>1, <1>3, <1>4, <2>2, <2>3 DEF Updates, Exists
<1>8. CASE Pin(r)
  <2>1. req[r].pin \in BOOLEAN
    BY DEF IInv, TypeOK, Reqs
  <2> DEFINE new == [Now(r) EXCEPT !.pinned = req[r].pin]
  <2>2. new \in Rows /\ new.author = Now(r).author /\ new.depth = Now(r).depth
    BY <1>2, <2>1 DEF Rows
  <2>3. Put(r, "pin", new, Now(r).status # seen[r].status)
    BY <1>8 DEF Pin
  <2> HIDE DEF new
  <2>4. QED
    BY <1>1, <1>3, <1>4, <2>2, <2>3 DEF Updates, Exists
<1>9. CASE Flag(r)
  <2> DEFINE new == [Now(r) EXCEPT !.flags = @ + 1]
  <2>1. new \in Rows /\ new.author = Now(r).author /\ new.depth = Now(r).depth
    BY <1>2 DEF Rows
  <2>2. Put(r, "flag", new, FALSE)
    BY <1>9 DEF Flag
  <2> HIDE DEF new
  <2>3. QED
    BY <1>1, <1>3, <1>4, <2>1, <2>2 DEF Updates, Exists
<1>10. QED
  BY <1>5, <1>6, <1>7, <1>8, <1>9

\* What Create inserts.
NewRow(r) ==
    [author |-> req[r].user, post |-> req[r].post, parent |-> req[r].parent,
     depth |-> IF req[r].parent = NoComment THEN 0 ELSE seen[r].depth + 1,
     text |-> req[r].text, status |-> "PENDING", active |-> TRUE,
     pinned |-> FALSE, flags |-> 0]

LEMMA CreateWrites ==
    ASSUME IInv, NEW r \in Requests, NEW c \in Comments, Create(r, c)
    PROVE  /\ row' \in [Comments -> Rows \cup {Absent}]
           /\ row[c] = Absent /\ row'[c] = NewRow(r) /\ NewRow(r) \in Rows
           /\ \A d \in Comments : d # c => row'[d] = row[d]
           /\ \A d \in Comments : Lasting(d)
           /\ age' \in [Comments -> Ages] /\ age' = [age EXCEPT ![c] = "new"]
           /\ stale' \in BOOLEAN /\ crowded' \in BOOLEAN
<1>1. row' = [row EXCEPT ![c] = NewRow(r)] /\ row[c] = Absent
  BY DEF Create, NewRow, Exists
<1>2. NewRow(r) \in Rows
  <2>1. req[r] \in Reqs /\ req[r].text \in Texts /\ seen[r] \in Rows \cup {Absent}
    BY DEF Create, IInv, TypeOK, Knows
  <2>2. NewRow(r).depth \in 0..MaxDepth
    <3>1. CASE req[r].parent = NoComment
      BY <3>1, CommentsConstants DEF NewRow
    <3>2. CASE req[r].parent # NoComment
      <4>1. seen[r].depth \in 0..MaxDepth /\ seen[r].depth + 1 <= MaxDepth
        BY <2>1, <3>2, AbsentFacts, CommentsConstants DEF Create, IInv, Knows, Rows
      <4>2. QED
        BY <3>2, <4>1, CommentsConstants DEF NewRow
    <3>3. QED
      BY <3>1, <3>2
  <2>3. QED
    BY <2>1, <2>2 DEF NewRow, Rows, Reqs, Statuses
<1>3. /\ row' \in [Comments -> Rows \cup {Absent}] /\ row'[c] = NewRow(r)
      /\ \A d \in Comments : d # c => row'[d] = row[d]
  BY <1>1, <1>2 DEF IInv, TypeOK
<1>4. \A d \in Comments : Lasting(d)
  BY <1>1, <1>3 DEF Lasting, Exists
<1>5. /\ age' \in [Comments -> Ages] /\ age' = [age EXCEPT ![c] = "new"]
      /\ stale' \in BOOLEAN /\ crowded' \in BOOLEAN
  BY DEF Create, IInv, TypeOK, Ages
<1>6. QED
  BY <1>1, <1>2, <1>3, <1>4, <1>5

\* The first statement of an operation keeps the types and knows what it checked.
LEMMA StartStep ==
    ASSUME IInv, NEW r \in Requests, NEW u \in Users, Start(r, u)
    PROVE  /\ pc' \in [Requests -> Locations] /\ req' \in [Requests -> Reqs]
           /\ seen' \in [Requests -> Rows \cup {Absent}]
           /\ counted' \in [Requests -> SUBSET Comments]
           /\ Knows(r)' /\ pc[r] = "idle"
           /\ \A s \in Requests \ {r} : /\ pc'[s] = pc[s] /\ req'[s] = req[s]
                                        /\ seen'[s] = seen[s] /\ counted'[s] = counted[s]
           /\ UNCHANGED <<row, age, approved, flagged, stale, crowded>>
<1> DEFINE Shape ==
        /\ pc' \in [Requests -> Locations] /\ req' \in [Requests -> Reqs]
        /\ seen' \in [Requests -> Rows \cup {Absent}]
        /\ counted' \in [Requests -> SUBSET Comments]
        /\ pc[r] = "idle"
        /\ \A s \in Requests \ {r} : /\ pc'[s] = pc[s] /\ req'[s] = req[s]
                                     /\ seen'[s] = seen[s] /\ counted'[s] = counted[s]
        /\ UNCHANGED <<row, age, approved, flagged, stale, crowded>>
<1>1. ASSUME NEW l \in Updates, NEW c \in Comments, NEW q \in Reqs, Find(r, u, c, l),
             req' = [req EXCEPT ![r] = q]
      PROVE  /\ Shape /\ pc'[r] = l /\ req'[r] = q /\ seen'[r] = row[c] /\ Exists(c)
             /\ counted' = counted
  BY <1>1 DEF Find, Goto, IInv, TypeOK, Locations, Updates
<1>2. ASSUME NEW p \in Posts, NEW q \in Comments \cup {NoComment}, NEW t \in Texts,
             Count(r, u, p, q, t)
      PROVE  Shape /\ Knows(r)'
  <2> DEFINE new == [NoReq EXCEPT !.user = u, !.text = t, !.parent = q, !.post = p]
  <2>1. new \in Reqs /\ new.text = t
    BY AbsentFacts DEF Reqs, NoReq
  <2>2. req' = [req EXCEPT ![r] = new]
    BY <1>2 DEF Count
  <2> HIDE DEF new
  <2>3. CommentsBy(u) \in SUBSET Comments
    BY DEF CommentsBy
  <2>4. Shape /\ pc'[r] = "duplicate" /\ req'[r].text = t
    BY <1>2, <2>1, <2>2, <2>3 DEF Count, Goto, IInv, TypeOK, Locations
  <2>5. QED
    BY <2>4 DEF Knows, Updates
<1>3. ASSUME NEW c \in Comments, NEW t \in Texts, FindToUpdate(r, u, c, t)
      PROVE  Shape /\ Knows(r)'
  <2> DEFINE new == [NoReq EXCEPT !.user = u, !.comment = c, !.text = t]
  <2>1. new \in Reqs /\ new.text = t /\ new.comment = c
    BY AbsentFacts DEF Reqs, NoReq
  <2>2. req' = [req EXCEPT ![r] = new] /\ Find(r, u, c, "update") /\ row[c].status # "DELETED"
    BY <1>3 DEF FindToUpdate
  <2> HIDE DEF new, Shape
  <2>3. /\ Shape /\ pc'[r] = "update" /\ req'[r] = new /\ seen'[r] = row[c] /\ Exists(c)
    BY <1>1, <2>1, <2>2 DEF Updates
  <2>4. Exists(req[r].comment)'
    BY <2>1, <2>2, <2>3 DEF Exists, Find
  <2>5. QED
    BY <2>1, <2>2, <2>3, <2>4 DEF Knows
<1>4. ASSUME NEW c \in Comments, FindToDelete(r, u, c) \/ FindToFlag(r, u, c)
      PROVE  Shape /\ Knows(r)'
  <2> DEFINE new == [NoReq EXCEPT !.user = u, !.comment = c]
  <2>1. new \in Reqs /\ new.comment = c
    BY AbsentFacts DEF Reqs, NoReq
  <2>2. PICK l \in {"delete", "flag"} : req' = [req EXCEPT ![r] = new] /\ Find(r, u, c, l)
    BY <1>4 DEF FindToDelete, FindToFlag
  <2> HIDE DEF new, Shape
  <2>3. /\ Shape /\ pc'[r] = l /\ req'[r] = new /\ seen'[r] = row[c] /\ Exists(c)
    BY <1>1, <2>1, <2>2 DEF Updates
  <2>4. Exists(req[r].comment)'
    BY <2>1, <2>2, <2>3 DEF Exists, Find
  <2>5. QED
    BY <2>1, <2>2, <2>3, <2>4 DEF Knows
<1>5. ASSUME NEW c \in Comments, NEW s \in Judgements, FindToModerate(r, u, c, s)
      PROVE  Shape /\ Knows(r)'
  <2> DEFINE new == [NoReq EXCEPT !.user = u, !.comment = c, !.status = s]
  <2>1. new \in Reqs /\ new.comment = c
    BY AbsentFacts, CommentsConstants DEF Reqs, NoReq
  <2>2. req' = [req EXCEPT ![r] = new] /\ Find(r, u, c, "moderate")
    BY <1>5 DEF FindToModerate
  <2> HIDE DEF new, Shape
  <2>3. /\ Shape /\ pc'[r] = "moderate" /\ req'[r] = new /\ seen'[r] = row[c] /\ Exists(c)
    BY <1>1, <2>1, <2>2 DEF Updates
  <2>4. Exists(req[r].comment)'
    BY <2>1, <2>2, <2>3 DEF Exists, Find
  <2>5. QED
    BY <2>1, <2>2, <2>3, <2>4 DEF Knows
<1>6. ASSUME NEW c \in Comments, NEW b \in BOOLEAN, FindToPin(r, u, c, b)
      PROVE  Shape /\ Knows(r)'
  <2> DEFINE new == [NoReq EXCEPT !.user = u, !.comment = c, !.pin = b]
  <2>1. new \in Reqs /\ new.comment = c
    BY AbsentFacts DEF Reqs, NoReq
  <2>2. req' = [req EXCEPT ![r] = new] /\ Find(r, u, c, "pin") /\ row[c].status = "APPROVED"
    BY <1>6 DEF FindToPin
  <2> HIDE DEF new, Shape
  <2>3. /\ Shape /\ pc'[r] = "pin" /\ req'[r] = new /\ seen'[r] = row[c] /\ Exists(c)
    BY <1>1, <2>1, <2>2 DEF Updates
  <2>4. Exists(req[r].comment)'
    BY <2>1, <2>2, <2>3 DEF Exists, Find
  <2>5. QED
    BY <2>1, <2>2, <2>3, <2>4 DEF Knows
<1>7. Shape /\ Knows(r)'
  <2> HIDE DEF Shape
  <2>1. QED
    BY <1>2, <1>3, <1>4, <1>5, <1>6 DEF Start
<1>8. QED
  BY <1>7

LEMMA IInvStep == IInv /\ [Next]_vars => IInv'
<1> SUFFICES ASSUME IInv, [Next]_vars PROVE IInv'
  OBVIOUS
<1>1. ASSUME UNCHANGED row PROVE \A c \in Comments : Lasting(c)
  BY <1>1 DEF Lasting, Exists
<1>2. ASSUME NEW r \in Requests, NEW u \in Users, Start(r, u) PROVE IInv'
  <2>1. TypeOK'
    BY <1>2, StartStep DEF IInv, TypeOK
  <2>2. \A s \in Requests : Knows(s)'
    BY <1>1, <1>2, StartStep, OthersKnow
  <2>3. QED
    BY <2>1, <2>2 DEF IInv
<1>3. ASSUME NEW r \in Requests, CheckDuplicate(r), ~Refused(r) PROVE IInv'
  <2>1. /\ pc[r] = "duplicate"
        /\ Goto(r, IF req[r].parent = NoComment THEN "create" ELSE "parent")
        /\ UNCHANGED <<row, age, req, seen, approved, flagged, counted, stale, crowded>>
    BY <1>3 DEF CheckDuplicate
  <2>2. TypeOK'
    BY <2>1 DEF Goto, IInv, TypeOK, Locations
  <2>3. Knows(r)'
    BY <2>1 DEF Goto, IInv, TypeOK, Knows, Updates
  <2>4. \A s \in Requests \ {r} : pc'[s] = pc[s]
    BY <2>1 DEF Goto, IInv, TypeOK
  <2>5. \A s \in Requests : Knows(s)'
    BY <1>1, <2>1, <2>3, <2>4, OthersKnow
  <2>6. QED
    BY <2>2, <2>5 DEF IInv
<1>4. ASSUME NEW r \in Requests, FindParent(r), ~Refused(r) PROVE IInv'
  <2>1. /\ pc[r] = "parent" /\ Answerable(req[r].parent)
        /\ seen' = [seen EXCEPT ![r] = row[req[r].parent]]
        /\ Goto(r, "create")
        /\ UNCHANGED <<row, age, req, approved, flagged, counted, stale, crowded>>
    BY <1>4 DEF FindParent
  <2>2. Exists(req[r].parent) /\ req[r].parent \in Comments
    BY <2>1 DEF Answerable, Exists
  <2>3. TypeOK'
    BY <2>1, <2>2 DEF Goto, IInv, TypeOK, Locations
  <2>4. pc'[r] = "create" /\ seen'[r] = row[req[r].parent]
    BY <2>1 DEF Goto, IInv, TypeOK
  <2>5. Knows(r)'
    BY <2>1, <2>2, <2>4 DEF IInv, Knows, Answerable, Exists, Updates
  <2>6. \A s \in Requests \ {r} : pc'[s] = pc[s] /\ seen'[s] = seen[s]
    BY <2>1 DEF Goto, IInv, TypeOK
  <2>7. \A s \in Requests : Knows(s)'
    BY <1>1, <2>1, <2>5, <2>6, OthersKnow
  <2>8. QED
    BY <2>3, <2>7 DEF IInv
<1>5. ASSUME NEW r \in Requests, Refused(r) PROVE IInv'
  <2>1. End(r) /\ UNCHANGED <<row, age, approved, flagged, stale, crowded>>
    BY <1>5 DEF Refused
  <2>2. TypeOK'
    BY <2>1, EndStep DEF IInv, TypeOK
  <2>3. \A s \in Requests : Knows(s)'
    BY <1>1, <2>1, EndStep, OthersKnow
  <2>4. QED
    BY <2>2, <2>3 DEF IInv
<1>6. ASSUME NEW r \in Requests, NEW c \in Comments, Create(r, c) PROVE IInv'
  <2>1. End(r) /\ UNCHANGED <<approved, flagged>>
    BY <1>6 DEF Create
  <2>2. TypeOK'
    BY <1>6, <2>1, CreateWrites, EndStep DEF IInv, TypeOK
  <2>3. \A s \in Requests : Knows(s)'
    BY <1>6, <2>1, CreateWrites, EndStep, OthersKnow
  <2>4. QED
    BY <2>2, <2>3 DEF IInv
<1>7. ASSUME NEW r \in Requests, Update(r) \/ Delete(r) \/ Moderate(r) \/ Pin(r) \/ Flag(r)
      PROVE  IInv'
  <2>1. approved' \in [Comments -> Texts \cup {NoText}]
    <3>1. seen[r].text \in Texts \cup {NoText}
      BY AbsentFacts DEF IInv, TypeOK, Rows
    <3>2. QED
      BY <1>7, <3>1 DEF Update, Delete, Moderate, Pin, Flag, IInv, TypeOK
  <2>2. flagged' \subseteq [by : Requests, comment : Comments]
    <3>1. flagged' = flagged \/ flagged' = flagged \cup {[by |-> r, comment |-> req[r].comment]}
      BY <1>7 DEF Update, Delete, Moderate, Pin, Flag
    <3>2. req[r].comment \in Comments
      BY <1>7, UpdateWrites
    <3>3. QED
      BY <3>1, <3>2 DEF IInv, TypeOK
  <2>3. TypeOK'
    BY <1>7, <2>1, <2>2, UpdateWrites, EndStep DEF IInv, TypeOK
  <2>4. \A s \in Requests : Knows(s)'
    BY <1>7, UpdateWrites, EndStep, OthersKnow
  <2>5. QED
    BY <2>3, <2>4 DEF IInv
<1>8. ASSUME NEW c \in Comments, Age(c) PROVE IInv'
  <2>1. TypeOK'
    BY <1>8 DEF Age, IInv, TypeOK, Ages
  <2>2. \A s \in Requests : Knows(s)'
    BY <1>1, <1>8, OthersKnow DEF Age
  <2>3. QED
    BY <2>1, <2>2 DEF IInv
<1>9. CASE UNCHANGED vars
  BY <1>9 DEF vars, IInv, TypeOK, Knows, Exists, Updates
<1>10. QED
  BY <1>2, <1>3, <1>4, <1>5, <1>6, <1>7, <1>8, <1>9 DEF Next, Write, Stop

LEMMA Invariant == Spec => []IInv
  BY IInvInit, IInvStep, PTL DEF Spec

\* Comments, requests and histories always have their types: every reply has a
\* depth within MAX_NESTING_DEPTH, and every update is of a comment that exists.
THEOREM TypeCorrect == Spec => []TypeOK
<1>1. IInv => TypeOK
  BY DEF IInv
<1>2. QED
  BY Invariant, <1>1, PTL

\* The rows that the updates store: each changes what it is about only.
LEMMA UpdateForms ==
    ASSUME IInv, NEW r \in Requests
    PROVE  LET c == req[r].comment IN
           /\ Update(r) => row'[c] = [row[c] EXCEPT !.text = req[r].text, !.status = "PENDING"]
           /\ Delete(r) => row'[c] = [row[c] EXCEPT !.status = "DELETED", !.active = FALSE]
           /\ Moderate(r) => row'[c] = [row[c] EXCEPT !.status = req[r].status]
           /\ Pin(r) => row'[c] = [row[c] EXCEPT !.pinned = req[r].pin]
           /\ Flag(r) => row'[c] = [row[c] EXCEPT !.flags = @ + 1]
<1> DEFINE c == req[r].comment
<1>1. ASSUME NEW l \in Updates, NEW new, NEW d, Put(r, l, new, d)
      PROVE  row'[c] = new
  BY <1>1 DEF Put, IInv, TypeOK, Knows, Exists
<1>2. /\ Update(r) => row'[c] = [Now(r) EXCEPT !.text = req[r].text, !.status = "PENDING"]
      /\ Delete(r) => row'[c] = [Now(r) EXCEPT !.status = "DELETED", !.active = FALSE]
      /\ Moderate(r) => row'[c] = [Now(r) EXCEPT !.status = req[r].status]
      /\ Pin(r) => row'[c] = [Now(r) EXCEPT !.pinned = req[r].pin]
      /\ Flag(r) => row'[c] = [Now(r) EXCEPT !.flags = @ + 1]
  BY <1>1 DEF Update, Delete, Moderate, Pin, Flag, Updates
<1>3. QED
  BY <1>2 DEF Now

----------------------------------------------------------------------------
(* Moderation. *)

LEMMA ApprovedTextStep == IInv /\ ApprovedAsReadUnlessStale /\ [Next]_vars => ApprovedAsReadUnlessStale'
<1> SUFFICES ASSUME IInv, ApprovedAsReadUnlessStale, [Next]_vars, ~stale'
             PROVE  \A c \in Comments : row'[c].status = "APPROVED" => approved'[c] = row'[c].text
  BY DEF ApprovedAsReadUnlessStale, ApprovedAsRead
<1>1. ASSUME UNCHANGED <<row, approved, stale>>
      PROVE  \A c \in Comments : row'[c].status = "APPROVED" => approved'[c] = row'[c].text
  BY <1>1 DEF ApprovedAsReadUnlessStale, ApprovedAsRead
<1>2. ASSUME NEW r \in Requests,
             \/ \E u \in Users : Start(r, u)
             \/ CheckDuplicate(r) \/ FindParent(r) \/ Stop(r)
      PROVE  UNCHANGED <<row, approved, stale>>
  BY <1>2, StartStep DEF CheckDuplicate, FindParent, Stop, Refused
<1>3. ASSUME NEW r \in Requests, NEW c \in Comments, Create(r, c)
      PROVE  \A d \in Comments : row'[d].status = "APPROVED" => approved'[d] = row'[d].text
  <2>1. row'[c] = NewRow(r) /\ \A d \in Comments : d # c => row'[d] = row[d]
    BY <1>3, CreateWrites
  <2>2. approved' = approved /\ ~stale
    BY <1>3 DEF Create, IInv, TypeOK
  <2>3. row'[c].status = "PENDING"
    BY <2>1 DEF NewRow
  <2>4. QED
    BY <2>1, <2>2, <2>3 DEF ApprovedAsReadUnlessStale, ApprovedAsRead
<1>4. ASSUME NEW r \in Requests, Update(r) \/ Delete(r) \/ Moderate(r) \/ Pin(r) \/ Flag(r)
      PROVE  \A d \in Comments : row'[d].status = "APPROVED" => approved'[d] = row'[d].text
  <2> DEFINE c == req[r].comment
  <2>1. /\ c \in Comments /\ row[c] \in Rows /\ ~stale
        /\ \A d \in Comments : d # c => row'[d] = row[d]
    BY <1>4, UpdateWrites, ExistsRow DEF IInv
  <2>2. \A d \in Comments : d # c => approved'[d] = approved[d]
    BY <1>4, <2>1 DEF Update, Delete, Moderate, Pin, Flag, IInv, TypeOK
  <2>3. row[c].status = "APPROVED" => approved[c] = row[c].text
    BY <2>1 DEF ApprovedAsReadUnlessStale, ApprovedAsRead
  <2>4. CASE Update(r) \/ Delete(r)
    <3>1. row'[c].status # "APPROVED"
      BY <2>1, <2>4, UpdateForms DEF Rows
    <3>2. QED
      BY <2>1, <2>2, <3>1 DEF ApprovedAsReadUnlessStale, ApprovedAsRead
  <2>5. CASE Moderate(r)
    <3>1. row'[c].status = req[r].status /\ row'[c].text = row[c].text
      BY <2>1, <2>5, UpdateForms DEF Rows
    <3>2. row[c].text = seen[r].text
      BY <2>5 DEF Moderate, Put, Now
    <3>3. req[r].status = "APPROVED" => approved'[c] = seen[r].text
      BY <2>1, <2>5 DEF Moderate, IInv, TypeOK
    <3>4. QED
      BY <2>1, <2>2, <3>1, <3>2, <3>3 DEF ApprovedAsReadUnlessStale, ApprovedAsRead
  <2>6. CASE Pin(r) \/ Flag(r)
    <3>1. row'[c].status = row[c].status /\ row'[c].text = row[c].text
      BY <2>1, <2>6, UpdateForms DEF Rows
    <3>2. approved' = approved
      BY <2>6 DEF Pin, Flag
    <3>3. QED
      BY <2>1, <2>3, <3>1, <3>2 DEF ApprovedAsReadUnlessStale, ApprovedAsRead
  <2>7. QED
    BY <1>4, <2>4, <2>5, <2>6
<1>5. ASSUME NEW c \in Comments, Age(c) PROVE UNCHANGED <<row, approved, stale>>
  BY <1>5 DEF Age
<1>6. QED
  BY <1>1, <1>2, <1>3, <1>4, <1>5 DEF Next, Write, vars

\* Until an update is decided on a row that has changed, the text of every
\* approved comment is the one that the approving request itself had read: an edit
\* made later has sent the comment back to PENDING.
THEOREM ApprovedTextKept == Spec => []ApprovedAsReadUnlessStale
<1>1. Init => ApprovedAsReadUnlessStale
  BY DEF Init, ApprovedAsReadUnlessStale, ApprovedAsRead
<1>2. QED
  BY <1>1, ApprovedTextStep, Invariant, PTL DEF Spec

----------------------------------------------------------------------------
(* Flags. *)

FlagsOf(c) == {f \in flagged : f.comment = c}

\* A request flags once, and only comments that exist are flagged.
FlagInv ==
    /\ IsFiniteSet(flagged)
    /\ \A f \in flagged : pc[f.by] = "done" /\ Exists(f.comment)
    /\ \A c \in Comments : row[c].flags = Cardinality(FlagsOf(c))

LEMMA FlagInvInit == Init => FlagInv
<1> SUFFICES ASSUME Init PROVE FlagInv
  OBVIOUS
<1>1. \A c \in Comments : row[c].flags = 0 /\ FlagsOf(c) = {}
  BY CommentsConstants DEF Init, FlagsOf
<1>2. QED
  BY <1>1, FS_EmptySet DEF Init, FlagInv

LEMMA FlagInvStep == IInv /\ FlagInv /\ [Next]_vars => FlagInv'
<1> SUFFICES ASSUME IInv, FlagInv, [Next]_vars PROVE FlagInv'
  OBVIOUS
<1>1. ASSUME flagged' = flagged,
             \A r \in Requests : pc[r] = "done" => pc'[r] = "done",
             \A c \in Comments : Exists(c) => row'[c] # Absent,
             \A c \in Comments : row'[c].flags = row[c].flags
      PROVE  FlagInv'
  <2>1. \A f \in flagged : f.by \in Requests /\ f.comment \in Comments
    BY DEF IInv, TypeOK
  <2>2. \A f \in flagged : pc'[f.by] = "done" /\ Exists(f.comment)'
    BY <1>1, <2>1 DEF FlagInv, Exists
  <2>3. QED
    BY <1>1, <2>2 DEF FlagInv, FlagsOf
<1>2. ASSUME NEW r \in Requests,
             \/ \E u \in Users : Start(r, u)
             \/ CheckDuplicate(r) \/ FindParent(r) \/ Stop(r)
      PROVE  FlagInv'
  <2>1. UNCHANGED <<row, flagged>>
    BY <1>2, StartStep DEF CheckDuplicate, FindParent, Stop, Refused
  <2>2. pc[r] # "done" /\ \A s \in Requests \ {r} : pc'[s] = pc[s]
    BY <1>2, StartStep DEF CheckDuplicate, FindParent, Stop, Refused, End, Goto, IInv, TypeOK
  <2>3. QED
    BY <1>1, <2>1, <2>2 DEF Exists
<1>3. ASSUME NEW r \in Requests, NEW c \in Comments, Create(r, c) PROVE FlagInv'
  <2>0. row'[c] = NewRow(r) /\ row[c] = Absent
    BY <1>3, CreateWrites
  <2>1. row'[c].flags = 0 /\ row[c].flags = 0
    BY <2>0, AbsentFacts DEF NewRow
  <2>2. \A d \in Comments : row'[d].flags = row[d].flags /\ (Exists(d) => row'[d] # Absent)
    BY <1>3, <2>1, CreateWrites DEF Lasting
  <2>3. flagged' = flagged /\ \A s \in Requests : pc[s] = "done" => pc'[s] = "done"
    BY <1>3 DEF Create, End, Goto, IInv, TypeOK
  <2>4. QED
    BY <1>1, <2>2, <2>3
<1>4. ASSUME NEW r \in Requests, Update(r) \/ Delete(r) \/ Moderate(r) \/ Pin(r) PROVE FlagInv'
  <2> DEFINE c == req[r].comment
  <2>1. /\ c \in Comments /\ row[c] \in Rows /\ End(r)
        /\ \A d \in Comments : d # c => row'[d] = row[d]
        /\ \A d \in Comments : Exists(d) => row'[d] # Absent
    BY <1>4, UpdateWrites, ExistsRow DEF IInv, Lasting
  <2>2. row'[c].flags = row[c].flags
    BY <1>4, <2>1, UpdateForms DEF Rows
  <2>3. flagged' = flagged /\ \A s \in Requests : pc[s] = "done" => pc'[s] = "done"
    BY <1>4, <2>1 DEF Update, Delete, Moderate, Pin, End, Goto, IInv, TypeOK
  <2>4. QED
    BY <1>1, <2>1, <2>2, <2>3
<1>5. ASSUME NEW r \in Requests, Flag(r) PROVE FlagInv'
  <2> DEFINE c == req[r].comment
             x == [by |-> r, comment |-> c]
  <2>1. /\ c \in Comments /\ row[c] \in Rows /\ End(r) /\ Exists(c)
        /\ \A d \in Comments : d # c => row'[d] = row[d]
        /\ \A d \in Comments : Exists(d) => row'[d] # Absent
    BY <1>5, UpdateWrites, ExistsRow DEF IInv, Lasting
  <2>2. row'[c].flags = row[c].flags + 1
    BY <2>1, <1>5, UpdateForms DEF Rows
  <2>3. flagged' = flagged \cup {x} /\ pc[r] = "flag"
    BY <1>5 DEF Flag, Put
  <2>4. x \notin flagged
    BY <2>3 DEF FlagInv
  <2>5. IsFiniteSet(flagged')
    <3>1. flagged' = flagged \cup {x} /\ IsFiniteSet(flagged)
      BY <2>3 DEF FlagInv
    <3> HIDE DEF x
    <3>2. QED
      BY <3>1, FS_AddElement
  <2>6. \A f \in flagged' : pc'[f.by] = "done" /\ Exists(f.comment)'
    <3>1. pc'[r] = "done" /\ \A s \in Requests \ {r} : pc'[s] = pc[s]
      BY <2>1, EndStep
    <3>2. \A f \in flagged : f.by \in Requests /\ f.comment \in Comments
      BY DEF IInv, TypeOK
    <3>3. QED
      BY <2>1, <2>3, <3>1, <3>2 DEF FlagInv, Exists
  <2>7. ASSUME NEW d \in Comments PROVE row'[d].flags = Cardinality(FlagsOf(d)')
    <3>1. IsFiniteSet(FlagsOf(d))
      BY FS_Subset DEF FlagInv, FlagsOf
    <3>2. CASE d = c
      <4>1. FlagsOf(d)' = FlagsOf(d) \cup {x} /\ x \notin FlagsOf(d)
        BY <2>3, <2>4, <3>2 DEF FlagsOf
      <4>2. Cardinality(FlagsOf(d)') = Cardinality(FlagsOf(d)) + 1
        BY <3>1, <4>1, FS_AddElement
      <4>3. QED
        BY <2>1, <2>2, <3>2, <4>2 DEF FlagInv
    <3>3. CASE d # c
      <4>1. FlagsOf(d)' = FlagsOf(d)
        BY <2>3, <3>3 DEF FlagsOf
      <4>2. QED
        BY <2>1, <3>3, <4>1 DEF FlagInv
    <3>4. QED
      BY <3>2, <3>3
  <2>8. QED
    BY <2>5, <2>6, <2>7 DEF FlagInv
<1>6. ASSUME NEW c \in Comments, Age(c) PROVE FlagInv'
  BY <1>1, <1>6 DEF Age, Exists
<1>7. CASE UNCHANGED vars
  BY <1>1, <1>7 DEF vars, Exists
<1>8. QED
  BY <1>2, <1>3, <1>4, <1>5, <1>6, <1>7 DEF Next, Write

\* Every flag counts, whatever runs at the same time.
THEOREM FlagsCounted == Spec => []NoFlagLost
<1>1. FlagInv => NoFlagLost
  BY DEF FlagInv, FlagsOf, NoFlagLost
<1>2. QED
  BY <1>1, FlagInvInit, FlagInvStep, Invariant, PTL DEF Spec

----------------------------------------------------------------------------
(* The rate limit. *)

Creating == {"duplicate", "parent", "create"}

\* What a request has counted exists, and fewer than Limit of it are still new
\* when the request is about to create another.
RateInv ==
    /\ \A u \in Users : /\ IsFiniteSet(NewBy(u))
                        /\ crowded \/ Cardinality(NewBy(u)) <= Limit
    /\ \A r \in Requests : \A c \in counted[r] : Exists(c)
    /\ \A r \in Requests, u \in Users :
          pc[r] \in Creating /\ req[r].user = u => Cardinality(NewBy(u) \cap counted[r]) < Limit

LEMMA Smaller ==
    ASSUME NEW S, NEW T, IsFiniteSet(S), T \subseteq S
    PROVE  /\ IsFiniteSet(T) /\ Cardinality(T) <= Cardinality(S)
           /\ Cardinality(S) \in Nat /\ Cardinality(T) \in Nat
  BY FS_Subset, FS_CardinalityType

LEMMA RateInvInit == Init => RateInv
<1> SUFFICES ASSUME Init PROVE RateInv
  OBVIOUS
<1>1. \A u \in Users : NewBy(u) = {}
  BY DEF Init, NewBy, CommentsBy
<1>2. \A r \in Requests : counted[r] = {} /\ pc[r] \notin Creating
  BY DEF Init, Creating
<1>3. \A u \in Users : IsFiniteSet(NewBy(u)) /\ Cardinality(NewBy(u)) <= Limit
  BY <1>1, FS_EmptySet, CommentsConstants
<1>4. QED
  BY <1>2, <1>3 DEF RateInv

\* As long as no comment becomes new and the requests that are creating stay
\* what they are, the limit is kept.
LEMMA RateKept ==
    ASSUME IInv, RateInv, crowded' = crowded,
           \A u \in Users : NewBy(u)' \subseteq NewBy(u),
           \A c \in Comments : Exists(c) => Exists(c)',
           \A r \in Requests :
              \/ pc'[r] \in Creating /\ pc[r] \in Creating
                    /\ req'[r] = req[r] /\ counted'[r] = counted[r]
              \/ pc'[r] \notin Creating /\ counted'[r] \subseteq counted[r]
    PROVE  RateInv'
<1>1. ASSUME NEW u \in Users
      PROVE  IsFiniteSet(NewBy(u)') /\ (crowded' \/ Cardinality(NewBy(u)') <= Limit)
  <2>1. /\ IsFiniteSet(NewBy(u)') /\ Cardinality(NewBy(u)') <= Cardinality(NewBy(u))
        /\ Cardinality(NewBy(u)) \in Nat /\ Cardinality(NewBy(u)') \in Nat
    BY Smaller DEF RateInv
  <2>2. QED
    BY <2>1, CommentsConstants DEF RateInv
<1>2. \A r \in Requests : \A c \in counted'[r] : Exists(c)'
  BY DEF RateInv, IInv, TypeOK
<1>3. ASSUME NEW r \in Requests, NEW u \in Users, pc'[r] \in Creating, req'[r].user = u
      PROVE  Cardinality(NewBy(u)' \cap counted'[r]) < Limit
  <2> DEFINE S == NewBy(u) \cap counted[r]
             T == NewBy(u)' \cap counted[r]
  <2>1. pc[r] \in Creating /\ req[r].user = u /\ counted'[r] = counted[r]
    BY <1>3
  <2>2. IsFiniteSet(NewBy(u)) /\ S \subseteq NewBy(u) /\ T \subseteq S
    BY DEF RateInv
  <2>3. Cardinality(S) < Limit
    BY <2>1 DEF RateInv
  <2> HIDE DEF S, T
  <2>4. IsFiniteSet(S)
    BY <2>2, Smaller
  <2>5. Cardinality(T) <= Cardinality(S) /\ Cardinality(S) \in Nat /\ Cardinality(T) \in Nat
    BY <2>2, <2>4, Smaller
  <2>6. Cardinality(T) < Limit
    BY <2>3, <2>5, CommentsConstants
  <2>7. QED
    BY <2>1, <2>6 DEF T
<1>4. QED
  BY <1>1, <1>2, <1>3 DEF RateInv

LEMMA RateInvStep == IInv /\ RateInv /\ [Next]_vars => RateInv'
<1> SUFFICES ASSUME IInv, RateInv, [Next]_vars PROVE RateInv'
  OBVIOUS
<1>1. ASSUME UNCHANGED <<row, age>>
      PROVE  /\ \A u \in Users : NewBy(u)' = NewBy(u) /\ CommentsBy(u)' = CommentsBy(u)
             /\ \A c \in Comments : Exists(c) => Exists(c)'
  BY <1>1 DEF NewBy, CommentsBy, Exists
<1>2. ASSUME NEW r \in Requests, NEW u \in Users, NEW p \in Posts,
             NEW q \in Comments \cup {NoComment}, NEW t \in Texts, Count(r, u, p, q, t)
      PROVE  RateInv'
  <2>1. /\ UNCHANGED <<row, age, crowded>> /\ Cardinality(NewBy(u)) < Limit
        /\ counted'[r] = CommentsBy(u) /\ req'[r].user = u
        /\ \A s \in Requests \ {r} :
              pc'[s] = pc[s] /\ req'[s] = req[s] /\ counted'[s] = counted[s]
    BY <1>2 DEF Count, Goto, IInv, TypeOK, NoReq
  <2>2. NewBy(u) \cap CommentsBy(u) = NewBy(u)
    BY DEF NewBy
  <2>3. \A c \in CommentsBy(u) : Exists(c)
    BY DEF CommentsBy
  <2>5. \A v \in Users : /\ IsFiniteSet(NewBy(v)')
                         /\ crowded' \/ Cardinality(NewBy(v)') <= Limit
    BY <1>1, <2>1 DEF RateInv
  <2>6. \A s \in Requests : \A c \in counted'[s] : Exists(c)'
    BY <1>1, <2>1, <2>3 DEF RateInv, Exists
  <2>7. ASSUME NEW s \in Requests, NEW v \in Users, pc'[s] \in Creating, req'[s].user = v
        PROVE  Cardinality(NewBy(v)' \cap counted'[s]) < Limit
    <3>1. NewBy(v)' = NewBy(v)
      BY <1>1, <2>1
    <3>2. CASE s = r
      BY <2>1, <2>2, <2>7, <3>1, <3>2
    <3>3. CASE s # r
      BY <2>1, <2>7, <3>1, <3>3 DEF RateInv
    <3>4. QED
      BY <3>2, <3>3
  <2>8. QED
    BY <2>5, <2>6, <2>7 DEF RateInv
<1>3. ASSUME NEW r \in Requests, NEW u \in Users, NEW c \in Comments,
             \/ \E t \in Texts : FindToUpdate(r, u, c, t)
             \/ FindToDelete(r, u, c) \/ FindToFlag(r, u, c)
             \/ \E s \in Judgements : FindToModerate(r, u, c, s)
             \/ \E b \in BOOLEAN : FindToPin(r, u, c, b)
      PROVE  RateInv'
  <2>1. counted' = counted /\ \E l \in Updates : Goto(r, l)
    BY <1>3 DEF FindToUpdate, FindToDelete, FindToFlag, FindToModerate, FindToPin, Find, Updates
  <2>2. pc'[r] \notin Creating
    BY <2>1 DEF Goto, Creating, Updates, IInv, TypeOK
  <2>3. /\ UNCHANGED <<row, age, crowded>>
        /\ \A s \in Requests \ {r} : pc'[s] = pc[s] /\ req'[s] = req[s]
    <3>1. Start(r, u)
      BY <1>3 DEF Start
    <3>2. QED
      BY <3>1, StartStep
  <2>4. QED
    BY <1>1, <2>1, <2>2, <2>3, RateKept
<1>4. ASSUME NEW r \in Requests, CheckDuplicate(r) \/ FindParent(r), ~Refused(r) PROVE RateInv'
  <2>1. /\ UNCHANGED <<row, age, crowded, req, counted>> /\ pc[r] \in Creating
        /\ pc'[r] \in Creating /\ \A s \in Requests \ {r} : pc'[s] = pc[s]
    BY <1>4 DEF CheckDuplicate, FindParent, Goto, Creating, IInv, TypeOK
  <2>2. QED
    BY <1>1, <2>1, RateKept
<1>5. ASSUME NEW r \in Requests, Refused(r) PROVE RateInv'
  <2>1. End(r) /\ UNCHANGED <<row, age, crowded>>
    BY <1>5 DEF Refused
  <2>2. "done" \notin Creating
    BY DEF Creating
  <2>3. QED
    BY <1>1, <2>1, <2>2, EndStep, RateKept
<1>6. ASSUME NEW r \in Requests, Update(r) \/ Delete(r) \/ Moderate(r) \/ Pin(r) \/ Flag(r)
      PROVE  RateInv'
  <2>1. /\ End(r) /\ UNCHANGED <<age, crowded>> /\ Exists(req[r].comment)
        /\ \A c \in Comments : Lasting(c)
        /\ \A c \in Comments : c # req[r].comment => row'[c] = row[c]
    BY <1>6, UpdateWrites
  <2>2. \A c \in Comments : Exists(c) <=> Exists(c)'
    BY <2>1 DEF Lasting, Exists
  <2>3. \A c \in Comments : Exists(c) => row'[c].author = row[c].author
    BY <2>1 DEF Lasting
  <2>4. \A u \in Users : NewBy(u)' \subseteq NewBy(u)
    BY <2>1, <2>2, <2>3 DEF NewBy, CommentsBy
  <2>5. "done" \notin Creating
    BY DEF Creating
  <2>6. QED
    BY <2>1, <2>2, <2>4, <2>5, EndStep, RateKept
<1>7. ASSUME NEW c \in Comments, Age(c) PROVE RateInv'
  <2>1. /\ UNCHANGED <<row, pc, req, counted, crowded>>
        /\ \A d \in Comments : age'[d] = "new" => age[d] = "new"
    BY <1>7 DEF Age, IInv, TypeOK
  <2>2. \A u \in Users : NewBy(u)' \subseteq NewBy(u)
    BY <2>1 DEF NewBy, CommentsBy, Exists
  <2>3. \A d \in Comments : Exists(d) => Exists(d)'
    BY <2>1 DEF Exists
  <2>4. QED
    BY <2>1, <2>2, <2>3, RateKept
<1>8. ASSUME NEW r \in Requests, NEW c \in Comments, Create(r, c) PROVE RateInv'
  <2>0. PICK u \in Users : u = req[r].user
    BY DEF IInv, TypeOK, Reqs
  <2>1. /\ row[c] = Absent /\ row'[c] = NewRow(r) /\ NewRow(r) \in Rows
        /\ \A d \in Comments : d # c => row'[d] = row[d]
        /\ age' = [age EXCEPT ![c] = "new"]
    BY <1>8, CreateWrites
  <2>2. Exists(c)' /\ ~Exists(c) /\ row'[c].author = u
    BY <2>0, <2>1, AbsentFacts DEF NewRow, Exists
  <2>3. /\ \A d \in Comments : d # c => (Exists(d) <=> Exists(d)')
        /\ age'[c] = "new" /\ \A d \in Comments : d # c => age'[d] = age[d]
    BY <2>1 DEF Exists, IInv, TypeOK
  <2>4. NewBy(u)' = NewBy(u) \cup {c} /\ \A v \in Users \ {u} : NewBy(v)' = NewBy(v)
    BY <2>1, <2>2, <2>3 DEF NewBy, CommentsBy
  <2>5. /\ End(r) /\ pc[r] = "create"
        /\ ~crowded' => ~crowded /\ CommentsBy(u) \subseteq counted[r]
    BY <1>8, <2>0 DEF Create
  <2>6. ASSUME NEW v \in Users
        PROVE  IsFiniteSet(NewBy(v)') /\ (crowded' \/ Cardinality(NewBy(v)') <= Limit)
    <3>1. CASE v # u
      BY <2>4, <2>5, <3>1 DEF RateInv
    <3>2. CASE v = u
      <4>1. IsFiniteSet(NewBy(u)) /\ c \notin NewBy(u)
        BY <2>1, <2>2 DEF RateInv, NewBy, CommentsBy
      <4>2. /\ IsFiniteSet(NewBy(u)') /\ Cardinality(NewBy(u)') = Cardinality(NewBy(u)) + 1
            /\ Cardinality(NewBy(u)) \in Nat
        BY <2>4, <4>1, FS_AddElement, FS_CardinalityType
      <4>3. ASSUME ~crowded' PROVE Cardinality(NewBy(u)) < Limit
        <5>1. NewBy(u) \cap counted[r] = NewBy(u)
          BY <2>5, <4>3 DEF NewBy
        <5>2. Cardinality(NewBy(u) \cap counted[r]) < Limit
          BY <2>0, <2>5 DEF RateInv, Creating
        <5>3. QED
          BY <5>1, <5>2
      <4>4. QED
        BY <3>2, <4>2, <4>3, CommentsConstants
    <3>3. QED
      BY <3>1, <3>2
  <2>7. /\ pc'[r] = "done" /\ counted'[r] = {}
        /\ \A s \in Requests \ {r} :
              pc'[s] = pc[s] /\ req'[s] = req[s] /\ counted'[s] = counted[s]
    BY <2>5, EndStep
  <2>8. \A s \in Requests : \A d \in counted'[s] : Exists(d)'
    BY <2>2, <2>3, <2>7 DEF RateInv, IInv, TypeOK
  <2>9. ASSUME NEW s \in Requests, NEW v \in Users, pc'[s] \in Creating, req'[s].user = v
        PROVE  Cardinality(NewBy(v)' \cap counted'[s]) < Limit
    <3>1. s # r
      BY <2>7, <2>9 DEF Creating
    <3>2. c \notin counted[s]
      BY <2>2 DEF RateInv
    <3>3. NewBy(v)' \cap counted[s] = NewBy(v) \cap counted[s]
      BY <2>4, <3>2
    <3>4. QED
      BY <2>7, <2>9, <3>1, <3>3 DEF RateInv
  <2>10. QED
    BY <2>6, <2>8, <2>9 DEF RateInv
<1>9. CASE UNCHANGED vars
  <2>1. UNCHANGED <<row, age, pc, req, counted, crowded>>
    BY <1>9 DEF vars
  <2>2. QED
    BY <1>1, <2>1, RateKept
<1>10. ASSUME NEW r \in Requests, NEW u \in Users, Start(r, u) PROVE RateInv'
  BY <1>2, <1>3, <1>10 DEF Start
<1>11. QED
  BY <1>4, <1>5, <1>6, <1>7, <1>8, <1>9, <1>10 DEF Next, Write, Stop

\* No user has more than Limit comments younger than a minute, until one is
\* created while another of that user is between its count and its insert.
THEOREM RateHeld == Spec => []RateHeldUnlessCrowded
<1>1. RateInv => RateHeldUnlessCrowded
  BY DEF RateInv, RateHeldUnlessCrowded, WithinLimit
<1>2. QED
  BY <1>1, RateInvInit, RateInvStep, Invariant, PTL DEF Spec

----------------------------------------------------------------------------
(* Refinement. *)

\* What the atomic comment of a row is.
Judged(t) ==
    [parent |-> t.parent, depth |-> t.depth, text |-> t.text, status |-> t.status,
     active |-> t.active, pinned |-> t.pinned, flags |-> t.flags]

Table == [c \in Comments |-> Judged(row[c])]

LEMMA JudgedFacts ==
    ASSUME NEW t
    PROVE  /\ Judged(t).parent = t.parent /\ Judged(t).depth = t.depth
           /\ Judged(t).text = t.text /\ Judged(t).status = t.status
           /\ Judged(t).active = t.active /\ Judged(t).pinned = t.pinned
           /\ Judged(t).flags = t.flags
  BY DEF Judged

\* The atomic next-state relation, in terms of Table.
LEMMA AtomicNext ==
    Atomic!Next <=>
        \E c \in Comments :
            \/ Atomic!Submit(c)
            \/ /\ Table[c].text # NoText
               /\ \/ Atomic!Edit(c) \/ Atomic!Remove(c) \/ Atomic!Judge(c)
                  \/ Atomic!Pin(c) \/ Atomic!Flag(c)
  BY DEF Atomic!Next, Table, Judged

\* To change a field of a row is to change it in the atomic comment.
LEMMA JudgedExcept ==
    ASSUME NEW t \in Rows, NEW x
    PROVE  /\ Judged([t EXCEPT !.text = x]) = [Judged(t) EXCEPT !.text = x]
           /\ Judged([t EXCEPT !.status = x]) = [Judged(t) EXCEPT !.status = x]
           /\ Judged([t EXCEPT !.active = x]) = [Judged(t) EXCEPT !.active = x]
           /\ Judged([t EXCEPT !.pinned = x]) = [Judged(t) EXCEPT !.pinned = x]
           /\ Judged([t EXCEPT !.flags = @ + 1]) = [Judged(t) EXCEPT !.flags = @ + 1]
<1>1. Judged([t EXCEPT !.text = x]) = [Judged(t) EXCEPT !.text = x]
  BY DEF Judged, Rows
<1>2. Judged([t EXCEPT !.status = x]) = [Judged(t) EXCEPT !.status = x]
  BY DEF Judged, Rows
<1>3. Judged([t EXCEPT !.active = x]) = [Judged(t) EXCEPT !.active = x]
  BY DEF Judged, Rows
<1>4. Judged([t EXCEPT !.pinned = x]) = [Judged(t) EXCEPT !.pinned = x]
  BY DEF Judged, Rows
<1>5. Judged([t EXCEPT !.flags = @ + 1]) = [Judged(t) EXCEPT !.flags = @ + 1]
  BY DEF Judged, Rows
<1>6. QED
  BY <1>1, <1>2, <1>3, <1>4, <1>5

LEMMA UpdateRefines ==
    ASSUME IInv, NEW r \in Requests, ~stale',
           Update(r) \/ Delete(r) \/ Moderate(r) \/ Pin(r) \/ Flag(r)
    PROVE  Atomic!Next
<1>1. PICK c \in Comments : c = req[r].comment
  BY UpdateWrites
<1>2. /\ row[c] \in Rows /\ row[c].text # NoText
      /\ \A d \in Comments : d # c => row'[d] = row[d]
  BY <1>1, UpdateWrites, ExistsRow DEF IInv
<1>3. ASSUME NEW x, Judged(row'[c]) = x
      PROVE  Table' = [Table EXCEPT ![c] = x]
  BY <1>2, <1>3 DEF Table
<1>4. Table[c] = Judged(row[c])
  BY DEF Table
<1>5. CASE Update(r)
  <2>1. req[r].text \in Texts /\ row[c].status # "DELETED"
    BY <1>1, <1>5 DEF Update, Put, Now, IInv, Knows
  <2>2. row'[c] = [row[c] EXCEPT !.text = req[r].text, !.status = "PENDING"]
    BY <1>1, <1>5, UpdateForms
  <2>3. Judged(row'[c]) = [Judged(row[c]) EXCEPT !.text = req[r].text, !.status = "PENDING"]
    <3> DEFINE t == [row[c] EXCEPT !.text = req[r].text]
    <3>1. t \in Rows
      BY <1>2, <2>1 DEF Rows
    <3>2. Judged(t) = [Judged(row[c]) EXCEPT !.text = req[r].text]
      BY <1>2, JudgedExcept
    <3>3. row'[c] = [t EXCEPT !.status = "PENDING"]
      BY <2>2
    <3> HIDE DEF t
    <3>4. Judged([t EXCEPT !.status = "PENDING"]) = [Judged(t) EXCEPT !.status = "PENDING"]
      BY <3>1, JudgedExcept
    <3>5. QED
      BY <3>2, <3>3, <3>4
  <2>4. Table' = [Table EXCEPT ![c] = [Table[c] EXCEPT !.text = req[r].text,
                                                       !.status = "PENDING"]]
    BY <1>3, <1>4, <2>3
  <2>5. Atomic!Edit(c)
    BY <1>4, <2>1, <2>4 DEF Atomic!Edit, Table, Judged
  <2>6. QED
    BY <1>2, <1>4, <2>5, AtomicNext, JudgedFacts
<1>6. CASE Delete(r)
  <2>1. row'[c] = [row[c] EXCEPT !.status = "DELETED", !.active = FALSE]
    BY <1>1, <1>6, UpdateForms
  <2>2. Judged(row'[c]) = [Judged(row[c]) EXCEPT !.status = "DELETED", !.active = FALSE]
    <3> DEFINE t == [row[c] EXCEPT !.status = "DELETED"]
    <3>1. t \in Rows
      BY <1>2 DEF Rows, Statuses
    <3>2. Judged(t) = [Judged(row[c]) EXCEPT !.status = "DELETED"]
      BY <1>2, JudgedExcept
    <3>3. row'[c] = [t EXCEPT !.active = FALSE]
      BY <2>1
    <3> HIDE DEF t
    <3>4. Judged([t EXCEPT !.active = FALSE]) = [Judged(t) EXCEPT !.active = FALSE]
      BY <3>1, JudgedExcept
    <3>5. QED
      BY <3>2, <3>3, <3>4
  <2>3. Table' = [Table EXCEPT ![c] = [Table[c] EXCEPT !.status = "DELETED", !.active = FALSE]]
    BY <1>3, <1>4, <2>2
  <2>4. Atomic!Remove(c)
    BY <2>3 DEF Atomic!Remove, Table, Judged
  <2>5. QED
    BY <1>2, <1>4, <2>4, AtomicNext, JudgedFacts
<1>7. CASE Moderate(r)
  <2>1. req[r].status \in Statuses
    BY DEF IInv, TypeOK, Reqs
  <2>2. Judged(row'[c]) = [Judged(row[c]) EXCEPT !.status = req[r].status]
    <3>1. row'[c] = [row[c] EXCEPT !.status = req[r].status]
      BY <1>1, <1>7, UpdateForms
    <3>2. Judged([row[c] EXCEPT !.status = req[r].status]) = [Judged(row[c]) EXCEPT !.status = req[r].status]
      BY <1>2, JudgedExcept
    <3>3. QED
      BY <3>1, <3>2
  <2>3. Table' = [Table EXCEPT ![c] = [Table[c] EXCEPT !.status = req[r].status]]
    BY <1>3, <1>4, <2>2
  <2>4. Atomic!Judge(c)
    BY <2>1, <2>3 DEF Atomic!Judge, Table, Judged
  <2>5. QED
    BY <1>2, <1>4, <2>4, AtomicNext, JudgedFacts
<1>8. CASE Pin(r)
  <2>1. req[r].pin \in BOOLEAN /\ row[c].status = "APPROVED"
    BY <1>1, <1>8 DEF Pin, Put, Now, IInv, TypeOK, Knows, Reqs
  <2>2. Judged(row'[c]) = [Judged(row[c]) EXCEPT !.pinned = req[r].pin]
    <3>1. row'[c] = [row[c] EXCEPT !.pinned = req[r].pin]
      BY <1>1, <1>8, UpdateForms
    <3>2. Judged([row[c] EXCEPT !.pinned = req[r].pin]) = [Judged(row[c]) EXCEPT !.pinned = req[r].pin]
      BY <1>2, JudgedExcept
    <3>3. QED
      BY <3>1, <3>2
  <2>3. Table' = [Table EXCEPT ![c] = [Table[c] EXCEPT !.pinned = req[r].pin]]
    BY <1>3, <1>4, <2>2
  <2>4. Atomic!Pin(c)
    BY <2>1, <2>3 DEF Atomic!Pin, Table, Judged
  <2>5. QED
    BY <1>2, <1>4, <2>4, AtomicNext, JudgedFacts
<1>9. CASE Flag(r)
  <2>1. Judged(row'[c]) = [Judged(row[c]) EXCEPT !.flags = @ + 1]
    <3>1. row'[c] = [row[c] EXCEPT !.flags = @ + 1]
      BY <1>1, <1>9, UpdateForms
    <3>2. Judged([row[c] EXCEPT !.flags = @ + 1]) = [Judged(row[c]) EXCEPT !.flags = @ + 1]
      BY <1>2, JudgedExcept
    <3>3. QED
      BY <3>1, <3>2
  <2>2. Table' = [Table EXCEPT ![c] = [Table[c] EXCEPT !.flags = @ + 1]]
    BY <1>3, <1>4, <2>1
  <2>3. Atomic!Flag(c)
    BY <2>2 DEF Atomic!Flag, Table, Judged
  <2>4. QED
    BY <1>2, <1>4, <2>3, AtomicNext, JudgedFacts
<1>10. QED
  BY <1>5, <1>6, <1>7, <1>8, <1>9

LEMMA CreateRefines ==
    ASSUME IInv, NEW r \in Requests, NEW c \in Comments, Create(r, c), ~stale'
    PROVE  Atomic!Next
<1>1. /\ row[c] = Absent /\ row'[c] = NewRow(r) /\ NewRow(r) \in Rows
      /\ \A d \in Comments : d # c => row'[d] = row[d]
  BY CreateWrites
<1>2. PICK q \in Comments \cup {NoComment}, t \in Texts, d \in 0..MaxDepth :
          q = req[r].parent /\ t = req[r].text /\ d = NewRow(r).depth
  <2>1. req[r].parent \in Comments \cup {NoComment} /\ req[r].text \in Texts
    BY DEF Create, IInv, TypeOK, Reqs, Knows
  <2>2. NewRow(r).depth \in 0..MaxDepth
    BY <1>1 DEF Rows
  <2>3. QED
    BY <2>1, <2>2
<1>3. Judged(NewRow(r)) = [parent |-> q, depth |-> d, text |-> t, status |-> "PENDING",
                           active |-> TRUE, pinned |-> FALSE, flags |-> 0]
  BY <1>2 DEF Judged, NewRow
<1>4. Table' = [Table EXCEPT ![c] = Judged(NewRow(r))]
  BY <1>1 DEF Table
<1>5. Atomic!Answers(c, q, d)
  <2>1. CASE q = NoComment
    BY <1>2, <2>1 DEF Atomic!Answers, NewRow
  <2>2. CASE q # NoComment
    <3>1. /\ Exists(q) /\ row[q].status \notin {"DELETED", "REJECTED"}
          /\ d = row[q].depth + 1 /\ d <= MaxDepth
      BY <1>2, <2>2 DEF Create, IInv, Knows, NewRow
    <3>2. row[q].text # NoText /\ q \in Comments
      BY <3>1, ExistsRow DEF IInv
    <3>3. QED
      BY <2>2, <3>1, <3>2 DEF Atomic!Answers
  <2>3. QED
    BY <2>1, <2>2
<1>6. Table[c].text = NoText
  BY <1>1, AbsentFacts DEF Table, Judged
<1>7. Atomic!Submit(c)
  <2>1. Table' = [Table EXCEPT ![c] = [parent |-> q, depth |-> d, text |-> t,
                                       status |-> "PENDING", active |-> TRUE,
                                       pinned |-> FALSE, flags |-> 0]]
    BY <1>3, <1>4
  <2>2. QED
    BY <1>5, <1>6, <2>1 DEF Atomic!Submit, Table, Judged
<1>8. QED
  BY <1>7, AtomicNext

LEMMA RefinementStep == IInv /\ [Next]_vars => [~stale' => Atomic!Next]_row
<1> SUFFICES ASSUME IInv, [Next]_vars, ~stale', row' # row PROVE Atomic!Next
  OBVIOUS
<1>1. ASSUME NEW r \in Requests,
             \/ \E u \in Users : Start(r, u)
             \/ CheckDuplicate(r) \/ FindParent(r) \/ Stop(r)
      PROVE  UNCHANGED row
  BY <1>1, StartStep DEF CheckDuplicate, FindParent, Stop, Refused
<1>2. (\E c \in Comments : Age(c)) \/ UNCHANGED vars => UNCHANGED row
  BY DEF Age, vars
<1>3. QED
  BY <1>1, <1>2, CreateRefines, UpdateRefines DEF Next, Write

\* Until an update or a reply is decided on a row that has changed, every
\* request is at most one atomic operation on one comment.
THEOREM Refinement == Spec => ImplementsModeration
  BY RefinementStep, Invariant, PTL DEF Spec, ImplementsModeration

----------------------------------------------------------------------------
(* Requests that take turns *)

\* What a request has read or counted is still so.
Current(r) ==
    /\ pc[r] \in Updates => row[req[r].comment] = seen[r]
    /\ pc[r] = "create" /\ req[r].parent # NoComment => row[req[r].parent] = seen[r]
    /\ pc[r] \in Creating => CommentsBy(req[r].user) \subseteq counted[r]

Calm == IInv /\ InTurn /\ ~stale /\ ~crowded /\ \A r \in Requests : Current(r)

LEMMA CalmInit == Init => Calm
<1>1. Init => InTurn /\ ~stale /\ ~crowded /\ \A r \in Requests : Current(r)
  BY DEF Init, InTurn, UnderWay, Current, Updates, Creating
<1>2. QED
  BY <1>1, IInvInit DEF Calm

\* A request over rows that last: none that it is about changes, and its user gets
\* no new one.
LEMMA OthersCurrent ==
    ASSUME IInv, NEW s \in Requests, Current(s),
           pc'[s] = pc[s], req'[s] = req[s], seen'[s] = seen[s], counted'[s] = counted[s],
           \A c \in Comments : Lasting(c),
           \A c \in Comments :
               \/ row'[c] = row[c]
               \/ Exists(c) /\ (UnderWay(s) => c \notin About(s))
               \/ ~Exists(c) /\ (UnderWay(s) => row'[c].author # req[s].user)
    PROVE  Current(s)'
<1>1. Updates \cup Creating \subseteq Locations \ {"idle", "done"}
  BY DEF Updates, Creating, Locations
<1>2. ASSUME pc[s] \in Updates PROVE row'[req[s].comment] = seen[s]
  <2>1. UnderWay(s) /\ Exists(req[s].comment) /\ row[req[s].comment] = seen[s]
    BY <1>1, <1>2 DEF IInv, Knows, UnderWay, Current
  <2>2. req[s].comment \in Comments /\ req[s].comment \in About(s)
    BY <2>1, CommentsConstants DEF Exists, About
  <2>3. QED
    BY <2>1, <2>2
<1>3. ASSUME pc[s] = "create", req[s].parent # NoComment PROVE row'[req[s].parent] = seen[s]
  <2>1. UnderWay(s) /\ Exists(req[s].parent) /\ row[req[s].parent] = seen[s]
    BY <1>3 DEF IInv, Knows, UnderWay, Current
  <2>2. req[s].parent \in Comments /\ req[s].parent \in About(s)
    BY <1>3, <2>1 DEF Exists, About
  <2>3. QED
    BY <2>1, <2>2
<1>4. ASSUME pc[s] \in Creating PROVE CommentsBy(req[s].user)' \subseteq counted[s]
  <2>1. UnderWay(s) /\ CommentsBy(req[s].user) \subseteq counted[s]
    BY <1>1, <1>4 DEF UnderWay, Current
  <2>2. ASSUME NEW c \in Comments, row'[c] # Absent, row'[c].author = req[s].user
        PROVE  Exists(c) /\ row[c].author = req[s].user
    BY <2>1, <2>2 DEF Lasting, Exists
  <2>3. QED
    BY <2>1, <2>2 DEF CommentsBy, Exists
<1>5. QED
  BY <1>2, <1>3, <1>4 DEF Current

LEMMA WriteCalm ==
    ASSUME Calm, NEW r \in Requests, Write(r)
    PROVE  ~stale' /\ ~crowded' /\ \A s \in Requests : Current(s)'
<1>1. IInv /\ TypeOK /\ InTurn /\ ~stale /\ ~crowded /\ Current(r)
  BY DEF Calm, IInv
<1>2. ASSUME NEW c \in Comments, Create(r, c)
      PROVE  /\ End(r) /\ UnderWay(r) /\ ~stale' /\ ~crowded' /\ \A d \in Comments : Lasting(d)
             /\ \A s \in Requests \ {r} : \A d \in Comments :
                   \/ row'[d] = row[d]
                   \/ ~Exists(d) /\ (UnderWay(s) => row'[d].author # req[s].user)
  <2>1. pc[r] = "create" /\ End(r) /\ UnderWay(r)
    BY <1>2 DEF Create, UnderWay
  <2>2. ~stale' /\ ~crowded'
    BY <1>1, <1>2, <2>1 DEF Create, Current, Creating
  <2>3. /\ row'[c] = NewRow(r) /\ row[c] = Absent /\ \A d \in Comments : Lasting(d)
        /\ \A d \in Comments : d # c => row'[d] = row[d]
    BY <1>1, <1>2, CreateWrites
  <2>4. row'[c].author = req[r].user /\ ~Exists(c)
    BY <2>3 DEF NewRow, Exists
  <2>5. \A s \in Requests \ {r} : UnderWay(s) => req[s].user # req[r].user
    BY <1>1, <2>1 DEF InTurn
  <2>6. QED
    BY <2>1, <2>2, <2>3, <2>4, <2>5
<1>3. ASSUME Update(r) \/ Delete(r) \/ Moderate(r) \/ Pin(r) \/ Flag(r)
      PROVE  /\ End(r) /\ UnderWay(r) /\ ~stale' /\ ~crowded' /\ \A d \in Comments : Lasting(d)
             /\ \A s \in Requests \ {r} : \A d \in Comments :
                   \/ row'[d] = row[d]
                   \/ Exists(d) /\ (UnderWay(s) => d \notin About(s))
  <2>1. pc[r] \in Updates /\ UnderWay(r) /\ Now(r) = seen[r]
    BY <1>1, <1>3 DEF Update, Delete, Moderate, Pin, Flag, Put, Updates, UnderWay, Current, Now
  <2>2. /\ End(r) /\ crowded' = crowded /\ Exists(req[r].comment)
        /\ \A d \in Comments : Lasting(d)
        /\ \A d \in Comments : d # req[r].comment => row'[d] = row[d]
    BY <1>1, <1>3, UpdateWrites
  <2>3. ~stale'
    BY <1>1, <1>3, <2>1 DEF Update, Delete, Moderate, Pin, Flag, Put
  <2>4. \A s \in Requests \ {r} : UnderWay(s) => req[r].comment \notin About(s)
    BY <1>1, <2>1 DEF InTurn
  <2>5. QED
    BY <1>1, <2>1, <2>2, <2>3, <2>4
<1>4. /\ End(r) /\ ~stale' /\ ~crowded' /\ \A d \in Comments : Lasting(d)
      /\ \A s \in Requests \ {r} : \A d \in Comments :
            \/ row'[d] = row[d]
            \/ Exists(d) /\ (UnderWay(s) => d \notin About(s))
            \/ ~Exists(d) /\ (UnderWay(s) => row'[d].author # req[s].user)
  BY <1>2, <1>3 DEF Write
<1>5. Current(r)'
  BY <1>1, <1>4, EndStep DEF Current, Updates, Creating
<1>6. ASSUME NEW s \in Requests \ {r} PROVE Current(s)'
  <2>1. pc'[s] = pc[s] /\ req'[s] = req[s] /\ seen'[s] = seen[s] /\ counted'[s] = counted[s]
    BY <1>1, <1>4, EndStep
  <2>2. Current(s)
    BY DEF Calm
  <2>3. QED
    BY <1>1, <1>4, <2>1, <2>2, OthersCurrent
<1>7. QED
  BY <1>4, <1>5, <1>6

\* What a request reads is so when it reads it.
LEMMA ReadCalm ==
    ASSUME Calm, NEW r \in Requests,
           (\E u \in Users : Start(r, u)) \/ CheckDuplicate(r) \/ FindParent(r) \/ Stop(r)
    PROVE  ~stale' /\ ~crowded' /\ \A s \in Requests : Current(s)'
<1>1. IInv /\ TypeOK /\ ~stale /\ ~crowded /\ Current(r)
  BY DEF Calm, IInv
<1>2. ASSUME row' = row, stale' = stale, crowded' = crowded, Current(r)',
             \A s \in Requests \ {r} :
                 pc'[s] = pc[s] /\ req'[s] = req[s] /\ seen'[s] = seen[s] /\ counted'[s] = counted[s]
      PROVE  ~stale' /\ ~crowded' /\ \A s \in Requests : Current(s)'
  <2>1. \A c \in Comments : Lasting(c)
    BY <1>2 DEF Lasting, Exists
  <2>2. ASSUME NEW s \in Requests \ {r} PROVE Current(s)'
    <3>1. Current(s)
      BY DEF Calm
    <3>2. QED
      BY <1>1, <1>2, <2>1, <3>1, OthersCurrent
  <2>3. QED
    BY <1>1, <1>2, <2>2
<1>3. CASE Refused(r)
  <2>1. Current(r)'
    BY <1>1, <1>3, EndStep DEF Refused, Current, Updates, Creating
  <2>2. QED
    BY <1>1, <1>2, <1>3, <2>1, EndStep DEF Refused
<1>4. ASSUME NEW u \in Users, NEW p \in Posts, NEW q \in Comments \cup {NoComment}, NEW t \in Texts,
             Count(r, u, p, q, t)
      PROVE  ~stale' /\ ~crowded' /\ \A s \in Requests : Current(s)'
  <2>1. pc'[r] = "duplicate" /\ req'[r].user = u /\ counted'[r] = CommentsBy(u) /\ row' = row
    BY <1>1, <1>4 DEF Count, Goto, TypeOK, NoReq
  <2>2. Current(r)'
    BY <2>1 DEF Current, Updates, CommentsBy, Exists
  <2>3. QED
    BY <1>1, <1>2, <1>4, <2>2 DEF Count, Goto, TypeOK
<1>5. ASSUME NEW u \in Users, NEW c \in Comments, NEW l \in Updates, Find(r, u, c, l),
             NEW x \in Reqs, req' = [req EXCEPT ![r] = x], x.comment = c
      PROVE  ~stale' /\ ~crowded' /\ \A s \in Requests : Current(s)'
  <2>1. pc'[r] = l /\ req'[r].comment = c /\ seen'[r] = row[c] /\ row' = row
    BY <1>1, <1>5 DEF Find, Goto, TypeOK
  <2>2. Current(r)'
    BY <2>1 DEF Current, Updates, Creating
  <2>3. QED
    BY <1>1, <1>2, <1>5, <2>2 DEF Find, Goto, TypeOK
<1>6. ASSUME NEW u \in Users, Start(r, u)
      PROVE  ~stale' /\ ~crowded' /\ \A s \in Requests : Current(s)'
  <2>1. ASSUME NEW c \in Comments, NEW t \in Texts, FindToUpdate(r, u, c, t)
        PROVE  ~stale' /\ ~crowded' /\ \A s \in Requests : Current(s)'
    <3> DEFINE x == [NoReq EXCEPT !.user = u, !.comment = c, !.text = t]
    <3>1. x \in Reqs /\ x.comment = c
      BY AbsentFacts DEF Reqs
    <3>2. Find(r, u, c, "update") /\ req' = [req EXCEPT ![r] = x] /\ "update" \in Updates
      BY <2>1 DEF FindToUpdate, Updates
    <3> HIDE DEF x
    <3>3. QED
      BY <1>5, <3>1, <3>2
  <2>2. ASSUME NEW c \in Comments, FindToDelete(r, u, c)
        PROVE  ~stale' /\ ~crowded' /\ \A s \in Requests : Current(s)'
    <3> DEFINE x == [NoReq EXCEPT !.user = u, !.comment = c]
    <3>1. x \in Reqs /\ x.comment = c
      BY AbsentFacts DEF Reqs
    <3>2. Find(r, u, c, "delete") /\ req' = [req EXCEPT ![r] = x] /\ "delete" \in Updates
      BY <2>2 DEF FindToDelete, Updates
    <3> HIDE DEF x
    <3>3. QED
      BY <1>5, <3>1, <3>2
  <2>3. ASSUME NEW c \in Comments, FindToFlag(r, u, c)
        PROVE  ~stale' /\ ~crowded' /\ \A s \in Requests : Current(s)'
    <3> DEFINE x == [NoReq EXCEPT !.user = u, !.comment = c]
    <3>1. x \in Reqs /\ x.comment = c
      BY AbsentFacts DEF Reqs
    <3>2. Find(r, u, c, "flag") /\ req' = [req EXCEPT ![r] = x] /\ "flag" \in Updates
      BY <2>3 DEF FindToFlag, Updates
    <3> HIDE DEF x
    <3>3. QED
      BY <1>5, <3>1, <3>2
  <2>4. ASSUME NEW c \in Comments, NEW v \in Judgements, FindToModerate(r, u, c, v)
        PROVE  ~stale' /\ ~crowded' /\ \A s \in Requests : Current(s)'
    <3> DEFINE x == [NoReq EXCEPT !.user = u, !.comment = c, !.status = v]
    <3>1. x \in Reqs /\ x.comment = c
      BY AbsentFacts, CommentsConstants DEF Reqs
    <3>2. Find(r, u, c, "moderate") /\ req' = [req EXCEPT ![r] = x] /\ "moderate" \in Updates
      BY <2>4 DEF FindToModerate, Updates
    <3> HIDE DEF x
    <3>3. QED
      BY <1>5, <3>1, <3>2
  <2>5. ASSUME NEW c \in Comments, NEW b \in BOOLEAN, FindToPin(r, u, c, b)
        PROVE  ~stale' /\ ~crowded' /\ \A s \in Requests : Current(s)'
    <3> DEFINE x == [NoReq EXCEPT !.user = u, !.comment = c, !.pin = b]
    <3>1. x \in Reqs /\ x.comment = c
      BY AbsentFacts DEF Reqs
    <3>2. Find(r, u, c, "pin") /\ req' = [req EXCEPT ![r] = x] /\ "pin" \in Updates
      BY <2>5 DEF FindToPin, Updates
    <3> HIDE DEF x
    <3>3. QED
      BY <1>5, <3>1, <3>2
  <2>6. QED
    BY <1>4, <1>6, <2>1, <2>2, <2>3, <2>4, <2>5 DEF Start
<1>7. CASE CheckDuplicate(r) /\ ~Refused(r)
  <2>1. /\ pc[r] = "duplicate" /\ pc'[r] = (IF req[r].parent = NoComment THEN "create" ELSE "parent")
        /\ UNCHANGED <<row, req, seen, counted>>
    BY <1>1, <1>7 DEF CheckDuplicate, Goto, TypeOK
  <2>2. Current(r)'
    BY <1>1, <2>1 DEF Current, Updates, Creating, CommentsBy, Exists
  <2>3. QED
    BY <1>1, <1>2, <1>7, <2>2 DEF CheckDuplicate, Goto, TypeOK
<1>8. CASE FindParent(r) /\ ~Refused(r)
  <2>1. /\ pc[r] = "parent" /\ pc'[r] = "create" /\ seen'[r] = row[req[r].parent]
        /\ UNCHANGED <<row, req, counted>>
    BY <1>1, <1>8 DEF FindParent, Goto, TypeOK
  <2>2. Current(r)'
    BY <1>1, <2>1 DEF Current, Updates, Creating, CommentsBy, Exists
  <2>3. QED
    BY <1>1, <1>2, <1>8, <2>2 DEF FindParent, Goto, TypeOK
<1>9. QED
  BY <1>3, <1>6, <1>7, <1>8 DEF Stop

LEMMA CalmStep == Calm /\ [Next /\ InTurn']_vars => Calm'
<1> SUFFICES ASSUME Calm, [Next /\ InTurn']_vars PROVE Calm'
  OBVIOUS
<1>1. IInv'
  BY IInvStep DEF Calm
<1>2. ASSUME NEW r \in Requests, InTurn',
             Write(r) \/ (\E u \in Users : Start(r, u)) \/ CheckDuplicate(r) \/ FindParent(r) \/ Stop(r)
      PROVE  Calm'
  BY <1>1, <1>2, WriteCalm, ReadCalm DEF Calm
<1>3. ASSUME InTurn', (\E c \in Comments : Age(c)) \/ UNCHANGED vars PROVE Calm'
  <2>1. UNCHANGED <<row, pc, req, seen, counted, stale, crowded>>
    BY <1>3 DEF Age, vars
  <2>2. \A r \in Requests : Current(r)'
    BY <2>1 DEF Calm, Current, CommentsBy, Exists
  <2>3. QED
    BY <1>1, <1>3, <2>1, <2>2 DEF Calm
<1>4. UNCHANGED vars => InTurn'
  BY DEF Calm, InTurn, UnderWay, About, vars
<1>5. QED
  BY <1>2, <1>3, <1>4 DEF Next

LEMMA CalmInvariant == SpecInTurn => []Calm
  BY CalmInit, CalmStep, PTL DEF SpecInTurn

LEMMA InTurnSpec == SpecInTurn => Spec
<1>1. [Next /\ InTurn']_vars => [Next]_vars
  OBVIOUS
<1>2. QED
  BY <1>1, PTL DEF SpecInTurn, Spec

\* As long as no comment is changed by two requests at once, the text of every
\* approved comment is the one the approving request read, whatever the moderator
\* had seen before.
THEOREM ApprovedTextInTurn == SpecInTurn => []ApprovedAsRead
<1>1. Calm /\ ApprovedAsReadUnlessStale => ApprovedAsRead
  BY DEF Calm, ApprovedAsReadUnlessStale
<1>2. QED
  BY <1>1, CalmInvariant, InTurnSpec, ApprovedTextKept, PTL

\* As long as each user sends one request at a time, nobody has more than Limit
\* new comments, however many users there are.
THEOREM RateHeldInTurn == SpecInTurn => []WithinLimit
<1>1. Calm /\ RateHeldUnlessCrowded => WithinLimit
  BY DEF Calm, RateHeldUnlessCrowded
<1>2. QED
  BY <1>1, CalmInvariant, InTurnSpec, RateHeld, PTL

\* Then each request is at most one atomic operation, without exception.
THEOREM RefinementInTurn == SpecInTurn => ImplementsModerationInTurn
<1>1. Calm' /\ [~stale' => Atomic!Next]_row => [Atomic!Next]_row
  BY DEF Calm
<1>2. QED
  BY <1>1, CalmInvariant, InTurnSpec, Refinement, PTL DEF ImplementsModeration, ImplementsModerationInTurn
=============================================================================
