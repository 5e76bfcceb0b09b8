------------------------ MODULE PostPublishingProofs ------------------------
(***************************************************************************)
(* Proofs about the publishing of a post, for every set of editors,        *)
(* workers, contents and inputs: type correctness; that until a stale      *)
(* write scheduled posts have dates and no replaced text but a blanked one *)
(* is lost; and that until then every handler implements the atomic        *)
(* lifecycle.                                                              *)
(***************************************************************************)
EXTENDS PostPublishing, FiniteSetTheorems, TLAPS

\* A post that exists has a text, and so has every copy a handler holds.
RowInv ==
    /\ post.status # "NONE" => post.content \in Contents
    /\ post.active => post.status # "NONE"
    /\ \A a \in Actors : Busy(a) =>
           /\ post.status # "NONE"
           /\ loaded[a].status # "NONE" /\ loaded[a].active
           /\ loaded[a].content \in Contents
    /\ \A a \in Actors :
           /\ pc[a] \in {"revise", "save", "delete"} => a \in Editors
           /\ pc[a] = "publish" => a \in Workers

TypeInv == TypeOK /\ RowInv

LEMMA MergedType ==
    ASSUME NEW row \in Posts, row.status # "NONE", row.content \in Contents,
           NEW old \in Posts, NEW d \in Inputs, now \in Dates
    PROVE  /\ Merged(row, old, d) \in Posts
           /\ Merged(row, old, d).status # "NONE"
           /\ Merged(row, old, d).content \in Contents
  BY DEF Merged, Posts, Inputs, Statuses

LEMMA NewRowType ==
    ASSUME NEW s \in Statuses, NEW t \in Dates, NEW u \in Dates, NEW c \in Contents,
           NEW p, p = [status |-> s, scheduledAt |-> t, publishedAt |-> u,
                       active |-> TRUE, content |-> c]
    PROVE  p \in Posts /\ p.status # "NONE" /\ p.content \in Contents
<1>1. p.status # "NONE" /\ p.content \in Contents
  BY DEF Statuses
<1>2. p \in Posts
  BY DEF Posts
<1>3. QED
  BY <1>1, <1>2

LEMMA TypeInit == Init => TypeInv
<1>1. NoPost \in Posts /\ NoPost.status = "NONE" /\ NoPost.active = FALSE
  BY PublishingConstants DEF NoPost, Posts, Dates
<1>2. NoInput \in Inputs
  BY PublishingConstants DEF NoInput, Inputs, Dates
<1>3. Init => TypeOK
  <2>1. 1 \in 1..MaxTime
    BY PublishingConstants
  <2>2. SUFFICES ASSUME Init PROVE TypeOK
    OBVIOUS
  <2>3. pc \in [Actors -> Locations] /\ input \in [Editors -> Inputs]
    BY <1>2, <2>2 DEF Init, Locations
  <2>4. post \in Posts /\ loaded \in [Actors -> Posts]
    BY <1>1, <2>2 DEF Init
  <2>5. QED
    BY <2>1, <2>2, <2>3, <2>4 DEF Init, TypeOK
<1>4. Init => RowInv
  BY <1>1 DEF Init, RowInv, Busy
<1>5. QED
  BY <1>3, <1>4 DEF TypeInv

LEMMA TypeStep == TypeInv /\ [Next]_vars => TypeInv'
<1> SUFFICES ASSUME TypeInv, [Next]_vars PROVE TypeInv'
  OBVIOUS
<1> USE PublishingConstants
    DEF TypeInv, TypeOK, RowInv, Busy, Locations, Goto, Actors
<1>1. NoPost \in Posts /\ NoPost.status = "NONE" /\ NoInput \in Inputs
  BY DEF NoPost, Posts, Dates, NoInput, Inputs
<1>2. now \in Dates
  BY DEF Dates
\* A write by actor a that leaves a well-formed row keeps the types.
<1>3. ASSUME NEW a \in Actors, NEW p \in Posts, NEW l \in {"announce", "done"},
             Write(a, p, l), p.status # "NONE", p.content \in Contents,
             input' \in [Editors -> Inputs], stale' \in BOOLEAN, blanked' \subseteq Contents,
             UNCHANGED <<now, revisions, announced>>
      PROVE  TypeInv'
  <2>1. /\ post' = p /\ loaded' \in [Actors -> Posts] /\ published' \in Nat
        /\ everLive' \subseteq Contents /\ pc' \in [Actors -> Locations]
    BY <1>1, <1>3 DEF Write
  <2>2. /\ pc'[a] = l
        /\ \A b \in Actors : b # a => pc'[b] = pc[b] /\ loaded'[b] = loaded[b]
    BY <1>3 DEF Write
  <2>3. QED
    BY <1>3, <2>1, <2>2
<1>4. ASSUME NEW e \in Editors, NEW d \in Edits, Create(e, d) PROVE TypeInv'
  <2> DEFINE s == IF d.status = "keep" THEN "DRAFT" ELSE d.status
             p == [status |-> s, scheduledAt |-> d.scheduledAt,
                   publishedAt |-> IF s = "PUBLISHED" THEN now ELSE 0,
                   active |-> TRUE, content |-> d.content]
             l == IF s = "PUBLISHED" THEN "announce" ELSE "done"
  <2>0. /\ s \in Statuses /\ d.scheduledAt \in Dates /\ d.content \in Contents
        /\ (IF s = "PUBLISHED" THEN now ELSE 0) \in Dates
    BY <1>2, <1>4 DEF Create, Inputs, Statuses, Dates
  <2>1. p \in Posts /\ p.status # "NONE" /\ p.content \in Contents
    <3> HIDE DEF s
    <3>1. QED
      BY <2>0, NewRowType
  <2>2. Write(e, p, l) /\ UNCHANGED <<now, revisions, input, announced, blanked, stale>>
    BY <1>4 DEF Create
  <2>3. l \in {"announce", "done"} /\ e \in Actors
    OBVIOUS
  <2> HIDE DEF p, l
  <2>4. QED
    BY <1>3, <2>1, <2>2, <2>3
<1>5. ASSUME NEW e \in Editors, NEW d \in Edits, Load(e, d) PROVE TypeInv'
  BY <1>5 DEF Load
<1>6. ASSUME NEW e \in Editors, Revise(e) PROVE TypeInv'
  BY <1>6 DEF Revise
<1>7. ASSUME NEW e \in Editors, Save(e) PROVE TypeInv'
  <2> DEFINE p == Merged(post, loaded[e], input[e])
             l == IF loaded[e].status # "PUBLISHED" /\ p.status = "PUBLISHED"
                  THEN "announce" ELSE "done"
  <2>1. p \in Posts /\ p.status # "NONE" /\ p.content \in Contents
    BY <1>2, <1>7, MergedType DEF Save
  <2>2. Write(e, p, l) /\ UNCHANGED <<now, revisions, announced>>
    BY <1>7 DEF Save
  <2>3. input' \in [Editors -> Inputs] /\ stale' \in BOOLEAN /\ blanked' \subseteq Contents
    BY <1>1, <1>7 DEF Save
  <2>4. l \in {"announce", "done"} /\ e \in Actors
    OBVIOUS
  <2> HIDE DEF p, l
  <2>5. QED
    BY <1>3, <2>1, <2>2, <2>3, <2>4
<1>8. ASSUME NEW e \in Editors, LoadForDelete(e) PROVE TypeInv'
  BY <1>8 DEF LoadForDelete
<1>9. ASSUME NEW e \in Editors, SoftDelete(e) PROVE TypeInv'
  <2> DEFINE p == [post EXCEPT !.active = FALSE]
  <2>1. p \in Posts /\ p.status # "NONE" /\ p.content \in Contents
    BY <1>9 DEF SoftDelete, Posts
  <2>2. Write(e, p, "done") /\ UNCHANGED <<now, revisions, input, announced, blanked, stale>>
    BY <1>9 DEF SoftDelete
  <2> HIDE DEF p
  <2>3. QED
    BY <1>3, <2>1, <2>2
<1>10. ASSUME NEW w \in Workers, FindDue(w) PROVE TypeInv'
  BY <1>10 DEF FindDue, Due
<1>11. ASSUME NEW w \in Workers, Publish(w) PROVE TypeInv'
  <2> DEFINE p == [post EXCEPT !.status = "PUBLISHED",
                               !.publishedAt = loaded[w].scheduledAt, !.scheduledAt = 0]
  <2>1. p \in Posts /\ p.status # "NONE" /\ p.content \in Contents
    <3>1. /\ post.status # "NONE" /\ post.content \in Contents
          /\ loaded[w] \in Posts /\ post \in Posts
      BY <1>11 DEF Publish
    <3>2. loaded[w].scheduledAt \in Dates /\ 0 \in Dates
      BY <3>1 DEF Posts, Dates
    <3>3. QED
      BY <3>1, <3>2 DEF Posts, Statuses
  <2>2. Write(w, p, "announce") /\ UNCHANGED <<now, revisions, input, announced, blanked>>
    BY <1>11 DEF Publish
  <2>3. stale' \in BOOLEAN
    BY <1>11 DEF Publish
  <2> HIDE DEF p
  <2>4. QED
    BY <1>3, <2>1, <2>2, <2>3
<1>12. ASSUME NEW a \in Actors, Announce(a) PROVE TypeInv'
  BY <1>12 DEF Announce
<1>13. ASSUME NEW a \in Actors, Stop(a) PROVE TypeInv'
  BY <1>1, <1>13 DEF Stop
<1>14. ASSUME NEW e \in Editors, Refuse(e) PROVE TypeInv'
  BY <1>14 DEF Refuse
<1>15. CASE Tick
  BY <1>15 DEF Tick
<1>16. CASE UNCHANGED vars
  BY <1>16 DEF vars
<1>17. QED
  BY <1>4, <1>5, <1>6, <1>7, <1>8, <1>9, <1>10, <1>11, <1>12, <1>13, <1>14, <1>15, <1>16
  DEF Next, Edit, Job

\* The row, the handlers' copies and the history always have their types.
THEOREM TypeCorrect == Spec => []TypeOK
<1>1. TypeInv => TypeOK
  BY DEF TypeInv
<1>2. QED
  BY TypeInit, TypeStep, <1>1, PTL DEF Spec

----------------------------------------------------------------------------
(* What a handler knows of the row it loaded, and what that makes true of  *)
(* the row until a stale write.                                            *)

Knowledge ==
    /\ \A e \in Editors :
           /\ pc[e] \in {"revise", "save"} => Accepts(loaded[e], input[e])
           /\ pc[e] = "save" /\ input[e].content \notin {NoContent, Blank} => loaded[e].content \in revisions
    /\ \A w \in Workers : pc[w] = "publish" => Due(loaded[w])

IInv == TypeInv /\ Knowledge /\ ScheduledHasDateUnlessStale /\ TextKeptUnlessBlanked

LEMMA KnowledgeInit == Init => Knowledge
  BY PublishingConstants DEF Init, Knowledge, Actors

LEMMA KnowledgeStep == TypeInv /\ TypeInv' /\ Knowledge /\ [Next]_vars => Knowledge'
<1> SUFFICES ASSUME TypeInv, TypeInv', Knowledge, [Next]_vars PROVE Knowledge'
  OBVIOUS
<1> USE PublishingConstants DEF TypeInv, TypeOK, Actors, Goto
\* An actor that keeps its place and its data keeps what it knows of them.
<1>1. ASSUME NEW a \in Actors, pc'[a] \in {"idle", "announce", "done"},
             \A b \in Actors : b # a => pc'[b] = pc[b] /\ loaded'[b] = loaded[b],
             \A e \in Editors : e # a => input'[e] = input[e],
             UNCHANGED <<now, revisions>>
      PROVE  Knowledge'
  BY <1>1 DEF Knowledge, Accepts, Due
<1>2. ASSUME NEW a \in Actors, NEW p, NEW l \in {"announce", "done"}, Write(a, p, l)
      PROVE  /\ pc'[a] = l
             /\ \A b \in Actors : b # a => pc'[b] = pc[b] /\ loaded'[b] = loaded[b]
  BY <1>2 DEF Write
<1>3. ASSUME NEW e \in Editors, NEW d \in Edits, Create(e, d) PROVE Knowledge'
  BY <1>1, <1>2, <1>3 DEF Create
<1>4. ASSUME NEW e \in Editors, NEW d \in Edits, Load(e, d) PROVE Knowledge'
  BY <1>4 DEF Load, Knowledge, Accepts, Due
<1>5. ASSUME NEW e \in Editors, Revise(e) PROVE Knowledge'
  BY <1>5 DEF Revise, Knowledge, Accepts, Due
<1>6. ASSUME NEW e \in Editors, Save(e) PROVE Knowledge'
  BY <1>1, <1>2, <1>6 DEF Save
<1>7. ASSUME NEW e \in Editors, LoadForDelete(e) PROVE Knowledge'
  BY <1>7 DEF LoadForDelete, Knowledge, Accepts, Due
<1>8. ASSUME NEW e \in Editors, SoftDelete(e) PROVE Knowledge'
  BY <1>1, <1>2, <1>8 DEF SoftDelete
<1>9. ASSUME NEW w \in Workers, FindDue(w) PROVE Knowledge'
  BY <1>9 DEF FindDue, Knowledge, Accepts, Due
<1>10. ASSUME NEW w \in Workers, Publish(w) PROVE Knowledge'
  BY <1>1, <1>2, <1>10 DEF Publish
<1>11. ASSUME NEW a \in Actors, Announce(a) PROVE Knowledge'
  BY <1>1, <1>11 DEF Announce
<1>12. ASSUME NEW a \in Actors, Stop(a) PROVE Knowledge'
  BY <1>1, <1>12 DEF Stop
<1>13. ASSUME NEW e \in Editors, Refuse(e) PROVE Knowledge'
  BY <1>1, <1>13 DEF Refuse
<1>14. CASE Tick
  BY <1>14 DEF Tick, Knowledge, Accepts, Due
<1>15. CASE UNCHANGED vars
  BY <1>15 DEF vars, Knowledge, Accepts, Due
<1>16. QED
  BY <1>3, <1>4, <1>5, <1>6, <1>7, <1>8, <1>9, <1>10, <1>11, <1>12, <1>13, <1>14, <1>15
  DEF Next, Edit, Job

\* What a save makes of a row that has not changed since it was loaded.
LEMMA FreshSave ==
    ASSUME TypeInv, Knowledge, ScheduledHasDate, NEW e \in Editors, Save(e), ~stale'
    PROVE  /\ ~stale /\ post = loaded[e] /\ post.active
           /\ post' = Merged(post, post, input[e]) /\ post' \in Posts
           /\ input[e] \in Inputs /\ Accepts(post, input[e])
           /\ post'.status \in Allowed[post.status] \cup {post.status}
           /\ ScheduledHasDate'
           /\ post.scheduledAt # 0 => post'.scheduledAt # 0
<1> USE PublishingConstants DEF TypeInv, TypeOK, RowInv, Busy, Actors
<1>1. ~stale /\ post = loaded[e] /\ post.active /\ post.status # "NONE"
  BY DEF Save
<1>2. input[e] \in Inputs /\ Accepts(post, input[e])
  BY <1>1 DEF Save, Knowledge
<1>3. post' = Merged(post, post, input[e])
  BY <1>1 DEF Save, Write
<1>4. post' \in Posts
  BY <1>1, <1>2, <1>3, MergedType DEF Dates
<1>5. post'.status = IF input[e].status = "keep" THEN post.status ELSE input[e].status
  BY <1>3 DEF Merged
<1>6. post'.scheduledAt = IF input[e].scheduledAt = 0 THEN post.scheduledAt ELSE input[e].scheduledAt
  BY <1>3 DEF Merged
<1>7. post'.status \in Allowed[post.status] \cup {post.status}
  BY <1>2, <1>5 DEF Accepts
<1>8. ScheduledHasDate'
  BY <1>2, <1>5, <1>6 DEF Accepts, ScheduledHasDate
<1>9. post.scheduledAt # 0 => post'.scheduledAt # 0
  BY <1>6
<1>10. QED
  BY <1>1, <1>2, <1>3, <1>4, <1>7, <1>8, <1>9

LEMMA SafetyInit == Init => ScheduledHasDateUnlessStale /\ TextKeptUnlessBlanked
  BY DEF Init, NoPost, ScheduledHasDateUnlessStale, ScheduledHasDate, TextKeptUnlessBlanked

\* The writes are the steps that matter: the others leave the row alone and
\* only add revisions.
LEMMA SafetyStep ==
    IInv /\ [Next]_vars => ScheduledHasDateUnlessStale' /\ TextKeptUnlessBlanked'
<1> SUFFICES ASSUME IInv, [Next]_vars
             PROVE  ScheduledHasDateUnlessStale' /\ TextKeptUnlessBlanked'
  OBVIOUS
<1> USE PublishingConstants DEF IInv
<1>1. ASSUME post' = post, everLive' = everLive, stale' = stale, blanked' = blanked,
             revisions \subseteq revisions'
      PROVE  ScheduledHasDateUnlessStale' /\ TextKeptUnlessBlanked'
  BY <1>1 DEF ScheduledHasDateUnlessStale, ScheduledHasDate, TextKeptUnlessBlanked
<1>2. ASSUME NEW e \in Editors, NEW d \in Edits, Create(e, d)
      PROVE  ScheduledHasDateUnlessStale' /\ TextKeptUnlessBlanked'
  <2>1. /\ post'.status = (IF d.status = "keep" THEN "DRAFT" ELSE d.status)
        /\ post'.scheduledAt = d.scheduledAt /\ post'.content = d.content
        /\ everLive' = everLive \cup {d.content}
        /\ revisions' = revisions /\ stale' = stale /\ blanked' = blanked
    BY <1>2 DEF Create, Write
  <2>2. ~(d.status = "SCHEDULED" /\ d.scheduledAt = 0)
    BY <1>2 DEF Create
  <2>3. ~stale => everLive \subseteq revisions \cup blanked
    BY <1>2 DEF Create, NoPost, TypeInv, TypeOK, TextKeptUnlessBlanked
  <2>4. QED
    BY <2>1, <2>2, <2>3
    DEF ScheduledHasDateUnlessStale, ScheduledHasDate, TextKeptUnlessBlanked
<1>3. ASSUME NEW e \in Editors, Save(e)
      PROVE  ScheduledHasDateUnlessStale' /\ TextKeptUnlessBlanked'
  <2> SUFFICES ASSUME ~stale' PROVE ScheduledHasDate' /\ everLive' \subseteq revisions' \cup {post'.content} \cup blanked'
    BY DEF ScheduledHasDateUnlessStale, TextKeptUnlessBlanked
  <2>1. ~stale
    BY <1>3 DEF Save, TypeInv, TypeOK
  <2>2. ScheduledHasDate /\ everLive \subseteq revisions \cup {post.content} \cup blanked
    BY <2>1 DEF ScheduledHasDateUnlessStale, TextKeptUnlessBlanked
  <2>3. /\ post = loaded[e] /\ post' = Merged(post, post, input[e]) /\ ScheduledHasDate'
    BY <1>3, <2>2, FreshSave
  <2>4. /\ everLive' = everLive \cup {post'.content} /\ revisions' = revisions
        /\ input[e].content \notin {NoContent, Blank} => post.content \in revisions
        /\ input[e].content = Blank => post.content \in blanked'
        /\ blanked \subseteq blanked'
    BY <1>3, <2>3 DEF Save, Write, Knowledge
  <2>5. input[e].content = NoContent => post'.content = post.content
    BY <2>3 DEF Merged
  <2>6. QED
    BY <2>2, <2>3, <2>4, <2>5
<1>4. ASSUME NEW e \in Editors, SoftDelete(e)
      PROVE  ScheduledHasDateUnlessStale' /\ TextKeptUnlessBlanked'
  <2>1. /\ post'.status = post.status /\ post'.scheduledAt = post.scheduledAt
        /\ post'.content = post.content /\ everLive' = everLive \cup {post.content}
        /\ revisions' = revisions /\ stale' = stale /\ blanked' = blanked
    BY <1>4 DEF SoftDelete, Write, TypeInv, TypeOK, Posts
  <2>2. QED
    BY <2>1 DEF ScheduledHasDateUnlessStale, ScheduledHasDate, TextKeptUnlessBlanked
<1>5. ASSUME NEW w \in Workers, Publish(w)
      PROVE  ScheduledHasDateUnlessStale' /\ TextKeptUnlessBlanked'
  <2>1. /\ post'.status = "PUBLISHED" /\ post'.content = post.content
        /\ everLive' = everLive \cup {post.content} /\ revisions' = revisions
        /\ blanked' = blanked /\ (~stale' => ~stale)
    BY <1>5 DEF Publish, Write, TypeInv, TypeOK, Posts
  <2>2. QED
    BY <2>1 DEF ScheduledHasDateUnlessStale, ScheduledHasDate, TextKeptUnlessBlanked
<1>6. ASSUME NEW e \in Editors, NEW d \in Edits, Load(e, d)
      PROVE  ScheduledHasDateUnlessStale' /\ TextKeptUnlessBlanked'
  BY <1>1, <1>6 DEF Load
<1>7. ASSUME NEW e \in Editors, Revise(e) \/ LoadForDelete(e) \/ Refuse(e)
      PROVE  ScheduledHasDateUnlessStale' /\ TextKeptUnlessBlanked'
  BY <1>1, <1>7 DEF Revise, LoadForDelete, Refuse
<1>8. ASSUME NEW a \in Actors, FindDue(a) \/ Announce(a) \/ Stop(a)
      PROVE  ScheduledHasDateUnlessStale' /\ TextKeptUnlessBlanked'
  BY <1>1, <1>8 DEF FindDue, Announce, Stop
<1>9. ASSUME Tick \/ UNCHANGED vars
      PROVE  ScheduledHasDateUnlessStale' /\ TextKeptUnlessBlanked'
  BY <1>1, <1>9 DEF Tick, vars
<1>10. QED
  BY <1>2, <1>3, <1>4, <1>5, <1>6, <1>7, <1>8, <1>9 DEF Next, Edit, Job, Actors

LEMMA Invariant == Spec => []IInv
<1>1. Init => IInv
  BY TypeInit, KnowledgeInit, SafetyInit DEF IInv
<1>2. IInv /\ [Next]_vars => IInv'
  BY TypeStep, KnowledgeStep, SafetyStep DEF IInv
<1>3. QED
  BY <1>1, <1>2, PTL DEF Spec

\* "Scheduled posts must have a scheduledAt date", until a stale write.
THEOREM Scheduled == Spec => []ScheduledHasDateUnlessStale
<1>1. IInv => ScheduledHasDateUnlessStale
  BY DEF IInv
<1>2. QED
  BY Invariant, <1>1, PTL

\* Until a stale write, no text that was ever live is lost but those that an
\* update without anything left after sanitising has replaced.
THEOREM ContentKept == Spec => []TextKeptUnlessBlanked
<1>1. IInv => TextKeptUnlessBlanked
  BY DEF IInv
<1>2. QED
  BY Invariant, <1>1, PTL

----------------------------------------------------------------------------
(* Announcements. *)

Announcing == {a \in Actors : pc[a] = "announce"}

\* Whoever is about to announce has made the row PUBLISHED, and for each time
\* the row became so one of them was.
AnnounceInv ==
    /\ IsFiniteSet(Announcing)
    /\ stale \/ announced + Cardinality(Announcing) <= published

LEMMA AnnounceInit == Init => AnnounceInv
<1> SUFFICES ASSUME Init PROVE AnnounceInv
  OBVIOUS
<1>1. Announcing = {}
  BY DEF Init, Announcing
<1>2. QED
  BY <1>1, FS_EmptySet DEF Init, AnnounceInv

\* An actor comes to its announcement: the row became PUBLISHED in that step.
LEMMA Joins ==
    ASSUME TypeInv, AnnounceInv, NEW a \in Actors, pc[a] # "announce", Goto(a, "announce"),
           announced' = announced, stale => stale', stale' \/ published' = published + 1
    PROVE  AnnounceInv'
<1>1. Announcing' = Announcing \cup {a} /\ a \notin Announcing
  BY DEF Announcing, Goto, TypeInv, TypeOK
<1>2. IsFiniteSet(Announcing') /\ Cardinality(Announcing') = Cardinality(Announcing) + 1
  BY <1>1, FS_AddElement DEF AnnounceInv
<1>3. Cardinality(Announcing) \in Nat /\ announced \in Nat /\ published \in Nat
  BY FS_CardinalityType DEF AnnounceInv, TypeInv, TypeOK
<1>4. QED
  BY <1>2, <1>3 DEF AnnounceInv

\* An actor stays away from the announcement, or leaves it, having announced
\* once at most.
LEMMA StaysOrLeaves ==
    ASSUME TypeInv, AnnounceInv, NEW a \in Actors, NEW l \in Locations \ {"announce"}, Goto(a, l),
           announced' \in {announced, announced + 1}, announced' # announced => pc[a] = "announce",
           stale => stale', published' \in {published, published + 1}
    PROVE  AnnounceInv'
<1>1. Announcing' = Announcing \ {a}
  BY DEF Announcing, Goto, TypeInv, TypeOK
<1>2. /\ IsFiniteSet(Announcing')
      /\ Cardinality(Announcing') = IF a \in Announcing THEN Cardinality(Announcing) - 1
                                                       ELSE Cardinality(Announcing)
  BY <1>1, FS_RemoveElement DEF AnnounceInv
<1>3. Cardinality(Announcing) \in Nat /\ announced \in Nat /\ published \in Nat
  BY FS_CardinalityType DEF AnnounceInv, TypeInv, TypeOK
<1>4. announced' # announced => a \in Announcing
  BY DEF Announcing
<1>5. QED
  BY <1>2, <1>3, <1>4 DEF AnnounceInv

LEMMA AnnounceStep == IInv /\ AnnounceInv /\ [Next]_vars => AnnounceInv'
<1> SUFFICES ASSUME IInv, AnnounceInv, [Next]_vars PROVE AnnounceInv'
  OBVIOUS
<1> USE PublishingConstants DEF IInv, Actors
<1>0. /\ {"idle", "revise", "save", "delete", "publish", "done"} \subseteq Locations \ {"announce"}
      /\ TypeInv
  BY DEF Locations
<1>1. ASSUME NEW a \in Actors, NEW p, NEW l \in {"announce", "done"}, Write(a, p, l)
      PROVE  /\ Goto(a, l) /\ post' = p /\ published' \in {published, published + 1}
             /\ post.status # "PUBLISHED" /\ p.status = "PUBLISHED" => published' = published + 1
  BY <1>1 DEF Write
<1>2. ASSUME NEW e \in Editors, NEW d \in Edits, Create(e, d) PROVE AnnounceInv'
  <2> DEFINE s == IF d.status = "keep" THEN "DRAFT" ELSE d.status
             l == IF s = "PUBLISHED" THEN "announce" ELSE "done"
  <2>1. PICK p : Write(e, p, l) /\ p.status = s
    BY <1>2 DEF Create
  <2>2. /\ pc[e] = "idle" /\ post.status = "NONE" /\ announced' = announced /\ stale' = stale
    BY <1>2 DEF Create, NoPost
  <2>3. CASE s = "PUBLISHED"
    BY <1>0, <1>1, <2>1, <2>2, <2>3, Joins
  <2>4. CASE s # "PUBLISHED"
    BY <1>0, <1>1, <2>1, <2>2, <2>4, StaysOrLeaves
  <2>5. QED
    BY <2>3, <2>4
<1>3. ASSUME NEW e \in Editors, Save(e) PROVE AnnounceInv'
  <2> DEFINE p == Merged(post, loaded[e], input[e])
             turns == loaded[e].status # "PUBLISHED" /\ p.status = "PUBLISHED"
             l == IF turns THEN "announce" ELSE "done"
  <2>1. /\ Write(e, p, l) /\ pc[e] = "save" /\ announced' = announced
        /\ stale' = (stale \/ post # loaded[e])
    BY <1>3 DEF Save
  <2> HIDE DEF p
  <2>2. CASE turns
    BY <1>0, <1>1, <2>1, <2>2, Joins
  <2>3. CASE ~turns
    BY <1>0, <1>1, <2>1, <2>3, StaysOrLeaves
  <2>4. QED
    BY <2>2, <2>3
<1>4. ASSUME NEW e \in Editors, SoftDelete(e) PROVE AnnounceInv'
  <2>1. PICK p : Write(e, p, "done") /\ UNCHANGED <<announced, stale>> /\ pc[e] = "delete"
    BY <1>4 DEF SoftDelete
  <2>2. QED
    BY <1>0, <1>1, <2>1, StaysOrLeaves
<1>5. ASSUME NEW w \in Workers, Publish(w) PROVE AnnounceInv'
  <2> DEFINE p == [post EXCEPT !.status = "PUBLISHED",
                               !.publishedAt = loaded[w].scheduledAt, !.scheduledAt = 0]
  <2>1. Write(w, p, "announce") /\ p.status = "PUBLISHED"
    BY <1>5 DEF Publish, TypeInv, TypeOK, Posts
  <2> HIDE DEF p
  <2>2. /\ pc[w] = "publish" /\ announced' = announced
        /\ stale' = (stale \/ post # loaded[w]) /\ loaded[w].status = "SCHEDULED"
    BY <1>5 DEF Publish, Knowledge, Due
  <2>3. QED
    BY <1>0, <1>1, <2>1, <2>2, Joins
<1>6. ASSUME NEW a \in Actors, Announce(a) \/ Stop(a) PROVE AnnounceInv'
  <2>1. PICK l \in {"idle", "done"} : Goto(a, l)
    BY <1>6 DEF Announce, Stop
  <2>2. /\ announced' \in {announced, announced + 1} /\ UNCHANGED <<stale, published>>
        /\ announced' # announced => pc[a] = "announce"
    BY <1>6 DEF Announce, Stop
  <2>3. QED
    BY <1>0, <2>1, <2>2, StaysOrLeaves
<1>7. ASSUME NEW a \in Actors, NEW l \in {"revise", "save", "delete", "publish", "done"}, Goto(a, l),
             UNCHANGED <<announced, published, stale>>
      PROVE  AnnounceInv'
  BY <1>0, <1>7, StaysOrLeaves
<1>8. ASSUME NEW e \in Editors, NEW d \in Edits, Load(e, d) PROVE AnnounceInv'
  BY <1>7, <1>8 DEF Load
<1>9. ASSUME NEW e \in Editors, Revise(e) \/ LoadForDelete(e) \/ Refuse(e) PROVE AnnounceInv'
  BY <1>7, <1>9 DEF Revise, LoadForDelete, Refuse
<1>10. ASSUME NEW w \in Workers, FindDue(w) PROVE AnnounceInv'
  BY <1>7, <1>10 DEF FindDue
<1>11. CASE Tick \/ UNCHANGED vars
  BY <1>11 DEF Tick, vars, AnnounceInv, Announcing
<1>12. QED
  BY <1>2, <1>3, <1>4, <1>5, <1>6, <1>8, <1>9, <1>10, <1>11 DEF Next, Edit, Job

\* Until a stale write the event is emitted at most once for each time the post
\* becomes PUBLISHED, whichever editors and processes run, and wherever they stop.
THEOREM AnnouncedOnce == Spec => []AnnouncedOnceUnlessStale
<1>1. TypeInv /\ AnnounceInv => AnnouncedOnceUnlessStale
  <2> SUFFICES ASSUME TypeInv, AnnounceInv PROVE AnnouncedOnceUnlessStale
    OBVIOUS
  <2>1. Cardinality(Announcing) \in Nat /\ announced \in Nat /\ published \in Nat
    BY FS_CardinalityType DEF AnnounceInv, TypeInv, TypeOK
  <2>2. QED
    BY <2>1 DEF AnnounceInv, AnnouncedOnceUnlessStale
<1>2. IInv => TypeInv
  BY DEF IInv
<1>3. QED
  BY <1>1, <1>2, AnnounceInit, AnnounceStep, Invariant, PTL DEF Spec

----------------------------------------------------------------------------
(* Refinement. *)

LEMMA LifecycleStep == IInv /\ [Next]_vars /\ ~stale' => [Lifecycle!Next]_(Lifecycle!vars)
<1> SUFFICES ASSUME IInv, [Next]_vars, ~stale' PROVE [Lifecycle!Next]_(Lifecycle!vars)
  OBVIOUS
<1> USE PublishingConstants DEF IInv
<1>0. ASSUME UNCHANGED <<now, post>> PROVE [Lifecycle!Next]_(Lifecycle!vars)
  BY <1>0 DEF Lifecycle!vars
<1>1. ASSUME NEW e \in Editors, NEW d \in Edits, Create(e, d) PROVE Lifecycle!Create
  <2>1. TypeInv'
    BY TypeStep
  <2>2. post' \in Posts /\ post = NoPost /\ now' = now
    BY <1>1, <2>1 DEF Create, TypeInv, TypeOK
  <2>3. /\ post'.status = (IF d.status = "keep" THEN "DRAFT" ELSE d.status)
        /\ post'.scheduledAt = d.scheduledAt /\ post'.active
        /\ ~(d.status = "SCHEDULED" /\ d.scheduledAt = 0)
    BY <1>1 DEF Create, Write
  <2>4. post'.status \in Statuses
    BY <1>1, <2>3 DEF Inputs, Statuses
  <2>5. QED
    BY <2>2, <2>3, <2>4
    DEF Lifecycle!Create, Lifecycle!NoPost, NoPost, Lifecycle!Posts, Posts, Lifecycle!Dates,
        Dates, Lifecycle!Statuses, Statuses, Lifecycle!WellScheduled
<1>2. ASSUME NEW e \in Editors, Save(e) PROVE Lifecycle!Edit
  <2>1. ~stale /\ now' = now
    BY <1>2 DEF Save, TypeInv, TypeOK
  <2>2. ScheduledHasDate
    BY <2>1 DEF ScheduledHasDateUnlessStale
  <2>3. /\ post.active /\ post' \in Posts /\ ScheduledHasDate'
        /\ post'.status \in Allowed[post.status] \cup {post.status}
        /\ post.scheduledAt # 0 => post'.scheduledAt # 0
    BY <1>2, <2>2, FreshSave
  <2>4. QED
    BY <2>1, <2>3
    DEF Lifecycle!Edit, Lifecycle!Posts, Posts, Lifecycle!Dates, Dates, Lifecycle!Statuses,
        Statuses, Lifecycle!Allowed, Allowed, Lifecycle!WellScheduled, ScheduledHasDate
<1>3. ASSUME NEW e \in Editors, SoftDelete(e) PROVE Lifecycle!Delete
  <2>1. post.status # "NONE"
    BY <1>3 DEF SoftDelete, TypeInv, RowInv, Busy, Actors
  <2>2. QED
    BY <1>3, <2>1 DEF SoftDelete, Write, Lifecycle!Delete, Lifecycle!NoPost
<1>4. ASSUME NEW w \in Workers, Publish(w) PROVE Lifecycle!PublishDue
  <2>1. post = loaded[w] /\ Due(loaded[w])
    BY <1>4 DEF Publish, Knowledge
  <2>2. QED
    BY <1>4, <2>1 DEF Publish, Write, Due, Lifecycle!PublishDue
<1>5. CASE Tick
  BY <1>5 DEF Tick, Lifecycle!Next, Lifecycle!Tick
<1>6. ASSUME NEW e \in Editors, NEW d \in Edits, Load(e, d) PROVE UNCHANGED <<now, post>>
  BY <1>6 DEF Load
<1>7. ASSUME NEW e \in Editors, Revise(e) \/ LoadForDelete(e) \/ Refuse(e)
      PROVE  UNCHANGED <<now, post>>
  BY <1>7 DEF Revise, LoadForDelete, Refuse
<1>8. ASSUME NEW a \in Actors, FindDue(a) \/ Announce(a) \/ Stop(a)
      PROVE  UNCHANGED <<now, post>>
  BY <1>8 DEF FindDue, Announce, Stop
<1>9. CASE UNCHANGED vars
  BY <1>0, <1>9 DEF vars
<1>10. QED
  BY <1>0, <1>1, <1>2, <1>3, <1>4, <1>5, <1>6, <1>7, <1>8, <1>9
  DEF Next, Edit, Job, Actors, Lifecycle!Next

\* Until a stale write, the handlers and the publisher, with any number of
\* editors and workers, implement the atomic lifecycle of a post.
THEOREM Refinement == Spec => ImplementsLifecycle
<1>1. Init => Lifecycle!Init
  BY DEF Init, Lifecycle!Init, NoPost, Lifecycle!NoPost
<1>2. IInv /\ [Next]_vars => [~stale' => Lifecycle!Next]_(Lifecycle!vars)
  BY LifecycleStep
<1>3. QED
  BY <1>1, <1>2, Invariant, PTL DEF Spec, ImplementsLifecycle

----------------------------------------------------------------------------
(* Handlers that take turns *)

\* The row a handler has read is the row it will write.
Current ==
    /\ TypeInv /\ InTurn
    /\ ~stale
    /\ \A a \in Actors : Busy(a) => loaded[a] = post

LEMMA CurrentInit == Init => Current
<1>1. Init => InTurn /\ ~stale /\ \A a \in Actors : ~Busy(a)
  BY DEF Init, InTurn, Busy
<1>2. QED
  BY <1>1, TypeInit DEF Current

LEMMA CurrentStep == Current /\ [Next /\ InTurn']_vars => Current'
<1> SUFFICES ASSUME Current, [Next /\ InTurn']_vars PROVE Current'
  OBVIOUS
<1>1. TypeInv /\ TypeOK /\ RowInv /\ InTurn /\ ~stale /\ \A a \in Actors : Busy(a) => loaded[a] = post
  BY DEF Current, TypeInv
<1>2. TypeInv'
  BY <1>1, TypeStep
<1>3. ASSUME UNCHANGED vars PROVE Current'
  BY <1>1, <1>2, <1>3 DEF Current, InTurn, Busy, vars
\* The row is written when no other handler is between its read and its write.
<1>4. ASSUME NEW a \in Actors, NEW p, NEW l \in {"announce", "done"}, Write(a, p, l), InTurn', ~stale',
             \A b \in Actors \ {a} : ~Busy(b)
      PROVE  Current'
  <2>1. pc'[a] = l /\ \A b \in Actors \ {a} : pc'[b] = pc[b]
    BY <1>1, <1>4 DEF Write, Goto, TypeOK
  <2>2. \A b \in Actors : ~Busy(b)'
    BY <1>4, <2>1 DEF Busy
  <2>3. QED
    BY <1>2, <1>4, <2>2 DEF Current
\* Whoever becomes busy has just read the row.
<1>5. ASSUME NEW a \in Actors, InTurn', UNCHANGED <<post, stale>>,
             \A b \in Actors \ {a} : pc'[b] = pc[b] /\ loaded'[b] = loaded[b],
             pc'[a] \in {"idle", "announce", "done"} \/ loaded'[a] = post
      PROVE  Current'
  <2>1. \A b \in Actors : Busy(b)' => loaded'[b] = post'
    BY <1>1, <1>5 DEF Busy
  <2>2. QED
    BY <1>1, <1>2, <1>5, <2>1 DEF Current
<1>6. ASSUME NEW e \in Editors, NEW d \in Edits, Create(e, d), InTurn' PROVE Current'
  <2>1. \A b \in Actors : ~Busy(b)
    BY <1>1, <1>6 DEF Create, RowInv, NoPost
  <2>2. \E p : \E l \in {"announce", "done"} : Write(e, p, l)
    BY <1>6, Zenon DEF Create
  <2>3. ~stale' /\ e \in Actors
    BY <1>1, <1>6 DEF Create, Actors
  <2>4. QED
    BY <1>4, <1>6, <2>1, <2>2, <2>3
<1>7. ASSUME NEW e \in Editors, Save(e), InTurn' PROVE Current'
  <2>1. Busy(e) /\ e \in Actors
    BY <1>7 DEF Save, Busy, Actors
  <2>2. \A b \in Actors \ {e} : ~Busy(b)
    BY <1>1, <2>1 DEF InTurn
  <2>3. ~stale'
    BY <1>1, <1>7, <2>1 DEF Save
  <2>4. \E p : \E l \in {"announce", "done"} : Write(e, p, l)
    BY <1>7, Zenon DEF Save
  <2>5. QED
    BY <1>4, <1>7, <2>1, <2>2, <2>3, <2>4
<1>8. ASSUME NEW e \in Editors, SoftDelete(e), InTurn' PROVE Current'
  <2>1. Busy(e) /\ e \in Actors
    BY <1>8 DEF SoftDelete, Busy, Actors
  <2>2. \A b \in Actors \ {e} : ~Busy(b)
    BY <1>1, <2>1 DEF InTurn
  <2>3. ~stale' /\ Write(e, [post EXCEPT !.active = FALSE], "done")
    BY <1>1, <1>8 DEF SoftDelete
  <2>4. QED
    BY <1>4, <1>8, <2>1, <2>2, <2>3
<1>9. ASSUME NEW w \in Workers, Publish(w), InTurn' PROVE Current'
  <2>1. Busy(w) /\ w \in Actors
    BY <1>9 DEF Publish, Busy, Actors
  <2>2. \A b \in Actors \ {w} : ~Busy(b)
    BY <1>1, <2>1 DEF InTurn
  <2>3. ~stale'
    BY <1>1, <1>9, <2>1 DEF Publish
  <2>4. \E p : Write(w, p, "announce")
    BY <1>9 DEF Publish
  <2>5. QED
    BY <1>4, <1>9, <2>1, <2>2, <2>3, <2>4
<1>10. ASSUME NEW e \in Editors, InTurn',
              (\E d \in Edits : Load(e, d)) \/ Revise(e) \/ LoadForDelete(e) \/ Refuse(e)
       PROVE  Current'
  <2>1. e \in Actors /\ UNCHANGED <<post, stale>>
        /\ \A b \in Actors \ {e} : pc'[b] = pc[b] /\ loaded'[b] = loaded[b]
    BY <1>1, <1>10 DEF Load, Revise, LoadForDelete, Refuse, Goto, Actors, TypeOK
  <2>2. (\E d \in Edits : Load(e, d)) \/ LoadForDelete(e) => loaded'[e] = post
    BY <1>1, <2>1 DEF Load, LoadForDelete, TypeOK
  <2>3. Revise(e) => loaded'[e] = post
    BY <1>1, <2>1 DEF Revise, Busy
  <2>4. Refuse(e) => pc'[e] = "done"
    BY <1>1, <2>1 DEF Refuse, Goto, TypeOK
  <2>5. QED
    BY <1>5, <1>10, <2>1, <2>2, <2>3, <2>4
<1>11. ASSUME NEW a \in Actors, InTurn', (a \in Workers /\ FindDue(a)) \/ Announce(a) \/ Stop(a)
       PROVE  Current'
  <2>1. UNCHANGED <<post, stale>> /\ \A b \in Actors \ {a} : pc'[b] = pc[b] /\ loaded'[b] = loaded[b]
    BY <1>1, <1>11 DEF FindDue, Announce, Stop, Goto, TypeOK
  <2>2. pc'[a] \in {"idle", "announce", "done"} \/ loaded'[a] = post
    BY <1>1, <1>11 DEF FindDue, Announce, Stop, Goto, TypeOK
  <2>3. QED
    BY <1>5, <1>11, <2>1, <2>2
<1>12. ASSUME Tick, InTurn' PROVE Current'
  BY <1>1, <1>2, <1>12 DEF Tick, Current, Busy
<1>13. QED
  BY <1>3, <1>6, <1>7, <1>8, <1>9, <1>10, <1>11, <1>12 DEF Next, Edit, Job, Actors

LEMMA CurrentInvariant == SpecInTurn => []Current
  BY CurrentInit, CurrentStep, PTL DEF SpecInTurn

LEMMA InTurnSpec == SpecInTurn => Spec
<1>1. [Next /\ InTurn']_vars => [Next]_vars
  OBVIOUS
<1>2. QED
  BY <1>1, PTL DEF SpecInTurn, Spec

\* The promise about dates is broken only by handlers whose reads and writes
\* overlap: while they take turns, in any number and stopped anywhere, a scheduled
\* post has a date.
THEOREM ScheduledInTurn == SpecInTurn => []ScheduledHasDate
<1>1. Current /\ ScheduledHasDateUnlessStale => ScheduledHasDate
  BY DEF Current, ScheduledHasDateUnlessStale
<1>2. QED
  BY <1>1, CurrentInvariant, InTurnSpec, Scheduled, PTL

\* Then every write is one operation of the atomic lifecycle, without exception.
THEOREM RefinementInTurn == SpecInTurn => ImplementsLifecycleInTurn
<1>1. Current' /\ [~stale' => Lifecycle!Next]_(Lifecycle!vars) => [Lifecycle!Next]_(Lifecycle!vars)
  BY DEF Current
<1>2. QED
  BY <1>1, CurrentInvariant, InTurnSpec, Refinement, PTL
  DEF ImplementsLifecycle, ImplementsLifecycleInTurn, Lifecycle!Spec
=============================================================================
