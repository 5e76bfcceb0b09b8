------------------------- MODULE IdempotencyProofs -------------------------
(***************************************************************************)
(* Proofs about the idempotency middleware, for every set of requests and  *)
(* payloads: type correctness, exclusion until a record is stolen, replays *)
(* of the right result until then, the refinement of OnceOnly, and that a  *)
(* client that waits for each answer before it retries never has a record  *)
(* stolen while results are recorded before the key expires.               *)
(***************************************************************************)
EXTENDS Idempotency, FiniteSetTheorems, TLAPS

----------------------------------------------------------------------------
(* The inductive invariant, in named parts. *)

\* What is stored or about to be stored was serialised once.
LayersInv ==
    /\ record.body.layers \in 0..1
    /\ \A r \in Requests : seen[r].body.layers \in 0..1
    /\ \A r \in Requests : pc[r] \in {"finish", "store"} => reply[r].body.layers \in 0..1

TypeInv == TypeOK /\ LayersInv

\* The answer of a request whose result is being recorded is its own.
FinishInv ==
    \A r \in Requests :
        pc[r] \in {"finish", "store"} =>
            /\ reply[r].kind = "fresh"
            /\ reply[r].body.of = r
            /\ reply[r].body.code \in {"2xx", "3xx", "4xx", "5xx"}

\* Only a success or a client error is stored as COMPLETED.
StoredInv == record.status = "COMPLETED" => record.body.code \in {"2xx", "4xx"}

\* The record under the key, if any, was created by a request.
RecordInv == record = NoRecord \/ record.by \in Requests

\* A request whose business logic runs owns the record.  One that records its
\* result still owns it, in progress, unless it has expired; what it read is its
\* own record in any case.
HoldInv ==
    \A r \in Requests :
        /\ pc[r] = "handler" \/ (pc[r] \in {"finish", "store"} /\ record.by = r) =>
               record.status = "IN_PROGRESS" /\ record.by = r /\ record.hash = payload[r]
        /\ pc[r] = "store" => seen[r].by = r /\ seen[r].hash = payload[r]

\* The one request that succeeded in this window owns the record.
SuccessInv ==
    \A r \in succeeded :
        /\ record.by = r /\ record.status \in {"IN_PROGRESS", "COMPLETED"}
        /\ pc[r] \notin {"idle", "find", "delete", "create", "handler"}
        /\ pc[r] \in {"finish", "store"} => reply[r].body.code = "2xx"

\* A stored result is the answer its request was given, for its payload.
ResultInv ==
    record.status = "COMPLETED" =>
        /\ record.body.of \in Requests
        /\ pc[record.body.of] = "done"
        /\ reply[record.body.of] = [kind |-> "fresh", body |-> record.body]
        /\ payload[record.body.of] = record.hash

\* And so is every answer given from the cache.
ReplayInv ==
    \A r \in Requests :
        reply[r].kind = "replay" =>
            /\ pc[r] = "done"
            /\ reply[r].body.of \in Requests
            /\ pc[reply[r].body.of] = "done"
            /\ payload[reply[r].body.of] = payload[r]
            /\ reply[reply[r].body.of].body.code = reply[r].body.code

ReplayedCodeInv ==
    \A r \in Requests : reply[r].kind = "replay" => reply[r].body.code \in {"2xx", "4xx"}

IInv ==
    /\ TypeInv /\ FinishInv /\ StoredInv /\ ReplayedCodeInv
    /\ ~stolen => RecordInv /\ HoldInv /\ SuccessInv /\ ResultInv /\ ReplayInv

----------------------------------------------------------------------------
(* Type correctness. *)

\* The records and replies the actions build have their types.
LEMMA BuiltTypes ==
    /\ NoRecord \in Records /\ NoRecord.body.layers \in 0..1
    /\ NoReply \in Replies
    /\ \A k \in ReplyKinds : Refusal(k) \in Replies
    /\ \A r \in Requests, c \in Outcomes :
           /\ Captured(r, c) \in Bodies
           /\ Captured(r, c) = [of |-> r, code |-> c, layers |-> 1]
    /\ \A b \in Bodies : b.layers \in 0..1 =>
           /\ Json(b) \in Bodies
           /\ Json(b).of = b.of /\ Json(b).code = b.code
<1>1. NoBody \in Bodies /\ NoBody.layers \in 0..1
  BY DEF NoBody, Bodies, Codes
<1>2. NoRecord \in Records /\ NoRecord.body.layers \in 0..1
  BY <1>1 DEF NoRecord, Records, Statuses
<1>3. NoReply \in Replies /\ \A k \in ReplyKinds : Refusal(k) \in Replies
  BY <1>1 DEF NoReply, Replies, ReplyKinds, Refusal
<1>4. ASSUME NEW r \in Requests, NEW c \in Outcomes
      PROVE  /\ Captured(r, c) \in Bodies
             /\ Captured(r, c) = [of |-> r, code |-> c, layers |-> 1]
  <2>1. Captured(r, c) = [of |-> r, code |-> c, layers |-> 1]
    BY DEF Captured, Json
  <2>2. QED
    BY <2>1, IdempotencyConstants DEF Bodies, Codes
<1>5. ASSUME NEW b \in Bodies, b.layers \in 0..1
      PROVE  Json(b) \in Bodies /\ Json(b).of = b.of /\ Json(b).code = b.code
  BY <1>5 DEF Json, Bodies
<1>6. QED
  BY <1>2, <1>3, <1>4, <1>5

LEMMA TypeInit == Init => TypeInv
  BY BuiltTypes DEF Init, TypeInv, TypeOK, LayersInv, Locations

LEMMA TypeStep == TypeInv /\ [Next]_vars => TypeInv'
<1> SUFFICES ASSUME TypeInv, [Next]_vars PROVE TypeInv'
  OBVIOUS
<1> USE DEF TypeInv, TypeOK, LayersInv, Locations, Goto, Answer
<1>1. ASSUME NEW r \in Requests, NEW p \in Payloads, Arrive(r, p) PROVE TypeInv'
  BY <1>1 DEF Arrive
<1>2. ASSUME NEW r \in Requests, RejectHeader(r) PROVE TypeInv'
  BY <1>2, BuiltTypes DEF RejectHeader, ReplyKinds
<1>3. ASSUME NEW r \in Requests, FindKey(r) PROVE TypeInv'
  <2>1. reply' \in [Requests -> Replies]
    <3>1. record.body \in Bodies /\ Json(record.body) \in Bodies
      BY BuiltTypes DEF Records
    <3>2. [kind |-> "replay", body |-> Json(record.body)] \in Replies
      BY <3>1 DEF Replies, ReplyKinds
    <3>3. Refusal("reused") \in Replies /\ Refusal("conflict") \in Replies
      BY BuiltTypes DEF ReplyKinds
    <3>4. QED
      BY <1>3, <3>2, <3>3 DEF FindKey
  <2>2. pc' \in [Requests -> Locations] /\ pc'[r] \notin {"finish", "store"}
    BY <1>3 DEF FindKey
  <2>3. \A s \in Requests : s # r => pc'[s] = pc[s] /\ reply'[s] = reply[s]
    BY <1>3 DEF FindKey
  <2>4. UNCHANGED <<record, payload, seen, succeeded, stolen>>
    BY <1>3 DEF FindKey
  <2>5. QED
    BY <2>1, <2>2, <2>3, <2>4
<1>4. ASSUME NEW r \in Requests, DeleteKey(r) PROVE TypeInv'
  BY <1>4, BuiltTypes DEF DeleteKey
<1>5. ASSUME NEW r \in Requests PROVE NewRecord(r) \in Records /\ NewRecord(r).body.layers \in 0..1
  BY DEF NewRecord, NoRecord, Records, NoBody, Bodies, Codes, Statuses
<1>6. ASSUME NEW r \in Requests, CreateKey(r) PROVE TypeInv'
  BY <1>5, <1>6 DEF CreateKey
<1>7. ASSUME NEW r \in Requests, CreateRefused(r) PROVE TypeInv'
  BY <1>7, BuiltTypes DEF CreateRefused, ReplyKinds
<1>8. ASSUME NEW r \in Requests, CreateResent(r) PROVE TypeInv'
  BY <1>5, <1>8, BuiltTypes DEF CreateResent, ReplyKinds
<1>9. ASSUME NEW r \in Requests, CreateFails(r) PROVE TypeInv'
  BY <1>9, BuiltTypes DEF CreateFails, ReplyKinds
<1>10. ASSUME NEW r \in Requests, NEW c \in Outcomes, Handle(r, c) PROVE TypeInv'
  <2>1. [kind |-> "fresh", body |-> Captured(r, c)] \in Replies
    BY BuiltTypes DEF Replies, ReplyKinds
  <2>2. Captured(r, c).layers \in 0..1
    BY BuiltTypes
  <2>3. QED
    BY <1>10, <2>1, <2>2 DEF Handle
<1>11. ASSUME NEW r \in Requests, UpdateFind(r) PROVE TypeInv'
  BY <1>11 DEF UpdateFind, Records
<1>12. ASSUME NEW r \in Requests, UpdateStore(r) PROVE TypeInv'
  <2>1. FinalStatus(reply[r].body.code) \in Statuses
    BY DEF FinalStatus, Statuses
  <2>2. reply[r].body \in Bodies
    BY DEF Replies
  <2>3. record' \in Records /\ record'.body = reply[r].body
    BY <1>12, <2>1, <2>2 DEF UpdateStore, Records
  <2>4. QED
    BY <1>12, <2>3, BuiltTypes DEF UpdateStore
<1>13. ASSUME NEW r \in Requests, Abandon(r) PROVE TypeInv'
  BY <1>13, BuiltTypes DEF Abandon
<1>14. CASE Expire
  BY <1>14, BuiltTypes DEF Expire
<1>15. CASE UNCHANGED vars
  BY <1>15 DEF vars
<1>16. QED
  BY <1>1, <1>2, <1>3, <1>4, <1>6, <1>7, <1>8, <1>9, <1>10, <1>11, <1>12, <1>13, <1>14, <1>15
  DEF Next, Serve

\* The middleware's record, requests and replies always have their types.
THEOREM TypeCorrect == Spec => []TypeOK
<1>1. TypeInv => TypeOK
  BY DEF TypeInv
<1>2. QED
  BY TypeInit, TypeStep, <1>1, PTL DEF Spec

----------------------------------------------------------------------------
(* The parts of the invariant that hold whatever is stolen. *)

AnswerInv == FinishInv /\ StoredInv /\ ReplayedCodeInv

LEMMA AnswerStep == TypeInv /\ AnswerInv /\ [Next]_vars => AnswerInv'
<1> SUFFICES ASSUME TypeInv, AnswerInv, [Next]_vars PROVE AnswerInv'
  OBVIOUS
<1> USE DEF TypeInv, TypeOK, AnswerInv, FinishInv, StoredInv, ReplayedCodeInv, Goto, Answer
<1>1. ASSUME NEW r \in Requests, NEW p \in Payloads, Arrive(r, p) PROVE AnswerInv'
  BY <1>1 DEF Arrive
<1>2. ASSUME NEW r \in Requests, RejectHeader(r) PROVE AnswerInv'
  BY <1>2 DEF RejectHeader, Refusal
<1>3. ASSUME NEW r \in Requests, FindKey(r) PROVE AnswerInv'
  <2>1. record.body \in Bodies /\ record.body.layers \in 0..1
    BY DEF Records, LayersInv
  <2>2. Json(record.body).code = record.body.code
    BY <2>1, BuiltTypes
  <2>3. \A k \in {"reused", "conflict"} : Refusal(k).kind # "replay"
    BY DEF Refusal
  <2>4. pc'[r] \notin {"finish", "store"}
    BY <1>3 DEF FindKey
  <2>5. reply'[r].kind = "replay" => reply'[r].body.code \in {"2xx", "4xx"}
    BY <1>3, <2>2, <2>3 DEF FindKey
  <2>6. \A s \in Requests : s # r => pc'[s] = pc[s] /\ reply'[s] = reply[s]
    BY <1>3 DEF FindKey
  <2>7. UNCHANGED record
    BY <1>3 DEF FindKey
  <2>8. QED
    BY <2>4, <2>5, <2>6, <2>7
<1>4. ASSUME NEW r \in Requests, DeleteKey(r) PROVE AnswerInv'
  BY <1>4 DEF DeleteKey, NoRecord
<1>5. ASSUME NEW r \in Requests, CreateKey(r) PROVE AnswerInv'
  BY <1>5 DEF CreateKey, NewRecord
<1>6. ASSUME NEW r \in Requests, CreateRefused(r) PROVE AnswerInv'
  BY <1>6 DEF CreateRefused, Refusal
<1>7. ASSUME NEW r \in Requests, CreateResent(r) PROVE AnswerInv'
  BY <1>7 DEF CreateResent, NewRecord, Refusal
<1>8. ASSUME NEW r \in Requests, CreateFails(r) PROVE AnswerInv'
  BY <1>8 DEF CreateFails, Refusal
<1>9. ASSUME NEW r \in Requests, NEW c \in Outcomes, Handle(r, c) PROVE AnswerInv'
  <2>1. Captured(r, c).of = r /\ Captured(r, c).code \in {"2xx", "3xx", "4xx", "5xx"}
    BY BuiltTypes, IdempotencyConstants
  <2>2. QED
    BY <1>9, <2>1 DEF Handle
<1>10. ASSUME NEW r \in Requests, UpdateFind(r) PROVE AnswerInv'
  BY <1>10 DEF UpdateFind
<1>11. ASSUME NEW r \in Requests, UpdateStore(r) PROVE AnswerInv'
  <2>1. record'.status = FinalStatus(reply[r].body.code) /\ record'.body = reply[r].body
    BY <1>11 DEF UpdateStore, Records
  <2>2. QED
    BY <1>11, <2>1 DEF UpdateStore, FinalStatus
<1>12. ASSUME NEW r \in Requests, Abandon(r) PROVE AnswerInv'
  BY <1>12 DEF Abandon
<1>13. CASE Expire
  BY <1>13 DEF Expire, NoRecord
<1>14. CASE UNCHANGED vars
  BY <1>14 DEF vars
<1>15. QED
  BY <1>1, <1>2, <1>3, <1>4, <1>5, <1>6, <1>7, <1>8, <1>9, <1>10, <1>11, <1>12, <1>13, <1>14
  DEF Next, Serve

----------------------------------------------------------------------------
(* Who holds the key, until a record is stolen. *)

OwnerInv == RecordInv /\ HoldInv /\ SuccessInv

\* stolen is never reset.
LEMMA StolenStays == [Next]_vars /\ ~stolen' => ~stolen
  BY DEF Next, vars, Serve, Arrive, RejectHeader, FindKey, DeleteKey, CreateKey,
         CreateRefused, CreateResent, CreateFails, Handle, UpdateFind, UpdateStore,
         Abandon, Expire

\* Under a free key, or one whose run failed, no business logic runs and none has
\* succeeded.
LEMMA FreeKey ==
    TypeInv /\ OwnerInv /\ record.status \in {"ABSENT", "FAILED"}
        => succeeded = {} /\ \A r \in Requests : pc[r] # "handler"
  BY DEF TypeInv, TypeOK, OwnerInv, HoldInv, SuccessInv

LEMMA OwnerStep ==
    TypeInv /\ AnswerInv /\ OwnerInv /\ [Next]_vars /\ ~stolen' => OwnerInv'
<1> SUFFICES ASSUME TypeInv, AnswerInv, OwnerInv, [Next]_vars, ~stolen' PROVE OwnerInv'
  OBVIOUS
<1> USE DEF TypeInv, TypeOK, Locations, OwnerInv, RecordInv, HoldInv, SuccessInv, Goto, Answer
<1>1. ASSUME NEW r \in Requests, NEW p \in Payloads, Arrive(r, p) PROVE OwnerInv'
  BY <1>1 DEF Arrive
<1>2. ASSUME NEW r \in Requests, RejectHeader(r) PROVE OwnerInv'
  BY <1>2 DEF RejectHeader
<1>3. ASSUME NEW r \in Requests, FindKey(r) PROVE OwnerInv'
  BY <1>3 DEF FindKey
<1>4. ASSUME NEW r \in Requests, DeleteKey(r) PROVE OwnerInv'
  <2>1. record.status \in {"ABSENT", "FAILED"}
    BY <1>4 DEF DeleteKey, Records, Statuses
  <2>2. \A s \in Requests : record'.by # s
    BY <1>4, IdempotencyConstants DEF DeleteKey, NoRecord
  <2>3. QED
    BY <1>4, <2>1, <2>2, FreeKey DEF DeleteKey
<1>5. ASSUME NEW r \in Requests, CreateKey(r) PROVE OwnerInv'
  BY <1>5, FreeKey DEF CreateKey, NewRecord, NoRecord
<1>6. ASSUME NEW r \in Requests, CreateRefused(r) PROVE OwnerInv'
  BY <1>6 DEF CreateRefused
<1>7. ASSUME NEW r \in Requests, CreateResent(r) PROVE OwnerInv'
  BY <1>7, FreeKey DEF CreateResent, NewRecord, NoRecord
<1>8. ASSUME NEW r \in Requests, CreateFails(r) PROVE OwnerInv'
  BY <1>8 DEF CreateFails
<1>9. ASSUME NEW r \in Requests, NEW c \in Outcomes, Handle(r, c) PROVE OwnerInv'
  <2>1. Captured(r, c).code = c
    BY BuiltTypes
  <2>2. reply'[r].body.code = c /\ pc'[r] = "finish"
    BY <1>9, <2>1 DEF Handle
  <2>3. r \notin succeeded
    BY <1>9 DEF Handle
  <2>4. QED
    BY <1>9, <2>2, <2>3 DEF Handle
<1>10. ASSUME NEW r \in Requests, UpdateFind(r) PROVE OwnerInv'
  <2>1. record = NoRecord \/ record.by = r
    BY <1>10 DEF UpdateFind, MayWrite
  <2>2. QED
    BY <1>10, <2>1 DEF UpdateFind
<1>11. ASSUME NEW r \in Requests, UpdateStore(r) PROVE OwnerInv'
  <2>1. (record = NoRecord \/ record.by = r) /\ seen[r].by = r
    BY <1>11 DEF UpdateStore, MayWrite
  <2>2. record'.by = r /\ record'.status = FinalStatus(reply[r].body.code)
    BY <1>11, <2>1 DEF UpdateStore, Records
  <2>3. \A s \in Requests : s # r => pc[s] # "handler" /\ s \notin succeeded
    BY <2>1 DEF NoRecord
  <2>4. r \in succeeded => record'.status = "COMPLETED"
    BY <1>11, <2>2 DEF UpdateStore, FinalStatus
  <2>5. pc'[r] = "done" /\ \A s \in Requests : s # r => pc'[s] = pc[s]
    BY <1>11 DEF UpdateStore
  <2>6. UNCHANGED <<payload, reply, succeeded>> /\ \A s \in Requests : s # r => seen'[s] = seen[s]
    BY <1>11 DEF UpdateStore
  <2>7. QED
    BY <2>2, <2>3, <2>4, <2>5, <2>6
<1>12. ASSUME NEW r \in Requests, Abandon(r) PROVE OwnerInv'
  BY <1>12 DEF Abandon
<1>13. CASE Expire
  BY <1>13, IdempotencyConstants DEF Expire, NoRecord
<1>14. CASE UNCHANGED vars
  BY <1>14 DEF vars
<1>15. QED
  BY <1>1, <1>2, <1>3, <1>4, <1>5, <1>6, <1>7, <1>8, <1>9, <1>10, <1>11, <1>12, <1>13, <1>14
  DEF Next, Serve

----------------------------------------------------------------------------
(* What the cache answers, until a record is stolen. *)

CacheInv == ResultInv /\ ReplayInv

LEMMA CacheStep ==
    TypeInv /\ AnswerInv /\ OwnerInv /\ CacheInv /\ [Next]_vars /\ ~stolen' => CacheInv'
<1> SUFFICES ASSUME TypeInv, AnswerInv, OwnerInv, CacheInv, [Next]_vars, ~stolen'
             PROVE  CacheInv'
  OBVIOUS
<1> USE DEF TypeInv, TypeOK, CacheInv, ResultInv, ReplayInv, Goto, Answer
<1>1. ASSUME NEW r \in Requests, NEW p \in Payloads, Arrive(r, p) PROVE CacheInv'
  BY <1>1 DEF Arrive
<1>2. ASSUME NEW r \in Requests, RejectHeader(r) PROVE CacheInv'
  BY <1>2 DEF RejectHeader, Refusal
<1>3. ASSUME NEW r \in Requests, FindKey(r) PROVE CacheInv'
  <2> DEFINE s == record.body.of
  <2>1. record.body \in Bodies /\ record.body.layers \in 0..1
    BY DEF Records, LayersInv
  <2>2. Json(record.body).code = record.body.code /\ Json(record.body).of = s
    BY <2>1, BuiltTypes
  <2>3. \A k \in {"reused", "conflict"} : Refusal(k).kind # "replay"
    BY DEF Refusal
  <2>4. UNCHANGED <<record, payload, stolen>>
    BY <1>3 DEF FindKey
  <2>5. \A q \in Requests : q # r => pc'[q] = pc[q] /\ reply'[q] = reply[q]
    BY <1>3 DEF FindKey
  <2>6. pc[r] = "find"
    BY <1>3 DEF FindKey
  <2>7. ResultInv'
    BY <2>4, <2>5, <2>6
  <2>8. ASSUME reply'[r].kind = "replay"
        PROVE  /\ record.status = "COMPLETED" /\ record.hash = payload[r]
               /\ pc'[r] = "done" /\ reply'[r].body = Json(record.body)
    <3>1. reply[r].kind # "replay"
      BY <2>6
    <3>2. QED
      BY <1>3, <2>3, <2>8, <3>1 DEF FindKey
  <2>9. ReplayInv'
    <3>1. ASSUME NEW q \in Requests, q # r, reply'[q].kind = "replay"
          PROVE  /\ pc'[q] = "done"
                 /\ reply'[q].body.of \in Requests
                 /\ pc'[reply'[q].body.of] = "done"
                 /\ payload'[reply'[q].body.of] = payload'[q]
                 /\ reply'[reply'[q].body.of].body.code = reply'[q].body.code
      BY <2>4, <2>5, <2>6, <3>1
    <3>2. ASSUME reply'[r].kind = "replay"
          PROVE  /\ pc'[r] = "done"
                 /\ reply'[r].body.of \in Requests
                 /\ pc'[reply'[r].body.of] = "done"
                 /\ payload'[reply'[r].body.of] = payload'[r]
                 /\ reply'[reply'[r].body.of].body.code = reply'[r].body.code
      <4>1. s \in Requests /\ pc[s] = "done" /\ reply[s].body.code = record.body.code
        BY <2>8, <3>2
      <4>2. s # r
        BY <2>6, <4>1
      <4>3. QED
        BY <2>2, <2>4, <2>5, <2>8, <3>2, <4>1, <4>2
    <3>3. QED
      BY <3>1, <3>2
  <2>10. QED
    BY <2>7, <2>9
<1>4. ASSUME NEW r \in Requests, DeleteKey(r) PROVE CacheInv'
  BY <1>4 DEF DeleteKey, NoRecord
<1>5. ASSUME NEW r \in Requests, CreateKey(r) PROVE CacheInv'
  BY <1>5 DEF CreateKey, NewRecord
<1>6. ASSUME NEW r \in Requests, CreateRefused(r) PROVE CacheInv'
  BY <1>6 DEF CreateRefused, Refusal
<1>7. ASSUME NEW r \in Requests, CreateResent(r) PROVE CacheInv'
  BY <1>7 DEF CreateResent, NewRecord, Refusal
<1>8. ASSUME NEW r \in Requests, CreateFails(r) PROVE CacheInv'
  BY <1>8 DEF CreateFails, Refusal
<1>9. ASSUME NEW r \in Requests, NEW c \in Outcomes, Handle(r, c) PROVE CacheInv'
  BY <1>9 DEF Handle
<1>10. ASSUME NEW r \in Requests, UpdateFind(r) PROVE CacheInv'
  BY <1>10 DEF UpdateFind
<1>11. ASSUME NEW r \in Requests, UpdateStore(r) PROVE CacheInv'
  <2>1. seen[r].hash = payload[r]
    BY <1>11 DEF UpdateStore, OwnerInv, HoldInv
  <2>2. record'.body = reply[r].body /\ record'.hash = payload[r]
    BY <1>11, <2>1 DEF UpdateStore, Records
  <2>3. reply[r] \in Replies /\ reply[r].kind = "fresh" /\ reply[r].body.of = r
    BY <1>11 DEF UpdateStore, AnswerInv, FinishInv
  <2>4. reply[r] = [kind |-> "fresh", body |-> reply[r].body]
    BY <2>3 DEF Replies
  <2>5. QED
    BY <1>11, <2>2, <2>3, <2>4 DEF UpdateStore
<1>12. ASSUME NEW r \in Requests, Abandon(r) PROVE CacheInv'
  BY <1>12 DEF Abandon
<1>13. CASE Expire
  BY <1>13 DEF Expire, NoRecord
<1>14. CASE UNCHANGED vars
  BY <1>14 DEF vars
<1>15. QED
  BY <1>1, <1>2, <1>3, <1>4, <1>5, <1>6, <1>7, <1>8, <1>9, <1>10, <1>11, <1>12, <1>13, <1>14
  DEF Next, Serve

----------------------------------------------------------------------------
(* The invariant, and the safety properties it implies. *)

LEMMA IInvInit == Init => IInv
  BY TypeInit DEF Init, IInv, FinishInv, StoredInv, ReplayedCodeInv, RecordInv, HoldInv, SuccessInv,
     ResultInv, ReplayInv, NoRecord, NoReply

LEMMA IInvStep == IInv /\ [Next]_vars => IInv'
<1> SUFFICES ASSUME IInv, [Next]_vars PROVE IInv'
  OBVIOUS
<1>1. TypeInv' /\ AnswerInv'
  BY TypeStep, AnswerStep DEF IInv, AnswerInv
<1>2. ASSUME ~stolen' PROVE OwnerInv' /\ CacheInv'
  <2>1. TypeInv /\ AnswerInv /\ OwnerInv /\ CacheInv
    BY <1>2, StolenStays DEF IInv, AnswerInv, OwnerInv, CacheInv
  <2>2. QED
    BY <1>2, <2>1, OwnerStep, CacheStep
<1>3. QED
  BY <1>1, <1>2 DEF IInv, AnswerInv, OwnerInv, CacheInv

\* The inductive invariant holds in every reachable state.
THEOREM Invariant == Spec => []IInv
  BY IInvInit, IInvStep, PTL DEF Spec

\* Until a record is stolen, business logic runs for one request at a time, and
\* one request at most succeeds within a TTL.
THEOREM Exclusive == Spec => []ExclusiveUnlessStolen
<1>1. IInv => ExclusiveUnlessStolen
  BY DEF IInv, ExclusiveUnlessStolen, OneAtATime, AtMostOneSuccess, HoldInv, SuccessInv,
         TypeInv, TypeOK
<1>2. QED
  BY <1>1, Invariant, PTL

\* A replay is never a server error or a redirect, and until a record is stolen it
\* is the answer a request with the same payload was given.
THEOREM ReplayCorrect == Spec => []ReplayUnlessStolen
<1>1. IInv => ReplayUnlessStolen
  BY DEF IInv, ReplayUnlessStolen, ReplayInv, ReplayedCodeInv
<1>2. QED
  BY <1>1, Invariant, PTL

----------------------------------------------------------------------------
(* Refinement of OnceOnly. *)

Running == {r \in Requests : pc[r] = "handler"}
Told == [r \in Requests |-> ToldOf(reply[r])]

LEMMA OnceInit == Init => Once!Init
  BY DEF Init, Once!Init, Once!Free, Once!Untold, SlotOf, ToldOf, NoRecord, NoReply

LEMMA OnceStep == IInv /\ [Next]_vars /\ ~stolen' => Once!Next \/ UNCHANGED Once!vars
<1> SUFFICES ASSUME IInv, [Next]_vars, ~stolen' PROVE Once!Next \/ UNCHANGED Once!vars
  OBVIOUS
<1>0. TypeInv /\ AnswerInv /\ OwnerInv /\ CacheInv
  BY StolenStays DEF IInv, AnswerInv, OwnerInv, CacheInv
<1> USE <1>0 DEF TypeInv, TypeOK, Goto, Answer
<1>. DEFINE Same == SlotOf(record)' = SlotOf(record) /\ Running' = Running /\ Told' = Told
<1>1. Same => UNCHANGED Once!vars
  BY DEF Once!vars, Running, Told
\* One request is refused and nothing else changes.
<1>2. ASSUME NEW r \in Requests, NEW k \in {"reused", "conflict", "invalid", "error"},
             reply' = [reply EXCEPT ![r] = Refusal(k)],
             SlotOf(record)' = SlotOf(record), Running' = Running
      PROVE  Once!Next
  <2>1. Told' = [Told EXCEPT ![r] = Once!Refused]
    BY <1>2 DEF Told, ToldOf, Refusal, Once!Refused
  <2>2. Once!Refuse(r)
    BY <1>2, <2>1 DEF Once!Refuse, Running, Told
  <2>3. QED
    BY <2>2 DEF Once!Next
<1>3. ASSUME NEW r \in Requests, NEW p \in Payloads, Arrive(r, p) PROVE Same
  BY <1>3 DEF Arrive, Running, Told
<1>4. ASSUME NEW r \in Requests, RejectHeader(r) PROVE Once!Next
  <2>1. Running' = Running
    BY <1>4 DEF RejectHeader, Running
  <2>2. QED
    BY <1>2, <1>4, <2>1 DEF RejectHeader
<1>5. ASSUME NEW r \in Requests, FindKey(r) PROVE Once!Next \/ Same
  <2>1. Running' = Running /\ UNCHANGED record
    BY <1>5 DEF FindKey, Running
  <2>2. CASE UNCHANGED reply
    BY <2>1, <2>2 DEF Told
  <2>3. CASE \E k \in {"reused", "conflict"} : reply' = [reply EXCEPT ![r] = Refusal(k)]
    BY <1>2, <2>1, <2>3
  <2>4. CASE /\ record.status = "COMPLETED"
             /\ reply' = [reply EXCEPT ![r] = [kind |-> "replay", body |-> Json(record.body)]]
    <3>1. record.body \in Bodies /\ record.body.layers \in 0..1
      BY DEF Records, LayersInv
    <3>2. Json(record.body).code = record.body.code /\ Json(record.body).of = record.body.of
      BY <3>1, BuiltTypes
    <3>3. record.body.of \in Requests
          /\ reply[record.body.of] = [kind |-> "fresh", body |-> record.body]
      BY <2>4 DEF CacheInv, ResultInv
    <3>4. SlotOf(record) = [state |-> "done", by |-> record.body.of]
      BY <2>4 DEF SlotOf
    <3>5. Told[SlotOf(record).by]
          = [kind |-> "own", of |-> record.body.of, code |-> record.body.code]
      BY <3>3, <3>4 DEF Told, ToldOf
    <3>6. Told' = [Told EXCEPT ![r] =
                      [kind |-> "replay", of |-> record.body.of, code |-> record.body.code]]
      BY <2>4, <3>2 DEF Told, ToldOf
    <3>7. [Told[SlotOf(record).by] EXCEPT !.kind = "replay"]
          = [kind |-> "replay", of |-> record.body.of, code |-> record.body.code]
      BY <3>5
    <3>8. Told' = [Told EXCEPT ![r] = [Told[SlotOf(record).by] EXCEPT !.kind = "replay"]]
      BY <3>6, <3>7, Zenon
    <3>9. SlotOf(record)' = SlotOf(record) /\ SlotOf(record).state = "done"
      BY <2>1, <3>4
    <3>10. Once!Replay(r)
      BY <2>1, <3>8, <3>9 DEF Once!Replay, Running, Told
    <3>11. QED
      BY <3>10 DEF Once!Next
  <2>5. QED
    BY <1>5, <2>2, <2>3, <2>4 DEF FindKey
<1>6. ASSUME NEW r \in Requests, DeleteKey(r) PROVE Same
  <2>1. record.status \in {"ABSENT", "FAILED"}
    BY <1>6 DEF DeleteKey, Records, Statuses
  <2>2. QED
    BY <1>6, <2>1 DEF DeleteKey, SlotOf, NoRecord, Running, Told
<1>7. ASSUME NEW r \in Requests, record = NoRecord, record' = NewRecord(r)
      PROVE  /\ SlotOf(record) = Once!Free /\ SlotOf(record)' = Once!Held(r)
             /\ Running = {}
  BY <1>7, FreeKey DEF SlotOf, NewRecord, NoRecord, Once!Free, Once!Held, Running
<1>8. ASSUME NEW r \in Requests, CreateKey(r) PROVE Once!Next
  <2>1. Running' = {r} /\ Told' = Told
    BY <1>7, <1>8 DEF CreateKey, Running, Told
  <2>2. Once!Begin(r)
    BY <1>7, <1>8, <2>1 DEF CreateKey, Once!Begin, Running, Told
  <2>3. QED
    BY <2>2 DEF Once!Next
<1>9. ASSUME NEW r \in Requests, CreateRefused(r) PROVE Once!Next
  <2>1. Running' = Running /\ UNCHANGED record
    BY <1>9 DEF CreateRefused, Running
  <2>2. QED
    BY <1>2, <1>9, <2>1 DEF CreateRefused
<1>10. ASSUME NEW r \in Requests, CreateResent(r) PROVE Once!Next
  <2>1. Told' = [Told EXCEPT ![r] = Once!Refused]
    BY <1>10 DEF CreateResent, Told, ToldOf, Refusal, Once!Refused
  <2>2. Running' = Running
    BY <1>10 DEF CreateResent, Running
  <2>3. Once!Orphan(r)
    BY <1>7, <1>10, <2>1, <2>2 DEF CreateResent, Once!Orphan, Running, Told
  <2>4. QED
    BY <2>3 DEF Once!Next
<1>11. ASSUME NEW r \in Requests, CreateFails(r) PROVE Once!Next
  <2>1. Running' = Running /\ UNCHANGED record
    BY <1>11 DEF CreateFails, Running
  <2>2. QED
    BY <1>2, <1>11, <2>1 DEF CreateFails
\* The request whose logic runs is the one the slot is held by.
<1>12. ASSUME NEW r \in Requests, pc[r] = "handler"
       PROVE  SlotOf(record) = Once!Held(r) /\ Running = {r}
  BY <1>12 DEF OwnerInv, HoldInv, SlotOf, Once!Held, Running
<1>13. ASSUME NEW r \in Requests, NEW c \in Outcomes, Handle(r, c) PROVE Once!Next
  <2>1. Captured(r, c).of = r /\ Captured(r, c).code = c
    BY BuiltTypes
  <2>2. Told' = [Told EXCEPT ![r] = Once!Own(r, c)]
    BY <1>13, <2>1 DEF Handle, Told, ToldOf, Once!Own
  <2>3. Running' = {} /\ UNCHANGED record
    BY <1>12, <1>13 DEF Handle, Running
  <2>4. Once!End(r, c)
    BY <1>12, <1>13, <2>2, <2>3 DEF Handle, Once!End, Running, Told
  <2>5. QED
    BY <2>4, IdempotencyConstants DEF Once!Next
<1>14. ASSUME NEW r \in Requests, UpdateFind(r) PROVE Same
  BY <1>14 DEF UpdateFind, Running, Told
<1>15. ASSUME NEW r \in Requests, UpdateStore(r) PROVE Once!Next
  <2>1. /\ record = NoRecord \/ (record.status = "IN_PROGRESS" /\ record.by = r)
        /\ \A s \in Requests : pc[s] # "handler"
    <3>1. pc[r] = "store" /\ (record = NoRecord \/ record.by = r)
      BY <1>15 DEF UpdateStore, MayWrite
    <3>2. CASE record = NoRecord
      BY <3>2 DEF OwnerInv, HoldInv, NoRecord
    <3>3. CASE record.by = r
      BY <3>1, <3>3 DEF OwnerInv, HoldInv
    <3>4. QED
      BY <3>1, <3>2, <3>3
  <2>2. record'.status = FinalStatus(reply[r].body.code) /\ record'.body = reply[r].body
    BY <1>15, <2>1 DEF UpdateStore, Records
  <2>3. /\ reply[r].kind = "fresh" /\ reply[r].body.of = r
        /\ reply[r].body.code \in {"2xx", "3xx", "4xx", "5xx"}
    BY <1>15 DEF UpdateStore, AnswerInv, FinishInv
  <2>4. Told[r].kind = "own" /\ Told[r].code = reply[r].body.code
    BY <2>3 DEF Told, ToldOf
  <2>5. SlotOf(record) \in {Once!Held(r), Once!Free} /\ Running = {}
    BY <1>15, <2>1 DEF UpdateStore, NoRecord, SlotOf, Once!Held, Once!Free, Running
  <2>6. Running' = Running /\ Told' = Told
    BY <1>15 DEF UpdateStore, Running, Told
  <2>7. SlotOf(record)' = IF Told[r].code \in {"2xx", "4xx"} THEN Once!Done(r) ELSE Once!Free
    BY <2>2, <2>3, <2>4 DEF SlotOf, FinalStatus, Once!Free, Once!Done
  <2>8. Once!Publish(r)
    BY <2>4, <2>5, <2>6, <2>7 DEF Once!Publish, Running, Told
  <2>9. QED
    BY <2>8 DEF Once!Next
<1>16. ASSUME NEW r \in Requests, Abandon(r) PROVE Once!Next \/ Same
  <2>1. UNCHANGED <<record, reply>>
    BY <1>16 DEF Abandon
  <2>2. CASE pc[r] = "handler"
    <3>1. Running' = {} /\ Told' = Told
      BY <1>12, <1>16, <2>1, <2>2 DEF Abandon, Running, Told
    <3>2. Once!Drop(r)
      BY <1>12, <2>1, <2>2, <3>1 DEF Once!Drop, Running, Told
    <3>3. QED
      BY <3>2 DEF Once!Next
  <2>3. CASE pc[r] # "handler"
    BY <1>16, <2>1, <2>3 DEF Abandon, Running, Told
  <2>4. QED
    BY <2>2, <2>3
<1>17. ASSUME Expire PROVE Once!Next
  <2>1. Running = {} /\ Running' = {} /\ Told' = Told
    BY <1>17 DEF Expire, Running, Told
  <2>2. SlotOf(record)' = Once!Free
    BY <1>17 DEF Expire, NoRecord, SlotOf, Once!Free
  <2>3. Once!Release
    BY <2>1, <2>2 DEF Once!Release, Running, Told
  <2>4. QED
    BY <2>3 DEF Once!Next
<1>18. CASE UNCHANGED vars
  BY <1>1, <1>18 DEF vars, Running, Told
<1>19. QED
  BY <1>1, <1>3, <1>4, <1>5, <1>6, <1>8, <1>9, <1>10, <1>11, <1>13, <1>14, <1>15, <1>16,
     <1>17, <1>18 DEF Next, Serve

\* Until a record is stolen, every step of the middleware is a step of the slot
\* that OnceOnly promises, or leaves it alone.
THEOREM Refinement == Spec => ImplementsOnceOnly
<1>1. IInv /\ [Next]_vars => [~stolen' => Once!Next]_(Once!vars)
  BY OnceStep
<1>2. QED
  BY OnceInit, Invariant, <1>1, PTL DEF Spec, ImplementsOnceOnly

----------------------------------------------------------------------------
(* A client that waits for an answer before it retries.  *)

\* No key expires between a request's answer and the record of its result.
ResultsInTime == [][Expire => Holding = {}]_vars

\* At most one request is waiting, one that is about to delete the record has
\* not lost the race for it, and one that records its result owns the record.
SequentialInv ==
    /\ \A r, s \in Waiting : r = s
    /\ \A r \in Holding : record.by = r
    /\ \A r \in Requests : pc[r] = "delete" => record.status \in {"ABSENT", "FAILED"}
    /\ ~stolen

LEMMA SequentialStep ==
    ASSUME MaxInFlight = 1
    PROVE  IInv /\ SequentialInv /\ [Next]_vars /\ [Expire => Holding = {}]_vars => SequentialInv'
<1> SUFFICES ASSUME IInv, SequentialInv, [Next]_vars, [Expire => Holding = {}]_vars
             PROVE  SequentialInv'
  OBVIOUS
<1>0. TypeInv /\ OwnerInv
  BY DEF IInv, OwnerInv, SequentialInv
<1> USE <1>0 DEF TypeInv, TypeOK, SequentialInv, Waiting, Holding, Goto, Answer
<1>a. \A r \in Holding : record.by = r /\ record.status = "IN_PROGRESS"
  BY DEF OwnerInv, HoldInv
<1>1. ASSUME NEW r \in Requests, NEW p \in Payloads, Arrive(r, p) PROVE SequentialInv'
  <2>1. ASSUME NEW s \in Waiting PROVE FALSE
    <3>1. Waiting = {s}
      BY <2>1
    <3>2. Cardinality(Waiting) = 1
      BY <3>1, FS_Singleton
    <3>3. QED
      BY <1>1, <3>2 DEF Arrive
  <2>2. QED
    BY <1>1, <2>1 DEF Arrive
<1>2. ASSUME NEW r \in Requests, RejectHeader(r) PROVE SequentialInv'
  BY <1>2 DEF RejectHeader
<1>3. ASSUME NEW r \in Requests, FindKey(r) PROVE SequentialInv'
  BY <1>3 DEF FindKey
<1>4. ASSUME NEW r \in Requests, DeleteKey(r) PROVE SequentialInv'
  BY <1>4, <1>a DEF DeleteKey, NoRecord
<1>5. ASSUME NEW r \in Requests, CreateKey(r) PROVE SequentialInv'
  BY <1>5, <1>a DEF CreateKey, NewRecord, NoRecord
<1>6. ASSUME NEW r \in Requests, CreateRefused(r) PROVE SequentialInv'
  BY <1>6 DEF CreateRefused
<1>7. ASSUME NEW r \in Requests, CreateResent(r) PROVE SequentialInv'
  BY <1>7, <1>a DEF CreateResent, NewRecord, NoRecord
<1>8. ASSUME NEW r \in Requests, CreateFails(r) PROVE SequentialInv'
  BY <1>8 DEF CreateFails
<1>9. ASSUME NEW r \in Requests, NEW c \in Outcomes, Handle(r, c) PROVE SequentialInv'
  BY <1>9 DEF Handle
<1>10. ASSUME NEW r \in Requests, UpdateFind(r) PROVE SequentialInv'
  <2>1. record.by = r
    BY <1>10 DEF UpdateFind
  <2>2. QED
    BY <1>10, <2>1 DEF UpdateFind, MayWrite
<1>11. ASSUME NEW r \in Requests, UpdateStore(r) PROVE SequentialInv'
  <2>1. r \in Holding /\ pc'[r] = "done" /\ \A s \in Requests : s # r => pc'[s] = pc[s]
    BY <1>11 DEF UpdateStore
  <2>2. record.by = r /\ record.status = "IN_PROGRESS" /\ \A s \in Holding : s = r
    BY <2>1, <1>a
  <2>3. ~stolen'
    BY <1>11, <2>2 DEF UpdateStore, MayWrite
  <2>4. \A s \in Requests : pc[s] # "delete"
    BY <2>2
  <2>5. QED
    BY <2>1, <2>2, <2>3, <2>4
<1>12. ASSUME NEW r \in Requests, Abandon(r) PROVE SequentialInv'
  <2>1. pc'[r] = "done" /\ \A s \in Requests : s # r => pc'[s] = pc[s]
    BY <1>12 DEF Abandon
  <2>2. UNCHANGED <<record, stolen>>
    BY <1>12 DEF Abandon
  <2>3. QED
    BY <2>1, <2>2
<1>13. CASE Expire
  BY <1>13 DEF Expire, NoRecord, vars
<1>14. CASE UNCHANGED vars
  BY <1>14 DEF vars
<1>15. QED
  BY <1>1, <1>2, <1>3, <1>4, <1>5, <1>6, <1>7, <1>8, <1>9, <1>10, <1>11, <1>12, <1>13, <1>14
  DEF Next, Serve

\* With a client that leaves one request at a time unanswered, and as long as no
\* key expires while a result is being recorded, the middleware prevents
\* duplicates outright: it implements OnceOnly, business logic never overlaps and
\* succeeds at most once within a TTL.
THEOREM SequentialClient ==
    ASSUME MaxInFlight = 1
    PROVE  Spec /\ ResultsInTime => Once!Spec /\ [](OneAtATime /\ AtMostOneSuccess)
<1>1. Init => SequentialInv
  BY DEF Init, SequentialInv, Waiting, Holding
<1>2. Spec /\ ResultsInTime => [](IInv /\ SequentialInv)
  BY <1>1, IInvInit, IInvStep, SequentialStep, PTL DEF Spec, ResultsInTime
<1>3. IInv /\ SequentialInv => OneAtATime /\ AtMostOneSuccess
  BY DEF IInv, SequentialInv, OneAtATime, AtMostOneSuccess, HoldInv, SuccessInv, TypeInv, TypeOK
<1>4. (IInv /\ SequentialInv) /\ (IInv /\ SequentialInv)' /\ [Next]_vars => [Once!Next]_(Once!vars)
  BY OnceStep DEF SequentialInv
<1>5. QED
  BY <1>2, <1>3, <1>4, OnceInit, PTL DEF Spec, Once!Spec
=============================================================================
