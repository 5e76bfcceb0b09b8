---------------------------- MODULE Idempotency ----------------------------
(***************************************************************************)
(* The idempotency middleware and its Redis repository, for one            *)
(* (scope, key) pair: requests that carry the same Idempotency-Key, served *)
(* by any number of application instances, and the one record they share.  *)
(* Different pairs share nothing, so one pair is the whole system.         *)
(*                                                                         *)
(* Every Redis command is one atomic step; a request is preempted at every *)
(* await of the middleware, between commands.                              *)
(***************************************************************************)
EXTENDS Naturals, FiniteSets

CONSTANTS
    Requests,     \* the HTTP requests that carry the key
    NoRequest,    \* no request: the creator of an absent record
    Payloads,     \* request bodies, one per value of requestHash
    NoPayload,    \* the payload of a request that has not arrived
    Outcomes,     \* the status classes business logic answers with
    MaxInFlight   \* how many of the requests the client leaves unanswered at once

ASSUME IdempotencyConstants ==
    /\ NoRequest \notin Requests
    /\ NoPayload \notin Payloads
    /\ Outcomes \subseteq {"2xx", "3xx", "4xx", "5xx"}
    /\ MaxInFlight \in Nat

VARIABLES
    record,       \* the JSON value stored under the key, or NoRecord
    pc,           \* pc[r]: the await at which request r stands
    payload,      \* payload[r]: the hash of r's body
    seen,         \* seen[r]: the record updateKey read before it writes
    reply,        \* reply[r]: what was written to r's socket
    succeeded,    \* history: requests whose effects were committed since the
                  \* key was last released by its TTL
    stolen        \* history: a request removed or wrote over a record that was
                  \* not the one it meant to

vars == <<record, pc, payload, seen, reply, succeeded, stolen>>

----------------------------------------------------------------------------
(* Response bodies.  "of" is the request whose handler produced the body   *)
(* and "layers" how many times it went through JSON.stringify.             *)

Codes  == {"none", "2xx", "3xx", "4xx", "5xx"}
NoBody == [of |-> NoRequest, code |-> "none", layers |-> 0]
Bodies == [of : Requests \cup {NoRequest}, code : Codes, layers : 0..2]

\* res.json: the object is serialised, then handed to res.send.
Json(body) == [body EXCEPT !.layers = @ + 1]

\* The body the wrappers leave in responseBody: res.json stores the object,
\* and the res.send it ends with stores the serialised text over it.
Captured(r, code) == Json([of |-> r, code |-> code, layers |-> 0])

Statuses == {"ABSENT", "IN_PROGRESS", "COMPLETED", "FAILED"}
NoRecord == [status |-> "ABSENT", hash |-> NoPayload, by |-> NoRequest, body |-> NoBody]

\* "by" stands for createdAt: it tells one createKey's record from another's.
Records == [status : Statuses,
            hash   : Payloads \cup {NoPayload},
            by     : Requests \cup {NoRequest},
            body   : Bodies]

\* The middleware's own answers: "reused" and "conflict" are its two 409s,
\* "invalid" its 400s and "error" the global handler's 500.
ReplyKinds == {"none", "fresh", "replay", "reused", "conflict", "invalid", "error"}
Replies    == [kind : ReplyKinds, body : Bodies]
NoReply    == [kind |-> "none", body |-> NoBody]
Refusal(k) == [kind |-> k, body |-> NoBody]

Locations == {"idle", "find", "delete", "create", "handler", "finish", "store", "done"}

\* The requests whose answer the client is still waiting for.
Waiting == {r \in Requests : pc[r] \in {"find", "delete", "create", "handler"}}

\* The requests that hold the key: business logic runs, or its result is
\* being recorded.
Holding == {r \in Requests : pc[r] \in {"handler", "finish", "store"}}

Init ==
    /\ record = NoRecord
    /\ pc = [r \in Requests |-> "idle"]
    /\ payload = [r \in Requests |-> NoPayload]
    /\ seen = [r \in Requests |-> NoRecord]
    /\ reply = [r \in Requests |-> NoReply]
    /\ succeeded = {}
    /\ stolen = FALSE

Goto(r, l) == pc' = [pc EXCEPT ![r] = l]
Answer(r, a) == reply' = [reply EXCEPT ![r] = a]

----------------------------------------------------------------------------
(* The middleware up to next(). *)

\* A request with a well-formed key and body p reaches the first await.
Arrive(r, p) ==
    /\ pc[r] = "idle"
    /\ Cardinality(Waiting) < MaxInFlight
    /\ payload' = [payload EXCEPT ![r] = p]
    /\ Goto(r, "find")
    /\ UNCHANGED <<record, seen, reply, succeeded, stolen>>

\* The header is missing, or not 16 to 128 characters long.
RejectHeader(r) ==
    /\ pc[r] = "idle"
    /\ Goto(r, "done")
    /\ Answer(r, Refusal("invalid"))
    /\ UNCHANGED <<record, payload, seen, succeeded, stolen>>

\* Deviation: a COMPLETED record is replayed without comparing requestHash.
FindKeyIgnoringHash(r) ==
    /\ pc[r] = "find"
    /\ IF record.status = "COMPLETED"
       THEN Answer(r, [kind |-> "replay", body |-> Json(record.body)]) /\ Goto(r, "done")
       ELSE Goto(r, IF record.status = "FAILED" THEN "delete" ELSE "create") /\ UNCHANGED reply
    /\ UNCHANGED <<record, payload, seen, succeeded, stolen>>

\* The three ways findKey's result ends the request, and the two ways on.
FindKey(r) ==
    /\ pc[r] = "find"
    /\ \/ /\ record.status = "COMPLETED"
          /\ Answer(r, IF record.hash = payload[r]
                       THEN [kind |-> "replay", body |-> Json(record.body)]
                       ELSE Refusal("reused"))
          /\ Goto(r, "done")
       \/ /\ record.status = "IN_PROGRESS"
          /\ Answer(r, Refusal("conflict"))
          /\ Goto(r, "done")
       \/ /\ record.status = "FAILED"
          /\ Goto(r, "delete")
          /\ UNCHANGED reply
       \/ /\ record = NoRecord
          /\ Goto(r, "create")
          /\ UNCHANGED reply
    /\ UNCHANGED <<record, payload, seen, succeeded, stolen>>

\* DEL of the key, whatever it holds by now.
DeleteKey(r) ==
    /\ pc[r] = "delete"
    /\ record' = NoRecord
    /\ stolen' = (stolen \/ record.status \in {"IN_PROGRESS", "COMPLETED"})
    /\ Goto(r, "create")
    /\ UNCHANGED <<payload, seen, reply, succeeded>>

NewRecord(r) ==
    [status |-> "IN_PROGRESS", hash |-> payload[r], by |-> r, body |-> NoBody]

\* Deviation: SET without NX.
CreateKeyWithoutNX(r) ==
    /\ pc[r] = "create"
    /\ record' = NewRecord(r)
    /\ Goto(r, "handler")
    /\ UNCHANGED <<payload, seen, reply, succeeded, stolen>>

\* SET NX: the key was free and the request goes on to the handler.
CreateKey(r) ==
    /\ pc[r] = "create"
    /\ record = NoRecord
    /\ record' = NewRecord(r)
    /\ Goto(r, "handler")
    /\ UNCHANGED <<payload, seen, reply, succeeded, stolen>>

\* SET NX found the key taken: P2002, answered as an in-flight request.
CreateRefused(r) ==
    /\ pc[r] = "create"
    /\ record # NoRecord
    /\ Answer(r, Refusal("conflict"))
    /\ Goto(r, "done")
    /\ UNCHANGED <<record, payload, seen, succeeded, stolen>>

\* The connection drops after Redis applied the SET and before its answer
\* arrives; the client library sends the command again and NX refuses it.
CreateResent(r) ==
    /\ pc[r] = "create"
    /\ record = NoRecord
    /\ record' = NewRecord(r)
    /\ Answer(r, Refusal("conflict"))
    /\ Goto(r, "done")
    /\ UNCHANGED <<payload, seen, succeeded, stolen>>

\* Redis refuses the SET for a reason of its own; next(error) answers 500.
CreateFails(r) ==
    /\ pc[r] = "create"
    /\ Answer(r, Refusal("error"))
    /\ Goto(r, "done")
    /\ UNCHANGED <<record, payload, seen, succeeded, stolen>>

----------------------------------------------------------------------------
(* Business logic, and the listener on the response's 'finish' event.      *)

\* Business logic answers with status class c.  A 2xx has committed its
\* effects; the others count as having none.
Handle(r, c) ==
    /\ pc[r] = "handler"
    /\ Answer(r, [kind |-> "fresh", body |-> Captured(r, c)])
    /\ Goto(r, "finish")
    /\ succeeded' = IF c = "2xx" THEN succeeded \cup {r} ELSE succeeded
    /\ UNCHANGED <<record, payload, seen, stolen>>

\* The record under the key is r's own, or there is none.
MayWrite(r) == record = NoRecord \/ record.by = r

\* updateKey's GET; 'Record not found' is logged and swallowed.
UpdateFind(r) ==
    /\ pc[r] = "finish"
    /\ seen' = [seen EXCEPT ![r] = record]
    /\ Goto(r, IF record = NoRecord THEN "done" ELSE "store")
    /\ stolen' = (stolen \/ ~ MayWrite(r))
    /\ UNCHANGED <<record, payload, reply, succeeded>>

\* Deviation: a server error is cached like any other answer.
FinalStatusCachingErrors(code) == "COMPLETED"

FinalStatus(code) == IF code \in {"2xx", "4xx"} THEN "COMPLETED" ELSE "FAILED"

\* Deviation: the status code is merged in as the status.
UpdateStoreRawStatus(r) ==
    /\ pc[r] = "store"
    /\ record' = [seen[r] EXCEPT !.status = reply[r].body.code, !.body = reply[r].body]
    /\ seen' = [seen EXCEPT ![r] = NoRecord]
    /\ Goto(r, "done")
    /\ stolen' = (stolen \/ ~ MayWrite(r))
    /\ UNCHANGED <<payload, reply, succeeded>>

\* updateKey's SET: what was read, with the result merged in, whatever the key
\* holds by now.  A record that expired since the GET is there again.
UpdateStore(r) ==
    /\ pc[r] = "store"
    /\ record' = [seen[r] EXCEPT !.status = FinalStatus(reply[r].body.code),
                                 !.body   = reply[r].body]
    /\ seen' = [seen EXCEPT ![r] = NoRecord]
    /\ Goto(r, "done")
    /\ stolen' = (stolen \/ ~ MayWrite(r))
    /\ UNCHANGED <<payload, reply, succeeded>>

----------------------------------------------------------------------------
(* What the environment does. *)

\* Request r ends without a further step of its own: its process dies, a
\* rejected promise leaves the middleware or the handler unanswered, the
\* client disconnects so that 'finish' never fires, or updateKey fails and is
\* logged.  A handler cut short may or may not have committed its effects.
Abandon(r) ==
    /\ pc[r] \notin {"idle", "done"}
    /\ Goto(r, "done")
    /\ seen' = [seen EXCEPT ![r] = NoRecord]
    /\ \/ UNCHANGED succeeded
       \/ pc[r] = "handler" /\ succeeded' = succeeded \cup {r}
    /\ UNCHANGED <<record, payload, reply, stolen>>

\* Deviation: createKey sets no EX, so only a stored result has a TTL.
ExpireResultsOnly ==
    /\ record.status \in {"COMPLETED", "FAILED"}
    /\ \A r \in Requests : pc[r] # "handler"
    /\ record' = NoRecord
    /\ succeeded' = {}
    /\ UNCHANGED <<pc, payload, seen, reply, stolen>>

\* The TTL passes.  It is 24 hours from createKey, so business logic that ran
\* under the key has long answered; but updateKey's commands wait for as long as
\* Redis cannot be reached, and the key may go before, between or after them.
Expire ==
    /\ record # NoRecord
    /\ \A r \in Requests : pc[r] # "handler"
    /\ record' = NoRecord
    /\ succeeded' = {}
    /\ UNCHANGED <<pc, payload, seen, reply, stolen>>

----------------------------------------------------------------------------

Serve(r) ==
    \/ FindKey(r) \/ DeleteKey(r)
    \/ CreateKey(r) \/ CreateRefused(r) \/ CreateResent(r) \/ CreateFails(r)
    \/ \E c \in Outcomes : Handle(r, c)
    \/ UpdateFind(r) \/ UpdateStore(r)

Next ==
    \/ \E r \in Requests :
        \/ \E p \in Payloads : Arrive(r, p)
        \/ RejectHeader(r) \/ Serve(r) \/ Abandon(r)
    \/ Expire

Spec == Init /\ [][Next]_vars

\* A process that is up keeps running its requests, and time passes.
ServedFairly == (\A r \in Requests : WF_vars(Serve(r))) /\ WF_vars(Expire)

FairSpec == Spec /\ ServedFairly

----------------------------------------------------------------------------

TypeOK ==
    /\ record \in Records
    /\ pc \in [Requests -> Locations]
    /\ payload \in [Requests -> Payloads \cup {NoPayload}]
    /\ seen \in [Requests -> Records]
    /\ reply \in [Requests -> Replies]
    /\ succeeded \subseteq Requests
    /\ stolen \in BOOLEAN

----------------------------------------------------------------------------
(* Safety. *)

\* "Idempotency middleware to prevent duplicate requests": business logic runs
\* for one request with the key at a time.
OneAtATime ==
    \A r, s \in Requests : pc[r] = "handler" /\ pc[s] = "handler" => r = s

\* Within one TTL at most one request commits its effects with success.
AtMostOneSuccess == \A r, s \in succeeded : r = s

\* The middleware keeps both promises until a request deletes a record other
\* than the FAILED one it read (concurrent retries of a failed request), or
\* writes its result over a record that another created since the key expired.
\* Nothing else makes business logic run twice, whatever crashes,
\* disconnections, resent commands and expiries there are; in particular not an
\* expiry between updateKey's GET and SET that no other request gets into.
ExclusiveUnlessStolen == ~stolen => OneAtATime /\ AtMostOneSuccess

\* What a retry is answered from the cache is never a server error or a
\* redirect; and, for replays of a record that was never stolen, it is the
\* answer a request with the same payload was given.  The second half fails
\* once a request has written its result into another's record.
ReplayUnlessStolen ==
    \A r \in Requests :
        reply[r].kind = "replay" =>
            LET s == reply[r].body.of
            IN /\ reply[r].body.code \in {"2xx", "4xx"}
               /\ stolen \/ (s \in Requests /\ payload[s] = payload[r]
                              /\ reply[s].body.code = reply[r].body.code)

----------------------------------------------------------------------------
(* The middleware implements OnceOnly until a record is stolen. *)

SlotOf(rec) ==
    CASE rec.status = "IN_PROGRESS" -> [state |-> "held", by |-> rec.by]
      [] rec.status = "COMPLETED"   -> [state |-> "done", by |-> rec.body.of]
      [] OTHER                      -> [state |-> "free", by |-> NoRequest]

ToldOf(a) ==
    CASE a.kind = "none"   -> [kind |-> "none", of |-> NoRequest, code |-> "none"]
      [] a.kind = "fresh"  -> [kind |-> "own", of |-> a.body.of, code |-> a.body.code]
      [] a.kind = "replay" -> [kind |-> "replay", of |-> a.body.of, code |-> a.body.code]
      [] OTHER             -> [kind |-> "refused", of |-> NoRequest, code |-> "none"]

Once == INSTANCE OnceOnly WITH
    slot    <- SlotOf(record),
    running <- {r \in Requests : pc[r] = "handler"},
    told    <- [r \in Requests |-> ToldOf(reply[r])]

\* Every step of the middleware is a step of the promised slot, or none, for as
\* long as no record has been stolen; a late result may fill a slot that has
\* been released and not been taken since.
ImplementsOnceOnly ==
    Once!Init /\ [][~stolen' => Once!Next]_(Once!vars)

----------------------------------------------------------------------------
(* Liveness. *)

\* A key whose request died half-way does not stay in progress for ever.
KeyIsReleased ==
    (record.status = "IN_PROGRESS") ~> (record.status # "IN_PROGRESS")
=============================================================================
