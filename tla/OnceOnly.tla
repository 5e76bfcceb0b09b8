------------------------------ MODULE OnceOnly ------------------------------
(***************************************************************************)
(* What the idempotency layer promises about one key, whatever the store   *)
(* behind it: the key is a slot that one request at a time holds while its *)
(* business logic runs; the result of that run, when it is a success or a  *)
(* client error, is what every later request is told, until the slot is    *)
(* released.                                                               *)
(***************************************************************************)

CONSTANTS Requests, NoRequest

VARIABLES
    slot,      \* free, held by a request, or holding a request's result
    running,   \* the requests whose business logic is running
    told       \* told[r]: the answer request r got, and whose result it is

Free == [state |-> "free", by |-> NoRequest]
Held(r) == [state |-> "held", by |-> r]
Done(r) == [state |-> "done", by |-> r]

Untold == [kind |-> "none", of |-> NoRequest, code |-> "none"]
Refused == [kind |-> "refused", of |-> NoRequest, code |-> "none"]
Own(r, c) == [kind |-> "own", of |-> r, code |-> c]

Init ==
    /\ slot = Free
    /\ running = {}
    /\ told = [r \in Requests |-> Untold]

\* A free key is taken and the request's business logic starts, alone.
Begin(r) ==
    /\ slot = Free /\ running = {}
    /\ slot' = Held(r)
    /\ running' = {r}
    /\ UNCHANGED told

\* The business logic of the holder ends and answers with status class c.
End(r, c) ==
    /\ slot = Held(r) /\ running = {r}
    /\ running' = {}
    /\ told' = [told EXCEPT ![r] = Own(r, c)]
    /\ UNCHANGED slot

\* The holder is cut short: the key stays held, with no result.
Drop(r) ==
    /\ slot = Held(r) /\ running = {r}
    /\ running' = {}
    /\ UNCHANGED <<slot, told>>

\* A request takes a free key and is refused all the same.
Orphan(r) ==
    /\ slot = Free /\ running = {}
    /\ slot' = Held(r)
    /\ told' = [told EXCEPT ![r] = Refused]
    /\ UNCHANGED running

\* The result replaces the hold, or fills a slot that was released before the
\* result came and is still free; a run that failed frees the slot instead.
Publish(r) ==
    /\ slot \in {Held(r), Free} /\ running = {}
    /\ told[r].kind = "own"
    /\ slot' = IF told[r].code \in {"2xx", "4xx"} THEN Done(r) ELSE Free
    /\ UNCHANGED <<running, told>>

\* A later request is told the result of the one run there was.
Replay(r) ==
    /\ slot.state = "done"
    /\ told' = [told EXCEPT ![r] = [told[slot.by] EXCEPT !.kind = "replay"]]
    /\ UNCHANGED <<slot, running>>

\* Any request may be turned away.
Refuse(r) ==
    /\ told' = [told EXCEPT ![r] = Refused]
    /\ UNCHANGED <<slot, running>>

\* The TTL of the key passes; never while business logic runs.
Release ==
    /\ running = {}
    /\ slot' = Free
    /\ UNCHANGED <<running, told>>

Next ==
    \/ \E r \in Requests :
        \/ Begin(r) \/ Drop(r) \/ Orphan(r) \/ Publish(r) \/ Replay(r) \/ Refuse(r)
        \/ \E c \in {"2xx", "3xx", "4xx", "5xx"} : End(r, c)
    \/ Release

vars == <<slot, running, told>>

Spec == Init /\ [][Next]_vars
=============================================================================
