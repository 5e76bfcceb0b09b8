----------------------------- MODULE MCAuthSms -----------------------------
(***************************************************************************)
(* Small instances of Auth and of the queue its codes leave by: each       *)
(* behaviour is one of either, chosen at the start, and the other rests.   *)
(* The phones are that of a member of the staff of a center, who has a     *)
(* password, and that of a customer who was never verified, as             *)
(* prisma/seed.ts leaves them.  The symmetry is that of the requests of    *)
(* Auth, which has no liveness property: under it the states of the queue  *)
(* stay as they are.                                                       *)
(***************************************************************************)
EXTENDS Auth, SmsQueue, TLC

CONSTANTS p1, p2, c1

MCSeeded == {<<p1, c1>>, <<p2, NoCenter>>}

MCPassworded == {<<p1, c1>>}

Symmetry == Permutations(Requests)

VARIABLE part

bothVars == <<vars, smsVars, part>>

BothInit == part \in {"auth", "sms"} /\ Init /\ SmsInit

BothNext ==
    \/ part = "auth" /\ Next /\ UNCHANGED <<smsVars, part>>
    \/ part = "sms" /\ SmsNext /\ UNCHANGED <<vars, part>>

BothSpec == BothInit /\ [][BothNext]_bothVars /\ SmsFairness
=============================================================================
