------------------------------- MODULE SignIn -------------------------------
(***************************************************************************)
(* What signing in promises, as if every request were atomic: a one-time   *)
(* code of a phone is used at most once, an account of a customer appears, *)
(* and a session without a password opens, only for a phone that has had a *)
(* code used, and a session belongs to an account.                         *)
(***************************************************************************)
CONSTANTS Requests, Phones, Centers, NoCenter, NoPhone, Passworded

Holders == Phones \X (Centers \cup {NoCenter})

VARIABLES
    issued,     \* issued[r]: the phone of the code r asked for, or NoPhone
    usedBy,     \* usedBy[o]: the requests that have used o's code
    accounts,   \* the accounts there are, by phone and center
    opened      \* sessions: the request that opened each, and its account

vars == <<issued, usedBy, accounts, opened>>

Proved(p) == \E o \in Requests : issued[o] = p /\ usedBy[o] # {}

Issue(r) ==
    /\ issued[r] = NoPhone
    /\ \E p \in Phones : issued' = [issued EXCEPT ![r] = p]
    /\ UNCHANGED <<usedBy, accounts, opened>>

Use(r, o) ==
    /\ issued[o] # NoPhone
    /\ usedBy[o] = {}
    /\ usedBy' = [usedBy EXCEPT ![o] = {r}]
    /\ UNCHANGED <<issued, accounts, opened>>

\* Staff are hired without proof of their phone, customers join with it.
Join(h) ==
    /\ h \notin accounts
    /\ h[2] = NoCenter => Proved(h[1])
    /\ accounts' = accounts \cup {h}
    /\ UNCHANGED <<issued, usedBy, opened>>

Open(r, h) ==
    /\ h \in accounts
    /\ Proved(h[1]) \/ h \in Passworded
    /\ opened' = opened \cup {<<r, h>>}
    /\ UNCHANGED <<issued, usedBy, accounts>>

Next ==
    \/ \E r \in Requests : Issue(r)
    \/ \E r, o \in Requests : Use(r, o)
    \/ \E h \in Holders : Join(h)
    \/ \E r \in Requests, h \in Holders : Open(r, h)
=============================================================================
