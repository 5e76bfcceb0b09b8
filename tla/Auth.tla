-------------------------------- MODULE Auth --------------------------------
(***************************************************************************)
(* Signing in (modules/auth): one-time codes of staff and customers, their *)
(* verification, the sessions opened after it or with a password, refresh  *)
(* and logout.  A request stands between two statements of its handler.    *)
(* The SMS that carries a code is a job of SmsQueue; nothing here waits    *)
(* for it, and a code may also be entered by who has guessed it: attempts  *)
(* are not counted.                                                        *)
(*                                                                         *)
(* A code is named by the request that asked for it, a session by the      *)
(* request that opened it.  Clock times appear as what they decide: a code *)
(* is expired or not, used within the last five minutes or before.  No     *)
(* statement here reads isActive.                                          *)
(***************************************************************************)
EXTENDS Integers, FiniteSets

CONSTANTS
    Requests, Phones, NoPhone,
    Centers, NoCenter,     \* gaming centers, and the place of customers' accounts
    NoCode,
    Seeded,                \* the accounts there are at the start
    Passworded,            \* those of staff who have a password
    MaxCodes               \* bound: codes asked for

Holders == Phones \X (Centers \cup {NoCenter})

ASSUME AuthConstants ==
    /\ NoPhone \notin Phones /\ NoCenter \notin Centers /\ NoCode \notin Requests
    /\ Seeded \subseteq Holders /\ Passworded \subseteq Seeded
    /\ MaxCodes \in Nat

VARIABLES
    call,       \* call[r]: where request r stands, the account it is about, and
                \* the code, or the session, that it has found
    otp,        \* otp[r]: the PhoneOtp row made by r
    accounts,   \* the rows of User and CustomerAccount, by phone and center
    verified,   \* those with a phoneVerifiedAt
    session,    \* session[r]: the Session row made by r
    usedBy,     \* history: the requests that have consumed each code
    entered,    \* history: the codes that were entered rightly
    raced       \* history: a code was consumed that had been since it was found

vars == <<call, otp, accounts, verified, session, usedBy, entered, raced>>

Locations ==
    {"idle", "issue", "queue", "consumeStaff", "mark", "consumeCustomer", "check",
     "confirm", "find", "create", "confirmLate", "staff", "open", "revoke", "done"}

Otps ==
    [phone : Phones \cup {NoPhone}, earlier : SUBSET Requests,
     used : {"no", "recent", "before"}, expired : BOOLEAN]

NoOtp == [phone |-> NoPhone, earlier |-> {}, used |-> "no", expired |-> FALSE]

NoHolder == <<NoPhone, NoCenter>>

Calls == [at : Locations, of : Holders \cup {NoHolder}, found : Requests \cup {NoCode}]

Call(l, h, o) == [at |-> l, of |-> h, found |-> o]

\* No property reads revoked: no statement modelled here depends on it.
Sessions == [of : Holders \cup {NoHolder}, revoked : BOOLEAN]

NoSession == [of |-> NoHolder, revoked |-> FALSE]

Init ==
    /\ call = [r \in Requests |-> Call("idle", NoHolder, NoCode)]
    /\ otp = [r \in Requests |-> NoOtp]
    /\ accounts = Seeded /\ verified = {}
    /\ session = [r \in Requests |-> NoSession]
    /\ usedBy = [r \in Requests |-> {}]
    /\ entered = {}
    /\ raced = FALSE

Issued == {o \in Requests : otp[o] # NoOtp}

CodesOf(p) == {o \in Issued : otp[o].phone = p}

At(r) == call[r].at

\* The account that r is about.
Of(r) == call[r].of

Begin(r, h, o, l) ==
    /\ At(r) = "idle"
    /\ call' = [call EXCEPT ![r] = Call(l, h, o)]

Goto(r, l) == call' = [call EXCEPT ![r].at = l]

\* The request is answered: what it had found is gone.
End(r) == call' = [call EXCEPT ![r] = Call("done", NoHolder, NoCode)]

Store == <<otp, accounts, verified, session>>

History == <<usedBy, entered, raced>>

----------------------------------------------------------------------------
(* requestUserOtp and requestCustomerOtp *)

MoreCodes == Cardinality(Issued) < MaxCodes

\* Staff are known by their phone; a customer may be new.
AskStaff(r, p) ==
    /\ MoreCodes
    /\ \E c \in Centers : <<p, c>> \in accounts
    /\ Begin(r, <<p, NoCenter>>, NoCode, "issue")
    /\ UNCHANGED <<Store, History>>

AskCustomer(r, p) ==
    /\ MoreCodes
    /\ Begin(r, <<p, NoCenter>>, NoCode, "issue")
    /\ UNCHANGED <<Store, History>>

\* createOtp.
Issue(r) ==
    /\ At(r) = "issue" /\ MoreCodes
    /\ otp' = [otp EXCEPT ![r] = [phone |-> Of(r)[1], earlier |-> Issued,
                                  used |-> "no", expired |-> FALSE]]
    /\ Goto(r, "queue")
    /\ UNCHANGED <<accounts, verified, session, History>>

\* queueSms, whose jobs are those of SmsQueue: the last await of the request.
QueueSms(r) ==
    /\ At(r) = "queue"
    /\ End(r)
    /\ UNCHANGED <<Store, History>>

----------------------------------------------------------------------------
(* verifyUserOtp and verifyCustomerOtp *)

Fresh(o) == otp[o].used = "no" /\ ~otp[o].expired

\* Deviation: a code of any phone will do.
RecentOtpOfAnyone(p) ==
    {o \in Issued : Fresh(o) /\ \A q \in Issued : Fresh(q) => q \in otp[o].earlier \cup {o}}

\* findRecentOtp: the newest code of the phone that is neither used nor expired.
RecentOtp(p) ==
    {o \in CodesOf(p) : Fresh(o) /\ \A q \in CodesOf(p) : Fresh(q) => q \in otp[o].earlier \cup {o}}

\* The code entered is the one found, from its SMS or guessed.  The flow of the
\* request decides what follows its consumption.
Enter(r, h, flow) ==
    /\ \E o \in RecentOtp(h[1]) :
        /\ Begin(r, h, o, flow)
        /\ entered' = entered \cup {o}
    /\ UNCHANGED <<Store, usedBy, raced>>

\* Deviation: the code is marked when the sign-in ends, if at all.
ConsumeNothing(r) ==
    /\ At(r) \in {"consumeStaff", "consumeCustomer"}
    /\ usedBy' = [usedBy EXCEPT ![call[r].found] = @ \cup {r}]
    /\ raced' = (raced \/ otp[call[r].found].used # "no")
    /\ Goto(r, IF At(r) = "consumeStaff" THEN "mark" ELSE "check")
    /\ UNCHANGED <<Store, entered>>

\* Deviation: consumption by phone: all the codes of the phone count as used.
ConsumeAll(r) ==
    /\ At(r) \in {"consumeStaff", "consumeCustomer"}
    /\ otp' = [o \in Requests |-> IF o \in CodesOf(Of(r)[1]) THEN [otp[o] EXCEPT !.used = "recent"] ELSE otp[o]]
    /\ usedBy' = [usedBy EXCEPT ![call[r].found] = @ \cup {r}]
    /\ raced' = (raced \/ otp[call[r].found].used # "no")
    /\ Goto(r, IF At(r) = "consumeStaff" THEN "mark" ELSE "check")
    /\ UNCHANGED <<accounts, verified, session, entered>>

\* consumeOtp, by id.
Consume(r) ==
    /\ At(r) \in {"consumeStaff", "consumeCustomer"}
    /\ otp' = [otp EXCEPT ![call[r].found].used = "recent"]
    /\ usedBy' = [usedBy EXCEPT ![call[r].found] = @ \cup {r}]
    /\ raced' = (raced \/ otp[call[r].found].used # "no")
    /\ Goto(r, IF At(r) = "consumeStaff" THEN "mark" ELSE "check")
    /\ UNCHANGED <<accounts, verified, session, entered>>

\* markUserPhoneVerified: all the rows of the phone.
MarkStaff(r) ==
    /\ At(r) = "mark"
    /\ verified' = verified \cup {h \in accounts : h[1] = Of(r)[1] /\ h[2] # NoCenter}
    /\ End(r)
    /\ UNCHANGED <<otp, accounts, session, History>>

----------------------------------------------------------------------------
(* The end of verifyCustomerOtp, and loginCustomer: both find the customer *)
(* and mark an unverified one; only the second creates one.                *)

Customer(r) == <<Of(r)[1], NoCenter>>

Unmarked(r) == Customer(r) \in accounts \ verified

CheckCustomer(r) ==
    /\ At(r) = "check"
    /\ Goto(r, IF Unmarked(r) THEN "confirm" ELSE "find")
    /\ UNCHANGED <<Store, History>>

FindCustomer(r) ==
    /\ At(r) = "find"
    /\ Goto(r, IF Customer(r) \notin accounts THEN "create"
               ELSE IF Unmarked(r) THEN "confirmLate" ELSE "open")
    /\ UNCHANGED <<Store, History>>

\* markCustomerPhoneVerified, in the one and in the other.
MarkCustomer(r) ==
    /\ At(r) \in {"confirm", "confirmLate"}
    /\ verified' = verified \cup {Customer(r)}
    /\ Goto(r, IF At(r) = "confirm" THEN "find" ELSE "open")
    /\ UNCHANGED <<otp, accounts, session, History>>

\* createCustomer, which the unique phone may refuse.
CreateCustomer(r) ==
    /\ At(r) = "create"
    /\ IF Customer(r) \in accounts
       THEN End(r) /\ UNCHANGED <<accounts, verified>>
       ELSE /\ accounts' = accounts \cup {Customer(r)}
            /\ verified' = verified \cup {Customer(r)}
            /\ Goto(r, "open")
    /\ UNCHANGED <<otp, session, History>>

----------------------------------------------------------------------------
(* Sessions *)

\* loginUser: the account is found, with the right password.
LogInWithPassword(r, h) ==
    /\ h \in Passworded
    /\ Begin(r, h, NoCode, "open")
    /\ UNCHANGED <<Store, History>>

\* loginUserWithOtp: a code of the phone was used in the last five minutes.
FindUsedCode(r, p, c) ==
    /\ \E o \in CodesOf(p) : otp[o].used = "recent"
    /\ Begin(r, <<p, c>>, NoCode, "staff")
    /\ UNCHANGED <<Store, History>>

\* findUserByPhone, with the center.
FindStaff(r) ==
    /\ At(r) = "staff"
    /\ IF Of(r) \in accounts THEN Goto(r, "open") ELSE End(r)
    /\ UNCHANGED <<Store, History>>

\* createAndSaveSession.
Open(r) ==
    /\ At(r) = "open"
    /\ session' = [session EXCEPT ![r].of = Of(r)]
    /\ End(r)
    /\ UNCHANGED <<otp, accounts, verified, History>>

\* refreshAuthToken revokes a session that it finds expired, and otherwise
\* answers without a change; logout revokes the session its token names.
FindSession(r, s) ==
    /\ session[s] # NoSession
    /\ Begin(r, session[s].of, s, "revoke")
    /\ UNCHANGED <<Store, History>>

Revoke(r) ==
    /\ At(r) = "revoke"
    /\ session' = [session EXCEPT ![call[r].found].revoked = TRUE]
    /\ End(r)
    /\ UNCHANGED <<otp, accounts, verified, History>>

\* createStaffMember, of users.station: a row of its own, never a second one.
Hire(h) ==
    /\ h[2] # NoCenter
    /\ accounts' = accounts \cup {h}
    /\ UNCHANGED <<call, otp, verified, session, History>>

\* A statement fails, or the process is gone: what was stored stays.
Break(r) ==
    /\ At(r) \notin {"idle", "done"}
    /\ End(r)
    /\ UNCHANGED <<Store, History>>

----------------------------------------------------------------------------
(* Time *)

\* Codes expire in the order in which they were made.
ExpireCode(o) ==
    /\ o \in Issued /\ ~otp[o].expired
    /\ \A q \in otp[o].earlier : otp[q].expired
    /\ otp' = [otp EXCEPT ![o].expired = TRUE]
    /\ UNCHANGED <<call, accounts, verified, session, History>>

\* Five minutes after the use of a code, it opens no more sessions.
CloseWindow(o) ==
    /\ otp[o].used = "recent"
    /\ otp' = [otp EXCEPT ![o].used = "before"]
    /\ UNCHANGED <<call, accounts, verified, session, History>>

----------------------------------------------------------------------------

Start(r) ==
    \/ \E p \in Phones :
        \/ AskStaff(r, p) \/ AskCustomer(r, p)
        \/ Enter(r, <<p, NoCenter>>, "consumeStaff") \/ Enter(r, <<p, NoCenter>>, "consumeCustomer")
        \/ \E c \in Centers : FindUsedCode(r, p, c)
    \/ \E h \in Holders : LogInWithPassword(r, h)
    \/ \E s \in Requests : FindSession(r, s)

Step(r) ==
    \/ Issue(r) \/ QueueSms(r)
    \/ Consume(r) \/ MarkStaff(r)
    \/ CheckCustomer(r) \/ FindCustomer(r) \/ MarkCustomer(r) \/ CreateCustomer(r)
    \/ FindStaff(r) \/ Open(r) \/ Revoke(r)

Next ==
    \/ \E r \in Requests : Start(r) \/ Step(r) \/ Break(r)
    \/ \E o \in Requests : ExpireCode(o) \/ CloseWindow(o)
    \/ \E h \in Holders : Hire(h)

Spec == Init /\ [][Next]_vars

----------------------------------------------------------------------------

TypeOK ==
    /\ call \in [Requests -> Calls]
    /\ otp \in [Requests -> Otps]
    /\ accounts \subseteq Holders /\ verified \subseteq accounts
    /\ session \in [Requests -> Sessions]
    /\ usedBy \in [Requests -> SUBSET Requests]
    /\ \A o \in Requests : otp[o].used # "no" => usedBy[o] # {}
    /\ entered \subseteq Issued
    /\ raced \in BOOLEAN

\* A code of the phone was entered rightly and consumed.
Used(p) == \E o \in entered : otp[o].phone = p /\ usedBy[o] # {}

\* A code of the very phone was entered and consumed before an account counts as
\* verified, before a customer is registered, and before a session opens without
\* a password: through the shared table of codes, whichever flow each request
\* belongs to.  docs/auth.md says otherwise of customers: that a phone number
\* alone registers them and signs them in, which no route does.
AccountsProved ==
    /\ \A h \in verified : Used(h[1])
    /\ \A h \in accounts \ Seeded : h[2] = NoCenter => Used(h[1])
    /\ \A r \in Requests :
        session[r] # NoSession => session[r].of \in Passworded \/ Used(session[r].of[1])

Atomic == INSTANCE SignIn WITH
    issued <- [r \in Requests |-> otp[r].phone],
    opened <- {<<r, session[r].of>> : r \in {q \in Requests : session[q].of # NoHolder}}

\* Until a code is consumed that another request has consumed since it was
\* found, each statement is one step of the promise or none: a code is used
\* once, and what needs a used code has one.
ImplementsSignIn == [][~raced' => Atomic!Next]_(Atomic!vars)
=============================================================================
