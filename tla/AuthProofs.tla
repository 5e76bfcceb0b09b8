----------------------------- MODULE AuthProofs -----------------------------
(***************************************************************************)
(* Proofs about signing in, for every set of requests, phones, centers and *)
(* accounts at the start: a code of the phone is consumed before accounts  *)
(* are verified, registered or signed in to, and until two requests        *)
(* consume one code each statement is a step of the promise.  And about    *)
(* the queue of the codes, for every number of jobs and workers, attempts  *)
(* and stalls: a job leaves in a bounded number of messages.               *)
(***************************************************************************)
EXTENDS Auth, SmsQueue, FiniteSetTheorems, TLAPS

Codes ==
    \A o \in Requests :
        /\ otp[o] # NoOtp => otp[o].phone \in Phones
        /\ otp[o].used = "no" <=> usedBy[o] = {}
        /\ usedBy[o] # {} => o \in entered

Accounts ==
    /\ Seeded \subseteq accounts
    /\ \A h \in verified : Used(h[1])
    /\ \A h \in accounts \ Seeded : h[2] = NoCenter => Used(h[1])

Opened ==
    \A r \in Requests :
        /\ session[r].of = NoHolder => session[r] = NoSession
        /\ session[r] # NoSession => session[r].of \in Passworded \/ Used(session[r].of[1])

\* What a request knows of its account, its code or its session where it stands.
Knows(r) ==
    /\ At(r) \notin {"idle", "done"} => Of(r) \in Holders
    /\ At(r) \in {"consumeCustomer", "check", "confirm", "find", "create", "confirmLate"} => Of(r) = Customer(r)
    /\ At(r) \in {"consumeStaff", "consumeCustomer"} =>
        call[r].found \in entered /\ otp[call[r].found].phone = Of(r)[1]
    /\ At(r) \in {"mark", "check", "confirm", "find", "create", "confirmLate", "staff"} => Used(Of(r)[1])
    /\ At(r) \in {"confirm", "confirmLate", "open"} => Of(r) \in accounts
    /\ At(r) = "open" => Of(r) \in Passworded \/ Used(Of(r)[1])
    /\ At(r) = "revoke" => call[r].found \in Requests /\ session[call[r].found] # NoSession

\* A request makes at most one code and one session.
Own(r) ==
    /\ At(r) \in {"idle", "issue"} => otp[r] = NoOtp
    /\ At(r) # "done" => session[r] = NoSession

IInv ==
    /\ TypeOK /\ Codes /\ Accounts /\ Opened
    /\ \A r \in Requests : Knows(r) /\ Own(r)

LEMMA NoneFacts ==
    /\ NoOtp \in Otps /\ NoOtp.phone = NoPhone /\ NoOtp.used = "no"
    /\ NoHolder \notin Holders
    /\ NoSession \in Sessions /\ NoSession.of = NoHolder
    /\ \A l \in Locations, h \in Holders \cup {NoHolder}, o \in Requests \cup {NoCode} :
          Call(l, h, o) \in Calls /\ Call(l, h, o).at = l /\ Call(l, h, o).of = h /\ Call(l, h, o).found = o
<1>1. NoOtp \in Otps /\ NoOtp.phone = NoPhone /\ NoOtp.used = "no"
  BY DEF NoOtp, Otps
<1>2. NoHolder \notin Holders
  BY AuthConstants DEF NoHolder, Holders
<1>3. NoSession \in Sessions /\ NoSession.of = NoHolder
  BY DEF NoSession, Sessions
<1>5. \A l \in Locations, h \in Holders \cup {NoHolder}, o \in Requests \cup {NoCode} :
          Call(l, h, o) \in Calls /\ Call(l, h, o).at = l /\ Call(l, h, o).of = h /\ Call(l, h, o).found = o
  BY DEF Call, Calls
<1>6. QED
  BY <1>1, <1>2, <1>3, <1>5

LEMMA IInvInit == Init => IInv
<1> SUFFICES ASSUME Init PROVE IInv
  OBVIOUS
<1>1. \A r \in Requests : /\ At(r) = "idle" /\ call[r] \in Calls
                          /\ otp[r] = NoOtp /\ session[r] = NoSession /\ usedBy[r] = {}
  BY NoneFacts DEF Init, At, Locations
<1>2. TypeOK
  BY <1>1, NoneFacts, AuthConstants DEF Init, TypeOK
<1>3. Codes /\ Accounts /\ Opened
  BY <1>1, NoneFacts DEF Codes, Accounts, Opened, Init
<1>4. \A r \in Requests : Knows(r) /\ Own(r)
  BY <1>1, NoneFacts DEF Knows, Own
<1>5. QED
  BY <1>2, <1>3, <1>4 DEF IInv

----------------------------------------------------------------------------
(* What no step takes back *)

Growth ==
    /\ entered \subseteq entered' /\ accounts \subseteq accounts'
    /\ \A o \in Requests :
        /\ usedBy[o] \subseteq usedBy'[o]
        /\ otp[o] # NoOtp => otp'[o].phone = otp[o].phone
        /\ session[o] # NoSession => session'[o] # NoSession

\* What has not been made for q is not made now.
Untouched(q) ==
    /\ otp[q] = NoOtp => otp'[q] = NoOtp
    /\ session[q] = NoSession => session'[q] = NoSession

LEMMA UsedStays ==
    ASSUME IInv, Growth, NEW p, Used(p)
    PROVE  \E o \in entered' : otp'[o].phone = p /\ usedBy'[o] # {}
<1>1. PICK o \in entered : otp[o].phone = p /\ usedBy[o] # {}
  BY DEF Used
<1>2. o \in Requests /\ otp[o] # NoOtp
  BY DEF IInv, TypeOK, Issued
<1>3. QED
  BY <1>1, <1>2 DEF Growth

LEMMA AccountsStay ==
    ASSUME IInv, Growth, UNCHANGED <<accounts, verified>>
    PROVE  Accounts'
<1>1. \A h \in verified : \E o \in entered' : otp'[o].phone = h[1] /\ usedBy'[o] # {}
  BY UsedStays DEF IInv, Accounts
<1>2. \A h \in accounts \ Seeded : h[2] = NoCenter => \E o \in entered' : otp'[o].phone = h[1] /\ usedBy'[o] # {}
  BY UsedStays DEF IInv, Accounts
<1>3. QED
  BY <1>1, <1>2 DEF IInv, Accounts, Used

LEMMA OpenedStays ==
    ASSUME IInv, Growth, UNCHANGED session
    PROVE  Opened'
<1>1. \A r \in Requests : session[r] # NoSession =>
          session[r].of \in Passworded \/ \E o \in entered' : otp'[o].phone = session[r].of[1] /\ usedBy'[o] # {}
  BY UsedStays DEF IInv, Opened
<1>2. QED
  BY <1>1 DEF IInv, Opened, Used

LEMMA KnowsStays ==
    ASSUME IInv, Growth, NEW q \in Requests, call'[q] = call[q]
    PROVE  Knows(q)'
<1>1. Knows(q) /\ At(q)' = At(q) /\ Of(q)' = Of(q) /\ Customer(q)' = Customer(q) /\ call'[q].found = call[q].found
  BY DEF IInv, At, Of, Customer
<1>2. Used(Of(q)[1]) => Used(Of(q)[1])'
  BY <1>1, UsedStays DEF Used
<1>3. At(q) \in {"consumeStaff", "consumeCustomer"} => otp'[call[q].found].phone = Of(q)[1]
  BY <1>1 DEF Knows, Growth, IInv, TypeOK, Issued
<1>4. QED
  BY <1>1, <1>2, <1>3 DEF Knows, Growth

\* The requests but r stand where they stood.
LEMMA OthersStay ==
    ASSUME IInv, Growth, NEW r \in Requests,
           \A q \in Requests \ {r} : call'[q] = call[q] /\ Untouched(q),
           Knows(r)', Own(r)'
    PROVE  \A q \in Requests : Knows(q)' /\ Own(q)'
<1>1. ASSUME NEW q \in Requests \ {r} PROVE Knows(q)' /\ Own(q)'
  <2>1. Knows(q)'
    BY KnowsStays
  <2>2. Own(q)'
    BY DEF IInv, Own, Untouched, At
  <2>3. QED
    BY <2>1, <2>2
<1>2. QED
  BY <1>1

LEMMA AllStay ==
    ASSUME IInv, Growth, UNCHANGED call, \A q \in Requests : Untouched(q)
    PROVE  \A q \in Requests : Knows(q)' /\ Own(q)'
<1>1. ASSUME NEW q \in Requests PROVE Knows(q)' /\ Own(q)'
  <2>1. Knows(q)'
    BY KnowsStays
  <2>2. Own(q)'
    BY DEF IInv, Own, Untouched, At
  <2>3. QED
    BY <2>1, <2>2
<1>2. QED
  BY <1>1

----------------------------------------------------------------------------
(* Where a request goes *)

LEMMA GotoFacts ==
    ASSUME TypeOK, NEW r \in Requests, NEW l \in Locations, Goto(r, l)
    PROVE  /\ call' \in [Requests -> Calls] /\ \A q \in Requests \ {r} : call'[q] = call[q]
           /\ At(r)' = l /\ Of(r)' = Of(r) /\ Customer(r)' = Customer(r) /\ call'[r].found = call[r].found
<1> DEFINE c == [call[r] EXCEPT !.at = l]
<1>1. c \in Calls /\ c.at = l /\ c.of = call[r].of /\ c.found = call[r].found
  BY DEF TypeOK, Calls
<1>2. call' = [call EXCEPT ![r] = c]
  BY DEF Goto
<1> HIDE DEF c
<1>3. QED
  BY <1>1, <1>2 DEF TypeOK, At, Of, Customer

LEMMA BeginFacts ==
    ASSUME TypeOK, NEW r \in Requests, NEW l \in Locations, NEW h \in Holders, NEW o \in Requests \cup {NoCode},
           Begin(r, h, o, l)
    PROVE  /\ call' \in [Requests -> Calls] /\ \A q \in Requests \ {r} : call'[q] = call[q]
           /\ At(r) = "idle" /\ At(r)' = l /\ Of(r)' = h /\ Customer(r)' = <<h[1], NoCenter>> /\ call'[r].found = o
<1>1. Call(l, h, o) \in Calls /\ Call(l, h, o).at = l /\ Call(l, h, o).of = h /\ Call(l, h, o).found = o
  BY NoneFacts
<1>2. call' = [call EXCEPT ![r] = Call(l, h, o)] /\ At(r) = "idle"
  BY DEF Begin
<1>3. QED
  BY <1>1, <1>2 DEF TypeOK, At, Of, Customer

LEMMA EndFacts ==
    ASSUME TypeOK, NEW r \in Requests, End(r)
    PROVE  /\ call' \in [Requests -> Calls] /\ \A q \in Requests \ {r} : call'[q] = call[q]
           /\ Knows(r)' /\ Own(r)'
<1>1. Call("done", NoHolder, NoCode) \in Calls /\ Call("done", NoHolder, NoCode).at = "done"
  BY NoneFacts DEF Locations
<1>2. call' = [call EXCEPT ![r] = Call("done", NoHolder, NoCode)]
  BY DEF End
<1>3. At(r)' = "done"
  BY <1>1, <1>2 DEF TypeOK, At
<1>4. QED
  BY <1>1, <1>2, <1>3 DEF TypeOK, Knows, Own

\* A step of r that stores nothing.
LEMMA QuietStep ==
    ASSUME IInv, NEW r \in Requests, UNCHANGED <<Store, History>>,
           call' \in [Requests -> Calls], \A q \in Requests \ {r} : call'[q] = call[q],
           Knows(r)', Own(r)'
    PROVE  IInv'
<1>1. Growth /\ \A q \in Requests : Untouched(q)
  BY DEF Growth, Untouched, Store, History
<1>2. TypeOK'
  BY DEF IInv, TypeOK, Store, History, Issued
<1>3. Codes'
  BY DEF IInv, Codes, Store, History
<1>4. Accounts' /\ Opened'
  BY <1>1, AccountsStay, OpenedStays DEF Store
<1>5. \A q \in Requests : Knows(q)' /\ Own(q)'
  BY <1>1, OthersStay
<1>6. QED
  BY <1>2, <1>3, <1>4, <1>5 DEF IInv

LEMMA BreakStep ==
    ASSUME IInv, NEW r \in Requests, End(r), UNCHANGED <<Store, History>>
    PROVE  IInv'
<1>1. TypeOK
  BY DEF IInv
<1>2. QED
  BY <1>1, EndFacts, QuietStep

\* A step from a location to another one that stores nothing.
LEMMA GotoStep ==
    ASSUME IInv, NEW r \in Requests, NEW l \in Locations \ {"idle", "done", "issue", "queue"}, Goto(r, l),
           At(r) \notin {"idle", "done"}, UNCHANGED <<Store, History>>,
           l \in {"consumeCustomer", "check", "confirm", "find", "create", "confirmLate"} => Of(r) = Customer(r),
           l \notin {"consumeStaff", "consumeCustomer", "revoke"},
           l \in {"mark", "check", "confirm", "find", "create", "confirmLate", "staff"} => Used(Of(r)[1]),
           l \in {"confirm", "confirmLate", "open"} => Of(r) \in accounts,
           l = "open" => Of(r) \in Passworded \/ Used(Of(r)[1])
    PROVE  IInv'
<1>1. TypeOK /\ Knows(r) /\ Own(r)
  BY DEF IInv
<1>2. /\ call' \in [Requests -> Calls] /\ \A q \in Requests \ {r} : call'[q] = call[q]
      /\ At(r)' = l /\ Of(r)' = Of(r) /\ Customer(r)' = Customer(r) /\ call'[r].found = call[r].found
  BY <1>1, GotoFacts
<1>3. Used(Of(r)[1]) => Used(Of(r)[1])'
  BY <1>2 DEF Used, Store, History
<1>4. Knows(r)'
  BY <1>1, <1>2, <1>3 DEF Knows, Store
<1>5. Own(r)'
  BY <1>1, <1>2 DEF Own, Store
<1>6. QED
  BY <1>2, <1>4, <1>5, QuietStep

\* The first step of a request, when it stores nothing.
LEMMA BeginStep ==
    ASSUME IInv, NEW r \in Requests, NEW h \in Holders, NEW o \in Requests \cup {NoCode},
           NEW l \in {"issue", "open", "staff", "revoke"}, Begin(r, h, o, l), UNCHANGED <<Store, History>>,
           l = "staff" => Used(h[1]),
           l = "open" => h \in accounts /\ h \in Passworded,
           l = "revoke" => o \in Requests /\ session[o] # NoSession
    PROVE  IInv'
<1>1. TypeOK /\ Own(r) /\ l \in Locations
  BY DEF IInv, Locations
<1>2. /\ call' \in [Requests -> Calls] /\ \A q \in Requests \ {r} : call'[q] = call[q]
      /\ At(r) = "idle" /\ At(r)' = l /\ Of(r)' = h /\ call'[r].found = o
  BY <1>1, BeginFacts
<1>3. Used(h[1]) => Used(Of(r)[1])'
  BY <1>2 DEF Used, Store, History
<1>4. Knows(r)'
  BY <1>2, <1>3 DEF Knows, Store
<1>5. Own(r)'
  BY <1>1, <1>2 DEF Own, Store
<1>6. QED
  BY <1>2, <1>4, <1>5, QuietStep

LEMMA HolderFacts ==
    /\ \A p \in Phones, c \in Centers \cup {NoCenter} : <<p, c>> \in Holders /\ <<p, c>>[1] = p /\ <<p, c>>[2] = c
    /\ \A h \in Holders : h[1] \in Phones
    /\ Passworded \subseteq Holders
  BY AuthConstants DEF Holders

LEMMA EnterStep ==
    ASSUME IInv, NEW r \in Requests, NEW p \in Phones, NEW flow \in {"consumeStaff", "consumeCustomer"},
           Enter(r, <<p, NoCenter>>, flow)
    PROVE  IInv'
<1> DEFINE h == <<p, NoCenter>>
<1>1. h \in Holders /\ h[1] = p
  BY HolderFacts
<1>2. PICK o \in RecentOtp(h[1]) : Begin(r, h, o, flow) /\ entered' = entered \cup {o}
  BY DEF Enter
<1>3. o \in Requests /\ o \in Issued /\ otp[o].phone = p
  BY <1>1, <1>2 DEF RecentOtp, CodesOf, Issued
<1>4. TypeOK /\ Own(r) /\ flow \in Locations /\ UNCHANGED <<Store, usedBy, raced>>
  BY DEF IInv, Locations, Enter
<1> HIDE DEF h
<1>5. /\ call' \in [Requests -> Calls] /\ \A q \in Requests \ {r} : call'[q] = call[q]
      /\ At(r) = "idle" /\ At(r)' = flow /\ Of(r)' = h /\ call'[r].found = o
      /\ Customer(r)' = <<h[1], NoCenter>>
  BY <1>1, <1>2, <1>3, <1>4, BeginFacts
<1>6. Growth /\ \A q \in Requests : Untouched(q)
  BY <1>2, <1>4 DEF Growth, Untouched, Store
<1>7. TypeOK'
  BY <1>2, <1>3, <1>4, <1>5 DEF TypeOK, Store, Issued
<1>8. Codes'
  BY <1>2, <1>4 DEF IInv, Codes, Store
<1>9. Knows(r)' /\ Own(r)'
  <2>1. Own(r)'
    BY <1>4, <1>5 DEF Own, Store
  <2>2. Of(r)' = Customer(r)'
    BY <1>1, <1>5 DEF h
  <2>3. o \in entered' /\ otp'[o].phone = h[1]
    BY <1>1, <1>2, <1>3, <1>4 DEF Store
  <2>4. QED
    BY <1>1, <1>5, <2>1, <2>2, <2>3 DEF Knows
<1>10. Accounts' /\ Opened' /\ \A q \in Requests : Knows(q)' /\ Own(q)'
  BY <1>4, <1>5, <1>6, <1>9, AccountsStay, OpenedStays, OthersStay DEF Store
<1>11. QED
  BY <1>7, <1>8, <1>10 DEF IInv

LEMMA StartStep ==
    ASSUME IInv, NEW r \in Requests, Start(r)
    PROVE  IInv'
<1>1. ASSUME NEW p \in Phones, AskStaff(r, p) \/ AskCustomer(r, p) PROVE IInv'
  BY <1>1, HolderFacts, BeginStep DEF AskStaff, AskCustomer
<1>2. ASSUME NEW p \in Phones, NEW c \in Centers, FindUsedCode(r, p, c) PROVE IInv'
  <2>1. PICK o \in CodesOf(p) : otp[o].used = "recent"
    BY <1>2 DEF FindUsedCode
  <2>2. Used(p)
    BY <2>1 DEF CodesOf, Issued, IInv, Codes, Used
  <2>3. <<p, c>> \in Holders /\ <<p, c>>[1] = p
    BY HolderFacts
  <2>4. QED
    BY <1>2, <2>2, <2>3, BeginStep DEF FindUsedCode
<1>3. ASSUME NEW h \in Holders, LogInWithPassword(r, h) PROVE IInv'
  <2>1. h \in accounts
    BY <1>3, AuthConstants DEF LogInWithPassword, IInv, Accounts
  <2>2. QED
    BY <1>3, <2>1, BeginStep DEF LogInWithPassword
<1>4. ASSUME NEW s \in Requests, FindSession(r, s) PROVE IInv'
  <2>1. session[s].of \in Holders /\ session[s] # NoSession
    BY <1>4 DEF FindSession, IInv, TypeOK, Sessions, Opened
  <2>2. QED
    BY <1>4, <2>1, BeginStep DEF FindSession
<1>5. QED
  BY <1>1, <1>2, <1>3, <1>4, EnterStep DEF Start

----------------------------------------------------------------------------
(* The statements that store *)

LEMMA IssueStep ==
    ASSUME IInv, NEW r \in Requests, Issue(r)
    PROVE  IInv'
<1> DEFINE new == [phone |-> Of(r)[1], earlier |-> Issued, used |-> "no", expired |-> FALSE]
<1>1. /\ TypeOK /\ Codes /\ Knows(r) /\ Own(r) /\ At(r) = "issue"
      /\ otp' = [otp EXCEPT ![r] = new] /\ Goto(r, "queue")
      /\ UNCHANGED <<accounts, verified, session, usedBy, entered, raced>>
  BY DEF IInv, Issue, History
<1>2. Of(r)[1] \in Phones
  BY <1>1, HolderFacts DEF Knows
<1>3. new \in Otps /\ new.phone \in Phones /\ new.used = "no" /\ new # NoOtp
  <2>1. new \in Otps /\ new.phone \in Phones /\ new.used = "no"
    BY <1>2 DEF Otps, Issued
  <2>2. QED
    BY <2>1, NoneFacts, AuthConstants
<1>4. otp[r] = NoOtp /\ session[r] = NoSession
  BY <1>1 DEF Own
<1> HIDE DEF new
<1>5. otp' \in [Requests -> Otps] /\ otp'[r] = new /\ \A q \in Requests \ {r} : otp'[q] = otp[q]
  BY <1>1, <1>3 DEF TypeOK
<1>6. /\ call' \in [Requests -> Calls] /\ \A q \in Requests \ {r} : call'[q] = call[q]
      /\ At(r)' = "queue" /\ Of(r)' = Of(r)
  BY <1>1, GotoFacts DEF Locations
<1>7. Growth /\ \A q \in Requests \ {r} : Untouched(q)
  BY <1>1, <1>4, <1>5 DEF Growth, Untouched
<1>8. TypeOK'
  <2>1. Issued \subseteq Issued'
    BY <1>3, <1>5 DEF Issued
  <2>2. \A q \in Requests : otp'[q].used # "no" => usedBy'[q] # {}
    BY <1>1, <1>3, <1>5 DEF TypeOK
  <2>3. QED
    BY <1>1, <1>5, <1>6, <2>1, <2>2 DEF TypeOK
<1>9. Codes'
  <2>1. usedBy[r] = {}
    BY <1>1, <1>4, NoneFacts DEF Codes
  <2>2. Codes'
    BY <1>1, <1>3, <1>5, <2>1 DEF Codes
  <2>3. QED
    BY <2>2
<1>10. Knows(r)' /\ Own(r)'
  BY <1>1, <1>4, <1>6 DEF Knows, Own
<1>11. Accounts' /\ Opened' /\ \A q \in Requests : Knows(q)' /\ Own(q)'
  BY <1>1, <1>6, <1>7, <1>10, AccountsStay, OpenedStays, OthersStay
<1>12. QED
  BY <1>8, <1>9, <1>11 DEF IInv

LEMMA QueueSmsStep ==
    ASSUME IInv, NEW r \in Requests, QueueSms(r)
    PROVE  IInv'
  BY BreakStep DEF QueueSms

LEMMA ConsumeStep ==
    ASSUME IInv, NEW r \in Requests, Consume(r)
    PROVE  IInv'
<1> DEFINE o == call[r].found
           row == [otp[o] EXCEPT !.used = "recent"]
           l == IF At(r) = "consumeStaff" THEN "mark" ELSE "check"
<1>1. /\ TypeOK /\ Codes /\ Knows(r) /\ Own(r) /\ At(r) \in {"consumeStaff", "consumeCustomer"}
      /\ otp' = [otp EXCEPT ![o] = row] /\ usedBy' = [usedBy EXCEPT ![o] = @ \cup {r}] /\ Goto(r, l)
      /\ UNCHANGED <<accounts, verified, session, entered>>
      /\ raced' \in BOOLEAN
  BY DEF IInv, Consume, TypeOK
<1>2. o \in entered /\ o \in Requests /\ otp[o] # NoOtp /\ otp[o].phone = Of(r)[1]
  BY <1>1 DEF Knows, TypeOK, Issued
<1>3. row \in Otps /\ row.phone = otp[o].phone /\ row.used = "recent" /\ row # NoOtp
  <2>1. otp[o] \in Otps
    BY <1>1, <1>2 DEF TypeOK
  <2>2. row \in Otps /\ row.phone = otp[o].phone /\ row.used = "recent"
    BY <2>1 DEF Otps
  <2>3. QED
    BY <2>2, NoneFacts
<1>4. l \in Locations \ {"consumeStaff", "consumeCustomer"} /\ l \in {"mark", "check"}
      /\ (l = "check" => At(r) = "consumeCustomer")
  BY <1>1 DEF Locations
<1> HIDE DEF row, l, o
<1>5. otp' \in [Requests -> Otps] /\ otp'[o] = row /\ \A q \in Requests \ {o} : otp'[q] = otp[q]
  BY <1>1, <1>2, <1>3 DEF TypeOK
<1>6. /\ usedBy' \in [Requests -> SUBSET Requests] /\ usedBy'[o] = usedBy[o] \cup {r}
      /\ \A q \in Requests \ {o} : usedBy'[q] = usedBy[q]
  BY <1>1, <1>2 DEF TypeOK
<1>7. /\ call' \in [Requests -> Calls] /\ \A q \in Requests \ {r} : call'[q] = call[q]
      /\ At(r)' = l /\ Of(r)' = Of(r) /\ Customer(r)' = Customer(r)
  BY <1>1, <1>4, GotoFacts
<1>8. Growth /\ \A q \in Requests : Untouched(q)
  BY <1>1, <1>2, <1>3, <1>5, <1>6 DEF Growth, Untouched
<1>9. TypeOK'
  BY <1>1, <1>3, <1>5, <1>6, <1>7 DEF TypeOK, Issued
<1>10. Codes'
  BY <1>1, <1>2, <1>3, <1>5, <1>6 DEF Codes
<1>12. Knows(r)' /\ Own(r)'
  <2>1. otp'[o].phone = Of(r)[1] /\ usedBy'[o] # {} /\ o \in entered'
    BY <1>1, <1>2, <1>3, <1>5, <1>6
  <2>2. Used(Of(r)[1])'
    BY <1>7, <2>1 DEF Used
  <2>3. Knows(r)'
    BY <1>1, <1>4, <1>7, <2>2 DEF Knows
  <2>4. Own(r)'
    BY <1>1, <1>4, <1>7 DEF Own
  <2>5. QED
    BY <2>3, <2>4
<1>13. Accounts' /\ Opened' /\ \A q \in Requests : Knows(q)' /\ Own(q)'
  BY <1>1, <1>7, <1>8, <1>12, AccountsStay, OpenedStays, OthersStay
<1>14. QED
  BY <1>9, <1>10, <1>13 DEF IInv

\* A step that touches nothing but accounts and requests: each account new or
\* newly verified, but those of staff who were hired, has had a code used.
LEMMA AccountsStep ==
    ASSUME IInv, UNCHANGED <<otp, session, History>>, accounts \subseteq accounts',
           accounts' \subseteq Holders, verified' \subseteq accounts',
           \A h \in verified' \ verified : Used(h[1]),
           \A h \in accounts' \ accounts : h[2] = NoCenter => Used(h[1]),
           call' \in [Requests -> Calls]
    PROVE  /\ Growth /\ \A q \in Requests : Untouched(q)
           /\ (\A q \in Requests : Knows(q)' /\ Own(q)') => IInv'
<1>1. Growth /\ \A q \in Requests : Untouched(q)
  BY DEF Growth, Untouched, History
<1>2. TypeOK'
  BY DEF IInv, TypeOK, Issued, History
<1>3. Codes'
  BY DEF IInv, Codes, History
<1>4. \A p : Used(p) => \E o \in entered' : otp'[o].phone = p /\ usedBy'[o] # {}
  BY <1>1, UsedStays
<1>5. Accounts'
  <2>1. Seeded \subseteq accounts'
    BY DEF IInv, Accounts
  <2>2. \A h \in verified' : Used(h[1])
    BY DEF IInv, Accounts
  <2>3. \A h \in accounts' \ Seeded : h[2] = NoCenter => Used(h[1])
    BY DEF IInv, Accounts
  <2>4. QED
    BY <1>4, <2>1, <2>2, <2>3 DEF Accounts, Used
<1>6. Opened'
  BY <1>1, OpenedStays
<1>7. QED
  BY <1>1, <1>2, <1>3, <1>5, <1>6 DEF IInv

LEMMA MarkStaffStep ==
    ASSUME IInv, NEW r \in Requests, MarkStaff(r)
    PROVE  IInv'
<1>1. /\ TypeOK /\ Knows(r) /\ At(r) = "mark" /\ End(r)
      /\ verified' = verified \cup {h \in accounts : h[1] = Of(r)[1] /\ h[2] # NoCenter}
      /\ UNCHANGED <<otp, accounts, session, History>>
  BY DEF IInv, MarkStaff
<1>2. Used(Of(r)[1])
  BY <1>1 DEF Knows
<1>3. verified' \subseteq accounts' /\ accounts' \subseteq Holders /\ \A h \in verified' \ verified : Used(h[1])
  BY <1>1, <1>2 DEF TypeOK
<1>4. /\ call' \in [Requests -> Calls] /\ \A q \in Requests \ {r} : call'[q] = call[q]
      /\ Knows(r)' /\ Own(r)'
  BY <1>1, EndFacts
<1>5. Growth /\ (\A q \in Requests : Untouched(q)) /\ ((\A q \in Requests : Knows(q)' /\ Own(q)') => IInv')
  BY <1>1, <1>3, <1>4, AccountsStep
<1>6. QED
  BY <1>4, <1>5, OthersStay

LEMMA MarkCustomerStep ==
    ASSUME IInv, NEW r \in Requests, MarkCustomer(r)
    PROVE  IInv'
<1> DEFINE l == IF At(r) = "confirm" THEN "find" ELSE "open"
<1>1. /\ TypeOK /\ Knows(r) /\ Own(r) /\ At(r) \in {"confirm", "confirmLate"} /\ Goto(r, l)
      /\ verified' = verified \cup {Customer(r)}
      /\ UNCHANGED <<otp, accounts, session, History>>
  BY DEF IInv, MarkCustomer
<1>2. /\ Used(Of(r)[1]) /\ Of(r) = Customer(r) /\ Of(r) \in accounts /\ Of(r) \in Holders
      /\ l \in {"find", "open"} /\ l \in Locations
  BY <1>1 DEF Knows, Locations
<1> HIDE DEF l
<1>3. /\ call' \in [Requests -> Calls] /\ \A q \in Requests \ {r} : call'[q] = call[q]
      /\ At(r)' = l /\ Of(r)' = Of(r) /\ Customer(r)' = Customer(r)
  BY <1>1, <1>2, GotoFacts
<1>4. Used(Of(r)[1])'
  BY <1>1, <1>2, <1>3 DEF Used, History
<1>5. Knows(r)'
  BY <1>1, <1>2, <1>3, <1>4 DEF Knows
<1>6. Own(r)'
  BY <1>1, <1>2, <1>3 DEF Own
<1>7. verified' \subseteq accounts' /\ accounts' \subseteq Holders /\ \A h \in verified' \ verified : Used(h[1])
  BY <1>1, <1>2 DEF TypeOK
<1>8. Growth /\ (\A q \in Requests : Untouched(q)) /\ ((\A q \in Requests : Knows(q)' /\ Own(q)') => IInv')
  BY <1>1, <1>3, <1>7, AccountsStep
<1>9. QED
  BY <1>3, <1>5, <1>6, <1>8, OthersStay

LEMMA CreateCustomerStep ==
    ASSUME IInv, NEW r \in Requests, CreateCustomer(r)
    PROVE  IInv'
<1>1. TypeOK /\ Knows(r) /\ Own(r) /\ At(r) = "create" /\ UNCHANGED <<otp, session, History>>
  BY DEF IInv, CreateCustomer
<1>2. Used(Of(r)[1]) /\ Of(r) = Customer(r) /\ Of(r) \in Holders
  BY <1>1 DEF Knows
<1>3. CASE Customer(r) \in accounts
  BY <1>1, <1>3, BreakStep DEF CreateCustomer, Store
<1>4. CASE Customer(r) \notin accounts
  <2>1. accounts' = accounts \cup {Customer(r)} /\ verified' = verified \cup {Customer(r)} /\ Goto(r, "open")
    BY <1>4 DEF CreateCustomer
  <2>2. /\ call' \in [Requests -> Calls] /\ \A q \in Requests \ {r} : call'[q] = call[q]
        /\ At(r)' = "open" /\ Of(r)' = Of(r) /\ Customer(r)' = Customer(r)
    BY <1>1, <2>1, GotoFacts DEF Locations
  <2>3. Used(Of(r)[1])'
    BY <1>1, <1>2, <2>2 DEF Used, History
  <2>4. Knows(r)' /\ Own(r)'
    BY <1>1, <1>2, <2>1, <2>2, <2>3 DEF Knows, Own
  <2>5. /\ verified' \subseteq accounts' /\ accounts' \subseteq Holders /\ \A h \in verified' \ verified : Used(h[1])
        /\ \A h \in accounts' \ accounts : Used(h[1])
    BY <1>2, <2>1, <1>1 DEF TypeOK
  <2>6. Growth /\ (\A q \in Requests : Untouched(q)) /\ ((\A q \in Requests : Knows(q)' /\ Own(q)') => IInv')
    BY <1>1, <2>1, <2>2, <2>5, AccountsStep
  <2>7. QED
    BY <2>2, <2>4, <2>6, OthersStay
<1>5. QED
  BY <1>3, <1>4

LEMMA HireStep ==
    ASSUME IInv, NEW h \in Holders, Hire(h)
    PROVE  IInv'
<1>1. /\ h[2] # NoCenter /\ accounts' = accounts \cup {h}
      /\ UNCHANGED <<call, otp, verified, session, History>>
  BY DEF Hire
<1>2. accounts' \subseteq Holders /\ verified' \subseteq accounts' /\ call' \in [Requests -> Calls]
  BY <1>1 DEF IInv, TypeOK
<1>3. Growth /\ (\A q \in Requests : Untouched(q)) /\ ((\A q \in Requests : Knows(q)' /\ Own(q)') => IInv')
  BY <1>1, <1>2, AccountsStep
<1>4. QED
  BY <1>1, <1>3, AllStay

\* A step that touches nothing but one session and its request.
LEMMA SessionStep ==
    ASSUME IInv, NEW r \in Requests, NEW s \in Requests, NEW row \in Sessions, End(r),
           session' = [session EXCEPT ![s] = row], row.of \in Holders,
           row.of \in Passworded \/ Used(row.of[1]),
           session[s] # NoSession \/ s = r,
           UNCHANGED <<otp, accounts, verified, History>>
    PROVE  IInv'
<1>1. TypeOK /\ row # NoSession
  BY NoneFacts DEF IInv
<1>2. session' \in [Requests -> Sessions] /\ session'[s] = row /\ \A q \in Requests \ {s} : session'[q] = session[q]
  BY <1>1 DEF TypeOK
<1>3. /\ call' \in [Requests -> Calls] /\ \A q \in Requests \ {r} : call'[q] = call[q]
      /\ Knows(r)' /\ Own(r)'
  BY <1>1, EndFacts
<1>4. Growth /\ \A q \in Requests \ {r} : Untouched(q)
  BY <1>1, <1>2 DEF Growth, Untouched, History
<1>5. TypeOK' /\ Codes'
  BY <1>2, <1>3 DEF IInv, TypeOK, Issued, Codes, History
<1>6. Opened'
  <2>1. \A q \in Requests : session'[q] # NoSession =>
            session'[q].of \in Passworded \/ \E o \in entered' : otp'[o].phone = session'[q].of[1] /\ usedBy'[o] # {}
    BY <1>2, <1>4, UsedStays DEF IInv, Opened
  <2>2. \A q \in Requests : session'[q].of = NoHolder => session'[q] = NoSession
    BY <1>2, NoneFacts DEF IInv, Opened
  <2>3. QED
    BY <2>1, <2>2 DEF Opened, Used
<1>7. Accounts' /\ \A q \in Requests : Knows(q)' /\ Own(q)'
  BY <1>3, <1>4, AccountsStay, OthersStay
<1>8. QED
  BY <1>5, <1>6, <1>7 DEF IInv

LEMMA OpenStep ==
    ASSUME IInv, NEW r \in Requests, Open(r)
    PROVE  IInv'
<1> DEFINE row == [session[r] EXCEPT !.of = Of(r)]
<1>1. /\ session' = [session EXCEPT ![r] = row] /\ End(r)
      /\ UNCHANGED <<otp, accounts, verified, History>>
      /\ At(r) = "open" /\ Knows(r) /\ session[r] \in Sessions
  BY DEF Open, IInv, TypeOK
<1>2. Of(r) \in Holders /\ (Of(r) \in Passworded \/ Used(Of(r)[1]))
  BY <1>1 DEF Knows
<1>3. row \in Sessions /\ row.of = Of(r)
  BY <1>1, <1>2 DEF Sessions
<1> HIDE DEF row
<1>4. QED
  BY <1>1, <1>2, <1>3, SessionStep

LEMMA RevokeStep ==
    ASSUME IInv, NEW r \in Requests, Revoke(r)
    PROVE  IInv'
<1> DEFINE s == call[r].found
           row == [session[s] EXCEPT !.revoked = TRUE]
<1>1. /\ session' = [session EXCEPT ![s] = row] /\ End(r)
      /\ UNCHANGED <<otp, accounts, verified, History>>
      /\ At(r) = "revoke" /\ Knows(r)
  BY DEF Revoke, IInv
<1>2. s \in Requests /\ session[s] # NoSession /\ session[s] \in Sessions
  BY <1>1 DEF Knows, IInv, TypeOK
<1>3. session[s].of \in Holders /\ (session[s].of \in Passworded \/ Used(session[s].of[1]))
  BY <1>2 DEF IInv, Opened, Sessions
<1>4. row \in Sessions /\ row.of = session[s].of
  BY <1>2 DEF Sessions
<1> HIDE DEF row, s
<1>5. QED
  BY <1>1, <1>2, <1>3, <1>4, SessionStep

----------------------------------------------------------------------------
(* Time *)

LEMMA ClockStep ==
    ASSUME IInv, NEW o \in Issued, NEW row \in Otps, otp' = [otp EXCEPT ![o] = row],
           row.phone = otp[o].phone, row.used = "no" <=> otp[o].used = "no",
           UNCHANGED <<call, accounts, verified, session, History>>
    PROVE  IInv'
<1>1. o \in Requests /\ otp[o] # NoOtp /\ otp[o].phone \in Phones
  BY DEF Issued, IInv, Codes
<1>2. row # NoOtp
  BY <1>1, NoneFacts, AuthConstants
<1>3. otp' \in [Requests -> Otps] /\ otp'[o] = row /\ \A q \in Requests \ {o} : otp'[q] = otp[q]
  BY <1>1 DEF IInv, TypeOK
<1>4. Growth /\ \A q \in Requests : Untouched(q)
  BY <1>1, <1>3 DEF Growth, Untouched, History
<1>5. TypeOK'
  BY <1>2, <1>3 DEF IInv, TypeOK, Issued, History
<1>6. Codes'
  BY <1>1, <1>3 DEF IInv, Codes, History
<1>8. Accounts' /\ Opened' /\ \A q \in Requests : Knows(q)' /\ Own(q)'
  BY <1>4, AccountsStay, OpenedStays, AllStay
<1>9. QED
  BY <1>5, <1>6, <1>8 DEF IInv

LEMMA TimeStep ==
    ASSUME IInv, NEW o \in Requests, ExpireCode(o) \/ CloseWindow(o)
    PROVE  IInv'
<1>1. otp[o] \in Otps
  BY DEF IInv, TypeOK
<1>2. CASE ExpireCode(o)
  <2> DEFINE row == [otp[o] EXCEPT !.expired = TRUE]
  <2>1. row \in Otps /\ row.phone = otp[o].phone /\ row.used = otp[o].used
    BY <1>1 DEF Otps
  <2>2. /\ o \in Issued /\ otp' = [otp EXCEPT ![o] = row]
        /\ UNCHANGED <<call, accounts, verified, session, History>>
    BY <1>2 DEF ExpireCode
  <2> HIDE DEF row
  <2>3. QED
    BY <2>1, <2>2, ClockStep
<1>3. CASE CloseWindow(o)
  <2> DEFINE row == [otp[o] EXCEPT !.used = "before"]
  <2>1. row \in Otps /\ row.phone = otp[o].phone /\ row.used = "before"
    BY <1>1 DEF Otps
  <2>2. /\ otp[o].used = "recent" /\ otp' = [otp EXCEPT ![o] = row]
        /\ UNCHANGED <<call, accounts, verified, session, History>>
    BY <1>3 DEF CloseWindow
  <2>3. o \in Issued
    BY <2>2, NoneFacts DEF Issued
  <2> HIDE DEF row
  <2>4. QED
    BY <2>1, <2>2, <2>3, ClockStep
<1>4. QED
  BY <1>2, <1>3

----------------------------------------------------------------------------
(* The invariant *)

LEMMA CustomerStep ==
    ASSUME IInv, NEW r \in Requests, CheckCustomer(r) \/ FindCustomer(r)
    PROVE  IInv'
<1>1. /\ Knows(r) /\ At(r) \in {"check", "find"} /\ UNCHANGED <<Store, History>>
      /\ verified \subseteq accounts
  BY DEF IInv, TypeOK, CheckCustomer, FindCustomer
<1>2. Of(r) = Customer(r) /\ Used(Of(r)[1])
  BY <1>1 DEF Knows
<1>3. PICK l \in {"confirm", "find", "create", "confirmLate", "open"} :
          Goto(r, l) /\ (l \in {"confirm", "confirmLate", "open"} => Customer(r) \in accounts)
  BY <1>1 DEF CheckCustomer, FindCustomer, Unmarked
<1>4. l \in Locations \ {"idle", "done", "issue", "queue"}
  BY DEF Locations
<1>5. QED
  BY <1>1, <1>2, <1>3, <1>4, GotoStep

LEMMA FindStaffStep ==
    ASSUME IInv, NEW r \in Requests, FindStaff(r)
    PROVE  IInv'
<1>1. Used(Of(r)[1]) /\ At(r) = "staff" /\ UNCHANGED <<Store, History>>
  BY DEF IInv, Knows, FindStaff
<1>2. CASE Of(r) \in accounts
  <2>1. Goto(r, "open") /\ "open" \in Locations \ {"idle", "done", "issue", "queue"}
    BY <1>2 DEF FindStaff, Locations
  <2>2. QED
    BY <1>1, <1>2, <2>1, GotoStep
<1>3. CASE Of(r) \notin accounts
  BY <1>1, <1>3, BreakStep DEF FindStaff
<1>4. QED
  BY <1>2, <1>3

LEMMA IInvStep == IInv /\ [Next]_vars => IInv'
<1> SUFFICES ASSUME IInv, [Next]_vars PROVE IInv'
  OBVIOUS
<1>1. CASE UNCHANGED vars
  <2>1. Growth /\ \A q \in Requests : Untouched(q)
    BY <1>1 DEF vars, Growth, Untouched
  <2>2. TypeOK' /\ Codes'
    BY <1>1 DEF vars, IInv, TypeOK, Issued, Codes
  <2>3. Accounts' /\ Opened' /\ \A q \in Requests : Knows(q)' /\ Own(q)'
    BY <1>1, <2>1, AccountsStay, OpenedStays, AllStay DEF vars
  <2>4. QED
    BY <2>2, <2>3 DEF IInv
<1>2. ASSUME NEW r \in Requests, Start(r) \/ Step(r) \/ Break(r) PROVE IInv'
  <2>1. CASE Start(r)
    BY <2>1, StartStep
  <2>2. CASE Issue(r) \/ QueueSms(r) \/ Consume(r)
    BY <2>2, IssueStep, QueueSmsStep, ConsumeStep
  <2>3. CASE MarkStaff(r) \/ MarkCustomer(r) \/ CreateCustomer(r)
    BY <2>3, MarkStaffStep, MarkCustomerStep, CreateCustomerStep
  <2>4. CASE CheckCustomer(r) \/ FindCustomer(r) \/ FindStaff(r)
    BY <2>4, CustomerStep, FindStaffStep
  <2>5. CASE Open(r) \/ Revoke(r)
    BY <2>5, OpenStep, RevokeStep
  <2>6. CASE Break(r)
    BY <2>6, BreakStep DEF Break
  <2>7. QED
    BY <1>2, <2>1, <2>2, <2>3, <2>4, <2>5, <2>6 DEF Step
<1>3. QED
  BY <1>1, <1>2, TimeStep, HireStep DEF Next

LEMMA Invariant == Spec => []IInv
  BY IInvInit, IInvStep, PTL DEF Spec

(* Codes, accounts and sessions keep their types; only an account that exists is verified, only a code   *)
(* that was issued is entered, and none counts as used that nobody has used.                              *)
THEOREM TypeCorrect == Spec => []TypeOK
<1>1. IInv => TypeOK
  BY DEF IInv
<1>2. QED
  BY <1>1, Invariant, PTL

(* An account is verified, a customer registered and a session without a password opened only for a    *)
(* phone of which a code was entered and consumed, however flows and requests are mixed.                *)
THEOREM Proved == Spec => []AccountsProved
<1>1. IInv => AccountsProved
  BY DEF IInv, Accounts, Opened, AccountsProved
<1>2. QED
  BY <1>1, Invariant, PTL

----------------------------------------------------------------------------
(* The promise *)

Phoned == [r \in Requests |-> otp[r].phone]

OpenedNow == {<<r, session[r].of>> : r \in {q \in Requests : session[q].of # NoHolder}}

LEMMA Stutter ==
    ASSUME \A r \in Requests : otp'[r].phone = otp[r].phone,
           \A r \in Requests : session'[r].of = session[r].of,
           UNCHANGED <<usedBy, accounts>>
    PROVE  UNCHANGED Atomic!vars
<1>1. Phoned' = Phoned /\ OpenedNow' = OpenedNow
  BY DEF Phoned, OpenedNow
<1>2. QED
  BY <1>1 DEF Atomic!vars, Phoned, OpenedNow

LEMMA UsedIsProved == ASSUME IInv, NEW p, Used(p) PROVE Atomic!Proved(p)
  BY DEF Used, Atomic!Proved, IInv, TypeOK, Issued

LEMMA SignInStep == IInv /\ [Next]_vars => [~raced' => Atomic!Next]_(Atomic!vars)
<1> SUFFICES ASSUME IInv, [Next]_vars, ~raced', ~UNCHANGED Atomic!vars PROVE Atomic!Next
  OBVIOUS
<1>1. TypeOK /\ Codes
  BY DEF IInv
<1>2. ASSUME NEW r \in Requests, Issue(r) PROVE Atomic!Next
  <2> DEFINE new == [phone |-> Of(r)[1], earlier |-> Issued, used |-> "no", expired |-> FALSE]
  <2>1. /\ otp' = [otp EXCEPT ![r] = new] /\ UNCHANGED <<accounts, session, usedBy>>
        /\ At(r) = "issue" /\ Knows(r) /\ Own(r)
    BY <1>2 DEF Issue, History, IInv
  <2>2. Of(r)[1] \in Phones /\ otp[r].phone = NoPhone
    BY <2>1, HolderFacts, NoneFacts DEF Knows, Own
  <2>3. new.phone = Of(r)[1]
    OBVIOUS
  <2> HIDE DEF new
  <2>4. Phoned' = [Phoned EXCEPT ![r] = Of(r)[1]] /\ Phoned[r] = NoPhone
    BY <1>1, <2>1, <2>2, <2>3 DEF Phoned, TypeOK
  <2>5. OpenedNow' = OpenedNow
    BY <2>1 DEF OpenedNow
  <2>6. Atomic!Issue(r)
    BY <2>1, <2>2, <2>4, <2>5 DEF Atomic!Issue, Phoned, OpenedNow
  <2>7. QED
    BY <2>6 DEF Atomic!Next
<1>3. ASSUME NEW r \in Requests, Consume(r) PROVE Atomic!Next
  <2> DEFINE o == call[r].found
             row == [otp[o] EXCEPT !.used = "recent"]
  <2>1. /\ otp' = [otp EXCEPT ![o] = row] /\ usedBy' = [usedBy EXCEPT ![o] = @ \cup {r}]
        /\ UNCHANGED <<accounts, session>> /\ otp[o].used = "no"
        /\ Knows(r) /\ At(r) \in {"consumeStaff", "consumeCustomer"}
    BY <1>3 DEF Consume, IInv
  <2>2. o \in entered /\ o \in Requests /\ otp[o] # NoOtp /\ otp[o] \in Otps
    BY <1>1, <2>1 DEF Knows, TypeOK, Issued
  <2>3. otp[o].phone # NoPhone /\ usedBy[o] = {} /\ row.phone = otp[o].phone
    BY <1>1, <2>1, <2>2, AuthConstants DEF Codes, Otps
  <2> HIDE DEF row, o
  <2>4. \A q \in Requests : otp'[q].phone = otp[q].phone
    BY <1>1, <2>1, <2>2, <2>3 DEF TypeOK
  <2>5. Phoned' = Phoned /\ OpenedNow' = OpenedNow /\ Phoned[o] # NoPhone
    BY <2>1, <2>2, <2>3, <2>4 DEF Phoned, OpenedNow
  <2>6. usedBy' = [usedBy EXCEPT ![o] = {r}]
    BY <2>1, <2>3
  <2>7. Atomic!Use(r, o)
    BY <2>1, <2>3, <2>5, <2>6 DEF Atomic!Use, Phoned, OpenedNow
  <2>8. QED
    BY <2>2, <2>7 DEF Atomic!Next
<1>4. ASSUME NEW h \in Holders, accounts' = accounts \cup {h}, h[2] = NoCenter => Atomic!Proved(h[1]),
             UNCHANGED <<otp, session, usedBy>>
      PROVE  Atomic!Next
  <2>1. h \notin accounts
    BY <1>4, Stutter
  <2>2. Phoned' = Phoned /\ OpenedNow' = OpenedNow
    BY <1>4 DEF Phoned, OpenedNow
  <2>3. Atomic!Join(h)
    BY <1>4, <2>1, <2>2 DEF Atomic!Join, Phoned, OpenedNow
  <2>4. QED
    BY <2>3 DEF Atomic!Next, Atomic!Holders, Holders
<1>5. ASSUME NEW r \in Requests, CreateCustomer(r) PROVE Atomic!Next
  <2>1. /\ At(r) = "create" /\ Knows(r) /\ UNCHANGED <<otp, session, usedBy>>
    BY <1>5 DEF CreateCustomer, History, IInv
  <2>2. Customer(r) \in Holders /\ Used(Customer(r)[1])
    BY <2>1 DEF Knows
  <2>3. accounts' = accounts \cup {Customer(r)}
    BY <1>5 DEF CreateCustomer
  <2>4. QED
    BY <1>4, <2>1, <2>2, <2>3, UsedIsProved
<1>6. ASSUME NEW r \in Requests, Open(r) PROVE Atomic!Next
  <2> DEFINE row == [session[r] EXCEPT !.of = Of(r)]
  <2>1. /\ session' = [session EXCEPT ![r] = row] /\ UNCHANGED <<otp, accounts, usedBy>>
        /\ At(r) = "open" /\ Knows(r) /\ Own(r)
    BY <1>6 DEF Open, History, IInv
  <2>2. /\ Of(r) \in Holders /\ Of(r) \in accounts
        /\ Of(r) \in Passworded \/ Atomic!Proved(Of(r)[1])
    BY <2>1, UsedIsProved DEF Knows
  <2>3. session[r] \in Sessions /\ session[r].of = NoHolder /\ row.of = Of(r)
    BY <1>1, <2>1, NoneFacts DEF Own, TypeOK, Sessions
  <2> HIDE DEF row
  <2>4. session'[r].of = Of(r) /\ \A q \in Requests \ {r} : session'[q] = session[q]
    BY <1>1, <2>1, <2>3 DEF TypeOK
  <2>5. OpenedNow' = OpenedNow \cup {<<r, Of(r)>>}
    <3>1. Of(r) # NoHolder
      BY <2>2, NoneFacts
    <3>2. {q \in Requests : session'[q].of # NoHolder} = {q \in Requests : session[q].of # NoHolder} \cup {r}
      BY <2>4, <3>1
    <3>3. r \notin {q \in Requests : session[q].of # NoHolder}
      BY <2>3
    <3>4. QED
      BY <2>4, <3>2, <3>3 DEF OpenedNow
  <2>6. Phoned' = Phoned
    BY <2>1 DEF Phoned
  <2>7. PICK h \in Atomic!Holders : h = Of(r)
    BY <2>2 DEF Atomic!Holders, Holders
  <2>8. Atomic!Open(r, h)
    BY <2>1, <2>2, <2>5, <2>6, <2>7 DEF Atomic!Open, Phoned, OpenedNow
  <2>9. QED
    BY <2>8 DEF Atomic!Next
<1>7. ASSUME NEW h \in Holders, Hire(h) PROVE Atomic!Next
  BY <1>4, <1>7 DEF Hire, History
<1>8. CASE UNCHANGED <<otp, usedBy, accounts, session>>
  BY <1>8, Stutter
<1>9. ASSUME NEW r \in Requests, Revoke(r) PROVE FALSE
  <2> DEFINE s == call[r].found
             row == [session[s] EXCEPT !.revoked = TRUE]
  <2>1. /\ session' = [session EXCEPT ![s] = row] /\ UNCHANGED <<otp, usedBy, accounts>>
        /\ At(r) = "revoke" /\ Knows(r)
    BY <1>9 DEF Revoke, History, IInv
  <2>2. s \in Requests /\ session[s] \in Sessions
    BY <1>1, <2>1 DEF Knows, TypeOK
  <2>3. row.of = session[s].of
    BY <2>2 DEF Sessions
  <2> HIDE DEF row, s
  <2>4. \A q \in Requests : session'[q].of = session[q].of
    BY <1>1, <2>1, <2>2, <2>3 DEF TypeOK
  <2>5. QED
    BY <2>1, <2>4, Stutter
<1>10. ASSUME NEW o \in Requests, ExpireCode(o) \/ CloseWindow(o) PROVE FALSE
  <2>1. UNCHANGED <<usedBy, accounts, session>> /\ otp[o] \in Otps
    BY <1>1, <1>10 DEF ExpireCode, CloseWindow, History, TypeOK
  <2>2. PICK row : otp' = [otp EXCEPT ![o] = row] /\ row.phone = otp[o].phone
    <3>1. [otp[o] EXCEPT !.expired = TRUE].phone = otp[o].phone /\ [otp[o] EXCEPT !.used = "before"].phone = otp[o].phone
      BY <2>1 DEF Otps
    <3>2. CASE ExpireCode(o)
      BY <3>1, <3>2 DEF ExpireCode
    <3>3. CASE CloseWindow(o)
      BY <3>1, <3>3 DEF CloseWindow
    <3>4. QED
      BY <1>10, <3>2, <3>3
  <2>3. \A q \in Requests : otp'[q].phone = otp[q].phone
    BY <1>1, <2>2 DEF TypeOK
  <2>4. QED
    BY <2>1, <2>3, Stutter
<1>11. ASSUME NEW r \in Requests, Start(r) \/ QueueSms(r) \/ MarkStaff(r) \/ CheckCustomer(r) \/ FindCustomer(r)
                                  \/ MarkCustomer(r) \/ FindStaff(r) \/ Break(r)
       PROVE  UNCHANGED <<otp, usedBy, accounts, session>>
  BY <1>11 DEF Start, AskStaff, AskCustomer, Enter, FindUsedCode, LogInWithPassword, FindSession,
               QueueSms, MarkStaff, CheckCustomer, FindCustomer, MarkCustomer, FindStaff, Break, Store, History
<1>13. CASE UNCHANGED vars
  BY <1>8, <1>13 DEF vars
<1>14. QED
  BY <1>2, <1>3, <1>5, <1>6, <1>7, <1>8, <1>9, <1>10, <1>11, <1>13 DEF Next, Step

(* Until a code is consumed that another request has consumed since it was found, every statement is one *)
(* step of the promise or none: a code is used once, and what needs a used code has one.                  *)
THEOREM Refinement == Spec => ImplementsSignIn
  BY Invariant, SignInStep, PTL DEF Spec, ImplementsSignIn

----------------------------------------------------------------------------
(* The queue of the codes *)

\* The workers, of those f says what they do, that have m's message before them.
PendingIn(f, m) == {w \in Senders : f[w].job = m /\ f[w].at = "send"}

\* How often m has been taken.
Turns(m) == sms[m].tries + sms[m].stalls + (IF sms[m].state \in {"active", "completed"} THEN 1 ELSE 0)

\* Each time it is taken, one message leaves at most.
Paced(m) ==
    /\ sms[m].state # "failed" => sms[m].tries < MaxAttempts /\ sms[m].stalls <= MaxStalls
    /\ sms[m].tries + sms[m].stalls <= MaxAttempts + MaxStalls
    /\ left[m] + Cardinality(PendingIn(sending, m)) <= Turns(m)

Aimed == \A w \in Senders : sending[w].at # "idle" => sending[w].job \in Messages

SmsIInv == SmsTypeOK /\ Aimed /\ \A m \in Messages : Paced(m)

LEMMA SmsFacts ==
    /\ NoSms \in SmsJobs /\ NoSms.state = "none" /\ NoSms.tries = 0 /\ NoSms.stalls = 0
    /\ Resting \in Sendings /\ Resting.at = "idle"
  BY SmsConstants DEF NoSms, SmsJobs, Resting, Sendings

LEMMA PendingCount ==
    ASSUME NEW f, NEW m
    PROVE  IsFiniteSet(PendingIn(f, m)) /\ Cardinality(PendingIn(f, m)) \in Nat
<1>1. IsFiniteSet(PendingIn(f, m))
  BY SmsConstants, FS_Subset DEF PendingIn
<1>2. QED
  BY <1>1, FS_CardinalityType

LEMMA PendingLess ==
    ASSUME NEW f, NEW g, NEW m, PendingIn(g, m) \subseteq PendingIn(f, m)
    PROVE  Cardinality(PendingIn(g, m)) <= Cardinality(PendingIn(f, m))
  BY PendingCount, FS_Subset

LEMMA PendingMore ==
    ASSUME NEW f, NEW g, NEW m, NEW w, PendingIn(g, m) \subseteq PendingIn(f, m) \cup {w}
    PROVE  Cardinality(PendingIn(g, m)) <= Cardinality(PendingIn(f, m)) + 1
<1> DEFINE S == PendingIn(f, m)
<1>1. IsFiniteSet(S) /\ Cardinality(S) \in Nat
  BY PendingCount
<1>2. IsFiniteSet(S \cup {w}) /\ Cardinality(S \cup {w}) <= Cardinality(S) + 1
  <2>1. IsFiniteSet(S \cup {w})
        /\ Cardinality(S \cup {w}) = IF w \in S THEN Cardinality(S) ELSE Cardinality(S) + 1
    BY <1>1, FS_AddElement
  <2>2. QED
    BY <1>1, <2>1
<1>3. /\ Cardinality(PendingIn(g, m)) <= Cardinality(S \cup {w})
      /\ Cardinality(PendingIn(g, m)) \in Nat /\ Cardinality(S \cup {w}) \in Nat
  BY <1>2, PendingCount, FS_Subset, FS_CardinalityType
<1>4. QED
  BY <1>1, <1>2, <1>3

LEMMA PendingSent ==
    ASSUME NEW f, NEW g, NEW m, NEW w \in PendingIn(f, m), PendingIn(g, m) = PendingIn(f, m) \ {w}
    PROVE  Cardinality(PendingIn(g, m)) + 1 = Cardinality(PendingIn(f, m))
<1> DEFINE S == PendingIn(f, m)
<1>1. IsFiniteSet(S) /\ Cardinality(S) \in Nat
  BY PendingCount
<1>2. IsFiniteSet(S \ {w}) /\ Cardinality(S \ {w}) = IF w \in S THEN Cardinality(S) - 1 ELSE Cardinality(S)
  BY <1>1, FS_RemoveElement
<1>3. QED
  BY <1>1, <1>2

LEMMA SmsInitial == SmsInit => SmsIInv
<1> SUFFICES ASSUME SmsInit PROVE SmsIInv
  OBVIOUS
<1>1. SmsTypeOK /\ Aimed
  BY SmsFacts DEF SmsInit, SmsTypeOK, Aimed
<1>2. ASSUME NEW m \in Messages PROVE Paced(m)
  <2>1. PendingIn(sending, m) = {}
    BY SmsFacts DEF SmsInit, PendingIn
  <2>2. Cardinality(PendingIn(sending, m)) = 0
    BY <2>1, FS_EmptySet
  <2>3. sms[m] = NoSms /\ left[m] = 0
    BY DEF SmsInit
  <2>4. QED
    BY <2>2, <2>3, SmsFacts, SmsConstants DEF Paced, Turns
<1>3. QED
  BY <1>1, <1>2 DEF SmsIInv

\* A job that stays as it is, with no more workers about to send it.
LEMMA PacedStays ==
    ASSUME SmsIInv, NEW m \in Messages, sms'[m] = sms[m], left'[m] = left[m],
           PendingIn(sending', m) \subseteq PendingIn(sending, m)
    PROVE  Paced(m)'
<1>1. Paced(m) /\ sms[m] \in SmsJobs /\ left[m] \in Nat
  BY DEF SmsIInv, SmsTypeOK
<1>2. /\ Cardinality(PendingIn(sending', m)) <= Cardinality(PendingIn(sending, m))
      /\ Cardinality(PendingIn(sending', m)) \in Nat /\ Cardinality(PendingIn(sending, m)) \in Nat
  BY PendingLess, PendingCount
<1>3. Turns(m) \in Nat /\ Turns(m)' = Turns(m)
  BY <1>1 DEF SmsJobs, Turns
<1>4. left'[m] + Cardinality(PendingIn(sending', m)) <= Turns(m)'
  BY <1>1, <1>2, <1>3 DEF Paced
<1>5. QED
  BY <1>1, <1>4 DEF Paced

\* Only m's job becomes another one.
LEMMA SmsJobStep ==
    ASSUME SmsIInv, NEW m \in Messages, NEW job \in SmsJobs, sms' = [sms EXCEPT ![m] = job],
           UNCHANGED left, sending' \in [Senders -> Sendings], Aimed',
           \A o \in Messages \ {m} : PendingIn(sending', o) \subseteq PendingIn(sending, o),
           job.state # "failed" => job.tries < MaxAttempts /\ job.stalls <= MaxStalls,
           job.tries + job.stalls <= MaxAttempts + MaxStalls,
           left[m] + Cardinality(PendingIn(sending', m))
               <= job.tries + job.stalls + (IF job.state \in {"active", "completed"} THEN 1 ELSE 0)
    PROVE  SmsIInv'
<1>1. sms' \in [Messages -> SmsJobs] /\ sms'[m] = job /\ \A o \in Messages \ {m} : sms'[o] = sms[o]
  BY DEF SmsIInv, SmsTypeOK
<1>2. SmsTypeOK'
  BY <1>1 DEF SmsIInv, SmsTypeOK
<1>3. Paced(m)'
  BY <1>1 DEF Paced, Turns
<1>4. \A o \in Messages \ {m} : Paced(o)'
  BY <1>1, PacedStays
<1>5. QED
  BY <1>2, <1>3, <1>4 DEF SmsIInv

LEMMA RestFacts ==
    ASSUME SmsIInv, NEW w \in Senders, Rest(w)
    PROVE  /\ sending' \in [Senders -> Sendings] /\ Aimed'
           /\ \A m : PendingIn(sending', m) \subseteq PendingIn(sending, m)
<1>1. /\ sending' \in [Senders -> Sendings] /\ sending'[w] = Resting
      /\ \A v \in Senders \ {w} : sending'[v] = sending[v]
  BY SmsFacts DEF SmsIInv, SmsTypeOK, Rest
<1>2. Aimed'
  BY <1>1, SmsFacts DEF SmsIInv, Aimed
<1>3. \A m : PendingIn(sending', m) \subseteq PendingIn(sending, m)
  BY <1>1, SmsFacts DEF PendingIn
<1>4. QED
  BY <1>1, <1>2, <1>3

\* A run that ends unheard.
LEMMA RestStep ==
    ASSUME SmsIInv, NEW w \in Senders, Rest(w), UNCHANGED <<sms, left>>
    PROVE  SmsIInv'
<1>1. /\ sending' \in [Senders -> Sendings] /\ Aimed'
      /\ \A m : PendingIn(sending', m) \subseteq PendingIn(sending, m)
  BY RestFacts
<1>2. SmsTypeOK'
  BY <1>1 DEF SmsIInv, SmsTypeOK
<1>3. \A m \in Messages : Paced(m)'
  BY <1>1, PacedStays
<1>4. QED
  BY <1>1, <1>2, <1>3 DEF SmsIInv

LEMMA AddSmsStep ==
    ASSUME SmsIInv, NEW m \in Messages, AddSms(m)
    PROVE  SmsIInv'
<1> DEFINE job == [sms[m] EXCEPT !.state = "waiting"]
<1>1. /\ sms' = [sms EXCEPT ![m] = job] /\ sms[m].state = "none" /\ UNCHANGED <<sending, left>>
      /\ Paced(m) /\ sms[m] \in SmsJobs
  BY DEF AddSms, SmsIInv, SmsTypeOK
<1>2. job \in SmsJobs /\ job.state = "waiting" /\ job.tries = sms[m].tries /\ job.stalls = sms[m].stalls
  BY <1>1 DEF SmsJobs
<1> HIDE DEF job
<1>3. left[m] + Cardinality(PendingIn(sending', m)) <= job.tries + job.stalls + 0
  BY <1>1, <1>2 DEF Paced, Turns
<1>4. sending' \in [Senders -> Sendings] /\ Aimed'
  BY <1>1 DEF SmsIInv, SmsTypeOK, Aimed
<1>5. QED
  BY <1>1, <1>2, <1>3, <1>4, SmsJobStep DEF Paced

LEMMA TakeSmsStep ==
    ASSUME SmsIInv, NEW w \in Senders, NEW m \in Messages, TakeSms(w, m)
    PROVE  SmsIInv'
<1> DEFINE job == [sms[m] EXCEPT !.state = "active", !.by = w]
           turn == [job |-> m, at |-> "send"]
<1>1. /\ sms' = [sms EXCEPT ![m] = job] /\ sms[m].state = "waiting" /\ UNCHANGED left
      /\ sending[w] = Resting /\ sending' = [sending EXCEPT ![w] = turn]
      /\ Paced(m) /\ sms[m] \in SmsJobs /\ left[m] \in Nat
  BY DEF TakeSms, SmsIInv, SmsTypeOK
<1>2. job \in SmsJobs /\ job.state = "active" /\ job.tries = sms[m].tries /\ job.stalls = sms[m].stalls
  BY <1>1 DEF SmsJobs
<1>3. turn \in Sendings /\ turn.job = m /\ turn.at = "send"
  BY DEF Sendings
<1> HIDE DEF job, turn
<1>4. /\ sending' \in [Senders -> Sendings] /\ sending'[w] = turn
      /\ \A v \in Senders \ {w} : sending'[v] = sending[v]
  BY <1>1, <1>3 DEF SmsIInv, SmsTypeOK
<1>5. Aimed'
  BY <1>3, <1>4 DEF SmsIInv, Aimed
<1>6. /\ PendingIn(sending', m) \subseteq PendingIn(sending, m) \cup {w}
      /\ \A o \in Messages \ {m} : PendingIn(sending', o) \subseteq PendingIn(sending, o)
  BY <1>3, <1>4 DEF PendingIn
<1>7. left[m] + Cardinality(PendingIn(sending', m)) <= job.tries + job.stalls + 1
  <2>1. /\ Cardinality(PendingIn(sending', m)) <= Cardinality(PendingIn(sending, m)) + 1
        /\ Cardinality(PendingIn(sending', m)) \in Nat /\ Cardinality(PendingIn(sending, m)) \in Nat
    BY <1>6, PendingMore, PendingCount
  <2>2. left[m] + Cardinality(PendingIn(sending, m)) <= sms[m].tries + sms[m].stalls
        /\ sms[m].tries \in Nat /\ sms[m].stalls \in Nat
    BY <1>1 DEF Paced, Turns, SmsJobs
  <2>3. QED
    BY <1>1, <1>2, <2>1, <2>2
<1>8. QED
  BY <1>1, <1>2, <1>4, <1>5, <1>6, <1>7, SmsJobStep DEF Paced

LEMMA SendStep ==
    ASSUME SmsIInv, NEW w \in Senders, Send(w)
    PROVE  SmsIInv'
<1> DEFINE done == [sending[w] EXCEPT !.at = "sent"]
<1>2. PICK m \in Messages : sending[w].job = m
  BY DEF Send, SmsIInv, Aimed
<1>1. /\ sending[w].at = "send" /\ left' = [left EXCEPT ![m] = @ + 1] /\ UNCHANGED sms
      /\ sending' = [sending EXCEPT ![w] = done] /\ sending[w] \in Sendings
  BY <1>2 DEF Send, SmsIInv, SmsTypeOK
<1>3. done \in Sendings /\ done.job = m /\ done.at = "sent"
  BY <1>1, <1>2 DEF Sendings
<1> HIDE DEF done
<1>4. /\ sending' \in [Senders -> Sendings] /\ sending'[w] = done
      /\ \A v \in Senders \ {w} : sending'[v] = sending[v]
  BY <1>1, <1>3 DEF SmsIInv, SmsTypeOK
<1>5. left' \in [Messages -> Nat] /\ left'[m] = left[m] + 1 /\ \A o \in Messages \ {m} : left'[o] = left[o]
  BY <1>1, <1>2 DEF SmsIInv, SmsTypeOK
<1>6. SmsTypeOK' /\ Aimed'
  BY <1>1, <1>2, <1>3, <1>4, <1>5 DEF SmsIInv, SmsTypeOK, Aimed
<1>7. Paced(m)'
  <2>1. w \in PendingIn(sending, m) /\ PendingIn(sending', m) = PendingIn(sending, m) \ {w}
    BY <1>1, <1>2, <1>3, <1>4 DEF PendingIn
  <2>2. /\ Cardinality(PendingIn(sending', m)) + 1 = Cardinality(PendingIn(sending, m))
        /\ Cardinality(PendingIn(sending', m)) \in Nat /\ Cardinality(PendingIn(sending, m)) \in Nat
    BY <2>1, PendingSent, PendingCount
  <2>3. Paced(m) /\ sms[m] \in SmsJobs /\ left[m] \in Nat
    BY <1>2 DEF SmsIInv, SmsTypeOK
  <2>4. Turns(m) \in Nat /\ Turns(m)' = Turns(m)
    BY <1>1, <2>3 DEF SmsJobs, Turns
  <2>5. left'[m] + Cardinality(PendingIn(sending', m)) <= Turns(m)'
    BY <1>5, <2>2, <2>3, <2>4 DEF Paced
  <2>6. QED
    BY <1>1, <2>3, <2>5 DEF Paced
<1>8. ASSUME NEW o \in Messages \ {m} PROVE Paced(o)'
  <2>1. PendingIn(sending', o) \subseteq PendingIn(sending, o)
    BY <1>3, <1>4 DEF PendingIn
  <2>2. QED
    BY <1>1, <1>5, <2>1, PacedStays
<1>9. QED
  BY <1>6, <1>7, <1>8 DEF SmsIInv

\* A run that ends, heard: its job is active and its own.
LEMMA CompleteSmsStep ==
    ASSUME SmsIInv, NEW w \in Senders, CompleteSms(w)
    PROVE  SmsIInv'
<1> DEFINE m == sending[w].job
           job == [sms[m] EXCEPT !.state = "completed"]
<1>1. Rest(w) /\ UNCHANGED left /\ sending[w].at = "sent"
  BY DEF CompleteSms
<1>2. CASE ~Holds(w)
  BY <1>1, <1>2, RestStep DEF CompleteSms
<1>3. CASE Holds(w)
  <2>1. m \in Messages /\ sms' = [sms EXCEPT ![m] = job] /\ sms[m].state = "active"
    BY <1>1, <1>3 DEF CompleteSms, Holds, SmsIInv, Aimed
  <2>2. Paced(m) /\ sms[m] \in SmsJobs /\ left[m] \in Nat
    BY <2>1 DEF SmsIInv, SmsTypeOK
  <2>3. job \in SmsJobs /\ job.state = "completed" /\ job.tries = sms[m].tries /\ job.stalls = sms[m].stalls
    BY <2>2 DEF SmsJobs
  <2> HIDE DEF job, m
  <2>4. /\ sending' \in [Senders -> Sendings] /\ Aimed'
        /\ \A o : PendingIn(sending', o) \subseteq PendingIn(sending, o)
    BY <1>1, RestFacts
  <2>5. left[m] + Cardinality(PendingIn(sending', m)) <= job.tries + job.stalls + 1
    <3>1. /\ Cardinality(PendingIn(sending', m)) <= Cardinality(PendingIn(sending, m))
          /\ Cardinality(PendingIn(sending', m)) \in Nat /\ Cardinality(PendingIn(sending, m)) \in Nat
      BY <2>4, PendingLess, PendingCount
    <3>2. QED
      BY <2>1, <2>2, <2>3, <3>1 DEF Paced, Turns, SmsJobs
  <2>6. QED
    BY <1>1, <2>1, <2>2, <2>3, <2>4, <2>5, SmsJobStep DEF Paced
<1>4. QED
  BY <1>2, <1>3

LEMMA RejectSmsStep ==
    ASSUME SmsIInv, NEW w \in Senders, RejectSms(w)
    PROVE  SmsIInv'
<1> DEFINE m == sending[w].job
           to == IF sms[m].tries + 1 < MaxAttempts THEN "waiting" ELSE "failed"
           job == [sms[m] EXCEPT !.state = to, !.by = Nothing, !.tries = @ + 1]
<1>1. Rest(w) /\ UNCHANGED left /\ sending[w].at \in {"send", "sent"}
  BY DEF RejectSms
<1>2. CASE ~Holds(w)
  BY <1>1, <1>2, RestStep DEF RejectSms
<1>3. CASE Holds(w)
  <2>1. m \in Messages /\ sms' = [sms EXCEPT ![m] = job] /\ sms[m].state = "active"
    BY <1>1, <1>3 DEF RejectSms, Holds, SmsIInv, Aimed
  <2>2. Paced(m) /\ sms[m] \in SmsJobs /\ left[m] \in Nat
    BY <2>1 DEF SmsIInv, SmsTypeOK
  <2>3. sms[m].tries < MaxAttempts /\ sms[m].stalls <= MaxStalls /\ sms[m].tries \in Nat /\ sms[m].stalls \in Nat
        /\ MaxAttempts \in Nat /\ MaxStalls \in Nat
    BY <2>1, <2>2, SmsConstants DEF Paced, SmsJobs
  <2>4. job \in SmsJobs /\ job.state = to /\ job.tries = sms[m].tries + 1 /\ job.stalls = sms[m].stalls
    <3>1. sms[m].tries + 1 \in 0..MaxAttempts /\ to \in {"waiting", "failed"}
      BY <2>3
    <3> HIDE DEF to
    <3>2. QED
      BY <2>2, <3>1 DEF SmsJobs
  <2>5. to = "waiting" => sms[m].tries + 1 < MaxAttempts
    OBVIOUS
  <2>6. to \in {"waiting", "failed"}
    OBVIOUS
  <2> HIDE DEF job, m, to
  <2>7. /\ sending' \in [Senders -> Sendings] /\ Aimed'
        /\ \A o : PendingIn(sending', o) \subseteq PendingIn(sending, o)
    BY <1>1, RestFacts
  <2>8. left[m] + Cardinality(PendingIn(sending', m)) <= job.tries + job.stalls + 0
    <3>1. /\ Cardinality(PendingIn(sending', m)) <= Cardinality(PendingIn(sending, m))
          /\ Cardinality(PendingIn(sending', m)) \in Nat /\ Cardinality(PendingIn(sending, m)) \in Nat
      BY <2>7, PendingLess, PendingCount
    <3>2. QED
      BY <2>1, <2>2, <2>3, <2>4, <3>1 DEF Paced, Turns
  <2>9. job.tries + job.stalls <= MaxAttempts + MaxStalls
    BY <2>3, <2>4
  <2>10. job.state # "failed" => job.tries < MaxAttempts /\ job.stalls <= MaxStalls
    BY <2>3, <2>4, <2>5, <2>6
  <2>11. job.state \notin {"active", "completed"}
    BY <2>4, <2>6
  <2>12. QED
    BY <1>1, <2>1, <2>4, <2>7, <2>8, <2>9, <2>10, <2>11, SmsJobStep
<1>4. QED
  BY <1>2, <1>3

LEMMA StallSmsStep ==
    ASSUME SmsIInv, NEW m \in Messages, StallSms(m)
    PROVE  SmsIInv'
<1> DEFINE to == IF sms[m].stalls < MaxStalls THEN "waiting" ELSE "failed"
           job == [sms[m] EXCEPT !.state = to, !.by = Nothing, !.stalls = @ + 1]
<1>1. /\ sms' = [sms EXCEPT ![m] = job] /\ sms[m].state = "active" /\ UNCHANGED <<sending, left>>
      /\ Paced(m) /\ sms[m] \in SmsJobs /\ left[m] \in Nat
  BY DEF StallSms, SmsIInv, SmsTypeOK
<1>2. sms[m].tries < MaxAttempts /\ sms[m].stalls <= MaxStalls /\ sms[m].tries \in Nat /\ sms[m].stalls \in Nat
      /\ MaxAttempts \in Nat /\ MaxStalls \in Nat
  BY <1>1, SmsConstants DEF Paced, SmsJobs
<1>3. job \in SmsJobs /\ job.state = to /\ job.tries = sms[m].tries /\ job.stalls = sms[m].stalls + 1
  <2>1. sms[m].stalls + 1 \in 0..(MaxStalls + 1) /\ to \in {"waiting", "failed"}
    BY <1>2
  <2> HIDE DEF to
  <2>2. QED
    BY <1>1, <2>1 DEF SmsJobs
<1>4. (to = "waiting" => sms[m].stalls + 1 <= MaxStalls) /\ to \in {"waiting", "failed"}
  BY <1>2
<1> HIDE DEF job, to
<1>5. left[m] + Cardinality(PendingIn(sending', m)) <= job.tries + job.stalls + 0
  <2>1. Cardinality(PendingIn(sending', m)) = Cardinality(PendingIn(sending, m))
        /\ Cardinality(PendingIn(sending, m)) \in Nat
    BY <1>1, PendingCount
  <2>2. QED
    BY <1>1, <1>2, <1>3, <2>1 DEF Paced, Turns
<1>6. sending' \in [Senders -> Sendings] /\ Aimed'
  BY <1>1 DEF SmsIInv, SmsTypeOK, Aimed
<1>7. job.tries + job.stalls <= MaxAttempts + MaxStalls
  BY <1>2, <1>3
<1>8. job.state # "failed" => job.tries < MaxAttempts /\ job.stalls <= MaxStalls
  BY <1>2, <1>3, <1>4
<1>9. job.state \notin {"active", "completed"}
  BY <1>3, <1>4
<1>10. QED
  BY <1>1, <1>3, <1>5, <1>6, <1>7, <1>8, <1>9, SmsJobStep

LEMMA SmsStep == SmsIInv /\ [SmsNext]_smsVars => SmsIInv'
<1> SUFFICES ASSUME SmsIInv, [SmsNext]_smsVars PROVE SmsIInv'
  OBVIOUS
<1>1. CASE UNCHANGED smsVars
  <2>1. SmsTypeOK' /\ Aimed'
    BY <1>1 DEF smsVars, SmsIInv, SmsTypeOK, Aimed
  <2>2. \A m \in Messages : Paced(m)'
    BY <1>1, PacedStays DEF smsVars
  <2>3. QED
    BY <2>1, <2>2 DEF SmsIInv
<1>2. ASSUME NEW m \in Messages, AddSms(m) \/ StallSms(m) PROVE SmsIInv'
  BY <1>2, AddSmsStep, StallSmsStep
<1>3. ASSUME NEW w \in Senders, SmsWork(w) \/ CrashSms(w) PROVE SmsIInv'
  BY <1>3, TakeSmsStep, SendStep, CompleteSmsStep, RejectSmsStep, RestStep DEF SmsWork, CrashSms
<1>4. QED
  BY <1>1, <1>2, <1>3 DEF SmsNext

(* However attempts fail, processes die and jobs stall, a slow worker sending beside the new one, a job *)
(* leaves in at most as many messages as it has attempts and stalls.                                    *)
THEOREM Bounded == SmsSpec => []MessagesBounded
<1>1. SmsIInv => MessagesBounded
  <2> SUFFICES ASSUME SmsIInv, NEW m \in Messages PROVE left[m] <= MaxAttempts + MaxStalls
    BY DEF MessagesBounded
  <2>1. Paced(m) /\ sms[m] \in SmsJobs /\ left[m] \in Nat /\ Cardinality(PendingIn(sending, m)) \in Nat
    BY PendingCount DEF SmsIInv, SmsTypeOK
  <2>2. /\ sms[m].state \in {"none", "waiting", "active", "completed", "failed"}
        /\ sms[m].tries \in Nat /\ sms[m].stalls \in Nat /\ MaxAttempts \in Nat /\ MaxStalls \in Nat
    BY <2>1, SmsConstants DEF SmsJobs
  <2>3. QED
    BY <2>1, <2>2 DEF Paced, Turns
<1>2. QED
  BY <1>1, SmsInitial, SmsStep, PTL DEF SmsSpec

=============================================================================
