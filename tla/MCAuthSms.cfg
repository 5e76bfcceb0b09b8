\* Four requests about two phones, one of them of a member of the staff; or two
\* jobs of the SMS queue and two workers.
CONSTANTS
    p1 = p1
    p2 = p2
    c1 = c1
    Requests = {r1, r2, r3, r4}
    Phones = {p1, p2}
    NoPhone = NoPhone
    Centers = {c1}
    NoCenter = NoCenter
    NoCode = NoCode
    Seeded <- MCSeeded
    Passworded <- MCPassworded
    MaxCodes = 2
    Messages = {j1, j2}
    Senders = {x1, x2}
    Nothing = Nothing
    MaxAttempts = 3
    MaxStalls = 1
SYMMETRY Symmetry
SPECIFICATION BothSpec
CHECK_DEADLOCK FALSE
INVARIANTS
    TypeOK
    AccountsProved
    MessagesBounded
PROPERTIES
    ImplementsSignIn
    CodeIsSentOrGivenUp
