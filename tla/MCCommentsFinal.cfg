\* A deleted comment, and requests of an author and a moderator who take turns.
CONSTANTS
    c1 = c1
    c2 = c2
    c3 = c3
    u1 = u1
    u2 = u2
    p1 = p1
    hello = hello
    shout = shout
    Comments = {c1, c2, c3}
    NoComment = NoComment
    Users = {u1, u2}
    Moderators = {u2}
    Posts = {p1}
    Texts = {hello, shout}
    NoText = NoText
    Normal <- MCNormal
    Requests = {r1, r2, r3}
    Limit = 1
    MaxDepth = 1
    Judgements = {"APPROVED", "REJECTED", "DELETED"}
    Tables <- MCTables
SPECIFICATION SpecInTurn
CHECK_DEADLOCK FALSE
SYMMETRY Symmetry
PROPERTY
    DeletedIsFinal
