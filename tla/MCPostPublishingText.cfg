\* The promise that a replaced text is kept, with handlers that take turns.
CONSTANTS
    Editors = {e1, e2, e3}
    Workers = {w1, w2}
    c1 = c1
    c2 = c2
    Blank = Blank
    Contents = {c1, c2, Blank}
    NoContent = NoContent
    Edits <- MCEdits
    MaxTime = 3
SPECIFICATION SpecInTurn
CHECK_DEADLOCK FALSE
INVARIANT
    EveryTextKept
