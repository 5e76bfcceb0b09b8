\* The promise that a scheduled post has a date, with editors and jobs racing.
CONSTANTS
    Editors = {e1, e2, e3}
    Workers = {w1, w2}
    c1 = c1
    c2 = c2
    Blank = Blank
    Contents = {c1, c2, Blank}
    NoContent = NoContent
    Edits <- MCEdits
    MaxTime = 3
SPECIFICATION Spec
CHECK_DEADLOCK FALSE
INVARIANT
    ScheduledHasDate
