\* Two editors and two workers racing over one post.
CONSTANTS
    Editors = {e1, e2, e3}
    Workers = {w1, w2}
    c1 = c1
    c2 = c2
    Blank = Blank
    Contents = {c1, c2, Blank}
    NoContent = NoContent
    Edits <- MCEdits
    MaxTime = 3
SPECIFICATION FairSpec
CHECK_DEADLOCK FALSE
INVARIANTS
    TypeOK
    ScheduledHasDateUnlessStale
    TextKeptUnlessBlanked
    AnnouncedOnceUnlessStale
PROPERTIES
    ImplementsLifecycle
    ScheduledLeaves
