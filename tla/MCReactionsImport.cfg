\* Two users with four toggles, two of which may be in flight for the same user;
\* or three runs of the import over each of seven exports, while the application
\* changes rows.
CONSTANTS
    Users = {u1, u2}
    NoUser = NoUser
    Types = {like, love}
    NoType = NoType
    Toggles = {t1, t2, t3, t4}
    NoToggle = NoToggle
    Exports <- MCExports
    NoPhone = "0000000000"
    Others <- MCOthers
    MaxRuns = 3
SPECIFICATION BothSpec
CHECK_DEADLOCK FALSE
INVARIANTS
    TypeOK
    CountsMatchUnlessStale
PROPERTIES
    ImplementsVotes
    ToggleEnds
    
    RerunsAgree
