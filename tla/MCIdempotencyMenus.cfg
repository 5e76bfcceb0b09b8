\* Three requests with one key, every outcome, crashes and expiry; or three
\* requests about two menus and three items.
CONSTANTS
    Requests = {r1, r2, r3}
    NoRequest = NoRequest
    Payloads = {p1, p2}
    NoPayload = NoPayload
    Outcomes = {"2xx", "3xx", "4xx", "5xx"}
    MaxInFlight = 3
    i1 = i1
    i2 = i2
    i3 = i3
    Callers = {c1, c2, c3}
    MenuLocations = {"HEADER", "FOOTER"}
    Items = {i1, i2, i3}
    NoItem = NoItem
    Edits <- MCEdits
    Seeded <- MCSeeded
SPECIFICATION BothSpec
CHECK_DEADLOCK FALSE
INVARIANTS
    TypeOK
    ExclusiveUnlessStolen
    ReplayUnlessStolen
    ShownUnlessTurned
PROPERTIES
    ImplementsOnceOnly
    KeyIsReleased
    DeletedStaysUnlessStale
