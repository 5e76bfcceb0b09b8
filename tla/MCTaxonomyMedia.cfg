\* Three requests about three categories and a tag; or two texts of one post after
\* each other, and two workers.
CONSTANTS
    c1 = c1
    c2 = c2
    c3 = c3
    t1 = t1
    s1 = s1
    s2 = s2
    s3 = s3
    Requests = {r1, r2, r3}
    Items = {c1, c2, c3, t1}
    Categories = {c1, c2, c3}
    Slugs = {s1, s2, s3}
    NoSlug = NoSlug
    NoItem = NoItem
    Seeded <- MCSeeded
    Edits <- MCEdits
    m1 = m1
    m2 = m2
    m3 = m3
    k1 = k1
    k2 = k2
    home = home
    away = away
    Editors = {d1, d2}
    Workers = {w1, w2}
    Nobody = Nobody
    Texts <- MCTexts
    Library <- MCLibrary
    Home = home
    Attempts = 2
    Stalls = 1
SPECIFICATION BothSpec
CHECK_DEADLOCK FALSE
INVARIANTS
    TypeOK
    AcyclicUnlessTurned
    SyncTypeOK
    AttachedFollowUnlessOverlapped
PROPERTIES
    ImplementsCatalogue
    Converges
