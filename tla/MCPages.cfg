\* Two requests in flight together over each of six trees.
CONSTANTS
    p1 = p1
    p2 = p2
    p3 = p3
    p4 = p4
    home = home
    away = away
    a = a
    b = b
    c = c
    Pages = {p1, p2, p3, p4}
    Tenant <- MCTenant
    NoPage = NoPage
    Names = {a, b, c}
    Slugs <- MCSlugs
    Keep = Keep
    Requests = {e1, e2}
    Edits <- MCEdits
    Trees <- MCTrees
    MaxPath = 4
SPECIFICATION FairSpec
CHECK_DEADLOCK FALSE
INVARIANTS
    TypeOK
    ForestUnlessRaced
    PathsFollowUnlessRaced
PROPERTIES
    ImplementsTree
    RequestEnds
