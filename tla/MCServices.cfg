SPECIFICATION MCSpec
CONSTANTS
    c1 = c1
    c2 = c2
    h1 = h1
    h2 = h2
    k1 = k1
    k2 = k2
    q1 = q1
    q2 = q2
    x1 = x1
    x2 = x2
    l1 = l1
    l2 = l2
    r1 = r1
    a1 = a1
    a2 = a2
    f1 = f1
    f2 = f2
    top = top
    sub = sub
    doc = doc
    link = link
    old = old
    new = new
    None = None
    MaxEvents = 4
    Bound <- MCBound
    Conns = {c1}
    Hosts = {h1, h2}
    Keys = {k1, k2}
    Rels = {x1}
    Reqs = {q1, q2}
    Loggers = {l1, l2}
    Readers = {r1}
    Shown = 2
    Kept = 2
    MaxClock = 4
    Appliers = {a1, a2}
    Latest = 2
    Blocks = 2
    MaxScripts = 2
    Watched = {f1, f2}
    Debounce = 2
    MaxWait = 3
    OutSize = 1
    Slowest = 1
    Names = {doc, link}
    Links = {link}
    Legacy = {doc}
    Contents = {old, new}
    Roots = {top, sub}
    Under <- MCUnder
INVARIANTS
    TypeOK
    RefusalsExplained
    RelationshipsResolve
    ProgressEnds
    LoggedIsListed
    QuietPathWaits
    RecordsHonest
PROPERTIES
    TokenRecovers
    DeletedLeavesHealth
    InstalledIsVerified
    UpdateTakesEffect
    LatestKindDelivered
    ListenerReturns
    DeletesAreOfThisRoot
    EntriesArrive
    MigrationEnds
CHECK_DEADLOCK FALSE
