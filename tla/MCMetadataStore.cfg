SPECIFICATION Spec
CONSTANTS
    f1 = f1
    f2 = f2
    f3 = f3
    a = a
    b = b
    b1 = b1
    b2 = b2
    None = None
    Files = {f1, f2, f3}
    Records = {a, b}
    Buckets = {b1, b2}
    BucketOf <- MCBucketOf
    Overlap = FALSE
    MaxMoves = 2
    MaxFaults = 1
INVARIANTS
    TypeOK
    RemovedStaysRemoved
    ReadsAgree
    StartsFromScratch
PROPERTY
    ActsAsOneMap
