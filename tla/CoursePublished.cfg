\* Two editors, each with one change or publication, and two collecting workers.
CONSTANTS
    w1 = w1
    w2 = w2
    k1 = k1
    k2 = k2
    Origin = Origin
    NoIndex = NoIndex
    Unread = Unread
    NoVersion = NoVersion
    Writers = {w1, w2}
    Atomic = {}
    MaxBulks <- OneBulk
    MaxMade = 1
    Faults = {}
    Workers = {k1, k2}
    MaxReads = 2
SPECIFICATION FairAll
INVARIANT ServedIsCurrent
PROPERTY PublishedIsServed
CHECK_DEADLOCK FALSE
