\* A request in a transaction with one bulk operation and a task with two; either
\* may die, and a write to MongoDB may fail.
CONSTANTS
    w1 = w1
    w2 = w2
    Origin = Origin
    NoIndex = NoIndex
    Unread = Unread
    Writers = {w1, w2}
    Atomic = {w1}
    MaxBulks <- BulksOf
    MaxMade = 2
    Faults = {"crash", "mongo"}
SPECIFICATION Spec
INVARIANTS PointersAreStored NothingLost PublishedWasDraft MirrorAgrees PublishIsAnnounced
CHECK_DEADLOCK FALSE
