\* One delivery of the parent; recipients enroll and leave around its two queries,
\* and a query, a save or a message may fail: ids, batches and the end.
CONSTANTS
    e1 = e1
    e2 = e2
    r1 = r1
    r2 = r2
    r3 = r3
    r4 = r4
    Executions = {e1}
    First = e1
    Overlap = FALSE
    Recipients = {r1, r2, r3, r4}
    Listed = {r1, r2, r3}
    PerTask = 2
    Faults <- Changing
SPECIFICATION FairSpec
INVARIANTS IdsSuffice ChunksAsCounted
PROPERTY Settles
CHECK_DEADLOCK FALSE
