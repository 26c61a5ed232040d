\* Two subtasks of one task, no redelivery and no crash: the task implements FanOut.
CONSTANTS
    s1 = s1
    s2 = s2
    r1 = r1
    r2 = r2
    r3 = r3
    p1 = p1
    p2 = p2
    w1 = w1
    w2 = w2
    Subtasks = {s1, s2}
    Workers = {w1, w2}
    Recipients = {r1, r2, r3}
    Person <- TwoPersons
    Chunk <- TwoChunks
    MaxRetries = 1
    RetryCap = 1
    MaxDbRetries = 2
    Faults <- Transient
SPECIFICATION FairSpec
INVARIANT CleanReport
PROPERTIES RetriesCountedApart ImplementsFanOut
CHECK_DEADLOCK FALSE
