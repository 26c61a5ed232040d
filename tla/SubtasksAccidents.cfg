\* One subtask, two workers; every accident may happen once.
CONSTANTS
    s1 = s1
    s2 = s2
    r1 = r1
    r2 = r2
    r3 = r3
    p1 = p1
    p2 = p2
    w1 = w1
    w2 = w2
    Subtasks = {s1}
    Workers = {w1, w2}
    Recipients = {r1, r2}
    Person <- OnePerson
    Chunk <- PairChunk
    MaxRetries = 1
    RetryCap = 0
    MaxDbRetries = 2
    Faults <- Accidents
SPECIFICATION Spec
INVARIANTS CleanMutualExclusion CleanDeliveredOnce CleanCounters
SYMMETRY Symmetry
PROPERTIES CleanReadyIsFinal
CHECK_DEADLOCK FALSE
