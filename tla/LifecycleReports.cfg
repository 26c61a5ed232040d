\* Two requests for the same report, with every fault: reservations, operators
\* and status polls.
CONSTANTS
    t1 = t1
    t2 = t2
    w1 = w1
    w2 = w2
    d1 = d1
    d2 = d2
    Tasks = {t1, t2}
    Later = {}
    Workers = {w1, w2}
    Editors = {}
    Delegates = FALSE
    MaxPublished = 1
    Faults <- Everything
    MaxKinds = 7
SPECIFICATION Spec
INVARIANT OneAtATime
 
SYMMETRY Symmetry
CHECK_DEADLOCK FALSE
