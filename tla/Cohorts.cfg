\* Two views and a task, which ask for, change and preassign the cohort of one
\* learner; both cohorts are random.
CONSTANTS
    c1 = c1
    c2 = c2
    r1 = r1
    r2 = r2
    r3 = r3
    Nobody = Nobody
    NoRow = NoRow
    Cohorts = {c1, c2}
    Random = {c1, c2}
    Requests = {r1, r2, r3}
    Atomic = {r1, r2}
SPECIFICATION FairSpec
INVARIANTS TablesAgree AnswerHolds
PROPERTIES PreassignedFirst RequestsEnd
CHECK_DEADLOCK FALSE
