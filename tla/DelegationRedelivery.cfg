\* The parent is delivered again, alongside its first run or after it, and each
\* step may fail: the batches are defined once and no report is lost unless a
\* save writes over a row it has not read.
CONSTANTS
    e1 = e1
    e2 = e2
    r1 = r1
    r2 = r2
    r3 = r3
    r4 = r4
    Executions = {e1, e2}
    First = e1
    Overlap = TRUE
    Recipients = {r1, r2, r3}
    Listed = {r1, r2, r3}
    PerTask = 2
    Faults <- Redelivery
SPECIFICATION Spec
INVARIANTS OpenAreKnown MailedOnce SuccessIsComplete
PROPERTY ReportsAreKept
SYMMETRY Symmetry3
CHECK_DEADLOCK FALSE
