\* One scheduled email, which an editor may cancel or postpone again and again
\* while the command looks for schedules that are due; refused and redelivered
\* messages, a schedule that cannot be stored and a revoked task, two of them in
\* one behaviour.
CONSTANTS
    t1 = t1
    t2 = t2
    w1 = w1
    w2 = w2
    d1 = d1
    d2 = d2
    Tasks = {t2}
    Later = {t2}
    Workers = {w1, w2}
    Editors = {d1}
    Delegates = TRUE
    MaxPublished = 2
    Faults <- Recoverable
    MaxKinds = 2
SPECIFICATION FairSpec
INVARIANTS EditsAreObeyed SubmittedOnce SuccessIsOver
PROPERTY AllSettle
CHECK_DEADLOCK FALSE
