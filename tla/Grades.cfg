\* Three tasks of one learner, two problems in two subsections; one of them may
\* fail, die or be refused.
CONSTANTS
    p1 = p1
    p2 = p2
    s1 = s1
    s2 = s2
    r1 = r1
    r2 = r2
    r3 = r3
    Course = Course
    Problems = {p1, p2}
    Sections = {s1, s2}
    SectionOf <- Apart
    Requests = {r1, r2, r3}
    Wishes <- Mixed
    MaxRetries = 1
    Workers = 2
    PassMark = 2
    MaxTrouble = 1
SPECIFICATION FairSpec
INVARIANT PassedOnce
PROPERTIES HigherHolds GradesSettle
CHECK_DEADLOCK FALSE
