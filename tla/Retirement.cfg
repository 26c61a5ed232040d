\* One learner who may request retirement twice and cancel, runs of the driver
\* without end, and one failure, lost answer, killed script or forced state.
CONSTANTS
    d1 = d1
    r1 = r1
    NoRow = NoRow
    Unread = Unread
    Operator = Operator
    Drivers = {d1}
    Reporters = {r1}
    Steps = 2
    PartnerStep = 1
    MaxRequests = 2
    MaxTrouble = 1
SPECIFICATION FairSpec
INVARIANTS RetiredInFull CancelledIsLeftAlone RetiredIsRecorded PartnersAreTold
PROPERTY LandsInTheEnd
CHECK_DEADLOCK FALSE
