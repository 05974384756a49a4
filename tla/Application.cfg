SPECIFICATION MCSpec
CONSTANTS
    Requests = {r1, r2}
    Inspections = {i1, i2, i3}
    PoolSize = 2
    Reviews = {v1, v2}
    Closings = {c1, c2}
    MaxFaults = 1
    Officers = {o1, o2}
    Assignments = {a1, a2, a3}
INVARIANTS
    PartTypeOK
    BookingBound
    LetterIsReviewed AtOneStage ClosingHasEscrow
    PaidWasAnswered StageUntilRepeated
    OneOfficer
PROPERTIES RequestsEnd ReofferNeedsRefusal
CHECK_DEADLOCK FALSE
