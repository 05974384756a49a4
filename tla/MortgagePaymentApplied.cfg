SPECIFICATION FairSpec
CONSTANTS
    p1 = p1  p2 = p2  r1 = r1  r2 = r2  w1 = w1  w2 = w2
    Kinds <- DecisionFees
    PaymentIds <- TwoPayments
    Requests <- OneRequest
    Deliveries <- OneDelivery
    MaxReferences = 4
    MaxConditions = 4
    MaxFaults = 1
INVARIANTS ChargedOnce StageLossIsTemporary
PROPERTIES ChargeIsApplied
CHECK_DEADLOCK FALSE
