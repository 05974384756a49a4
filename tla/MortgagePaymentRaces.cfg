SPECIFICATION Spec
CONSTANTS
    p1 = p1  p2 = p2  r1 = r1  r2 = r2  w1 = w1  w2 = w2
    Kinds <- DipFee
    PaymentIds <- TwoPayments
    Requests <- TwoRequests
    Deliveries <- TwoDeliveries
    MaxReferences = 4
    MaxConditions = 0
    MaxFaults = 1
INVARIANTS SuccessWasCharged ProgressWasPaid
CHECK_DEADLOCK FALSE
SYMMETRY Symmetric
