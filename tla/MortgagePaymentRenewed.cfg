SPECIFICATION FairSpec
CONSTANTS
    p1 = p1  p2 = p2  r1 = r1  r2 = r2  w1 = w1  w2 = w2
    Kinds <- DipFee
    PaymentIds <- OnePayment
    Requests <- OneRequest
    Deliveries <- OneDelivery
    MaxReferences = 3
    MaxConditions = 0
    MaxFaults = 0
PROPERTIES NoFurtherAction
CHECK_DEADLOCK FALSE
