SPECIFICATION Spec
CONSTANTS
    e1 = e1  r1 = r1  r2 = r2
    Eligibilities <- OneEligibility
    Requests <- TwoRequests
    MaxDecisions = 2
    MaxFaults = 0
    MaxApplications = 1
INVARIANTS OneDipPerEligibility
