SPECIFICATION FairSpec
CONSTANTS
    e1 = e1  r1 = r1  r2 = r2
    Eligibilities <- OneEligibility
    Requests <- TwoRequests
    MaxDecisions = 3
    MaxFaults = 1
    MaxApplications = 2
INVARIANTS TypeOK NoMoreDipsThanApprovals DipHasApplication
PROPERTIES WorkerImplementsGenerateOnce ApprovedGetsDip JobsDrain
