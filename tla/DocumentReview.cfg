SPECIFICATION MCSpec
CONSTANTS
    m1 = m1  c1 = c1  d1 = d1  d2 = d2  r1 = r1  r2 = r2
    MortgageTypes <- OneMortgage
    ConditionTypes <- OneCondition
    EntryIds <- TwoDocs
    Requests <- TwoRequests
    MaxApprovals = 2
    MaxOffers = 2
    MaxConditions = 2
INVARIANTS
    TypeOK
    StageUntilAgain
PROPERTIES
    OverfullIsFinal
     
