SPECIFICATION FairSpec
CONSTANTS
    a1 = a1  c1 = c1  c2 = c2
    Applications <- OneApplication
    Conditions <- TwoConditions
    Owner <- OwnerOfBoth
    MaxFaults = 2
INVARIANTS TypeOK LoanNeedsOfferAndCondition
PROPERTIES LoansAreGeneratedOnce CompletedGetsLoan
