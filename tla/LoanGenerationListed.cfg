SPECIFICATION Spec
CONSTANTS
    a1 = a1  c1 = c1  c2 = c2
    Applications <- OneApplication
    Conditions <- OneCondition
    Owner <- OwnerOfOne
    MaxFaults = 0
PROPERTIES CronListsWithoutLoan
