SPECIFICATION MCSpec
CONSTANTS
    Requests = {r1, r2}
    Codes = {c1, c2}
    Tokens = {t1, t2}
    Threshold = 1
    MaxFailures = 5
    MaxLost = 1
    Orgs = {o1, o2}
    Users = {u1, u2}
SYMMETRY Symmetry
INVARIANTS
    PartTypeOK
    LockBound 
    OwnersAreMembers
PROPERTIES LostInvitationIsFinal 
CHECK_DEADLOCK FALSE
