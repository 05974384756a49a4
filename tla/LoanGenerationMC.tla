------------------------- MODULE LoanGenerationMC ---------------------------
(* Model-checking instances of LoanGeneration.                             *)
EXTENDS LoanGeneration

CONSTANTS a1, c1, c2

OneApplication == {a1}
OneCondition   == {c1}
TwoConditions  == {c1, c2}

OwnerOfOne  == [c \in {c1} |-> a1]
OwnerOfBoth == [c \in {c1, c2} |-> a1]

=============================================================================
