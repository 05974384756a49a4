-------------------------- MODULE DipGenerationMC --------------------------
(* Model-checking instances of DipGeneration.                              *)
EXTENDS DipGeneration

CONSTANTS e1, r1, r2

OneEligibility == {e1}
TwoRequests    == {r1, r2}

=============================================================================
