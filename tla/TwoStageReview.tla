--------------------------- MODULE TwoStageReview ---------------------------
(***************************************************************************)
(* What the review of a group of documents promises: HSF reviews first,    *)
(* the lender second, and a stage ends only when its reviewer has approved *)
(* a document of every type of the group.                                  *)
(***************************************************************************)
CONSTANT Types          \* the document types of the group

Reviewers == {"hsf", "lender"}

VARIABLES
    phase,      \* who reviews: "hsf", then "lender", then "done"
    approved    \* <<type, reviewer>> of the approvals given so far

vars == <<phase, approved>>

Init ==
    /\ phase = "hsf"
    /\ approved = {}

Approve(t, reviewer) ==
    /\ reviewer = "lender" => phase # "hsf"
    /\ approved' = approved \cup {<<t, reviewer>>}
    /\ UNCHANGED phase

AllApprovedBy(reviewer) == \A t \in Types : <<t, reviewer>> \in approved

HsfCompletes ==
    /\ phase = "hsf"
    /\ AllApprovedBy("hsf")
    /\ phase' = "lender"
    /\ UNCHANGED approved

LenderCompletes ==
    /\ phase = "lender"
    /\ AllApprovedBy("lender")
    /\ phase' = "done"
    /\ UNCHANGED approved

Next ==
    \/ \E t \in Types, reviewer \in Reviewers : Approve(t, reviewer)
    \/ HsfCompletes
    \/ LenderCompletes

Spec == Init /\ [][Next]_vars

=============================================================================
