------------------------- MODULE ApplicationStages -------------------------
(***************************************************************************)
(* The stage rows of one application (table "application_stages"), for the *)
(* stages of all three purchase types. addApplicationStage looks for a row *)
(* of the same stage before it inserts one, whether or not that row has an *)
(* exit time, so there is one row per stage, and a stage that was exited   *)
(* is never entered again.                                                 *)
(***************************************************************************)

StageNames == {"PreQualification", "DecisionInPrinciple", "UploadDocument",
               "LoanDecision", "LoanOffer", "ConditionPrecedent", "Repayment",
               "Purchased", "PaymentCalculator", "OfferLetter",
               "PropertyClosing", "EscrowMeeting", "PaymentTracker"}

StageStates == {"absent", "open", "exited"}

Stages == [StageNames -> StageStates]

OpenStages(stages) == {s \in StageNames : stages[s] = "open"}

\* addApplicationStage: the row that exists is returned as it is.
Enter(stages, s) ==
    [stages EXCEPT ![s] = IF @ = "absent" THEN "open" ELSE @]

\* updateApplicationStage with an exit time, for each row of a set read before.
Exit(stages, read) ==
    [s \in StageNames |->
        IF s \in read /\ stages[s] # "absent" THEN "exited" ELSE stages[s]]

=============================================================================
