------------------------- MODULE DocumentReviewMC --------------------------
(***************************************************************************)
(* Model-checking instance of DocumentReview. A behaviour goes one of two  *)
(* ways: requests that cross, on the first group of documents and to make  *)
(* its offer ready; or one request at a time on both groups, crossed by a  *)
(* webhook of the management fee, up to two condition precedents.          *)
(*                                                                         *)
(* More bounds: the first way has no changes of the eligibility after the  *)
(* review by HSF; the second way has none at all, no rejection of the      *)
(* first group, and leaves that group alone after the offer.               *)
(***************************************************************************)
EXTENDS DocumentReview

CONSTANTS m1, c1, d1, d2, r1, r2

OneMortgage  == {m1}
OneCondition == {c1}
TwoDocs      == {d1, d2}
TwoRequests  == {r1, r2}

VARIABLE way

MCInit == Init /\ way \in {"crossing", "both groups"}

Crossing ==
    /\ conditions' = <<>>
    /\ hsfCompleted => eligible' = eligible
    /\ \A r \in Requests :
          handler'[r].group = "MortgageUpload" /\ handler'[r].op # "fee"

BothGroups ==
    /\ handler'[r2].op \in {"idle", "fee", "attach", "exit", "insert"}
    /\ offers' < MaxOffers
    /\ eligible'
    /\ \A i \in DocsOf("MortgageUpload") :
           /\ entries'[i].hsf # "Rejected"
           /\ entries'[i].lender["Rejected"] = 0
           /\ offers > 0 => entries'[i] = entries[i]
    /\ offers > 0 => \/ handler'[r1].op = "idle"
                     \/ handler'[r1].group = "ConditionPrecedent"
    /\ \A i \in EntryIds :
          entries'[i] # Absent =>
              \A v \in Verdicts : entries'[i].lender[v] < MaxApprovals

MCNext ==
    /\ Next
    /\ UNCHANGED way
    /\ IF way = "crossing" THEN Crossing ELSE BothGroups

MCSpec == MCInit /\ [][MCNext]_<<vars, way>>

=============================================================================
