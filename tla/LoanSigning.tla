---------------------------- MODULE LoanSigning ----------------------------
(***************************************************************************)
(* The loan offer of a mortgage application and the agreement made with it *)
(* (ManageLoanOffer.ts: updateLoanOffer, updateLoanOfferWorkflow;          *)
(* ManageLoanAgreement.ts: setLoanAgreementLetter,                         *)
(* approveLenderLoanAgreement; application.ts: homeBuyerLoanOfferRespond,  *)
(* submitSignedLoanOfferLetter).                                           *)
(*                                                                         *)
(* The lender edits the offer, makes it ready and uploads its letter of    *)
(* the agreement; the borrower answers the offer and uploads a signed      *)
(* letter. No handler looks at another's progress beyond what its first    *)
(* reads say, and those may be stale when it writes. The write is one      *)
(* statement or one transaction: an action here.                           *)
(*                                                                         *)
(* The application refers to this offer and the offer has this agreement,  *)
(* as lenderCompleteDocumentReview leaves them. Callers act for their own  *)
(* side. Terms, comments and the letters' contents are left out.           *)
(***************************************************************************)
CONSTANTS Requests      \* HTTP requests that may be in flight together

Workflows == {"None", "Generated", "Under Review", "Ready"}

Answers == {"Pending", "Accepted", "Declined"}

\* Those the code sets; LoanAgreementStatus has four more.
AgreementStatuses ==
    {"Draft", "Pending Approval", "Borrower Sign & Upload Pending", "Approved"}

Ops == {"idle", "terms", "ready", "review", "answer", "sign", "upload",
        "revoke", "approve"}

VARIABLES
    workflow,      \* loan_offers.workflow_status
    answer,        \* loan_offers.offer_status
    signedLetter,  \* loan_offers.signed_loan_offer_letter_url is set
    agreement,     \* loan_agreements.status
    lenderDoc,     \* loan_agreements.lender_signature_doc_id is set
    borrowerDoc,   \* loan_agreements.borrower_signature_doc_id is set
    offerStage,    \* the row of the stage LoanOffer of the application
    op,            \* what each request has still to write
    seen           \* the workflow status it read

offer == <<workflow, answer, signedLetter>>
docs  == <<agreement, lenderDoc, borrowerDoc>>
vars  == <<offer, docs, offerStage, op, seen>>

Init ==
    /\ workflow = "None"
    /\ answer = "Pending"
    /\ signedLetter = FALSE
    /\ agreement = "Pending Approval"
    /\ lenderDoc = FALSE
    /\ borrowerDoc = FALSE
    /\ offerStage = "absent"
    /\ op = [r \in Requests |-> "idle"]
    /\ seen = [r \in Requests |-> "None"]

\* The reads of a request, with the checks that may refuse it.
Accepted(r, kind) ==
    /\ op[r] = "idle"
    /\ op' = [op EXCEPT ![r] = kind]
    /\ seen' = [seen EXCEPT ![r] = workflow]
    /\ UNCHANGED <<offer, docs, offerStage>>

Ends(r) ==
    /\ op' = [op EXCEPT ![r] = "idle"]
    /\ seen' = [seen EXCEPT ![r] = "None"]

-----------------------------------------------------------------------------
(* The lender and its offer.                                               *)

ReadForTerms(r) == Accepted(r, "terms")

\* Mutant: edited terms make the offer a generated one again.
CommitTermsGenerated(r) ==
    /\ op[r] = "terms"
    /\ workflow' = IF seen[r] \in {"None", "Generated"} THEN "Generated"
                   ELSE seen[r]
    /\ Ends(r)
    /\ UNCHANGED <<answer, signedLetter, docs, offerStage>>

\* updateLoanOffer. The terms are written whatever the borrower has answered,
\* with the workflow status that was read.
CommitTerms(r) ==
    /\ op[r] = "terms"
    /\ workflow' = IF seen[r] \in {"None", "Generated"} THEN "Under Review"
                   ELSE seen[r]
    /\ Ends(r)
    /\ UNCHANGED <<answer, signedLetter, docs, offerStage>>

\* updateLoanOfferWorkflow. The same status again needs a letter with it.
ReadForReady(r, withLetter) ==
    /\ workflow = "Ready" => withLetter
    /\ Accepted(r, "ready")

ReadForReview(r, withLetter) ==
    /\ workflow = "Under Review" => withLetter
    /\ Accepted(r, "review")

\* The open stages are exited and LoanOffer is entered, unless the application
\* has been there: then the row that exists stays exited.
CommitReady(r) ==
    /\ op[r] = "ready"
    /\ workflow' = "Ready"
    /\ offerStage' = IF offerStage = "absent" THEN "open" ELSE "exited"
    /\ Ends(r)
    /\ UNCHANGED <<answer, signedLetter, docs>>

CommitReview(r) ==
    /\ op[r] = "review"
    /\ workflow' = "Under Review"
    /\ Ends(r)
    /\ UNCHANGED <<answer, signedLetter, docs, offerStage>>

\* The application goes on to its condition precedent.
LeaveOffer ==
    /\ offerStage = "open"
    /\ offerStage' = "exited"
    /\ UNCHANGED <<offer, docs, op, seen>>

-----------------------------------------------------------------------------
(* The borrower. Neither answer nor signature looks at the other.          *)

\* Mutant: the offer need not be ready.
ReadForAnswerAlways(r) == Accepted(r, "answer")

\* homeBuyerLoanOfferRespond
ReadForAnswer(r) ==
    /\ workflow = "Ready"
    /\ Accepted(r, "answer")

CommitAnswer(r, a) ==
    /\ op[r] = "answer"
    /\ answer' = a
    /\ Ends(r)
    /\ UNCHANGED <<workflow, signedLetter, docs, offerStage>>

\* submitSignedLoanOfferLetter
ReadForSign(r) ==
    /\ workflow = "Ready"
    /\ Accepted(r, "sign")

\* The agreement is approved by the borrower's letter alone.
CommitSign(r) ==
    /\ op[r] = "sign"
    /\ signedLetter' = TRUE
    /\ borrowerDoc' = TRUE
    /\ agreement' = "Approved"
    /\ Ends(r)
    /\ UNCHANGED <<workflow, answer, lenderDoc, offerStage>>

-----------------------------------------------------------------------------
(* The lender and its letter of the agreement: setLoanAgreementLetter, with *)
(* a document or with none; and its approval.                              *)

ReadForUpload(r) == Accepted(r, "upload")

ReadForRevoke(r) ==
    /\ lenderDoc
    /\ Accepted(r, "revoke")

CommitUpload(r) ==
    /\ op[r] = "upload"
    /\ lenderDoc' = TRUE
    /\ agreement' = "Pending Approval"
    /\ Ends(r)
    /\ UNCHANGED <<offer, borrowerDoc, offerStage>>

\* The agreement's letter is removed, be it the one read before or a newer one.
CommitRevoke(r) ==
    /\ op[r] = "revoke"
    /\ lenderDoc' = FALSE
    /\ agreement' = "Draft"
    /\ Ends(r)
    /\ UNCHANGED <<offer, borrowerDoc, offerStage>>

\* approveLenderLoanAgreement
ReadForApprove(r) ==
    /\ agreement = "Pending Approval"
    /\ lenderDoc
    /\ Accepted(r, "approve")

\* Mutant: an earlier signature is kept.
CommitApproveKeeping(r) ==
    /\ op[r] = "approve"
    /\ agreement' = "Borrower Sign & Upload Pending"
    /\ Ends(r)
    /\ UNCHANGED <<offer, lenderDoc, borrowerDoc, offerStage>>

CommitApprove(r) ==
    /\ op[r] = "approve"
    /\ agreement' = "Borrower Sign & Upload Pending"
    /\ borrowerDoc' = FALSE
    /\ Ends(r)
    /\ UNCHANGED <<offer, lenderDoc, offerStage>>

-----------------------------------------------------------------------------
Lender(r) ==
    \/ ReadForTerms(r) \/ CommitTerms(r)
    \/ \E withLetter \in BOOLEAN :
          ReadForReady(r, withLetter) \/ ReadForReview(r, withLetter)
    \/ CommitReady(r) \/ CommitReview(r)
    \/ ReadForUpload(r) \/ CommitUpload(r)
    \/ ReadForRevoke(r) \/ CommitRevoke(r)
    \/ ReadForApprove(r) \/ CommitApprove(r)

Borrower(r) ==
    \/ ReadForAnswer(r)
    \/ \E a \in {"Accepted", "Declined"} : CommitAnswer(r, a)
    \/ ReadForSign(r) \/ CommitSign(r)

Next == LeaveOffer \/ \E r \in Requests : Lender(r) \/ Borrower(r)

Spec == Init /\ [][Next]_vars

-----------------------------------------------------------------------------
(* Properties                                                              *)

\* Types; no handler gives an offer the workflow status Generated.
TypeOK ==
    /\ workflow \in Workflows \ {"Generated"}
    /\ answer \in Answers
    /\ agreement \in AgreementStatuses
    /\ <<signedLetter, lenderDoc, borrowerDoc>> \in BOOLEAN \X BOOLEAN \X BOOLEAN
    /\ offerStage \in {"absent", "open", "exited"}
    /\ op \in [Requests -> Ops]
    /\ seen \in [Requests -> Workflows \ {"Generated"}]

\* The borrower answers or signs only an offer the lender once made ready,
\* which brought the application to the stage LoanOffer: a request that read
\* a status long ago (homeBuyerLoanOfferRespond, submitSignedLoanOfferLetter,
\* updateLoanOffer) cannot make an offer look as if it had been there.
OfferWasReady ==
    (workflow = "Ready" \/ answer # "Pending" \/ signedLetter)
        => offerStage # "absent"

\* However the handlers of lender and borrower interleave, the status of the
\* agreement fits its documents: it is approved with a signature, waits for
\* one only without, and is a draft only with no letter of the lender; and a
\* signature it has is on the signed letter of the offer.
StatusFitsDocuments ==
    /\ agreement = "Approved" => borrowerDoc
    /\ agreement = "Borrower Sign & Upload Pending" => ~borrowerDoc
    /\ agreement = "Draft" => ~lenderDoc
    /\ borrowerDoc => signedLetter

\* What the comment on LoanAgreementStatus.Approved says: all required
\* documents have been uploaded, the lender's letter among them
\* (submitSignedLoanOfferLetter does not look at it).
ApprovedHasAllDocuments == agreement = "Approved" => lenderDoc /\ borrowerDoc

=============================================================================
