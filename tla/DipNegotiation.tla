-------------------------- MODULE DipNegotiation --------------------------
(***************************************************************************)
(* The answers of lender and home buyer to one decision in principle, its  *)
(* fee and the documents that follow (ManageDip.ts: lenderDipResponse,     *)
(* userDipResponse; payments.ts: the fee of the due diligence; the webhook *)
(* of its charge; application.ts: the upload and the end of the review).   *)
(*                                                                         *)
(* The answers look at the DIP and then write: between the two, other      *)
(* requests write the same row. The answer of the lender looks at no       *)
(* status, nor does the upload. getApplicationById reads the row of the    *)
(* application with its DIP and then, in a second statement, its stages.   *)
(* The payment is a single row here: how it is made, renewed and verified  *)
(* is in MortgagePayment, the review itself in DocumentReview. The terms   *)
(* that updateDip writes decide nothing.                                   *)
(***************************************************************************)
EXTENDS ApplicationStages

CONSTANT Requests  \* HTTP requests that may be in flight together

Answers     == {"Accept", "Reject"}
DIPStatuses == {"Awaiting Lender Action", "Awaiting User Action",
                "Payment Pending", "Documents Pending", "Document Reviewing",
                "Completed"}
Ops         == {"idle", "lender", "buyer", "fee", "upload",
                "review", "documents", "complete"}

VARIABLES
    lender,     \* dip_lender_status
    buyer,      \* user_action
    status,     \* dip_status
    fee,        \* the payment linked to the DIP: none, pending, successful
    charged,    \* history: the fee was charged
    reviewed,   \* lender_document_review_completed
    repeated,   \* history: a review was completed that had been already
    stages,     \* stage rows of the application
    op,         \* what each request has still to write
    answer,     \* the answer it carries
    seen        \* the stage rows it read

dip  == <<lender, buyer, status, fee, charged, reviewed, repeated, stages>>
call == <<op, answer, seen>>
vars == <<dip, call>>

FirstStages ==
    [s \in StageNames |-> IF s = "PreQualification" THEN "open" ELSE "absent"]

Init ==
    /\ lender = "Pending"
    /\ buyer = "Pending"
    /\ status = "Awaiting Lender Action"
    /\ fee = "none"
    /\ charged = FALSE
    /\ reviewed = FALSE
    /\ repeated = FALSE
    /\ stages = FirstStages
    /\ op = [r \in Requests |-> "idle"]
    /\ answer = [r \in Requests |-> "Accept"]
    /\ seen = [r \in Requests |-> FirstStages]

Reads(r, kind, a) ==
    /\ op[r] = "idle"
    /\ op' = [op EXCEPT ![r] = kind]
    /\ answer' = [answer EXCEPT ![r] = a]
    /\ UNCHANGED <<dip, seen>>

Ends(r) ==
    /\ op' = [op EXCEPT ![r] = "idle"]
    /\ answer' = [answer EXCEPT ![r] = "Accept"]
    /\ seen' = [seen EXCEPT ![r] = FirstStages]

-----------------------------------------------------------------------------
(* The two answers.                                                        *)

\* lenderDipResponse refuses only the answer it already has.
ReadForLender(r, a) ==
    /\ lender # a
    /\ Reads(r, "lender", a)

\* The stages it means to exit are those that have an exit time: none
\* changes, and the new stage joins those that are open.
CommitLender(r) ==
    /\ op[r] = "lender"
    /\ lender' = answer[r]
    /\ status' = "Awaiting User Action"
    /\ stages' = IF answer[r] = "Accept" THEN Enter(stages, "DecisionInPrinciple")
                 ELSE stages
    /\ Ends(r)
    /\ UNCHANGED <<buyer, fee, charged, reviewed, repeated>>

\* Mutant: the home buyer may answer before the lender.
ReadForBuyerEarly(r, a) ==
    /\ status \in {"Awaiting User Action", "Awaiting Lender Action"}
    /\ buyer # a
    /\ Reads(r, "buyer", a)

\* Mutant: an answer that was given may be given again.
ReadForBuyerAgain(r, a) ==
    /\ status = "Awaiting User Action"
    /\ Reads(r, "buyer", a)

\* userDipResponse.
ReadForBuyer(r, a) ==
    /\ status = "Awaiting User Action"
    /\ buyer # a
    /\ Reads(r, "buyer", a)

\* Mutant: the answer becomes the status of the DIP.
CommitBuyerAnswer(r) ==
    /\ op[r] = "buyer"
    /\ buyer' = answer[r]
    /\ status' = answer[r]
    /\ Ends(r)
    /\ UNCHANGED <<lender, fee, charged, reviewed, repeated, stages>>

\* A refusal asks for the payment as well.
CommitBuyer(r) ==
    /\ op[r] = "buyer"
    /\ buyer' = answer[r]
    /\ status' = "Payment Pending"
    /\ Ends(r)
    /\ UNCHANGED <<lender, fee, charged, reviewed, repeated, stages>>

-----------------------------------------------------------------------------
(* The fee.                                                                *)

\* inititateMortgagePaymentIntent for the due diligence.
ReadForFee(r) ==
    /\ status = "Payment Pending"
    /\ fee # "successful"
    /\ Reads(r, "fee", "Accept")

\* The payment is made, or set to be pending again whatever it is by now, and
\* linked to the DIP; Paystack may say at once that it was charged.
CommitFee(r) ==
    /\ op[r] = "fee"
    /\ fee' \in {"pending"} \cup IF charged THEN {"successful"} ELSE {}
    /\ Ends(r)
    /\ UNCHANGED <<lender, buyer, status, charged, reviewed, repeated, stages>>

\* The event of the charge, and any later delivery of it.
FeeCharged ==
    /\ fee # "none"
    /\ fee' = "successful"
    /\ charged' = TRUE
    /\ status' = "Documents Pending"
    /\ UNCHANGED <<lender, buyer, reviewed, repeated, stages, call>>

-----------------------------------------------------------------------------
(* The documents.                                                          *)

ReadForUpload(r) ==
    /\ op[r] = "idle"
    /\ op' = [op EXCEPT ![r] = "upload"]
    /\ seen' = [seen EXCEPT ![r] = stages]
    /\ UNCHANGED <<dip, answer>>

\* handleApplicationDocUploads, first group: enters the stage of the upload
\* unless the request saw the application there before.
CommitUpload(r) ==
    /\ op[r] = "upload"
    /\ status' = "Document Reviewing"
    /\ stages' = IF seen[r]["UploadDocument"] = "absent"
                 THEN Enter(Exit(stages, OpenStages(seen[r])), "UploadDocument")
                 ELSE stages
    /\ Ends(r)
    /\ UNCHANGED <<lender, buyer, fee, charged, reviewed, repeated>>

\* lenderCompleteDocumentReview: the row, then the stages, then the documents,
\* which must have been uploaded and approved.
ReadForComplete(r) ==
    /\ ~reviewed
    /\ Reads(r, "review", "Accept")

ReadStages(r) ==
    /\ op[r] = "review"
    /\ op' = [op EXCEPT ![r] = "documents"]
    /\ seen' = [seen EXCEPT ![r] = stages]
    /\ UNCHANGED <<dip, answer>>

ReadDocuments(r) ==
    /\ op[r] = "documents"
    /\ stages["UploadDocument"] # "absent"
    /\ op' = [op EXCEPT ![r] = "complete"]
    /\ UNCHANGED <<dip, answer, seen>>

\* Mutant: the stages are exited after the next one is entered.
CommitCompleteExitLast(r) ==
    /\ op[r] = "complete"
    /\ status' = "Completed"
    /\ reviewed' = TRUE
    /\ repeated' = (repeated \/ reviewed)
    /\ stages' = Exit(Enter(stages, "LoanDecision"), StageNames)
    /\ Ends(r)
    /\ UNCHANGED <<lender, buyer, fee, charged>>

CommitComplete(r) ==
    /\ op[r] = "complete"
    /\ status' = "Completed"
    /\ reviewed' = TRUE
    /\ repeated' = (repeated \/ reviewed)
    /\ stages' = Enter(Exit(stages, OpenStages(seen[r])), "LoanDecision")
    /\ Ends(r)
    /\ UNCHANGED <<lender, buyer, fee, charged>>

-----------------------------------------------------------------------------
Next ==
    \/ \E r \in Requests, a \in Answers : ReadForLender(r, a) \/ ReadForBuyer(r, a)
    \/ \E r \in Requests :
          \/ CommitLender(r) \/ CommitBuyer(r)
          \/ ReadForFee(r) \/ CommitFee(r)
          \/ ReadForUpload(r) \/ CommitUpload(r)
          \/ ReadForComplete(r) \/ ReadStages(r) \/ ReadDocuments(r)
          \/ CommitComplete(r)
    \/ FeeCharged

Spec == Init /\ [][Next]_vars

-----------------------------------------------------------------------------
(* Properties                                                              *)

\* Types.
TypeOK ==
    /\ {lender, buyer} \subseteq Answers \cup {"Pending"}
    /\ status \in DIPStatuses
    /\ fee \in {"none", "pending", "successful"}
    /\ {charged, reviewed, repeated} \subseteq BOOLEAN
    /\ stages \in Stages
    /\ op \in [Requests -> Ops]
    /\ answer \in [Requests -> Answers]
    /\ seen \in [Requests -> Stages]

\* The fee is asked for, and charged, only after lender and home buyer have
\* both answered, and documents are pending only once it was charged, although
\* the answers write from what they read, the lender may answer at any time,
\* even a DIP that is paid, and a request for the fee may set a successful
\* payment back (lenderDipResponse, userDipResponse,
\* inititateMortgagePaymentIntent, the webhook).
PaidWasAnswered ==
    /\ fee # "none" \/ charged => lender # "Pending" /\ buyer # "Pending"
    /\ status = "Documents Pending" \/ fee = "successful" => charged

\* Answers, uploads and a completion that exit what they read as open never
\* leave the application at no stage: it takes a second completion, by a
\* request that read the review as open and then the stage the first entered
\* (lenderCompleteDocumentReview). None skips the upload.
StageUntilRepeated ==
    /\ OpenStages(stages) = {} => repeated
    /\ stages["LoanDecision"] # "absent" => stages["UploadDocument"] # "absent"

AcceptInFlight == \E r \in Requests : op[r] = "buyer" /\ answer[r] = "Accept"

\* A DIP the home buyer has accepted, which the lender has then answered again.
Reoffered ==
    status = "Awaiting User Action" /\ buyer = "Accept" /\ ~AcceptInFlight

\* A dead end of userDipResponse: it refuses a second acceptance ("Dip already
\* approved"), so a DIP that is offered again reaches the payment only by a
\* refusal of the home buyer, and otherwise only by a late event or an upload.
ReofferStays ==
    Reoffered => \/ Reoffered'
                 \/ buyer' = "Reject"
                 \/ status' \in {"Documents Pending", "Document Reviewing", "Completed"}

ReofferNeedsRefusal == [][ReofferStays]_vars

=============================================================================
