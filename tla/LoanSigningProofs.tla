------------------------- MODULE LoanSigningProofs -------------------------
(***************************************************************************)
(* Proofs about LoanSigning, for any set of requests. OfferWasReady is not *)
(* inductive: a request writes what it decided long before. InFlight says  *)
(* what stays true of such a request: a status Ready it read was committed *)
(* together with the stage, and a stage row is never removed.              *)
(***************************************************************************)
EXTENDS LoanSigning, TLAPS

Borrowing(r) == op[r] \in {"answer", "sign"}
ReadReady(r) == op[r] = "terms" /\ seen[r] = "Ready"

InFlight ==
    \A r \in Requests : Borrowing(r) \/ ReadReady(r) => offerStage # "absent"

IInv == TypeOK /\ OfferWasReady /\ StatusFitsDocuments /\ InFlight

\* The requests other than r are as they were after a step of r.
LEMMA OthersKept ==
    ASSUME TypeOK, NEW r \in Requests, NEW k, NEW v, NEW o \in Requests, o # r,
           op' = [op EXCEPT ![r] = k], seen' = [seen EXCEPT ![r] = v]
    PROVE  op'[o] = op[o] /\ seen'[o] = seen[o]
BY DEF TypeOK

\* A request that has passed its checks holds the invariant: those that will
\* answer, sign or write the status Ready again have read it.
LEMMA ReadStep ==
    ASSUME IInv, NEW r \in Requests, NEW kind \in Ops, Accepted(r, kind),
           kind \in {"answer", "sign"} => workflow = "Ready"
    PROVE  IInv'
<1>1. TypeOK'
  BY DEF IInv, TypeOK, Accepted, offer, docs
<1>2. OfferWasReady' /\ StatusFitsDocuments'
  BY DEF IInv, OfferWasReady, StatusFitsDocuments, Accepted, offer, docs
<1>3. ASSUME NEW o \in Requests, (Borrowing(o) \/ ReadReady(o))'
      PROVE  offerStage' # "absent"
  <2>1. CASE o = r
    <3>1. op'[r] = kind /\ seen'[r] = workflow
      BY DEF IInv, TypeOK, Accepted
    <3>2. workflow = "Ready"
      BY <1>3, <2>1, <3>1 DEF Borrowing, ReadReady
    <3> QED
      BY <3>2 DEF IInv, OfferWasReady, Accepted
  <2>2. CASE o # r
    <3>1. op'[o] = op[o] /\ seen'[o] = seen[o]
      BY <2>2, OthersKept DEF IInv, Accepted
    <3> QED
      BY <1>3, <3>1 DEF IInv, InFlight, Borrowing, ReadReady, Accepted
  <2> QED
    BY <2>1, <2>2
<1> QED
  BY <1>1, <1>2, <1>3 DEF IInv, InFlight

\* A request that ends leaves InFlight to the others, if the stage stays.
LEMMA InFlightKept ==
    ASSUME IInv, NEW r \in Requests, Ends(r),
           offerStage # "absent" => offerStage' # "absent"
    PROVE  InFlight'
<1> SUFFICES ASSUME NEW o \in Requests, (Borrowing(o) \/ ReadReady(o))'
             PROVE  offerStage' # "absent"
  BY DEF InFlight
<1>1. op'[r] = "idle"
  BY DEF IInv, TypeOK, Ends
<1>2. o # r
  BY <1>1 DEF Borrowing, ReadReady
<1>3. op'[o] = op[o] /\ seen'[o] = seen[o]
  BY <1>2, OthersKept DEF IInv, Ends
<1> QED
  BY <1>3 DEF IInv, InFlight, Borrowing, ReadReady

\* The request that ends keeps the types of what is in flight.
LEMMA TypeOfEnds ==
    ASSUME TypeOK, NEW r \in Requests, Ends(r)
    PROVE  /\ op' \in [Requests -> Ops]
           /\ seen' \in [Requests -> Workflows \ {"Generated"}]
BY DEF TypeOK, Ends, Ops, Workflows

-----------------------------------------------------------------------------
\* What the lender writes to the offer.
LEMMA OfferStep ==
    ASSUME IInv, NEW r \in Requests,
           CommitTerms(r) \/ CommitReady(r) \/ CommitReview(r)
    PROVE  IInv'
<1>1. Ends(r) /\ (offerStage # "absent" => offerStage' # "absent")
  BY DEF CommitTerms, CommitReady, CommitReview
<1>2. InFlight'
  BY <1>1, InFlightKept
<1>3. CASE CommitTerms(r)
  <2>1. seen[r] \in Workflows \ {"Generated"}
    BY DEF IInv, TypeOK
  <2>2. workflow' \in Workflows \ {"Generated"}
    BY <1>3, <2>1 DEF CommitTerms, Workflows
  <2>3. TypeOK'
    BY <1>1, <1>3, <2>2, TypeOfEnds DEF IInv, TypeOK, CommitTerms, docs
  <2>4. workflow' = "Ready" => offerStage # "absent"
    BY <1>3 DEF IInv, InFlight, ReadReady, CommitTerms
  <2>5. OfferWasReady' /\ StatusFitsDocuments'
    BY <1>3, <2>4 DEF IInv, OfferWasReady, StatusFitsDocuments, CommitTerms,
                      docs
  <2> QED
    BY <1>2, <2>3, <2>5 DEF IInv
<1>4. CASE CommitReady(r)
  <2>1. TypeOK'
    BY <1>1, <1>4, TypeOfEnds DEF IInv, TypeOK, CommitReady, docs, Workflows
  <2>2. OfferWasReady' /\ StatusFitsDocuments'
    BY <1>4 DEF IInv, OfferWasReady, StatusFitsDocuments, CommitReady, docs
  <2> QED
    BY <1>2, <2>1, <2>2 DEF IInv
<1>5. CASE CommitReview(r)
  <2>1. TypeOK'
    BY <1>1, <1>5, TypeOfEnds DEF IInv, TypeOK, CommitReview, docs, Workflows
  <2>2. OfferWasReady' /\ StatusFitsDocuments'
    BY <1>5 DEF IInv, OfferWasReady, StatusFitsDocuments, CommitReview, docs
  <2> QED
    BY <1>2, <2>1, <2>2 DEF IInv
<1> QED
  BY <1>3, <1>4, <1>5

\* What the borrower writes: the stage it needs is in what it has read.
LEMMA BorrowerStep ==
    ASSUME IInv, NEW r \in Requests,
           CommitSign(r) \/ \E a \in {"Accepted", "Declined"} : CommitAnswer(r, a)
    PROVE  IInv'
<1>1. Ends(r) /\ offerStage' = offerStage /\ Borrowing(r)
  BY DEF CommitSign, CommitAnswer, Borrowing
<1>2. InFlight' /\ offerStage # "absent"
  BY <1>1, InFlightKept DEF IInv, InFlight
<1>3. TypeOK'
  BY <1>1, TypeOfEnds DEF IInv, TypeOK, CommitSign, CommitAnswer, docs,
                          Answers, AgreementStatuses
<1>4. OfferWasReady'
  BY <1>1, <1>2 DEF OfferWasReady
<1>5. StatusFitsDocuments'
  <2>1. CASE CommitSign(r)
    <3>1. agreement' = "Approved" /\ borrowerDoc' /\ signedLetter'
      BY <2>1 DEF CommitSign
    <3> QED
      BY <3>1 DEF StatusFitsDocuments
  <2>2. CASE \E a \in {"Accepted", "Declined"} : CommitAnswer(r, a)
    <3>1. UNCHANGED <<signedLetter, docs>>
      BY <2>2 DEF CommitAnswer
    <3> QED
      BY <3>1 DEF IInv, StatusFitsDocuments, docs
  <2> QED
    BY <2>1, <2>2
<1> QED
  BY <1>2, <1>3, <1>4, <1>5 DEF IInv

\* What the lender writes to the agreement.
LEMMA AgreementStep ==
    ASSUME IInv, NEW r \in Requests,
           CommitUpload(r) \/ CommitRevoke(r) \/ CommitApprove(r)
    PROVE  IInv'
<1>1. Ends(r) /\ UNCHANGED <<offer, offerStage>>
  BY DEF CommitUpload, CommitRevoke, CommitApprove
<1>2. InFlight'
  BY <1>1, InFlightKept
<1>3. TypeOK'
  BY <1>1, TypeOfEnds DEF IInv, TypeOK, CommitUpload, CommitRevoke,
                          CommitApprove, offer, AgreementStatuses
<1>4. OfferWasReady'
  BY <1>1 DEF IInv, OfferWasReady, offer
<1>5. StatusFitsDocuments'
  <2>1. CASE CommitUpload(r)
    <3>1. agreement' = "Pending Approval"
      BY <2>1 DEF CommitUpload
    <3>2. UNCHANGED <<borrowerDoc, signedLetter>>
      BY <2>1 DEF CommitUpload, offer
    <3> QED
      BY <3>1, <3>2 DEF IInv, StatusFitsDocuments
  <2>2. CASE CommitRevoke(r)
    <3>1. agreement' = "Draft" /\ ~lenderDoc'
      BY <2>2 DEF CommitRevoke
    <3>2. UNCHANGED <<borrowerDoc, signedLetter>>
      BY <2>2 DEF CommitRevoke, offer
    <3> QED
      BY <3>1, <3>2 DEF IInv, StatusFitsDocuments
  <2>3. CASE CommitApprove(r)
    <3>1. agreement' = "Borrower Sign & Upload Pending" /\ ~borrowerDoc'
      BY <2>3 DEF CommitApprove
    <3> QED
      BY <3>1 DEF StatusFitsDocuments
  <2> QED
    BY <2>1, <2>2, <2>3
<1> QED
  BY <1>2, <1>3, <1>4, <1>5 DEF IInv

\* A stage that is left is still one that was reached.
LEMMA LeaveStep ==
    ASSUME IInv, LeaveOffer
    PROVE  IInv'
BY DEF IInv, LeaveOffer, TypeOK, OfferWasReady, StatusFitsDocuments, InFlight,
       Borrowing, ReadReady, offer, docs

-----------------------------------------------------------------------------
\* Nothing is in flight when the offer is made.
LEMMA InitIInv == Init => IInv
BY DEF Init, IInv, TypeOK, OfferWasReady, StatusFitsDocuments, InFlight,
       Borrowing, ReadReady, Workflows, Answers, AgreementStatuses, Ops

\* Every step of the lender, the borrower and the application.
LEMMA NextIInv == IInv /\ [Next]_vars => IInv'
<1> SUFFICES ASSUME IInv, [Next]_vars PROVE IInv'
  OBVIOUS
<1>1. ASSUME NEW r \in Requests, Lender(r) PROVE IInv'
  <2>1. CASE \E kind \in Ops \ {"answer", "sign"} : Accepted(r, kind)
    BY <2>1, ReadStep
  <2>2. CASE CommitTerms(r) \/ CommitReady(r) \/ CommitReview(r)
    BY <2>2, OfferStep
  <2>3. CASE CommitUpload(r) \/ CommitRevoke(r) \/ CommitApprove(r)
    BY <2>3, AgreementStep
  <2> QED
    BY <1>1, <2>1, <2>2, <2>3
       DEF Lender, ReadForTerms, ReadForReady, ReadForReview, ReadForUpload,
           ReadForRevoke, ReadForApprove, Ops
<1>2. ASSUME NEW r \in Requests, Borrower(r) PROVE IInv'
  <2>1. CASE ReadForAnswer(r) \/ ReadForSign(r)
    BY <2>1, ReadStep DEF ReadForAnswer, ReadForSign, Ops
  <2>2. CASE CommitSign(r) \/ \E a \in {"Accepted", "Declined"} :
                                  CommitAnswer(r, a)
    BY <2>2, BorrowerStep
  <2> QED
    BY <1>2, <2>1, <2>2 DEF Borrower
<1>3. CASE LeaveOffer
  BY <1>3, LeaveStep
<1>4. CASE UNCHANGED vars
  BY <1>4 DEF vars, offer, docs, IInv, TypeOK, OfferWasReady,
              StatusFitsDocuments, InFlight, Borrowing, ReadReady
<1> QED
  BY <1>1, <1>2, <1>3, <1>4 DEF Next

\* The inductive invariant holds in every reachable state.
LEMMA Inductive == Spec => []IInv
BY InitIInv, NextIInv, PTL DEF Spec

\* The variables of LoanSigning keep their types.
THEOREM TypeCorrect == Spec => []TypeOK
<1>1. IInv => TypeOK
  BY DEF IInv
<1> QED
  BY <1>1, Inductive, PTL

\* An offer that is ready, answered or signed has reached the stage LoanOffer,
\* whatever requests interleave (homeBuyerLoanOfferRespond,
\* submitSignedLoanOfferLetter, updateLoanOffer, updateLoanOfferWorkflow).
THEOREM AnswersFollowReady == Spec => []OfferWasReady
<1>1. IInv => OfferWasReady
  BY DEF IInv
<1> QED
  BY <1>1, Inductive, PTL

\* The status of the agreement fits the documents it refers to, whatever
\* requests of lender and borrower interleave (setLoanAgreementLetter,
\* approveLenderLoanAgreement, submitSignedLoanOfferLetter).
THEOREM AgreementFits == Spec => []StatusFitsDocuments
<1>1. IInv => StatusFitsDocuments
  BY DEF IInv
<1> QED
  BY <1>1, Inductive, PTL

=============================================================================
