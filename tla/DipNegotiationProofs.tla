------------------------ MODULE DipNegotiationProofs ------------------------
(***************************************************************************)
(* Proofs about DipNegotiation, for any number of requests. Answered says  *)
(* how the status of the DIP, and the request that read it, follow from    *)
(* the answers; StagesAre in which order the stages are entered, and       *)
(* StagesSeen what of that order a request in flight has seen: a           *)
(* completion that saw the decision comes after another.                   *)
(***************************************************************************)
EXTENDS DipNegotiation, TLAPS

BothAnswered == lender # "Pending" /\ buyer # "Pending"

Answered ==
    /\ status = "Awaiting User Action" => lender # "Pending"
    /\ status = "Payment Pending" \/ charged => BothAnswered
    /\ \A r \in Requests :
          /\ op[r] = "buyer" => lender # "Pending"
          /\ op[r] = "fee" => BothAnswered

StagesAre ==
    /\ ~repeated => /\ stages["LoanDecision"] # "exited"
                    /\ stages["UploadDocument"] = "exited" =>
                          stages["LoanDecision"] = "open"
    /\ ~reviewed => stages["LoanDecision"] = "absent"
    /\ stages["LoanDecision"] # "absent" => stages["UploadDocument"] # "absent"
    /\ stages["UploadDocument"] = "absent" => stages["PreQualification"] = "open"

StagesSeen ==
    \A r \in Requests :
        /\ (op[r] = "upload" /\ seen[r]["UploadDocument"] = "absent") =>
              seen[r]["LoanDecision"] = "absent"
        /\ op[r] \in {"documents", "complete"} =>
              (seen[r]["LoanDecision"] # "absent" => reviewed)
        /\ op[r] = "complete" => stages["UploadDocument"] # "absent"

Order == StagesAre /\ StagesSeen
IInv  == TypeOK /\ Answered /\ PaidWasAnswered /\ Order

-----------------------------------------------------------------------------
LEMMA AreStages ==
    {"LoanDecision", "UploadDocument", "PreQualification", "DecisionInPrinciple"}
        \subseteq StageNames
BY DEF StageNames

\* The stages stay in their type.
LEMMA StagesTyped ==
    /\ FirstStages \in Stages
    /\ \A st \in Stages : \A s \in StageNames : Enter(st, s) \in Stages
    /\ \A st \in Stages : \A read : Exit(st, read) \in Stages
BY DEF FirstStages, Enter, Exit, Stages, StageStates

\* A request that ends leaves its variables in their types.
LEMMA EndsTyped ==
    ASSUME TypeOK, NEW r \in Requests, Ends(r)
    PROVE  /\ op' \in [Requests -> Ops]
           /\ answer' \in [Requests -> Answers]
           /\ seen' \in [Requests -> Stages]
BY StagesTyped DEF TypeOK, Ends, Ops, Answers

\* Before a second completion there is an open stage: the first, the upload,
\* or the decision.
LEMMA AtAStage == TypeOK /\ StagesAre => StageUntilRepeated
<1> SUFFICES ASSUME TypeOK, StagesAre PROVE StageUntilRepeated
  OBVIOUS
<1>1. \A s \in StageNames : stages[s] \in {"absent", "open", "exited"}
  BY DEF TypeOK, Stages, StageStates
<1>2. ASSUME ~repeated PROVE \E s \in StageNames : stages[s] = "open"
  BY <1>1, <1>2, AreStages DEF StagesAre
<1> QED
  BY <1>2 DEF StageUntilRepeated, StagesAre, OpenStages

LEMMA InitHolds == Init => IInv
<1> SUFFICES ASSUME Init PROVE IInv
  OBVIOUS
<1>1. TypeOK
  BY StagesTyped DEF Init, TypeOK, Answers, DIPStatuses, Ops
<1>2. Answered /\ PaidWasAnswered
  BY DEF Init, Answered, PaidWasAnswered
<1>3. Order
  BY AreStages DEF Init, Order, StagesAre, StagesSeen, FirstStages
<1> QED
  BY <1>1, <1>2, <1>3 DEF IInv

LEMMA OthersKept ==
    ASSUME TypeOK, NEW r \in Requests, NEW q \in Requests, q # r,
           Ends(r) \/ \E kind, a : Reads(r, kind, a)
    PROVE  op'[q] = op[q] /\ answer'[q] = answer[q] /\ seen'[q] = seen[q]
BY DEF TypeOK, Ends, Reads

LEMMA OwnEnds ==
    ASSUME TypeOK, NEW r \in Requests, Ends(r)
    PROVE  op'[r] = "idle"
BY DEF TypeOK, Ends

\* A step that keeps the stages and the mark of the review, and begins no
\* upload and no completion, keeps their order.
LEMMA OrderKept ==
    ASSUME Order, UNCHANGED <<stages, reviewed, repeated>>,
           \A q \in Requests :
              op'[q] \in {"upload", "documents", "complete"} =>
                 op'[q] = op[q] /\ seen'[q] = seen[q]
    PROVE  Order'
BY DEF Order, StagesAre, StagesSeen

\* A request that has read the row, and no stage yet.
LEMMA ReadStep ==
    ASSUME IInv, NEW r \in Requests,
           NEW kind \in {"lender", "buyer", "fee", "review"},
           NEW a \in Answers, Reads(r, kind, a),
           kind = "buyer" => status = "Awaiting User Action",
           kind = "fee" => status = "Payment Pending"
    PROVE  IInv'
<1>1. /\ op'[r] = kind
      /\ \A q \in Requests \ {r} : op'[q] = op[q] /\ seen'[q] = seen[q]
      /\ UNCHANGED <<lender, buyer, status, fee, charged, reviewed, repeated, stages>>
  BY OthersKept DEF IInv, TypeOK, Reads, dip
<1>2. TypeOK'
  BY <1>1 DEF IInv, TypeOK, Reads, Ops
<1>3. Answered' /\ PaidWasAnswered'
  BY <1>1 DEF IInv, Answered, PaidWasAnswered, BothAnswered
<1>4. Order'
  BY <1>1, OrderKept DEF IInv
<1> QED
  BY <1>2, <1>3, <1>4 DEF IInv

\* A request that has read the stages, or the documents.
LEMMA StagesReadStep ==
    ASSUME IInv, NEW r \in Requests,
           ReadForUpload(r) \/ ReadStages(r) \/ ReadDocuments(r)
    PROVE  IInv'
<1>1. /\ op'[r] \in {"upload", "documents", "complete"}
      /\ op'[r] # "complete" => seen'[r] = stages
      /\ op'[r] = "complete" => /\ op[r] = "documents" /\ seen'[r] = seen[r]
                                /\ stages["UploadDocument"] # "absent"
      /\ \A q \in Requests \ {r} : op'[q] = op[q] /\ seen'[q] = seen[q]
      /\ UNCHANGED <<lender, buyer, status, fee, charged, reviewed, repeated, stages>>
  BY DEF IInv, TypeOK, ReadForUpload, ReadStages, ReadDocuments, dip
<1>2. TypeOK'
  BY <1>1 DEF IInv, TypeOK, ReadForUpload, ReadStages, ReadDocuments, Ops
<1>3. Answered' /\ PaidWasAnswered'
  BY <1>1 DEF IInv, Answered, PaidWasAnswered, BothAnswered
<1>4. Order'
  BY <1>1 DEF IInv, Order, StagesAre, StagesSeen
<1> QED
  BY <1>2, <1>3, <1>4 DEF IInv

LEMMA CommitLenderStep ==
    ASSUME IInv, NEW r \in Requests, CommitLender(r)
    PROVE  IInv'
<1>1. /\ op'[r] = "idle"
      /\ \A q \in Requests \ {r} : op'[q] = op[q] /\ seen'[q] = seen[q]
  BY OwnEnds, OthersKept DEF IInv, CommitLender
<1>2. lender' \in Answers /\ status' = "Awaiting User Action"
      /\ UNCHANGED <<buyer, fee, charged, reviewed, repeated>>
  BY DEF IInv, TypeOK, CommitLender
<1>3. TypeOK'
  BY <1>2, EndsTyped, StagesTyped, AreStages
     DEF IInv, TypeOK, CommitLender, DIPStatuses
<1>4. Answered' /\ PaidWasAnswered'
  BY <1>1, <1>2 DEF IInv, Answered, PaidWasAnswered, BothAnswered, Answers
<1>5. \A s \in {"LoanDecision", "UploadDocument", "PreQualification"} :
         stages'[s] = stages[s]
  BY AreStages DEF CommitLender, Enter, IInv, TypeOK, Stages
<1>6. Order'
  BY <1>1, <1>2, <1>5 DEF IInv, Order, StagesAre, StagesSeen
<1> QED
  BY <1>3, <1>4, <1>6 DEF IInv

\* The answer of the home buyer and the payment follow both answers.
LEMMA CommitBuyerOrFeeStep ==
    ASSUME IInv, NEW r \in Requests, CommitBuyer(r) \/ CommitFee(r)
    PROVE  IInv'
<1>1. /\ op'[r] = "idle"
      /\ \A q \in Requests \ {r} : op'[q] = op[q] /\ seen'[q] = seen[q]
  BY OwnEnds, OthersKept DEF IInv, CommitBuyer, CommitFee
<1>2. UNCHANGED <<lender, charged, reviewed, repeated, stages>>
  BY DEF CommitBuyer, CommitFee
<1>3. TypeOK'
  BY EndsTyped DEF IInv, TypeOK, CommitBuyer, CommitFee, DIPStatuses
<1>4. buyer' # "Pending" \/ buyer' = buyer
  BY DEF IInv, TypeOK, CommitBuyer, CommitFee, Answers
<1>5. Answered'
  <2>1. CASE CommitBuyer(r)
    <3>1. lender # "Pending" /\ buyer' # "Pending"
      BY <2>1 DEF IInv, TypeOK, Answered, CommitBuyer, Answers
    <3> QED
      BY <1>1, <1>2, <2>1, <3>1 DEF IInv, Answered, BothAnswered, CommitBuyer
  <2>2. CASE CommitFee(r)
    BY <1>1, <1>2, <2>2 DEF IInv, Answered, BothAnswered, CommitFee
  <2> QED
    BY <2>1, <2>2
<1>6. PaidWasAnswered'
  BY <1>2, <1>4 DEF IInv, Answered, BothAnswered, PaidWasAnswered, CommitBuyer, CommitFee
<1>7. Order'
  BY <1>1, <1>2, OrderKept DEF IInv
<1> QED
  BY <1>3, <1>5, <1>6, <1>7 DEF IInv

LEMMA FeeChargedStep ==
    ASSUME IInv, FeeCharged
    PROVE  IInv'
<1>1. TypeOK'
  BY DEF IInv, TypeOK, FeeCharged, call, DIPStatuses
<1>2. Answered' /\ PaidWasAnswered'
  BY DEF IInv, Answered, BothAnswered, PaidWasAnswered, FeeCharged, call
<1>3. Order'
  BY OrderKept DEF IInv, FeeCharged, call
<1> QED
  BY <1>1, <1>2, <1>3 DEF IInv

\* An upload that saw no upload saw no decision: it exits neither.
LEMMA CommitUploadStep ==
    ASSUME IInv, NEW r \in Requests, CommitUpload(r)
    PROVE  IInv'
<1>1. /\ op'[r] = "idle"
      /\ \A q \in Requests \ {r} : op'[q] = op[q] /\ seen'[q] = seen[q]
  BY OwnEnds, OthersKept DEF IInv, CommitUpload
<1>2. UNCHANGED <<lender, buyer, fee, charged, reviewed, repeated>>
      /\ status' = "Document Reviewing"
  BY DEF CommitUpload
<1>3. TypeOK'
  BY EndsTyped, StagesTyped, AreStages DEF IInv, TypeOK, CommitUpload, DIPStatuses
<1>4. Answered' /\ PaidWasAnswered'
  BY <1>1, <1>2 DEF IInv, Answered, PaidWasAnswered, BothAnswered
<1>5. CASE seen[r]["UploadDocument"] = "absent"
  <2>1. "LoanDecision" \notin OpenStages(seen[r])
        /\ "UploadDocument" \notin OpenStages(seen[r])
    BY <1>5 DEF IInv, Order, StagesSeen, OpenStages, CommitUpload
  <2>2. stages' = Enter(Exit(stages, OpenStages(seen[r])), "UploadDocument")
    BY <1>5 DEF CommitUpload
  <2>3. stages'["LoanDecision"] = stages["LoanDecision"]
        /\ stages'["UploadDocument"] =
              IF stages["UploadDocument"] = "absent" THEN "open"
              ELSE stages["UploadDocument"]
    BY <2>1, <2>2, AreStages DEF Enter, Exit
  <2> QED
    BY <1>1, <1>2, <1>3, <1>4, <2>3 DEF IInv, Order, StagesAre, StagesSeen
<1>6. CASE seen[r]["UploadDocument"] # "absent"
  BY <1>1, <1>2, <1>3, <1>4, <1>6, OrderKept DEF IInv, CommitUpload
<1> QED
  BY <1>5, <1>6

\* The first completion saw no decision, and does not exit it.
LEMMA CommitCompleteStep ==
    ASSUME IInv, NEW r \in Requests, CommitComplete(r)
    PROVE  IInv'
<1>1. /\ op'[r] = "idle"
      /\ \A q \in Requests \ {r} : op'[q] = op[q] /\ seen'[q] = seen[q]
  BY OwnEnds, OthersKept DEF IInv, CommitComplete
<1>2. UNCHANGED <<lender, buyer, fee, charged>> /\ status' = "Completed" /\ reviewed'
      /\ (~repeated' => ~repeated /\ ~reviewed)
  BY DEF CommitComplete
<1>3. TypeOK'
  BY EndsTyped, StagesTyped, AreStages DEF IInv, TypeOK, CommitComplete, DIPStatuses
<1>4. Answered' /\ PaidWasAnswered'
  BY <1>1, <1>2 DEF IInv, Answered, PaidWasAnswered, BothAnswered
<1>5. /\ ~reviewed => "LoanDecision" \notin OpenStages(seen[r])
      /\ stages["UploadDocument"] # "absent"
  BY DEF IInv, Order, StagesSeen, OpenStages, CommitComplete
<1>6. stages' = Enter(Exit(stages, OpenStages(seen[r])), "LoanDecision")
  BY DEF CommitComplete
<1>7. ~reviewed => stages["LoanDecision"] = "absent"
  BY AreStages DEF IInv, TypeOK, Order, StagesAre, Stages, StageStates
<1>8. /\ ~reviewed => stages'["LoanDecision"] = "open"
      /\ stages'["UploadDocument"] # "absent"
  BY <1>5, <1>6, <1>7, AreStages DEF Enter, Exit
<1>9. Order'
  BY <1>1, <1>2, <1>8 DEF IInv, Order, StagesAre, StagesSeen
<1> QED
  BY <1>3, <1>4, <1>9 DEF IInv

LEMMA Inductive == IInv /\ [Next]_vars => IInv'
<1> SUFFICES ASSUME IInv, [Next]_vars PROVE IInv'
  OBVIOUS
<1>1. CASE UNCHANGED vars
  BY <1>1 DEF IInv, TypeOK, Answered, BothAnswered, PaidWasAnswered, Order, StagesAre,
              StagesSeen, vars, dip, call
<1>2. ASSUME NEW r \in Requests, NEW a \in Answers, ReadForLender(r, a) \/ ReadForBuyer(r, a)
      PROVE  IInv'
  BY <1>2, ReadStep DEF ReadForLender, ReadForBuyer
<1>3. ASSUME NEW r \in Requests, ReadForFee(r) \/ ReadForComplete(r)
      PROVE  IInv'
  <2>1. "Accept" \in Answers
    BY DEF Answers
  <2> QED
    BY <1>3, <2>1, ReadStep DEF ReadForFee, ReadForComplete
<1>4. ASSUME NEW r \in Requests,
             CommitLender(r) \/ CommitBuyer(r) \/ CommitFee(r)
             \/ CommitUpload(r) \/ CommitComplete(r)
      PROVE  IInv'
  BY <1>4, CommitLenderStep, CommitBuyerOrFeeStep, CommitUploadStep, CommitCompleteStep
<1>5. ASSUME NEW r \in Requests, ReadForUpload(r) \/ ReadStages(r) \/ ReadDocuments(r)
      PROVE  IInv'
  BY <1>5, StagesReadStep
<1> QED
  BY <1>1, <1>2, <1>3, <1>4, <1>5, FeeChargedStep DEF Next

LEMMA Invariant == Spec => []IInv
BY InitHolds, Inductive, PTL DEF Spec

\* A step from a DIP that is offered again keeps it so, or is a way out.
LEMMA ReofferStep == IInv /\ [Next]_vars => ReofferStays
<1> SUFFICES ASSUME IInv, [Next]_vars, Reoffered,
                    status' \notin {"Documents Pending", "Document Reviewing", "Completed"},
                    buyer' # "Reject"
             PROVE  Reoffered'
  BY DEF ReofferStays
<1>1. status = "Awaiting User Action" /\ buyer = "Accept"
      /\ \A q \in Requests : op[q] = "buyer" => answer[q] = "Reject"
  BY DEF Reoffered, AcceptInFlight, IInv, TypeOK, Answers
<1>2. CASE UNCHANGED vars
  BY <1>1, <1>2 DEF Reoffered, AcceptInFlight, vars, dip, call
<1>3. ASSUME NEW r \in Requests, NEW kind, NEW a, Reads(r, kind, a),
             kind = "buyer" => a # "Accept"
      PROVE  Reoffered'
  <2>1. op'[r] = kind /\ answer'[r] = a /\ UNCHANGED <<status, buyer>>
    BY <1>3 DEF Reads, IInv, TypeOK, dip
  <2>2. \A q \in Requests \ {r} : op'[q] = op[q] /\ answer'[q] = answer[q]
    BY <1>3, OthersKept DEF IInv
  <2> QED
    BY <1>1, <1>3, <2>1, <2>2 DEF Reoffered, AcceptInFlight
<1>4. ASSUME NEW r \in Requests, CommitLender(r) \/ CommitFee(r)
      PROVE  Reoffered'
  <2>1. status' = "Awaiting User Action" /\ UNCHANGED buyer /\ Ends(r)
    BY <1>1, <1>4 DEF CommitLender, CommitFee
  <2>2. op'[r] = "idle"
        /\ \A q \in Requests \ {r} : op'[q] = op[q] /\ answer'[q] = answer[q]
    BY <2>1, OwnEnds, OthersKept DEF IInv
  <2> QED
    BY <1>1, <2>1, <2>2 DEF Reoffered, AcceptInFlight
<1>5. ASSUME NEW r \in Requests, CommitBuyer(r)
      PROVE  FALSE
  BY <1>1, <1>5 DEF CommitBuyer
<1>6. ASSUME NEW r \in Requests, NEW a \in Answers, ReadForLender(r, a) \/ ReadForBuyer(r, a)
      PROVE  Reoffered'
  BY <1>1, <1>3, <1>6 DEF ReadForLender, ReadForBuyer
<1>7. ASSUME NEW r \in Requests, ReadForFee(r) \/ ReadForComplete(r)
      PROVE  Reoffered'
  BY <1>3, <1>7 DEF ReadForFee, ReadForComplete
<1>8. ASSUME NEW r \in Requests, ReadForUpload(r) \/ ReadStages(r) \/ ReadDocuments(r)
      PROVE  Reoffered'
  BY <1>1, <1>8
     DEF Reoffered, AcceptInFlight, ReadForUpload, ReadStages, ReadDocuments, dip, IInv, TypeOK
<1> QED
  BY <1>2, <1>4, <1>5, <1>6, <1>7, <1>8 DEF Next, FeeCharged, CommitUpload, CommitComplete

\* Type correctness, for any number of requests.
THEOREM TypeCorrect == Spec => []TypeOK
<1>1. IInv => TypeOK
  BY DEF IInv
<1> QED
  BY <1>1, Invariant, PTL

\* No fee without both answers and no documents without a charge, however
\* lenderDipResponse, userDipResponse and the payment write from stale reads.
THEOREM FeeFollowsAnswers == Spec => []PaidWasAnswered
<1>1. IInv => PaidWasAnswered
  BY DEF IInv
<1> QED
  BY <1>1, Invariant, PTL

\* The application has an open stage until the review is completed a second
\* time, by a request that read the row before the first completion and the
\* stages after it (lenderCompleteDocumentReview); no decision without upload.
THEOREM StageUntilSecondReview == Spec => []StageUntilRepeated
<1>1. IInv => StageUntilRepeated
  BY AtAStage DEF IInv, Order
<1> QED
  BY <1>1, Invariant, PTL

\* A DIP that is offered again after it was accepted is stuck with the home
\* buyer until a refusal, a late event of its fee, or an upload.
THEOREM ReofferIsStuck == Spec => ReofferNeedsRefusal
<1>1. Spec => [][ReofferStays]_vars
  BY ReofferStep, Invariant, PTL DEF Spec
<1> QED
  BY <1>1 DEF ReofferNeedsRefusal

=============================================================================
