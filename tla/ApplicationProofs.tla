------------------------- MODULE ApplicationProofs -------------------------
(***************************************************************************)
(* Proofs about one application: its purchase, the inspections of the      *)
(* property, the answers to its decision in principle and its loan officer,*)
(* for any sets of requests, rows and officers and any pool.               *)
(*                                                                         *)
(* Each part has an inductive invariant that adds to its properties what a *)
(* request in flight can rely on. Of the purchase, PapersCarried says so   *)
(* for the offer letter and DealCarried for the closing: what was read can *)
(* only have moved on in known ways since; StagesAre gives the stages by   *)
(* how far the closing is. Of the inspections, RoomToBook counts the       *)
(* bookings that are made and those under way together. Of the officer,    *)
(* CameAlone says what a request relies on when no other crosses it.       *)
(***************************************************************************)
EXTENDS ApplicationMC, FiniteSetTheorems, TLAPS

Papering == {"approval", "letter", "attach", "answer"}

\* The papers a request goes on to write or answer are there, as far as the
\* request has come.
PapersCarried ==
    \A r \in Requests :
        /\ op[r] \in Papering => own[r] \in Reviews
        /\ op[r] = "approval" =>
              review[own[r]] = "Pending" /\ approval[own[r]] = "absent"
        /\ op[r] \in {"letter", "answer"} => approval[own[r]] # "absent"
        /\ op[r] = "attach" => letter[own[r]] # "absent"
        /\ op[r] = "answer" => seen[r] \in Reviews /\ letter[seen[r]] # "absent"

\* No two requests are about to write the approval of one review.
OwnReviews ==
    \A q, r \in Requests :
        op[q] = "approval" /\ op[r] = "approval" /\ own[q] = own[r] => q = r

\* The stage in which an application of this type begins.
First == IF type = "Outright" THEN "OfferLetter" ELSE "PreQualification"

Closes == type # "Mortgage" /\ current # None

MadeTwice == \E c, d \in Made : c # d

StagesAre ==
    /\ current # None => current \in Made
    /\ escrow => Closes /\ stages["PropertyClosing"] = "exited"
    /\ stages["PropertyClosing"] = "absent" <=> ~Closes
    /\ stages["PropertyClosing"] = "exited" => escrow \/ MadeTwice
    /\ stages[First] = IF Closes THEN "exited" ELSE "open"
    /\ \A s \in StageNames \ {First, "PropertyClosing"} : stages[s] # "open"

\* A request that closes has read the first stage as open, unless a closing
\* was made after it had read the row; one that answers has read the stage of
\* the closing, unless that was exited by then.
DealCarried ==
    \A r \in Requests :
        /\ op[r] = "close" =>
              open[r] = {First} \/ (Closes /\ open[r] \subseteq {"PropertyClosing"})
        /\ op[r] \in {"respond", "reply"} => current # None
        /\ (op[r] = "reply" /\ type # "Mortgage") =>
              \/ open[r] = {"PropertyClosing"}
              \/ stages["PropertyClosing"] = "exited" /\ open[r] = {}

Papers == PapersCarried /\ OwnReviews /\ LetterIsReviewed
Deal   == StagesAre /\ DealCarried /\ ClosingHasEscrow
IInv   == TypeOK /\ Papers /\ Deal

-----------------------------------------------------------------------------
(* The stages.                                                             *)

\* One open stage, or none once that of the closing is exited.
LEMMA OpenStagesAre ==
    ASSUME TypeOK, StagesAre
    PROVE  OpenStages(stages) =
              IF ~Closes THEN {First}
              ELSE IF stages["PropertyClosing"] = "open" THEN {"PropertyClosing"} ELSE {}
<1>1. First \in StageNames /\ "PropertyClosing" \in StageNames
      /\ First # "PropertyClosing"
  BY DEF First, StageNames
<1> QED
  BY <1>1 DEF StagesAre, OpenStages

\* An application is at one stage, or at none once its escrow is made or a
\* second closing was.
LEMMA OneStage ==
    ASSUME TypeOK, StagesAre
    PROVE  AtOneStage
<1>1. Cardinality(OpenStages(stages)) \in {0, 1}
  BY OpenStagesAre, FS_Singleton, FS_EmptySet
<1>2. escrow => OpenStages(stages) = {} /\ stages["PropertyClosing"] = "exited"
  BY OpenStagesAre DEF StagesAre
<1>3. stages["PropertyClosing"] \in {"absent", "open", "exited"}
  BY DEF TypeOK, Stages, StageNames, StageStates
<1>4. (~escrow /\ OpenStages(stages) = {}) => MadeTwice
  BY <1>3, OpenStagesAre DEF StagesAre
<1> QED
  BY <1>1, <1>2, <1>4 DEF AtOneStage, MadeTwice

-----------------------------------------------------------------------------
(* The invariant holds at the start.                                       *)

LEMMA InitHolds == Init => IInv
<1> SUFFICES ASSUME Init PROVE IInv
  OBVIOUS
<1>1. TypeOK
  <2>1. stages \in Stages
    BY DEF Init, FirstStages, Stages, StageStates
  <2>2. faults \in 0 .. MaxFaults
    BY BoundsAssumption DEF Init
  <2> QED
    BY <2>1, <2>2 DEF Init, TypeOK, Statuses, Answers, Ops, PurchaseTypes
<1>2. Papers
  BY DEF Init, Papers, PapersCarried, OwnReviews, LetterIsReviewed, Papering, Answers
<1>3. StagesAre
  BY DEF Init, StagesAre, First, Closes, FirstStages, StageNames, PurchaseTypes
<1>4. DealCarried /\ ClosingHasEscrow
  BY DEF Init, DealCarried, ClosingHasEscrow
<1> QED
  BY <1>1, <1>2, <1>3, <1>4 DEF IInv, Deal

-----------------------------------------------------------------------------
(* What a step of request r leaves to the other requests.                  *)

LEMMA OthersKept ==
    ASSUME TypeOK, NEW r \in Requests, NEW q \in Requests, q # r,
           \/ \E kind, row : Reads(r, kind, row)
           \/ Ends(r)
    PROVE  op'[q] = op[q] /\ own'[q] = own[q] /\ seen'[q] = seen[q]
           /\ open'[q] = open[q]
BY DEF TypeOK, Reads, Ends

LEMMA OwnEnds ==
    ASSUME TypeOK, NEW r \in Requests, Ends(r)
    PROVE  op'[r] = "idle"
BY DEF TypeOK, Ends

\* A request that has read holds the invariant if what it read is as the
\* invariant says of such a request.
LEMMA ReadStep ==
    ASSUME IInv, NEW r \in Requests,
           NEW kind \in {"review", "answer", "closing", "respond"},
           NEW row \in Reviews \cup Closings \cup {None},
           Reads(r, kind, row),
           kind = "answer" =>
              row \in Reviews /\ approval[row] # "absent" /\ offerLetter # None,
           kind = "respond" => current # None
    PROVE  IInv'
<1>1. TypeOK'
  BY DEF IInv, TypeOK, Reads, Ops, papers, deal
<1>2. op'[r] = kind /\ own'[r] = row /\ seen'[r] = offerLetter
  BY DEF IInv, TypeOK, Reads
<1>3. \A q \in Requests \ {r} :
         op'[q] = op[q] /\ own'[q] = own[q] /\ seen'[q] = seen[q] /\ open'[q] = open[q]
  BY OthersKept DEF IInv
<1>4. UNCHANGED <<type, papers, deal>>
  BY DEF Reads
<1>5. Papers'
  <2>1. LetterIsReviewed'
    BY <1>4 DEF IInv, Papers, LetterIsReviewed, papers
  <2>2. OwnReviews'
    BY <1>2, <1>3 DEF IInv, Papers, OwnReviews
  <2>3. offerLetter # None => offerLetter \in Reviews /\ letter[offerLetter] # "absent"
    BY DEF IInv, TypeOK, Papers, LetterIsReviewed
  <2>4. PapersCarried'
    BY <1>2, <1>3, <1>4, <2>3 DEF IInv, Papers, PapersCarried, Papering, papers
  <2> QED
    BY <2>1, <2>2, <2>4 DEF Papers
<1>6. Deal'
  BY <1>2, <1>3, <1>4 DEF IInv, Deal, StagesAre, ClosingHasEscrow, DealCarried, Closes,
                          MadeTwice, Made, First, deal
<1> QED
  BY <1>1, <1>5, <1>6 DEF IInv

\* A step that changes nothing of the closing, and lets no request begin to
\* close or to answer a closing, keeps what is said of the closing.
LEMMA DealKept ==
    ASSUME IInv, UNCHANGED <<type, deal>>,
           \A q \in Requests :
              op'[q] \in {"respond", "close", "reply"} =>
                 op'[q] = op[q] /\ open'[q] = open[q]
    PROVE  Deal'
<1>1. StagesAre' /\ ClosingHasEscrow'
  BY DEF IInv, Deal, StagesAre, ClosingHasEscrow, Closes, MadeTwice, Made, First, deal
<1>2. DealCarried'
  BY DEF IInv, Deal, DealCarried, Closes, First, deal
<1> QED
  BY <1>1, <1>2 DEF Deal

\* A step that changes no paper, and lets no request begin to write one,
\* keeps what is said of the papers.
LEMMA PapersKept ==
    ASSUME IInv, UNCHANGED papers,
           \A q \in Requests :
              op'[q] \in Papering =>
                 op'[q] = op[q] /\ own'[q] = own[q] /\ seen'[q] = seen[q]
    PROVE  Papers'
<1>1. LetterIsReviewed'
  BY DEF IInv, Papers, LetterIsReviewed, papers
<1>2. OwnReviews'
  BY DEF IInv, Papers, OwnReviews, Papering
<1>3. PapersCarried'
  BY DEF IInv, Papers, PapersCarried, Papering, papers
<1> QED
  BY <1>1, <1>2, <1>3 DEF Papers

-----------------------------------------------------------------------------
(* The steps that write the papers.                                        *)

LEMMA MakeReviewStep ==
    ASSUME IInv, NEW r \in Requests, NEW v \in Reviews, MakeReview(r, v)
    PROVE  IInv'
<1>1. TypeOK'
  BY DEF IInv, TypeOK, MakeReview, Statuses, Ops, deal
<1>2. /\ op'[r] = "approval" /\ own'[r] = v
      /\ \A q \in Requests \ {r} : op'[q] = op[q] /\ own'[q] = own[q]
      /\ review'[v] = "Pending"
      /\ \A w \in Reviews \ {v} : review'[w] = review[w]
  BY DEF IInv, TypeOK, MakeReview
<1>3. review[v] = "absent" /\ approval[v] = "absent"
  BY DEF IInv, Papers, LetterIsReviewed, MakeReview
<1>4. UNCHANGED <<type, approval, letter, offerLetter, deal, seen, open>>
  BY DEF MakeReview
<1>5. LetterIsReviewed'
  BY <1>2, <1>3, <1>4 DEF IInv, Papers, LetterIsReviewed
<1>6. OwnReviews'
  BY <1>2, <1>3 DEF IInv, Papers, OwnReviews, PapersCarried
<1>7. PapersCarried'
  BY <1>2, <1>3, <1>4 DEF IInv, Papers, PapersCarried, Papering
<1>8. Deal'
  BY <1>2, <1>4, DealKept
<1> QED
  BY <1>1, <1>5, <1>6, <1>7, <1>8 DEF IInv, Papers

LEMMA MakeApprovalStep ==
    ASSUME IInv, NEW r \in Requests, MakeApproval(r)
    PROVE  IInv'
<1>1. own[r] \in Reviews /\ review[own[r]] = "Pending" /\ approval[own[r]] = "absent"
  BY DEF IInv, Papers, PapersCarried, Papering, MakeApproval
<1>2. TypeOK'
  BY DEF IInv, TypeOK, MakeApproval, Statuses, Ops, deal
<1>3. /\ op'[r] = "letter"
      /\ \A q \in Requests \ {r} : op'[q] = op[q]
      /\ approval'[own[r]] = "Pending"
      /\ \A w \in Reviews \ {own[r]} : approval'[w] = approval[w]
  BY <1>1 DEF IInv, TypeOK, MakeApproval
<1>4. UNCHANGED <<type, review, letter, offerLetter, deal, own, seen, open>>
  BY DEF MakeApproval
<1>5. LetterIsReviewed'
  BY <1>1, <1>3, <1>4 DEF IInv, Papers, LetterIsReviewed, Answers
<1>6. OwnReviews'
  BY <1>3, <1>4 DEF IInv, Papers, OwnReviews
<1>7. PapersCarried'
  <2>1. \A q \in Requests \ {r} : op[q] = "approval" => own[q] # own[r]
    BY DEF IInv, Papers, OwnReviews, MakeApproval
  <2> QED
    BY <1>1, <1>3, <1>4, <2>1 DEF IInv, Papers, PapersCarried, Papering
<1>8. Deal'
  BY <1>3, <1>4, DealKept
<1> QED
  BY <1>2, <1>5, <1>6, <1>7, <1>8 DEF IInv, Papers

LEMMA MakeLetterStep ==
    ASSUME IInv, NEW r \in Requests, MakeLetter(r)
    PROVE  IInv'
<1>1. own[r] \in Reviews /\ approval[own[r]] # "absent"
  BY DEF IInv, Papers, PapersCarried, Papering, MakeLetter
<1>2. TypeOK'
  BY DEF IInv, TypeOK, MakeLetter, Statuses, Ops, deal
<1>3. /\ op'[r] = "attach"
      /\ \A q \in Requests \ {r} : op'[q] = op[q]
      /\ letter'[own[r]] = "Pending"
      /\ \A w \in Reviews \ {own[r]} : letter'[w] = letter[w]
  BY <1>1 DEF IInv, TypeOK, MakeLetter
<1>4. UNCHANGED <<type, review, approval, offerLetter, deal, own, seen, open>>
  BY DEF MakeLetter
<1>5. LetterIsReviewed'
  <2>1. offerLetter # None => letter'[offerLetter] # "absent"
    BY <1>3 DEF IInv, TypeOK, Papers, LetterIsReviewed
  <2> QED
    BY <1>1, <1>3, <1>4, <2>1 DEF IInv, Papers, LetterIsReviewed, Answers
<1>6. OwnReviews'
  BY <1>3, <1>4 DEF IInv, Papers, OwnReviews
<1>7. PapersCarried'
  BY <1>1, <1>3, <1>4 DEF IInv, Papers, PapersCarried, Papering
<1>8. Deal'
  BY <1>3, <1>4, DealKept
<1> QED
  BY <1>2, <1>5, <1>6, <1>7, <1>8 DEF IInv, Papers

LEMMA AttachLetterStep ==
    ASSUME IInv, NEW r \in Requests, AttachLetter(r)
    PROVE  IInv'
<1>1. own[r] \in Reviews /\ letter[own[r]] # "absent"
  BY DEF IInv, Papers, PapersCarried, Papering, AttachLetter
<1>2. TypeOK'
  BY <1>1 DEF IInv, TypeOK, AttachLetter, Ends, Ops, deal
<1>3. /\ op'[r] = "idle"
      /\ \A q \in Requests \ {r} :
            op'[q] = op[q] /\ own'[q] = own[q] /\ seen'[q] = seen[q] /\ open'[q] = open[q]
  BY OwnEnds, OthersKept DEF IInv, AttachLetter
<1>4. UNCHANGED <<type, review, approval, letter, deal>> /\ offerLetter' = own[r]
  BY DEF AttachLetter
<1>5. LetterIsReviewed'
  BY <1>1, <1>4 DEF IInv, Papers, LetterIsReviewed
<1>6. OwnReviews' /\ PapersCarried'
  BY <1>3, <1>4 DEF IInv, Papers, OwnReviews, PapersCarried, Papering
<1>7. Deal'
  BY <1>3, <1>4, DealKept
<1> QED
  BY <1>2, <1>5, <1>6, <1>7 DEF IInv, Papers

LEMMA LoseLetterStep ==
    ASSUME IInv, NEW r \in Requests, LoseLetter(r)
    PROVE  IInv'
<1>1. TypeOK'
  <2>1. faults' \in 0 .. MaxFaults
    BY BoundsAssumption DEF IInv, TypeOK, LoseLetter
  <2> QED
    BY <2>1 DEF IInv, TypeOK, LoseLetter, Ends, Ops, deal, papers
<1>2. /\ op'[r] = "idle"
      /\ \A q \in Requests \ {r} :
            op'[q] = op[q] /\ own'[q] = own[q] /\ seen'[q] = seen[q] /\ open'[q] = open[q]
  BY OwnEnds, OthersKept DEF IInv, LoseLetter
<1>3. UNCHANGED <<type, papers, deal>>
  BY DEF LoseLetter
<1>4. Papers'
  BY <1>2, <1>3, PapersKept DEF Papering
<1>5. Deal'
  BY <1>2, <1>3, DealKept
<1> QED
  BY <1>1, <1>4, <1>5 DEF IInv

\* The answer of the developer is on an approval and a letter that are there.
LEMMA CommitAnswerStep ==
    ASSUME IInv, NEW r \in Requests, NEW a \in Answers, CommitAnswer(r, a)
    PROVE  IInv'
<1>1. /\ own[r] \in Reviews /\ approval[own[r]] # "absent"
      /\ seen[r] \in Reviews /\ letter[seen[r]] # "absent"
  BY DEF IInv, Papers, PapersCarried, Papering, CommitAnswer
<1>2. TypeOK'
  BY DEF IInv, TypeOK, CommitAnswer, Ends, Statuses, Ops, deal
<1>3. /\ op'[r] = "idle"
      /\ \A q \in Requests \ {r} :
            op'[q] = op[q] /\ own'[q] = own[q] /\ seen'[q] = seen[q] /\ open'[q] = open[q]
  BY OwnEnds, OthersKept DEF IInv, CommitAnswer
<1>4. /\ approval'[own[r]] = a /\ review'[own[r]] = a /\ letter'[seen[r]] = a
      /\ \A w \in Reviews \ {own[r]} : approval'[w] = approval[w] /\ review'[w] = review[w]
      /\ \A w \in Reviews \ {seen[r]} : letter'[w] = letter[w]
  BY <1>1 DEF IInv, TypeOK, CommitAnswer
<1>5. UNCHANGED <<type, offerLetter, deal>> /\ a # "absent"
  BY DEF CommitAnswer, Answers
<1>6. LetterIsReviewed'
  <2>1. offerLetter # None => letter'[offerLetter] # "absent"
    BY <1>4, <1>5 DEF IInv, TypeOK, Papers, LetterIsReviewed
  <2>2. \A v \in Reviews :
           /\ letter'[v] # "absent" => approval'[v] # "absent"
           /\ approval'[v] # "absent" => review'[v] = approval'[v]
    BY <1>1, <1>4, <1>5 DEF IInv, Papers, LetterIsReviewed
  <2>3. \E w \in Reviews : approval'[w] \in Answers
    BY <1>1, <1>4
  <2> QED
    BY <1>5, <2>1, <2>2, <2>3 DEF LetterIsReviewed
<1>7. OwnReviews'
  BY <1>3 DEF IInv, Papers, OwnReviews
<1>8. PapersCarried'
  BY <1>1, <1>3, <1>4, <1>5 DEF IInv, Papers, PapersCarried, Papering
<1>9. Deal'
  BY <1>3, <1>5, DealKept
<1> QED
  BY <1>2, <1>6, <1>7, <1>8, <1>9 DEF IInv, Papers

-----------------------------------------------------------------------------
(* The steps that write the closing.                                       *)

LEMMA ReadStagesStep ==
    ASSUME IInv, NEW r \in Requests, ReadStages(r)
    PROVE  IInv'
<1>1. TypeOK'
  BY DEF IInv, TypeOK, ReadStages, Ops, papers, deal, OpenStages
<1>2. /\ op'[r] = (IF op[r] = "closing" THEN "close" ELSE "reply")
      /\ open'[r] = OpenStages(stages)
      /\ op[r] # "closing" => op[r] = "respond"
      /\ \A q \in Requests \ {r} : op'[q] = op[q] /\ open'[q] = open[q]
      /\ UNCHANGED <<type, papers, deal, own, seen>>
  BY DEF IInv, TypeOK, ReadStages
<1>3. Papers'
  BY <1>2, PapersKept DEF Papering
<1>4. stages["PropertyClosing"] \in {"absent", "open", "exited"}
  BY DEF IInv, TypeOK, Stages, StageNames, StageStates
<1>5. Deal'
  <2>1. StagesAre' /\ ClosingHasEscrow'
    BY <1>2 DEF IInv, Deal, StagesAre, ClosingHasEscrow, Closes, MadeTwice, Made, First, deal
  <2>2. OpenStages(stages) =
           IF ~Closes THEN {First}
           ELSE IF stages["PropertyClosing"] = "open" THEN {"PropertyClosing"} ELSE {}
    BY OpenStagesAre DEF IInv, Deal
  <2>3. UNCHANGED <<current, stages, First, Closes>>
    BY <1>2 DEF deal, First, Closes
  <2>4. DealCarried'
    <3> SUFFICES ASSUME NEW q \in Requests
                 PROVE  /\ op'[q] = "close" =>
                              open'[q] = {First}
                              \/ (Closes /\ open'[q] \subseteq {"PropertyClosing"})
                        /\ op'[q] \in {"respond", "reply"} => current # None
                        /\ (op'[q] = "reply" /\ type' # "Mortgage") =>
                              \/ open'[q] = {"PropertyClosing"}
                              \/ stages["PropertyClosing"] = "exited" /\ open'[q] = {}
      BY <2>3 DEF DealCarried
    <3>1. CASE q = r
      BY <1>2, <1>4, <2>1, <2>2, <2>3, <3>1 DEF IInv, Deal, DealCarried, StagesAre, Closes
    <3>2. CASE q # r
      BY <1>2, <3>2 DEF IInv, Deal, DealCarried
    <3> QED
      BY <3>1, <3>2
  <2> QED
    BY <2>1, <2>4 DEF Deal
<1> QED
  BY <1>1, <1>3, <1>5 DEF IInv

\* A late second closing finds its stage entered, and what it exits exited,
\* unless it has read the stage of the first.
LEMMA CommitClosingStep ==
    ASSUME IInv, NEW r \in Requests, NEW c \in Closings, CommitClosing(r, c)
    PROVE  IInv'
<1>1. /\ open[r] = {First} \/ (Closes /\ open[r] \subseteq {"PropertyClosing"})
      /\ c # None
  BY IdsAssumption DEF IInv, Deal, DealCarried, CommitClosing
<1>2. TypeOK'
  BY DEF IInv, TypeOK, CommitClosing, Ends, Enter, Exit, Stages, StageStates,
         Statuses, Ops, papers
<1>3. /\ op'[r] = "idle"
      /\ \A q \in Requests \ {r} :
            op'[q] = op[q] /\ own'[q] = own[q] /\ seen'[q] = seen[q] /\ open'[q] = open[q]
  BY OwnEnds, OthersKept DEF IInv, CommitClosing
<1>4. UNCHANGED <<type, papers, escrow>> /\ current' = c
  BY DEF CommitClosing
<1>5. Papers'
  BY <1>3, <1>4, PapersKept DEF Papering
<1>6. First' = First /\ First \in StageNames /\ "PropertyClosing" \in StageNames
      /\ First # "PropertyClosing" /\ (Closes' <=> type # "Mortgage")
  BY <1>1, <1>4 DEF First, StageNames, Closes
<1>7. Made' = Made \cup {c} /\ c \notin Made
  BY DEF IInv, TypeOK, CommitClosing, Made
<1>8. MadeTwice => MadeTwice'
  BY <1>7 DEF MadeTwice
<1>9. StagesAre' /\ (stages["PropertyClosing"] = "exited" =>
                         stages'["PropertyClosing"] = "exited")
  <2>1. CASE type = "Mortgage"
    BY <1>4, <1>6, <1>7, <1>8, <2>1 DEF IInv, Deal, StagesAre, Closes, CommitClosing
  <2>2. CASE type # "Mortgage" /\ open[r] = {First}
    <3>1. \A s \in StageNames :
             stages'[s] = IF s = First /\ stages[s] # "absent" THEN "exited"
                          ELSE IF s = "PropertyClosing" /\ stages[s] = "absent"
                          THEN "open" ELSE stages[s]
      BY <1>6, <2>2 DEF CommitClosing, Enter, Exit
    <3> QED
      BY <1>4, <1>6, <1>7, <1>8, <2>2, <3>1 DEF IInv, Deal, StagesAre, Closes
  <2>3. CASE Closes /\ open[r] \subseteq {"PropertyClosing"}
    <3>1. \A s \in StageNames :
             stages'[s] = IF s \in open[r] /\ stages[s] # "absent" THEN "exited"
                          ELSE IF s = "PropertyClosing" /\ stages[s] = "absent"
                          THEN "open" ELSE stages[s]
      BY <1>6, <2>3 DEF CommitClosing, Enter, Exit, Closes
    <3>2. MadeTwice'
      BY <1>7, <2>3 DEF IInv, Deal, StagesAre, Closes, MadeTwice
    <3>3. \A s \in StageNames \ {"PropertyClosing"} : stages'[s] = stages[s]
      BY <2>3, <3>1
    <3>4. /\ stages["PropertyClosing"] # "absent" /\ stages'["PropertyClosing"] # "absent"
          /\ stages["PropertyClosing"] = "exited" => stages'["PropertyClosing"] = "exited"
      BY <1>6, <2>3, <3>1 DEF IInv, Deal, StagesAre
    <3> QED
      BY <1>4, <1>6, <1>7, <2>3, <3>2, <3>3, <3>4 DEF IInv, Deal, StagesAre, Closes
  <2> QED
    BY <1>1, <2>1, <2>2, <2>3
<1>10. DealCarried'
  BY <1>1, <1>3, <1>4, <1>6, <1>9 DEF IInv, Deal, DealCarried, Closes
<1>11. ClosingHasEscrow'
  BY <1>4 DEF IInv, TypeOK, Deal, ClosingHasEscrow, CommitClosing
<1> QED
  BY <1>2, <1>5, <1>9, <1>10, <1>11 DEF IInv, Deal

\* The answer exits the closing's stage, or finds it exited by another.
LEMMA CommitRespondStep ==
    ASSUME IInv, NEW r \in Requests, NEW a \in Answers, CommitRespond(r, a)
    PROVE  IInv'
<1>1. /\ current # None
      /\ type # "Mortgage" =>
            \/ open[r] = {"PropertyClosing"}
            \/ stages["PropertyClosing"] = "exited" /\ open[r] = {}
  BY DEF IInv, Deal, DealCarried, CommitRespond
<1>2. TypeOK'
  BY DEF IInv, TypeOK, CommitRespond, Ends, Exit, Stages, StageStates,
         Statuses, Ops, papers
<1>3. /\ op'[r] = "idle"
      /\ \A q \in Requests \ {r} :
            op'[q] = op[q] /\ own'[q] = own[q] /\ seen'[q] = seen[q] /\ open'[q] = open[q]
  BY OwnEnds, OthersKept DEF IInv, CommitRespond
<1>4. UNCHANGED <<type, papers, current>> /\ (escrow => escrow')
  BY DEF CommitRespond, IInv, TypeOK
<1>5. Papers'
  BY <1>3, <1>4, PapersKept DEF Papering
<1>6. First' = First /\ First \in StageNames /\ "PropertyClosing" \in StageNames
      /\ First # "PropertyClosing" /\ (Closes' <=> Closes)
  BY <1>4 DEF First, StageNames, Closes
<1>7. Made \subseteq Made'
  BY DEF IInv, TypeOK, CommitRespond, Made, Answers
<1>8. MadeTwice => MadeTwice'
  BY <1>7 DEF MadeTwice
<1>9. StagesAre' /\ (stages["PropertyClosing"] = "exited" =>
                         stages'["PropertyClosing"] = "exited")
  <2>1. CASE a = "Approved" /\ type = "Outright"
    <3>1. \A s \in StageNames :
             stages'[s] = IF s \in open[r] /\ stages[s] # "absent" THEN "exited"
                          ELSE stages[s]
      BY <2>1 DEF CommitRespond, Exit
    <3>2. escrow' /\ Closes
      BY <1>1, <2>1 DEF CommitRespond, Closes
    <3>3. /\ stages'["PropertyClosing"] = "exited"
          /\ \A s \in StageNames \ {"PropertyClosing"} : stages'[s] = stages[s]
      BY <1>1, <1>6, <2>1, <3>1, <3>2 DEF IInv, Deal, StagesAre
    <3> QED
      BY <1>1, <1>4, <1>6, <1>7, <3>2, <3>3 DEF IInv, Deal, StagesAre
  <2>2. CASE ~(a = "Approved" /\ type = "Outright")
    BY <1>4, <1>6, <1>7, <1>8, <2>2 DEF IInv, Deal, StagesAre, CommitRespond
  <2> QED
    BY <2>1, <2>2
<1>10. DealCarried'
  BY <1>3, <1>4, <1>6, <1>9 DEF IInv, Deal, DealCarried
<1>11. ClosingHasEscrow'
  BY <1>4 DEF IInv, TypeOK, Deal, ClosingHasEscrow, CommitRespond
<1> QED
  BY <1>2, <1>5, <1>9, <1>10, <1>11 DEF IInv, Deal

-----------------------------------------------------------------------------
(* The theorems.                                                           *)

LEMMA Inductive == IInv /\ [Next]_vars => IInv'
<1> SUFFICES ASSUME IInv, [Next]_vars PROVE IInv'
  OBVIOUS
<1>1. CASE UNCHANGED vars
  <2>1. UNCHANGED <<type, papers, deal, op, own, seen, open, faults>>
    BY <1>1 DEF vars, calls
  <2>2. TypeOK'
    BY <2>1 DEF IInv, TypeOK, papers, deal
  <2>3. Papers' /\ Deal'
    BY <2>1, PapersKept, DealKept
  <2> QED
    BY <2>2, <2>3 DEF IInv
<1>2. ASSUME NEW r \in Requests, HomeBuyer(r)
      PROVE  IInv'
  <2>1. CASE ReadForLetter(r)
    BY <2>1, ReadStep DEF ReadForLetter
  <2>2. CASE \E v \in Reviews : MakeReview(r, v)
    BY <2>2, MakeReviewStep
  <2>3. CASE MakeApproval(r)
    BY <2>3, MakeApprovalStep
  <2>4. CASE MakeLetter(r)
    BY <2>4, MakeLetterStep
  <2>5. CASE AttachLetter(r)
    BY <2>5, AttachLetterStep
  <2>6. CASE LoseLetter(r)
    BY <2>6, LoseLetterStep
  <2>7. CASE ReadForClosing(r)
    BY <2>7, ReadStep DEF ReadForClosing
  <2>8. CASE \E c \in Closings : CommitClosing(r, c)
    BY <2>8, CommitClosingStep
  <2>9. CASE ReadStages(r)
    BY <2>9, ReadStagesStep
  <2> QED
    BY <1>2, <2>1, <2>2, <2>3, <2>4, <2>5, <2>6, <2>7, <2>8, <2>9 DEF HomeBuyer
<1>3. ASSUME NEW r \in Requests, Developer(r)
      PROVE  IInv'
  <2>1. CASE \E v \in Reviews : ReadForAnswer(r, v)
    <3>1. PICK v \in Reviews : ReadForAnswer(r, v)
      BY <2>1
    <3> QED
      BY <3>1, ReadStep DEF ReadForAnswer
  <2>2. CASE ReadForRespond(r)
    <3>1. current \in Closings
      BY <2>2 DEF IInv, TypeOK, ReadForRespond
    <3> QED
      BY <2>2, <3>1, ReadStep DEF ReadForRespond
  <2>3. CASE \E a \in Answers : CommitAnswer(r, a)
    BY <2>3, CommitAnswerStep
  <2>4. CASE \E a \in Answers : CommitRespond(r, a)
    BY <2>4, CommitRespondStep
  <2> QED
    BY <1>3, <2>1, <2>2, <2>3, <2>4 DEF Developer
<1> QED
  BY <1>1, <1>2, <1>3 DEF Next

LEMMA Invariant == Spec => []IInv
BY InitHolds, Inductive, PTL DEF Spec

\* Type correctness, for any sets of requests, reviews and closings.
THEOREM TypeCorrect == Spec => []TypeOK
<1>1. IInv => TypeOK
  BY DEF IInv
<1> QED
  BY <1>1, Invariant, PTL

\* The papers of an offer letter are whole in every state, however the
\* statements of requestOfferLetter and the answers interleave and stop.
THEOREM PapersAreWhole == Spec => []LetterIsReviewed
<1>1. IInv => LetterIsReviewed
  BY DEF IInv, Papers
<1> QED
  BY <1>1, Invariant, PTL

\* requestPropertyClosing and propertyClosingRespond, on a row and stages they
\* read one after the other and long before, never leave the application at
\* two stages, and at none only after a second closing or with its escrow,
\* which no late request undoes.
THEOREM StagesFollow == Spec => []AtOneStage
<1>1. IInv => AtOneStage
  BY OneStage DEF IInv, Deal
<1> QED
  BY <1>1, Invariant, PTL

\* An approved closing of an outright purchase has its escrow, and no other
\* purchase ever gets one.
THEOREM EscrowFollows == Spec => []ClosingHasEscrow
<1>1. IInv => ClosingHasEscrow
  BY DEF IInv, Deal
<1> QED
  BY <1>1, Invariant, PTL

-----------------------------------------------------------------------------
(* The inspections and their connections.                                  *)

\* Sets that differ in one element at most.
LEMMA CountMoves ==
    ASSUME NEW A, IsFiniteSet(A), NEW S \in SUBSET A, NEW T \in SUBSET A, NEW x \in A,
           S \ {x} = T \ {x}
    PROVE  /\ Cardinality(S) \in Nat /\ Cardinality(T) \in Nat
           /\ Cardinality(T) = Cardinality(S) - (IF x \in S THEN 1 ELSE 0)
                                              + (IF x \in T THEN 1 ELSE 0)
<1> DEFINE U == S \ {x}
<1>1. U \in SUBSET A /\ IsFiniteSet(U) /\ Cardinality(U) \in Nat
  BY FS_Subset, FS_CardinalityType
<1>2. IsFiniteSet(U \cup {x}) /\ Cardinality(U \cup {x}) = Cardinality(U) + 1
  BY <1>1, FS_AddElement
<1>3. /\ x \in S => S = U \cup {x}
      /\ x \notin S => S = U
      /\ x \in T => T = U \cup {x}
      /\ x \notin T => T = U
  OBVIOUS
<1>4. /\ x \in S => Cardinality(S) = Cardinality(U) + 1
      /\ x \notin S => Cardinality(S) = Cardinality(U)
      /\ x \in T => Cardinality(T) = Cardinality(U) + 1
      /\ x \notin T => Cardinality(T) = Cardinality(U)
  BY <1>2, <1>3, Zenon
<1> HIDE DEF U
<1> QED
  BY <1>1, <1>4

\* The sets an instance counts are those counted here.
LEMMA SameCardinality == \A S : Viewing!Cardinality(S) = Cardinality(S)
BY DEF Viewing!Cardinality, Cardinality

LEMMA SameFinite == \A S : Viewing!IsFiniteSet(S) = IsFiniteSet(S)
BY DEF Viewing!IsFiniteSet, IsFiniteSet

LEMMA FiniteRequests == IsFiniteSet(Requests) /\ Cardinality(Requests) \in Nat
<1>1. Viewing!IsFiniteSet(Requests)
  BY ViewingAssumptions DEF Viewing!RequestsAssumption
<1>2. IsFiniteSet(Requests)
  BY <1>1, SameFinite
<1> QED
  BY <1>2, FS_CardinalityType

\* Requests that may still book, and those that hold a connection.
Booking == {r \in Requests : doing[r] \in {"begin", "slot", "insert"}}
Holding == {r \in Requests : doing[r] \in Viewing!Holds}

\* An answer is about an inspection.
AnswersNamed ==
    \A r \in Requests : doing[r] = "answer" => item[r] \in Inspections

\* There is never room for more bookings than requests: whoever starts one
\* sees no inspection, and each request that is under way makes one at most.
RoomToBook ==
    /\ IsFiniteSet(Viewing!Booked)
    /\ Cardinality(Viewing!Booked) + Cardinality(Booking) <= Cardinality(Requests)

ViewingInv == Viewing!TypeOK /\ AnswersNamed /\ RoomToBook

\* What a request's move to another place changes in the counts.
LEMMA Moves ==
    ASSUME Viewing!TypeOK, NEW r \in Requests, NEW next \in Viewing!Ops,
           Viewing!To(r, next)
    PROVE  /\ doing' \in [Requests -> Viewing!Ops]
           /\ \A q \in Requests : doing'[q] = IF q = r THEN next ELSE doing[q]
           /\ Cardinality(Requests) \in Nat
           /\ Cardinality(Holding) \in Nat /\ Cardinality(Booking) \in Nat
           /\ Cardinality(Holding') = Cardinality(Holding)
                - (IF doing[r] \in Viewing!Holds THEN 1 ELSE 0)
                + (IF next \in Viewing!Holds THEN 1 ELSE 0)
           /\ Cardinality(Booking') = Cardinality(Booking)
                - (IF doing[r] \in {"begin", "slot", "insert"} THEN 1 ELSE 0)
                + (IF next \in {"begin", "slot", "insert"} THEN 1 ELSE 0)
<1>1. /\ doing' \in [Requests -> Viewing!Ops]
      /\ \A q \in Requests : doing'[q] = IF q = r THEN next ELSE doing[q]
  BY DEF Viewing!TypeOK, Viewing!To
<1>2. IsFiniteSet(Requests)
  BY FiniteRequests
<1>3. Cardinality(Requests) \in Nat
  BY FiniteRequests
<1>4. /\ Holding \in SUBSET Requests /\ Holding' \in SUBSET Requests
      /\ Holding \ {r} = Holding' \ {r}
      /\ r \in Holding <=> doing[r] \in Viewing!Holds
      /\ r \in Holding' <=> next \in Viewing!Holds
  BY <1>1 DEF Holding
<1>5. /\ Booking \in SUBSET Requests /\ Booking' \in SUBSET Requests
      /\ Booking \ {r} = Booking' \ {r}
      /\ r \in Booking <=> doing[r] \in {"begin", "slot", "insert"}
      /\ r \in Booking' <=> next \in {"begin", "slot", "insert"}
  BY <1>1 DEF Booking
<1>6. /\ Cardinality(Holding) \in Nat
      /\ Cardinality(Holding') = Cardinality(Holding)
           - (IF r \in Holding THEN 1 ELSE 0) + (IF r \in Holding' THEN 1 ELSE 0)
  BY <1>2, <1>4, CountMoves
<1>7. /\ Cardinality(Booking) \in Nat
      /\ Cardinality(Booking') = Cardinality(Booking)
           - (IF r \in Booking THEN 1 ELSE 0) + (IF r \in Booking' THEN 1 ELSE 0)
  BY <1>2, <1>5, CountMoves
<1> QED
  BY <1>1, <1>3, <1>4, <1>5, <1>6, <1>7

LEMMA FreeIs == Viewing!Free = PoolSize - leaked - Cardinality(Holding)
<1>1. Viewing!Free = PoolSize - leaked - Viewing!Cardinality(Holding)
  BY DEF Viewing!Free, Holding
<1> QED
  BY <1>1, SameCardinality

LEMMA ViewingInit == Viewing!Init => ViewingInv
<1> SUFFICES ASSUME Viewing!Init PROVE ViewingInv
  OBVIOUS
<1> USE DEF Viewing!Init
<1>1. Holding = {} /\ Booking = {} /\ Viewing!Booked = {}
  BY DEF Holding, Booking, Viewing!Booked, Viewing!Holds
<1>2. IsFiniteSet({}) /\ Cardinality({}) = 0
  BY FS_EmptySet
<1>3. Cardinality(Requests) \in Nat
  BY FiniteRequests
<1>4. Viewing!TypeOK
  BY <1>1, <1>2, FreeIs, ViewingAssumptions
     DEF Viewing!TypeOK, Viewing!PoolAssumption, Viewing!Statuses, Viewing!Ops
<1> QED
  BY <1>1, <1>2, <1>3, <1>4 DEF ViewingInv, AnswersNamed, RoomToBook

\* The steps of a booking before its row: none goes back, and only a first
\* look that sees no inspection begins one.
LEMMA BookingStep ==
    ASSUME ViewingInv, NEW r \in Requests, NEW next \in Viewing!Ops \ {"answer"},
           Viewing!To(r, next),
           \/ /\ doing[r] = "idle" /\ next = "begin"
              /\ Viewing!Booked = {} /\ leaked' = leaked
           \/ /\ doing[r] = "begin" /\ next = "slot"
              /\ Viewing!Free > 0 /\ leaked' = leaked
           \/ doing[r] = "slot" /\ next \in {"insert", "fee"} /\ leaked' = leaked
           \/ doing[r] \in {"begin", "insert", "fee", "commit"} /\ next = "idle" /\ leaked' = leaked
           \/ doing[r] \in {"slot", "fee"} /\ next = "idle" /\ leaked' = leaked + 1,
           UNCHANGED <<inspection, item>>
    PROVE  ViewingInv'
<1> USE DEF ViewingInv
<1>0. /\ doing' \in [Requests -> Viewing!Ops]
      /\ \A q \in Requests : doing'[q] = IF q = r THEN next ELSE doing[q]
      /\ Cardinality(Holding') = Cardinality(Holding)
           - (IF doing[r] \in Viewing!Holds THEN 1 ELSE 0)
           + (IF next \in Viewing!Holds THEN 1 ELSE 0)
      /\ Cardinality(Booking') = Cardinality(Booking)
           - (IF doing[r] \in {"begin", "slot", "insert"} THEN 1 ELSE 0)
           + (IF next \in {"begin", "slot", "insert"} THEN 1 ELSE 0)
  BY Moves
<1>1. /\ leaked \in Nat /\ leaked + Cardinality(Holding) <= PoolSize
      /\ Cardinality(Holding) \in Nat /\ PoolSize \in Nat
  BY Moves, FreeIs, ViewingAssumptions DEF Viewing!TypeOK, Viewing!PoolAssumption
<1>2. /\ leaked' \in Nat /\ Cardinality(Holding') \in Nat
      /\ leaked' + Cardinality(Holding') <= PoolSize
  <2>1. Cardinality(Holding') \in Nat
    BY FiniteRequests, FS_Subset, FS_CardinalityType DEF Holding
  <2>2. CASE doing[r] = "idle" /\ next = "begin" /\ leaked' = leaked
    BY <1>0, <1>1, <2>1, <2>2 DEF Viewing!Holds
  <2>3. CASE doing[r] = "begin" /\ next = "slot" /\ Viewing!Free > 0 /\ leaked' = leaked
    BY <1>0, <1>1, <2>1, <2>3, FreeIs DEF Viewing!Holds
  <2>4. CASE doing[r] = "slot" /\ next \in {"insert", "fee"} /\ leaked' = leaked
    BY <1>0, <1>1, <2>1, <2>4 DEF Viewing!Holds
  <2>5. CASE next = "idle" /\ leaked' = leaked
    BY <1>0, <1>1, <2>1, <2>5 DEF Viewing!Holds
  <2>6. CASE doing[r] \in {"slot", "fee"} /\ next = "idle" /\ leaked' = leaked + 1
    BY <1>0, <1>1, <2>1, <2>6 DEF Viewing!Holds
  <2> QED
    BY <2>2, <2>3, <2>4, <2>5, <2>6
<1>3. (Viewing!Free = PoolSize - leaked - Cardinality(Holding))'
  BY FreeIs, PTL
<1>4. Viewing!TypeOK'
  BY <1>1, <1>2, <1>3, Moves DEF Viewing!TypeOK
<1>5. AnswersNamed'
  BY Moves DEF AnswersNamed
<1>6. Viewing!Booked' = Viewing!Booked
  BY DEF Viewing!Booked
<1>7. IsFiniteSet(Viewing!Booked) /\ Cardinality(Viewing!Booked) \in Nat
  BY FS_CardinalityType DEF RoomToBook
<1>8. CASE doing[r] = "idle"
  <2>1. Cardinality(Viewing!Booked) = 0
    BY <1>8, FS_EmptySet
  <2>2. Booking' \in SUBSET Requests
    BY DEF Booking
  <2>3. Cardinality(Booking') <= Cardinality(Requests)
    BY <2>2, FS_Subset, FiniteRequests
  <2> QED
    BY <1>4, <1>5, <1>6, <1>7, <2>1, <2>3, Moves DEF RoomToBook
<1>9. CASE doing[r] # "idle"
  <2>1. Cardinality(Booking) \in Nat /\ Cardinality(Booking') \in Nat
    BY FiniteRequests, FS_Subset, FS_CardinalityType DEF Booking
  <2>2. next \in {"slot", "insert"} => doing[r] \in {"begin", "slot"}
    BY <1>9
  <2>3. next \in {"idle", "slot", "insert", "fee"}
    BY <1>9
  <2>4. Cardinality(Booking') <= Cardinality(Booking)
    BY <1>0, <2>1, <2>2, <2>3
  <2> QED
    BY <1>4, <1>5, <1>6, <1>7, <2>1, <2>4, FiniteRequests DEF RoomToBook
<1> QED
  BY <1>8, <1>9

\* The row of a booking takes the place of its request in the count.
LEMMA InsertStep ==
    ASSUME ViewingInv, NEW r \in Requests, NEW i \in Inspections, Viewing!Insert(r, i)
    PROVE  ViewingInv'
<1> USE DEF ViewingInv
<1>1. /\ doing[r] = "insert" /\ Viewing!To(r, "commit") /\ "commit" \in Viewing!Ops
      /\ inspection[i] = "absent" /\ inspection' = [inspection EXCEPT ![i] = "Pending"]
      /\ UNCHANGED <<leaked, item>>
  BY DEF Viewing!Insert, Viewing!Runs, Viewing!Ops, Viewing!Holds
<1>2. /\ doing' \in [Requests -> Viewing!Ops]
      /\ \A q \in Requests : doing'[q] = IF q = r THEN "commit" ELSE doing[q]
      /\ Cardinality(Holding') = Cardinality(Holding)
      /\ Cardinality(Booking') = Cardinality(Booking) - 1
      /\ Cardinality(Holding) \in Nat /\ Cardinality(Booking) \in Nat
  BY <1>1, Moves DEF Viewing!Holds
<1>3. (Viewing!Free = PoolSize - leaked - Cardinality(Holding))'
  BY FreeIs, PTL
<1>4. Viewing!TypeOK'
  BY <1>1, <1>2, <1>3, FreeIs DEF Viewing!TypeOK, Viewing!Statuses
<1>5. AnswersNamed'
  BY <1>1, <1>2 DEF AnswersNamed
<1>6. Viewing!Booked' = Viewing!Booked \cup {i} /\ i \notin Viewing!Booked
  BY <1>1 DEF Viewing!Booked, Viewing!TypeOK
<1>7. /\ IsFiniteSet(Viewing!Booked')
      /\ Cardinality(Viewing!Booked') = Cardinality(Viewing!Booked) + 1
      /\ Cardinality(Viewing!Booked) \in Nat
  BY <1>6, FS_AddElement, FS_CardinalityType DEF RoomToBook
<1> QED
  BY <1>2, <1>4, <1>5, <1>7, FiniteRequests DEF RoomToBook

\* An answer, its failure and its look keep the pool and the room to book.
LEMMA AnswerStep ==
    ASSUME ViewingInv, NEW r \in Requests, NEW next \in {"idle", "answer"},
           Viewing!To(r, next), doing[r] \in {"idle", "answer"},
           inspection' \in [Inspections -> Viewing!Statuses],
           Viewing!Booked' = Viewing!Booked,
           item' \in [Requests -> Inspections \cup {Viewing!None}],
           next = "answer" => item'[r] \in Inspections,
           \A q \in Requests \ {r} : item'[q] = item[q],
           UNCHANGED leaked
    PROVE  ViewingInv'
<1> USE DEF ViewingInv
<1>1. /\ doing' \in [Requests -> Viewing!Ops]
      /\ \A q \in Requests : doing'[q] = IF q = r THEN next ELSE doing[q]
      /\ Cardinality(Holding') = Cardinality(Holding)
      /\ Cardinality(Booking') = Cardinality(Booking)
      /\ Cardinality(Holding) \in Nat /\ Cardinality(Booking) \in Nat
  BY Moves DEF Viewing!Holds, Viewing!Ops
<1>2. (Viewing!Free = PoolSize - leaked - Cardinality(Holding))'
  BY FreeIs, PTL
<1>3. Viewing!Free' = Viewing!Free
  BY <1>1, <1>2, FreeIs
<1>4. Viewing!TypeOK'
  BY <1>1, <1>3 DEF Viewing!TypeOK
<1>5. AnswersNamed'
  BY <1>1 DEF AnswersNamed
<1>6. RoomToBook'
  BY <1>1 DEF RoomToBook
<1> QED
  BY <1>4, <1>5, <1>6

\* Deleting makes room.
LEMMA DeleteStep ==
    ASSUME ViewingInv, NEW i \in Inspections, Viewing!Delete(i)
    PROVE  ViewingInv'
<1> USE DEF ViewingInv, Viewing!Delete
<1>1. Holding' = Holding /\ Booking' = Booking
  BY DEF Holding, Booking
<1>2. (Viewing!Free = PoolSize - leaked - Cardinality(Holding))'
  BY FreeIs, PTL
<1>3. Viewing!Free' = Viewing!Free
  BY <1>1, <1>2, FreeIs
<1>4. Viewing!TypeOK' /\ AnswersNamed'
  BY <1>3 DEF Viewing!TypeOK, Viewing!Statuses, AnswersNamed
<1>5. Viewing!Booked' \in SUBSET Viewing!Booked
  BY DEF Viewing!Booked, Viewing!TypeOK
<1>6. /\ IsFiniteSet(Viewing!Booked')
      /\ Cardinality(Viewing!Booked') <= Cardinality(Viewing!Booked)
      /\ Cardinality(Viewing!Booked') \in Nat /\ Cardinality(Viewing!Booked) \in Nat
  BY <1>5, FS_Subset, FS_CardinalityType DEF RoomToBook
<1>7. Cardinality(Booking) \in Nat
  BY FiniteRequests, FS_Subset, FS_CardinalityType DEF Booking
<1> QED
  BY <1>1, <1>4, <1>6, <1>7, FiniteRequests DEF RoomToBook

\* The status is set by a request that read nothing: no request moves.
LEMMA SetStatusStep ==
    ASSUME ViewingInv, NEW i \in Inspections, NEW s \in Viewing!Final,
           Viewing!SetStatus(i, s)
    PROVE  ViewingInv'
<1> USE DEF ViewingInv, Viewing!SetStatus
<1>1. Holding' = Holding /\ Booking' = Booking
  BY DEF Holding, Booking
<1>2. (Viewing!Free = PoolSize - leaked - Cardinality(Holding))'
  BY FreeIs, PTL
<1>3. Viewing!Free' = Viewing!Free
  BY <1>1, <1>2, FreeIs
<1>4. Viewing!TypeOK' /\ AnswersNamed'
  BY <1>3 DEF Viewing!TypeOK, Viewing!Statuses, AnswersNamed
<1>5. Viewing!Booked' = Viewing!Booked
  BY DEF Viewing!Booked, Viewing!TypeOK, Viewing!Final
<1> QED
  BY <1>1, <1>4, <1>5 DEF RoomToBook

\* Only an inspection that is there is answered, whoever answers it.
LEMMA AnswerCases ==
    ASSUME ViewingInv, NEW r \in Requests,
           \/ Viewing!UpdateStatus(r) \/ Viewing!FailStatus(r)
           \/ \E i \in Inspections : Viewing!ReadForStatus(r, i)
    PROVE  ViewingInv'
<1> USE DEF ViewingInv
<1>1. CASE Viewing!UpdateStatus(r)
  <2>1. item[r] \in Inspections /\ inspection[item[r]] # "absent"
    BY <1>1 DEF Viewing!UpdateStatus, Viewing!Runs, AnswersNamed
  <2>2. PICK s \in Viewing!Final : inspection' = [inspection EXCEPT ![item[r]] = s]
    BY <1>1 DEF Viewing!UpdateStatus
  <2>3. Viewing!Booked' = Viewing!Booked
    BY <2>1, <2>2 DEF Viewing!Booked, Viewing!Final, Viewing!TypeOK
  <2>4. inspection' \in [Inspections -> Viewing!Statuses]
    BY <2>2 DEF Viewing!Statuses, Viewing!TypeOK
  <2> QED
    BY <1>1, <2>3, <2>4, AnswerStep DEF Viewing!UpdateStatus, Viewing!Runs, Viewing!TypeOK
<1>2. CASE Viewing!FailStatus(r)
  <2>1. Viewing!Booked' = Viewing!Booked
    BY <1>2 DEF Viewing!Booked, Viewing!FailStatus
  <2> QED
    BY <1>2, <2>1, AnswerStep DEF Viewing!FailStatus, Viewing!TypeOK
<1>3. ASSUME NEW i \in Inspections, Viewing!ReadForStatus(r, i)
      PROVE  ViewingInv'
  <2>1. Viewing!Booked' = Viewing!Booked
    BY <1>3 DEF Viewing!Booked, Viewing!ReadForStatus
  <2> QED
    BY <1>3, <2>1, AnswerStep DEF Viewing!ReadForStatus, Viewing!Runs, Viewing!TypeOK
<1> QED
  BY <1>1, <1>2, <1>3

LEMMA ViewingStep == ViewingInv /\ [Viewing!Next]_(Viewing!vars) => ViewingInv'
<1> SUFFICES ASSUME ViewingInv, [Viewing!Next]_(Viewing!vars) PROVE ViewingInv'
  OBVIOUS
<1>0. CASE UNCHANGED Viewing!vars
  BY <1>0 DEF Viewing!vars, ViewingInv, Viewing!TypeOK, Viewing!Free, AnswersNamed,
              RoomToBook, Viewing!Booked, Booking
<1> USE DEF Viewing!Runs, Viewing!Ops, Viewing!Holds
<1>1. ASSUME NEW r \in Requests, Viewing!Start(r) \/ Viewing!Begin(r) PROVE ViewingInv'
  BY <1>1, BookingStep DEF Viewing!Start, Viewing!Begin
<1>2. ASSUME NEW r \in Requests, Viewing!FindSlot(r) PROVE ViewingInv'
  BY <1>2, BookingStep DEF Viewing!FindSlot
<1>3. ASSUME NEW r \in Requests, Viewing!AskForFee(r) \/ Viewing!Commit(r) \/ Viewing!Rollback(r)
      PROVE  ViewingInv'
  BY <1>3, BookingStep DEF Viewing!AskForFee, Viewing!Commit, Viewing!Rollback
<1>4. ASSUME NEW r \in Requests, Viewing!AcquireTimeout(r) PROVE ViewingInv'
  BY <1>4, BookingStep DEF Viewing!AcquireTimeout
<1> QED
  BY <1>0, <1>1, <1>2, <1>3, <1>4, InsertStep, DeleteStep, AnswerCases, SetStatusStep
     DEF Viewing!Next, Viewing!Proceed

-----------------------------------------------------------------------------
(* The loan officer.                                                       *)

\* What a request that came alone relies on: the application has not changed
\* since it was read, nor have its assignments.
CameAlone ==
    /\ \A r, s \in Requests : (doing[r] # "idle" /\ doing[s] # "idle") => r = s
    /\ \A r \in Requests :
          /\ doing[r] # "idle" => read[r] = item
          /\ doing[r] = "write" => list[r] = Officer!Rows

OfficerInv == Officer!TypeOK /\ Officer!OneOfficer /\ (~crossed => CameAlone)

LEMMA OfficerInit == Officer!Init => OfficerInv
BY OfficerAssumptions
   DEF Officer!Init, OfficerInv, Officer!TypeOK, Officer!OneOfficer, CameAlone,
       Officer!Rows, Officer!NobodyAssumption

\* Rows are only added.
LEMMA RowsGrow ==
    ASSUME OfficerInv, NEW r \in Requests, NEW a \in Assignments,
           Officer!CommitAgain(r, a) \/ Officer!CommitNew(r, a)
    PROVE  /\ officer' \in [Assignments -> Officers \cup {Officer!Nobody}]
           /\ Officer!Rows' = Officer!Rows \cup {a}
           /\ \A b \in Assignments \ {a} : officer'[b] = officer[b]
           /\ officer'[a] = wanted[r]
<1> USE DEF OfficerInv, Officer!TypeOK, Officer!Rows
<1>1. CASE Officer!CommitAgain(r, a)
  BY <1>1 DEF Officer!CommitAgain, Officer!Existing
<1>2. CASE Officer!CommitNew(r, a)
  BY <1>2 DEF Officer!CommitNew
<1> QED
  BY <1>1, <1>2

\* A request that ends leaves the others as they were.
LEMMA OfficerEnds ==
    ASSUME Officer!TypeOK, NEW r \in Requests, Officer!Ends(r)
    PROVE  /\ doing' \in [Requests -> {"idle", "list", "write"}]
           /\ wanted' \in [Requests -> Officers \cup {Officer!Nobody}]
           /\ read' \in [Requests -> Assignments \cup {Officer!Nobody}]
           /\ doing'[r] = "idle" /\ list'[r] = {} /\ DOMAIN list' = Requests
           /\ list' = [q \in Requests |-> IF q = r THEN {} ELSE list[q]]
           /\ \A q \in Requests \ {r} :
                 doing'[q] = doing[q] /\ read'[q] = read[q] /\ list'[q] = list[q]
           /\ crossed' = crossed
BY DEF Officer!TypeOK, Officer!Ends

\* A request that came alone leaves nobody behind.
LEMMA AloneEnds ==
    ASSUME OfficerInv, NEW r \in Requests, Officer!Ends(r), doing[r] # "idle", ~crossed
    PROVE  \A q \in Requests : doing'[q] = "idle"
BY OfficerEnds DEF OfficerInv, CameAlone

LEMMA CommitStep ==
    ASSUME OfficerInv, NEW r \in Requests, NEW a \in Assignments,
           Officer!CommitAgain(r, a) \/ Officer!CommitNew(r, a)
    PROVE  OfficerInv'
<1> USE DEF OfficerInv
<1>1. /\ doing[r] = "write" /\ Officer!Ends(r)
      /\ active' = Officer!Ended(r) \cup {a} /\ item' = a
  BY DEF Officer!CommitAgain, Officer!CommitNew
<1>2. Officer!TypeOK'
  <2>1. Officer!Rows \subseteq Officer!Rows' /\ active' \subseteq Officer!Rows'
    BY <1>1, RowsGrow DEF Officer!TypeOK, Officer!Ended
  <2>2. list' \in [Requests -> SUBSET Officer!Rows']
    BY <1>1, <2>1, OfficerEnds DEF Officer!TypeOK
  <2> QED
    BY <1>1, <2>1, <2>2, RowsGrow, OfficerEnds DEF Officer!TypeOK
<1>3. Officer!OneOfficer'
  <2> SUFFICES ASSUME ~crossed
               PROVE  /\ active' = {a}
                      /\ \A b, c \in Officer!Rows' : officer'[b] = officer'[c] => b = c
    BY <1>1, OfficerEnds, OfficerAssumptions DEF Officer!OneOfficer, Officer!NobodyAssumption
  <2>1. read[r] = item /\ list[r] = Officer!Rows
    BY <1>1 DEF CameAlone
  <2>2. active = {item} \ {Officer!Nobody} /\ active \subseteq Officer!Rows
    BY DEF Officer!OneOfficer, Officer!TypeOK
  <2>3. Officer!Ended(r) = {}
    BY <2>1, <2>2 DEF Officer!Ended
  <2>4. \A b \in Officer!Rows \ {a} : officer[b] # wanted[r]
    <3>1. CASE Officer!CommitAgain(r, a)
      BY <2>1, <3>1 DEF Officer!CommitAgain, Officer!Existing, Officer!OneOfficer
    <3>2. CASE Officer!CommitNew(r, a)
      BY <2>1, <3>2 DEF Officer!CommitNew, Officer!Existing
    <3> QED
      BY <3>1, <3>2
  <2>5. \A b, c \in Officer!Rows' : officer'[b] = officer'[c] => b = c
    BY <2>4, RowsGrow DEF Officer!OneOfficer, Officer!Rows
  <2> QED
    BY <1>1, <2>3, <2>5
<1>4. ~crossed' => CameAlone'
  BY <1>1, OfficerEnds, AloneEnds DEF CameAlone
<1> QED
  BY <1>2, <1>3, <1>4

LEMMA CommitNoneStep ==
    ASSUME OfficerInv, NEW r \in Requests, Officer!CommitNone(r)
    PROVE  OfficerInv'
<1> USE DEF OfficerInv
<1>1. /\ doing[r] = "write" /\ Officer!Ends(r) /\ officer' = officer
      /\ active' = Officer!Ended(r) /\ item' = Officer!Nobody /\ Officer!Rows' = Officer!Rows
  BY DEF Officer!CommitNone, Officer!Rows
<1>2. Officer!TypeOK'
  <2>1. list' \in [Requests -> SUBSET Officer!Rows']
    BY <1>1, OfficerEnds DEF Officer!TypeOK
  <2> QED
    BY <1>1, <2>1, OfficerEnds DEF Officer!TypeOK, Officer!Ended
<1>3. Officer!OneOfficer'
  BY <1>1, OfficerEnds DEF Officer!OneOfficer, Officer!TypeOK, Officer!Ended, CameAlone
<1>4. ~crossed' => CameAlone'
  BY <1>1, OfficerEnds, AloneEnds DEF CameAlone
<1> QED
  BY <1>2, <1>3, <1>4

LEMMA OfficerStep == OfficerInv /\ [Officer!Next]_(Officer!vars) => OfficerInv'
<1> SUFFICES ASSUME OfficerInv, [Officer!Next]_(Officer!vars) PROVE OfficerInv'
  OBVIOUS
<1> USE DEF OfficerInv
<1>0. CASE UNCHANGED Officer!vars
  BY <1>0 DEF Officer!vars, Officer!rows, Officer!TypeOK, Officer!OneOfficer, Officer!Rows,
              CameAlone
<1>1. ASSUME NEW r \in Requests, NEW o \in Officers \cup {Officer!Nobody},
             Officer!ReadApplication(r, o)
      PROVE  OfficerInv'
  <2>1. Officer!Rows' = Officer!Rows
    BY <1>1 DEF Officer!ReadApplication, Officer!rows, Officer!Rows
  <2>2. Officer!TypeOK'
    BY <1>1, <2>1 DEF Officer!ReadApplication, Officer!rows, Officer!TypeOK
  <2>3. Officer!OneOfficer'
    BY <1>1, <2>1 DEF Officer!ReadApplication, Officer!rows, Officer!OneOfficer, Officer!TypeOK
  <2>4. ~crossed' => CameAlone'
    BY <1>1, <2>1 DEF Officer!ReadApplication, Officer!rows, Officer!TypeOK, CameAlone
  <2> QED
    BY <2>2, <2>3, <2>4
<1>2. ASSUME NEW r \in Requests, Officer!ReadAssignments(r)
      PROVE  OfficerInv'
  <2>1. Officer!Rows' = Officer!Rows
    BY <1>2 DEF Officer!ReadAssignments, Officer!rows, Officer!Rows
  <2> QED
    BY <1>2, <2>1 DEF Officer!ReadAssignments, Officer!rows, Officer!TypeOK,
                      Officer!OneOfficer, CameAlone
<1>3. ASSUME NEW r \in Requests, Officer!Abort(r)
      PROVE  OfficerInv'
  <2>1. doing[r] # "idle" /\ Officer!Ends(r) /\ UNCHANGED Officer!rows
    BY <1>3 DEF Officer!Abort
  <2>2. Officer!Rows' = Officer!Rows
    BY <2>1 DEF Officer!rows, Officer!Rows
  <2>3. Officer!TypeOK'
    BY <2>1, <2>2, OfficerEnds DEF Officer!rows, Officer!TypeOK
  <2>4. Officer!OneOfficer' /\ (~crossed' => CameAlone')
    BY <2>1, <2>2, OfficerEnds, AloneEnds DEF Officer!rows, Officer!OneOfficer, CameAlone
  <2> QED
    BY <2>3, <2>4
<1> QED
  BY <1>0, <1>1, <1>2, <1>3, CommitStep, CommitNoneStep DEF Officer!Next

-----------------------------------------------------------------------------
(* The answers to the decision in principle, proved in DipNegotiationProofs*)
(* of the variables of the module: the same definitions, of those here.    *)

Negotiating == INSTANCE DipNegotiationProofs
                   WITH op <- doing, stages <- item, seen <- read

LEMMA SameNegotiation ==
    /\ Negotiation!Init = Negotiating!Init
    /\ Negotiation!Next = Negotiating!Next
    /\ Negotiation!TypeOK = Negotiating!TypeOK
    /\ Negotiation!PaidWasAnswered = Negotiating!PaidWasAnswered
    /\ Negotiation!StageUntilRepeated = Negotiating!StageUntilRepeated
    /\ Negotiation!ReofferStays = Negotiating!ReofferStays
BY DEF
       Negotiation!Answers, Negotiating!Answers, Negotiation!DIPStatuses,
       Negotiating!DIPStatuses, Negotiation!Ops, Negotiating!Ops, Negotiation!dip,
       Negotiating!dip, Negotiation!call, Negotiating!call, Negotiation!vars,
       Negotiating!vars, Negotiation!FirstStages, Negotiating!FirstStages,
       Negotiation!Reads, Negotiating!Reads, Negotiation!Ends, Negotiating!Ends,
       Negotiation!ReadForLender, Negotiating!ReadForLender,
       Negotiation!CommitLender, Negotiating!CommitLender, Negotiation!ReadForBuyer,
       Negotiating!ReadForBuyer, Negotiation!CommitBuyer, Negotiating!CommitBuyer,
       Negotiation!ReadForFee, Negotiating!ReadForFee, Negotiation!CommitFee,
       Negotiating!CommitFee, Negotiation!FeeCharged, Negotiating!FeeCharged,
       Negotiation!ReadForUpload, Negotiating!ReadForUpload,
       Negotiation!CommitUpload, Negotiating!CommitUpload,
       Negotiation!ReadForComplete, Negotiating!ReadForComplete,
       Negotiation!CommitComplete, Negotiating!CommitComplete, Negotiation!TypeOK,
       Negotiating!TypeOK, Negotiation!PaidWasAnswered, Negotiating!PaidWasAnswered,
       Negotiation!ReadStages, Negotiating!ReadStages,
       Negotiation!ReadDocuments, Negotiating!ReadDocuments,
       Negotiation!StageUntilRepeated, Negotiating!StageUntilRepeated,
       Negotiation!AcceptInFlight, Negotiating!AcceptInFlight, Negotiation!Reoffered,
       Negotiating!Reoffered, Negotiation!ReofferStays, Negotiating!ReofferStays,
       Negotiation!StageNames, Negotiating!StageNames, Negotiation!StageStates,
       Negotiating!StageStates, Negotiation!Stages, Negotiating!Stages,
       Negotiation!OpenStages, Negotiating!OpenStages, Negotiation!Enter,
       Negotiating!Enter, Negotiation!Exit, Negotiating!Exit, Negotiation!Init,
       Negotiating!Init, Negotiation!Next, Negotiating!Next

LEMMA NegotiationInit == Negotiation!Init => Negotiating!IInv
BY SameNegotiation, Negotiating!InitHolds

LEMMA NegotiationStep ==
    ASSUME Negotiating!IInv, Negotiation!Next \/ UNCHANGED <<negotiation, shared>>
    PROVE  Negotiating!IInv' /\ Negotiation!ReofferStays
<1>1. [Negotiating!Next]_(Negotiating!vars)
  BY SameNegotiation DEF negotiation, shared, Negotiating!vars, Negotiating!dip, Negotiating!call
<1> QED
  BY <1>1, SameNegotiation, Negotiating!Inductive, Negotiating!ReofferStep

LEMMA NegotiationHolds ==
    Negotiating!IInv => /\ Negotiation!TypeOK
                        /\ Negotiation!PaidWasAnswered
                        /\ Negotiation!StageUntilRepeated
<1>1. Negotiating!IInv => Negotiating!StageUntilRepeated
  BY Negotiating!AtAStage DEF Negotiating!IInv, Negotiating!Order
<1> QED
  BY <1>1, SameNegotiation DEF Negotiating!IInv

-----------------------------------------------------------------------------
(* The application: a behaviour of one of the four parts.                  *)

AppInv ==
    /\ part \in {"purchase", "viewing", "negotiation", "officer"}
    /\ IInv
    /\ part = "viewing" => ViewingInv
    /\ part = "negotiation" => Negotiating!IInv
    /\ part = "officer" => OfficerInv

LEMMA AppInit == MCInit => AppInv
BY InitHolds, ViewingInit, NegotiationInit, OfficerInit DEF MCInit, AppInv

LEMMA AppStep == AppInv /\ [MCNext]_MCvars => AppInv'
<1> SUFFICES ASSUME AppInv, [MCNext]_MCvars PROVE AppInv'
  OBVIOUS
<1>1. part' = part
  BY DEF MCNext, MCvars
<1>2. IInv'
  BY Inductive DEF AppInv, MCNext, MCvars
<1>3. part = "viewing" => [Viewing!Next]_(Viewing!vars)
  BY DEF MCNext, MCvars, Viewing!vars, viewing, shared
<1>4. part = "negotiation" => Negotiation!Next \/ UNCHANGED <<negotiation, shared>>
  BY DEF MCNext, MCvars
<1>5. part = "officer" => [Officer!Next]_(Officer!vars)
  BY DEF MCNext, MCvars, Officer!vars, Officer!rows, assignment, shared
<1>6. part = "negotiation" => Negotiating!IInv'
  BY <1>4, NegotiationStep DEF AppInv
<1> QED
  BY <1>1, <1>2, <1>3, <1>5, <1>6, ViewingStep, OfficerStep DEF AppInv

\* The invariant as the properties are stated.
LEMMA AppHolds ==
    AppInv => PartTypeOK /\ BookingBound /\ PaidWasAnswered /\ StageUntilRepeated
              /\ OneOfficer
<1>1. IInv => TypeOK
  BY DEF IInv
<1>2. ViewingInv => Viewing!TypeOK /\ Viewing!BookingBound
  <2> SUFFICES ASSUME ViewingInv PROVE Viewing!BookingBound
    BY DEF ViewingInv
  <2>1. Cardinality(Booking) \in Nat /\ Cardinality(Viewing!Booked) \in Nat
    BY FiniteRequests, FS_Subset, FS_CardinalityType DEF Booking, ViewingInv, RoomToBook
  <2>2. Cardinality(Viewing!Booked) <= Cardinality(Requests)
    BY <2>1, FiniteRequests DEF ViewingInv, RoomToBook
  <2> QED
    BY <2>2, SameCardinality DEF Viewing!BookingBound
<1> QED
  BY <1>1, <1>2, NegotiationHolds
     DEF AppInv, OfficerInv, PartTypeOK, BookingBound, PaidWasAnswered, StageUntilRepeated,
         OneOfficer

LEMMA AppInvariant == MCSpec => []AppInv
BY AppInit, AppStep, PTL DEF MCSpec

\* Type correctness of the four parts, for any requests, rows and pool: the
\* connections that are leaked and held never exceed the pool.
THEOREM PartsTypeCorrect == MCSpec => []PartTypeOK
BY AppInvariant, AppHolds, PTL

\* Bookings that cross, fail and time out never leave more inspections than
\* there are requests.
THEOREM BookingsAreBounded == MCSpec => []BookingBound
BY AppInvariant, AppHolds, PTL

\* The fee follows both answers and the documents the fee, in the
\* application as in the negotiation alone (DipNegotiationProofs).
THEOREM PaymentFollowsAnswers == MCSpec => []PaidWasAnswered
BY AppInvariant, AppHolds, PTL

\* Answers, uploads and completions that cross leave the application at no
\* stage only by a second completion (lenderCompleteDocumentReview).
THEOREM NegotiationKeepsStage == MCSpec => []StageUntilRepeated
BY AppInvariant, AppHolds, PTL

\* The current loan officer is in force, and the only one as long as no two
\* requests crossed, whatever rows earlier assignments have left.
THEOREM OfficerInForce == MCSpec => []OneOfficer
BY AppInvariant, AppHolds, PTL

\* A decision in principle that is offered again after it was accepted waits
\* for a refusal, a late event of its fee, or an upload.
THEOREM ReofferWaits == MCSpec => ReofferNeedsRefusal
<1>1. AppInv /\ [MCNext]_MCvars => [part = "negotiation" => Negotiation!ReofferStays]_MCvars
  BY NegotiationStep DEF AppInv, MCNext
<1>2. MCSpec => [][part = "negotiation" => Negotiation!ReofferStays]_MCvars
  BY <1>1, AppInvariant, PTL DEF MCSpec
<1> QED
  BY <1>2 DEF ReofferNeedsRefusal

=============================================================================
