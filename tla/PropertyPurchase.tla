------------------------- MODULE PropertyPurchase -------------------------
(***************************************************************************)
(* An application for a property and what is asked of its developer: the   *)
(* offer letter and the closing (application.ts: create,                   *)
(* requestOfferLetter, requestOfferLetterRespond, requestPropertyClosing,  *)
(* propertyClosingRespond).                                                *)
(*                                                                         *)
(* A handler reads the row of the application, then in a second statement  *)
(* its stages (getApplicationById), and writes from what it read; calls    *)
(* may cross anywhere in between. The answers and the closing write in a   *)
(* transaction whose first statements lock a row the others need, so that  *)
(* the commits follow one another: one action. requestOfferLetter has no   *)
(* transaction: one action per statement, and it may fail between two.     *)
(*                                                                         *)
(* scheduleEscrowMeeting looks its organization up by the id of the        *)
(* application and fails on the null it gets, whatever the state: no       *)
(* meeting is ever set, no action here, and scheduleEscrowMeetingRespond   *)
(* has no approval to answer. No handler gives the application a status    *)
(* other than Pending.                                                     *)
(***************************************************************************)
EXTENDS Naturals, FiniteSets, ApplicationStages

CONSTANTS
    Requests,    \* HTTP requests that may be in flight together
    Reviews,     \* bound: rows of review_requests
    Closings,    \* bound: rows of property_closing
    MaxFaults    \* bound: failures of requestOfferLetter

None == "none"

ASSUME IdsAssumption    == None \notin Reviews /\ None \notin Closings
ASSUME BoundsAssumption == MaxFaults \in Nat

PurchaseTypes == {"Outright", "Installment", "Mortgage"}
Answers       == {"Approved", "Rejected"}
Statuses      == {"absent", "Pending"} \cup Answers
Ops           == {"idle", "review", "approval", "letter", "attach",
                  "answer", "closing", "respond", "close", "reply"}

VARIABLES
    type,         \* application_type
    review,       \* status of each review request
    approval,     \* status of its approval, which waits for the developer
    letter,       \* status of the offer letter made with the review
    offerLetter,  \* application.offer_letter_id, as the review of the letter
    closing,      \* closing_status of each property_closing row
    current,      \* application.property_closing_id
    escrow,       \* application.escrow_status_id is set
    stages,       \* stage rows of the application
    op,           \* what each request has still to write
    own,          \* the review it made, the one it answers, or the closing
    seen,         \* the letter it read
    open,         \* the stages it read as open
    faults        \* failures so far, for MaxFaults

papers == <<review, approval, letter, offerLetter>>
deal   == <<closing, current, escrow, stages>>
calls  == <<op, own, seen, open>>
vars   == <<type, papers, deal, calls, faults>>

\* create: the stages an application of each type begins with.
FirstStages(t) ==
    [s \in StageNames |->
        CASE s = "OfferLetter"       /\ t = "Outright"    -> "open"
          [] s = "PreQualification"  /\ t # "Outright"    -> "open"
          [] s = "PaymentCalculator" /\ t = "Installment" -> "exited"
          [] OTHER -> "absent"]

Init ==
    /\ type \in PurchaseTypes
    /\ review = [v \in Reviews |-> "absent"]
    /\ approval = [v \in Reviews |-> "absent"]
    /\ letter = [v \in Reviews |-> "absent"]
    /\ offerLetter = None
    /\ closing = [c \in Closings |-> "absent"]
    /\ current = None
    /\ escrow = FALSE
    /\ stages = FirstStages(type)
    /\ op = [r \in Requests |-> "idle"]
    /\ own = [r \in Requests |-> None]
    /\ seen = [r \in Requests |-> None]
    /\ open = [r \in Requests |-> {}]
    /\ faults = 0

\* A request has read the row, and goes on with what kind says.
Reads(r, kind, item) ==
    /\ op[r] = "idle"
    /\ op' = [op EXCEPT ![r] = kind]
    /\ own' = [own EXCEPT ![r] = item]
    /\ seen' = [seen EXCEPT ![r] = offerLetter]
    /\ UNCHANGED <<type, papers, deal, open, faults>>

Ends(r) ==
    /\ op' = [op EXCEPT ![r] = "idle"]
    /\ own' = [own EXCEPT ![r] = None]
    /\ seen' = [seen EXCEPT ![r] = None]
    /\ open' = [open EXCEPT ![r] = {}]

-----------------------------------------------------------------------------
(* The offer letter.                                                       *)

\* requestOfferLetter: one letter at a time. Nothing looks at the type.
ReadForLetter(r) ==
    /\ offerLetter = None
    /\ Reads(r, "review", None)

MakeReview(r, v) ==
    /\ op[r] = "review"
    /\ review[v] = "absent"
    /\ review' = [review EXCEPT ![v] = "Pending"]
    /\ op' = [op EXCEPT ![r] = "approval"]
    /\ own' = [own EXCEPT ![r] = v]
    /\ UNCHANGED <<type, approval, letter, offerLetter, deal, seen, open, faults>>

MakeApproval(r) ==
    /\ op[r] = "approval"
    /\ approval' = [approval EXCEPT ![own[r]] = "Pending"]
    /\ op' = [op EXCEPT ![r] = "letter"]
    /\ UNCHANGED <<type, review, letter, offerLetter, deal, own, seen, open, faults>>

MakeLetter(r) ==
    /\ op[r] = "letter"
    /\ letter' = [letter EXCEPT ![own[r]] = "Pending"]
    /\ op' = [op EXCEPT ![r] = "attach"]
    /\ UNCHANGED <<type, review, approval, offerLetter, deal, own, seen, open, faults>>

AttachLetter(r) ==
    /\ op[r] = "attach"
    /\ offerLetter' = own[r]
    /\ Ends(r)
    /\ UNCHANGED <<type, review, approval, letter, deal, faults>>

\* A statement fails or the server stops: what was written stays.
LoseLetter(r) ==
    /\ op[r] \in {"review", "approval", "letter", "attach"}
    /\ faults < MaxFaults
    /\ faults' = faults + 1
    /\ Ends(r)
    /\ UNCHANGED <<type, papers, deal>>

\* requestOfferLetterRespond. The caller names an approval of the developer
\* that waits; whether it is that of the letter's review is not looked at.
ReadForAnswer(r, v) ==
    /\ offerLetter # None
    /\ letter[offerLetter] = "Pending"
    /\ approval[v] = "Pending"
    /\ Reads(r, "answer", v)

\* Mutant: the review is closed only by an approval of the letter.
CommitAnswerOpen(r, a) ==
    /\ op[r] = "answer"
    /\ approval' = [approval EXCEPT ![own[r]] = a]
    /\ review' = [review EXCEPT ![own[r]] = IF a = "Approved" THEN a ELSE @]
    /\ letter' = [letter EXCEPT ![seen[r]] = a]
    /\ Ends(r)
    /\ UNCHANGED <<type, offerLetter, deal, faults>>

\* The review has a single stage: its first answer is the last.
CommitAnswer(r, a) ==
    /\ op[r] = "answer"
    /\ approval' = [approval EXCEPT ![own[r]] = a]
    /\ review' = [review EXCEPT ![own[r]] = a]
    /\ letter' = [letter EXCEPT ![seen[r]] = a]
    /\ Ends(r)
    /\ UNCHANGED <<type, offerLetter, deal, faults>>

-----------------------------------------------------------------------------
(* The closing and the escrow.                                             *)

\* requestPropertyClosing: one closing for good, with or without a letter.
ReadForClosing(r) ==
    /\ current = None
    /\ Reads(r, "closing", None)

\* The second statement of getApplicationById: the stages, which may by now
\* be later than the row. What follows looks at neither again.
ReadStages(r) ==
    /\ op[r] \in {"closing", "respond"}
    /\ op' = [op EXCEPT ![r] = IF @ = "closing" THEN "close" ELSE "reply"]
    /\ open' = [open EXCEPT ![r] = OpenStages(stages)]
    /\ UNCHANGED <<type, papers, deal, own, seen, faults>>

\* The stages read as open are exited; PropertyClosing is entered, unless
\* the application has been there.
CommitClosing(r, c) ==
    /\ op[r] = "close"
    /\ closing[c] = "absent"
    /\ closing' = [closing EXCEPT ![c] = "Pending"]
    /\ current' = c
    /\ stages' = IF type = "Mortgage" THEN stages
                 ELSE Enter(Exit(stages, open[r]), "PropertyClosing")
    /\ Ends(r)
    /\ UNCHANGED <<type, papers, escrow, faults>>

\* propertyClosingRespond: an answered closing may be answered again.
ReadForRespond(r) ==
    /\ current # None
    /\ Reads(r, "respond", current)

\* Mutant: the stages are exited for every purchase type.
CommitRespondAnyType(r, a) ==
    /\ op[r] = "reply"
    /\ closing' = [closing EXCEPT ![own[r]] = a]
    /\ escrow' = (escrow \/ (a = "Approved" /\ type = "Outright"))
    /\ stages' = IF a = "Approved" THEN Exit(stages, open[r]) ELSE stages
    /\ Ends(r)
    /\ UNCHANGED <<type, papers, current, faults>>

\* Mutant: a closing that was answered before makes no escrow.
CommitRespondOnce(r, a) ==
    /\ op[r] = "reply"
    /\ closing' = [closing EXCEPT ![own[r]] = a]
    /\ IF a = "Approved" /\ type = "Outright" /\ closing[own[r]] = "Pending"
       THEN /\ escrow' = TRUE
            /\ stages' = Exit(stages, open[r])
       ELSE UNCHANGED <<escrow, stages>>
    /\ Ends(r)
    /\ UNCHANGED <<type, papers, current, faults>>

\* The approval of an outright purchase makes its escrow, a new one each time.
CommitRespond(r, a) ==
    /\ op[r] = "reply"
    /\ closing' = [closing EXCEPT ![own[r]] = a]
    /\ IF a = "Approved" /\ type = "Outright"
       THEN /\ escrow' = TRUE
            /\ stages' = Exit(stages, open[r])
       ELSE UNCHANGED <<escrow, stages>>
    /\ Ends(r)
    /\ UNCHANGED <<type, papers, current, faults>>

-----------------------------------------------------------------------------
HomeBuyer(r) ==
    \/ ReadForLetter(r)
    \/ \E v \in Reviews : MakeReview(r, v)
    \/ MakeApproval(r) \/ MakeLetter(r) \/ AttachLetter(r) \/ LoseLetter(r)
    \/ ReadForClosing(r) \/ ReadStages(r)
    \/ \E c \in Closings : CommitClosing(r, c)

Developer(r) ==
    \/ \E v \in Reviews : ReadForAnswer(r, v)
    \/ ReadForRespond(r)
    \/ \E a \in Answers : CommitAnswer(r, a) \/ CommitRespond(r, a)

Next == \E r \in Requests : HomeBuyer(r) \/ Developer(r)

Spec == Init /\ [][Next]_vars

-----------------------------------------------------------------------------
(* Properties                                                              *)

\* Types.
TypeOK ==
    /\ type \in PurchaseTypes
    /\ {review, approval, letter} \subseteq [Reviews -> Statuses]
    /\ offerLetter \in Reviews \cup {None}
    /\ closing \in [Closings -> Statuses]
    /\ current \in Closings \cup {None}
    /\ escrow \in BOOLEAN
    /\ stages \in Stages
    /\ op \in [Requests -> Ops]
    /\ own \in [Requests -> Reviews \cup Closings \cup {None}]
    /\ seen \in [Requests -> Reviews \cup {None}]
    /\ open \in [Requests -> SUBSET StageNames]
    /\ faults \in 0 .. MaxFaults

\* The papers of an offer letter are whole, although requestOfferLetter
\* writes them one by one and may stop in between, and answers may cross: a
\* letter has its review and an approval, the review says what its approval
\* says, an answered letter comes from an approval that was answered, and
\* the application refers to no letter that was never made.
LetterIsReviewed ==
    /\ offerLetter # None => letter[offerLetter] # "absent"
    /\ \A v \in Reviews :
          /\ letter[v] # "absent" => approval[v] # "absent"
          /\ approval[v] # "absent" => review[v] = approval[v]
          /\ letter[v] \in Answers => \E w \in Reviews : approval[w] \in Answers

Made == {c \in Closings : closing[c] # "absent"}

\* How far requests that exit the stages they once read as open may take the
\* application: never to two stages; to none without an escrow only by a
\* second closing, made by a request that read no closing and then the stage
\* of the first; and the escrow of an approved closing ends its last stage,
\* to which no late request brings it back (requestPropertyClosing,
\* propertyClosingRespond, addApplicationStage).
AtOneStage ==
    /\ Cardinality(OpenStages(stages)) <= 1
    /\ (~escrow /\ OpenStages(stages) = {}) => \E c, d \in Made : c # d
    /\ escrow => OpenStages(stages) = {} /\ stages["PropertyClosing"] = "exited"

\* An approved closing has its escrow, whichever closing the application
\* refers to and however often it was answered; only an outright purchase
\* has one.
ClosingHasEscrow ==
    /\ (type = "Outright" /\ \E c \in Closings : closing[c] = "Approved") => escrow
    /\ escrow => type = "Outright"

=============================================================================
