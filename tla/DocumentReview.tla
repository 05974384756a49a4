--------------------------- MODULE DocumentReview ---------------------------
(***************************************************************************)
(* Upload and review of the documents of one mortgage application          *)
(* (application.ts: handleApplicationDocUploads, documentApprovalRespond,  *)
(* hsfCompleteDocumentReview, lenderCompleteDocumentReview), and what else *)
(* moves its stages then: an offer made ready (ManageLoanOffer.ts) and the *)
(* charge of the management fee (utils.routes.ts).                         *)
(*                                                                         *)
(* Two groups of documents are reviewed, one before the loan offer and one *)
(* (the condition precedent) after it, each by HSF and then by the lender. *)
(* A handler reads the row of the application, then its stages, then its   *)
(* documents, then the approval of each, every one with a statement of its *)
(* own, and only then opens the transaction that writes: what it read may  *)
(* be stale. That transaction is one step here: the first statement locks  *)
(* the row of the DIP, a stage or a review request, and no other row it    *)
(* read decides. The webhook of the management fee has no transaction.     *)
(*                                                                         *)
(* The application has one DIP whose fee is paid. A caller answers for its *)
(* own organization: HSF for its part of the review, the lender for its    *)
(* own.                                                                    *)
(***************************************************************************)
EXTENDS Naturals, Sequences, FiniteSets, ApplicationStages

CONSTANTS
    MortgageTypes,     \* document types of the group MortgageUpload
    ConditionTypes,    \* document types of the group ConditionPrecedent
    EntryIds,          \* bound: rows of application_document_entries
    Requests,          \* HTTP requests that may be in flight together
    MaxApprovals,      \* bound: approvals of the lender on one document
    MaxOffers,         \* bound: loan offers
    MaxConditions      \* bound: rows of condition_precedents

ASSUME TypesAssumption == MortgageTypes \cap ConditionTypes = {}

ASSUME FiniteAssumption ==
    IsFiniteSet(MortgageTypes) /\ IsFiniteSet(ConditionTypes) /\ IsFiniteSet(EntryIds)

ASSUME BoundsAssumption ==
    /\ MaxApprovals \in Nat
    /\ MaxOffers \in Nat
    /\ MaxConditions \in Nat

Groups        == {"MortgageUpload", "ConditionPrecedent"}
Types         == MortgageTypes \cup ConditionTypes
Verdicts      == {"Pending", "Approved", "Rejected"}
Organizations == {"hsf", "lender"}

TypesOf(g) == IF g = "MortgageUpload" THEN MortgageTypes ELSE ConditionTypes

VARIABLES
    entries,         \* documents by id, each with the approvals of its review
    dipStatus,       \* dip_status, which documents_status follows
    hsfCompleted,    \* dip.hsf_document_review_completed
    lenderCompleted, \* dip.lender_document_review_completed
    conditions,      \* rows of condition_precedents, oldest first
    current,         \* application.condition_precedent_id, 0 for none
    offers,          \* loan offers, each with an agreement and a decision
    stages,          \* stage rows of the application
    eligible,        \* the eligibility is approved
    handler,         \* what each HTTP request has read
    reviewed,        \* history: <<type, organization>> of approvals given
    again            \* history: a request did again what another had done

vars == <<entries, dipStatus, hsfCompleted, lenderCompleted, conditions,
          current, offers, stages, eligible, handler, reviewed, again>>

dip  == <<dipStatus, hsfCompleted, lenderCompleted>>
rows == <<entries, dip, conditions, current, offers, stages>>

Absent == [type |-> "none"]

\* Approvals of the lender are counted by verdict: the code takes the first
\* row it finds, any of them.
Entry == [type : Types, hsf : Verdicts, lender : [Verdicts -> Nat]]

DipStatuses == {"Documents Pending", "Document Reviewing", "Completed"}

Condition == [hsf : BOOLEAN, lender : BOOLEAN,
              status : {"Pending", "Completed"}]

\* An "op" that ends in "read" has the row of the application only.
Ops == {"idle", "upload read", "upload", "hsf read", "hsf", "lender read",
        "lender list", "lender", "ready read", "ready",
        "fee", "attach", "exit", "insert"}

Idle == [op |-> "idle", group |-> "MortgageUpload", row |-> 0, fresh |-> {},
         enter |-> FALSE, open |-> {}, docs |-> {}, todo |-> {}]

HandlerStates ==
    [op : Ops, group : Groups,
     row : Nat,                    \* the condition precedent, or loan offer
     fresh : SUBSET Types,         \* documents the upload adds
     enter : BOOLEAN,              \* the upload saw no stage of its group
     open : SUBSET StageNames,     \* the stages to exit
     docs : SUBSET EntryIds,       \* documents that go to the lender
     todo : SUBSET EntryIds]       \* documents whose approval is not read yet

\* A step of request r that writes to no table.
Reads(r, h) ==
    /\ handler' = [handler EXCEPT ![r] = h]
    /\ UNCHANGED <<rows, eligible, reviewed, again>>

Stored == {i \in EntryIds : entries[i] # Absent}

DocsOf(g) == {i \in Stored : entries[i].type \in TypesOf(g)}

NoVerdict  == [v \in Verdicts |-> 0]
NewDoc(t)  == [type |-> t, hsf |-> "Pending", lender |-> NoVerdict]

NewCondition == [hsf |-> FALSE, lender |-> FALSE, status |-> "Pending"]

UploadStage(g) ==
    IF g = "MortgageUpload" THEN "UploadDocument" ELSE "ConditionPrecedent"

Init ==
    /\ entries = [i \in EntryIds |-> Absent]
    /\ dipStatus = "Documents Pending"
    /\ hsfCompleted = FALSE
    /\ lenderCompleted = FALSE
    /\ conditions = <<>>
    /\ current = 0
    /\ offers = 0
    /\ stages = [s \in StageNames |->
                    IF s \in {"PreQualification", "DecisionInPrinciple"}
                    THEN "open" ELSE "absent"]
    /\ eligible = TRUE
    /\ handler = [r \in Requests |-> Idle]
    /\ reviewed = {}
    /\ again = FALSE

-----------------------------------------------------------------------------
(* getApplicationById: the row of the application first, its stages next.  *)

\* A group other than the condition precedent goes on without one.
RowOf(g) == IF g = "ConditionPrecedent" THEN current ELSE 0

ConditionOpen(g, mark) ==
    g = "ConditionPrecedent" =>
        current # 0 /\ ~conditions[current][mark]

ReadForUpload(r, g, fresh) ==
    /\ handler[r].op = "idle"
    /\ TypesOf(g) # {}
    /\ fresh \subseteq TypesOf(g)
    /\ Reads(r, [Idle EXCEPT !.op = "upload read", !.group = g,
                             !.row = RowOf(g), !.fresh = fresh])

ReadForHsf(r, g) ==
    /\ handler[r].op = "idle"
    /\ g = "MortgageUpload" => ~hsfCompleted
    /\ ConditionOpen(g, "hsf")
    /\ Reads(r, [Idle EXCEPT !.op = "hsf read", !.group = g, !.row = RowOf(g)])

ReadForLender(r, g) ==
    /\ handler[r].op = "idle"
    /\ g = "MortgageUpload" => ~lenderCompleted
    /\ ConditionOpen(g, "lender")
    /\ Reads(r, [Idle EXCEPT !.op = "lender read", !.group = g,
                             !.row = RowOf(g)])

\* The completion by HSF has no use for the stages.
ReadStages(r) ==
    LET h == handler[r] IN
    \/ /\ h.op = "upload read"
       /\ Reads(r, [h EXCEPT !.op = "upload", !.open = OpenStages(stages),
                    !.enter = stages[UploadStage(h.group)] = "absent"])
    \/ /\ h.op = "lender read"
       /\ Reads(r, [h EXCEPT !.op = "lender list", !.open = OpenStages(stages)])
    \/ /\ h.op = "ready read"
       /\ Reads(r, [h EXCEPT !.op = "ready", !.open = OpenStages(stages)])

-----------------------------------------------------------------------------
(* Upload: handleApplicationDocUploads. A request carries a document of    *)
(* every type of the group: those of fresh are new, the others name one    *)
(* that exists.                                                            *)

\* A document that exists is kept as it is: with a rejected approval the
\* statement that would replace it names columns the table does not have, so
\* the transaction rolls back.
Kept(t) ==
    \E i \in Stored : /\ entries[i].type = t
                      /\ entries[i].hsf # "Rejected"
                      /\ entries[i].lender["Rejected"] = 0

\* New rows take ids that were not in use.
Store(fresh) ==
    \E id \in [fresh -> EntryIds \ Stored] :
        /\ \A t, u \in fresh : id[t] = id[u] => t = u
        /\ entries' = [i \in EntryIds |->
               IF \E t \in fresh : id[t] = i
               THEN NewDoc(CHOOSE t \in fresh : id[t] = i)
               ELSE entries[i]]

\* The condition precedent read before is set to be reviewed again, or one is
\* created and attached to the application.
UploadCondition(g, condition) ==
    IF g = "MortgageUpload" THEN UNCHANGED <<conditions, current>>
    ELSE IF condition = 0
         THEN /\ Len(conditions) < MaxConditions
              /\ conditions' = Append(conditions, NewCondition)
              /\ current' = Len(conditions) + 1
         ELSE /\ conditions' =
                     [conditions EXCEPT ![condition].status = "Pending"]
              /\ UNCHANGED current

\* Mutant: the exit of the open stages comes after the entry.
CommitUploadExitLast(r) ==
    /\ handler[r].op = "upload"
    /\ LET h == handler[r] IN
       /\ \A t \in TypesOf(h.group) \ h.fresh : Kept(t)
       /\ Store(h.fresh)
       /\ UploadCondition(h.group, h.row)
       /\ stages' = IF h.enter
                    THEN Exit(Enter(stages, UploadStage(h.group)), StageNames)
                    ELSE stages
    /\ dipStatus' = "Document Reviewing"
    /\ handler' = [handler EXCEPT ![r] = Idle]
    /\ UNCHANGED <<hsfCompleted, lenderCompleted, offers, eligible, reviewed,
                   again>>

CommitUpload(r) ==
    /\ handler[r].op = "upload"
    /\ LET h == handler[r] IN
       /\ \A t \in TypesOf(h.group) \ h.fresh : Kept(t)
       /\ Store(h.fresh)
       /\ UploadCondition(h.group, h.row)
       /\ stages' = IF h.enter
                    THEN Enter(Exit(stages, h.open), UploadStage(h.group))
                    ELSE stages
    /\ dipStatus' = "Document Reviewing"
    /\ handler' = [handler EXCEPT ![r] = Idle]
    /\ UNCHANGED <<hsfCompleted, lenderCompleted, offers, eligible, reviewed,
                   again>>

-----------------------------------------------------------------------------
(* One answer on one document: documentApprovalRespond, which looks at     *)
(* neither the state of the review nor the earlier answer.                 *)

RespondHsf(i, verdict) ==
    /\ i \in Stored
    /\ entries' = [entries EXCEPT ![i].hsf = verdict]
    /\ reviewed' = IF verdict = "Approved"
                   THEN reviewed \cup {<<entries[i].type, "hsf">>}
                   ELSE reviewed
    /\ UNCHANGED <<dip, conditions, current, offers, stages, eligible, handler,
                   again>>

\* Mutant: the approval is not looked for among those of the document.
RespondLenderAny(i, old, verdict) ==
    /\ i \in Stored
    /\ entries' = [entries EXCEPT ![i].lender =
           [v \in Verdicts |->
               @[v] - (IF v = old THEN 1 ELSE 0)
                    + (IF v = verdict THEN 1 ELSE 0)]]
    /\ UNCHANGED <<dip, conditions, current, offers, stages, eligible, handler,
                   reviewed, again>>

RespondLender(i, old, verdict) ==
    /\ i \in Stored
    /\ entries[i].lender[old] > 0
    /\ entries' = [entries EXCEPT ![i].lender =
           [v \in Verdicts |->
               @[v] - (IF v = old THEN 1 ELSE 0)
                    + (IF v = verdict THEN 1 ELSE 0)]]
    /\ reviewed' = IF verdict = "Approved"
                   THEN reviewed \cup {<<entries[i].type, "lender">>}
                   ELSE reviewed
    /\ UNCHANGED <<dip, conditions, current, offers, stages, eligible, handler,
                   again>>

-----------------------------------------------------------------------------
(* The end of a review. Both handlers count the documents of the group     *)
(* against its types and look at one approval of the organization on each. *)
(* The eligibility, read just before the documents, is read with them:     *)
(* DecideEligibility may set it at any moment and disturbs nothing else.   *)

\* Mutant: the documents may be more than the types.
AtLeastAllDocs(g) ==
    /\ TypesOf(g) # {}
    /\ Cardinality(DocsOf(g)) >= Cardinality(TypesOf(g))

\* Mutant: the length is not compared.
SomeDocs(g) == TypesOf(g) # {}

AllDocs(g) ==
    /\ TypesOf(g) # {}
    /\ Cardinality(DocsOf(g)) = Cardinality(TypesOf(g))

ReadDocuments(r) ==
    LET h == handler[r] IN
    /\ eligible
    /\ AllDocs(h.group)
    /\ \/ /\ h.op = "hsf read"
          /\ Reads(r, [h EXCEPT !.op = "hsf", !.docs = DocsOf(h.group),
                                !.todo = DocsOf(h.group)])
       \/ /\ h.op = "lender list"
          /\ Reads(r, [h EXCEPT !.op = "lender", !.todo = DocsOf(h.group)])

\* Mutant: an answer of the lender other than a rejection is enough.
ReadApprovalNotRejected(r, i) ==
    LET h == handler[r] IN
    /\ i \in h.todo
    /\ \/ h.op = "hsf" /\ entries[i].hsf = "Approved"
       \/ /\ h.op = "lender"
          /\ entries[i].lender["Approved"] + entries[i].lender["Pending"] > 0
    /\ Reads(r, [h EXCEPT !.todo = @ \ {i}])

\* The approvals of the documents are read side by side, in any order; the
\* request goes on when all of them are given.
ReadApproval(r, i) ==
    LET h == handler[r] IN
    /\ i \in h.todo
    /\ \/ h.op = "hsf" /\ entries[i].hsf = "Approved"
       \/ h.op = "lender" /\ entries[i].lender["Approved"] > 0
    /\ Reads(r, [h EXCEPT !.todo = @ \ {i}])

\* hsfCompleteDocumentReview: an approval of the lender for each document.
CommitHsf(r) ==
    /\ handler[r].op = "hsf" /\ handler[r].todo = {}
    /\ LET h == handler[r] IN
       /\ \A i \in h.docs : entries[i].lender["Pending"] < MaxApprovals
       /\ entries' = [i \in EntryIds |->
              IF i \in h.docs
              THEN [entries[i] EXCEPT !.lender["Pending"] = @ + 1]
              ELSE entries[i]]
       /\ IF h.group = "MortgageUpload"
          THEN hsfCompleted' = TRUE /\ UNCHANGED conditions
          ELSE /\ conditions' = [conditions EXCEPT ![h.row].hsf = TRUE]
               /\ UNCHANGED hsfCompleted
    /\ handler' = [handler EXCEPT ![r] = Idle]
    /\ UNCHANGED <<dipStatus, lenderCompleted, current, offers, stages,
                   eligible, reviewed, again>>

\* lenderCompleteDocumentReview: the first group ends in a loan offer, its
\* agreement and its decision, the second in a completed condition precedent.
CommitLender(r) ==
    /\ handler[r].op = "lender" /\ handler[r].todo = {}
    /\ LET h == handler[r] IN
       IF h.group = "MortgageUpload"
       THEN /\ offers < MaxOffers
            /\ offers' = offers + 1
            /\ lenderCompleted' = TRUE
            /\ dipStatus' = "Completed"
            /\ stages' = Enter(Exit(stages, h.open), "LoanDecision")
            /\ again' = (again \/ lenderCompleted)
            /\ UNCHANGED conditions
       ELSE /\ conditions' = [conditions EXCEPT ![h.row].lender = TRUE,
                                                ![h.row].status = "Completed"]
            /\ stages' = Enter(Exit(stages, h.open), "Repayment")
            /\ again' = (again \/ conditions[h.row].lender)
            /\ UNCHANGED <<offers, lenderCompleted, dipStatus>>
    /\ handler' = [handler EXCEPT ![r] = Idle]
    /\ UNCHANGED <<entries, hsfCompleted, current, eligible, reviewed>>

-----------------------------------------------------------------------------
(* updateLoanOfferWorkflow, by which the lender makes an offer ready, as    *)
(* often as it sends a letter along. Its first write locks the offer, so   *)
(* one request at a time goes on from there, and its reads are inside the  *)
(* transaction. The application is only found for its current offer; what  *)
(* the offer itself becomes is modelled by LoanSigning.                    *)

ReadForReady(r) ==
    /\ handler[r].op = "idle"
    /\ offers > 0
    /\ \A o \in Requests :
          handler[o].op \in {"ready read", "ready"} => handler[o].row # offers
    /\ Reads(r, [Idle EXCEPT !.op = "ready read", !.row = offers])

CommitReady(r) ==
    /\ handler[r].op = "ready"
    /\ stages' = Enter(Exit(stages, handler[r].open), "LoanOffer")
    /\ again' = (again \/ stages["LoanOffer"] # "absent")
    /\ handler' = [handler EXCEPT ![r] = Idle]
    /\ UNCHANGED <<entries, dip, conditions, current, offers, eligible,
                   reviewed>>

-----------------------------------------------------------------------------
(* The Paystack webhook of the management fee, which needs a loan decision *)
(* and has no transaction: each statement is a step, what it wrote stays.  *)

\* Of the row of the application the webhook uses the key alone.
ReadForFee(r) ==
    /\ handler[r].op = "idle"
    /\ offers > 0
    /\ Reads(r, [Idle EXCEPT !.op = "fee", !.open = OpenStages(stages)])

\* A new condition precedent, whether or not the application has one.
CreateCondition(r) ==
    /\ handler[r].op = "fee"
    /\ Len(conditions) < MaxConditions
    /\ conditions' = Append(conditions, NewCondition)
    /\ handler' = [handler EXCEPT
           ![r] = [@ EXCEPT !.op = "attach", !.row = Len(conditions) + 1]]
    /\ UNCHANGED <<entries, dip, current, offers, stages, eligible, reviewed,
                   again>>

AttachCondition(r) ==
    /\ handler[r].op = "attach"
    /\ current' = handler[r].row
    /\ handler' = [handler EXCEPT ![r].op = "exit"]
    /\ UNCHANGED <<entries, dip, conditions, offers, stages, eligible,
                   reviewed, again>>

\* The stages it read are exited side by side, in any order.
ExitStage(r, s) ==
    /\ handler[r].op = "exit"
    /\ s \in handler[r].open
    /\ stages' = Exit(stages, {s})
    /\ handler' = [handler EXCEPT ![r].open = @ \ {s}]
    /\ UNCHANGED <<entries, dip, conditions, current, offers, eligible,
                   reviewed, again>>

\* addApplicationStage is a look and, when it finds no row, an insert.
LookForStage(r) ==
    /\ handler[r].op = "exit" /\ handler[r].open = {}
    /\ Reads(r, IF stages["ConditionPrecedent"] = "absent"
                THEN [handler[r] EXCEPT !.op = "insert"]
                ELSE Idle)

\* When a row was inserted since the look there are two, one of them open:
\* the two are one here.
InsertStage(r) ==
    /\ handler[r].op = "insert"
    /\ stages' = [stages EXCEPT !["ConditionPrecedent"] = "open"]
    /\ handler' = [handler EXCEPT ![r] = Idle]
    /\ UNCHANGED <<entries, dip, conditions, current, offers, eligible,
                   reviewed, again>>

-----------------------------------------------------------------------------
(* What else changes these rows.                                           *)

\* HSF may take back its decision on the eligibility, and give it again.
DecideEligibility ==
    /\ eligible' = ~eligible
    /\ UNCHANGED <<rows, handler, reviewed, again>>

\* A request is refused or fails, or the server stops: a transaction writes
\* nothing, the webhook leaves what it has written.
Abort(r) ==
    /\ handler[r].op # "idle"
    /\ Reads(r, Idle)

-----------------------------------------------------------------------------
Upload(r) ==
    \/ \E g \in Groups, fresh \in SUBSET Types : ReadForUpload(r, g, fresh)
    \/ CommitUpload(r)

Respond ==
    \E i \in EntryIds, v \in Verdicts :
        \/ RespondHsf(i, v)
        \/ \E old \in Verdicts : RespondLender(i, old, v)

Complete(r) ==
    \/ \E g \in Groups : ReadForHsf(r, g) \/ ReadForLender(r, g)
    \/ ReadDocuments(r)
    \/ \E i \in EntryIds : ReadApproval(r, i)
    \/ CommitHsf(r)
    \/ CommitLender(r)

Ready(r) == ReadForReady(r) \/ CommitReady(r)

ManagementFeePaid(r) ==
    \/ ReadForFee(r)
    \/ CreateCondition(r)
    \/ AttachCondition(r)
    \/ \E s \in StageNames : ExitStage(r, s)
    \/ LookForStage(r)
    \/ InsertStage(r)

Next ==
    \/ \E r \in Requests :
          \/ Upload(r) \/ Complete(r) \/ Ready(r) \/ ManagementFeePaid(r)
          \/ ReadStages(r) \/ Abort(r)
    \/ Respond
    \/ DecideEligibility

Spec == Init /\ [][Next]_vars

-----------------------------------------------------------------------------
(* Properties.                                                             *)

\* Every variable stays in its type.
TypeOK ==
    /\ entries \in [EntryIds -> Entry \cup {Absent}]
    /\ dipStatus \in DipStatuses
    /\ hsfCompleted \in BOOLEAN
    /\ lenderCompleted \in BOOLEAN
    /\ conditions \in Seq(Condition)
    /\ current \in 0 .. Len(conditions)
    /\ offers \in Nat
    /\ stages \in Stages
    /\ eligible \in BOOLEAN
    /\ handler \in [Requests -> HandlerStates]
    /\ reviewed \in SUBSET (Types \X Organizations)
    /\ again \in BOOLEAN

\* The application is always at some stage: a handler that exits the open
\* stages it read enters one that was not there before. The exceptions are a
\* completion of a review that another request had completed, an offer made
\* ready once more, a second condition precedent, and a webhook of the fee on
\* its way from the exits to the entry, or stopped there.
StageUntilAgain ==
    OpenStages(stages) = {} =>
        \/ again
        \/ Len(conditions) >= 2
        \/ conditions # <<>> /\ stages["ConditionPrecedent"] = "absent"

Reviewing(g) ==
    \E r \in Requests : handler[r].op \in {"hsf", "lender"} /\ handler[r].group = g

\* More documents than types, and a review that is not at its end.
Overfull(g) ==
    /\ Cardinality(DocsOf(g)) > Cardinality(TypesOf(g))
    /\ ~Reviewing(g)

\* A dead end: once a group holds a second document of a type, its review can
\* never be completed by anyone, because documents are only ever added and
\* both handlers want as many documents as types.
OverfullIsFinal == [][\A g \in Groups : Overfull(g) => Overfull(g)']_vars

\* The two reviews of a group implement TwoStageReview. The marks of the first
\* group are on the DIP; those of the second are on any condition precedent.
Phase(hsf, lender) ==
    IF lender THEN "done" ELSE IF hsf THEN "lender" ELSE "hsf"

ApprovedTypes(g) == {a \in reviewed : a[1] \in TypesOf(g)}

Marked(mark) == \E c \in 1 .. Len(conditions) : conditions[c][mark]

MortgageReview ==
    INSTANCE TwoStageReview WITH
        Types <- MortgageTypes,
        phase <- Phase(hsfCompleted, lenderCompleted),
        approved <- ApprovedTypes("MortgageUpload")

ConditionReview ==
    INSTANCE TwoStageReview WITH
        Types <- ConditionTypes,
        phase <- Phase(Marked("hsf"), Marked("lender")),
        approved <- ApprovedTypes("ConditionPrecedent")

\* HSF completes its part before the lender, each when it has approved a
\* document of every type; requests that were late change nothing.
MortgageReviewIsTwoStage  == MortgageReview!Spec
ConditionReviewIsTwoStage == ConditionReview!Spec

=============================================================================
