------------------------ MODULE DocumentReviewProofs ------------------------
(***************************************************************************)
(* Proofs about DocumentReview, for any document types, rows, requests and *)
(* bounds. What makes stale reviews harmless is that approvals given are   *)
(* never forgotten (reviewed grows), that documents are only added, and    *)
(* that the lender has approvals to answer only once HSF has completed its *)
(* part: OnDocuments says so of the rows, InFlight of what a request read. *)
(***************************************************************************)
EXTENDS DocumentReview, FiniteSetTheorems, SequenceTheorems, TLAPS

\* HSF has completed its part of the review of a group.
HsfMarked(g) == IF g = "MortgageUpload" THEN hsfCompleted ELSE Marked("hsf")

ReviewedBy(g, org) == \A t \in TypesOf(g) : <<t, org>> \in reviewed

\* An approval on a document is in the history, and the lender's approvals
\* are there only after HSF's part. A group with a document has one of
\* every type.
OnDocuments ==
    /\ \A g \in Groups : \A i \in DocsOf(g) :
          /\ entries[i].hsf = "Approved" => <<entries[i].type, "hsf">> \in reviewed
          /\ entries[i].lender["Approved"] > 0 => <<entries[i].type, "lender">> \in reviewed
          /\ \A v \in Verdicts : entries[i].lender[v] > 0 => HsfMarked(g)
    /\ \A g \in Groups : DocsOf(g) # {} =>
          \A t \in TypesOf(g) : \E i \in DocsOf(g) : entries[i].type = t

CompletionOps == {"hsf read", "hsf", "lender read", "lender list", "lender"}

\* A completion under way: for every type, the approval of a document is still
\* to be read, or was given.
Checked(h, g) ==
    \A t \in TypesOf(g) :
        <<t, h.op>> \in reviewed \/ \E i \in h.todo : entries[i].type = t

\* What a request about group g has read.
Carries(h, g) ==
    /\ h.op \in {"upload read", "upload"} =>
          h.fresh \subseteq TypesOf(g) /\ h.row \in 0 .. Len(conditions)
    /\ h.op \in {"hsf", "lender"} => h.todo \subseteq DocsOf(g) /\ Checked(h, g)
    /\ h.op = "hsf" => h.docs \subseteq DocsOf(g)
    /\ h.op = "lender" => h.todo # {} \/ HsfMarked(g)
    /\ h.op \in CompletionOps /\ g = "ConditionPrecedent" =>
          h.row \in 1 .. Len(conditions)
    /\ h.op \in {"attach", "exit", "insert"} => h.row \in 1 .. Len(conditions)

InFlight == \A r \in Requests : Carries(handler[r], handler[r].group)

IInv == TypeOK /\ OnDocuments /\ InFlight

-----------------------------------------------------------------------------
LEMMA NotAbsent ==
    \A e \in Entry : e # Absent
BY DEF Entry, Absent

LEMMA NewDocTyped ==
    \A t \in Types : NewDoc(t) \in Entry
BY DEF NewDoc, NoVerdict, Entry, Verdicts

LEMMA StoredAre ==
    ASSUME TypeOK
    PROVE  \A i \in EntryIds : i \in Stored <=> entries[i] \in Entry
BY NotAbsent DEF TypeOK, Stored

LEMMA HandlerKinds ==
    ASSUME TypeOK, NEW r \in Requests
    PROVE  LET h == handler[r] IN
           /\ h \in HandlerStates /\ h.op \in Ops /\ h.group \in Groups
           /\ h.row \in Nat /\ h.fresh \subseteq Types /\ h.enter \in BOOLEAN
           /\ h.open \subseteq StageNames
           /\ h.docs \subseteq EntryIds /\ h.todo \subseteq EntryIds
<1>1. handler[r] \in HandlerStates
  BY DEF TypeOK
<1> QED
  BY <1>1 DEF HandlerStates

LEMMA IdleTyped ==
    /\ Idle \in HandlerStates
    /\ Idle.op = "idle"
BY DEF Idle, HandlerStates, Ops, Groups

LEMMA IdleCarries ==
    ASSUME NEW g
    PROVE  Carries(Idle, g) /\ Carries(Idle, g)'
BY DEF Carries, Idle, CompletionOps

\* A review is completed on documents: there is one of every type.
LEMMA AllDocsThere ==
    ASSUME NEW g \in Groups, AllDocs(g)
    PROVE  DocsOf(g) # {}
<1> SUFFICES ASSUME DocsOf(g) = {} PROVE FALSE
  OBVIOUS
<1>1. Cardinality(TypesOf(g)) = 0
  BY FS_EmptySet DEF AllDocs
<1>2. IsFiniteSet(TypesOf(g))
  BY FiniteAssumption DEF TypesOf
<1> QED
  BY <1>1, <1>2, FS_EmptySet DEF AllDocs

-----------------------------------------------------------------------------
(* What every step does: documents, approvals given, condition precedents  *)
(* and HSF's marks are only ever added.                                    *)

Later ==
    /\ \A g \in Groups : \A i \in DocsOf(g) :
          i \in DocsOf(g)' /\ entries'[i].type = entries[i].type
    /\ reviewed \subseteq reviewed'
    /\ Len(conditions') \in Nat /\ Len(conditions) <= Len(conditions')
    /\ \A g \in Groups : HsfMarked(g) => HsfMarked(g)'

LEMMA RowsKept ==
    ASSUME IInv, UNCHANGED <<rows, reviewed>>
    PROVE  Later /\ OnDocuments'
<1>1. UNCHANGED <<entries, hsfCompleted, conditions, reviewed>>
  BY DEF rows, dip
<1>2. \A g \in Groups : DocsOf(g)' = DocsOf(g) /\ (HsfMarked(g)' <=> HsfMarked(g))
  BY <1>1 DEF DocsOf, Stored, HsfMarked, Marked
<1>3. Len(conditions) \in Nat
  BY DEF IInv, TypeOK
<1>4. Later
  BY <1>1, <1>2, <1>3 DEF Later
<1>5. OnDocuments'
  BY <1>1, <1>2 DEF IInv, OnDocuments
<1> QED
  BY <1>4, <1>5

\* What was read stays true of later rows.
LEMMA CarriesKept ==
    ASSUME IInv, Later, NEW h, NEW g \in Groups, Carries(h, g)
    PROVE  Carries(h, g)'
<1>1. Len(conditions) \in Nat /\ Len(conditions') \in Nat
      /\ Len(conditions) <= Len(conditions')
  BY DEF IInv, TypeOK, Later
<1>2. TypesOf(g)' = TypesOf(g)
  BY DEF TypesOf
<1>3. /\ \A i \in DocsOf(g) : i \in DocsOf(g)' /\ entries'[i].type = entries[i].type
      /\ reviewed \subseteq reviewed'
      /\ HsfMarked(g) => HsfMarked(g)'
  BY DEF Later
<1>4. ASSUME h.todo \subseteq DocsOf(g), Checked(h, g)
      PROVE  Checked(h, g)'
  BY <1>2, <1>3, <1>4 DEF Checked
<1>5. \A n \in {0, 1} : h.row \in n .. Len(conditions) => h.row \in n .. Len(conditions')
  BY <1>1
<1>6. /\ h.op \in {"upload read", "upload"} =>
            h.fresh \subseteq TypesOf(g)' /\ h.row \in 0 .. Len(conditions')
      /\ h.op \in CompletionOps /\ g = "ConditionPrecedent" =>
            h.row \in 1 .. Len(conditions')
      /\ h.op \in {"attach", "exit", "insert"} => h.row \in 1 .. Len(conditions')
  BY <1>2, <1>5 DEF Carries
<1>7. /\ h.op \in {"hsf", "lender"} => h.todo \subseteq DocsOf(g)' /\ Checked(h, g)'
      /\ h.op = "hsf" => h.docs \subseteq DocsOf(g)'
      /\ h.op = "lender" => h.todo # {} \/ HsfMarked(g)'
  BY <1>3, <1>4 DEF Carries
<1> QED
  BY <1>6, <1>7 DEF Carries, CompletionOps

\* A step of one request keeps what the others have read.
LEMMA InFlightAfter ==
    ASSUME IInv, Later, NEW r \in Requests, NEW h \in HandlerStates,
           handler' = [handler EXCEPT ![r] = h], Carries(h, h.group)'
    PROVE  InFlight'
<1> SUFFICES ASSUME NEW q \in Requests
             PROVE  Carries(handler[q], handler[q].group)'
  BY DEF InFlight
<1>1. CASE q = r
  <2>1. handler'[q] = h
    BY <1>1 DEF IInv, TypeOK
  <2> QED
    BY <2>1 DEF Carries, Checked, DocsOf, Stored, TypesOf, HsfMarked, Marked
<1>2. CASE q # r
  <2>1. handler'[q] = handler[q]
    BY <1>2 DEF IInv, TypeOK
  <2>2. handler[q].group \in Groups /\ Carries(handler[q], handler[q].group)
    BY HandlerKinds DEF IInv, InFlight
  <2>3. PICK k \in HandlerStates, g \in Groups : k = handler[q] /\ g = handler[q].group
    BY HandlerKinds DEF IInv
  <2>4. Carries(k, g)'
    BY <2>2, <2>3, CarriesKept
  <2> QED
    BY <2>1, <2>3, <2>4
       DEF Carries, Checked, DocsOf, Stored, TypesOf, HsfMarked, Marked
<1> QED
  BY <1>1, <1>2

\* A step of no request, or one that ends it, leaves InFlight.
LEMMA InFlightKept ==
    ASSUME IInv, Later,
           UNCHANGED handler
           \/ \E r \in Requests : handler' = [handler EXCEPT ![r] = Idle]
    PROVE  InFlight'
<1>1. CASE UNCHANGED handler
  <2> SUFFICES ASSUME NEW q \in Requests
               PROVE  Carries(handler[q], handler[q].group)'
    BY DEF InFlight
  <2>1. PICK k \in HandlerStates, g \in Groups : k = handler[q] /\ g = handler[q].group
    BY HandlerKinds DEF IInv
  <2>2. Carries(k, g)'
    BY <2>1, CarriesKept DEF IInv, InFlight
  <2> QED
    BY <1>1, <2>1, <2>2
       DEF Carries, Checked, DocsOf, Stored, TypesOf, HsfMarked, Marked
<1>2. ASSUME NEW r \in Requests, handler' = [handler EXCEPT ![r] = Idle]
      PROVE  InFlight'
  BY <1>2, IdleTyped, IdleCarries, InFlightAfter
<1> QED
  BY <1>1, <1>2

\* A request that has read keeps InFlight if it read what Carries says.
LEMMA ReadStep ==
    ASSUME IInv, NEW r \in Requests, NEW h \in HandlerStates, Reads(r, h),
           Carries(h, h.group)
    PROVE  IInv' /\ Later
<1>0. /\ handler' = [handler EXCEPT ![r] = h]
      /\ UNCHANGED <<rows, eligible, reviewed, again>>
  BY DEF Reads
<1>1. TypeOK'
  BY <1>0 DEF IInv, TypeOK, rows, dip
<1>2. Later /\ OnDocuments'
  BY <1>0, RowsKept
<1>3. h.group \in Groups
  BY DEF HandlerStates
<1>4. Carries(h, h.group)'
  BY <1>2, <1>3, CarriesKept
<1>5. InFlight'
  BY <1>0, <1>2, <1>4, InFlightAfter
<1> QED
  BY <1>1, <1>2, <1>5 DEF IInv

-----------------------------------------------------------------------------
(* The reads.                                                              *)

LEMMA RowTyped ==
    ASSUME TypeOK, NEW g \in Groups
    PROVE  /\ RowOf(g) \in 0 .. Len(conditions) /\ RowOf(g) \in Nat
           /\ \A mark \in {"hsf", "lender"} :
                 g = "ConditionPrecedent" /\ ConditionOpen(g, mark) =>
                    RowOf(g) \in 1 .. Len(conditions)
BY DEF TypeOK, RowOf, ConditionOpen

LEMMA ReadForUploadStep ==
    ASSUME IInv, NEW r \in Requests, NEW g \in Groups, NEW fresh \in SUBSET Types,
           ReadForUpload(r, g, fresh)
    PROVE  IInv' /\ Later
<1> DEFINE h == [Idle EXCEPT !.op = "upload read", !.group = g,
                             !.row = RowOf(g), !.fresh = fresh]
<1>1. RowOf(g) \in 0 .. Len(conditions) /\ RowOf(g) \in Nat
  BY RowTyped DEF IInv
<1>2. h \in HandlerStates
  BY <1>1 DEF Idle, HandlerStates, Ops
<1>3. h.op = "upload read" /\ h.group = g /\ h.row = RowOf(g) /\ h.fresh = fresh
  BY DEF Idle
<1>4. Reads(r, h) /\ fresh \subseteq TypesOf(g)
  BY DEF ReadForUpload
<1> HIDE DEF h
<1>5. Carries(h, h.group)
  BY <1>1, <1>3, <1>4 DEF Carries, CompletionOps
<1> QED
  BY <1>2, <1>4, <1>5, ReadStep

LEMMA ReadForHsfStep ==
    ASSUME IInv, NEW r \in Requests, NEW g \in Groups, ReadForHsf(r, g)
    PROVE  IInv' /\ Later
<1> DEFINE h == [Idle EXCEPT !.op = "hsf read", !.group = g, !.row = RowOf(g)]
<1>1. /\ RowOf(g) \in Nat
      /\ g = "ConditionPrecedent" => RowOf(g) \in 1 .. Len(conditions)
  BY RowTyped DEF IInv, ReadForHsf
<1>2. h \in HandlerStates
  BY <1>1 DEF Idle, HandlerStates, Ops
<1>3. h.op = "hsf read" /\ h.group = g /\ h.row = RowOf(g)
  BY DEF Idle
<1>4. Reads(r, h)
  BY DEF ReadForHsf
<1> HIDE DEF h
<1>5. Carries(h, h.group)
  BY <1>1, <1>3 DEF Carries
<1> QED
  BY <1>2, <1>4, <1>5, ReadStep

LEMMA ReadForLenderStep ==
    ASSUME IInv, NEW r \in Requests, NEW g \in Groups, ReadForLender(r, g)
    PROVE  IInv' /\ Later
<1> DEFINE h == [Idle EXCEPT !.op = "lender read", !.group = g, !.row = RowOf(g)]
<1>1. /\ RowOf(g) \in Nat
      /\ g = "ConditionPrecedent" => RowOf(g) \in 1 .. Len(conditions)
  BY RowTyped DEF IInv, ReadForLender
<1>2. h \in HandlerStates
  BY <1>1 DEF Idle, HandlerStates, Ops
<1>3. h.op = "lender read" /\ h.group = g /\ h.row = RowOf(g)
  BY DEF Idle
<1>4. Reads(r, h)
  BY DEF ReadForLender
<1> HIDE DEF h
<1>5. Carries(h, h.group)
  BY <1>1, <1>3 DEF Carries
<1> QED
  BY <1>2, <1>4, <1>5, ReadStep

\* What the stages are does not matter here.
LEMMA ReadStagesStep ==
    ASSUME IInv, NEW r \in Requests, ReadStages(r)
    PROVE  IInv' /\ Later
<1>1. /\ handler[r] \in HandlerStates /\ handler[r].group \in Groups
      /\ OpenStages(stages) \subseteq StageNames
  BY HandlerKinds DEF IInv, OpenStages
<1>2. Carries(handler[r], handler[r].group)
  BY DEF IInv, InFlight
<1>3. CASE handler[r].op = "upload read"
  <2> DEFINE h == [handler[r] EXCEPT !.op = "upload", !.open = OpenStages(stages),
                     !.enter = stages[UploadStage(handler[r].group)] = "absent"]
  <2>1. /\ h \in HandlerStates /\ h.op = "upload" /\ h.group = handler[r].group
        /\ h.fresh = handler[r].fresh /\ h.row = handler[r].row
    BY <1>1 DEF HandlerStates, Ops
  <2>2. Reads(r, h)
    BY <1>3 DEF ReadStages
  <2> HIDE DEF h
  <2>3. Carries(h, h.group)
    BY <1>2, <1>3, <2>1 DEF Carries, CompletionOps
  <2> QED
    BY <2>1, <2>2, <2>3, ReadStep
<1>4. CASE handler[r].op = "lender read"
  <2> DEFINE h == [handler[r] EXCEPT !.op = "lender list", !.open = OpenStages(stages)]
  <2>1. /\ h \in HandlerStates /\ h.op = "lender list" /\ h.group = handler[r].group
        /\ h.row = handler[r].row
    BY <1>1 DEF HandlerStates, Ops
  <2>2. Reads(r, h)
    BY <1>4 DEF ReadStages
  <2> HIDE DEF h
  <2>3. Carries(h, h.group)
    BY <1>2, <1>4, <2>1 DEF Carries, CompletionOps
  <2> QED
    BY <2>1, <2>2, <2>3, ReadStep
<1>5. CASE handler[r].op = "ready read"
  <2> DEFINE h == [handler[r] EXCEPT !.op = "ready", !.open = OpenStages(stages)]
  <2>1. h \in HandlerStates /\ h.op = "ready"
    BY <1>1 DEF HandlerStates, Ops
  <2>2. Reads(r, h)
    BY <1>5 DEF ReadStages
  <2> HIDE DEF h
  <2>3. Carries(h, h.group)
    BY <2>1 DEF Carries, CompletionOps
  <2> QED
    BY <2>1, <2>2, <2>3, ReadStep
<1> QED
  BY <1>3, <1>4, <1>5 DEF ReadStages

\* There is a document of every type to check.
LEMMA ReadDocumentsStep ==
    ASSUME IInv, NEW r \in Requests, ReadDocuments(r)
    PROVE  IInv' /\ Later
<1> DEFINE g == handler[r].group
<1>1. handler[r] \in HandlerStates /\ g \in Groups /\ DocsOf(g) \subseteq EntryIds
  BY HandlerKinds DEF IInv, DocsOf, Stored
<1>2. Carries(handler[r], g)
  BY DEF IInv, InFlight
<1>3. DocsOf(g) # {} /\ \A t \in TypesOf(g) : \E i \in DocsOf(g) : entries[i].type = t
  BY <1>1, AllDocsThere DEF ReadDocuments, IInv, OnDocuments
<1>4. CASE handler[r].op = "hsf read"
  <2> DEFINE h == [handler[r] EXCEPT !.op = "hsf", !.docs = DocsOf(g),
                                     !.todo = DocsOf(g)]
  <2>1. /\ h \in HandlerStates /\ h.op = "hsf" /\ h.group = g
        /\ h.row = handler[r].row /\ h.docs = DocsOf(g) /\ h.todo = DocsOf(g)
    BY <1>1 DEF HandlerStates, Ops
  <2>2. Reads(r, h)
    BY <1>4 DEF ReadDocuments
  <2> HIDE DEF h
  <2>3. Carries(h, h.group)
    BY <1>2, <1>3, <1>4, <2>1 DEF Carries, Checked, CompletionOps
  <2> QED
    BY <2>1, <2>2, <2>3, ReadStep
<1>5. CASE handler[r].op = "lender list"
  <2> DEFINE h == [handler[r] EXCEPT !.op = "lender", !.todo = DocsOf(g)]
  <2>1. /\ h \in HandlerStates /\ h.op = "lender" /\ h.group = g
        /\ h.row = handler[r].row /\ h.todo = DocsOf(g)
    BY <1>1 DEF HandlerStates, Ops
  <2>2. Reads(r, h)
    BY <1>5 DEF ReadDocuments
  <2> HIDE DEF h
  <2>3. Carries(h, h.group)
    BY <1>2, <1>3, <1>5, <2>1 DEF Carries, Checked, CompletionOps
  <2> QED
    BY <2>1, <2>2, <2>3, ReadStep
<1> QED
  BY <1>4, <1>5 DEF ReadDocuments

\* An approval that is read was given; one of the lender says that HSF has
\* completed its part.
LEMMA ReadApprovalStep ==
    ASSUME IInv, NEW r \in Requests, NEW i \in EntryIds, ReadApproval(r, i)
    PROVE  IInv' /\ Later
<1> DEFINE g == handler[r].group
           h == [handler[r] EXCEPT !.todo = @ \ {i}]
<1>1. handler[r] \in HandlerStates /\ g \in Groups
  BY HandlerKinds DEF IInv
<1>2. Carries(handler[r], g)
  BY DEF IInv, InFlight
<1>3. /\ h \in HandlerStates /\ h.op = handler[r].op /\ h.group = g
      /\ h.row = handler[r].row /\ h.docs = handler[r].docs
      /\ h.todo = handler[r].todo \ {i}
  BY <1>1 DEF HandlerStates
<1>4. Reads(r, h) /\ i \in handler[r].todo
  BY DEF ReadApproval
<1> HIDE DEF h
<1>5. h.op \in {"hsf", "lender"}
  BY <1>3 DEF ReadApproval
<1>6. i \in DocsOf(g) /\ h.todo \subseteq DocsOf(g) /\ Checked(handler[r], g)
  BY <1>2, <1>3, <1>4, <1>5 DEF Carries
<1>7. <<entries[i].type, h.op>> \in reviewed
  BY <1>1, <1>3, <1>6 DEF ReadApproval, IInv, OnDocuments
<1>8. h.op = "lender" => HsfMarked(g)
  <2>1. "Approved" \in Verdicts
    BY DEF Verdicts
  <2> QED
    BY <1>1, <1>3, <1>6, <2>1 DEF ReadApproval, IInv, OnDocuments
<1>9. Checked(h, g)
  BY <1>3, <1>6, <1>7 DEF Checked
<1>10. h.op = "hsf" => h.docs \subseteq DocsOf(g)
  BY <1>2, <1>3 DEF Carries
<1>11. g = "ConditionPrecedent" => h.row \in 1 .. Len(conditions)
  BY <1>2, <1>3, <1>5 DEF Carries, CompletionOps
<1>12. Carries(h, h.group)
  BY <1>3, <1>5, <1>6, <1>8, <1>9, <1>10, <1>11 DEF Carries
<1> QED
  BY <1>3, <1>4, <1>12, ReadStep

LEMMA ReadForReadyStep ==
    ASSUME IInv, NEW r \in Requests, ReadForReady(r)
    PROVE  IInv' /\ Later
<1> DEFINE h == [Idle EXCEPT !.op = "ready read", !.row = offers]
<1>1. h \in HandlerStates /\ h.op = "ready read"
  BY DEF IInv, TypeOK, Idle, HandlerStates, Ops, Groups
<1>2. Reads(r, h)
  BY DEF ReadForReady
<1> HIDE DEF h
<1>3. Carries(h, h.group)
  BY <1>1 DEF Carries, CompletionOps
<1> QED
  BY <1>1, <1>2, <1>3, ReadStep

LEMMA ReadForFeeStep ==
    ASSUME IInv, NEW r \in Requests, ReadForFee(r)
    PROVE  IInv' /\ Later
<1> DEFINE h == [Idle EXCEPT !.op = "fee", !.open = OpenStages(stages)]
<1>1. h \in HandlerStates /\ h.op = "fee"
  BY DEF Idle, HandlerStates, Ops, Groups, OpenStages
<1>2. Reads(r, h)
  BY DEF ReadForFee
<1> HIDE DEF h
<1>3. Carries(h, h.group)
  BY <1>1 DEF Carries, CompletionOps
<1> QED
  BY <1>1, <1>2, <1>3, ReadStep

LEMMA LookForStageStep ==
    ASSUME IInv, NEW r \in Requests, LookForStage(r)
    PROVE  IInv' /\ Later
<1>1. handler[r] \in HandlerStates /\ Carries(handler[r], handler[r].group)
  BY HandlerKinds DEF IInv, InFlight
<1>2. CASE Reads(r, Idle)
  BY <1>2, IdleTyped, IdleCarries, ReadStep
<1>3. CASE Reads(r, [handler[r] EXCEPT !.op = "insert"])
  <2> DEFINE h == [handler[r] EXCEPT !.op = "insert"]
  <2>1. /\ h \in HandlerStates /\ h.op = "insert" /\ h.group = handler[r].group
        /\ h.row = handler[r].row
    BY <1>1 DEF HandlerStates, Ops
  <2>2. Reads(r, h)
    BY <1>3
  <2> HIDE DEF h
  <2>3. Carries(h, h.group)
    BY <1>1, <2>1 DEF Carries, CompletionOps, LookForStage
  <2> QED
    BY <2>1, <2>2, <2>3, ReadStep
<1> QED
  BY <1>2, <1>3 DEF LookForStage

LEMMA AbortStep ==
    ASSUME IInv, NEW r \in Requests, Abort(r)
    PROVE  IInv' /\ Later
BY IdleTyped, IdleCarries, ReadStep DEF Abort

-----------------------------------------------------------------------------
(* The writes. What a step does to the rows of documents and of condition  *)
(* precedents is stated first, so that each action only has to show which  *)
(* of these it is.                                                         *)

\* Answers change no document's type and remove none.
LEMMA SameDocs ==
    ASSUME TypeOK, TypeOK',
           \A i \in EntryIds :
              \/ entries'[i] = entries[i]
              \/ entries[i] \in Entry /\ entries'[i] \in Entry
                 /\ entries'[i].type = entries[i].type
    PROVE  /\ \A g \in Groups : DocsOf(g)' = DocsOf(g)
           /\ \A g \in Groups : \A i \in DocsOf(g) : entries'[i].type = entries[i].type
<1>1. \A i \in EntryIds : i \in Stored' <=> i \in Stored
  BY NotAbsent DEF TypeOK, Stored
<1>2. \A i \in Stored : entries'[i].type = entries[i].type
  BY DEF Stored
<1> QED
  BY <1>1, <1>2 DEF DocsOf, Stored, TypesOf

\* One condition precedent is rewritten: HSF's mark on it stays if it had it.
LEMMA ConditionRewritten ==
    ASSUME conditions \in Seq(Condition), NEW c \in 1 .. Len(conditions),
           NEW x \in Condition, conditions' = [conditions EXCEPT ![c] = x]
    PROVE  /\ conditions' \in Seq(Condition)
           /\ Len(conditions') = Len(conditions)
           /\ \A i \in 1 .. Len(conditions) :
                 conditions'[i] = IF i = c THEN x ELSE conditions[i]
BY ExceptSeq

LEMMA ConditionAdded ==
    ASSUME conditions \in Seq(Condition),
           conditions' = Append(conditions, NewCondition)
    PROVE  /\ conditions' \in Seq(Condition)
           /\ Len(conditions) \in Nat
           /\ Len(conditions') = Len(conditions) + 1
           /\ \A i \in 1 .. Len(conditions) : conditions'[i] = conditions[i]
           /\ conditions'[Len(conditions')] = NewCondition
<1>1. NewCondition \in Condition
  BY DEF NewCondition, Condition
<1> QED
  BY <1>1, AppendProperties, LenProperties

\* A new row has no mark.
LEMMA MarksOfAdded ==
    ASSUME conditions \in Seq(Condition),
           conditions' = Append(conditions, NewCondition),
           NEW mark \in {"hsf", "lender"}
    PROVE  Marked(mark)' <=> Marked(mark)
<1>1. ~NewCondition[mark]
  BY DEF NewCondition
<1> QED
  BY <1>1, ConditionAdded DEF Marked

\* A row set to be reviewed again keeps its marks.
LEMMA ReopenedCondition ==
    ASSUME conditions \in Seq(Condition), NEW c \in 1 .. Len(conditions),
           conditions' = [conditions EXCEPT ![c].status = "Pending"]
    PROVE  /\ conditions' \in Seq(Condition)
           /\ Len(conditions') = Len(conditions)
           /\ \A mark \in {"hsf", "lender"} : Marked(mark)' <=> Marked(mark)
<1> DEFINE x == [conditions[c] EXCEPT !.status = "Pending"]
<1>1. conditions[c] \in Condition
  BY ElementOfSeq
<1>2. x \in Condition /\ x.hsf = conditions[c].hsf /\ x.lender = conditions[c].lender
  BY <1>1 DEF Condition
<1>3. conditions' = [conditions EXCEPT ![c] = x]
  OBVIOUS
<1> HIDE DEF x
<1>4. /\ conditions' \in Seq(Condition)
      /\ Len(conditions') = Len(conditions)
      /\ \A i \in 1 .. Len(conditions) :
            conditions'[i] = IF i = c THEN x ELSE conditions[i]
  BY <1>2, <1>3, ConditionRewritten
<1>5. Marked("hsf")' <=> Marked("hsf")
  BY <1>2, <1>4 DEF Marked
<1>6. Marked("lender")' <=> Marked("lender")
  BY <1>2, <1>4 DEF Marked
<1> QED
  BY <1>4, <1>5, <1>6

LEMMA StagesStay ==
    ASSUME stages \in Stages, NEW read, NEW s \in StageNames
    PROVE  Enter(Exit(stages, read), s) \in Stages
BY DEF Enter, Exit, Stages, StageStates

\* What a request that writes has read.
LEMMA Read ==
    ASSUME IInv, NEW r \in Requests
    PROVE  /\ handler[r].group \in Groups
           /\ Carries(handler[r], handler[r].group)
BY HandlerKinds DEF IInv, InFlight

\* A completion that goes on to write has checked every type.
LEMMA AllChecked ==
    ASSUME IInv, NEW r \in Requests, handler[r].op \in {"hsf", "lender"},
           handler[r].todo = {}
    PROVE  /\ handler[r].group \in Groups
           /\ ReviewedBy(handler[r].group, handler[r].op)
           /\ handler[r].op = "hsf" => handler[r].docs \subseteq DocsOf(handler[r].group)
           /\ handler[r].op = "lender" => HsfMarked(handler[r].group)
           /\ handler[r].group = "ConditionPrecedent" =>
                 handler[r].row \in 1 .. Len(conditions)
BY Read DEF Carries, Checked, ReviewedBy, CompletionOps

\* The rows after an upload: those there were, and one for each fresh type.
LEMMA Stores ==
    ASSUME TypeOK, NEW fresh \in SUBSET Types, Store(fresh)
    PROVE  /\ \A i \in Stored : entries'[i] = entries[i]
           /\ \A i \in EntryIds \ Stored :
                 entries'[i] = Absent \/ \E t \in fresh : entries'[i] = NewDoc(t)
           /\ \A t \in fresh : \E i \in EntryIds : entries'[i] = NewDoc(t)
           /\ entries' \in [EntryIds -> Entry \cup {Absent}]
<1>1. PICK id \in [fresh -> EntryIds \ Stored] :
         /\ \A t, u \in fresh : id[t] = id[u] => t = u
         /\ entries' = [i \in EntryIds |->
                IF \E t \in fresh : id[t] = i
                THEN NewDoc(CHOOSE t \in fresh : id[t] = i)
                ELSE entries[i]]
  BY DEF Store
<1>2. \A i \in Stored : entries'[i] = entries[i]
  BY <1>1 DEF Stored
<1>3. \A t \in fresh : id[t] \in EntryIds /\ entries'[id[t]] = NewDoc(t)
  <2> SUFFICES ASSUME NEW t \in fresh
               PROVE  id[t] \in EntryIds /\ entries'[id[t]] = NewDoc(t)
    OBVIOUS
  <2>1. id[t] \in EntryIds
    BY <1>1
  <2>2. (CHOOSE u \in fresh : id[u] = id[t]) = t
    BY <1>1
  <2>3. entries'[id[t]] = NewDoc(CHOOSE u \in fresh : id[u] = id[t])
    BY <1>1, <2>1
  <2> QED
    BY <2>1, <2>2, <2>3
<1>4. \A i \in EntryIds \ Stored :
         entries'[i] = Absent \/ \E t \in fresh : entries'[i] = NewDoc(t)
  <2> SUFFICES ASSUME NEW i \in EntryIds \ Stored
               PROVE  entries'[i] = Absent \/ \E t \in fresh : entries'[i] = NewDoc(t)
    OBVIOUS
  <2>1. CASE \E t \in fresh : id[t] = i
    BY <1>3, <2>1
  <2>2. CASE ~ \E t \in fresh : id[t] = i
    BY <1>1, <2>2 DEF Stored
  <2> QED
    BY <2>1, <2>2
<1>5. \A i \in EntryIds : entries'[i] \in Entry \cup {Absent}
  BY <1>2, <1>4, NewDocTyped DEF TypeOK, Stored
<1>6. entries' \in [EntryIds -> Entry \cup {Absent}]
  BY <1>1, <1>5
<1> QED
  BY <1>2, <1>3, <1>4, <1>6

\* The condition precedents after an upload.
LEMMA Uploads ==
    ASSUME conditions \in Seq(Condition), current \in 0 .. Len(conditions),
           NEW g \in Groups, NEW c \in 0 .. Len(conditions), UploadCondition(g, c)
    PROVE  /\ conditions' \in Seq(Condition)
           /\ Len(conditions') \in Nat
           /\ Len(conditions) <= Len(conditions')
           /\ current' \in 0 .. Len(conditions')
           /\ \A mark \in {"hsf", "lender"} : Marked(mark)' <=> Marked(mark)
<1>0. Len(conditions) \in Nat
  BY LenProperties
<1>1. CASE UNCHANGED <<conditions, current>>
  BY <1>0, <1>1 DEF Marked
<1>2. CASE conditions' = Append(conditions, NewCondition) /\ current' = Len(conditions) + 1
  <2>1. \A mark \in {"hsf", "lender"} : Marked(mark)' <=> Marked(mark)
    BY <1>2, MarksOfAdded
  <2> QED
    BY <1>2, <2>1, ConditionAdded
<1>3. CASE /\ c \in 1 .. Len(conditions)
           /\ conditions' = [conditions EXCEPT ![c].status = "Pending"]
           /\ UNCHANGED current
  <2>1. /\ conditions' \in Seq(Condition)
        /\ Len(conditions') = Len(conditions)
        /\ \A mark \in {"hsf", "lender"} : Marked(mark)' <=> Marked(mark)
    BY <1>3, ReopenedCondition, Zenon
  <2>2. current' = current
    BY <1>3
  <2> HIDE <1>3
  <2> QED
    BY <1>0, <2>1, <2>2
<1>4. g = "MortgageUpload" \/ c = 0 \/ c \in 1 .. Len(conditions)
  BY <1>0
<1> QED
  BY <1>1, <1>2, <1>3, <1>4 DEF UploadCondition

LEMMA CommitUploadStep ==
    ASSUME IInv, NEW r \in Requests, CommitUpload(r)
    PROVE  IInv' /\ Later
<1> DEFINE h == handler[r]
           g == h.group
<1>0. TypeOK /\ OnDocuments
  BY DEF IInv
<1>1. h.op = "upload"
  BY DEF CommitUpload
<1>2. /\ g \in Groups /\ h.fresh \subseteq TypesOf(g) /\ h.fresh \subseteq Types
      /\ h.row \in 0 .. Len(conditions)
  BY <1>1, Read DEF Carries, TypesOf, Types
<1>3. h.fresh \in SUBSET Types /\ Store(h.fresh) /\ UploadCondition(g, h.row)
  BY <1>2 DEF CommitUpload
<1>4. handler' = [handler EXCEPT ![r] = Idle]
  BY DEF CommitUpload
<1>5. UNCHANGED <<hsfCompleted, lenderCompleted, offers, eligible, reviewed, again>>
  BY DEF CommitUpload
<1>6. /\ conditions' \in Seq(Condition)
      /\ Len(conditions') \in Nat
      /\ Len(conditions) <= Len(conditions')
      /\ current' \in 0 .. Len(conditions')
      /\ Marked("hsf")' <=> Marked("hsf")
  BY <1>0, <1>2, <1>3, Uploads DEF TypeOK
<1>7. stages' \in Stages
  <2>1. UploadStage(g) \in StageNames
    BY DEF UploadStage, StageNames
  <2>2. Enter(Exit(stages, h.open), UploadStage(g)) \in Stages
    BY <1>0, <2>1, StagesStay DEF TypeOK
  <2> QED
    BY <1>0, <2>2 DEF CommitUpload, TypeOK
<1>8. /\ \A i \in Stored : entries'[i] = entries[i]
      /\ \A i \in EntryIds \ Stored :
            entries'[i] = Absent \/ \E t \in h.fresh : entries'[i] = NewDoc(t)
      /\ \A t \in h.fresh : \E i \in EntryIds : entries'[i] = NewDoc(t)
      /\ entries' \in [EntryIds -> Entry \cup {Absent}]
  BY <1>0, <1>3, Stores
<1>9. TypeOK'
  <2>1. handler' \in [Requests -> HandlerStates]
    BY <1>0, <1>4, IdleTyped DEF TypeOK
  <2>2. dipStatus' \in DipStatuses
    BY DEF CommitUpload, DipStatuses
  <2> QED
    BY <1>0, <1>5, <1>6, <1>7, <1>8, <2>1, <2>2 DEF TypeOK
<1>10. \A i \in EntryIds : entries'[i] # Absent =>
          \/ i \in Stored /\ entries'[i] = entries[i]
          \/ \E t \in h.fresh : entries'[i] = NewDoc(t)
  BY <1>8
<1>11. \A i \in Stored : i \in Stored' /\ entries'[i] = entries[i]
  BY <1>8 DEF Stored
<1>12. ASSUME NEW p \in Groups
       PROVE  /\ DocsOf(p) \subseteq DocsOf(p)'
              /\ HsfMarked(p)' <=> HsfMarked(p)
              /\ \A i \in DocsOf(p)' : i \in DocsOf(p)
                    \/ (p = g /\ \E t \in h.fresh : entries'[i] = NewDoc(t))
  <2>1. DocsOf(p) \subseteq DocsOf(p)'
    BY <1>11 DEF DocsOf, TypesOf
  <2>2. HsfMarked(p)' <=> HsfMarked(p)
    BY <1>5, <1>6 DEF HsfMarked
  <2>3. ASSUME NEW i \in DocsOf(p)', i \notin DocsOf(p)
        PROVE  p = g /\ \E t \in h.fresh : entries'[i] = NewDoc(t)
    <3>1. i \in EntryIds /\ entries'[i] # Absent /\ entries'[i].type \in TypesOf(p)
      BY DEF DocsOf, Stored, TypesOf
    <3>2. PICK t \in h.fresh : entries'[i] = NewDoc(t)
      BY <1>10, <2>3, <3>1 DEF DocsOf
    <3>3. t \in TypesOf(p) /\ t \in TypesOf(g)
      BY <1>2, <3>1, <3>2 DEF NewDoc
    <3> QED
      BY <1>2, <3>2, <3>3, TypesAssumption DEF TypesOf, Groups
  <2>4. \A i \in DocsOf(p)' : i \in DocsOf(p)
           \/ (p = g /\ \E t \in h.fresh : entries'[i] = NewDoc(t))
    BY <2>3
  <2> QED
    BY <2>1, <2>2, <2>4
<1>13. Later
  BY <1>5, <1>6, <1>11, <1>12 DEF Later, DocsOf
<1>14. OnDocuments'
  <2>1. ASSUME NEW p \in Groups, NEW i \in DocsOf(p)'
        PROVE  /\ entries'[i].hsf = "Approved" => <<entries'[i].type, "hsf">> \in reviewed'
               /\ entries'[i].lender["Approved"] > 0 => <<entries'[i].type, "lender">> \in reviewed'
               /\ \A v \in Verdicts : entries'[i].lender[v] > 0 => HsfMarked(p)'
    <3>1. CASE i \in DocsOf(p)
      <4>1. entries'[i] = entries[i]
        BY <1>11, <3>1 DEF DocsOf
      <4> QED
        BY <1>0, <1>5, <1>12, <3>1, <4>1 DEF OnDocuments
    <3>2. ASSUME NEW t \in h.fresh, entries'[i] = NewDoc(t)
          PROVE  /\ entries'[i].hsf # "Approved"
                 /\ \A v \in Verdicts : entries'[i].lender[v] = 0
      BY <3>2 DEF NewDoc, NoVerdict
    <3> QED
      BY <1>12, <2>1, <3>1, <3>2 DEF Verdicts
  <2>2. ASSUME NEW p \in Groups, DocsOf(p)' # {}, NEW t \in TypesOf(p)
        PROVE  \E i \in DocsOf(p)' : entries'[i].type = t
    <3>1. CASE \E i \in DocsOf(p) : entries[i].type = t
      BY <1>11, <1>12, <3>1 DEF DocsOf
    <3>2. CASE p = g /\ t \in h.fresh
      <4>1. PICK i \in EntryIds : entries'[i] = NewDoc(t)
        BY <1>8, <3>2
      <4>2. t \in Types
        BY <1>2, <3>2
      <4>3. entries'[i] # Absent
        BY <4>1, <4>2, NewDocTyped, NotAbsent
      <4>4. entries'[i].type = t
        BY <4>1 DEF NewDoc
      <4> QED
        BY <1>2, <3>2, <4>3, <4>4 DEF DocsOf, Stored, TypesOf
    <3>3. CASE p = g /\ t \notin h.fresh
      <4>1. Kept(t)
        BY <2>2, <3>3 DEF CommitUpload
      <4> QED
        BY <2>2, <3>1, <3>3, <4>1 DEF Kept, DocsOf
    <3>4. CASE p # g
      <4>1. DocsOf(p) # {}
        BY <1>12, <2>2, <3>4
      <4> QED
        BY <1>0, <2>2, <3>1, <4>1 DEF OnDocuments
    <3> QED
      BY <3>2, <3>3, <3>4
  <2> QED
    BY <2>1, <2>2 DEF OnDocuments, TypesOf
<1> QED
  BY <1>4, <1>9, <1>13, <1>14, InFlightKept DEF IInv

LEMMA RespondHsfStep ==
    ASSUME IInv, NEW i \in EntryIds, NEW v \in Verdicts, RespondHsf(i, v)
    PROVE  IInv' /\ Later
<1>0. TypeOK /\ OnDocuments /\ entries[i] \in Entry /\ i \in Stored
  BY StoredAre DEF IInv, RespondHsf
<1> DEFINE x == [entries[i] EXCEPT !.hsf = v]
<1>1. x \in Entry /\ x.type = entries[i].type /\ x.hsf = v /\ x.lender = entries[i].lender
  BY <1>0 DEF Entry
<1>2. entries' = [entries EXCEPT ![i] = x]
  BY DEF RespondHsf
<1> HIDE DEF x
<1>3. UNCHANGED <<hsfCompleted, conditions, handler>>
  BY DEF RespondHsf, dip
<1>4. /\ reviewed' \in SUBSET (Types \X Organizations)
      /\ reviewed \subseteq reviewed'
      /\ v = "Approved" => <<x.type, "hsf">> \in reviewed'
  <2>1. <<x.type, "hsf">> \in Types \X Organizations
    BY <1>1 DEF Entry, Organizations
  <2> QED
    BY <1>0, <1>1, <2>1 DEF RespondHsf, TypeOK
<1>5. TypeOK'
  BY <1>0, <1>1, <1>2, <1>4 DEF TypeOK, RespondHsf, dip
<1>6. \A j \in EntryIds : entries'[j] = IF j = i THEN x ELSE entries[j]
  BY <1>0, <1>2 DEF TypeOK
<1>7. /\ \A g \in Groups : DocsOf(g)' = DocsOf(g)
      /\ \A g \in Groups : \A j \in DocsOf(g) : entries'[j].type = entries[j].type
  BY <1>0, <1>1, <1>5, <1>6, SameDocs
<1>8. \A g \in Groups : HsfMarked(g)' <=> HsfMarked(g)
  BY <1>3 DEF HsfMarked, Marked
<1>9. Later
  BY <1>0, <1>3, <1>4, <1>7, <1>8 DEF Later, TypeOK
<1>10. OnDocuments'
  <2>1. ASSUME NEW p \in Groups, NEW j \in DocsOf(p)
        PROVE  /\ j \in EntryIds
               /\ entries'[j].type = entries[j].type
               /\ entries'[j].lender = entries[j].lender
               /\ entries'[j].hsf = "Approved" => <<entries'[j].type, "hsf">> \in reviewed'
    <3>1. j \in EntryIds
      BY DEF DocsOf, Stored
    <3> QED
      BY <1>0, <1>1, <1>4, <1>6, <3>1 DEF OnDocuments
  <2>2. ASSUME NEW p \in Groups, NEW j \in DocsOf(p)
        PROVE  /\ entries'[j].lender["Approved"] > 0 =>
                     <<entries'[j].type, "lender">> \in reviewed'
               /\ \A w \in Verdicts : entries'[j].lender[w] > 0 => HsfMarked(p)'
    <3>1. /\ entries[j].lender["Approved"] > 0 => <<entries[j].type, "lender">> \in reviewed
          /\ \A w \in Verdicts : entries[j].lender[w] > 0 => HsfMarked(p)
      BY <1>0 DEF OnDocuments
    <3> QED
      BY <1>4, <1>8, <2>1, <3>1
  <2>3. ASSUME NEW p \in Groups, DocsOf(p) # {}, NEW t \in TypesOf(p)
        PROVE  \E j \in DocsOf(p) : entries'[j].type = t
    <3>1. \E j \in DocsOf(p) : entries[j].type = t
      BY <1>0, <2>3 DEF OnDocuments
    <3> QED
      BY <2>1, <3>1
  <2> QED
    BY <1>7, <2>1, <2>2, <2>3 DEF OnDocuments, TypesOf
<1> QED
  BY <1>3, <1>5, <1>9, <1>10, InFlightKept DEF IInv

\* An approval the lender answers exists, so HSF's part is complete.
LEMMA RespondLenderStep ==
    ASSUME IInv, NEW i \in EntryIds, NEW v \in Verdicts, NEW old \in Verdicts,
           RespondLender(i, old, v)
    PROVE  IInv' /\ Later
<1>0. TypeOK /\ OnDocuments /\ entries[i] \in Entry /\ i \in Stored
      /\ entries[i].lender[old] > 0
  BY StoredAre DEF IInv, RespondLender
<1> DEFINE count == [w \in Verdicts |->
                entries[i].lender[w] - (IF w = old THEN 1 ELSE 0)
                                     + (IF w = v THEN 1 ELSE 0)]
           x == [entries[i] EXCEPT !.lender = count]
<1>1. entries[i].lender \in [Verdicts -> Nat]
  BY <1>0 DEF Entry
<1>2. count \in [Verdicts -> Nat]
  BY <1>0, <1>1
<1>3. count["Approved"] > 0 => v = "Approved" \/ entries[i].lender["Approved"] > 0
  BY <1>1 DEF Verdicts
<1>4. entries' = [entries EXCEPT ![i] = x]
  BY DEF RespondLender
<1> HIDE DEF count
<1>5. x \in Entry /\ x.type = entries[i].type /\ x.hsf = entries[i].hsf /\ x.lender = count
  BY <1>0, <1>2 DEF Entry
<1> HIDE DEF x
<1>6. UNCHANGED <<hsfCompleted, conditions, handler>>
  BY DEF RespondLender, dip
<1>7. /\ reviewed' \in SUBSET (Types \X Organizations)
      /\ reviewed \subseteq reviewed'
      /\ v = "Approved" => <<x.type, "lender">> \in reviewed'
  <2>1. <<x.type, "lender">> \in Types \X Organizations
    BY <1>5 DEF Entry, Organizations
  <2> QED
    BY <1>0, <1>5, <2>1 DEF RespondLender, TypeOK
<1>8. TypeOK'
  BY <1>0, <1>4, <1>5, <1>7 DEF TypeOK, RespondLender, dip
<1>9. \A j \in EntryIds : entries'[j] = IF j = i THEN x ELSE entries[j]
  BY <1>0, <1>4 DEF TypeOK
<1>10. /\ \A g \in Groups : DocsOf(g)' = DocsOf(g)
       /\ \A g \in Groups : \A j \in DocsOf(g) : entries'[j].type = entries[j].type
  BY <1>0, <1>5, <1>8, <1>9, SameDocs
<1>11. \A g \in Groups : HsfMarked(g)' <=> HsfMarked(g)
  BY <1>6 DEF HsfMarked, Marked
<1>12. Later
  BY <1>0, <1>6, <1>7, <1>10, <1>11 DEF Later, TypeOK
<1>13. OnDocuments'
  <2>1. ASSUME NEW p \in Groups, NEW j \in DocsOf(p)
        PROVE  /\ entries'[j].type = entries[j].type
               /\ entries'[j].hsf = entries[j].hsf
               /\ entries'[j].lender["Approved"] > 0 =>
                     <<entries'[j].type, "lender">> \in reviewed'
               /\ \A w \in Verdicts : entries'[j].lender[w] > 0 => HsfMarked(p)
    <3>1. j \in EntryIds
      BY DEF DocsOf, Stored
    <3>2. CASE j # i
      BY <1>0, <1>7, <1>9, <3>1, <3>2 DEF OnDocuments
    <3>3. CASE j = i
      <4>1. HsfMarked(p)
        BY <1>0, <3>3 DEF OnDocuments
      <4>2. entries[j].lender["Approved"] > 0 => <<entries[j].type, "lender">> \in reviewed
        BY <1>0 DEF OnDocuments
      <4> QED
        BY <1>3, <1>5, <1>7, <1>9, <3>1, <3>3, <4>1, <4>2
    <3> QED
      BY <3>2, <3>3
  <2>2. ASSUME NEW p \in Groups, NEW j \in DocsOf(p)
        PROVE  entries'[j].hsf = "Approved" => <<entries'[j].type, "hsf">> \in reviewed'
    <3>1. entries[j].hsf = "Approved" => <<entries[j].type, "hsf">> \in reviewed
      BY <1>0 DEF OnDocuments
    <3> QED
      BY <1>7, <2>1, <3>1
  <2>3. ASSUME NEW p \in Groups, DocsOf(p) # {}, NEW t \in TypesOf(p)
        PROVE  \E j \in DocsOf(p) : entries'[j].type = t
    <3>1. \E j \in DocsOf(p) : entries[j].type = t
      BY <1>0, <2>3 DEF OnDocuments
    <3> QED
      BY <2>1, <3>1
  <2> QED
    BY <1>10, <1>11, <2>1, <2>2, <2>3 DEF OnDocuments, TypesOf
<1> QED
  BY <1>6, <1>8, <1>12, <1>13, InFlightKept DEF IInv

\* HSF's mark comes with the lender's approvals.
LEMMA CommitHsfStep ==
    ASSUME IInv, NEW r \in Requests, CommitHsf(r)
    PROVE  IInv' /\ Later
<1> DEFINE h == handler[r]
<1>0. TypeOK /\ OnDocuments
  BY DEF IInv
<1>1. h.op = "hsf" /\ h.todo = {}
  BY DEF CommitHsf
<1>2. PICK g \in Groups :
         /\ h.group = g
         /\ h.docs \subseteq DocsOf(g)
         /\ g = "ConditionPrecedent" => h.row \in 1 .. Len(conditions)
  BY <1>1, AllChecked
<1>3. /\ handler' = [handler EXCEPT ![r] = Idle]
      /\ UNCHANGED <<dipStatus, lenderCompleted, current, offers, stages,
                     eligible, reviewed, again>>
  BY DEF CommitHsf
<1>4. /\ conditions' \in Seq(Condition)
      /\ Len(conditions') = Len(conditions)
      /\ hsfCompleted' \in BOOLEAN
      /\ \A p \in Groups : HsfMarked(p) => HsfMarked(p)'
      /\ HsfMarked(g)'
  <2>1. CASE g = "MortgageUpload"
    <3>1. hsfCompleted' = TRUE /\ conditions' = conditions
      BY <1>2, <2>1 DEF CommitHsf
    <3>2. Marked("hsf")' <=> Marked("hsf")
      BY <3>1 DEF Marked
    <3> QED
      BY <1>0, <2>1, <3>1, <3>2 DEF HsfMarked, TypeOK
  <2>2. CASE g # "MortgageUpload"
    <3>1. g = "ConditionPrecedent" /\ h.row \in 1 .. Len(conditions)
      BY <1>2, <2>2 DEF Groups
    <3> DEFINE c == h.row
               x == [conditions[c] EXCEPT !.hsf = TRUE]
    <3>2. conditions[c] \in Condition
      BY <1>0, <3>1, ElementOfSeq DEF TypeOK
    <3>3. x \in Condition /\ x.hsf
      BY <3>2 DEF Condition
    <3>4. conditions' = [conditions EXCEPT ![c] = x] /\ hsfCompleted' = hsfCompleted
      BY <1>2, <2>2 DEF CommitHsf
    <3> HIDE DEF x
    <3>5. /\ conditions' \in Seq(Condition)
          /\ Len(conditions') = Len(conditions)
          /\ \A i \in 1 .. Len(conditions) :
                conditions'[i] = IF i = c THEN x ELSE conditions[i]
      BY <1>0, <3>1, <3>3, <3>4, ConditionRewritten DEF TypeOK
    <3>6. Marked("hsf")'
      BY <3>1, <3>3, <3>5 DEF Marked
    <3>7. HsfMarked("MortgageUpload")' <=> HsfMarked("MortgageUpload")
      BY <3>4 DEF HsfMarked
    <3>8. HsfMarked("ConditionPrecedent")'
      BY <3>6 DEF HsfMarked
    <3> QED
      BY <1>0, <3>1, <3>4, <3>5, <3>7, <3>8 DEF Groups, TypeOK
  <2> QED
    BY <2>1, <2>2
<1>5. entries' = [i \in EntryIds |->
          IF i \in h.docs THEN [entries[i] EXCEPT !.lender["Pending"] = @ + 1]
          ELSE entries[i]]
  BY DEF CommitHsf
<1>6. \A i \in h.docs : i \in EntryIds /\ entries[i] \in Entry
  BY <1>0, <1>2, StoredAre DEF DocsOf, Stored
<1>7. ASSUME NEW i \in h.docs
      PROVE  /\ entries'[i] \in Entry
             /\ entries'[i].type = entries[i].type
             /\ entries'[i].hsf = entries[i].hsf
             /\ entries'[i].lender["Approved"] = entries[i].lender["Approved"]
  <2> DEFINE count == [entries[i].lender EXCEPT !["Pending"] = @ + 1]
  <2>1. entries'[i] = [entries[i] EXCEPT !.lender = count]
    BY <1>5, <1>6
  <2>2. /\ count \in [Verdicts -> Nat]
        /\ count["Approved"] = entries[i].lender["Approved"]
    BY <1>6 DEF Entry, Verdicts
  <2> HIDE DEF count
  <2> QED
    BY <1>6, <2>1, <2>2 DEF Entry
<1>8. \A i \in EntryIds \ h.docs : entries'[i] = entries[i]
  BY <1>5
<1>9. TypeOK'
  <2>1. entries' \in [EntryIds -> Entry \cup {Absent}]
    <3>1. \A i \in EntryIds : entries'[i] \in Entry \cup {Absent}
      BY <1>0, <1>7, <1>8 DEF TypeOK
    <3> QED
      BY <1>5, <3>1
  <2>2. handler' \in [Requests -> HandlerStates]
    BY <1>0, <1>3, IdleTyped DEF TypeOK
  <2> QED
    BY <1>0, <1>3, <1>4, <2>1, <2>2 DEF TypeOK
<1>10. /\ \A p \in Groups : DocsOf(p)' = DocsOf(p)
       /\ \A p \in Groups : \A j \in DocsOf(p) : entries'[j].type = entries[j].type
  BY <1>0, <1>6, <1>7, <1>8, <1>9, SameDocs
<1>11. Later
  BY <1>0, <1>3, <1>4, <1>10 DEF Later, TypeOK
<1>12. OnDocuments'
  <2>1. ASSUME NEW p \in Groups, NEW j \in DocsOf(p)
        PROVE  /\ entries'[j].type = entries[j].type
               /\ entries'[j].hsf = entries[j].hsf
               /\ entries'[j].lender["Approved"] = entries[j].lender["Approved"]
               /\ \A w \in Verdicts : entries'[j].lender[w] > 0 => HsfMarked(p)'
    <3>1. j \in EntryIds
      BY DEF DocsOf, Stored
    <3>2. CASE j \notin h.docs
      BY <1>0, <1>4, <1>8, <3>1, <3>2 DEF OnDocuments
    <3>3. CASE j \in h.docs
      <4>1. p = g
        BY <1>2, <3>3, TypesAssumption DEF DocsOf, TypesOf, Groups
      <4>2. HsfMarked(p)'
        BY <1>2, <1>4, <4>1
      <4> QED
        BY <1>7, <3>3, <4>2
    <3> QED
      BY <3>2, <3>3
  <2>2. ASSUME NEW p \in Groups, NEW j \in DocsOf(p)
        PROVE  /\ entries'[j].hsf = "Approved" => <<entries'[j].type, "hsf">> \in reviewed'
               /\ entries'[j].lender["Approved"] > 0 =>
                     <<entries'[j].type, "lender">> \in reviewed'
    <3>1. /\ entries[j].hsf = "Approved" => <<entries[j].type, "hsf">> \in reviewed
          /\ entries[j].lender["Approved"] > 0 => <<entries[j].type, "lender">> \in reviewed
      BY <1>0 DEF OnDocuments
    <3> QED
      BY <1>3, <2>1, <3>1
  <2>3. ASSUME NEW p \in Groups, DocsOf(p) # {}, NEW t \in TypesOf(p)
        PROVE  \E j \in DocsOf(p) : entries'[j].type = t
    <3>1. \E j \in DocsOf(p) : entries[j].type = t
      BY <1>0, <2>3 DEF OnDocuments
    <3> QED
      BY <2>1, <3>1
  <2> QED
    BY <1>10, <2>1, <2>2, <2>3 DEF OnDocuments, TypesOf
<1> QED
  BY <1>3, <1>9, <1>11, <1>12, InFlightKept DEF IInv

\* Steps that write no document and give no approval.
LEMMA DocsKept ==
    ASSUME IInv, UNCHANGED <<entries, reviewed>>,
           Len(conditions') \in Nat, Len(conditions) <= Len(conditions'),
           \A g \in Groups : HsfMarked(g)' <=> HsfMarked(g)
    PROVE  Later /\ OnDocuments'
<1>1. \A g \in Groups : DocsOf(g)' = DocsOf(g)
  BY DEF DocsOf, Stored
<1>2. Later
  BY <1>1 DEF Later
<1>3. OnDocuments'
  BY <1>1 DEF IInv, OnDocuments
<1> QED
  BY <1>2, <1>3

LEMMA CommitLenderStep ==
    ASSUME IInv, NEW r \in Requests, CommitLender(r)
    PROVE  IInv' /\ Later
<1> DEFINE h == handler[r]
<1>0. TypeOK /\ OnDocuments
  BY DEF IInv
<1>1. h.op = "lender" /\ h.todo = {}
  BY DEF CommitLender
<1>2. PICK g \in Groups :
         /\ h.group = g
         /\ g = "ConditionPrecedent" => h.row \in 1 .. Len(conditions)
  BY <1>1, AllChecked
<1>3. /\ handler' = [handler EXCEPT ![r] = Idle]
      /\ UNCHANGED <<entries, hsfCompleted, current, eligible, reviewed>>
  BY DEF CommitLender
<1>4. /\ conditions' \in Seq(Condition)
      /\ Len(conditions') = Len(conditions)
      /\ Marked("hsf")' <=> Marked("hsf")
      /\ lenderCompleted' \in BOOLEAN /\ dipStatus' \in DipStatuses /\ offers' \in Nat
      /\ stages' \in Stages /\ again' \in BOOLEAN
  <2>0. again' \in BOOLEAN
    BY DEF CommitLender
  <2>1. CASE g = "MortgageUpload"
    <3>1. /\ lenderCompleted' = TRUE /\ dipStatus' = "Completed"
          /\ offers' = offers + 1 /\ conditions' = conditions
          /\ stages' = Enter(Exit(stages, h.open), "LoanDecision")
      BY <1>2, <2>1 DEF CommitLender
    <3>2. stages' \in Stages
      BY <1>0, <3>1, StagesStay DEF TypeOK, StageNames
    <3>3. Marked("hsf")' <=> Marked("hsf")
      BY <3>1 DEF Marked
    <3>4. conditions' \in Seq(Condition) /\ Len(conditions') = Len(conditions)
      BY <1>0, <3>1 DEF TypeOK
    <3>5. lenderCompleted' \in BOOLEAN /\ dipStatus' \in DipStatuses
      BY <3>1 DEF DipStatuses
    <3>6. offers \in Nat
      BY <1>0 DEF TypeOK
    <3>7. offers' \in Nat
      BY <3>1, <3>6
    <3> QED
      BY <2>0, <3>2, <3>3, <3>4, <3>5, <3>7
  <2>2. CASE g # "MortgageUpload"
    <3>1. g = "ConditionPrecedent" /\ h.row \in 1 .. Len(conditions)
      BY <1>2, <2>2 DEF Groups
    <3> DEFINE c == h.row
               x == [conditions[c] EXCEPT !.lender = TRUE, !.status = "Completed"]
    <3>2. conditions[c] \in Condition
      BY <1>0, <3>1, ElementOfSeq DEF TypeOK
    <3>3. x \in Condition /\ x.hsf = conditions[c].hsf
      BY <3>2 DEF Condition
    <3>4. /\ conditions' = [conditions EXCEPT ![c].lender = TRUE, ![c].status = "Completed"]
          /\ UNCHANGED <<offers, lenderCompleted, dipStatus>>
          /\ stages' = Enter(Exit(stages, h.open), "Repayment")
      BY <1>2, <2>2 DEF CommitLender
    <3>5. conditions' = [conditions EXCEPT ![c] = x]
      BY <3>4
    <3> HIDE DEF x
    <3>6. /\ conditions' \in Seq(Condition)
          /\ Len(conditions') = Len(conditions)
          /\ \A i \in 1 .. Len(conditions) :
                conditions'[i] = IF i = c THEN x ELSE conditions[i]
      BY <1>0, <3>1, <3>3, <3>5, ConditionRewritten DEF TypeOK
    <3>7. Marked("hsf")' <=> Marked("hsf")
      BY <3>1, <3>3, <3>6 DEF Marked
    <3>8. stages' \in Stages
      BY <1>0, <3>4, StagesStay DEF TypeOK, StageNames
    <3>9. offers' \in Nat /\ lenderCompleted' \in BOOLEAN /\ dipStatus' \in DipStatuses
      BY <1>0, <3>4 DEF TypeOK
    <3> QED
      BY <2>0, <3>6, <3>7, <3>8, <3>9
  <2> QED
    BY <2>1, <2>2
<1>5. TypeOK'
  <2>1. handler' \in [Requests -> HandlerStates]
    BY <1>0, <1>3, IdleTyped DEF TypeOK
  <2> QED
    BY <1>0, <1>3, <1>4, <2>1 DEF TypeOK
<1>6. Later /\ OnDocuments'
  <2>1. \A p \in Groups : HsfMarked(p)' <=> HsfMarked(p)
    BY <1>3, <1>4 DEF HsfMarked
  <2>2. Len(conditions) \in Nat
    BY <1>0 DEF TypeOK
  <2> QED
    BY <1>3, <1>4, <2>1, <2>2, DocsKept
<1> QED
  BY <1>3, <1>5, <1>6, InFlightKept DEF IInv

\* Steps that write the stages, or which condition precedent is the current
\* one, and no document.
LEMMA StagesWritten ==
    ASSUME IInv, NEW r \in Requests, NEW h \in HandlerStates,
           handler' = [handler EXCEPT ![r] = h], Carries(h, h.group),
           UNCHANGED <<entries, dip, conditions, offers, eligible, reviewed>>,
           current' \in 0 .. Len(conditions), stages' \in Stages, again' \in BOOLEAN
    PROVE  IInv' /\ Later
<1>1. TypeOK'
  BY DEF IInv, TypeOK, dip
<1>2. Later /\ OnDocuments'
  <2>1. \A p \in Groups : HsfMarked(p)' <=> HsfMarked(p)
    BY DEF HsfMarked, Marked, dip
  <2>2. Len(conditions) \in Nat
    BY DEF IInv, TypeOK
  <2> QED
    BY <2>1, <2>2, DocsKept
<1>3. h.group \in Groups
  BY DEF HandlerStates
<1>4. Carries(h, h.group)'
  BY <1>2, <1>3, CarriesKept
<1>5. InFlight'
  BY <1>2, <1>4, InFlightAfter
<1> QED
  BY <1>1, <1>2, <1>5 DEF IInv

LEMMA CommitReadyStep ==
    ASSUME IInv, NEW r \in Requests, CommitReady(r)
    PROVE  IInv' /\ Later
<1>1. stages' \in Stages
  BY StagesStay DEF IInv, TypeOK, CommitReady, StageNames
<1>2. again' \in BOOLEAN
  BY DEF CommitReady
<1>3. current' \in 0 .. Len(conditions)
  BY DEF IInv, TypeOK, CommitReady
<1> QED
  BY <1>1, <1>2, <1>3, IdleTyped, IdleCarries, StagesWritten DEF CommitReady

LEMMA CreateConditionStep ==
    ASSUME IInv, NEW r \in Requests, CreateCondition(r)
    PROVE  IInv' /\ Later
<1>0. TypeOK
  BY DEF IInv
<1>1. PICK h \in HandlerStates :
         /\ h = [handler[r] EXCEPT !.op = "attach", !.row = Len(conditions) + 1]
         /\ h.op = "attach" /\ h.row = Len(conditions) + 1
         /\ handler' = [handler EXCEPT ![r] = h]
  <2>1. handler[r] \in HandlerStates /\ Len(conditions) \in Nat
    BY <1>0 DEF TypeOK
  <2>2. PICK n \in Nat : n = Len(conditions) + 1
    BY <2>1
  <2> DEFINE k == [handler[r] EXCEPT !.op = "attach", !.row = n]
  <2>3. k \in HandlerStates /\ k.op = "attach" /\ k.row = n
    BY <2>1 DEF HandlerStates, Ops
  <2>4. handler' = [handler EXCEPT ![r] = k]
    BY <2>2 DEF CreateCondition
  <2>5. k = [handler[r] EXCEPT !.op = "attach", !.row = Len(conditions) + 1]
    BY <2>2
  <2> QED
    BY <2>2, <2>3, <2>4, <2>5
<1>2. /\ conditions' = Append(conditions, NewCondition)
      /\ UNCHANGED <<entries, hsfCompleted, reviewed>>
      /\ UNCHANGED <<dipStatus, lenderCompleted, current, offers, stages, eligible, again>>
  BY DEF CreateCondition, dip
<1>3. /\ conditions' \in Seq(Condition)
      /\ Len(conditions) \in Nat
      /\ Len(conditions') = Len(conditions) + 1
  BY <1>0, <1>2, ConditionAdded DEF TypeOK
<1>4. Marked("hsf")' <=> Marked("hsf")
  BY <1>0, <1>2, MarksOfAdded DEF TypeOK
<1>5. current' \in 0 .. Len(conditions')
  BY <1>0, <1>2, <1>3 DEF TypeOK
<1>6. TypeOK'
  BY <1>0, <1>1, <1>2, <1>3, <1>5 DEF TypeOK
<1>7. Later /\ OnDocuments'
  <2>1. \A p \in Groups : HsfMarked(p)' <=> HsfMarked(p)
    BY <1>2, <1>4 DEF HsfMarked
  <2> QED
    BY <1>2, <1>3, <2>1, DocsKept
<1>8. Carries(h, h.group)'
  BY <1>1, <1>3 DEF Carries, CompletionOps
<1>9. InFlight'
  BY <1>1, <1>7, <1>8, InFlightAfter
<1> QED
  BY <1>6, <1>7, <1>9 DEF IInv

LEMMA AttachConditionStep ==
    ASSUME IInv, NEW r \in Requests, AttachCondition(r)
    PROVE  IInv' /\ Later
<1> DEFINE h == [handler[r] EXCEPT !.op = "exit"]
<1>1. handler[r] \in HandlerStates /\ Carries(handler[r], handler[r].group)
  BY HandlerKinds, Read DEF IInv
<1>2. h \in HandlerStates /\ h.op = "exit" /\ h.row = handler[r].row
  BY <1>1 DEF HandlerStates, Ops
<1>3. /\ handler' = [handler EXCEPT ![r] = h] /\ handler[r].op = "attach"
      /\ current' = handler[r].row
      /\ UNCHANGED <<entries, dip, conditions, offers, stages, eligible, reviewed, again>>
  BY DEF AttachCondition, IInv, TypeOK
<1>4. stages' \in Stages /\ again' \in BOOLEAN
  BY <1>3 DEF IInv, TypeOK
<1>5. handler[r].row \in 1 .. Len(conditions) /\ Len(conditions) \in Nat
  BY <1>1, <1>3 DEF Carries, IInv, TypeOK
<1>6. current' \in 0 .. Len(conditions)
  BY <1>3, <1>5
<1> HIDE DEF h
<1>7. Carries(h, h.group)
  BY <1>2, <1>5 DEF Carries, CompletionOps
<1> QED
  BY <1>2, <1>3, <1>4, <1>6, <1>7, StagesWritten

LEMMA ExitStageStep ==
    ASSUME IInv, NEW r \in Requests, NEW x \in StageNames, ExitStage(r, x)
    PROVE  IInv' /\ Later
<1> DEFINE h == [handler[r] EXCEPT !.open = @ \ {x}]
<1>1. handler[r] \in HandlerStates /\ Carries(handler[r], handler[r].group)
  BY HandlerKinds, Read DEF IInv
<1>2. /\ h \in HandlerStates /\ h.op = handler[r].op /\ h.row = handler[r].row
      /\ h.op = "exit"
  BY <1>1 DEF HandlerStates, ExitStage
<1>3. /\ handler' = [handler EXCEPT ![r] = h]
      /\ UNCHANGED <<entries, dip, conditions, current, offers, eligible, reviewed, again>>
      /\ stages' = Exit(stages, {x})
  BY DEF ExitStage, IInv, TypeOK
<1>4. stages' \in Stages
  BY <1>3 DEF IInv, TypeOK, Exit, Stages, StageStates
<1>5. again' \in BOOLEAN /\ current' \in 0 .. Len(conditions)
  BY <1>3 DEF IInv, TypeOK
<1> HIDE DEF h
<1>6. Carries(h, h.group)
  BY <1>1, <1>2 DEF Carries, CompletionOps
<1> QED
  BY <1>2, <1>3, <1>4, <1>5, <1>6, StagesWritten

LEMMA InsertStageStep ==
    ASSUME IInv, NEW r \in Requests, InsertStage(r)
    PROVE  IInv' /\ Later
<1>1. stages' \in Stages
  BY DEF InsertStage, IInv, TypeOK, Stages, StageStates
<1>2. again' \in BOOLEAN /\ current' \in 0 .. Len(conditions)
  BY DEF InsertStage, IInv, TypeOK
<1> QED
  BY <1>1, <1>2, IdleTyped, IdleCarries, StagesWritten DEF InsertStage

LEMMA ManagementFeePaidStep ==
    ASSUME IInv, NEW r \in Requests, ManagementFeePaid(r)
    PROVE  IInv' /\ Later
BY ReadForFeeStep, CreateConditionStep, AttachConditionStep, ExitStageStep,
   LookForStageStep, InsertStageStep
   DEF ManagementFeePaid

\* A decision taken back, or a step of none of this.
LEMMA NoRowStep ==
    ASSUME IInv, UNCHANGED <<rows, reviewed, again, handler>>, eligible' \in BOOLEAN
    PROVE  IInv' /\ Later
<1>1. TypeOK'
  BY DEF IInv, TypeOK, rows, dip
<1>2. Later /\ OnDocuments'
  BY RowsKept
<1> QED
  BY <1>1, <1>2, InFlightKept DEF IInv

-----------------------------------------------------------------------------
LEMMA InitHolds == Init => IInv
<1> SUFFICES ASSUME Init PROVE IInv
  OBVIOUS
<1>1. conditions \in Seq(Condition) /\ Len(conditions) = 0
  BY EmptySeq DEF Init
<1>2. stages \in Stages
  BY DEF Init, Stages, StageStates
<1>3. TypeOK
  <2>1. entries \in [EntryIds -> Entry \cup {Absent}]
    BY DEF Init
  <2>2. handler \in [Requests -> HandlerStates]
    BY IdleTyped DEF Init
  <2>0. current = 0
    BY DEF Init
  <2>3. current \in 0 .. Len(conditions)
    BY <1>1, <2>0
  <2>4. /\ hsfCompleted \in BOOLEAN /\ lenderCompleted \in BOOLEAN /\ eligible \in BOOLEAN
        /\ dipStatus \in DipStatuses /\ offers \in Nat
        /\ reviewed \in SUBSET (Types \X Organizations) /\ again \in BOOLEAN
    BY DEF Init, DipStatuses
  <2> QED
    BY <1>1, <1>2, <2>1, <2>2, <2>3, <2>4 DEF TypeOK
<1>4. \A g \in Groups : DocsOf(g) = {}
  BY DEF Init, DocsOf, Stored
<1>5. OnDocuments
  BY <1>4 DEF OnDocuments
<1>6. InFlight
  BY IdleCarries DEF Init, InFlight
<1> QED
  BY <1>3, <1>5, <1>6 DEF IInv

LEMMA Step == IInv /\ [Next]_vars => IInv' /\ Later
<1> SUFFICES ASSUME IInv, Next \/ UNCHANGED vars PROVE IInv' /\ Later
  OBVIOUS
<1>1. ASSUME NEW r \in Requests, Upload(r) PROVE IInv' /\ Later
  <2>1. ASSUME NEW g \in Groups, NEW fresh \in SUBSET Types, ReadForUpload(r, g, fresh)
        PROVE  IInv' /\ Later
    BY <2>1, ReadForUploadStep
  <2>2. CASE CommitUpload(r)
    BY <2>2, CommitUploadStep
  <2> QED
    BY <1>1, <2>1, <2>2 DEF Upload
<1>2. ASSUME NEW r \in Requests, Complete(r) PROVE IInv' /\ Later
  <2>1. ASSUME NEW g \in Groups, ReadForHsf(r, g) PROVE IInv' /\ Later
    BY <2>1, ReadForHsfStep
  <2>2. ASSUME NEW g \in Groups, ReadForLender(r, g) PROVE IInv' /\ Later
    BY <2>2, ReadForLenderStep
  <2>3. CASE CommitHsf(r)
    BY <2>3, CommitHsfStep
  <2>4. CASE CommitLender(r)
    BY <2>4, CommitLenderStep
  <2>5. CASE ReadDocuments(r)
    BY <2>5, ReadDocumentsStep
  <2>6. ASSUME NEW i \in EntryIds, ReadApproval(r, i) PROVE IInv' /\ Later
    BY <2>6, ReadApprovalStep
  <2> QED
    BY <1>2, <2>1, <2>2, <2>3, <2>4, <2>5, <2>6 DEF Complete
<1>3. ASSUME NEW r \in Requests, ReadStages(r) \/ Ready(r) \/ Abort(r)
      PROVE  IInv' /\ Later
  BY <1>3, ReadStagesStep, ReadForReadyStep, CommitReadyStep, AbortStep DEF Ready
<1>4. CASE Respond
  BY <1>4, RespondHsfStep, RespondLenderStep DEF Respond
<1>5. ASSUME NEW r \in Requests, ManagementFeePaid(r) PROVE IInv' /\ Later
  BY <1>5, ManagementFeePaidStep
<1>6. CASE DecideEligibility
  BY <1>6, NoRowStep DEF DecideEligibility, IInv, TypeOK
<1>7. CASE UNCHANGED vars
  BY <1>7, NoRowStep DEF vars, rows, dip, IInv, TypeOK
<1> QED
  BY <1>1, <1>2, <1>3, <1>4, <1>5, <1>6, <1>7 DEF Next

LEMMA InvAlways == Spec => []IInv
BY InitHolds, Step, PTL DEF Spec

\* Type correctness, for any document types, requests and bounds.
THEOREM TypeCorrect == Spec => []TypeOK
<1>1. IInv => TypeOK
  BY DEF IInv
<1> QED
  BY <1>1, InvAlways, PTL

-----------------------------------------------------------------------------
(* A dead end stays one.                                                   *)

\* No review of a group that is not at its end starts to end while the group
\* has more documents than types.
LEMMA NoReviewStarts ==
    ASSUME IInv, [Next]_vars, NEW g \in Groups, Overfull(g)
    PROVE  ~Reviewing(g)'
<1>0. /\ ~Reviewing(g)
      /\ Cardinality(DocsOf(g)) > Cardinality(TypesOf(g))
      /\ handler \in [Requests -> HandlerStates]
  BY DEF Overfull, IInv, TypeOK
<1>1. ~AllDocs(g)
  <2>1. Cardinality(DocsOf(g)) \in Nat /\ Cardinality(TypesOf(g)) \in Nat
    <3>1. IsFiniteSet(TypesOf(g))
      BY FiniteAssumption DEF TypesOf
    <3>2. IsFiniteSet(DocsOf(g))
      BY FiniteAssumption, FS_Subset DEF DocsOf, Stored
    <3> QED
      BY <3>1, <3>2, FS_CardinalityType
  <2> QED
    BY <1>0, <2>1 DEF AllDocs
<1>2. SUFFICES ASSUME NEW q \in Requests, handler'[q].op \in {"hsf", "lender"},
                      handler'[q].group = g
               PROVE  FALSE
  BY DEF Reviewing
<1>3. ~(handler[q].op \in {"hsf", "lender"} /\ handler[q].group = g)
  BY <1>0 DEF Reviewing
<1>4. ASSUME NEW r \in Requests, NEW h, handler' = [handler EXCEPT ![r] = h],
             h.op \in {"hsf", "lender"} =>
                \/ h.group # g
                \/ handler[r].op = h.op /\ handler[r].group = h.group
      PROVE  FALSE
  BY <1>0, <1>2, <1>3, <1>4
<1>5. CASE UNCHANGED handler
  BY <1>2, <1>3, <1>5
<1>6. ASSUME NEW r \in Requests, handler' = [handler EXCEPT ![r] = Idle]
      PROVE  FALSE
  BY <1>4, <1>6, IdleTyped
<1>7. ASSUME NEW r \in Requests, NEW h, Reads(r, h),
             h.op \in {"hsf", "lender"} =>
                \/ h.group # g
                \/ handler[r].op = h.op /\ handler[r].group = h.group
      PROVE  FALSE
  BY <1>4, <1>7 DEF Reads
<1>8. ASSUME NEW r \in Requests PROVE handler[r] \in HandlerStates
  BY <1>0
<1>9. ASSUME NEW r \in Requests, Upload(r) PROVE FALSE
  <2>1. ASSUME NEW p \in Groups, NEW fresh \in SUBSET Types, ReadForUpload(r, p, fresh)
        PROVE  FALSE
    <3> DEFINE h == [Idle EXCEPT !.op = "upload read", !.group = p,
                                 !.row = RowOf(p), !.fresh = fresh]
    <3>1. h.op = "upload read" /\ Reads(r, h)
      BY <2>1 DEF ReadForUpload, Idle
    <3> HIDE DEF h
    <3> QED
      BY <1>7, <3>1
  <2> QED
    BY <1>6, <1>9, <2>1 DEF Upload, CommitUpload
<1>10. ASSUME NEW r \in Requests, Complete(r) PROVE FALSE
  <2>1. ASSUME NEW p \in Groups, ReadForHsf(r, p) PROVE FALSE
    <3> DEFINE h == [Idle EXCEPT !.op = "hsf read", !.group = p, !.row = RowOf(p)]
    <3>1. h.op = "hsf read" /\ Reads(r, h)
      BY <2>1 DEF ReadForHsf, Idle
    <3> HIDE DEF h
    <3> QED
      BY <1>7, <3>1
  <2>2. ASSUME NEW p \in Groups, ReadForLender(r, p) PROVE FALSE
    <3> DEFINE h == [Idle EXCEPT !.op = "lender read", !.group = p, !.row = RowOf(p)]
    <3>1. h.op = "lender read" /\ Reads(r, h)
      BY <2>2 DEF ReadForLender, Idle
    <3> HIDE DEF h
    <3> QED
      BY <1>7, <3>1
  <2>3. CASE ReadDocuments(r)
    <3>1. AllDocs(handler[r].group)
      BY <2>3 DEF ReadDocuments
    <3>2. handler[r].group # g
      BY <1>1, <3>1
    <3> DEFINE h == [handler[r] EXCEPT !.op = "hsf", !.docs = DocsOf(handler[r].group),
                                       !.todo = DocsOf(handler[r].group)]
               k == [handler[r] EXCEPT !.op = "lender", !.todo = DocsOf(handler[r].group)]
    <3>3. h.group # g /\ k.group # g
      BY <1>8, <3>2 DEF HandlerStates
    <3>4. Reads(r, h) \/ Reads(r, k)
      BY <2>3 DEF ReadDocuments
    <3> HIDE DEF h, k
    <3> QED
      BY <1>7, <3>3, <3>4
  <2>4. ASSUME NEW i \in EntryIds, ReadApproval(r, i) PROVE FALSE
    <3> DEFINE h == [handler[r] EXCEPT !.todo = @ \ {i}]
    <3>1. Reads(r, h) /\ h.op = handler[r].op /\ h.group = handler[r].group
      BY <1>8, <2>4 DEF ReadApproval, HandlerStates
    <3> HIDE DEF h
    <3> QED
      BY <1>7, <3>1
  <2> QED
    BY <1>6, <1>10, <2>1, <2>2, <2>3, <2>4 DEF Complete, CommitHsf, CommitLender
<1>11. ASSUME NEW r \in Requests, ReadStages(r) PROVE FALSE
  <2> DEFINE u == [handler[r] EXCEPT !.op = "upload", !.open = OpenStages(stages),
                     !.enter = stages[UploadStage(handler[r].group)] = "absent"]
             l == [handler[r] EXCEPT !.op = "lender list", !.open = OpenStages(stages)]
             k == [handler[r] EXCEPT !.op = "ready", !.open = OpenStages(stages)]
  <2>1. u.op = "upload" /\ l.op = "lender list" /\ k.op = "ready"
    BY <1>8 DEF HandlerStates
  <2>2. Reads(r, u) \/ Reads(r, l) \/ Reads(r, k)
    BY <1>11 DEF ReadStages
  <2> HIDE DEF u, l, k
  <2> QED
    BY <1>7, <2>1, <2>2
<1>12. ASSUME NEW r \in Requests, Ready(r) PROVE FALSE
  <2>1. CASE ReadForReady(r)
    <3> DEFINE h == [Idle EXCEPT !.op = "ready read", !.row = offers]
    <3>1. h.op = "ready read" /\ Reads(r, h)
      BY <2>1 DEF ReadForReady, Idle
    <3> HIDE DEF h
    <3> QED
      BY <1>7, <3>1
  <2> QED
    BY <1>6, <1>12, <2>1 DEF Ready, CommitReady
<1>13. ASSUME NEW r \in Requests, ManagementFeePaid(r) PROVE FALSE
  <2> DEFINE f == [Idle EXCEPT !.op = "fee", !.open = OpenStages(stages)]
             c == [handler[r] EXCEPT !.op = "attach", !.row = Len(conditions) + 1]
             a == [handler[r] EXCEPT !.op = "exit"]
             x(e) == [handler[r] EXCEPT !.open = @ \ {e}]
             l == [handler[r] EXCEPT !.op = "insert"]
  <2>1. /\ f.op = "fee" /\ c.op = "attach" /\ a.op = "exit" /\ l.op = "insert"
        /\ \A e : x(e).op = handler[r].op /\ x(e).group = handler[r].group
    BY <1>8 DEF HandlerStates, Idle
  <2>2. \/ Reads(r, f) \/ Reads(r, l)
        \/ handler' = [handler EXCEPT ![r] = c]
        \/ handler' = [handler EXCEPT ![r] = a]
        \/ \E e \in StageNames : handler' = [handler EXCEPT ![r] = x(e)]
        \/ handler' = [handler EXCEPT ![r] = Idle]
    BY <1>0, <1>13
       DEF ManagementFeePaid, ReadForFee, CreateCondition, AttachCondition,
           ExitStage, LookForStage, InsertStage, Reads
  <2> HIDE DEF f, c, a, x, l
  <2> QED
    BY <1>4, <1>6, <1>7, <2>1, <2>2
<1> QED
  BY <1>5, <1>6, <1>9, <1>10, <1>11, <1>12, <1>13
     DEF Next, Respond, RespondHsf, RespondLender, Abort, Reads,
         DecideEligibility, vars

\* Once a group has more documents than types, and nobody is at the end of its
\* review, this stays so: neither review of it can ever be completed.
THEOREM OverfullStays == Spec => OverfullIsFinal
<1>1. ASSUME IInv, [Next]_vars, NEW g \in Groups, Overfull(g)
      PROVE  Overfull(g)'
  <2>1. ~Reviewing(g)'
    BY <1>1, NoReviewStarts
  <2>2. DocsOf(g) \subseteq DocsOf(g)'
    BY <1>1, Step DEF Later
  <2>3. IsFiniteSet(DocsOf(g)) /\ IsFiniteSet(DocsOf(g)') /\ IsFiniteSet(TypesOf(g))
    <3>1. DocsOf(g) \subseteq EntryIds /\ DocsOf(g)' \subseteq EntryIds
      BY DEF DocsOf, Stored
    <3>2. IsFiniteSet(DocsOf(g)) /\ IsFiniteSet(DocsOf(g)')
      BY <3>1, FiniteAssumption, FS_Subset
    <3> QED
      BY <3>2, FiniteAssumption DEF TypesOf
  <2>4. /\ Cardinality(DocsOf(g)) \in Nat /\ Cardinality(DocsOf(g)') \in Nat
        /\ Cardinality(TypesOf(g)) \in Nat
        /\ Cardinality(DocsOf(g)) <= Cardinality(DocsOf(g)')
    BY <2>2, <2>3, FS_Subset, FS_CardinalityType
  <2>5. Cardinality(DocsOf(g)') > Cardinality(TypesOf(g))
    BY <1>1, <2>4 DEF Overfull
  <2> QED
    BY <2>1, <2>5 DEF Overfull, TypesOf
<1>2. IInv /\ [Next]_vars => [\A g \in Groups : Overfull(g) => Overfull(g)']_vars
  BY <1>1
<1> QED
  BY <1>2, InvAlways, PTL DEF Spec, OverfullIsFinal

-----------------------------------------------------------------------------
(* The refinement, for both groups at once: what a step does to the phase  *)
(* of a group and to the approvals given on it.                            *)

LenderMarked(g) == IF g = "MortgageUpload" THEN lenderCompleted ELSE Marked("lender")

PhaseOf(g) == Phase(HsfMarked(g), LenderMarked(g))

SamePhase(g) == PhaseOf(g)' = PhaseOf(g)

SameApproved(g) == ApprovedTypes(g)' = ApprovedTypes(g)

Approves(g) ==
    \E t \in TypesOf(g), org \in Organizations :
        /\ org = "lender" => PhaseOf(g) # "hsf"
        /\ ApprovedTypes(g)' = ApprovedTypes(g) \cup {<<t, org>>}

Ends(g, org, from, to) ==
    /\ PhaseOf(g) = from
    /\ ReviewedBy(g, org)
    /\ PhaseOf(g)' = to

Allowed(g) ==
    \/ SamePhase(g) /\ (SameApproved(g) \/ Approves(g))
    \/ SameApproved(g) /\ Ends(g, "hsf", "hsf", "lender")
    \/ SameApproved(g) /\ Ends(g, "lender", "lender", "done")

LEMMA MarksKept ==
    ASSUME NEW g \in Groups, UNCHANGED <<hsfCompleted, lenderCompleted, reviewed>>,
           \A mark \in {"hsf", "lender"} : Marked(mark)' <=> Marked(mark)
    PROVE  Allowed(g)
<1>1. (HsfMarked(g)' <=> HsfMarked(g)) /\ (LenderMarked(g)' <=> LenderMarked(g))
  BY DEF HsfMarked, LenderMarked
<1>2. SamePhase(g)
  BY <1>1 DEF SamePhase, PhaseOf, Phase
<1>3. SameApproved(g)
  BY DEF SameApproved, ApprovedTypes, TypesOf
<1> QED
  BY <1>2, <1>3 DEF Allowed

LEMMA ApprovalAllowed ==
    ASSUME NEW g \in Groups, UNCHANGED <<hsfCompleted, lenderCompleted, conditions>>,
           NEW t, NEW org \in Organizations,
           reviewed' = reviewed \/ reviewed' = reviewed \cup {<<t, org>>},
           org = "lender" /\ t \in TypesOf(g) => HsfMarked(g)
    PROVE  Allowed(g)
<1>1. SamePhase(g)
  BY DEF SamePhase, PhaseOf, Phase, HsfMarked, LenderMarked, Marked
<1>2. CASE reviewed' = reviewed
  BY <1>1, <1>2 DEF Allowed, SameApproved, ApprovedTypes, TypesOf
<1>3. CASE reviewed' = reviewed \cup {<<t, org>>} /\ t \in TypesOf(g)
  <2>1. ApprovedTypes(g)' = ApprovedTypes(g) \cup {<<t, org>>}
    BY <1>3 DEF ApprovedTypes, TypesOf
  <2>2. org = "lender" => PhaseOf(g) # "hsf"
    BY <1>3 DEF PhaseOf, Phase
  <2> QED
    BY <1>1, <1>3, <2>1, <2>2 DEF Allowed, Approves
<1>4. CASE reviewed' = reviewed \cup {<<t, org>>} /\ t \notin TypesOf(g)
  <2>1. ApprovedTypes(g)' = ApprovedTypes(g)
    BY <1>4 DEF ApprovedTypes, TypesOf
  <2> QED
    BY <1>1, <2>1 DEF Allowed, SameApproved
<1> QED
  BY <1>2, <1>3, <1>4

\* HSF's completion marks its own group and no other.
LEMMA HsfAllowed ==
    ASSUME IInv, NEW r \in Requests, CommitHsf(r), NEW g \in Groups
    PROVE  Allowed(g)
<1> DEFINE h == handler[r]
<1>0. TypeOK
  BY DEF IInv
<1>1. h.op = "hsf" /\ h.todo = {}
  BY DEF CommitHsf
<1>2. PICK p \in Groups :
         /\ h.group = p
         /\ ReviewedBy(p, "hsf")
         /\ p = "ConditionPrecedent" => h.row \in 1 .. Len(conditions)
  BY <1>1, AllChecked
<1>3. UNCHANGED <<lenderCompleted, reviewed>>
  BY DEF CommitHsf
<1>4. /\ HsfMarked(g)' <=> HsfMarked(g) \/ g = p
      /\ LenderMarked(g)' <=> LenderMarked(g)
  <2>1. CASE p = "MortgageUpload"
    <3>1. hsfCompleted' = TRUE /\ conditions' = conditions
      BY <1>2, <2>1 DEF CommitHsf
    <3> QED
      BY <1>3, <2>1, <3>1 DEF HsfMarked, LenderMarked, Marked, Groups
  <2>2. CASE p = "ConditionPrecedent"
    <3> DEFINE c == h.row
               x == [conditions[c] EXCEPT !.hsf = TRUE]
    <3>1. c \in 1 .. Len(conditions)
      BY <1>2, <2>2
    <3>2. conditions[c] \in Condition
      BY <1>0, <3>1, ElementOfSeq DEF TypeOK
    <3>3. x \in Condition /\ x.hsf /\ x.lender = conditions[c].lender
      BY <3>2 DEF Condition
    <3>4. conditions' = [conditions EXCEPT ![c] = x] /\ hsfCompleted' = hsfCompleted
      BY <1>2, <2>2 DEF CommitHsf
    <3> HIDE DEF x
    <3>5. /\ Len(conditions') = Len(conditions)
          /\ \A i \in 1 .. Len(conditions) :
                conditions'[i] = IF i = c THEN x ELSE conditions[i]
      BY <1>0, <3>1, <3>3, <3>4, ConditionRewritten DEF TypeOK
    <3>6. Marked("hsf")'
      BY <3>1, <3>3, <3>5 DEF Marked
    <3>7. Marked("lender")' <=> Marked("lender")
      BY <3>1, <3>3, <3>5 DEF Marked
    <3> QED
      BY <1>3, <2>2, <3>4, <3>6, <3>7 DEF HsfMarked, LenderMarked, Groups
  <2> QED
    BY <2>1, <2>2 DEF Groups
<1>5. SameApproved(g)
  BY <1>3 DEF SameApproved, ApprovedTypes, TypesOf
<1>6. SamePhase(g) \/ Ends(g, "hsf", "hsf", "lender")
  BY <1>2, <1>4 DEF SamePhase, Ends, PhaseOf, Phase
<1> QED
  BY <1>5, <1>6 DEF Allowed

\* The lender's completion marks the group it is about and no other.
LEMMA LenderMarks ==
    ASSUME IInv, NEW r \in Requests, CommitLender(r), NEW g \in Groups
    PROVE  /\ handler[r].group \in Groups
           /\ HsfMarked(g)' <=> HsfMarked(g)
           /\ LenderMarked(g)' <=> LenderMarked(g) \/ g = handler[r].group
<1> DEFINE h == handler[r]
<1>0. TypeOK
  BY DEF IInv
<1>1. h.op = "lender" /\ h.todo = {}
  BY DEF CommitLender
<1>2. PICK p \in Groups :
         /\ h.group = p
         /\ p = "ConditionPrecedent" => h.row \in 1 .. Len(conditions)
  BY <1>1, AllChecked
<1>3. UNCHANGED <<hsfCompleted, reviewed>>
  BY DEF CommitLender
<1>4. /\ HsfMarked(g)' <=> HsfMarked(g)
      /\ LenderMarked(g)' <=> LenderMarked(g) \/ g = p
  <2>1. CASE p = "MortgageUpload"
    <3>1. lenderCompleted' = TRUE /\ conditions' = conditions
      BY <1>2, <2>1 DEF CommitLender
    <3> QED
      BY <1>3, <2>1, <3>1 DEF HsfMarked, LenderMarked, Marked, Groups
  <2>2. CASE p = "ConditionPrecedent"
    <3> DEFINE c == h.row
               x == [conditions[c] EXCEPT !.lender = TRUE, !.status = "Completed"]
    <3>1. c \in 1 .. Len(conditions)
      BY <1>2, <2>2
    <3>2. conditions[c] \in Condition
      BY <1>0, <3>1, ElementOfSeq DEF TypeOK
    <3>3. x \in Condition /\ x.lender /\ x.hsf = conditions[c].hsf
      BY <3>2 DEF Condition
    <3>4. /\ conditions' = [conditions EXCEPT ![c].lender = TRUE, ![c].status = "Completed"]
          /\ lenderCompleted' = lenderCompleted
      BY <1>2, <2>2 DEF CommitLender
    <3>5. conditions' = [conditions EXCEPT ![c] = x]
      BY <3>4
    <3> HIDE DEF x
    <3>6. /\ Len(conditions') = Len(conditions)
          /\ \A i \in 1 .. Len(conditions) :
                conditions'[i] = IF i = c THEN x ELSE conditions[i]
      BY <1>0, <3>1, <3>3, <3>5, ConditionRewritten DEF TypeOK
    <3>7. Marked("lender")'
      BY <3>1, <3>3, <3>6 DEF Marked
    <3>8. Marked("hsf")' <=> Marked("hsf")
      BY <3>1, <3>3, <3>6 DEF Marked
    <3> QED
      BY <1>3, <2>2, <3>4, <3>7, <3>8 DEF HsfMarked, LenderMarked, Groups
  <2> QED
    BY <2>1, <2>2 DEF Groups
<1> QED
  BY <1>2, <1>4

\* The lender's completion, after HSF's.
LEMMA LenderAllowed ==
    ASSUME IInv, NEW r \in Requests, CommitLender(r), NEW g \in Groups
    PROVE  Allowed(g)
<1>1. PICK p \in Groups :
         /\ handler[r].group = p
         /\ ReviewedBy(p, "lender") /\ HsfMarked(p)
  <2>1. handler[r].op = "lender" /\ handler[r].todo = {}
    BY DEF CommitLender
  <2> QED
    BY <2>1, AllChecked
<1>2. UNCHANGED <<hsfCompleted, reviewed>>
  BY DEF CommitLender
<1>3. /\ HsfMarked(g)' <=> HsfMarked(g)
      /\ LenderMarked(g)' <=> LenderMarked(g) \/ g = p
  BY <1>1, LenderMarks
<1>4. SameApproved(g)
  BY <1>2 DEF SameApproved, ApprovedTypes, TypesOf
<1>5. SamePhase(g) \/ Ends(g, "lender", "lender", "done")
  BY <1>1, <1>3 DEF SamePhase, Ends, PhaseOf, Phase
<1> QED
  BY <1>4, <1>5 DEF Allowed

LEMMA StepAllowed ==
    ASSUME IInv, [Next]_vars, NEW g \in Groups
    PROVE  Allowed(g)
<1>0. TypeOK
  BY DEF IInv
<1>1. CASE UNCHANGED <<rows, reviewed>>
  BY <1>1, MarksKept DEF rows, dip, Marked
<1>2. ASSUME NEW r \in Requests, CommitUpload(r) PROVE Allowed(g)
  <2>1. handler[r].op = "upload"
    BY <1>2 DEF CommitUpload
  <2>3. PICK p \in Groups : /\ handler[r].group = p
                            /\ handler[r].row \in 0 .. Len(conditions)
    BY <2>1, Read DEF Carries
  <2>4. PICK c \in 0 .. Len(conditions) : UploadCondition(p, c)
    BY <1>2, <2>3 DEF CommitUpload
  <2>5. \A mark \in {"hsf", "lender"} : Marked(mark)' <=> Marked(mark)
    BY <1>0, <2>4, Uploads DEF TypeOK
  <2> QED
    BY <1>2, <2>5, MarksKept DEF CommitUpload
<1>3. ASSUME NEW i \in EntryIds, NEW v \in Verdicts, RespondHsf(i, v)
      PROVE  Allowed(g)
  <2>1. /\ UNCHANGED <<hsfCompleted, lenderCompleted, conditions>>
        /\ reviewed' = reviewed \/ reviewed' = reviewed \cup {<<entries[i].type, "hsf">>}
    BY <1>3 DEF RespondHsf, dip
  <2> QED
    BY <2>1, ApprovalAllowed DEF Organizations
<1>4. ASSUME NEW i \in EntryIds, NEW v \in Verdicts, NEW old \in Verdicts,
             RespondLender(i, old, v)
      PROVE  Allowed(g)
  <2>1. /\ UNCHANGED <<hsfCompleted, lenderCompleted, conditions>>
        /\ reviewed' = reviewed \/ reviewed' = reviewed \cup {<<entries[i].type, "lender">>}
    BY <1>4 DEF RespondLender, dip
  <2>2. entries[i].type \in TypesOf(g) => i \in DocsOf(g)
    BY <1>4 DEF RespondLender, DocsOf
  <2>3. entries[i].type \in TypesOf(g) => HsfMarked(g)
    BY <1>4, <2>2 DEF RespondLender, IInv, OnDocuments
  <2> QED
    BY <2>1, <2>3, ApprovalAllowed DEF Organizations
<1>5. ASSUME NEW r \in Requests, CreateCondition(r) PROVE Allowed(g)
  <2>1. /\ conditions' = Append(conditions, NewCondition)
        /\ UNCHANGED <<hsfCompleted, lenderCompleted, reviewed>>
    BY <1>5 DEF CreateCondition, dip
  <2>2. \A mark \in {"hsf", "lender"} : Marked(mark)' <=> Marked(mark)
    BY <1>0, <2>1, MarksOfAdded DEF TypeOK
  <2> QED
    BY <2>1, <2>2, MarksKept
<1>6. CASE UNCHANGED <<conditions, hsfCompleted, lenderCompleted, reviewed>>
  BY <1>6, MarksKept DEF Marked
<1>7. ASSUME NEW r \in Requests, NEW h, Reads(r, h) PROVE Allowed(g)
  BY <1>1, <1>7 DEF Reads
<1>8. ASSUME NEW r \in Requests, Upload(r) \/ ReadStages(r) \/ Abort(r)
      PROVE  Allowed(g)
  BY <1>2, <1>7, <1>8 DEF Upload, ReadForUpload, ReadStages, Abort
<1>9. ASSUME NEW r \in Requests, Complete(r) PROVE Allowed(g)
  BY <1>7, <1>9, HsfAllowed, LenderAllowed
     DEF Complete, ReadForHsf, ReadForLender, ReadDocuments, ReadApproval
<1>10. ASSUME NEW r \in Requests, Ready(r) \/ ManagementFeePaid(r)
       PROVE  Allowed(g)
  <2>1. \/ UNCHANGED <<conditions, hsfCompleted, lenderCompleted, reviewed>>
        \/ CreateCondition(r)
    BY <1>10
       DEF Ready, ReadForReady, CommitReady, ManagementFeePaid, ReadForFee,
           AttachCondition, ExitStage, LookForStage, InsertStage, Reads, rows, dip
  <2> QED
    BY <1>5, <1>6, <2>1
<1>11. CASE Respond
  BY <1>3, <1>4, <1>11 DEF Respond
<1>12. CASE DecideEligibility \/ UNCHANGED vars
  BY <1>6, <1>12 DEF DecideEligibility, vars, rows, dip
<1> QED
  BY <1>8, <1>9, <1>10, <1>11, <1>12 DEF Next

\* The review of the first group implements TwoStageReview: HSF's part ends
\* before the lender's, each after an approval of every type of document.
THEOREM MortgageRefinesReview == Spec => MortgageReviewIsTwoStage
<1> DEFINE g == "MortgageUpload"
           p == Phase(hsfCompleted, lenderCompleted)
<1>1. Init => MortgageReview!Init
  BY DEF Init, MortgageReview!Init, Phase, ApprovedTypes
<1>2. IInv /\ [Next]_vars => [MortgageReview!Next]_(MortgageReview!vars)
  <2> SUFFICES ASSUME IInv, [Next]_vars
               PROVE  MortgageReview!Next \/ UNCHANGED MortgageReview!vars
    OBVIOUS
  <2>1. Allowed(g) /\ g \in Groups
    BY StepAllowed DEF Groups
  <2>2. PhaseOf(g) = p /\ PhaseOf(g)' = p'
    BY DEF PhaseOf, HsfMarked, LenderMarked
  <2>3. TypesOf(g) = MortgageTypes
    BY DEF TypesOf
  <2>4. CASE SamePhase(g) /\ SameApproved(g)
    BY <2>2, <2>4 DEF SamePhase, SameApproved, MortgageReview!vars
  <2>5. CASE SamePhase(g) /\ Approves(g)
    BY <2>2, <2>3, <2>5
       DEF SamePhase, Approves, Organizations, MortgageReview!Next,
           MortgageReview!Approve, MortgageReview!Reviewers
  <2>6. ASSUME NEW org, ReviewedBy(g, org)
        PROVE  MortgageReview!AllApprovedBy(org)
    BY <2>3, <2>6 DEF ReviewedBy, ApprovedTypes, MortgageReview!AllApprovedBy
  <2>7. CASE SameApproved(g) /\ Ends(g, "hsf", "hsf", "lender")
    BY <2>2, <2>6, <2>7
       DEF SameApproved, Ends, MortgageReview!Next, MortgageReview!HsfCompletes
  <2>8. CASE SameApproved(g) /\ Ends(g, "lender", "lender", "done")
    BY <2>2, <2>6, <2>8
       DEF SameApproved, Ends, MortgageReview!Next, MortgageReview!LenderCompletes
  <2> QED
    BY <2>1, <2>4, <2>5, <2>7, <2>8 DEF Allowed
<1> QED
  BY <1>1, <1>2, InvAlways, PTL
     DEF Spec, MortgageReview!Spec, MortgageReviewIsTwoStage

\* So does the review of the condition precedent, whichever rows the uploads
\* and the webhook of the management fee have added meanwhile.
THEOREM ConditionRefinesReview == Spec => ConditionReviewIsTwoStage
<1> DEFINE g == "ConditionPrecedent"
           p == Phase(Marked("hsf"), Marked("lender"))
<1>1. Init => ConditionReview!Init
  <2> SUFFICES ASSUME Init PROVE ConditionReview!Init
    OBVIOUS
  <2>1. Len(conditions) = 0
    BY EmptySeq DEF Init
  <2>2. ~Marked("hsf") /\ ~Marked("lender")
    BY <2>1 DEF Marked
  <2> QED
    BY <2>2 DEF Init, ConditionReview!Init, Phase, ApprovedTypes
<1>2. IInv /\ [Next]_vars => [ConditionReview!Next]_(ConditionReview!vars)
  <2> SUFFICES ASSUME IInv, [Next]_vars
               PROVE  ConditionReview!Next \/ UNCHANGED ConditionReview!vars
    OBVIOUS
  <2>1. Allowed(g) /\ g \in Groups
    BY StepAllowed DEF Groups
  <2>2. PhaseOf(g) = p /\ PhaseOf(g)' = p'
    BY DEF PhaseOf, HsfMarked, LenderMarked
  <2>3. TypesOf(g) = ConditionTypes
    BY DEF TypesOf
  <2>4. CASE SamePhase(g) /\ SameApproved(g)
    BY <2>2, <2>4 DEF SamePhase, SameApproved, ConditionReview!vars
  <2>5. CASE SamePhase(g) /\ Approves(g)
    BY <2>2, <2>3, <2>5
       DEF SamePhase, Approves, Organizations, ConditionReview!Next,
           ConditionReview!Approve, ConditionReview!Reviewers
  <2>6. ASSUME NEW org, ReviewedBy(g, org)
        PROVE  ConditionReview!AllApprovedBy(org)
    BY <2>3, <2>6 DEF ReviewedBy, ApprovedTypes, ConditionReview!AllApprovedBy
  <2>7. CASE SameApproved(g) /\ Ends(g, "hsf", "hsf", "lender")
    BY <2>2, <2>6, <2>7
       DEF SameApproved, Ends, ConditionReview!Next, ConditionReview!HsfCompletes
  <2>8. CASE SameApproved(g) /\ Ends(g, "lender", "lender", "done")
    BY <2>2, <2>6, <2>8
       DEF SameApproved, Ends, ConditionReview!Next, ConditionReview!LenderCompletes
  <2> QED
    BY <2>1, <2>4, <2>5, <2>7, <2>8 DEF Allowed
<1> QED
  BY <1>1, <1>2, InvAlways, PTL
     DEF Spec, ConditionReview!Spec, ConditionReviewIsTwoStage

-----------------------------------------------------------------------------
(* The stages. A request that is late, its stage entered by another since  *)
(* it read, exits what it read and enters nothing: some open stage must be *)
(* none of those. A stage that is entered anew is in nobody's way.         *)

\* The request will enter a stage, after it exits those it read.
Moving(h) ==
    \/ h.op \in {"lender list", "lender", "ready"}
    \/ h.op = "upload" /\ h.enter

Target(h) ==
    IF h.op = "upload" THEN UploadStage(h.group)
    ELSE IF h.op = "ready" THEN "LoanOffer"
    ELSE IF h.group = "MortgageUpload" THEN "LoanDecision" ELSE "Repayment"

\* So does the webhook, one stage at a time.
Leaving(h) == Moving(h) \/ h.op \in {"fee", "attach", "exit"}

\* An upload, or the webhook, whose stage was entered by another: a completion
\* or an offer made ready that is late shows in the history instead.
Late(h) ==
    \/ h.op = "upload" /\ h.enter /\ stages[UploadStage(h.group)] # "absent"
    \/ h.op \in {"attach", "exit"} /\ stages["ConditionPrecedent"] # "absent"

\* What was read is still among the rows.
StagesKnown ==
    \A r \in Requests :
        Leaving(handler[r]) => \A s \in handler[r].open : stages[s] # "absent"

\* A stage that a review enters at its end is there only after that end.
StagesMarked ==
    /\ stages["LoanDecision"] # "absent" => LenderMarked("MortgageUpload")
    /\ stages["Repayment"] # "absent" => LenderMarked("ConditionPrecedent")
    /\ stages["ConditionPrecedent"] # "absent" => Len(conditions) >= 1

StaysOpen(s) ==
    \A r \in Requests : Late(handler[r]) => s \notin handler[r].open

Excepted ==
    \/ again
    \/ Len(conditions) >= 2
    \/ Len(conditions) >= 1 /\ stages["ConditionPrecedent"] = "absent"

OneKept == Excepted \/ \E s \in OpenStages(stages) : StaysOpen(s)

StageInv == StagesKnown /\ StagesMarked /\ OneKept

\* Rows of stages are never removed; one that was absent is open.
LEMMA Moved ==
    ASSUME stages \in Stages, NEW open, NEW s \in StageNames,
           stages' = Enter(Exit(stages, open), s)
    PROVE  /\ \A x \in StageNames : stages[x] # "absent" => stages'[x] # "absent"
           /\ \A x \in StageNames : x # s /\ stages[x] = "absent" => stages'[x] = "absent"
           /\ stages[s] = "absent" => stages'[s] = "open"
           /\ stages'[s] # "absent"
           /\ OpenStages(stages) \ open \subseteq OpenStages(stages')
BY DEF Stages, StageStates, Enter, Exit, OpenStages

LEMMA MarksStay ==
    ASSUME IInv, [Next]_vars, NEW g \in Groups, LenderMarked(g)
    PROVE  LenderMarked(g)'
<1>1. Allowed(g)
  BY StepAllowed
<1> QED
  BY <1>1 DEF Allowed, SamePhase, Ends, PhaseOf, Phase

LEMMA Lengths ==
    ASSUME IInv, [Next]_vars
    PROVE  /\ Len(conditions) \in Nat /\ Len(conditions') \in Nat
           /\ Len(conditions) <= Len(conditions')
BY Step DEF Later, IInv, TypeOK

LEMMA IdleStands == ~Leaving(Idle) /\ ~Late(Idle) /\ ~Late(Idle)'
BY DEF Leaving, Moving, Late, Idle

\* Steps that leave the stages. A request that goes on has read stages that
\* exist, and is not late unless it was.
LEMMA StandStep ==
    ASSUME IInv, StageInv, [Next]_vars, UNCHANGED <<stages, again>>,
           NEW r \in Requests, NEW h, handler' = [handler EXCEPT ![r] = h],
           Leaving(h) => \A s \in h.open : stages[s] # "absent",
           \/ ~Late(h)
           \/ Late(handler[r]) /\ h.open = handler[r].open
           \/ Len(conditions') >= 2
    PROVE  StageInv'
<1>1. handler'[r] = h /\ \A q \in Requests : q # r => handler'[q] = handler[q]
  BY DEF IInv, TypeOK
<1>2. StagesKnown'
  BY <1>1 DEF StageInv, StagesKnown
<1>3. /\ Len(conditions) \in Nat /\ Len(conditions') \in Nat
      /\ Len(conditions) <= Len(conditions')
  BY Lengths
<1>4. StagesMarked'
  BY <1>3, MarksStay DEF StageInv, StagesMarked, Groups
<1>5. OneKept'
  <2>1. CASE Len(conditions') >= 2
    BY <2>1 DEF OneKept, Excepted
  <2>2. CASE Excepted
    BY <1>3, <2>2 DEF OneKept, Excepted
  <2>3. ASSUME NEW s \in OpenStages(stages), StaysOpen(s), ~(Len(conditions') >= 2)
        PROVE  OneKept'
    <3>1. \A q \in Requests : Late(handler[q])' => s \notin handler'[q].open
      BY <1>1, <2>3 DEF StaysOpen, Late
    <3> QED
      BY <2>3, <3>1 DEF OneKept, StaysOpen, OpenStages
  <2> QED
    BY <2>1, <2>2, <2>3 DEF StageInv, OneKept
<1> QED
  BY <1>2, <1>4, <1>5 DEF StageInv

\* No request takes such a step, or one ends.
LEMMA QuietStep ==
    ASSUME IInv, StageInv, [Next]_vars, UNCHANGED <<stages, again>>,
           UNCHANGED handler
           \/ \E r \in Requests : handler' = [handler EXCEPT ![r] = Idle]
    PROVE  StageInv'
<1>1. ASSUME NEW r \in Requests, handler' = [handler EXCEPT ![r] = Idle]
      PROVE  StageInv'
  BY <1>1, IdleStands, StandStep
<1>2. CASE UNCHANGED handler
  <2>1. StagesKnown'
    BY <1>2 DEF StageInv, StagesKnown
  <2>2. /\ Len(conditions) \in Nat /\ Len(conditions') \in Nat
        /\ Len(conditions) <= Len(conditions')
    BY Lengths
  <2>3. StagesMarked'
    BY <2>2, MarksStay DEF StageInv, StagesMarked, Groups
  <2>4. OneKept'
    BY <1>2, <2>2 DEF StageInv, OneKept, Excepted, StaysOpen, Late, OpenStages
  <2> QED
    BY <2>1, <2>3, <2>4 DEF StageInv
<1> QED
  BY <1>1, <1>2

\* A request enters its stage, or finds it there: then the step is an
\* exception, or the request was late.
LEMMA MovingStep ==
    ASSUME IInv, StageInv, [Next]_vars, NEW r \in Requests, Moving(handler[r]),
           stages' = Enter(Exit(stages, handler[r].open), Target(handler[r])),
           handler' = [handler EXCEPT ![r] = Idle],
           Target(handler[r]) = "LoanDecision" => LenderMarked("MortgageUpload")',
           Target(handler[r]) = "Repayment" => LenderMarked("ConditionPrecedent")',
           Target(handler[r]) = "ConditionPrecedent" => Len(conditions') >= 1,
           again => again',
           \/ stages[Target(handler[r])] = "absent"
           \/ Late(handler[r])
           \/ again'
           \/ Len(conditions') >= 2
    PROVE  StageInv'
<1> DEFINE open == handler[r].open
<1>0. PICK e \in StageNames : e = Target(handler[r]) /\ stages \in Stages
  BY DEF Target, UploadStage, StageNames, IInv, TypeOK
<1>1. handler'[r] = Idle /\ \A q \in Requests : q # r => handler'[q] = handler[q]
  BY DEF IInv, TypeOK
<1>2. /\ \A x \in StageNames : stages[x] # "absent" => stages'[x] # "absent"
      /\ \A x \in StageNames : x # e /\ stages[x] = "absent" => stages'[x] = "absent"
      /\ stages[e] = "absent" => stages'[e] = "open"
      /\ OpenStages(stages) \ open \subseteq OpenStages(stages')
  BY <1>0, Moved
<1>3. \A q \in Requests : handler[q].open \subseteq StageNames
  BY HandlerKinds DEF IInv
<1>4. /\ Len(conditions) \in Nat /\ Len(conditions') \in Nat
      /\ Len(conditions) <= Len(conditions')
  BY Lengths
<1>5. StagesKnown'
  BY <1>1, <1>2, <1>3, IdleStands DEF StageInv, StagesKnown
<1>6. StagesMarked'
  BY <1>0, <1>2, <1>4, MarksStay DEF StageInv, StagesMarked, Groups, StageNames
<1>7. OneKept'
  <2>1. CASE again' \/ Len(conditions') >= 2
    BY <2>1 DEF OneKept, Excepted
  <2>2. CASE stages[e] = "absent"
    <3>1. e \in OpenStages(stages')
      BY <1>0, <1>2, <2>2 DEF OpenStages
    <3>2. \A q \in Requests : q # r /\ Late(handler[q])' => e \notin handler[q].open
      <4>1. \A q \in Requests : q # r /\ Late(handler[q])' => Leaving(handler[q])
        BY <1>1 DEF Late, Leaving, Moving
      <4> QED
        BY <2>2, <4>1 DEF StageInv, StagesKnown
    <3> QED
      BY <1>1, <3>1, <3>2, IdleStands DEF OneKept, StaysOpen
  <2>3. CASE stages[e] # "absent" /\ Late(handler[r]) /\ ~again' /\ ~(Len(conditions') >= 2)
    <3>1. CASE Len(conditions) >= 1 /\ stages["ConditionPrecedent"] = "absent"
      <4>1. stages'["ConditionPrecedent"] = "absent"
        BY <1>2, <2>3, <3>1 DEF StageNames
      <4> QED
        BY <1>4, <3>1, <4>1 DEF OneKept, Excepted
    <3>2. ASSUME NEW s \in OpenStages(stages), StaysOpen(s) PROVE OneKept'
      <4>1. s \in OpenStages(stages')
        BY <1>2, <2>3, <3>2 DEF StaysOpen
      <4>2. \A q \in Requests : q # r /\ Late(handler[q])' => Late(handler[q])
        <5>1. \A x \in StageNames : stages'[x] # "absent" => stages[x] # "absent"
          BY <1>2, <2>3
        <5> QED
          BY <1>1, <5>1 DEF Late, UploadStage, StageNames
      <4> QED
        BY <1>1, <3>2, <4>1, <4>2, IdleStands DEF OneKept, StaysOpen
    <3> QED
      BY <1>4, <2>3, <3>1, <3>2 DEF StageInv, OneKept, Excepted
  <2> QED
    BY <1>0, <2>1, <2>2, <2>3
<1> QED
  BY <1>5, <1>6, <1>7 DEF StageInv

LEMMA StageInit == Init => StageInv
<1> SUFFICES ASSUME Init PROVE StageInv
  OBVIOUS
<1>1. \A r \in Requests : handler[r] = Idle
  BY DEF Init
<1>2. StagesKnown /\ StagesMarked
  BY <1>1, IdleStands DEF Init, StagesKnown, StagesMarked, StageNames
<1>3. "PreQualification" \in OpenStages(stages)
  BY DEF Init, OpenStages, StageNames
<1> QED
  BY <1>1, <1>2, <1>3, IdleStands DEF StageInv, OneKept, StaysOpen

-----------------------------------------------------------------------------
(* Each step keeps StageInv.                                               *)

LEMMA UploadStages ==
    ASSUME IInv, StageInv, [Next]_vars, NEW r \in Requests, CommitUpload(r)
    PROVE  StageInv'
<1> DEFINE h == handler[r]
<1>1. /\ h.op = "upload" /\ h.enter \in BOOLEAN /\ h.group \in Groups
      /\ handler' = [handler EXCEPT ![r] = Idle] /\ again' = again
  BY HandlerKinds DEF CommitUpload, IInv
<1>2. CASE ~h.enter
  <2>1. stages' = stages
    BY <1>2 DEF CommitUpload
  <2> QED
    BY <1>1, <2>1, QuietStep
<1>3. CASE h.enter
  <2>1. Moving(h) /\ Target(h) = UploadStage(h.group)
    BY <1>1, <1>3 DEF Moving, Target
  <2>2. stages' = Enter(Exit(stages, h.open), Target(h))
    BY <1>3, <2>1 DEF CommitUpload
  <2>3. Target(h) \notin {"LoanDecision", "Repayment"}
    BY <2>1 DEF UploadStage
  <2>4. Target(h) = "ConditionPrecedent" => Len(conditions') >= 1
    <3> SUFFICES ASSUME Target(h) = "ConditionPrecedent" PROVE Len(conditions') >= 1
      OBVIOUS
    <3>1. h.group # "MortgageUpload" /\ UploadCondition(h.group, h.row)
      BY <2>1 DEF UploadStage, CommitUpload
    <3>2. Carries(h, h.group) /\ Len(conditions) \in Nat
      BY Read, Lengths
    <3>3. h.row \in 0 .. Len(conditions)
      BY <1>1, <3>2 DEF Carries
    <3>4. CASE h.row = 0
      BY <3>1, <3>2, <3>4, ConditionAdded DEF UploadCondition, IInv, TypeOK
    <3> QED
      BY <3>2, <3>3, <3>4, Lengths
  <2>5. stages[Target(h)] = "absent" \/ Late(h)
    BY <1>1, <1>3, <2>1 DEF Late
  <2> QED
    BY <1>1, <2>1, <2>2, <2>3, <2>4, <2>5, MovingStep
<1> QED
  BY <1>1, <1>2, <1>3

\* A completion that finds its stage there completes what was completed.
LEMMA LenderStages ==
    ASSUME IInv, StageInv, [Next]_vars, NEW r \in Requests, CommitLender(r)
    PROVE  StageInv'
<1> DEFINE h == handler[r]
<1>1. /\ h.op = "lender" /\ h.todo = {} /\ Moving(h) /\ h.group \in Groups
      /\ handler' = [handler EXCEPT ![r] = Idle]
  BY LenderMarks DEF CommitLender, Moving, Groups
<1>2. Target(h) = IF h.group = "MortgageUpload" THEN "LoanDecision" ELSE "Repayment"
  BY <1>1 DEF Target
<1>3. stages' = Enter(Exit(stages, h.open), Target(h)) /\ (again => again')
  BY <1>2 DEF CommitLender
<1>4. \A g \in Groups : h.group = g => LenderMarked(g)'
  BY LenderMarks
<1>5. /\ Target(h) = "LoanDecision" => LenderMarked("MortgageUpload")'
      /\ Target(h) = "Repayment" => LenderMarked("ConditionPrecedent")'
      /\ Target(h) # "ConditionPrecedent"
  BY <1>1, <1>2, <1>4 DEF Groups
<1>6. stages[Target(h)] = "absent" \/ again' \/ Len(conditions') >= 2
  <2>1. CASE h.group = "MortgageUpload"
    <3>1. again' = (again \/ lenderCompleted)
      BY <2>1 DEF CommitLender
    <3> QED
      BY <1>2, <2>1, <3>1 DEF StageInv, StagesMarked, LenderMarked
  <2>2. CASE h.group = "ConditionPrecedent"
    <3>1. again' = (again \/ conditions[h.row].lender)
      BY <2>2 DEF CommitLender
    <3>2. h.row \in 1 .. Len(conditions)
      BY <1>1, <2>2, AllChecked
    <3>3. CASE Len(conditions) >= 2
      BY <3>3, Lengths
    <3>4. CASE ~(Len(conditions) >= 2)
      <4>1. \A c \in 1 .. Len(conditions) : c = h.row
        BY <3>2, <3>4, Lengths
      <4>2. Marked("lender") => conditions[h.row].lender
        BY <4>1 DEF Marked
      <4> QED
        BY <1>2, <2>2, <3>1, <4>2 DEF StageInv, StagesMarked, LenderMarked
    <3> QED
      BY <3>3, <3>4
  <2> QED
    BY <1>1, <2>1, <2>2 DEF Groups
<1> QED
  BY <1>1, <1>3, <1>5, <1>6, MovingStep

LEMMA ReadyStages ==
    ASSUME IInv, StageInv, [Next]_vars, NEW r \in Requests, CommitReady(r)
    PROVE  StageInv'
<1> DEFINE h == handler[r]
<1>1. /\ h.op = "ready" /\ Moving(h) /\ Target(h) = "LoanOffer"
      /\ handler' = [handler EXCEPT ![r] = Idle]
      /\ stages' = Enter(Exit(stages, h.open), "LoanOffer")
  BY DEF CommitReady, Moving, Target
<1>2. again' = (again \/ stages["LoanOffer"] # "absent")
  BY DEF CommitReady
<1>3. (again => again') /\ (stages["LoanOffer"] = "absent" \/ again')
  BY <1>2
<1> QED
  BY <1>1, <1>3, MovingStep

\* A request reads something: only the stages, which exist, matter.
LEMMA ReadingStages ==
    ASSUME IInv, StageInv, [Next]_vars, NEW r \in Requests, NEW h, Reads(r, h),
           ~Late(h),
           \/ ~Leaving(h)
           \/ h.open = OpenStages(stages)
           \/ h.open = handler[r].open /\ Leaving(handler[r])
    PROVE  StageInv'
<1>1. UNCHANGED <<stages, again>> /\ handler' = [handler EXCEPT ![r] = h]
  BY DEF Reads, rows
<1>2. Leaving(h) => \A s \in h.open : stages[s] # "absent"
  BY DEF StageInv, StagesKnown, OpenStages
<1> QED
  BY <1>1, <1>2, StandStep

\* An "op" with no stage to leave, so far or at all.
RowOps == {"upload read", "hsf read", "lender read", "ready read", "hsf",
           "insert", "idle"}

LEMMA RowOpsStand == ASSUME NEW h, h.op \in RowOps PROVE ~Late(h) /\ ~Leaving(h)
BY DEF RowOps, Late, Leaving, Moving

LEMMA ReadForStages ==
    ASSUME IInv, StageInv, [Next]_vars, NEW r \in Requests,
           \/ \E g \in Groups :
                 \/ \E fresh \in SUBSET Types : ReadForUpload(r, g, fresh)
                 \/ ReadForHsf(r, g)
                 \/ ReadForLender(r, g)
           \/ ReadForReady(r)
           \/ ReadForFee(r)
    PROVE  StageInv'
<1>1. ASSUME NEW h, Reads(r, h), h.op \in RowOps PROVE StageInv'
  BY <1>1, RowOpsStand, ReadingStages
<1>2. ASSUME NEW g \in Groups, NEW fresh \in SUBSET Types, ReadForUpload(r, g, fresh)
      PROVE  StageInv'
  <2> DEFINE h == [Idle EXCEPT !.op = "upload read", !.group = g,
                               !.row = RowOf(g), !.fresh = fresh]
  <2>1. h.op \in RowOps /\ Reads(r, h)
    BY <1>2 DEF ReadForUpload, Idle, RowOps
  <2> HIDE DEF h
  <2> QED
    BY <1>1, <2>1
<1>3. ASSUME NEW g \in Groups, ReadForHsf(r, g) PROVE StageInv'
  <2> DEFINE h == [Idle EXCEPT !.op = "hsf read", !.group = g, !.row = RowOf(g)]
  <2>1. h.op \in RowOps /\ Reads(r, h)
    BY <1>3 DEF ReadForHsf, Idle, RowOps
  <2> HIDE DEF h
  <2> QED
    BY <1>1, <2>1
<1>4. ASSUME NEW g \in Groups, ReadForLender(r, g) PROVE StageInv'
  <2> DEFINE h == [Idle EXCEPT !.op = "lender read", !.group = g, !.row = RowOf(g)]
  <2>1. h.op \in RowOps /\ Reads(r, h)
    BY <1>4 DEF ReadForLender, Idle, RowOps
  <2> HIDE DEF h
  <2> QED
    BY <1>1, <2>1
<1>5. CASE ReadForReady(r)
  <2> DEFINE h == [Idle EXCEPT !.op = "ready read", !.row = offers]
  <2>1. h.op \in RowOps /\ Reads(r, h)
    BY <1>5 DEF ReadForReady, Idle, RowOps
  <2> HIDE DEF h
  <2> QED
    BY <1>1, <2>1
<1>6. CASE ReadForFee(r)
  <2> DEFINE h == [Idle EXCEPT !.op = "fee", !.open = OpenStages(stages)]
  <2>1. h.op = "fee" /\ h.open = OpenStages(stages) /\ Reads(r, h)
    BY <1>6 DEF ReadForFee, Idle
  <2> HIDE DEF h
  <2>2. ~Late(h)
    BY <2>1 DEF Late
  <2> QED
    BY <2>1, <2>2, ReadingStages
<1> QED
  BY <1>2, <1>3, <1>4, <1>5, <1>6

LEMMA ReadStagesStages ==
    ASSUME IInv, StageInv, [Next]_vars, NEW r \in Requests, ReadStages(r)
    PROVE  StageInv'
<1>0. handler[r] \in HandlerStates
  BY HandlerKinds DEF IInv
<1>1. ASSUME NEW h, Reads(r, h), h.open = OpenStages(stages), ~Late(h) PROVE StageInv'
  BY <1>1, ReadingStages
<1>2. CASE handler[r].op = "upload read"
  <2> DEFINE h == [handler[r] EXCEPT
                      !.op = "upload", !.open = OpenStages(stages),
                      !.enter = stages[UploadStage(handler[r].group)] = "absent"]
  <2>1. Reads(r, h)
    BY <1>2 DEF ReadStages
  <2>2. /\ h.op = "upload" /\ h.open = OpenStages(stages)
        /\ h.enter = (stages[UploadStage(h.group)] = "absent")
    BY <1>0 DEF HandlerStates
  <2> HIDE DEF h
  <2>3. ~Late(h)
    BY <2>2 DEF Late
  <2> QED
    BY <1>1, <2>1, <2>2, <2>3
<1>3. CASE handler[r].op = "lender read"
  <2> DEFINE h == [handler[r] EXCEPT !.op = "lender list", !.open = OpenStages(stages)]
  <2>1. Reads(r, h)
    BY <1>3 DEF ReadStages
  <2>2. h.op = "lender list" /\ h.open = OpenStages(stages)
    BY <1>0 DEF HandlerStates
  <2> HIDE DEF h
  <2>3. ~Late(h)
    BY <2>2 DEF Late
  <2> QED
    BY <1>1, <2>1, <2>2, <2>3
<1>4. CASE handler[r].op = "ready read"
  <2> DEFINE h == [handler[r] EXCEPT !.op = "ready", !.open = OpenStages(stages)]
  <2>1. Reads(r, h)
    BY <1>4 DEF ReadStages
  <2>2. h.op = "ready" /\ h.open = OpenStages(stages)
    BY <1>0 DEF HandlerStates
  <2> HIDE DEF h
  <2>3. ~Late(h)
    BY <2>2 DEF Late
  <2> QED
    BY <1>1, <2>1, <2>2, <2>3
<1> QED
  BY <1>2, <1>3, <1>4 DEF ReadStages

LEMMA CheckingStages ==
    ASSUME IInv, StageInv, [Next]_vars, NEW r \in Requests,
           ReadDocuments(r) \/ \E i \in EntryIds : ReadApproval(r, i)
    PROVE  StageInv'
<1>0. handler[r] \in HandlerStates
  BY HandlerKinds DEF IInv
<1>1. ASSUME NEW h, Reads(r, h), h.op \in RowOps PROVE StageInv'
  BY <1>1, RowOpsStand, ReadingStages
<1>2. ASSUME NEW h, Reads(r, h), h.op = "lender", h.open = handler[r].open,
             handler[r].op \in {"lender list", "lender"}
      PROVE  StageInv'
  <2>1. Leaving(handler[r]) /\ ~Late(h)
    BY <1>2 DEF Leaving, Moving, Late
  <2> QED
    BY <1>2, <2>1, ReadingStages
<1>3. ASSUME ReadDocuments(r), handler[r].op = "hsf read" PROVE StageInv'
  <2> DEFINE h == [handler[r] EXCEPT !.op = "hsf", !.docs = DocsOf(handler[r].group),
                                     !.todo = DocsOf(handler[r].group)]
  <2>1. Reads(r, h)
    BY <1>3 DEF ReadDocuments
  <2>2. h.op \in RowOps
    BY <1>0 DEF HandlerStates, RowOps
  <2> HIDE DEF h
  <2> QED
    BY <1>1, <2>1, <2>2
<1>4. ASSUME ReadDocuments(r), handler[r].op = "lender list" PROVE StageInv'
  <2> DEFINE h == [handler[r] EXCEPT !.op = "lender", !.todo = DocsOf(handler[r].group)]
  <2>1. Reads(r, h)
    BY <1>4 DEF ReadDocuments
  <2>2. h.op = "lender" /\ h.open = handler[r].open
    BY <1>0 DEF HandlerStates
  <2> HIDE DEF h
  <2> QED
    BY <1>4, <1>2, <2>1, <2>2
<1>5. ASSUME NEW i \in EntryIds, ReadApproval(r, i) PROVE StageInv'
  <2> DEFINE h == [handler[r] EXCEPT !.todo = @ \ {i}]
  <2>1. Reads(r, h) /\ handler[r].op \in {"hsf", "lender"}
    BY <1>5 DEF ReadApproval
  <2>2. h.op = handler[r].op /\ h.open = handler[r].open
    BY <1>0 DEF HandlerStates
  <2> HIDE DEF h
  <2>3. CASE h.op = "hsf"
    BY <1>1, <2>1, <2>3 DEF RowOps
  <2>4. CASE h.op = "lender"
    BY <1>2, <2>1, <2>2, <2>4
  <2> QED
    BY <2>1, <2>2, <2>3, <2>4
<1> QED
  BY <1>3, <1>4, <1>5 DEF ReadDocuments

\* From the creation of the condition precedent on, either its stage is absent
\* or it is the second one.
LEMMA FeeStages ==
    ASSUME IInv, StageInv, [Next]_vars, NEW r \in Requests,
           CreateCondition(r) \/ AttachCondition(r) \/ LookForStage(r)
    PROVE  StageInv'
<1>0. handler[r] \in HandlerStates /\ handler \in [Requests -> HandlerStates]
  BY HandlerKinds DEF IInv, TypeOK
<1>1. CASE CreateCondition(r)
  <2> DEFINE h == [handler[r] EXCEPT !.op = "attach", !.row = Len(conditions) + 1]
  <2>1. h.op = "attach" /\ h.open = handler[r].open
    BY <1>0 DEF HandlerStates
  <2>2. /\ handler' = [handler EXCEPT ![r] = h]
        /\ conditions' = Append(conditions, NewCondition) /\ handler[r].op = "fee"
        /\ UNCHANGED <<stages, again>>
    BY <1>0, <1>1 DEF CreateCondition
  <2> HIDE DEF h
  <2>3. Len(conditions') = Len(conditions) + 1 /\ Len(conditions) \in Nat
    BY <2>2, ConditionAdded DEF IInv, TypeOK
  <2>4. Leaving(handler[r])
    BY <2>2 DEF Leaving
  <2>5. \A s \in h.open : stages[s] # "absent"
    BY <2>1, <2>4 DEF StageInv, StagesKnown
  <2>6. Late(h) => stages["ConditionPrecedent"] # "absent"
    BY <2>1 DEF Late
  <2>7. Late(h) => Len(conditions') >= 2
    BY <2>3, <2>6 DEF StageInv, StagesMarked
  <2> QED
    BY <2>1, <2>2, <2>5, <2>7, StandStep
<1>2. CASE AttachCondition(r)
  <2> DEFINE h == [handler[r] EXCEPT !.op = "exit"]
  <2>1. h.op = "exit" /\ h.open = handler[r].open
    BY <1>0 DEF HandlerStates
  <2>2. /\ handler' = [handler EXCEPT ![r] = h]
        /\ handler[r].op = "attach" /\ UNCHANGED <<stages, again>>
    BY <1>0, <1>2 DEF AttachCondition
  <2> HIDE DEF h
  <2>3. Leaving(handler[r]) /\ (Late(h) => Late(handler[r]))
    BY <2>1, <2>2 DEF Leaving, Late
  <2>4. \A s \in h.open : stages[s] # "absent"
    BY <2>1, <2>3 DEF StageInv, StagesKnown
  <2> QED
    BY <2>1, <2>2, <2>3, <2>4, StandStep
<1>3. CASE LookForStage(r)
  <2>1. ASSUME NEW h, Reads(r, h), h.op \in RowOps PROVE StageInv'
    BY <2>1, RowOpsStand, ReadingStages
  <2>2. CASE stages["ConditionPrecedent"] = "absent"
    <3> DEFINE h == [handler[r] EXCEPT !.op = "insert"]
    <3>1. Reads(r, h)
      BY <1>3, <2>2 DEF LookForStage
    <3>2. h.op \in RowOps
      BY <1>0 DEF HandlerStates, RowOps
    <3> HIDE DEF h
    <3> QED
      BY <2>1, <3>1, <3>2
  <2>3. CASE stages["ConditionPrecedent"] # "absent"
    <3>1. Reads(r, Idle)
      BY <1>3, <2>3 DEF LookForStage
    <3>2. Idle.op \in RowOps
      BY DEF Idle, RowOps
    <3> QED
      BY <2>1, <3>1, <3>2
  <2> QED
    BY <2>2, <2>3
<1> QED
  BY <1>1, <1>2, <1>3

\* The webhook exits a stage: its own is absent, or the stage is not the one
\* that stays.
LEMMA ExitStages ==
    ASSUME IInv, StageInv, [Next]_vars, NEW r \in Requests, NEW x \in StageNames,
           ExitStage(r, x)
    PROVE  StageInv'
<1>1. handler[r] \in HandlerStates /\ handler \in [Requests -> HandlerStates]
  BY HandlerKinds DEF IInv, TypeOK
<1> DEFINE h == [handler[r] EXCEPT !.open = @ \ {x}]
<1>2. /\ handler' = [handler EXCEPT ![r] = h]
      /\ h.op = "exit" /\ h.open = handler[r].open \ {x}
  BY <1>1 DEF ExitStage, HandlerStates
<1> HIDE DEF h
<1>3. /\ handler[r].op = "exit" /\ x \in handler[r].open
      /\ stages' = Exit(stages, {x}) /\ UNCHANGED <<conditions, again>>
  BY DEF ExitStage
<1>4. /\ \A s \in StageNames : stages'[s] = "absent" <=> stages[s] = "absent"
      /\ OpenStages(stages) \ {x} \subseteq OpenStages(stages')
  BY <1>3 DEF Exit, OpenStages
<1>5. handler'[r] = h /\ \A q \in Requests : q # r => handler'[q] = handler[q]
  BY <1>1, <1>2
<1>6. \A q \in Requests : handler[q].open \subseteq StageNames
  BY HandlerKinds DEF IInv
<1>7. Leaving(handler[r])
  BY <1>3 DEF Leaving
<1>8. StagesKnown'
  BY <1>2, <1>4, <1>5, <1>6, <1>7 DEF StageInv, StagesKnown
<1>9. StagesMarked'
  BY <1>3, <1>4, MarksStay DEF StageInv, StagesMarked, Groups, StageNames
<1>10. OneKept'
  <2>1. CASE Excepted
    BY <1>3, <1>4, <2>1 DEF OneKept, Excepted, StageNames
  <2>2. CASE stages["ConditionPrecedent"] = "absent"
    <3>1. handler[r].row \in 1 .. Len(conditions)
      BY <1>3, Read DEF Carries
    <3>2. Len(conditions) >= 1
      BY <3>1, Lengths
    <3> QED
      BY <2>1, <2>2, <3>2 DEF Excepted
  <2>3. ASSUME NEW s \in OpenStages(stages), StaysOpen(s),
               stages["ConditionPrecedent"] # "absent"
        PROVE  OneKept'
    <3>1. Late(handler[r])
      BY <1>3, <2>3 DEF Late
    <3>2. s # x /\ s \in OpenStages(stages')
      BY <1>3, <1>4, <2>3, <3>1 DEF StaysOpen
    <3>3. \A q \in Requests : q # r => (Late(handler[q])' <=> Late(handler[q]))
      BY <1>4, <1>5 DEF Late, UploadStage, StageNames
    <3>4. StaysOpen(s)'
      BY <1>2, <1>5, <2>3, <3>1, <3>3 DEF StaysOpen
    <3> QED
      BY <3>2, <3>4 DEF OneKept
  <2> QED
    BY <2>1, <2>2, <2>3 DEF StageInv, OneKept
<1> QED
  BY <1>8, <1>9, <1>10 DEF StageInv

\* The webhook enters its stage: nobody has read it, or it was there.
LEMMA InsertStages ==
    ASSUME IInv, StageInv, [Next]_vars, NEW r \in Requests, InsertStage(r)
    PROVE  StageInv'
<1> DEFINE e == "ConditionPrecedent"
<1>1. /\ handler[r].op = "insert" /\ handler' = [handler EXCEPT ![r] = Idle]
      /\ stages' = [stages EXCEPT ![e] = "open"] /\ UNCHANGED <<conditions, again>>
  BY DEF InsertStage
<1>2. handler'[r] = Idle /\ \A q \in Requests : q # r => handler'[q] = handler[q]
  BY <1>1 DEF IInv, TypeOK
<1>3. /\ stages'[e] = "open" /\ e \in StageNames
      /\ \A s \in StageNames : s # e => stages'[s] = stages[s]
  BY <1>1 DEF IInv, TypeOK, Stages, StageNames
<1>4. \A q \in Requests : handler[q].open \subseteq StageNames
  BY HandlerKinds DEF IInv
<1>5. StagesKnown'
  BY <1>2, <1>3, <1>4, IdleStands DEF StageInv, StagesKnown
<1>6. Len(conditions) >= 1
  <2>1. handler[r].row \in 1 .. Len(conditions)
    BY <1>1, Read DEF Carries
  <2> QED
    BY <2>1, Lengths
<1>7. StagesMarked'
  BY <1>1, <1>3, <1>6, MarksStay DEF StageInv, StagesMarked, Groups, StageNames
<1>8. OneKept'
  <2>1. CASE stages[e] = "absent"
    <3>1. e \in OpenStages(stages')
      BY <1>3 DEF OpenStages
    <3>2. \A q \in Requests : q # r /\ Late(handler[q])' => e \notin handler[q].open
      <4>1. \A q \in Requests : q # r /\ Late(handler[q])' => Leaving(handler[q])
        BY <1>2 DEF Late, Leaving, Moving
      <4> QED
        BY <2>1, <4>1 DEF StageInv, StagesKnown
    <3> QED
      BY <1>2, <3>1, <3>2, IdleStands DEF OneKept, StaysOpen
  <2>2. CASE stages[e] # "absent" /\ Excepted
    BY <1>1, <2>2 DEF OneKept, Excepted
  <2>3. ASSUME NEW s \in OpenStages(stages), StaysOpen(s), stages[e] # "absent"
        PROVE  OneKept'
    <3>1. s \in OpenStages(stages')
      BY <1>3, <2>3 DEF OpenStages
    <3>2. \A q \in Requests : q # r => (Late(handler[q])' => Late(handler[q]))
      BY <1>2, <1>3, <2>3 DEF Late, UploadStage, StageNames
    <3> QED
      BY <1>2, <2>3, <3>1, <3>2, IdleStands DEF OneKept, StaysOpen
  <2> QED
    BY <2>1, <2>2, <2>3 DEF StageInv, OneKept
<1> QED
  BY <1>5, <1>7, <1>8 DEF StageInv

LEMMA StageStep == IInv /\ StageInv /\ [Next]_vars => StageInv'
<1> SUFFICES ASSUME IInv, StageInv, [Next]_vars PROVE StageInv'
  OBVIOUS
<1>1. ASSUME NEW r \in Requests, Upload(r) \/ ReadStages(r) PROVE StageInv'
  BY <1>1, ReadForStages, ReadStagesStages, UploadStages DEF Upload
<1>2. ASSUME NEW r \in Requests, Complete(r) PROVE StageInv'
  <2>1. CASE CommitHsf(r)
    BY <2>1, QuietStep DEF CommitHsf
  <2> QED
    BY <1>2, <2>1, ReadForStages, CheckingStages, LenderStages DEF Complete
<1>3. ASSUME NEW r \in Requests, Ready(r) PROVE StageInv'
  BY <1>3, ReadForStages, ReadyStages DEF Ready
<1>4. ASSUME NEW r \in Requests, ManagementFeePaid(r) PROVE StageInv'
  BY <1>4, ReadForStages, FeeStages, ExitStages, InsertStages DEF ManagementFeePaid
<1>5. ASSUME NEW r \in Requests, Abort(r) PROVE StageInv'
  BY <1>5, QuietStep DEF Abort, Reads, rows
<1>6. CASE Respond
  BY <1>6, QuietStep DEF Respond, RespondHsf, RespondLender
<1>7. CASE DecideEligibility
  BY <1>7, QuietStep DEF DecideEligibility, rows
<1>8. CASE UNCHANGED vars
  BY <1>8, QuietStep DEF vars
<1> QED
  BY <1>1, <1>2, <1>3, <1>4, <1>5, <1>6, <1>7, <1>8 DEF Next

\* Whatever uploads and reviews cross, and whatever they read: the application
\* is at a stage until a review is completed again, an offer made ready again,
\* or the webhook of the fee is on its way, stops there or comes twice.
THEOREM ReviewKeepsStage == Spec => []StageUntilAgain
<1>1. IInv /\ StageInv => StageUntilAgain
  <2> SUFFICES ASSUME IInv, OneKept, OpenStages(stages) = {}
               PROVE  \/ again \/ Len(conditions) >= 2
                      \/ conditions # <<>> /\ stages["ConditionPrecedent"] = "absent"
    BY DEF StageInv, StageUntilAgain
  <2>1. Len(conditions) >= 1 => conditions # <<>>
    BY EmptySeq
  <2> QED
    BY <2>1 DEF OneKept, Excepted
<1> QED
  BY <1>1, InitHolds, Step, StageInit, StageStep, PTL DEF Spec

=============================================================================
