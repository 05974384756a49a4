-------------------------- MODULE MortgagePayment --------------------------
(***************************************************************************)
(* The fees of one mortgage application: inititateMortgagePaymentIntent    *)
(* (payments.ts), the Paystack webhook (utils.routes.ts), and Paystack.    *)
(*                                                                         *)
(* Neither handler opens a transaction: every statement commits by itself, *)
(* and a handler that fails or a server that stops leaves what was written *)
(* so far. Paystack delivers an event again until it is answered 200, also *)
(* while an earlier delivery is still being handled.                       *)
(*                                                                         *)
(* Paystack is modelled from how the code uses it: a reference names one   *)
(* transaction for good; a transaction that verify reports abandoned can   *)
(* no longer be paid, since the code then asks for another one. It makes   *)
(* no transfers to this application, so transfer events do not occur.      *)
(***************************************************************************)
EXTENDS Naturals, ApplicationStages

CONSTANTS
    Kinds,          \* fees due: that of the DIP, or those of the loan decision
    PaymentIds,     \* bound: rows of payments
    Requests,       \* requests of the home buyer that may be in flight
    Deliveries,     \* webhook requests that may be in flight
    MaxReferences,  \* bound: reference numbers generated
    MaxConditions,  \* bound: rows of condition_precedents
    MaxFaults       \* bound: failed statements and lost requests

MortgagePaymentType == {"Due Diligent", "Broker Fee", "Management Fee"}

ASSUME KindsAssumption ==
    Kinds = {"Due Diligent"} \/ Kinds \subseteq {"Broker Fee", "Management Fee"}

ASSUME BoundsAssumption ==
    /\ MaxReferences \in Nat
    /\ MaxConditions \in Nat
    /\ MaxFaults \in Nat

References == 1 .. MaxReferences
Trials     == 3
NoPayment  == "no payment"
ASSUME IdsAssumption == NoPayment \notin PaymentIds

VARIABLES
    payments,    \* payments by id: reference, and the one in its metadata
    generated,   \* reference numbers generated so far
    link,        \* payment attached to the DIP or decision, for each kind
    paystack,    \* transactions of Paystack by reference
    events,      \* charge.success events that were not answered 200
    dip,         \* dip_status and payment_status of the DIP
    decision,    \* the loan decision
    conditions,  \* number of rows of condition_precedents
    current,     \* application.condition_precedent_id, 0 for none
    stages,      \* stage rows of the application
    request,     \* what each request of the home buyer is doing
    delivery,    \* what each webhook request is doing
    faults       \* faults so far, for MaxFaults

vars == <<payments, generated, link, paystack, events, dip, decision,
          conditions, current, stages, request, delivery, faults>>

application == <<conditions, current, stages>>
fees        == <<dip, decision, application>>

Absent == [status |-> "absent"]
Idle   == [at |-> "idle"]

Payment == [status : {"pending", "success"}, kind : Kinds,
            reference : References, metadata : References]

Transaction == [status : {"created", "ongoing", "abandoned", "failed", "success"},
                payment : PaymentIds, metadata : References]

RequestStates ==
    {Idle}
    \cup [at : {"store", "link", "make", "verify", "renew", "paid", "intent"},
          kind : Kinds, payment : PaymentIds \cup {NoPayment},
          reference : Nat, metadata : Nat, trials : 0 .. Trials]

DeliveryStates ==
    {Idle}
    \cup [at : {"success", "read", "apply", "condition", "attach", "exit",
                "enter", "reply"},
          event : References, payment : PaymentIds,
          open : SUBSET StageNames, condition : Nat]

Stored     == {p \in PaymentIds : payments[p] # Absent}
Charged(n) == paystack[n].status = "success"

Init ==
    /\ payments = [p \in PaymentIds |-> Absent]
    /\ generated = 0
    /\ link = [k \in MortgagePaymentType |-> NoPayment]
    /\ paystack = [n \in References |-> Absent]
    /\ events = {}
    /\ IF "Due Diligent" \in Kinds
       THEN /\ dip = [status |-> "Payment Pending", paid |-> FALSE]
            /\ stages = [s \in StageNames |->
                   IF s \in {"PreQualification", "DecisionInPrinciple"}
                   THEN "open" ELSE "absent"]
       ELSE /\ dip = [status |-> "Completed", paid |-> TRUE]
            /\ stages = [s \in StageNames |->
                   CASE s = "LoanDecision" -> "open"
                     [] s \in {"PreQualification", "DecisionInPrinciple",
                               "UploadDocument"} -> "exited"
                     [] OTHER -> "absent"]
    /\ decision = [approved |-> FALSE, broker |-> FALSE, management |-> FALSE]
    /\ conditions = 0
    /\ current = 0
    /\ request = [r \in Requests |-> Idle]
    /\ delivery = [d \in Deliveries |-> Idle]
    /\ faults = 0

-----------------------------------------------------------------------------
(* A home buyer asks for the payment of a fee.                             *)

\* The payment attached for this fee; for both fees of the decision it is
\* looked for only when a broker fee is attached.
Known(k) ==
    IF k # "Due Diligent" /\ link["Broker Fee"] = NoPayment
    THEN NoPayment ELSE link[k]

Initiate(r, k) ==
    /\ request[r] = Idle
    /\ k = "Due Diligent" => dip.status = "Payment Pending"
    /\ LET p == Known(k) IN
       /\ p # NoPayment => payments[p].status # "success"
       /\ request' = [request EXCEPT
              ![r] = [at |-> "store", kind |-> k, payment |-> p, reference |-> 0,
                      metadata |-> IF p = NoPayment THEN 0
                                   ELSE payments[p].metadata,
                      trials |-> Trials]]
    /\ UNCHANGED <<payments, generated, link, paystack, events, fees, delivery,
                   faults>>

Row(r, at, p) ==
    [request[r] EXCEPT !.at = at, !.payment = p,
                       !.reference = payments'[p].reference,
                       !.metadata = payments'[p].metadata]

\* No payment: a new row, whose metadata repeats its reference.
CreatePayment(r) ==
    /\ request[r].at = "store"
    /\ request[r].payment = NoPayment
    /\ generated < MaxReferences
    /\ generated' = generated + 1
    /\ \E p \in PaymentIds \ Stored :
         /\ payments' = [payments EXCEPT
                ![p] = [status |-> "pending", kind |-> request[r].kind,
                        reference |-> generated + 1, metadata |-> generated + 1]]
         /\ request' = [request EXCEPT ![r] = Row(r, "link", p)]
    /\ UNCHANGED <<link, paystack, events, fees, delivery, faults>>

\* A payment: pending again, with the metadata that was read before.
ResetPayment(r) ==
    /\ request[r].at = "store"
    /\ LET p == request[r].payment IN
       /\ p # NoPayment
       /\ payments' = [payments EXCEPT ![p].status = "pending",
                                       ![p].metadata = request[r].metadata]
       /\ request' = [request EXCEPT ![r] = Row(r, "link", p)]
    /\ UNCHANGED <<generated, link, paystack, events, fees, delivery, faults>>

\* Mutant: the type of the payment is stored in place of its identifier.
LinkPaymentUnnamed(r) ==
    /\ request[r].at = "link"
    /\ link' = [link EXCEPT ![request[r].kind] = request[r].kind]
    /\ request' = [request EXCEPT ![r].at = "make"]
    /\ UNCHANGED <<payments, generated, paystack, events, fees, delivery, faults>>

\* Mutant: the DIP moves on when the payment is attached to it.
LinkPaymentAdvancing(r) ==
    /\ request[r].at = "link"
    /\ link' = [link EXCEPT ![request[r].kind] = request[r].payment]
    /\ dip' = [status |-> "Documents Pending", paid |-> TRUE]
    /\ request' = [request EXCEPT ![r].at = "make"]
    /\ UNCHANGED <<payments, generated, paystack, events, decision, application,
                   delivery, faults>>

LinkPayment(r) ==
    /\ request[r].at = "link"
    /\ link' = [link EXCEPT ![request[r].kind] = request[r].payment]
    /\ request' = [request EXCEPT ![r].at = "make"]
    /\ UNCHANGED <<payments, generated, paystack, events, fees, delivery, faults>>

\* createProcess: Paystack refuses a reference it has seen.
MakePayment(r) ==
    /\ request[r].at = "make"
    /\ LET n == request[r].reference IN
       IF paystack[n] = Absent
       THEN /\ paystack' = [paystack EXCEPT
                   ![n] = [status |-> "created", payment |-> request[r].payment,
                           metadata |-> request[r].metadata]]
            /\ request' = [request EXCEPT ![r].at = "intent"]
       ELSE /\ request' = [request EXCEPT ![r].at = "verify"]
            /\ UNCHANGED paystack
    /\ UNCHANGED <<payments, generated, link, events, fees, delivery, faults>>

\* Mutant: a transaction that is not abandoned counts as paid.
VerifyNotAbandoned(r) ==
    /\ request[r].at = "verify"
    /\ LET status == paystack[request[r].reference].status IN
       request' = [request EXCEPT ![r] =
           IF status = "abandoned"
           THEN [@ EXCEPT !.at = "renew", !.trials = request[r].trials - 1]
           ELSE [@ EXCEPT !.at = "paid"]]
    /\ UNCHANGED <<payments, generated, link, paystack, events, fees, delivery,
                   faults>>

\* Mutant: a transaction that may still be paid is renewed.
VerifyOngoingAbandoned(r) ==
    /\ request[r].at = "verify"
    /\ LET status == paystack[request[r].reference].status IN
       request' = [request EXCEPT ![r] =
           IF status = "success" THEN [@ EXCEPT !.at = "paid"]
           ELSE [@ EXCEPT !.at = "renew", !.trials = request[r].trials - 1]]
    /\ UNCHANGED <<payments, generated, link, paystack, events, fees, delivery,
                   faults>>

\* verify, which asks about the reference. Other answers than these two end
\* the request in an error.
Verify(r) ==
    /\ request[r].at = "verify"
    /\ LET status == paystack[request[r].reference].status IN
       request' = [request EXCEPT ![r] =
           CASE status = "abandoned" -> [@ EXCEPT !.at = "renew",
                                                  !.trials = request[r].trials - 1]
             [] status = "success"   -> [@ EXCEPT !.at = "paid"]
             [] OTHER                -> Idle]
    /\ UNCHANGED <<payments, generated, link, paystack, events, fees, delivery,
                   faults>>

\* Two numbers are generated, one for each of the two places.
RenewReference(r) ==
    /\ request[r].at = "renew"
    /\ generated + 2 <= MaxReferences
    /\ generated' = generated + 2
    /\ LET p == request[r].payment IN
       /\ payments' = [payments EXCEPT ![p].reference = generated + 1,
                                       ![p].metadata = generated + 2]
       /\ request' = [request EXCEPT
              ![r] = IF request[r].trials = 0 THEN Idle ELSE Row(r, "make", p)]
    /\ UNCHANGED <<link, paystack, events, fees, delivery, faults>>

\* The payment was made before: its status only, and an error to the caller.
RecordPaid(r) ==
    /\ request[r].at = "paid"
    /\ payments' = [payments EXCEPT ![request[r].payment].status = "success"]
    /\ request' = [request EXCEPT ![r] = Idle]
    /\ UNCHANGED <<generated, link, paystack, events, fees, delivery, faults>>

\* The intent is stored in the metadata, where the home buyer can read it.
SaveIntent(r) ==
    /\ request[r].at = "intent"
    /\ payments' = [payments EXCEPT
           ![request[r].payment].metadata = request[r].metadata]
    /\ paystack' = [paystack EXCEPT
           ![request[r].reference].status = IF @ = "created" THEN "ongoing" ELSE @]
    /\ request' = [request EXCEPT ![r] = Idle]
    /\ UNCHANGED <<generated, link, events, fees, delivery, faults>>

-----------------------------------------------------------------------------
(* Paystack: the home buyer pays, fails to, or lets the transaction lapse. *)

Charge(n) ==
    /\ paystack[n].status = "ongoing"
    /\ paystack' = [paystack EXCEPT ![n].status = "success"]
    /\ events' = events \cup {n}
    /\ UNCHANGED <<payments, generated, link, fees, request, delivery, faults>>

Lapse(n) ==
    /\ \/ paystack[n].status = "ongoing"
          /\ \E s \in {"failed", "abandoned"} :
                 paystack' = [paystack EXCEPT ![n].status = s]
       \/ paystack[n].status = "created"
          /\ paystack' = [paystack EXCEPT ![n].status = "abandoned"]
    /\ UNCHANGED <<payments, generated, link, events, fees, request, delivery,
                   faults>>

-----------------------------------------------------------------------------
(* The webhook. An event names the reference that was in the metadata when *)
(* the transaction was made; a payment that no longer has it is not found, *)
(* and the answer is 404.                                                  *)

Names(n, p) == p \in Stored /\ payments[p].reference = paystack[n].metadata

Receive(d, n) ==
    /\ delivery[d] = Idle
    /\ n \in events
    /\ \E p \in PaymentIds :
         /\ Names(n, p)
         /\ delivery' = [delivery EXCEPT
                ![d] = [at |-> "success", event |-> n, payment |-> p,
                        open |-> {}, condition |-> 0]]
    /\ UNCHANGED <<payments, generated, link, paystack, events, fees, request,
                   faults>>

\* Mutant: the event is answered before it is applied.
RecordChargeAnswered(d) ==
    /\ delivery[d].at = "success"
    /\ payments' = [payments EXCEPT ![delivery[d].payment].status = "success"]
    /\ events' = events \ {delivery[d].event}
    /\ delivery' = [delivery EXCEPT ![d].at = "read"]
    /\ UNCHANGED <<generated, link, paystack, fees, request, faults>>

RecordCharge(d) ==
    /\ delivery[d].at = "success"
    /\ payments' = [payments EXCEPT ![delivery[d].payment].status = "success"]
    /\ delivery' = [delivery EXCEPT ![d].at = "read"]
    /\ UNCHANGED <<generated, link, paystack, events, fees, request, faults>>

KindOf(d) == payments[delivery[d].payment].kind

ReadApplication(d) ==
    /\ delivery[d].at = "read"
    /\ delivery' = [delivery EXCEPT
           ![d].at = "apply",
           ![d].open = IF KindOf(d) = "Management Fee" THEN OpenStages(stages)
                       ELSE {}]
    /\ UNCHANGED <<payments, generated, link, paystack, events, fees, request,
                   faults>>

ApplyDueDiligent(d) ==
    /\ delivery[d].at = "apply"
    /\ KindOf(d) = "Due Diligent"
    /\ dip' = [status |-> "Documents Pending", paid |-> TRUE]
    /\ delivery' = [delivery EXCEPT ![d].at = "reply"]
    /\ UNCHANGED <<payments, generated, link, paystack, events, decision,
                   application, request, faults>>

\* Mutant: either fee of the decision approves it.
ApplyDecisionFee(d) ==
    /\ delivery[d].at = "apply"
    /\ decision' = [decision EXCEPT !.broker = TRUE, !.approved = TRUE]
    /\ delivery' = [delivery EXCEPT ![d].at = "reply"]
    /\ UNCHANGED <<payments, generated, link, paystack, events, dip,
                   application, request, faults>>

ApplyBrokerFee(d) ==
    /\ delivery[d].at = "apply"
    /\ KindOf(d) = "Broker Fee"
    /\ decision' = [decision EXCEPT !.broker = TRUE, !.approved = TRUE]
    /\ delivery' = [delivery EXCEPT ![d].at = "reply"]
    /\ UNCHANGED <<payments, generated, link, paystack, events, dip,
                   application, request, faults>>

ApplyManagementFee(d) ==
    /\ delivery[d].at = "apply"
    /\ KindOf(d) = "Management Fee"
    /\ decision' = [decision EXCEPT !.management = TRUE]
    /\ delivery' = [delivery EXCEPT ![d].at = "condition"]
    /\ UNCHANGED <<payments, generated, link, paystack, events, dip,
                   application, request, faults>>

CreateCondition(d) ==
    /\ delivery[d].at = "condition"
    /\ conditions < MaxConditions
    /\ conditions' = conditions + 1
    /\ delivery' = [delivery EXCEPT ![d].at = "attach",
                                    ![d].condition = conditions + 1]
    /\ UNCHANGED <<payments, generated, link, paystack, events, dip, decision,
                   current, stages, request, faults>>

\* Mutant: the identifier of the next row.
AttachNextCondition(d) ==
    /\ delivery[d].at = "attach"
    /\ current' = delivery[d].condition + 1
    /\ delivery' = [delivery EXCEPT ![d].at = "exit"]
    /\ UNCHANGED <<payments, generated, link, paystack, events, dip, decision,
                   conditions, stages, request, faults>>

AttachCondition(d) ==
    /\ delivery[d].at = "attach"
    /\ current' = delivery[d].condition
    /\ delivery' = [delivery EXCEPT ![d].at = "exit"]
    /\ UNCHANGED <<payments, generated, link, paystack, events, dip, decision,
                   conditions, stages, request, faults>>

ExitStages(d) ==
    /\ delivery[d].at = "exit"
    /\ stages' = Exit(stages, delivery[d].open)
    /\ delivery' = [delivery EXCEPT ![d].at = "enter"]
    /\ UNCHANGED <<payments, generated, link, paystack, events, dip, decision,
                   conditions, current, request, faults>>

EnterStage(d) ==
    /\ delivery[d].at = "enter"
    /\ stages' = Enter(stages, "ConditionPrecedent")
    /\ delivery' = [delivery EXCEPT ![d].at = "reply"]
    /\ UNCHANGED <<payments, generated, link, paystack, events, dip, decision,
                   conditions, current, request, faults>>

\* 200: Paystack stops delivering the event.
Reply(d) ==
    /\ delivery[d].at = "reply"
    /\ events' = events \ {delivery[d].event}
    /\ delivery' = [delivery EXCEPT ![d] = Idle]
    /\ UNCHANGED <<payments, generated, link, paystack, fees, request, faults>>

-----------------------------------------------------------------------------
(* A statement fails, the connection is lost or the server stops: a server *)
(* that stops is a fault of each of its requests.                          *)

LoseRequest(r) ==
    /\ request[r] # Idle
    /\ faults < MaxFaults
    /\ faults' = faults + 1
    /\ request' = [request EXCEPT ![r] = Idle]
    /\ UNCHANGED <<payments, generated, link, paystack, events, fees, delivery>>

LoseDelivery(d) ==
    /\ delivery[d] # Idle
    /\ faults < MaxFaults
    /\ faults' = faults + 1
    /\ delivery' = [delivery EXCEPT ![d] = Idle]
    /\ UNCHANGED <<payments, generated, link, paystack, events, fees, request>>

-----------------------------------------------------------------------------
Pay(r) ==
    \/ CreatePayment(r)
    \/ ResetPayment(r)
    \/ LinkPayment(r)
    \/ MakePayment(r)
    \/ Verify(r)
    \/ RenewReference(r)
    \/ RecordPaid(r)
    \/ SaveIntent(r)

Handle(d) ==
    \/ RecordCharge(d)
    \/ ReadApplication(d)
    \/ ApplyDueDiligent(d)
    \/ ApplyBrokerFee(d)
    \/ ApplyManagementFee(d)
    \/ CreateCondition(d)
    \/ AttachCondition(d)
    \/ ExitStages(d)
    \/ EnterStage(d)
    \/ Reply(d)

Next ==
    \/ \E r \in Requests :
         (\E k \in Kinds : Initiate(r, k)) \/ Pay(r) \/ LoseRequest(r)
    \/ \E n \in References :
         Charge(n) \/ Lapse(n) \/ \E d \in Deliveries : Receive(d, n)
    \/ \E d \in Deliveries : Handle(d) \/ LoseDelivery(d)

Spec == Init /\ [][Next]_vars

\* Requests run to their end, and Paystack keeps delivering what was not
\* answered. Nobody is obliged to pay.
FairSpec ==
    /\ Spec
    /\ \A r \in Requests : WF_vars(Pay(r))
    /\ \A d \in Deliveries : WF_vars(Handle(d))
    /\ \A n \in References : WF_vars(\E d \in Deliveries : Receive(d, n))

-----------------------------------------------------------------------------
(* Properties.                                                             *)

\* Every variable stays in its type.
TypeOK ==
    /\ payments \in [PaymentIds -> Payment \cup {Absent}]
    /\ generated \in 0 .. MaxReferences
    /\ link \in [MortgagePaymentType -> PaymentIds \cup {NoPayment}]
    /\ paystack \in [References -> Transaction \cup {Absent}]
    /\ events \subseteq References
    /\ dip \in [status : {"Payment Pending", "Documents Pending", "Completed"},
                paid : BOOLEAN]
    /\ decision \in [approved : BOOLEAN, broker : BOOLEAN, management : BOOLEAN]
    /\ conditions \in Nat
    /\ current \in 0 .. conditions
    /\ stages \in Stages
    /\ request \in [Requests -> RequestStates]
    /\ delivery \in [Deliveries -> DeliveryStates]
    /\ faults \in Nat

ChargedFor(p) == {n \in References : Charged(n) /\ paystack[n].payment = p}

Paid(k) == \E p \in Stored : payments[p].kind = k /\ ChargedFor(p) # {}

\* A payment is recorded as made only when Paystack charged a reference of
\* this very payment, whether the webhook or verify says so, and although the
\* reference changes while events and requests about the old one are in flight.
SuccessWasCharged ==
    \A p \in Stored : payments[p].status = "success" => ChargedFor(p) # {}

\* The DIP moves to its documents, the decision is approved and a condition
\* precedent exists only after the fee that each of them waits for was charged.
ProgressWasPaid ==
    /\ "Due Diligent" \in Kinds /\ dip.paid => Paid("Due Diligent")
    /\ decision.approved => Paid("Broker Fee")
    /\ conditions > 0 => Paid("Management Fee")

\* A home buyer who makes one request at a time never pays one payment twice,
\* nor two payments for the same fee: the link, the status and the reference
\* known to Paystack each catch what the others forget. The exception is a
\* management fee asked for before any broker fee: no look for its payment
\* (payments.ts:140). Two requests at once are charged twice; this run has one.
ChargedOnce ==
    \A m, n \in References :
        Charged(m) /\ Charged(n) /\ m # n =>
            LET p == paystack[m].payment
                q == paystack[n].payment
            IN  /\ p # q
                /\ payments[p].kind = payments[q].kind
                       => payments[p].kind = "Management Fee"

\* With one condition precedent, the application is at no stage only for a
\* while: the webhook stopped between its exit of the stages and its entry of
\* the next one, and the event that will be delivered again repairs it.
StageLossIsTemporary ==
    OpenStages(stages) = {} => conditions >= 2 \/ events # {}

Applied(k) ==
    CASE k = "Due Diligent"   -> dip.paid
      [] k = "Broker Fee"     -> decision.approved
      [] k = "Management Fee" -> /\ decision.management
                                 /\ current # 0
                                 /\ stages["ConditionPrecedent"] # "absent"

Due(n, k) ==
    /\ Charged(n)
    /\ \E p \in PaymentIds : Names(n, p) /\ payments[p].kind = k

\* A charge whose event still names its payment is applied in the end, although
\* any step of the webhook may fail after any of its statements.
ChargeIsApplied ==
    \A n \in References, k \in Kinds : <>[]Due(n, k) => <>Applied(k)

\* A payment that is recorded as made needs nothing more to happen: the answer
\* to another request for it is "you have already completed a payment [...] No
\* further action is required" (payments.ts:299).
NoFurtherAction ==
    \A p \in PaymentIds, k \in Kinds :
        (p \in Stored /\ payments[p].kind = k /\ payments[p].status = "success")
            ~> Applied(k)

=============================================================================
