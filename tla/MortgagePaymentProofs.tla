----------------------- MODULE MortgagePaymentProofs -----------------------
(***************************************************************************)
(* Proofs about MortgagePayment, for any payments, requests, deliveries    *)
(* and bounds. References are renewed while events and requests about the  *)
(* old ones are in flight; what keeps the books right is that a reference  *)
(* number, wherever it is kept, is of one payment for good (Numbered). An  *)
(* event then names the payment that was charged, or none.                 *)
(***************************************************************************)
EXTENDS MortgagePayment, TLAPS

\* Number n is one of payment p.
Of(owner, n, p) == n \in 1 .. generated /\ owner[n] = p

\* The numbers in the tables and at Paystack.
RowsNumbered(owner) ==
    /\ \A p \in Stored :
          Of(owner, payments[p].reference, p) /\ Of(owner, payments[p].metadata, p)
    /\ \A n \in References : paystack[n] # Absent =>
          /\ Of(owner, n, paystack[n].payment)
          /\ Of(owner, paystack[n].metadata, paystack[n].payment)

\* The numbers a request carries.
Carries(h, owner) ==
    /\ h.at \notin {"idle", "store"} => Of(owner, h.reference, h.payment)
    /\ h.at # "idle" /\ h.payment # NoPayment => Of(owner, h.metadata, h.payment)

Numbered(owner) ==
    RowsNumbered(owner) /\ \A r \in Requests : Carries(request[r], owner)

\* What a request has read or written.
Asks(h) ==
    h.at # "idle" =>
        /\ h.payment # NoPayment => h.payment \in Stored
        /\ h.at # "store" => h.payment # NoPayment
        /\ h.at \in {"store", "link", "make", "verify"} => h.trials >= 1
        /\ h.at = "paid" => Charged(h.reference)
        /\ h.at = "intent" => paystack[h.reference] # Absent

\* What a delivery has read or written.
Delivers(h) ==
    h.at # "idle" =>
        /\ h.payment \in Stored
        /\ Charged(h.event) /\ paystack[h.event].payment = h.payment
        /\ h.at = "condition" => payments[h.payment].kind = "Management Fee"
        /\ h.condition <= conditions

\* What is attached is a row, and what is delivered was charged.
Tables ==
    /\ \A k \in MortgagePaymentType : link[k] # NoPayment => link[k] \in Stored
    /\ \A n \in events : Charged(n)

IInv ==
    /\ TypeOK
    /\ \E owner \in [1 .. generated -> PaymentIds] : Numbered(owner)
    /\ \A r \in Requests : Asks(request[r])
    /\ \A d \in Deliveries : Delivers(delivery[d])
    /\ Tables
    /\ SuccessWasCharged
    /\ ProgressWasPaid

-----------------------------------------------------------------------------
(* The numbers and the records.                                            *)

LEMMA Counted ==
    ASSUME TypeOK
    PROVE  generated \in Nat /\ 1 .. generated \subseteq References
<1>1. generated \in 0 .. MaxReferences
  BY DEF TypeOK
<1> QED
  BY <1>1, BoundsAssumption DEF References

LEMMA CountedNext ==
    ASSUME TypeOK'
    PROVE  generated' \in Nat
<1>1. generated' \in 0 .. MaxReferences
  BY DEF TypeOK
<1> QED
  BY <1>1, BoundsAssumption

LEMMA StoredAre ==
    ASSUME TypeOK
    PROVE  \A p \in PaymentIds : p \in Stored <=> payments[p] \in Payment
<1>1. Absent \notin Payment
  BY DEF Absent, Payment
<1> QED
  BY <1>1 DEF TypeOK, Stored

LEMMA StoredRow ==
    ASSUME TypeOK, NEW p \in Stored
    PROVE  /\ p \in PaymentIds
           /\ payments[p].reference \in References
           /\ payments[p].metadata \in References
           /\ payments[p].kind \in Kinds
           /\ payments[p] \in Payment
<1>1. p \in PaymentIds /\ payments[p] \in Payment
  BY StoredAre DEF Stored
<1> QED
  BY <1>1 DEF Payment

LEMMA PaystackAre ==
    ASSUME TypeOK, NEW n \in References
    PROVE  /\ paystack[n] # Absent <=> paystack[n] \in Transaction
           /\ paystack[n].status # "absent" => paystack[n] \in Transaction
           /\ paystack[n] # Absent =>
                 paystack[n].payment \in PaymentIds /\ paystack[n].metadata \in References
<1>1. paystack[n] \in Transaction \cup {Absent}
  BY DEF TypeOK
<1>2. Absent.status = "absent"
  BY DEF Absent
<1>3. \A t \in Transaction : t.status # "absent"
  BY DEF Transaction
<1>4. paystack[n] \in Transaction =>
         paystack[n].payment \in PaymentIds /\ paystack[n].metadata \in References
  BY DEF Transaction
<1> QED
  BY <1>1, <1>2, <1>3, <1>4

LEMMA RequestIs ==
    ASSUME NEW h \in RequestStates
    PROVE  /\ h.at = "idle" <=> h = Idle
           /\ h.at # "idle" =>
                 /\ h.kind \in Kinds /\ h.payment \in PaymentIds \cup {NoPayment}
                 /\ h.reference \in Nat /\ h.metadata \in Nat /\ h.trials \in 0 .. Trials
BY DEF RequestStates, Idle

LEMMA DeliveryIs ==
    ASSUME NEW h \in DeliveryStates
    PROVE  /\ h.at = "idle" <=> h = Idle
           /\ h.at # "idle" =>
                 /\ h.event \in References /\ h.payment \in PaymentIds
                 /\ h.open \subseteq StageNames /\ h.condition \in Nat
BY DEF DeliveryStates, Idle

LEMMA IdleTyped == Idle \in RequestStates /\ Idle \in DeliveryStates
BY DEF RequestStates, DeliveryStates

LEMMA RequestGoes ==
    ASSUME NEW h \in RequestStates, h.at # "idle",
           NEW at \in {"store", "link", "make", "verify", "renew", "paid", "intent"}
    PROVE  LET g == [h EXCEPT !.at = at] IN
           /\ g \in RequestStates /\ g.at = at
           /\ g.payment = h.payment /\ g.reference = h.reference
           /\ g.metadata = h.metadata /\ g.trials = h.trials
<1>1. h \in [at : {"store", "link", "make", "verify", "renew", "paid", "intent"},
             kind : Kinds, payment : PaymentIds \cup {NoPayment},
             reference : Nat, metadata : Nat, trials : 0 .. Trials]
  BY DEF RequestStates, Idle
<1> QED
  BY <1>1 DEF RequestStates

LEMMA DeliveryGoes ==
    ASSUME NEW h \in DeliveryStates, h.at # "idle",
           NEW at \in {"read", "apply", "condition", "attach", "exit", "enter", "reply"}
    PROVE  LET g == [h EXCEPT !.at = at] IN
           /\ g \in DeliveryStates /\ g.at = at /\ g.condition = h.condition
           /\ g.payment = h.payment /\ g.event = h.event
<1>1. h \in [at : {"success", "read", "apply", "condition", "attach", "exit",
                   "enter", "reply"},
             event : References, payment : PaymentIds,
             open : SUBSET StageNames, condition : Nat]
  BY DEF DeliveryStates, Idle
<1> QED
  BY <1>1 DEF DeliveryStates

-----------------------------------------------------------------------------
(* What every step does: rows and charges are only added, and a row keeps  *)
(* its fee, a transaction its payment.                                     *)

Later ==
    /\ \A p \in Stored : p \in Stored' /\ payments'[p].kind = payments[p].kind
    /\ \A n \in References : paystack[n] # Absent =>
          /\ paystack'[n] # Absent
          /\ paystack'[n].payment = paystack[n].payment
          /\ Charged(n) => Charged(n)'
    /\ generated <= generated'
    /\ conditions <= conditions'

LEMMA StillPaid ==
    ASSUME TypeOK, Later
    PROVE  /\ \A p \in PaymentIds : ChargedFor(p) \subseteq ChargedFor(p)'
           /\ \A k \in MortgagePaymentType : Paid(k) => Paid(k)'
<1>1. \A p \in PaymentIds : ChargedFor(p) \subseteq ChargedFor(p)'
  BY PaystackAre DEF ChargedFor, Later, Charged
<1>2. \A k \in MortgagePaymentType : Paid(k) => Paid(k)'
  BY <1>1 DEF Paid, Later, Stored
<1> QED
  BY <1>1, <1>2

\* What a step leaves alone keeps its part of the invariant.
LEMMA Untouched ==
    ASSUME IInv, Later
    PROVE  /\ UNCHANGED link /\ events' \subseteq events => Tables'
           /\ UNCHANGED payments => SuccessWasCharged'
           /\ UNCHANGED <<dip, decision, conditions>> => ProgressWasPaid'
<1>1. UNCHANGED link /\ events' \subseteq events => Tables'
  <2> SUFFICES ASSUME UNCHANGED link, events' \subseteq events PROVE Tables'
    OBVIOUS
  <2>1. \A n \in events' : n \in References /\ Charged(n) /\ paystack[n] # Absent
    BY PaystackAre DEF IInv, Tables, TypeOK, Charged, Absent
  <2> QED
    BY <2>1 DEF IInv, Tables, Later
<1>2. UNCHANGED payments => SuccessWasCharged'
  BY StillPaid DEF IInv, SuccessWasCharged, Stored
<1>3. UNCHANGED <<dip, decision, conditions>> => ProgressWasPaid'
  BY StillPaid DEF IInv, ProgressWasPaid, MortgagePaymentType
<1> QED
  BY <1>1, <1>2, <1>3

\* A request that goes on while another, or none, takes its step.
LEMMA RequestKept ==
    ASSUME IInv, Later, NEW q \in Requests, request'[q] = request[q],
           NEW owner \in [1 .. generated -> PaymentIds], Numbered(owner),
           NEW owner2, \A n \in 1 .. generated : owner2[n] = owner[n],
           generated' \in Nat
    PROVE  Asks(request[q])' /\ Carries(request[q], owner2)'
<1>1. request[q] \in RequestStates /\ generated \in Nat
  BY Counted DEF IInv, TypeOK
<1>2. request[q].at # "idle" =>
         /\ request[q].payment # NoPayment => request[q].payment \in Stored'
         /\ request[q].at # "store" => request[q].payment # NoPayment
         /\ request[q].at \in {"store", "link", "make", "verify"} => request[q].trials >= 1
  BY DEF IInv, Asks, Later
<1>3. request[q].at \notin {"idle", "store"} => request[q].reference \in References
  BY Counted DEF Numbered, Carries, Of, IInv
<1>4. request[q].at = "intent" => paystack'[request[q].reference] # Absent
  BY <1>3 DEF IInv, Asks, Later
<1>5. request[q].at = "paid" => paystack'[request[q].reference].status = "success"
  <2> SUFFICES ASSUME request[q].at = "paid"
               PROVE  paystack'[request[q].reference].status = "success"
    OBVIOUS
  <2>1. Charged(request[q].reference)
    BY DEF IInv, Asks
  <2>2. paystack[request[q].reference] # Absent
    BY <2>1 DEF Charged, Absent
  <2> QED
    BY <1>3, <2>1, <2>2 DEF Later, Charged
<1>6. Carries(request[q], owner)
  BY DEF Numbered
<1>7. Carries(request[q], owner2)'
  BY <1>1, <1>6 DEF Carries, Of, Later
<1>8. Asks(request[q])'
  BY <1>2, <1>4, <1>5 DEF Asks, Charged
<1> QED
  BY <1>7, <1>8

\* So a step of request r is judged by what it leaves of r.
LEMMA RequestsStep ==
    ASSUME IInv, TypeOK', Later, NEW r \in Requests,
           \A q \in Requests \ {r} : request'[q] = request[q],
           NEW owner \in [1 .. generated -> PaymentIds], Numbered(owner),
           NEW owner2 \in [1 .. generated' -> PaymentIds],
           \A n \in 1 .. generated : owner2[n] = owner[n],
           RowsNumbered(owner2)',
           Asks(request[r])', Carries(request[r], owner2)'
    PROVE  /\ (\E o \in [1 .. generated -> PaymentIds] : Numbered(o))'
           /\ (\A q \in Requests : Asks(request[q]))'
<1>1. generated' \in Nat
  BY CountedNext
<1>2. \A q \in Requests : Asks(request[q])' /\ Carries(request[q], owner2)'
  BY <1>1, RequestKept
<1>3. Numbered(owner2)'
  BY <1>2 DEF Numbered
<1> QED
  BY <1>2, <1>3

\* A step that is no request's.
LEMMA RequestsKept ==
    ASSUME IInv, TypeOK', Later, UNCHANGED <<request, generated>>,
           \A owner \in [1 .. generated -> PaymentIds] :
              RowsNumbered(owner) => RowsNumbered(owner)'
    PROVE  /\ (\E o \in [1 .. generated -> PaymentIds] : Numbered(o))'
           /\ (\A q \in Requests : Asks(request[q]))'
<1>1. PICK owner \in [1 .. generated -> PaymentIds] : Numbered(owner)
  BY DEF IInv
<1>2. generated' \in Nat
  BY CountedNext
<1>3. \A q \in Requests : Asks(request[q])' /\ Carries(request[q], owner)'
  BY <1>1, <1>2, RequestKept
<1>4. RowsNumbered(owner)'
  BY <1>1 DEF Numbered
<1>5. Numbered(owner)'
  BY <1>3, <1>4 DEF Numbered
<1> QED
  BY <1>3, <1>5

LEMMA DeliveryKept ==
    ASSUME IInv, Later, TypeOK', NEW d \in Deliveries, delivery'[d] = delivery[d]
    PROVE  Delivers(delivery[d])'
<1> SUFFICES ASSUME delivery[d].at # "idle"
             PROVE  /\ delivery[d].payment \in Stored'
                    /\ paystack'[delivery[d].event].status = "success"
                    /\ paystack'[delivery[d].event].payment = delivery[d].payment
                    /\ delivery[d].at = "condition" =>
                          payments'[delivery[d].payment].kind = "Management Fee"
                    /\ delivery[d].condition <= conditions'
  BY DEF Delivers, Charged
<1>1. Delivers(delivery[d]) /\ delivery[d] \in DeliveryStates
  BY DEF IInv, TypeOK
<1>2. delivery[d].event \in References /\ delivery[d].condition \in Nat
  BY <1>1, DeliveryIs
<1>3. /\ delivery[d].payment \in Stored
      /\ Charged(delivery[d].event)
      /\ paystack[delivery[d].event].payment = delivery[d].payment
      /\ delivery[d].at = "condition" =>
            payments[delivery[d].payment].kind = "Management Fee"
      /\ delivery[d].condition <= conditions
  BY <1>1 DEF Delivers
<1>4. paystack[delivery[d].event] # Absent
  BY <1>2, <1>3, PaystackAre DEF IInv, Charged, Absent
<1>5. conditions \in Nat /\ conditions' \in Nat
  BY DEF IInv, TypeOK
<1>6. /\ paystack'[delivery[d].event].status = "success"
      /\ paystack'[delivery[d].event].payment = delivery[d].payment
  BY <1>2, <1>3, <1>4 DEF Later, Charged
<1>7. conditions <= conditions'
  BY DEF Later
<1>8. delivery[d].condition <= conditions'
  <2>1. delivery[d].condition \in Nat /\ delivery[d].condition <= conditions
    BY <1>2, <1>3
  <2> QED
    BY <1>5, <1>7, <2>1
<1> QED
  BY <1>3, <1>6, <1>8 DEF Later

\* So a step of delivery d is judged by what it leaves of d.
LEMMA DeliveriesStep ==
    ASSUME IInv, TypeOK', Later, NEW d \in Deliveries,
           \A e \in Deliveries \ {d} : delivery'[e] = delivery[e],
           Delivers(delivery[d])'
    PROVE  (\A e \in Deliveries : Delivers(delivery[e]))'
BY DeliveryKept

LEMMA DeliveriesKept ==
    ASSUME IInv, TypeOK', Later, UNCHANGED delivery
    PROVE  (\A e \in Deliveries : Delivers(delivery[e]))'
BY DeliveryKept

\* A statement of a request is judged by the rows and by what it leaves of
\* the request.
LEMMA RequestActs ==
    ASSUME IInv, TypeOK', Later, NEW r \in Requests,
           \A q \in Requests \ {r} : request'[q] = request[q],
           NEW owner \in [1 .. generated -> PaymentIds], Numbered(owner),
           NEW owner2 \in [1 .. generated' -> PaymentIds],
           \A n \in 1 .. generated : owner2[n] = owner[n],
           RowsNumbered(owner2)',
           Asks(request[r])', Carries(request[r], owner2)',
           UNCHANGED <<events, fees, delivery>>,
           UNCHANGED link \/ Tables', UNCHANGED payments \/ SuccessWasCharged'
    PROVE  IInv'
<1>1. /\ (\E o \in [1 .. generated -> PaymentIds] : Numbered(o))'
      /\ (\A q \in Requests : Asks(request[q]))'
  BY RequestsStep
<1>2. (\A d \in Deliveries : Delivers(delivery[d]))'
  BY DeliveriesKept
<1>3. Tables' /\ SuccessWasCharged' /\ ProgressWasPaid'
  BY Untouched DEF fees, application
<1> QED
  BY <1>1, <1>2, <1>3 DEF IInv

-----------------------------------------------------------------------------
(* What the statements do to the rows.                                     *)

LEMMA FeesOfKinds == Kinds \subseteq MortgagePaymentType
BY KindsAssumption DEF MortgagePaymentType

LEMMA SameRows ==
    ASSUME IInv, UNCHANGED <<payments, paystack, generated>>
    PROVE  /\ conditions' \in {conditions, conditions + 1} => Later
           /\ \A owner \in [1 .. generated -> PaymentIds] :
                 RowsNumbered(owner) => RowsNumbered(owner)'
<1>1. generated \in Nat /\ conditions \in Nat
  BY Counted DEF IInv, TypeOK
<1>2. conditions' \in {conditions, conditions + 1} => Later
  BY <1>1 DEF Later, Stored, Charged
<1>3. \A owner \in [1 .. generated -> PaymentIds] :
         RowsNumbered(owner) => RowsNumbered(owner)'
  BY DEF Stored, RowsNumbered, Of
<1> QED
  BY <1>2, <1>3

\* A row is written, with the fee it had if it was there.
LEMMA RowWritten ==
    ASSUME IInv, NEW p \in PaymentIds, NEW e \in Payment,
           p \in Stored => e.kind = payments[p].kind,
           payments' = [payments EXCEPT ![p] = e],
           UNCHANGED conditions, generated' \in Nat, generated <= generated'
    PROVE  /\ payments' \in [PaymentIds -> Payment \cup {Absent}]
           /\ Stored' = Stored \cup {p}
           /\ payments'[p] = e
           /\ \A q \in PaymentIds \ {p} : payments'[q] = payments[q]
           /\ UNCHANGED paystack => Later
<1>1. TypeOK
  BY DEF IInv
<1>2. e # Absent
  BY DEF Payment, Absent
<1>3. /\ payments' \in [PaymentIds -> Payment \cup {Absent}]
      /\ payments'[p] = e
      /\ \A q \in PaymentIds \ {p} : payments'[q] = payments[q]
  BY <1>1 DEF TypeOK
<1>4. Stored' = Stored \cup {p}
  BY <1>2, <1>3 DEF Stored
<1>5. conditions \in Nat
  BY <1>1 DEF TypeOK
<1>6. UNCHANGED paystack => Later
  BY <1>3, <1>4, <1>5 DEF Later, Stored, Charged
<1> QED
  BY <1>3, <1>4, <1>6

\* The status of a transaction, which once paid is never written.
LEMMA StatusWritten ==
    ASSUME IInv, NEW n \in References,
           NEW s \in {"ongoing", "abandoned", "failed", "success"},
           paystack[n] # Absent, Charged(n) => s = "success",
           paystack' = [paystack EXCEPT ![n].status = s],
           UNCHANGED <<payments, conditions, generated>>
    PROVE  /\ paystack' \in [References -> Transaction \cup {Absent}]
           /\ paystack'[n].status = s
           /\ \A m \in References \ {n} : paystack'[m] = paystack[m]
           /\ Later
           /\ \A owner \in [1 .. generated -> PaymentIds] :
                 RowsNumbered(owner) => RowsNumbered(owner)'
<1>1. paystack[n] \in Transaction
  BY PaystackAre DEF IInv
<1> DEFINE t == [paystack[n] EXCEPT !.status = s]
<1>2. t \in Transaction /\ t.status = s /\ t.payment = paystack[n].payment
      /\ t.metadata = paystack[n].metadata
  BY <1>1 DEF Transaction
<1>3. t # Absent
  BY <1>2 DEF Absent
<1>4. paystack \in [References -> Transaction \cup {Absent}]
  BY DEF IInv, TypeOK
<1>5. paystack'[n] = t /\ \A m \in References \ {n} : paystack'[m] = paystack[m]
  BY <1>4
<1>6. paystack' \in [References -> Transaction \cup {Absent}]
  BY <1>2, <1>4
<1> HIDE DEF t
<1>7. conditions \in Nat /\ generated \in Nat
  BY Counted DEF IInv, TypeOK
<1>8. Later
  BY <1>2, <1>3, <1>5, <1>7 DEF Later, Charged, Stored
<1>9. \A owner \in [1 .. generated -> PaymentIds] :
         RowsNumbered(owner) => RowsNumbered(owner)'
  BY <1>2, <1>3, <1>5 DEF RowsNumbered, Of, Stored
<1> QED
  BY <1>2, <1>5, <1>6, <1>8, <1>9

-----------------------------------------------------------------------------
(* The statements of a request.                                            *)

LEMMA InitiateKeeps ==
    ASSUME IInv, NEW r \in Requests, NEW k \in Kinds, Initiate(r, k)
    PROVE  IInv' /\ Later
<1> DEFINE p == Known(k)
           h == [at |-> "store", kind |-> k, payment |-> p, reference |-> 0,
                 metadata |-> IF p = NoPayment THEN 0 ELSE payments[p].metadata,
                 trials |-> Trials]
<1>1. TypeOK /\ k \in MortgagePaymentType
  BY FeesOfKinds DEF IInv
<1>2. p \in PaymentIds \cup {NoPayment} /\ (p # NoPayment => p \in Stored)
  BY <1>1 DEF Known, TypeOK, IInv, Tables
<1>3. p # NoPayment => payments[p].metadata \in Nat
  BY <1>1, <1>2, StoredRow DEF References
<1>4. h \in RequestStates
  BY <1>2, <1>3 DEF RequestStates, Trials
<1>5. request' = [request EXCEPT ![r] = h]
      /\ UNCHANGED <<payments, generated, link, paystack, events, fees, delivery, faults>>
  BY DEF Initiate
<1>6. /\ h.at = "store" /\ h.payment = p /\ h.trials = 3
      /\ p # NoPayment => h.metadata = payments[p].metadata
  BY DEF Trials
<1> HIDE DEF p, h
<1>7. request'[r] = h /\ \A q \in Requests \ {r} : request'[q] = request[q]
  BY <1>1, <1>5 DEF TypeOK
<1>8. TypeOK'
  BY <1>1, <1>4, <1>5 DEF TypeOK, fees, application
<1>9. Later /\ \A owner \in [1 .. generated -> PaymentIds] :
                  RowsNumbered(owner) => RowsNumbered(owner)'
  BY <1>5, SameRows DEF fees, application
<1>10. PICK owner \in [1 .. generated -> PaymentIds] : Numbered(owner)
  BY DEF IInv
<1>11. Asks(request[r])'
  BY <1>2, <1>5, <1>6, <1>7 DEF Asks, Stored
<1>12. Carries(request[r], owner)'
  BY <1>2, <1>5, <1>6, <1>7, <1>10 DEF Carries, Numbered, RowsNumbered, Of
<1> QED
  BY <1>5, <1>7, <1>8, <1>9, <1>10, <1>11, <1>12, RequestActs DEF Numbered

\* A request is at a statement: what it carries.
LEMMA AtStatement ==
    ASSUME IInv, NEW r \in Requests, request[r].at # "idle"
    PROVE  /\ request[r] \in RequestStates
           /\ request[r].kind \in Kinds
           /\ request[r].trials \in 0 .. Trials
           /\ request[r].payment # NoPayment => request[r].payment \in Stored
           /\ request[r].at # "store" =>
                 request[r].payment \in Stored /\ request[r].reference \in References
<1>1. request[r] \in RequestStates /\ Asks(request[r])
  BY DEF IInv, TypeOK
<1>2. PICK owner \in [1 .. generated -> PaymentIds] : Numbered(owner)
  BY DEF IInv
<1>3. request[r].at # "store" => request[r].reference \in 1 .. generated
  BY <1>2 DEF Numbered, Carries, Of
<1>4. request[r].at # "store" => request[r].reference \in References
  BY <1>3, Counted DEF IInv
<1> QED
  BY <1>1, <1>4, RequestIs DEF Asks

\* A statement that writes no row of payments and nothing at Paystack.
LEMMA RequestGoesOn ==
    ASSUME IInv, NEW r \in Requests, NEW h \in RequestStates,
           request' = [request EXCEPT ![r] = h],
           UNCHANGED <<payments, generated, paystack, events, fees, delivery>>,
           faults' \in Nat,
           \/ UNCHANGED link
           \/ \E k \in MortgagePaymentType, p \in Stored : link' = [link EXCEPT ![k] = p],
           Asks(h),
           \A owner : Carries(request[r], owner) => Carries(h, owner)
    PROVE  IInv' /\ Later
<1>1. TypeOK
  BY DEF IInv
<1>2. request'[r] = h /\ \A q \in Requests \ {r} : request'[q] = request[q]
  BY <1>1 DEF TypeOK
<1>3. Stored \subseteq PaymentIds /\ Stored' = Stored
  BY DEF Stored
<1>4. link' \in [MortgagePaymentType -> PaymentIds \cup {NoPayment}]
  BY <1>1, <1>3 DEF TypeOK
<1>5. TypeOK'
  BY <1>1, <1>4 DEF TypeOK, fees, application
<1>6. Tables'
  BY <1>1, <1>3, Untouched DEF IInv, Tables, TypeOK, Charged
<1>7. Later /\ \A owner \in [1 .. generated -> PaymentIds] :
                  RowsNumbered(owner) => RowsNumbered(owner)'
  BY SameRows DEF fees, application
<1>8. PICK owner \in [1 .. generated -> PaymentIds] : Numbered(owner)
  BY DEF IInv
<1>9. Carries(request[r], owner)'
  BY <1>2, <1>8 DEF Carries, Numbered, Of
<1>10. Asks(request[r])'
  BY <1>2 DEF Asks, Charged, Stored
<1> QED
  BY <1>2, <1>5, <1>6, <1>7, <1>8, <1>9, <1>10, RequestActs DEF Numbered

LEMMA LinkPaymentKeeps ==
    ASSUME IInv, NEW r \in Requests, LinkPayment(r)
    PROVE  IInv' /\ Later
<1> DEFINE h == [request[r] EXCEPT !.at = "make"]
<1>1. /\ h \in RequestStates /\ h.at = "make" /\ h.payment = request[r].payment
      /\ h.reference = request[r].reference /\ h.metadata = request[r].metadata
      /\ h.trials = request[r].trials
  BY AtStatement, RequestGoes DEF LinkPayment
<1>2. request' = [request EXCEPT ![r] = h]
  BY DEF LinkPayment
<1>3. request[r].payment \in Stored /\ request[r].trials >= 1
      /\ request[r].kind \in MortgagePaymentType
  BY AtStatement, FeesOfKinds DEF LinkPayment, IInv, Asks
<1>4. link' = [link EXCEPT ![request[r].kind] = request[r].payment]
      /\ UNCHANGED <<payments, generated, paystack, events, fees, delivery, faults>>
      /\ request[r].at = "link"
  BY DEF LinkPayment
<1> HIDE DEF h
<1>5. Asks(h)
  BY <1>1, <1>3, <1>4, IdsAssumption DEF Asks, Stored
<1>6. \A owner : Carries(request[r], owner) => Carries(h, owner)
  BY <1>1, <1>4 DEF Carries
<1>7. faults' \in Nat
  BY <1>4 DEF IInv, TypeOK
<1> QED
  BY <1>1, <1>2, <1>3, <1>4, <1>5, <1>6, <1>7, RequestGoesOn

LEMMA VerifyKeeps ==
    ASSUME IInv, NEW r \in Requests, Verify(r)
    PROVE  IInv' /\ Later
<1> DEFINE status == paystack[request[r].reference].status
<1>1. /\ request[r].at = "verify"
      /\ UNCHANGED <<payments, generated, link, paystack, events, fees, delivery, faults>>
  BY DEF Verify
<1>2. /\ request[r] \in RequestStates /\ request[r].payment \in Stored
      /\ request[r].trials \in 1 .. Trials
  BY <1>1, AtStatement DEF IInv, Asks
<1>3. faults' \in Nat
  BY <1>1 DEF IInv, TypeOK
<1>4. CASE status = "abandoned"
  <2> DEFINE h == [request[r] EXCEPT !.at = "renew",
                                  !.trials = request[r].trials - 1]
  <2>1. request' = [request EXCEPT ![r] = h]
    BY <1>4 DEF Verify
  <2>2. request[r] \in [at : {"store", "link", "make", "verify", "renew", "paid", "intent"},
             kind : Kinds, payment : PaymentIds \cup {NoPayment},
             reference : Nat, metadata : Nat, trials : 0 .. Trials]
    BY <1>1, <1>2 DEF RequestStates, Idle
  <2>3. request[r].trials - 1 \in 0 .. Trials
    BY <1>2 DEF Trials
  <2>4. h \in RequestStates
    BY <2>2, <2>3 DEF RequestStates
  <2>5. h.at = "renew" /\ h.payment = request[r].payment
        /\ h.reference = request[r].reference /\ h.metadata = request[r].metadata
    BY <2>2
  <2> HIDE DEF h
  <2>6. Asks(h)
    BY <1>2, <2>5, IdsAssumption DEF Asks, Stored
  <2>7. \A owner : Carries(request[r], owner) => Carries(h, owner)
    BY <1>1, <2>5 DEF Carries
  <2> QED
    BY <1>1, <1>3, <2>1, <2>4, <2>6, <2>7, RequestGoesOn
<1>5. CASE status = "success"
  <2> DEFINE h == [request[r] EXCEPT !.at = "paid"]
  <2>1. request' = [request EXCEPT ![r] = h]
    BY <1>5 DEF Verify
  <2>2. /\ h \in RequestStates /\ h.at = "paid" /\ h.payment = request[r].payment
        /\ h.reference = request[r].reference /\ h.metadata = request[r].metadata
    BY <1>1, <1>2, RequestGoes
  <2>3. Charged(request[r].reference)
    BY <1>5 DEF Charged
  <2> HIDE DEF h
  <2>4. Asks(h)
    BY <1>2, <2>2, <2>3, IdsAssumption DEF Asks, Stored
  <2>5. \A owner : Carries(request[r], owner) => Carries(h, owner)
    BY <1>1, <2>2 DEF Carries
  <2> QED
    BY <1>1, <1>3, <2>1, <2>2, <2>4, <2>5, RequestGoesOn
<1>6. CASE status \notin {"abandoned", "success"}
  <2>1. request' = [request EXCEPT ![r] = Idle]
    BY <1>6 DEF Verify
  <2>2. Idle \in RequestStates /\ Asks(Idle) /\ \A owner : Carries(Idle, owner)
    BY IdleTyped DEF Asks, Carries, Idle
  <2> QED
    BY <1>1, <1>3, <2>1, <2>2, RequestGoesOn
<1> QED
  BY <1>4, <1>5, <1>6

LEMMA LoseRequestKeeps ==
    ASSUME IInv, NEW r \in Requests, LoseRequest(r)
    PROVE  IInv' /\ Later
<1>1. Idle \in RequestStates /\ Asks(Idle) /\ \A owner : Carries(Idle, owner)
  BY IdleTyped DEF Asks, Carries, Idle
<1>2. faults' \in Nat
  <2>1. faults \in Nat /\ faults' = faults + 1
    BY DEF LoseRequest, IInv, TypeOK
  <2> QED
    BY <2>1
<1> QED
  BY <1>1, <1>2, RequestGoesOn DEF LoseRequest

LEMMA MakePaymentKeeps ==
    ASSUME IInv, NEW r \in Requests, MakePayment(r)
    PROVE  IInv' /\ Later
<1> DEFINE n == request[r].reference
           t == [status |-> "created", payment |-> request[r].payment,
                 metadata |-> request[r].metadata]
<1>1. /\ request[r] \in RequestStates /\ request[r].payment \in Stored
      /\ n \in References /\ request[r].trials >= 1 /\ request[r].at = "make"
  BY AtStatement DEF MakePayment, IInv, Asks
<1>2. CASE paystack[n] = Absent
  <2> DEFINE h == [request[r] EXCEPT !.at = "intent"]
  <2>1. /\ h \in RequestStates /\ h.at = "intent" /\ h.payment = request[r].payment
        /\ h.reference = request[r].reference /\ h.metadata = request[r].metadata
    BY <1>1, RequestGoes
  <2>2. /\ request' = [request EXCEPT ![r] = h]
        /\ paystack' = [paystack EXCEPT ![n] = t]
        /\ UNCHANGED <<payments, generated, link, events, fees, delivery, faults>>
    BY <1>2 DEF MakePayment
  <2> HIDE DEF h
  <2>3. PICK owner \in [1 .. generated -> PaymentIds] : Numbered(owner)
    BY DEF IInv
  <2>4. Of(owner, n, request[r].payment) /\ Of(owner, request[r].metadata, request[r].payment)
    BY <1>1, <2>3, IdsAssumption DEF Numbered, Carries, Stored
  <2>5. request[r].metadata \in References /\ request[r].payment \in PaymentIds
    BY <1>1, <2>4, Counted DEF Of, IInv, Stored
  <2>6. t \in Transaction /\ t # Absent
    BY <2>5 DEF Transaction, Absent
  <2>7. /\ t.payment = request[r].payment /\ t.metadata = request[r].metadata
    OBVIOUS
  <2> HIDE DEF t
  <2>8. /\ paystack'[n] = t /\ \A m \in References \ {n} : paystack'[m] = paystack[m]
        /\ paystack' \in [References -> Transaction \cup {Absent}]
    BY <1>1, <2>2, <2>6 DEF IInv, TypeOK
  <2>9. request'[r] = h /\ \A q \in Requests \ {r} : request'[q] = request[q]
    BY <2>2 DEF IInv, TypeOK
  <2>10. TypeOK'
    BY <2>1, <2>2, <2>8 DEF IInv, TypeOK, fees, application
  <2>11. conditions \in Nat /\ generated \in Nat /\ UNCHANGED conditions
    BY <2>2, Counted DEF IInv, TypeOK, fees, application
  <2>12. Later
    BY <1>2, <2>2, <2>8, <2>11 DEF Later, Charged, Stored, Absent
  <2>13. RowsNumbered(owner)'
    BY <2>2, <2>3, <2>4, <2>7, <2>8 DEF RowsNumbered, Numbered, Of, Stored
  <2>14. Asks(request[r])'
    BY <1>1, <2>1, <2>2, <2>6, <2>8, <2>9, IdsAssumption DEF Asks, Stored
  <2>15. Carries(request[r], owner)'
    BY <2>1, <2>2, <2>4, <2>9 DEF Carries, Of
  <2> QED
    BY <2>2, <2>3, <2>9, <2>10, <2>12, <2>13, <2>14, <2>15, RequestActs
<1>3. CASE paystack[n] # Absent
  <2> DEFINE h == [request[r] EXCEPT !.at = "verify"]
  <2>1. /\ h \in RequestStates /\ h.at = "verify" /\ h.payment = request[r].payment
        /\ h.reference = request[r].reference /\ h.metadata = request[r].metadata
        /\ h.trials = request[r].trials
    BY <1>1, RequestGoes
  <2>2. /\ request' = [request EXCEPT ![r] = h]
        /\ UNCHANGED <<payments, generated, link, paystack, events, fees, delivery, faults>>
    BY <1>3 DEF MakePayment
  <2> HIDE DEF h
  <2>3. Asks(h)
    BY <1>1, <2>1, <2>2, IdsAssumption DEF Asks, Stored
  <2>4. \A owner : Carries(request[r], owner) => Carries(h, owner)
    BY <1>1, <2>1 DEF Carries
  <2>5. faults' \in Nat
    BY <2>2 DEF IInv, TypeOK
  <2> QED
    BY <2>1, <2>2, <2>3, <2>4, <2>5, RequestGoesOn
<1> QED
  BY <1>2, <1>3

\* A row that was written as made needs a charge.
LEMMA SuccessKept ==
    ASSUME IInv, Later, NEW p \in PaymentIds, Stored' \subseteq Stored \cup {p},
           \A q \in PaymentIds \ {p} : payments'[q] = payments[q],
           payments'[p].status = "success" => ChargedFor(p) # {}
    PROVE  SuccessWasCharged'
<1> SUFFICES ASSUME NEW q \in Stored', payments'[q].status = "success"
             PROVE  ChargedFor(q)' # {}
  BY DEF SuccessWasCharged
<1>1. q \in PaymentIds /\ q \in Stored \cup {p}
  BY DEF Stored
<1>2. ChargedFor(q) # {}
  BY <1>1 DEF IInv, SuccessWasCharged
<1> QED
  BY <1>1, <1>2, StillPaid DEF IInv

\* A request writes a row, and carries its numbers if it goes on.
Writes(r, p, e, h) ==
    /\ p \in Stored => e.kind = payments[p].kind
    /\ payments' = [payments EXCEPT ![p] = e]
    /\ request' = [request EXCEPT ![r] = h]
    /\ UNCHANGED <<link, events, fees, delivery, faults>>
    /\ generated' \in 0 .. MaxReferences
    /\ paystack' \in [References -> Transaction \cup {Absent}]
    /\ \A n \in References : paystack'[n] # Absent =>
          /\ paystack[n] # Absent
          /\ paystack'[n].payment = paystack[n].payment
          /\ paystack'[n].metadata = paystack[n].metadata
    /\ e.status = "success" => ChargedFor(p) # {}
    /\ h.at # "idle" =>
          /\ h.at \in {"link", "make"} /\ h.trials >= 1
          /\ h.payment = p /\ h.reference = e.reference /\ h.metadata = e.metadata

\* Its numbers are of that payment; those there were keep theirs.
Extends(owner2, owner, p, e) ==
    /\ owner2 \in [1 .. generated' -> PaymentIds]
    /\ \A n \in 1 .. generated : owner2[n] = owner[n]
    /\ e.reference \in 1 .. generated' /\ owner2[e.reference] = p
    /\ e.metadata \in 1 .. generated' /\ owner2[e.metadata] = p

LEMMA RequestWrites ==
    ASSUME IInv, Later, NEW r \in Requests, NEW h \in RequestStates,
           NEW p \in PaymentIds, NEW e \in Payment, Writes(r, p, e, h),
           NEW owner \in [1 .. generated -> PaymentIds], Numbered(owner),
           NEW owner2, Extends(owner2, owner, p, e)
    PROVE  IInv'
<1> USE DEF Writes, Extends
<1>1. generated \in Nat /\ generated' \in Nat /\ generated <= generated'
  BY Counted, BoundsAssumption DEF IInv, Later
<1>2. /\ payments' \in [PaymentIds -> Payment \cup {Absent}]
      /\ Stored' = Stored \cup {p} /\ payments'[p] = e
      /\ \A q \in PaymentIds \ {p} : payments'[q] = payments[q]
  BY <1>1, RowWritten DEF fees, application
<1>3. request'[r] = h /\ \A q \in Requests \ {r} : request'[q] = request[q]
  BY DEF IInv, TypeOK
<1>4. TypeOK'
  BY <1>2 DEF IInv, TypeOK, fees, application
<1>5. RowsNumbered(owner2)'
  <2>1. \A q \in Stored' : /\ Of(owner2, payments[q].reference, q)'
                           /\ Of(owner2, payments[q].metadata, q)'
    BY <1>1, <1>2 DEF Numbered, RowsNumbered, Stored, Of
  <2>2. \A n \in References : paystack'[n] # Absent =>
           /\ Of(owner2, n, paystack[n].payment)'
           /\ Of(owner2, paystack[n].metadata, paystack[n].payment)'
    BY <1>1 DEF Numbered, RowsNumbered, Of
  <2> QED
    BY <2>1, <2>2 DEF RowsNumbered
<1>6. SuccessWasCharged'
  BY <1>2, SuccessKept
<1>7. Asks(request[r])'
  BY <1>2, <1>3, IdsAssumption DEF Asks
<1>8. Carries(request[r], owner2)'
  BY <1>3 DEF Carries, Of
<1> QED
  BY <1>3, <1>4, <1>5, <1>6, <1>7, <1>8, RequestActs

LEMMA RowTyped ==
    ASSUME IInv, NEW r \in Requests, request[r].at # "idle",
           NEW at \in {"link", "make"}, NEW p \in PaymentIds, payments'[p] \in Payment
    PROVE  LET h == Row(r, at, p) IN
           /\ h \in RequestStates /\ h.at = at /\ h.payment = p
           /\ h.reference = payments'[p].reference
           /\ h.metadata = payments'[p].metadata /\ h.trials = request[r].trials
<1>1. request[r] \in [at : {"store", "link", "make", "verify", "renew", "paid", "intent"},
         kind : Kinds, payment : PaymentIds \cup {NoPayment},
         reference : Nat, metadata : Nat, trials : 0 .. Trials]
  BY AtStatement DEF RequestStates, Idle
<1>2. payments'[p].reference \in Nat /\ payments'[p].metadata \in Nat
  BY DEF Payment, References
<1> QED
  BY <1>1, <1>2 DEF Row, RequestStates

LEMMA CreatePaymentKeeps ==
    ASSUME IInv, NEW r \in Requests, CreatePayment(r)
    PROVE  IInv' /\ Later
<1>1. PICK p \in PaymentIds \ Stored :
         /\ payments' = [payments EXCEPT
                ![p] = [status |-> "pending", kind |-> request[r].kind,
                        reference |-> generated + 1, metadata |-> generated + 1]]
         /\ request' = [request EXCEPT ![r] = Row(r, "link", p)]
  BY DEF CreatePayment
<1> DEFINE e == [status |-> "pending", kind |-> request[r].kind,
                 reference |-> generated + 1, metadata |-> generated + 1]
           h == Row(r, "link", p)
<1>2. /\ request[r].at = "store" /\ generated < MaxReferences /\ generated' = generated + 1
      /\ UNCHANGED <<link, paystack, events, fees, delivery, faults>>
  BY DEF CreatePayment
<1>3. /\ generated \in Nat /\ generated' \in 1 .. MaxReferences /\ generated <= generated'
      /\ generated + 1 \in References /\ generated' \in Nat
  BY <1>2, Counted, BoundsAssumption DEF IInv, References
<1>4. request[r].kind \in Kinds /\ request[r].trials >= 1
  BY <1>2, AtStatement DEF IInv, Asks
<1>5. /\ e \in Payment /\ e.status = "pending"
      /\ e.reference = generated' /\ e.metadata = generated'
  BY <1>2, <1>3, <1>4 DEF Payment
<1> HIDE DEF e
<1>6. payments'[p] = e /\ UNCHANGED conditions
  BY <1>1, <1>2 DEF e, IInv, TypeOK, fees, application
<1>7. h \in RequestStates /\ h.at = "link" /\ h.trials >= 1 /\ h.payment = p
      /\ h.reference = e.reference /\ h.metadata = e.metadata
  BY <1>2, <1>4, <1>5, <1>6, RowTyped
<1>8. payments' = [payments EXCEPT ![p] = e] /\ request' = [request EXCEPT ![r] = h]
  BY <1>1 DEF e
<1> HIDE DEF h
<1>9. Later
  BY <1>2, <1>3, <1>5, <1>6, <1>8, RowWritten
<1>10. PICK owner \in [1 .. generated -> PaymentIds] : Numbered(owner)
  BY DEF IInv
<1> DEFINE owner2 == [m \in 1 .. generated' |-> IF m \in 1 .. generated THEN owner[m] ELSE p]
<1>11. Extends(owner2, owner, p, e)
  BY <1>1, <1>2, <1>3, <1>5 DEF Extends
<1> HIDE DEF owner2
<1>12. paystack' \in [References -> Transaction \cup {Absent}]
  BY <1>2 DEF IInv, TypeOK
<1>13. generated' \in 0 .. MaxReferences
  BY <1>3
<1>14. Writes(r, p, e, h)
  BY <1>2, <1>5, <1>7, <1>8, <1>12, <1>13 DEF Writes
<1>15. p \in PaymentIds /\ e \in Payment /\ h \in RequestStates
  BY <1>1, <1>5, <1>7
<1>16. IInv'
  BY <1>9, <1>10, <1>11, <1>14, <1>15, RequestWrites
<1> QED
  BY <1>9, <1>16

LEMMA RenewReferenceKeeps ==
    ASSUME IInv, NEW r \in Requests, RenewReference(r)
    PROVE  IInv' /\ Later
<1> DEFINE p == request[r].payment
           e == [payments[p] EXCEPT !.reference = generated + 1, !.metadata = generated + 2]
           h == IF request[r].trials = 0 THEN Idle ELSE Row(r, "make", p)
<1>1. /\ request[r].at = "renew" /\ generated + 2 <= MaxReferences
      /\ generated' = generated + 2
      /\ UNCHANGED <<link, paystack, events, fees, delivery, faults>>
  BY DEF RenewReference
<1>2. /\ p \in Stored /\ p \in PaymentIds /\ request[r].trials \in 0 .. Trials
  BY <1>1, AtStatement DEF Stored
<1>3. /\ generated \in Nat /\ generated' \in Nat /\ generated <= generated'
      /\ generated + 1 \in References /\ generated + 2 \in References
      /\ generated' \in 0 .. MaxReferences
      /\ generated + 1 \in 1 .. generated' /\ generated + 2 \in 1 .. generated'
  BY <1>1, Counted, BoundsAssumption DEF IInv, References
<1>4. payments[p] \in Payment
  BY <1>2, StoredRow DEF IInv
<1>5. /\ e \in Payment /\ e.kind = payments[p].kind /\ e.status = payments[p].status
      /\ e.reference = generated + 1 /\ e.metadata = generated + 2
  BY <1>3, <1>4 DEF Payment
<1>6. payments' = [payments EXCEPT ![p] = e] /\ request' = [request EXCEPT ![r] = h]
  BY DEF RenewReference
<1> HIDE DEF e
<1>7. payments'[p] = e /\ UNCHANGED conditions
  BY <1>1, <1>2, <1>6 DEF IInv, TypeOK, fees, application
<1>8. /\ h \in RequestStates
      /\ h.at # "idle" =>
            /\ h.at \in {"link", "make"} /\ h.trials >= 1
            /\ h.payment = p /\ h.reference = e.reference /\ h.metadata = e.metadata
  <2>1. CASE request[r].trials = 0
    <3>1. h = Idle /\ Idle.at = "idle"
      BY <2>1 DEF Idle
    <3> QED
      BY <3>1, IdleTyped
  <2>2. CASE request[r].trials # 0
    <3>1. h = Row(r, "make", p) /\ request[r].trials >= 1
      BY <1>2, <2>2
    <3> QED
      BY <1>1, <1>2, <1>5, <1>7, <3>1, RowTyped
  <2> QED
    BY <2>1, <2>2
<1> HIDE DEF h, p
<1>9. Later
  BY <1>1, <1>2, <1>3, <1>5, <1>6, <1>7, RowWritten
<1>10. PICK owner \in [1 .. generated -> PaymentIds] : Numbered(owner)
  BY DEF IInv
<1> DEFINE owner2 == [m \in 1 .. generated' |-> IF m \in 1 .. generated THEN owner[m] ELSE p]
<1>11. Extends(owner2, owner, p, e)
  BY <1>2, <1>3, <1>5 DEF Extends
<1> HIDE DEF owner2
<1>12. paystack' \in [References -> Transaction \cup {Absent}]
  BY <1>1 DEF IInv, TypeOK
<1>13. e.status = "success" => ChargedFor(p) # {}
  BY <1>2, <1>5 DEF IInv, SuccessWasCharged
<1>14. Writes(r, p, e, h)
  BY <1>1, <1>3, <1>5, <1>6, <1>8, <1>12, <1>13 DEF Writes
<1>15. IInv'
  BY <1>2, <1>5, <1>8, <1>9, <1>10, <1>11, <1>14, RequestWrites
<1> QED
  BY <1>9, <1>15

LEMMA ResetPaymentKeeps ==
    ASSUME IInv, NEW r \in Requests, ResetPayment(r)
    PROVE  IInv' /\ Later
<1> DEFINE p == request[r].payment
           e == [payments[p] EXCEPT !.status = "pending", !.metadata = request[r].metadata]
           h == Row(r, "link", p)
<1>1. /\ request[r].at = "store" /\ p # NoPayment
      /\ UNCHANGED <<generated, link, paystack, events, fees, delivery, faults>>
  BY DEF ResetPayment
<1>2. p \in Stored /\ p \in PaymentIds /\ request[r].trials >= 1
  BY <1>1, AtStatement DEF Stored, IInv, Asks
<1>3. payments[p] \in Payment
  BY <1>2, StoredRow DEF IInv
<1>4. PICK owner \in [1 .. generated -> PaymentIds] : Numbered(owner)
  BY DEF IInv
<1>5. /\ request[r].metadata \in 1 .. generated /\ owner[request[r].metadata] = p
      /\ payments[p].reference \in 1 .. generated /\ owner[payments[p].reference] = p
  BY <1>1, <1>2, <1>4 DEF Numbered, RowsNumbered, Carries, Of
<1>6. request[r].metadata \in References
  BY <1>5, Counted DEF IInv
<1>7. /\ e \in Payment /\ e.kind = payments[p].kind /\ e.status = "pending"
      /\ e.reference = payments[p].reference /\ e.metadata = request[r].metadata
  BY <1>3, <1>6 DEF Payment
<1>8. payments' = [payments EXCEPT ![p] = e] /\ request' = [request EXCEPT ![r] = h]
  BY DEF ResetPayment
<1> HIDE DEF e
<1>9. payments'[p] = e /\ UNCHANGED conditions
  BY <1>1, <1>2, <1>8 DEF IInv, TypeOK, fees, application
<1>10. h \in RequestStates /\ h.at = "link" /\ h.trials >= 1 /\ h.payment = p
       /\ h.reference = e.reference /\ h.metadata = e.metadata
  BY <1>1, <1>2, <1>7, <1>9, RowTyped
<1> HIDE DEF h, p
<1>11. generated' \in 0 .. MaxReferences /\ generated' \in Nat /\ generated <= generated'
  <2>1. generated \in 0 .. MaxReferences
    BY DEF IInv, TypeOK
  <2> QED
    BY <1>1, <2>1, BoundsAssumption
<1>12. Later
  BY <1>1, <1>2, <1>7, <1>8, <1>9, <1>11, RowWritten
<1>13. paystack' \in [References -> Transaction \cup {Absent}]
  BY <1>1 DEF IInv, TypeOK
<1>14. Writes(r, p, e, h)
  BY <1>1, <1>7, <1>8, <1>10, <1>11, <1>13 DEF Writes
<1>15. Extends(owner, owner, p, e)
  BY <1>1, <1>5, <1>7 DEF Extends
<1>16. IInv'
  BY <1>2, <1>4, <1>7, <1>10, <1>12, <1>14, <1>15, RequestWrites
<1> QED
  BY <1>12, <1>16

LEMMA RecordPaidKeeps ==
    ASSUME IInv, NEW r \in Requests, RecordPaid(r)
    PROVE  IInv' /\ Later
<1> DEFINE p == request[r].payment
           e == [payments[p] EXCEPT !.status = "success"]
<1>1. /\ request[r].at = "paid"
      /\ UNCHANGED <<generated, link, paystack, events, fees, delivery, faults>>
  BY DEF RecordPaid
<1>2. p \in Stored /\ p \in PaymentIds /\ request[r].reference \in References
      /\ Charged(request[r].reference)
  BY <1>1, AtStatement DEF Stored, IInv, Asks
<1>3. PICK owner \in [1 .. generated -> PaymentIds] : Numbered(owner)
  BY DEF IInv
<1>4. owner[request[r].reference] = p
  BY <1>1, <1>3 DEF Numbered, Carries, Of
<1>5. paystack[request[r].reference] # Absent
  BY <1>2 DEF Charged, Absent
<1>6. paystack[request[r].reference].payment = p
  BY <1>2, <1>3, <1>4, <1>5 DEF Numbered, RowsNumbered, Of
<1>7. ChargedFor(p) # {}
  BY <1>2, <1>6 DEF ChargedFor
<1>8. payments[p] \in Payment
  BY <1>2, StoredRow DEF IInv
<1>9. /\ e \in Payment /\ e.kind = payments[p].kind
      /\ e.reference = payments[p].reference /\ e.metadata = payments[p].metadata
  BY <1>8 DEF Payment
<1>10. payments' = [payments EXCEPT ![p] = e] /\ request' = [request EXCEPT ![r] = Idle]
  BY DEF RecordPaid
<1>11. Idle \in RequestStates /\ Idle.at = "idle"
  BY IdleTyped DEF Idle
<1> HIDE DEF e, p
<1>12. /\ generated' \in 0 .. MaxReferences /\ generated' \in Nat /\ generated <= generated'
       /\ UNCHANGED conditions
  <2>1. generated \in 0 .. MaxReferences
    BY DEF IInv, TypeOK
  <2> QED
    BY <1>1, <2>1, BoundsAssumption DEF fees, application
<1>13. Later
  BY <1>1, <1>2, <1>9, <1>10, <1>12, RowWritten
<1>14. paystack' \in [References -> Transaction \cup {Absent}]
  BY <1>1 DEF IInv, TypeOK
<1>15. Writes(r, p, e, Idle)
  BY <1>1, <1>7, <1>9, <1>10, <1>11, <1>12, <1>14 DEF Writes
<1>16. Extends(owner, owner, p, e)
  BY <1>1, <1>2, <1>3, <1>9 DEF Extends, Numbered, RowsNumbered, Of
<1>17. IInv'
  BY <1>2, <1>3, <1>9, <1>11, <1>13, <1>15, <1>16, RequestWrites
<1> QED
  BY <1>13, <1>17

LEMMA SaveIntentKeeps ==
    ASSUME IInv, NEW r \in Requests, SaveIntent(r)
    PROVE  IInv' /\ Later
<1> DEFINE p == request[r].payment
           n == request[r].reference
           e == [payments[p] EXCEPT !.metadata = request[r].metadata]
           s == IF paystack[n].status = "created" THEN "ongoing" ELSE paystack[n].status
           t == [paystack[n] EXCEPT !.status = s]
<1>1. /\ request[r].at = "intent"
      /\ UNCHANGED <<generated, link, events, fees, delivery, faults>>
      /\ payments' = [payments EXCEPT ![p] = e]
      /\ request' = [request EXCEPT ![r] = Idle]
      /\ paystack' = [paystack EXCEPT ![n] = t]
  BY DEF SaveIntent
<1>2. p \in Stored /\ p \in PaymentIds /\ n \in References
  BY <1>1, AtStatement DEF Stored
<1>3. PICK owner \in [1 .. generated -> PaymentIds] : Numbered(owner)
  BY DEF IInv
<1>4. /\ request[r].metadata \in 1 .. generated /\ owner[request[r].metadata] = p
      /\ payments[p].reference \in 1 .. generated /\ owner[payments[p].reference] = p
  BY <1>1, <1>2, <1>3, IdsAssumption DEF Numbered, RowsNumbered, Carries, Of
<1>5. request[r].metadata \in References /\ payments[p] \in Payment
  BY <1>2, <1>4, Counted, StoredRow DEF IInv
<1>6. /\ e \in Payment /\ e.kind = payments[p].kind /\ e.status = payments[p].status
      /\ e.reference = payments[p].reference /\ e.metadata = request[r].metadata
  BY <1>5 DEF Payment
<1>7. paystack[n] # Absent
  BY <1>1 DEF IInv, Asks
<1>8. paystack[n] \in Transaction
  BY <1>2, <1>7, PaystackAre DEF IInv
<1>9. /\ t \in Transaction /\ t.payment = paystack[n].payment
      /\ t.metadata = paystack[n].metadata
      /\ paystack[n].status = "success" => t.status = "success"
  BY <1>8 DEF Transaction
<1>10. t # Absent
  BY <1>9 DEF Absent, Transaction
<1> HIDE DEF t, e, n, p
<1>11. /\ paystack'[n] = t /\ \A m \in References \ {n} : paystack'[m] = paystack[m]
       /\ paystack' \in [References -> Transaction \cup {Absent}]
  BY <1>1, <1>2, <1>9 DEF IInv, TypeOK
<1>12. /\ generated' \in 0 .. MaxReferences /\ generated' \in Nat /\ generated <= generated'
       /\ UNCHANGED conditions /\ conditions \in Nat
  <2>1. generated \in 0 .. MaxReferences /\ conditions \in Nat
    BY DEF IInv, TypeOK
  <2> QED
    BY <1>1, <2>1, BoundsAssumption DEF fees, application
<1>13. /\ Stored' = Stored \cup {p} /\ payments'[p] = e
       /\ \A q \in PaymentIds \ {p} : payments'[q] = payments[q]
  BY <1>1, <1>2, <1>6, <1>12, RowWritten
<1>14. Later
  BY <1>6, <1>7, <1>9, <1>10, <1>11, <1>12, <1>13 DEF Later, Charged, Stored
<1>15. Idle \in RequestStates /\ Idle.at = "idle"
  BY IdleTyped DEF Idle
<1>16. \A m \in References : paystack'[m] # Absent =>
          /\ paystack[m] # Absent
          /\ paystack'[m].payment = paystack[m].payment
          /\ paystack'[m].metadata = paystack[m].metadata
  BY <1>7, <1>9, <1>11
<1>17. e.status = "success" => ChargedFor(p) # {}
  BY <1>2, <1>6 DEF IInv, SuccessWasCharged
<1>18. Writes(r, p, e, Idle)
  BY <1>1, <1>6, <1>11, <1>12, <1>15, <1>16, <1>17 DEF Writes
<1>19. Extends(owner, owner, p, e)
  BY <1>1, <1>4, <1>6 DEF Extends
<1>20. IInv'
  BY <1>2, <1>3, <1>6, <1>14, <1>15, <1>18, <1>19, RequestWrites
<1> QED
  BY <1>14, <1>20

-----------------------------------------------------------------------------
(* Paystack, the webhook and the faults.                                   *)

\* A step of no request, which writes no row.
LEMMA OutsideRequests ==
    ASSUME IInv, TypeOK', Later, UNCHANGED <<payments, generated, link, request>>,
           \A owner \in [1 .. generated -> PaymentIds] :
              RowsNumbered(owner) => RowsNumbered(owner)',
           \A n \in events' : n \in events \/ Charged(n)',
           UNCHANGED delivery \/ (\A d \in Deliveries : Delivers(delivery[d]))',
           UNCHANGED <<dip, decision, conditions>> \/ ProgressWasPaid'
    PROVE  IInv'
<1>1. /\ (\E o \in [1 .. generated -> PaymentIds] : Numbered(o))'
      /\ (\A q \in Requests : Asks(request[q]))'
  BY RequestsKept
<1>2. (\A d \in Deliveries : Delivers(delivery[d]))'
  BY DeliveriesKept
<1>3. SuccessWasCharged' /\ ProgressWasPaid'
  BY Untouched
<1>4. Tables'
  <2>1. \A n \in events : Charged(n)'
    <3>1. events \subseteq References
      BY DEF IInv, TypeOK
    <3>2. \A n \in events : Charged(n) /\ paystack[n] # Absent
      BY DEF IInv, Tables, Charged, Absent
    <3> QED
      BY <3>1, <3>2 DEF Later
  <2> QED
    BY <2>1 DEF IInv, Tables, Stored
<1> QED
  BY <1>1, <1>2, <1>3, <1>4 DEF IInv

LEMMA ChargeKeeps ==
    ASSUME IInv, NEW n \in References, Charge(n)
    PROVE  IInv' /\ Later
<1>1. /\ paystack[n].status = "ongoing"
      /\ paystack' = [paystack EXCEPT ![n].status = "success"]
      /\ events' = events \cup {n}
      /\ UNCHANGED <<payments, generated, link, fees, request, delivery, faults>>
  BY DEF Charge
<1>2. paystack[n] # Absent /\ ~ Charged(n)
  BY <1>1 DEF Absent, Charged
<1>3. UNCHANGED conditions
  BY <1>1 DEF fees, application
<1>4. /\ paystack' \in [References -> Transaction \cup {Absent}]
      /\ paystack'[n].status = "success"
      /\ Later
      /\ \A owner \in [1 .. generated -> PaymentIds] :
            RowsNumbered(owner) => RowsNumbered(owner)'
  BY <1>1, <1>2, <1>3, StatusWritten
<1>5. TypeOK'
  BY <1>1, <1>4 DEF IInv, TypeOK, fees, application
<1>6. Charged(n)'
  BY <1>4 DEF Charged
<1> QED
  BY <1>1, <1>4, <1>5, <1>6, OutsideRequests DEF fees, application

LEMMA LapseKeeps ==
    ASSUME IInv, NEW n \in References, Lapse(n)
    PROVE  IInv' /\ Later
<1>1. PICK s \in {"failed", "abandoned"} :
         /\ paystack[n].status \in {"ongoing", "created"}
         /\ paystack' = [paystack EXCEPT ![n].status = s]
  BY DEF Lapse
<1>2. UNCHANGED <<payments, generated, link, events, fees, request, delivery, faults>>
  BY DEF Lapse
<1>3. paystack[n] # Absent /\ ~ Charged(n)
  BY <1>1 DEF Absent, Charged
<1>4. UNCHANGED conditions
  BY <1>2 DEF fees, application
<1>5. /\ paystack' \in [References -> Transaction \cup {Absent}]
      /\ Later
      /\ \A owner \in [1 .. generated -> PaymentIds] :
            RowsNumbered(owner) => RowsNumbered(owner)'
  BY <1>1, <1>2, <1>3, <1>4, StatusWritten
<1>6. TypeOK'
  BY <1>2, <1>5 DEF IInv, TypeOK, fees, application
<1> QED
  BY <1>2, <1>5, <1>6, OutsideRequests DEF fees, application

\* The event names the payment that was charged: the reference it carries is
\* of one payment, whoever has it now.
LEMMA EventNamesPayment ==
    ASSUME IInv, NEW n \in events, NEW p \in PaymentIds, Names(n, p)
    PROVE  /\ n \in References /\ p \in Stored
           /\ Charged(n) /\ paystack[n].payment = p
<1>1. n \in References /\ p \in Stored /\ Charged(n)
  BY DEF IInv, Tables, TypeOK, Names
<1>2. paystack[n] # Absent
  BY <1>1 DEF Charged, Absent
<1>3. PICK owner \in [1 .. generated -> PaymentIds] : Numbered(owner)
  BY DEF IInv
<1>4. owner[paystack[n].metadata] = paystack[n].payment
  BY <1>1, <1>2, <1>3 DEF Numbered, RowsNumbered, Of
<1>5. owner[payments[p].reference] = p
  BY <1>1, <1>3 DEF Numbered, RowsNumbered, Of
<1> QED
  BY <1>1, <1>4, <1>5 DEF Names

\* A delivery in progress: its payment was charged.
LEMMA AtDelivery ==
    ASSUME IInv, NEW d \in Deliveries, delivery[d].at # "idle"
    PROVE  /\ delivery[d] \in DeliveryStates
           /\ delivery[d].payment \in Stored /\ delivery[d].payment \in PaymentIds
           /\ delivery[d].event \in References
           /\ delivery[d].open \subseteq StageNames
           /\ delivery[d].condition \in 0 .. conditions
           /\ delivery[d].event \in ChargedFor(delivery[d].payment)
           /\ KindOf(d) \in Kinds
           /\ Paid(KindOf(d))
<1>1. delivery[d] \in DeliveryStates /\ Delivers(delivery[d]) /\ conditions \in Nat
  BY DEF IInv, TypeOK
<1>2. /\ delivery[d].event \in References /\ delivery[d].payment \in PaymentIds
      /\ delivery[d].open \subseteq StageNames /\ delivery[d].condition \in Nat
  BY <1>1, DeliveryIs
<1>3. /\ delivery[d].payment \in Stored /\ Charged(delivery[d].event)
      /\ paystack[delivery[d].event].payment = delivery[d].payment
      /\ delivery[d].condition <= conditions
  BY <1>1 DEF Delivers
<1>4. delivery[d].event \in ChargedFor(delivery[d].payment)
  BY <1>2, <1>3 DEF ChargedFor
<1>5. KindOf(d) \in Kinds /\ Paid(KindOf(d))
  BY <1>3, <1>4, StoredRow DEF KindOf, Paid, IInv
<1>6. delivery[d].condition \in 0 .. conditions
  BY <1>1, <1>2, <1>3
<1> QED
  BY <1>1, <1>2, <1>3, <1>4, <1>5, <1>6

\* The application moves on only with the payment of its fee.
MovesOn ==
    /\ "Due Diligent" \in Kinds /\ dip'.paid => dip.paid \/ Paid("Due Diligent")
    /\ decision'.approved => decision.approved \/ Paid("Broker Fee")
    /\ conditions' > 0 => conditions > 0 \/ Paid("Management Fee")

\* The columns of the application stay in their types.
ColumnsTyped ==
    /\ dip' \in [status : {"Payment Pending", "Documents Pending", "Completed"},
                 paid : BOOLEAN]
    /\ decision' \in [approved : BOOLEAN, broker : BOOLEAN, management : BOOLEAN]
    /\ conditions' \in Nat
    /\ current' \in 0 .. conditions'
    /\ stages' \in Stages

LEMMA FeesTyped ==
    ASSUME IInv, UNCHANGED fees
    PROVE  ColumnsTyped /\ MovesOn /\ UNCHANGED conditions
BY DEF IInv, TypeOK, ColumnsTyped, MovesOn, fees, application

LEMMA DeliveryGoesOn ==
    ASSUME IInv, NEW d \in Deliveries, NEW h \in DeliveryStates,
           delivery' = [delivery EXCEPT ![d] = h],
           UNCHANGED <<payments, generated, link, paystack, request>>,
           events' \subseteq events, conditions' \in {conditions, conditions + 1},
           faults' \in Nat, ColumnsTyped, MovesOn,
           h.at # "idle" =>
              /\ h.payment \in Stored
              /\ Charged(h.event) /\ paystack[h.event].payment = h.payment
              /\ h.at = "condition" => payments[h.payment].kind = "Management Fee"
              /\ h.condition <= conditions'
    PROVE  IInv' /\ Later
<1>1. conditions \in Nat /\ conditions' \in Nat
  BY DEF IInv, TypeOK, ColumnsTyped
<1>2. TypeOK'
  BY <1>1 DEF IInv, TypeOK, ColumnsTyped
<1>3. Later /\ \A owner \in [1 .. generated -> PaymentIds] :
                  RowsNumbered(owner) => RowsNumbered(owner)'
  BY SameRows
<1>4. delivery'[d] = h /\ \A e \in Deliveries \ {d} : delivery'[e] = delivery[e]
  BY DEF IInv, TypeOK
<1>5. Delivers(delivery[d])'
  BY <1>4 DEF Delivers, Stored, Charged
<1>6. (\A e \in Deliveries : Delivers(delivery[e]))'
  BY <1>2, <1>3, <1>4, <1>5, DeliveriesStep
<1>7. \A k \in MortgagePaymentType : Paid(k) => Paid(k)'
  BY <1>3, StillPaid DEF IInv
<1>8. ProgressWasPaid'
  BY <1>7 DEF IInv, ProgressWasPaid, MovesOn, MortgagePaymentType
<1> QED
  BY <1>2, <1>3, <1>6, <1>8, OutsideRequests

\* A statement of the webhook that leaves the payments.
LEMMA DeliveryAdvances ==
    ASSUME IInv, NEW d \in Deliveries, delivery[d].at # "idle",
           NEW at \in {"read", "apply", "condition", "attach", "exit", "enter", "reply"},
           at = "condition" => KindOf(d) = "Management Fee",
           delivery' = [delivery EXCEPT ![d].at = at],
           UNCHANGED <<payments, generated, link, paystack, events, request, conditions, faults>>,
           ColumnsTyped, MovesOn
    PROVE  IInv' /\ Later
<1> DEFINE h == [delivery[d] EXCEPT !.at = at]
<1>1. /\ delivery[d].payment \in Stored /\ delivery[d].condition <= conditions
      /\ Charged(delivery[d].event)
      /\ paystack[delivery[d].event].payment = delivery[d].payment
  BY DEF IInv, Delivers
<1>2. /\ h \in DeliveryStates /\ h.at = at /\ h.condition = delivery[d].condition
      /\ h.payment = delivery[d].payment /\ h.event = delivery[d].event
  BY AtDelivery, DeliveryGoes
<1>3. delivery' = [delivery EXCEPT ![d] = h]
  OBVIOUS
<1>4. faults' \in Nat
  BY DEF IInv, TypeOK
<1> HIDE DEF h
<1> QED
  BY <1>1, <1>2, <1>3, <1>4, DeliveryGoesOn DEF KindOf

LEMMA ReceiveKeeps ==
    ASSUME IInv, NEW d \in Deliveries, NEW n \in References, Receive(d, n)
    PROVE  IInv' /\ Later
<1>1. PICK p \in PaymentIds :
         /\ Names(n, p)
         /\ delivery' = [delivery EXCEPT
                ![d] = [at |-> "success", event |-> n, payment |-> p,
                        open |-> {}, condition |-> 0]]
  BY DEF Receive
<1> DEFINE h == [at |-> "success", event |-> n, payment |-> p, open |-> {}, condition |-> 0]
<1>2. h \in DeliveryStates
  BY DEF DeliveryStates
<1>3. p \in Stored /\ Charged(n) /\ paystack[n].payment = p
  BY <1>1, EventNamesPayment DEF Receive
<1>4. UNCHANGED <<payments, generated, link, paystack, events, fees, request, faults>>
  BY DEF Receive
<1>5. /\ h.at = "success" /\ h.payment = p /\ h.event = n /\ h.condition = 0
      /\ delivery' = [delivery EXCEPT ![d] = h]
  BY <1>1
<1> HIDE DEF h
<1>6. faults' \in Nat /\ h.condition <= conditions'
  <2>1. faults' \in Nat /\ conditions \in Nat /\ conditions' = conditions
    BY <1>4 DEF IInv, TypeOK, fees, application
  <2> QED
    BY <1>5, <2>1
<1> QED
  BY <1>2, <1>3, <1>4, <1>5, <1>6, FeesTyped, DeliveryGoesOn

LEMMA RecordChargeKeeps ==
    ASSUME IInv, NEW d \in Deliveries, RecordCharge(d)
    PROVE  IInv' /\ Later
<1> DEFINE p == delivery[d].payment
           e == [payments[p] EXCEPT !.status = "success"]
           h == [delivery[d] EXCEPT !.at = "read"]
<1>1. /\ delivery[d].at = "success"
      /\ payments' = [payments EXCEPT ![p] = e]
      /\ delivery' = [delivery EXCEPT ![d] = h]
      /\ UNCHANGED <<generated, link, paystack, events, fees, request, faults>>
  BY DEF RecordCharge
<1>2. /\ p \in Stored /\ p \in PaymentIds /\ ChargedFor(p) # {}
      /\ delivery[d].condition <= conditions
      /\ Charged(delivery[d].event) /\ paystack[delivery[d].event].payment = p
  BY <1>1, AtDelivery DEF IInv, Delivers
<1>3. payments[p] \in Payment
  BY <1>2, StoredRow DEF IInv
<1>4. /\ e \in Payment /\ e.kind = payments[p].kind
      /\ e.reference = payments[p].reference /\ e.metadata = payments[p].metadata
  BY <1>3 DEF Payment
<1>5. /\ h \in DeliveryStates /\ h.at = "read" /\ h.condition = delivery[d].condition
      /\ h.payment = p /\ h.event = delivery[d].event
  BY <1>1, AtDelivery, DeliveryGoes
<1> HIDE DEF e, h, p
<1>6. generated \in Nat /\ UNCHANGED conditions /\ generated' \in Nat /\ generated <= generated'
  <2>1. generated \in Nat /\ generated' = generated /\ UNCHANGED conditions
    BY <1>1, Counted DEF IInv, fees, application
  <2> QED
    BY <2>1
<1>7. /\ payments' \in [PaymentIds -> Payment \cup {Absent}]
      /\ Stored' = Stored \cup {p} /\ payments'[p] = e
      /\ \A q \in PaymentIds \ {p} : payments'[q] = payments[q]
      /\ Later
  BY <1>1, <1>2, <1>4, <1>6, RowWritten
<1>8. TypeOK'
  BY <1>1, <1>5, <1>7 DEF IInv, TypeOK, fees, application
<1>9. \A owner \in [1 .. generated -> PaymentIds] :
         RowsNumbered(owner) => RowsNumbered(owner)'
  BY <1>1, <1>2, <1>4, <1>7 DEF RowsNumbered, Of, Stored
<1>10. /\ (\E o \in [1 .. generated -> PaymentIds] : Numbered(o))'
       /\ (\A q \in Requests : Asks(request[q]))'
  BY <1>1, <1>7, <1>8, <1>9, RequestsKept
<1>11. delivery'[d] = h /\ \A f \in Deliveries \ {d} : delivery'[f] = delivery[f]
  BY <1>1 DEF IInv, TypeOK
<1>12. Delivers(delivery[d])'
  <2>1. paystack' = paystack
    BY <1>1
  <2> QED
    BY <1>2, <1>5, <1>6, <1>7, <1>11, <2>1 DEF Delivers, Charged
<1>13. (\A f \in Deliveries : Delivers(delivery[f]))'
  BY <1>7, <1>8, <1>11, <1>12, DeliveriesStep
<1>14. SuccessWasCharged'
  BY <1>2, <1>7, SuccessKept
<1>15. Tables' /\ ProgressWasPaid'
  BY <1>1, <1>7, Untouched DEF fees, application
<1> QED
  BY <1>7, <1>8, <1>10, <1>13, <1>14, <1>15 DEF IInv

LEMMA ReadApplicationKeeps ==
    ASSUME IInv, NEW d \in Deliveries, ReadApplication(d)
    PROVE  IInv' /\ Later
<1> DEFINE open == IF KindOf(d) = "Management Fee" THEN OpenStages(stages) ELSE {}
           h == [delivery[d] EXCEPT !.at = "apply", !.open = open]
<1>1. /\ delivery[d].at = "read"
      /\ delivery' = [delivery EXCEPT ![d] = h]
      /\ UNCHANGED <<payments, generated, link, paystack, events, fees, request, faults>>
  BY DEF ReadApplication
<1>2. delivery[d] \in [at : {"success", "read", "apply", "condition", "attach", "exit",
                             "enter", "reply"},
             event : References, payment : PaymentIds,
             open : SUBSET StageNames, condition : Nat]
  BY <1>1, AtDelivery DEF DeliveryStates, Idle
<1>3. open \in SUBSET StageNames
  BY DEF OpenStages
<1> HIDE DEF open
<1>4. /\ h \in DeliveryStates /\ h.at = "apply" /\ h.condition = delivery[d].condition
      /\ h.payment = delivery[d].payment /\ h.event = delivery[d].event
  BY <1>2, <1>3 DEF DeliveryStates
<1> HIDE DEF h
<1>5. /\ delivery[d].payment \in Stored /\ delivery[d].condition <= conditions
      /\ Charged(delivery[d].event)
      /\ paystack[delivery[d].event].payment = delivery[d].payment
  BY <1>1 DEF IInv, Delivers
<1>6. faults' \in Nat
  BY <1>1 DEF IInv, TypeOK
<1> QED
  BY <1>1, <1>4, <1>5, <1>6, FeesTyped, DeliveryGoesOn

LEMMA CreateConditionKeeps ==
    ASSUME IInv, NEW d \in Deliveries, CreateCondition(d)
    PROVE  IInv' /\ Later
<1> DEFINE c == conditions + 1
           h == [delivery[d] EXCEPT !.at = "attach", !.condition = c]
<1>1. /\ delivery[d].at = "condition"
      /\ conditions' = c
      /\ delivery' = [delivery EXCEPT ![d] = h]
      /\ UNCHANGED <<payments, generated, link, paystack, events, request, faults>>
      /\ UNCHANGED <<dip, decision, current, stages>>
  BY DEF CreateCondition
<1>2. delivery[d] \in [at : {"success", "read", "apply", "condition", "attach", "exit",
                             "enter", "reply"},
             event : References, payment : PaymentIds,
             open : SUBSET StageNames, condition : Nat]
  BY <1>1, AtDelivery DEF DeliveryStates, Idle
<1>3. conditions \in Nat /\ c \in Nat /\ faults' \in Nat
  <2>1. conditions \in Nat /\ faults \in Nat
    BY DEF IInv, TypeOK
  <2> QED
    BY <1>1, <2>1
<1>4. current' \in 0 .. conditions'
  <2>1. current \in 0 .. conditions
    BY DEF IInv, TypeOK
  <2> QED
    BY <1>1, <1>3, <2>1
<1>5. c <= conditions' /\ conditions' \in {conditions, conditions + 1}
  BY <1>1, <1>3
<1> HIDE DEF c
<1>6. /\ h \in DeliveryStates /\ h.at = "attach" /\ h.condition = c
      /\ h.payment = delivery[d].payment /\ h.event = delivery[d].event
  BY <1>2, <1>3 DEF DeliveryStates
<1> HIDE DEF h
<1>7. /\ delivery[d].payment \in Stored /\ Charged(delivery[d].event)
      /\ paystack[delivery[d].event].payment = delivery[d].payment
      /\ KindOf(d) = "Management Fee"
  BY <1>1 DEF IInv, Delivers, KindOf
<1>8. ColumnsTyped
  BY <1>1, <1>3, <1>4 DEF IInv, TypeOK, ColumnsTyped
<1>9. MovesOn
  BY <1>1, <1>7, AtDelivery DEF MovesOn
<1> QED
  BY <1>1, <1>3, <1>5, <1>6, <1>7, <1>8, <1>9, DeliveryGoesOn

LEMMA ReplyKeeps ==
    ASSUME IInv, NEW d \in Deliveries, Reply(d) \/ LoseDelivery(d)
    PROVE  IInv' /\ Later
<1>1. /\ delivery' = [delivery EXCEPT ![d] = Idle]
      /\ events' \subseteq events
      /\ UNCHANGED <<payments, generated, link, paystack, fees, request>>
  BY DEF Reply, LoseDelivery
<1>2. faults' \in Nat
  <2>1. faults \in Nat /\ faults' \in {faults, faults + 1}
    BY DEF Reply, LoseDelivery, IInv, TypeOK
  <2> QED
    BY <2>1
<1>3. Idle \in DeliveryStates /\ Idle.at = "idle"
  BY IdleTyped DEF Idle
<1> QED
  BY <1>1, <1>2, <1>3, FeesTyped, DeliveryGoesOn

\* The statements that write one column of the application.
LEMMA ApplyKeeps ==
    ASSUME IInv, NEW d \in Deliveries,
           \/ ApplyDueDiligent(d)
           \/ ApplyBrokerFee(d)
           \/ ApplyManagementFee(d)
    PROVE  IInv' /\ Later
<1>1. CASE ApplyDueDiligent(d)
  <2>1. ColumnsTyped
    BY <1>1 DEF ApplyDueDiligent, IInv, TypeOK, ColumnsTyped, application
  <2>2. MovesOn
    BY <1>1, AtDelivery DEF ApplyDueDiligent, MovesOn, application
  <2> QED
    BY <1>1, <2>1, <2>2, DeliveryAdvances DEF ApplyDueDiligent, application
<1>2. CASE ApplyBrokerFee(d)
  <2>1. ColumnsTyped
    BY <1>2 DEF ApplyBrokerFee, IInv, TypeOK, ColumnsTyped, application
  <2>2. MovesOn
    BY <1>2, AtDelivery DEF ApplyBrokerFee, MovesOn, application
  <2> QED
    BY <1>2, <2>1, <2>2, DeliveryAdvances DEF ApplyBrokerFee, application
<1>3. CASE ApplyManagementFee(d)
  <2>1. ColumnsTyped
    BY <1>3 DEF ApplyManagementFee, IInv, TypeOK, ColumnsTyped, application
  <2>2. MovesOn
    <3>1. decision'.approved = decision.approved
      BY <1>3 DEF ApplyManagementFee, IInv, TypeOK
    <3> QED
      BY <1>3, <3>1 DEF ApplyManagementFee, MovesOn, application
  <2> QED
    BY <1>3, <2>1, <2>2, DeliveryAdvances DEF ApplyManagementFee, application
<1> QED
  BY <1>1, <1>2, <1>3

LEMMA StagesTyped ==
    ASSUME stages \in Stages
    PROVE  /\ \A read : Exit(stages, read) \in Stages
           /\ \A s \in StageNames : Enter(stages, s) \in Stages
BY DEF Stages, StageStates, Exit, Enter

LEMMA StageKeeps ==
    ASSUME IInv, NEW d \in Deliveries,
           AttachCondition(d) \/ ExitStages(d) \/ EnterStage(d)
    PROVE  IInv' /\ Later
<1>1. CASE AttachCondition(d)
  <2>1. ColumnsTyped
    <3>1. delivery[d].condition \in 0 .. conditions
      BY <1>1, AtDelivery DEF AttachCondition
    <3> QED
      BY <1>1, <3>1 DEF AttachCondition, IInv, TypeOK, ColumnsTyped
  <2>2. MovesOn
    BY <1>1 DEF AttachCondition, MovesOn
  <2> QED
    BY <1>1, <2>1, <2>2, DeliveryAdvances DEF AttachCondition
<1>2. CASE ExitStages(d) \/ EnterStage(d)
  <2>1. stages' \in Stages
    <3>1. stages \in Stages /\ "ConditionPrecedent" \in StageNames
      BY DEF IInv, TypeOK, StageNames
    <3> QED
      BY <1>2, <3>1, StagesTyped DEF ExitStages, EnterStage
  <2>2. UNCHANGED <<dip, decision, conditions, current>>
    BY <1>2 DEF ExitStages, EnterStage
  <2>3. ColumnsTyped /\ MovesOn
    BY <2>1, <2>2 DEF IInv, TypeOK, ColumnsTyped, MovesOn
  <2> QED
    BY <1>2, <2>2, <2>3, DeliveryAdvances DEF ExitStages, EnterStage
<1> QED
  BY <1>1, <1>2

-----------------------------------------------------------------------------
LEMMA InitHolds == Init => IInv
<1> SUFFICES ASSUME Init PROVE IInv
  OBVIOUS
<1>1. generated = 0 /\ conditions = 0 /\ current = 0 /\ faults = 0
  BY DEF Init
<1>2. decision = [approved |-> FALSE, broker |-> FALSE, management |-> FALSE]
  BY DEF Init
<1> DEFINE unpaid == [status |-> "Payment Pending", paid |-> FALSE]
           paid   == [status |-> "Completed", paid |-> TRUE]
<1>3. dip = IF "Due Diligent" \in Kinds THEN unpaid ELSE paid
  BY DEF Init
<1>4. /\ unpaid \in [status : {"Payment Pending", "Documents Pending", "Completed"},
                      paid : BOOLEAN]
       /\ paid \in [status : {"Payment Pending", "Documents Pending", "Completed"},
                    paid : BOOLEAN]
       /\ ~ unpaid.paid
  OBVIOUS
<1> HIDE DEF unpaid, paid
<1>5. TypeOK
  <2>1. stages \in Stages
    BY DEF Init, Stages, StageNames, StageStates
  <2>2. dip \in [status : {"Payment Pending", "Documents Pending", "Completed"},
                 paid : BOOLEAN]
    BY <1>3, <1>4
  <2>6. decision \in [approved : BOOLEAN, broker : BOOLEAN, management : BOOLEAN]
    BY <1>2
  <2>3. /\ request \in [Requests -> RequestStates]
        /\ delivery \in [Deliveries -> DeliveryStates]
    BY IdleTyped DEF Init
  <2>4. generated \in 0 .. MaxReferences /\ conditions \in Nat /\ current \in 0 .. conditions
        /\ faults \in Nat
    BY <1>1, BoundsAssumption
  <2>5. /\ payments \in [PaymentIds -> Payment \cup {Absent}]
        /\ link \in [MortgagePaymentType -> PaymentIds \cup {NoPayment}]
        /\ paystack \in [References -> Transaction \cup {Absent}]
        /\ events \subseteq References
    BY DEF Init
  <2> QED
    BY <2>1, <2>2, <2>3, <2>4, <2>5, <2>6 DEF TypeOK
<1>6. Stored = {} /\ generated = 0
  BY DEF Init, Stored
<1>7. \E owner \in [1 .. generated -> PaymentIds] : Numbered(owner)
  <2> DEFINE none == [n \in 1 .. 0 |-> NoPayment]
  <2>1. none \in [1 .. generated -> PaymentIds]
    BY <1>6
  <2>2. \A r \in Requests : Carries(request[r], none)
    BY DEF Init, Idle, Carries
  <2>3. RowsNumbered(none)
    BY <1>6 DEF Init, RowsNumbered
  <2> QED
    BY <2>1, <2>2, <2>3 DEF Numbered
<1>8. \A r \in Requests : Asks(request[r])
  BY DEF Init, Idle, Asks
<1>9. \A d \in Deliveries : Delivers(delivery[d])
  BY DEF Init, Idle, Delivers
<1>10. Tables
  BY DEF Init, Tables
<1>11. SuccessWasCharged
  BY <1>6 DEF SuccessWasCharged
<1>12. ProgressWasPaid
  <2>1. "Due Diligent" \in Kinds => ~ dip.paid
    BY <1>3, <1>4
  <2>2. ~ decision.approved
    BY <1>2
  <2>3. ~ (conditions > 0)
    BY <1>1
  <2> QED
    BY <2>1, <2>2, <2>3 DEF ProgressWasPaid
<1> QED
  BY <1>5, <1>7, <1>8, <1>9, <1>10, <1>11, <1>12 DEF IInv

LEMMA StutterKeeps == IInv /\ UNCHANGED vars => IInv' /\ Later
<1> SUFFICES ASSUME IInv, UNCHANGED vars PROVE IInv' /\ Later
  OBVIOUS
<1>1. UNCHANGED <<payments, generated, link, paystack, events, dip, decision, conditions,
                  current, stages, request, delivery, faults>>
  BY DEF vars
<1>2. TypeOK'
  BY <1>1 DEF IInv, TypeOK
<1>3. Later /\ \A owner \in [1 .. generated -> PaymentIds] :
                  RowsNumbered(owner) => RowsNumbered(owner)'
  BY <1>1, SameRows
<1> QED
  BY <1>1, <1>2, <1>3, OutsideRequests

LEMMA NextKeeps == IInv /\ [Next]_vars => IInv' /\ Later
<1> SUFFICES ASSUME IInv, Next PROVE IInv' /\ Later
  BY StutterKeeps
<1>1. ASSUME NEW r \in Requests, NEW k \in Kinds, Initiate(r, k) PROVE IInv' /\ Later
  BY <1>1, InitiateKeeps
<1>2. ASSUME NEW r \in Requests, Pay(r) PROVE IInv' /\ Later
  BY <1>2, CreatePaymentKeeps, ResetPaymentKeeps, LinkPaymentKeeps, MakePaymentKeeps,
     VerifyKeeps, RenewReferenceKeeps, RecordPaidKeeps, SaveIntentKeeps DEF Pay
<1>3. ASSUME NEW r \in Requests, LoseRequest(r) PROVE IInv' /\ Later
  BY <1>3, LoseRequestKeeps
<1>4. ASSUME NEW n \in References, Charge(n) \/ Lapse(n) PROVE IInv' /\ Later
  BY <1>4, ChargeKeeps, LapseKeeps
<1>5. ASSUME NEW n \in References, NEW d \in Deliveries, Receive(d, n) PROVE IInv' /\ Later
  BY <1>5, ReceiveKeeps
<1>6. ASSUME NEW d \in Deliveries, Handle(d) PROVE IInv' /\ Later
  BY <1>6, RecordChargeKeeps, ReadApplicationKeeps, ApplyKeeps, CreateConditionKeeps,
     StageKeeps, ReplyKeeps DEF Handle
<1>7. ASSUME NEW d \in Deliveries, LoseDelivery(d) PROVE IInv' /\ Later
  BY <1>7, ReplyKeeps
<1> QED
  BY <1>1, <1>2, <1>3, <1>4, <1>5, <1>6, <1>7 DEF Next

LEMMA Inductive == Spec => []IInv
<1> QED
  BY InitHolds, NextKeeps, PTL DEF Spec

-----------------------------------------------------------------------------
(* The stages. With one condition precedent the webhook that made it is    *)
(* the only one past it, so that the application is either at the stage or *)
(* on its way there, with the event of the fee still to be delivered.      *)

Managing(d) == delivery[d].at # "idle" /\ KindOf(d) = "Management Fee"

\* The delivery has made its condition precedent.
Past(d) ==
    Managing(d) /\ delivery[d].at \in {"attach", "exit", "enter", "reply"}

NoConditionYet ==
    /\ \A d \in Deliveries :
          ~ Past(d) /\ (Managing(d) => delivery[d].event \in events)
    /\ \E s \in StageNames : stages[s] = "open"
    /\ stages["ConditionPrecedent"] = "absent"

Entered ==
    /\ stages["ConditionPrecedent"] = "open"
    /\ \A d \in Deliveries : Past(d) => delivery[d].at = "reply"

ForManagement(n) ==
    /\ paystack[n].payment \in Stored
    /\ payments[paystack[n].payment].kind = "Management Fee"

Entering ==
    /\ stages["ConditionPrecedent"] = "absent"
    /\ \A d \in Deliveries : Past(d) => delivery[d].at # "reply"
    /\ \E n \in events : ForManagement(n)

OneCondition ==
    /\ \A d, e \in Deliveries : Past(d) /\ Past(e) => d = e
    /\ Entered \/ Entering

OfManagement ==
    \A d \in Deliveries :
        delivery[d].at \in {"attach", "exit", "enter"} => KindOf(d) = "Management Fee"

StageInv ==
    /\ OfManagement
    /\ conditions = 0 => NoConditionYet
    /\ conditions = 1 => OneCondition

\* A delivery that a step leaves alone.
LEMMA DeliveryStays ==
    ASSUME IInv, Later, NEW e \in Deliveries, delivery'[e] = delivery[e]
    PROVE  /\ delivery[e].at # "idle" => KindOf(e)' = KindOf(e)
           /\ Managing(e)' <=> Managing(e)
           /\ Past(e)' <=> Past(e)
<1>1. delivery[e].at # "idle" => delivery[e].payment \in Stored
  BY AtDelivery
<1>2. delivery[e].at # "idle" => KindOf(e)' = KindOf(e)
  BY <1>1 DEF KindOf, Later
<1>3. Managing(e)' <=> Managing(e)
  BY <1>2 DEF Managing
<1> QED
  BY <1>2, <1>3 DEF Past

LEMMA EventStays ==
    ASSUME IInv, Later, NEW n \in events, ForManagement(n)
    PROVE  ForManagement(n)'
<1>1. n \in References /\ Charged(n)
  BY DEF IInv, TypeOK, Tables
<1>2. paystack[n] # Absent
  BY <1>1, PaystackAre DEF IInv, Charged, Absent
<1> QED
  BY <1>1, <1>2 DEF ForManagement, Later

\* The event that a delivery of the management fee carries is for that fee.
LEMMA EventOfDelivery ==
    ASSUME IInv, NEW d \in Deliveries, delivery[d].at # "idle"
    PROVE  ForManagement(delivery[d].event) <=> Managing(d)
BY DEF IInv, Delivers, ForManagement, Managing, KindOf

LEMMA QuietStep ==
    ASSUME IInv, Later, StageInv,
           UNCHANGED <<delivery, conditions, stages>>, events \subseteq events'
    PROVE  StageInv'
<1>1. \A d \in Deliveries :
         /\ delivery[d].at # "idle" => KindOf(d)' = KindOf(d)
         /\ Managing(d)' <=> Managing(d)
         /\ Past(d)' <=> Past(d)
  BY DeliveryStays
<1>2. OfManagement'
  BY <1>1 DEF StageInv, OfManagement
<1>3. NoConditionYet => NoConditionYet'
  BY <1>1 DEF NoConditionYet
<1>4. OneCondition => OneCondition'
  BY <1>1, EventStays DEF OneCondition, Entered, Entering
<1> QED
  BY <1>2, <1>3, <1>4 DEF StageInv

\* A delivery that has not made a condition precedent goes on, or one ends.
LEMMA BeforeStep ==
    ASSUME IInv, Later, StageInv, NEW d \in Deliveries,
           \A e \in Deliveries \ {d} : delivery'[e] = delivery[e],
           UNCHANGED <<conditions, stages, events>>,
           ~ Past(d)', delivery'[d].at \notin {"attach", "exit", "enter"},
           conditions = 0 /\ Managing(d)' => delivery'[d].event \in events
    PROVE  StageInv'
<1>1. \A e \in Deliveries \ {d} :
         /\ delivery[e].at # "idle" => KindOf(e)' = KindOf(e)
         /\ Managing(e)' <=> Managing(e)
         /\ Past(e)' <=> Past(e)
  BY DeliveryStays
<1>2. OfManagement'
  BY <1>1 DEF StageInv, OfManagement
<1>3. conditions = 0 => NoConditionYet'
  BY <1>1 DEF StageInv, NoConditionYet
<1>4. OneCondition => OneCondition'
  BY <1>1, EventStays DEF OneCondition, Entered, Entering
<1> QED
  BY <1>2, <1>3, <1>4 DEF StageInv

LEMMA CreateStep ==
    ASSUME IInv, Later, StageInv, NEW d \in Deliveries, CreateCondition(d)
    PROVE  StageInv'
<1>1. /\ delivery[d].at = "condition"
      /\ conditions' = conditions + 1 /\ conditions \in Nat
      /\ delivery' = [delivery EXCEPT ![d].at = "attach", ![d].condition = conditions + 1]
      /\ UNCHANGED <<payments, paystack, events, stages>>
  BY DEF CreateCondition, IInv, TypeOK
<1>2. delivery[d] \in [at : {"success", "read", "apply", "condition", "attach", "exit",
                             "enter", "reply"},
             event : References, payment : PaymentIds,
             open : SUBSET StageNames, condition : Nat]
  BY <1>1, AtDelivery DEF DeliveryStates, Idle
<1>3. /\ delivery'[d].at = "attach" /\ delivery'[d].payment = delivery[d].payment
      /\ \A e \in Deliveries \ {d} : delivery'[e] = delivery[e]
  BY <1>1, <1>2 DEF IInv, TypeOK
<1>4. \A e \in Deliveries \ {d} :
         /\ delivery[e].at # "idle" => KindOf(e)' = KindOf(e)
         /\ Managing(e)' <=> Managing(e)
         /\ Past(e)' <=> Past(e)
  BY <1>3, DeliveryStays
<1>5. Managing(d) /\ KindOf(d)' = "Management Fee"
  BY <1>1, <1>3 DEF IInv, Delivers, Managing, KindOf
<1>6. OfManagement'
  BY <1>3, <1>4, <1>5 DEF StageInv, OfManagement
<1>7. conditions = 0 => OneCondition'
  <2> SUFFICES ASSUME NoConditionYet PROVE OneCondition'
    BY DEF StageInv
  <2>1. \A e \in Deliveries : Past(e)' => e = d
    BY <1>4 DEF NoConditionYet
  <2>2. delivery[d].event \in events /\ ForManagement(delivery[d].event)
    BY <1>1, <1>5, EventOfDelivery DEF NoConditionYet
  <2>3. \E n \in events' : ForManagement(n)'
    BY <1>1, <2>2, EventStays
  <2>4. Entering'
    BY <1>1, <1>3, <2>1, <2>3 DEF Entering, NoConditionYet
  <2> QED
    BY <2>1, <2>4 DEF OneCondition
<1>8. conditions' # 0 /\ (conditions' = 1 => conditions = 0)
  BY <1>1
<1> QED
  BY <1>6, <1>7, <1>8 DEF StageInv

\* The three statements after the condition precedent was made. They are of
\* the one delivery that made it, if there is one condition precedent.
LEMMA EnteringStep ==
    ASSUME IInv, Later, StageInv, NEW d \in Deliveries,
           AttachCondition(d) \/ ExitStages(d) \/ EnterStage(d)
    PROVE  StageInv'
<1>1. PICK at \in {"exit", "enter", "reply"} :
         /\ delivery' = [delivery EXCEPT ![d].at = at]
         /\ at = "reply" <=> EnterStage(d)
  <2>1. CASE AttachCondition(d)
    BY <2>1 DEF AttachCondition, EnterStage
  <2>2. CASE ExitStages(d)
    BY <2>2 DEF ExitStages, EnterStage
  <2>3. CASE EnterStage(d)
    BY <2>3 DEF EnterStage
  <2> QED
    BY <2>1, <2>2, <2>3
<1>2. /\ delivery[d].at \in {"attach", "exit", "enter"}
      /\ UNCHANGED <<payments, events, conditions>>
  BY DEF AttachCondition, ExitStages, EnterStage
<1>3. /\ delivery'[d].at = at /\ delivery'[d].payment = delivery[d].payment
      /\ \A e \in Deliveries \ {d} : delivery'[e] = delivery[e]
  <2> DEFINE h == [delivery[d] EXCEPT !.at = at]
  <2>1. h.at = at /\ h.payment = delivery[d].payment
    BY <1>2, AtDelivery, DeliveryGoes
  <2>2. delivery' = [delivery EXCEPT ![d] = h]
    BY <1>1
  <2> HIDE DEF h
  <2> QED
    BY <2>1, <2>2 DEF IInv, TypeOK
<1>4. \A e \in Deliveries \ {d} :
         /\ delivery[e].at # "idle" => KindOf(e)' = KindOf(e)
         /\ Managing(e)' <=> Managing(e)
         /\ Past(e)' <=> Past(e)
  BY <1>3, DeliveryStays
<1>5. Past(d) /\ KindOf(d)' = "Management Fee"
  BY <1>2, <1>3 DEF StageInv, OfManagement, Past, Managing, KindOf
<1>6. OfManagement'
  BY <1>3, <1>4, <1>5 DEF StageInv, OfManagement
<1>7. conditions # 0
  BY <1>5 DEF StageInv, NoConditionYet
<1>8. conditions = 1 => OneCondition'
  <2> SUFFICES ASSUME OneCondition PROVE OneCondition'
    BY DEF StageInv
  <2>1. \A e \in Deliveries : Past(e)' => e = d
    BY <1>4, <1>5 DEF OneCondition
  <2>2. Entering
    BY <1>2, <1>5 DEF OneCondition, Entered
  <2>3. stages \in Stages /\ "ConditionPrecedent" \in StageNames
    BY DEF IInv, TypeOK, StageNames
  <2>4. CASE at = "reply"
    <3>1. stages'["ConditionPrecedent"] = "open"
      BY <1>1, <2>2, <2>3, <2>4 DEF EnterStage, Enter, Entering, Stages
    <3>2. Entered'
      BY <1>3, <2>1, <2>4, <3>1 DEF Entered
    <3> QED
      BY <2>1, <3>2 DEF OneCondition
  <2>5. CASE at # "reply"
    <3>1. stages'["ConditionPrecedent"] = "absent"
      BY <1>1, <2>2, <2>3, <2>5 DEF AttachCondition, ExitStages, Exit, Entering
    <3>2. \E n \in events' : ForManagement(n)'
      BY <1>2, <2>2, EventStays DEF Entering
    <3>3. Entering'
      BY <1>3, <2>1, <2>5, <3>1, <3>2 DEF Entering
    <3> QED
      BY <2>1, <3>3 DEF OneCondition
  <2> QED
    BY <2>4, <2>5
<1> QED
  BY <1>2, <1>6, <1>7, <1>8 DEF StageInv

LEMMA ReplyStep ==
    ASSUME IInv, Later, StageInv, NEW d \in Deliveries, Reply(d)
    PROVE  StageInv'
<1>1. /\ delivery[d].at = "reply"
      /\ events' = events \ {delivery[d].event}
      /\ delivery' = [delivery EXCEPT ![d] = Idle]
      /\ UNCHANGED <<conditions, stages>>
  BY DEF Reply, fees, application
<1>2. delivery'[d].at = "idle" /\ \A e \in Deliveries \ {d} : delivery'[e] = delivery[e]
  BY <1>1 DEF IInv, TypeOK, Idle
<1>3. \A e \in Deliveries \ {d} :
         /\ delivery[e].at # "idle" => KindOf(e)' = KindOf(e)
         /\ Managing(e)' <=> Managing(e)
         /\ Past(e)' <=> Past(e)
  BY <1>2, DeliveryStays
<1>4. ~ Managing(d)' /\ ~ Past(d)'
  BY <1>2 DEF Managing, Past
<1>5. OfManagement'
  BY <1>2, <1>3 DEF StageInv, OfManagement
<1>6. ~ Past(d) => ~ ForManagement(delivery[d].event)
  BY <1>1, EventOfDelivery DEF Past
<1>7. NoConditionYet => NoConditionYet'
  <2> SUFFICES ASSUME NoConditionYet PROVE NoConditionYet'
    OBVIOUS
  <2>1. ASSUME NEW e \in Deliveries \ {d}, Managing(e)
        PROVE  delivery[e].event \in events'
    <3>1. ForManagement(delivery[e].event) /\ delivery[e].event \in events
      BY <2>1, EventOfDelivery DEF NoConditionYet, Managing
    <3> QED
      BY <1>1, <1>6, <3>1 DEF NoConditionYet
  <2> QED
    BY <1>1, <1>2, <1>3, <1>4, <2>1 DEF NoConditionYet
<1>8. OneCondition => OneCondition'
  <2> SUFFICES ASSUME OneCondition PROVE OneCondition'
    OBVIOUS
  <2>1. \A e, f \in Deliveries : Past(e)' /\ Past(f)' => e = f
    BY <1>3, <1>4 DEF OneCondition
  <2>2. CASE Entered
    <3>1. Entered'
      BY <1>1, <1>2, <1>3, <1>4, <2>2 DEF Entered
    <3> QED
      BY <2>1, <3>1 DEF OneCondition
  <2>3. CASE Entering
    <3>1. PICK n \in events : ForManagement(n)
      BY <2>3 DEF Entering
    <3>2. n \in events'
      BY <1>1, <1>6, <2>3, <3>1 DEF Entering
    <3>3. Entering'
      BY <1>1, <1>2, <1>3, <1>4, <2>3, <3>1, <3>2, EventStays DEF Entering
    <3> QED
      BY <2>1, <3>3 DEF OneCondition
  <2> QED
    BY <2>2, <2>3 DEF OneCondition
<1> QED
  BY <1>1, <1>5, <1>7, <1>8 DEF StageInv

\* The statements of the webhook before the condition precedent.
LEMMA HandleBeforeStep ==
    ASSUME IInv, Later, StageInv, NEW d \in Deliveries,
           \/ RecordCharge(d) \/ ReadApplication(d) \/ ApplyDueDiligent(d)
           \/ ApplyBrokerFee(d) \/ ApplyManagementFee(d)
    PROVE  StageInv'
<1> DEFINE next == {"read", "apply", "condition", "reply"}
<1>1. /\ delivery[d].at \in {"success", "read", "apply"}
      /\ UNCHANGED <<conditions, stages, events, paystack>>
  BY DEF RecordCharge, ReadApplication, ApplyDueDiligent, ApplyBrokerFee,
         ApplyManagementFee, fees, application
<1>2. /\ delivery[d] \in DeliveryStates /\ delivery[d].payment \in Stored
      /\ KindOf(d) \in Kinds
  BY <1>1, AtDelivery
<1>3. /\ delivery'[d].at \in next /\ delivery'[d].event = delivery[d].event
      /\ delivery'[d].payment = delivery[d].payment
      /\ \A e \in Deliveries \ {d} : delivery'[e] = delivery[e]
      /\ delivery'[d].at = "reply" => KindOf(d) # "Management Fee"
  <2>1. PICK h :
           /\ delivery' = [delivery EXCEPT ![d] = h]
           /\ h.at \in next /\ h.event = delivery[d].event
           /\ h.payment = delivery[d].payment
           /\ h.at = "reply" => KindOf(d) # "Management Fee"
    <3>1. CASE ReadApplication(d)
      <4> DEFINE open == IF KindOf(d) = "Management Fee" THEN OpenStages(stages) ELSE {}
                 h == [delivery[d] EXCEPT !.at = "apply", !.open = open]
      <4>1. delivery[d] \in [at : {"success", "read", "apply", "condition", "attach", "exit",
                             "enter", "reply"},
             event : References, payment : PaymentIds,
             open : SUBSET StageNames, condition : Nat]
        BY <1>1, <1>2 DEF DeliveryStates, Idle
      <4>2. h.at = "apply" /\ h.event = delivery[d].event /\ h.payment = delivery[d].payment
        BY <4>1
      <4>3. delivery' = [delivery EXCEPT ![d] = h]
        BY <3>1 DEF ReadApplication
      <4> QED
        BY <4>2, <4>3
    <3>2. CASE ~ ReadApplication(d)
      <4>1. PICK at \in next :
               /\ delivery' = [delivery EXCEPT ![d].at = at]
               /\ at = "reply" => KindOf(d) # "Management Fee"
        BY <3>2 DEF RecordCharge, ApplyDueDiligent, ApplyBrokerFee, ApplyManagementFee
      <4> DEFINE h == [delivery[d] EXCEPT !.at = at]
      <4>2. h.at = at /\ h.event = delivery[d].event /\ h.payment = delivery[d].payment
        BY <1>1, <1>2, DeliveryGoes
      <4>3. delivery' = [delivery EXCEPT ![d] = h]
        BY <4>1
      <4> QED
        BY <4>1, <4>2, <4>3
    <3> QED
      BY <3>1, <3>2
  <2> QED
    BY <2>1 DEF IInv, TypeOK
<1>4. KindOf(d)' = KindOf(d)
  BY <1>2, <1>3 DEF KindOf, Later
<1>5. ~ Past(d)' /\ (Managing(d)' => Managing(d))
  BY <1>1, <1>3, <1>4 DEF Past, Managing
<1>6. conditions = 0 /\ Managing(d)' => delivery'[d].event \in events
  BY <1>3, <1>5 DEF StageInv, NoConditionYet
<1> QED
  BY <1>1, <1>3, <1>5, <1>6, BeforeStep

LEMMA ReceiveStep ==
    ASSUME IInv, Later, StageInv, NEW d \in Deliveries, NEW n \in References, Receive(d, n)
    PROVE  StageInv'
<1>1. PICK h : /\ h.at = "success" /\ h.event = n
               /\ delivery' = [delivery EXCEPT ![d] = h]
  BY DEF Receive
<1>2. n \in events /\ UNCHANGED <<conditions, stages, events>>
  BY DEF Receive, fees, application
<1>3. delivery'[d] = h /\ \A e \in Deliveries \ {d} : delivery'[e] = delivery[e]
  BY <1>1 DEF IInv, TypeOK
<1>4. ~ Past(d)'
  BY <1>1, <1>3 DEF Past
<1> QED
  BY <1>1, <1>2, <1>3, <1>4, BeforeStep

LEMMA LoseDeliveryStep ==
    ASSUME IInv, Later, StageInv, NEW d \in Deliveries, LoseDelivery(d)
    PROVE  StageInv'
<1>1. /\ delivery' = [delivery EXCEPT ![d] = Idle]
      /\ UNCHANGED <<conditions, stages, events>>
  BY DEF LoseDelivery, fees, application
<1>2. delivery'[d].at = "idle" /\ \A e \in Deliveries \ {d} : delivery'[e] = delivery[e]
  BY <1>1 DEF IInv, TypeOK, Idle
<1>3. ~ Past(d)' /\ ~ Managing(d)'
  BY <1>2 DEF Past, Managing
<1> QED
  BY <1>1, <1>2, <1>3, BeforeStep

LEMMA StageStep == IInv /\ Later /\ StageInv /\ [Next]_vars => StageInv'
<1> SUFFICES ASSUME IInv, Later, StageInv, [Next]_vars PROVE StageInv'
  OBVIOUS
<1>1. ASSUME NEW r \in Requests,
             (\E k \in Kinds : Initiate(r, k)) \/ Pay(r) \/ LoseRequest(r)
      PROVE  StageInv'
  <2>1. UNCHANGED <<delivery, conditions, stages, events>>
    BY <1>1 DEF Initiate, Pay, LoseRequest, CreatePayment, ResetPayment, LinkPayment,
       MakePayment, Verify, RenewReference, RecordPaid, SaveIntent, fees, application
  <2> QED
    BY <2>1, QuietStep
<1>2. ASSUME NEW n \in References, Charge(n) \/ Lapse(n) PROVE StageInv'
  <2>1. UNCHANGED <<delivery, conditions, stages>> /\ events \subseteq events'
    BY <1>2 DEF Charge, Lapse, fees, application
  <2> QED
    BY <2>1, QuietStep
<1>3. ASSUME NEW n \in References, NEW d \in Deliveries, Receive(d, n) PROVE StageInv'
  BY <1>3, ReceiveStep
<1>4. ASSUME NEW d \in Deliveries, Handle(d) PROVE StageInv'
  BY <1>4, HandleBeforeStep, CreateStep, EnteringStep, ReplyStep DEF Handle
<1>5. ASSUME NEW d \in Deliveries, LoseDelivery(d) PROVE StageInv'
  BY <1>5, LoseDeliveryStep
<1>6. ASSUME UNCHANGED vars PROVE StageInv'
  <2>1. UNCHANGED <<delivery, conditions, stages, events>>
    BY <1>6 DEF vars
  <2> QED
    BY <2>1, QuietStep
<1> QED
  BY <1>1, <1>2, <1>3, <1>4, <1>5, <1>6 DEF Next

LEMMA StageStart == Init => StageInv
<1> SUFFICES ASSUME Init PROVE StageInv
  OBVIOUS
<1>1. \A d \in Deliveries : delivery[d].at = "idle"
  BY DEF Init, Idle
<1>2. conditions = 0
  BY DEF Init
<1>3. \E s \in StageNames : stages[s] = "open"
  <2>1. CASE "Due Diligent" \in Kinds
    <3>1. "PreQualification" \in StageNames /\ stages["PreQualification"] = "open"
      BY <2>1 DEF Init, StageNames
    <3> QED
      BY <3>1
  <2>2. CASE "Due Diligent" \notin Kinds
    <3>1. "LoanDecision" \in StageNames /\ stages["LoanDecision"] = "open"
      BY <2>2 DEF Init, StageNames
    <3> QED
      BY <3>1
  <2> QED
    BY <2>1, <2>2
<1>4. stages["ConditionPrecedent"] = "absent"
  BY DEF Init, StageNames
<1>5. NoConditionYet
  BY <1>1, <1>3, <1>4 DEF NoConditionYet, Past, Managing
<1>6. OfManagement
  BY <1>1 DEF OfManagement
<1> QED
  BY <1>2, <1>5, <1>6 DEF StageInv

-----------------------------------------------------------------------------
(* Charged once. A transaction that may still be paid has the reference    *)
(* its payment has now, and the payment of a fee that was brought to       *)
(* Paystack is the one that is linked, so that one request at a time finds *)
(* it. Two at once each make a payment before they look for the link.      *)

Sold(n) ==
    LET p == paystack[n].payment IN
    /\ p \in Stored
    /\ n = payments[p].reference \/ paystack[n].status = "abandoned"
    /\ payments[p].kind # "Management Fee" => link[payments[p].kind] = p

\* What a request holds is what the tables say.
Holds(h) ==
    h.at # "idle" =>
        /\ h.payment # NoPayment => payments[h.payment].kind = h.kind
        /\ h.at # "store" => h.reference = payments[h.payment].reference
        /\ h.kind # "Management Fee" =>
              link[h.kind] = h.payment \/ (h.at = "link" /\ link[h.kind] = NoPayment)
        /\ h.at = "renew" => paystack[h.reference].status = "abandoned"

TablesAgree ==
    /\ \A n \in References : paystack[n] # Absent => Sold(n)
    /\ \A k \in MortgagePaymentType : link[k] # NoPayment => payments[link[k]].kind = k

OnceInv == TablesAgree /\ \A r \in Requests : Holds(request[r])

\* The transactions keep to the references of their payments.
StillSold ==
    \A n \in References : paystack'[n] # Absent =>
        /\ paystack[n] # Absent
        /\ paystack[n].status = "abandoned" => paystack'[n].status = "abandoned"
        /\ \/ paystack'[n].status = "abandoned"
           \/ LET p == paystack[n].payment IN payments'[p].reference = payments[p].reference

LEMMA TablesKept ==
    ASSUME IInv, Later, OnceInv, UNCHANGED link, StillSold
    PROVE  TablesAgree'
<1>1. ASSUME NEW n \in References, paystack'[n] # Absent PROVE Sold(n)'
  <2>1. Sold(n) /\ paystack[n] # Absent /\ paystack'[n].payment = paystack[n].payment
    BY <1>1 DEF StillSold, OnceInv, TablesAgree, Later
  <2> QED
    BY <1>1, <2>1 DEF StillSold, Sold, Later
<1>2. ASSUME NEW k \in MortgagePaymentType, link[k] # NoPayment
      PROVE  payments'[link[k]].kind = k
  BY <1>2 DEF IInv, Tables, Later, OnceInv, TablesAgree
<1> QED
  BY <1>1, <1>2 DEF TablesAgree

\* A step that is no request's.
LEMMA OutsideOnce ==
    ASSUME IInv, Later, OnceInv, UNCHANGED <<link, request>>, StillSold,
           \A p \in Stored : payments'[p].reference = payments[p].reference
    PROVE  OnceInv'
<1>1. TablesAgree'
  BY TablesKept
<1>2. ASSUME NEW r \in Requests PROVE Holds(request[r])'
  <2> SUFFICES ASSUME request[r].at # "idle" PROVE Holds(request[r])'
    BY DEF Holds
  <2>1. Holds(request[r])
    BY DEF OnceInv
  <2>2. /\ request[r].payment # NoPayment => request[r].payment \in Stored
        /\ request[r].at # "store" =>
              request[r].payment \in Stored /\ request[r].reference \in References
    BY AtStatement
  <2>3. request[r].at = "renew" =>
           paystack'[request[r].reference].status = "abandoned"
    <3> SUFFICES ASSUME request[r].at = "renew"
                 PROVE  paystack'[request[r].reference].status = "abandoned"
      OBVIOUS
    <3>1. paystack[request[r].reference].status = "abandoned"
      BY <2>1 DEF Holds
    <3>2. paystack[request[r].reference] # Absent
      BY <3>1 DEF Absent
    <3> QED
      BY <2>2, <3>1, <3>2 DEF StillSold, Later
  <2> QED
    BY <2>1, <2>2, <2>3 DEF Holds, Later
<1> QED
  BY <1>1, <1>2 DEF OnceInv

\* With one request, its step is judged by what it leaves.
LEMMA RequestOnce ==
    ASSUME \A q, s \in Requests : q = s, NEW r \in Requests, NEW h,
           TypeOK, request' = [request EXCEPT ![r] = h],
           TablesAgree', request'[r] = h => Holds(request[r])'
    PROVE  OnceInv'
BY DEF OnceInv, TypeOK

LEMMA RequestRecord ==
    ASSUME IInv, NEW r \in Requests, request[r].at # "idle"
    PROVE  request[r] \in [at : {"store", "link", "make", "verify", "renew", "paid", "intent"},
               kind : Kinds, payment : PaymentIds \cup {NoPayment},
               reference : Nat, metadata : Nat, trials : 0 .. Trials]
BY AtStatement DEF RequestStates, Idle

LEMMA RowHolds ==
    ASSUME IInv, NEW r \in Requests, request[r].at # "idle", NEW at, NEW p
    PROVE  LET h == Row(r, at, p) IN
           /\ h.at = at /\ h.kind = request[r].kind /\ h.payment = p
           /\ h.reference = payments'[p].reference
BY RequestRecord DEF Row

LEMMA InitiateOnce ==
    ASSUME IInv, Later, OnceInv, \A q, s \in Requests : q = s,
           NEW r \in Requests, NEW k \in Kinds, Initiate(r, k)
    PROVE  OnceInv'
<1> DEFINE p == Known(k)
           h == [at |-> "store", kind |-> k, payment |-> p, reference |-> 0,
                 metadata |-> IF p = NoPayment THEN 0 ELSE payments[p].metadata,
                 trials |-> Trials]
<1>1. request' = [request EXCEPT ![r] = h] /\ UNCHANGED <<payments, link, paystack>>
  BY DEF Initiate
<1>2. TablesAgree'
  BY <1>1, TablesKept DEF StillSold
<1>3. k \in MortgagePaymentType
  BY FeesOfKinds
<1>4. p # NoPayment => payments[p].kind = k
  BY <1>3 DEF Known, OnceInv, TablesAgree
<1>5. k # "Management Fee" => link[k] = p
  BY <1>3 DEF Known, MortgagePaymentType
<1>6. h.at = "store" /\ h.kind = k /\ h.payment = p
  OBVIOUS
<1> HIDE DEF h, p
<1>7. request'[r] = h => Holds(request[r])'
  BY <1>1, <1>4, <1>5, <1>6 DEF Holds
<1> QED
  BY <1>1, <1>2, <1>7, RequestOnce DEF IInv

LEMMA CreatePaymentOnce ==
    ASSUME IInv, Later, OnceInv, \A q, s \in Requests : q = s,
           NEW r \in Requests, CreatePayment(r)
    PROVE  OnceInv'
<1>1. PICK p \in PaymentIds \ Stored :
         /\ payments' = [payments EXCEPT
                ![p] = [status |-> "pending", kind |-> request[r].kind,
                        reference |-> generated + 1, metadata |-> generated + 1]]
         /\ request' = [request EXCEPT ![r] = Row(r, "link", p)]
  BY DEF CreatePayment
<1>2. /\ request[r].at = "store" /\ request[r].payment = NoPayment
      /\ UNCHANGED <<link, paystack>>
  BY DEF CreatePayment
<1>3. payments'[p].kind = request[r].kind
      /\ \A q \in PaymentIds \ {p} : payments'[q] = payments[q]
  BY <1>1 DEF IInv, TypeOK
<1>4. StillSold
  <2>1. \A n \in References : paystack[n] # Absent =>
           paystack[n].payment \in PaymentIds \ {p}
    BY <1>1 DEF OnceInv, TablesAgree, Sold, Stored
  <2> QED
    BY <1>2, <1>3, <2>1 DEF StillSold
<1>5. Holds(request[r])
  BY DEF OnceInv
<1>6. request'[r] = Row(r, "link", p) => Holds(request[r])'
  <2> DEFINE h == Row(r, "link", p)
  <2>1. h.at = "link" /\ h.kind = request[r].kind /\ h.payment = p
        /\ h.reference = payments'[p].reference
    BY <1>2, RowHolds
  <2> HIDE DEF h
  <2>2. request'[r] = h => Holds(request[r])'
    BY <1>2, <1>3, <1>5, <2>1 DEF Holds
  <2> QED
    BY <2>2 DEF h
<1> QED
  BY <1>1, <1>2, <1>4, <1>6, TablesKept, RequestOnce DEF IInv

LEMMA ResetPaymentOnce ==
    ASSUME IInv, Later, OnceInv, \A q, s \in Requests : q = s,
           NEW r \in Requests, ResetPayment(r)
    PROVE  OnceInv'
<1> DEFINE p == request[r].payment
<1>1. /\ request[r].at = "store" /\ p # NoPayment
      /\ payments' = [payments EXCEPT ![p].status = "pending",
                                      ![p].metadata = request[r].metadata]
      /\ request' = [request EXCEPT ![r] = Row(r, "link", p)]
      /\ UNCHANGED <<link, paystack>>
  BY DEF ResetPayment
<1>2. p \in Stored /\ p \in PaymentIds
  BY <1>1, AtStatement DEF Stored
<1>3. payments[p] \in Payment
  BY <1>2, StoredRow DEF IInv
<1>4. payments'[p].reference = payments[p].reference
      /\ \A q \in PaymentIds \ {p} : payments'[q] = payments[q]
  BY <1>1, <1>2, <1>3 DEF IInv, TypeOK, Payment
<1>5. StillSold
  BY <1>1, <1>4 DEF StillSold, OnceInv, TablesAgree, Sold, Stored
<1>6. Holds(request[r]) /\ payments'[p].kind = payments[p].kind
  BY <1>2 DEF OnceInv, Later
<1>7. request'[r] = Row(r, "link", p) => Holds(request[r])'
  <2> DEFINE h == Row(r, "link", p)
  <2>1. h.at = "link" /\ h.kind = request[r].kind /\ h.payment = p
        /\ h.reference = payments'[p].reference
    <3>1. request[r].at # "idle"
      BY <1>1
    <3> HIDE DEF p
    <3> QED
      BY <3>1, RowHolds
  <2> HIDE DEF h
  <2>2. request'[r] = h => Holds(request[r])'
    BY <1>1, <1>6, <2>1 DEF Holds
  <2> QED
    BY <2>2 DEF h
<1> QED
  BY <1>1, <1>5, <1>7, TablesKept, RequestOnce DEF IInv

LEMMA LinkPaymentOnce ==
    ASSUME IInv, Later, OnceInv, \A q, s \in Requests : q = s,
           NEW r \in Requests, LinkPayment(r)
    PROVE  OnceInv'
<1> DEFINE p == request[r].payment
           k == request[r].kind
           h == [request[r] EXCEPT !.at = "make"]
<1>1. /\ request[r].at = "link"
      /\ link' = [link EXCEPT ![k] = p]
      /\ request' = [request EXCEPT ![r] = h]
      /\ UNCHANGED <<payments, paystack>>
  BY DEF LinkPayment
<1>2. p \in Stored /\ p # NoPayment /\ k \in MortgagePaymentType
  BY <1>1, AtStatement, FeesOfKinds, IdsAssumption DEF Stored
<1>3. Holds(request[r])
  BY DEF OnceInv
<1>4. link'[k] = p /\ \A l \in MortgagePaymentType \ {k} : link'[l] = link[l]
  BY <1>1, <1>2 DEF IInv, TypeOK
<1>5. ASSUME NEW n \in References, paystack[n] # Absent PROVE Sold(n)'
  <2>1. Sold(n) /\ payments[paystack[n].payment].kind \in MortgagePaymentType
        /\ paystack[n].payment # NoPayment
    BY <1>5, StoredRow, FeesOfKinds, IdsAssumption DEF OnceInv, TablesAgree, Sold, IInv, Stored
  <2> QED
    BY <1>1, <1>3, <1>4, <2>1 DEF Sold, Holds, Stored
<1>6. TablesAgree'
  BY <1>1, <1>2, <1>3, <1>4, <1>5 DEF TablesAgree, OnceInv, Holds
<1>7. h.at = "make" /\ h.payment = p /\ h.kind = k /\ h.reference = request[r].reference
  BY <1>1, RequestRecord
<1> HIDE DEF h
<1>8. request'[r] = h => Holds(request[r])'
  BY <1>1, <1>3, <1>4, <1>7 DEF Holds
<1> QED
  BY <1>1, <1>6, <1>8, RequestOnce DEF IInv

LEMMA MakePaymentOnce ==
    ASSUME IInv, Later, OnceInv, \A q, s \in Requests : q = s,
           NEW r \in Requests, MakePayment(r)
    PROVE  OnceInv'
<1> DEFINE n == request[r].reference
           p == request[r].payment
<1>1. /\ request[r].at = "make" /\ UNCHANGED <<payments, link>>
  BY DEF MakePayment
<1>2. p \in Stored /\ p # NoPayment /\ n \in References /\ Holds(request[r])
  BY <1>1, AtStatement, IdsAssumption DEF Stored, OnceInv
<1>3. payments[p].kind = request[r].kind /\ n = payments[p].reference
      /\ (request[r].kind # "Management Fee" => link[request[r].kind] = p)
  BY <1>1, <1>2 DEF Holds
<1>4. TablesAgree'
  <2>1. CASE paystack[n] = Absent
    <3> DEFINE t == [status |-> "created", payment |-> p, metadata |-> request[r].metadata]
    <3>1. paystack' = [paystack EXCEPT ![n] = t]
      BY <2>1 DEF MakePayment
    <3>2. paystack'[n].payment = p /\ \A m \in References \ {n} : paystack'[m] = paystack[m]
      BY <1>2, <3>1 DEF IInv, TypeOK
    <3>3. ASSUME NEW m \in References, paystack'[m] # Absent PROVE Sold(m)'
      <4>1. CASE m = n
        BY <1>1, <1>2, <1>3, <3>2, <4>1 DEF Sold, Stored
      <4>2. CASE m # n
        BY <1>1, <3>2, <3>3, <4>2 DEF OnceInv, TablesAgree, Sold, Stored
      <4> QED
        BY <4>1, <4>2
    <3> QED
      BY <1>1, <3>3 DEF OnceInv, TablesAgree
  <2>2. CASE paystack[n] # Absent
    <3>1. UNCHANGED paystack
      BY <2>2 DEF MakePayment
    <3> QED
      BY <1>1, <3>1, TablesKept DEF StillSold
  <2> QED
    BY <2>1, <2>2
<1>5. PICK at \in {"intent", "verify"} : request' = [request EXCEPT ![r].at = at]
  BY DEF MakePayment
<1> DEFINE h == [request[r] EXCEPT !.at = at]
<1>6. h.at = at /\ h.payment = p /\ h.kind = request[r].kind /\ h.reference = n
  BY <1>1, RequestRecord
<1>7. request' = [request EXCEPT ![r] = h]
  BY <1>5
<1> HIDE DEF h
<1>8. request'[r] = h => Holds(request[r])'
  BY <1>1, <1>3, <1>5, <1>6 DEF Holds
<1> QED
  BY <1>4, <1>7, <1>8, RequestOnce DEF IInv

LEMMA VerifyOnce ==
    ASSUME IInv, Later, OnceInv, \A q, s \in Requests : q = s,
           NEW r \in Requests, Verify(r)
    PROVE  OnceInv'
<1> DEFINE status == paystack[request[r].reference].status
<1>1. request[r].at = "verify" /\ UNCHANGED <<payments, link, paystack>>
  BY DEF Verify
<1>2. Holds(request[r])
  BY DEF OnceInv
<1>3. PICK h : /\ request' = [request EXCEPT ![r] = h]
               /\ h.at # "idle" =>
                     /\ h.at \in {"renew", "paid"} /\ h.kind = request[r].kind
                     /\ h.payment = request[r].payment /\ h.reference = request[r].reference
                     /\ h.at = "renew" => status = "abandoned"
  <2>1. CASE status = "abandoned"
    <3> DEFINE h == [request[r] EXCEPT !.at = "renew", !.trials = request[r].trials - 1]
    <3>1. request' = [request EXCEPT ![r] = h]
      BY <2>1 DEF Verify
    <3>2. h.at = "renew" /\ h.kind = request[r].kind
          /\ h.payment = request[r].payment /\ h.reference = request[r].reference
      BY <1>1, RequestRecord
    <3> QED
      BY <2>1, <3>1, <3>2
  <2>2. CASE status = "success"
    <3> DEFINE h == [request[r] EXCEPT !.at = "paid"]
    <3>1. request' = [request EXCEPT ![r] = h]
      BY <2>2 DEF Verify
    <3>2. h.at = "paid" /\ h.kind = request[r].kind
          /\ h.payment = request[r].payment /\ h.reference = request[r].reference
      BY <1>1, RequestRecord
    <3> QED
      BY <3>1, <3>2
  <2>3. CASE status \notin {"abandoned", "success"}
    <3>1. request' = [request EXCEPT ![r] = Idle] /\ Idle.at = "idle"
      BY <2>3 DEF Verify, Idle
    <3> QED
      BY <3>1
  <2> QED
    BY <2>1, <2>2, <2>3
<1>4. request'[r] = h => Holds(request[r])'
  BY <1>1, <1>2, <1>3 DEF Holds
<1>5. TablesAgree'
  BY <1>1, TablesKept DEF StillSold
<1> QED
  BY <1>3, <1>4, <1>5, RequestOnce DEF IInv

LEMMA RenewReferenceOnce ==
    ASSUME IInv, Later, OnceInv, \A q, s \in Requests : q = s,
           NEW r \in Requests, RenewReference(r)
    PROVE  OnceInv'
<1> DEFINE p == request[r].payment
           h == IF request[r].trials = 0 THEN Idle ELSE Row(r, "make", p)
<1>1. /\ request[r].at = "renew"
      /\ payments' = [payments EXCEPT ![p].reference = generated + 1,
                                      ![p].metadata = generated + 2]
      /\ request' = [request EXCEPT ![r] = h]
      /\ UNCHANGED <<link, paystack>>
  BY DEF RenewReference
<1>2. p \in Stored /\ p # NoPayment /\ request[r].reference \in References
  BY <1>1, AtStatement, IdsAssumption DEF Stored
<1>3. Holds(request[r])
  BY DEF OnceInv
<1>4. \A q \in PaymentIds \ {p} : payments'[q] = payments[q]
  BY <1>1 DEF IInv, TypeOK
<1>5. StillSold
  <2> SUFFICES ASSUME NEW n \in References, paystack[n] # Absent,
                      paystack[n].status # "abandoned"
               PROVE  payments'[paystack[n].payment].reference
                         = payments[paystack[n].payment].reference
    BY <1>1 DEF StillSold
  <2>1. Sold(n)
    BY DEF OnceInv, TablesAgree
  <2>2. paystack[n].payment # p
    BY <1>1, <1>3, <2>1 DEF Sold, Holds
  <2> QED
    BY <1>4, <2>1, <2>2 DEF Sold, Stored
<1>6. payments'[p].kind = payments[p].kind
  BY <1>2 DEF Later
<1>7. h.at # "idle" =>
         /\ h.at = "make" /\ h.kind = request[r].kind /\ h.payment = p
         /\ h.reference = payments'[p].reference
  <2>1. request[r].at # "idle"
    BY <1>1
  <2> HIDE DEF p
  <2> QED
    BY <2>1, RowHolds DEF Idle
<1> HIDE DEF h
<1>8. request'[r] = h => Holds(request[r])'
  BY <1>1, <1>2, <1>3, <1>6, <1>7 DEF Holds
<1> QED
  BY <1>1, <1>5, <1>8, TablesKept, RequestOnce DEF IInv

\* The request ends; it has changed no reference and no abandoned transaction.
LEMMA EndOnce ==
    ASSUME IInv, Later, OnceInv, \A q, s \in Requests : q = s,
           NEW r \in Requests, RecordPaid(r) \/ SaveIntent(r) \/ LoseRequest(r)
    PROVE  OnceInv'
<1>1. request' = [request EXCEPT ![r] = Idle] /\ UNCHANGED link /\ Idle.at = "idle"
  BY DEF RecordPaid, SaveIntent, LoseRequest, Idle
<1>2. \A p \in Stored : payments'[p].reference = payments[p].reference
  <2>1. CASE LoseRequest(r)
    BY <2>1 DEF LoseRequest
  <2>2. CASE RecordPaid(r) \/ SaveIntent(r)
    <3> DEFINE q == request[r].payment
    <3>1. q \in Stored /\ q \in PaymentIds /\ payments[q] \in Payment
      BY <2>2, AtStatement, StoredRow DEF RecordPaid, SaveIntent, IInv
    <3>2. PICK e : payments' = [payments EXCEPT ![q] = e] /\ e.reference = payments[q].reference
      <4>1. [payments[q] EXCEPT !.status = "success"].reference = payments[q].reference
            /\ [payments[q] EXCEPT !.metadata = request[r].metadata].reference
                  = payments[q].reference
        BY <3>1 DEF Payment
      <4> QED
        BY <2>2, <4>1 DEF RecordPaid, SaveIntent
    <3> QED
      BY <3>1, <3>2 DEF IInv, TypeOK, Stored
  <2> QED
    BY <2>1, <2>2
<1>3. \A n \in References : paystack'[n] # Absent =>
         /\ paystack[n] # Absent
         /\ paystack[n].status = "abandoned" => paystack'[n].status = "abandoned"
  <2>1. CASE SaveIntent(r)
    <3> DEFINE n == request[r].reference
    <3>1. /\ request[r].at = "intent" /\ n \in References
      BY <2>1, AtStatement DEF SaveIntent
    <3>2. paystack[n] # Absent
      BY <3>1 DEF IInv, Asks
    <3>3. paystack[n] \in Transaction
      BY <3>1, <3>2, PaystackAre DEF IInv
    <3> QED
      BY <2>1, <3>1, <3>2, <3>3 DEF SaveIntent, IInv, TypeOK, Transaction
  <2>2. CASE RecordPaid(r) \/ LoseRequest(r)
    BY <2>2 DEF RecordPaid, LoseRequest
  <2> QED
    BY <2>1, <2>2
<1>4. StillSold
  BY <1>2, <1>3 DEF StillSold, OnceInv, TablesAgree, Sold
<1>5. request'[r] = Idle => Holds(request[r])'
  BY <1>1 DEF Holds
<1> QED
  BY <1>1, <1>4, <1>5, TablesKept, RequestOnce DEF IInv

\* Paystack and the webhook change no reference and no abandoned transaction.
LEMMA PaystackOnce ==
    ASSUME IInv, Later, OnceInv, NEW n \in References, Charge(n) \/ Lapse(n)
    PROVE  OnceInv'
<1>1. PICK s : /\ paystack[n].status \in {"ongoing", "created"}
               /\ paystack' = [paystack EXCEPT ![n].status = s]
  BY DEF Charge, Lapse
<1>2. UNCHANGED <<payments, link, request>>
  BY DEF Charge, Lapse
<1>3. paystack[n] # Absent /\ \A m \in References \ {n} : paystack'[m] = paystack[m]
  <2>1. paystack[n] # Absent
    BY <1>1 DEF Absent
  <2>2. paystack \in [References -> Transaction \cup {Absent}]
    BY DEF IInv, TypeOK
  <2> QED
    BY <1>1, <2>1, <2>2
<1>4. StillSold
  BY <1>1, <1>2, <1>3 DEF StillSold
<1> QED
  BY <1>2, <1>4, OutsideOnce

LEMMA WebhookOnce ==
    ASSUME IInv, Later, OnceInv, NEW d \in Deliveries,
           (\E n \in References : Receive(d, n)) \/ Handle(d) \/ LoseDelivery(d)
    PROVE  OnceInv'
<1>1. UNCHANGED <<link, request, paystack>>
  BY DEF Receive, Handle, LoseDelivery, RecordCharge, ReadApplication, ApplyDueDiligent,
     ApplyBrokerFee, ApplyManagementFee, CreateCondition, AttachCondition, ExitStages,
     EnterStage, Reply
<1>2. ASSUME NEW p \in Stored PROVE payments'[p].reference = payments[p].reference
  <2>1. CASE RecordCharge(d)
    <3>1. p \in PaymentIds /\ payments[p] \in Payment
      BY StoredRow DEF IInv
    <3> QED
      BY <2>1, <3>1 DEF RecordCharge, IInv, TypeOK, Payment
  <2>2. CASE UNCHANGED payments
    BY <2>2
  <2> QED
    BY <2>1, <2>2 DEF Receive, Handle, LoseDelivery, ReadApplication, ApplyDueDiligent,
     ApplyBrokerFee, ApplyManagementFee, CreateCondition, AttachCondition, ExitStages,
     EnterStage, Reply
<1>3. StillSold
  BY <1>1, <1>2 DEF StillSold, OnceInv, TablesAgree, Sold
<1> QED
  BY <1>1, <1>2, <1>3, OutsideOnce

LEMMA OnceStep ==
    ASSUME \A q, s \in Requests : q = s
    PROVE  IInv /\ Later /\ OnceInv /\ [Next]_vars => OnceInv'
<1> SUFFICES ASSUME IInv, Later, OnceInv, [Next]_vars PROVE OnceInv'
  OBVIOUS
<1>1. ASSUME NEW r \in Requests, NEW k \in Kinds, Initiate(r, k) PROVE OnceInv'
  BY <1>1, InitiateOnce
<1>2. ASSUME NEW r \in Requests, Pay(r) \/ LoseRequest(r) PROVE OnceInv'
  BY <1>2, CreatePaymentOnce, ResetPaymentOnce, LinkPaymentOnce, MakePaymentOnce,
     VerifyOnce, RenewReferenceOnce, EndOnce DEF Pay
<1>3. ASSUME NEW n \in References, Charge(n) \/ Lapse(n) PROVE OnceInv'
  BY <1>3, PaystackOnce
<1>4. ASSUME NEW d \in Deliveries,
             (\E n \in References : Receive(d, n)) \/ Handle(d) \/ LoseDelivery(d)
      PROVE  OnceInv'
  BY <1>4, WebhookOnce
<1>5. ASSUME UNCHANGED vars PROVE OnceInv'
  <2>1. UNCHANGED <<payments, link, paystack, request>>
    BY <1>5 DEF vars
  <2> QED
    BY <2>1, OutsideOnce DEF StillSold
<1> QED
  BY <1>1, <1>2, <1>3, <1>4, <1>5 DEF Next

LEMMA OnceStart == Init => OnceInv
<1> SUFFICES ASSUME Init PROVE OnceInv
  OBVIOUS
<1>1. TablesAgree
  BY DEF Init, TablesAgree
<1>2. \A r \in Requests : Holds(request[r])
  BY DEF Init, Idle, Holds
<1> QED
  BY <1>1, <1>2 DEF OnceInv

-----------------------------------------------------------------------------
\* The type invariant of the payments, for any fees, rows, requests and bounds.
THEOREM TypeCorrect == Spec => []TypeOK
<1>1. IInv => TypeOK
  BY DEF IInv
<1> QED
  BY <1>1, Inductive, PTL

\* A payment is recorded as made only when Paystack charged it, whether the
\* webhook or verify says so, however references are renewed meanwhile.
THEOREM SuccessIsCharged == Spec => []SuccessWasCharged
<1>1. IInv => SuccessWasCharged
  BY DEF IInv
<1> QED
  BY <1>1, Inductive, PTL

\* The DIP, the loan decision and the condition precedent move on only after
\* the fee each of them waits for was charged.
THEOREM ProgressIsPaid == Spec => []ProgressWasPaid
<1>1. IInv => ProgressWasPaid
  BY DEF IInv
<1> QED
  BY <1>1, Inductive, PTL

\* With one condition precedent the application is at no stage only while the
\* event of its management fee is still to be delivered, for any deliveries at
\* once and any faults.
THEOREM StageIsFound == Spec => []StageLossIsTemporary
<1>1. IInv /\ StageInv => StageLossIsTemporary
  <2> SUFFICES ASSUME IInv, StageInv, OpenStages(stages) = {}
               PROVE  conditions >= 2 \/ events # {}
    BY DEF StageLossIsTemporary
  <2>1. conditions \in Nat
    BY DEF IInv, TypeOK
  <2>2. conditions # 0
    BY DEF StageInv, NoConditionYet, OpenStages
  <2>3. conditions = 1 => events # {}
    BY DEF StageInv, OneCondition, Entered, Entering, OpenStages, StageNames
  <2> QED
    BY <2>1, <2>2, <2>3
<1>2. IInv /\ StageInv /\ [Next]_vars => (IInv /\ StageInv)'
  BY NextKeeps, StageStep
<1>3. Init => IInv /\ StageInv
  BY InitHolds, StageStart
<1> QED
  BY <1>1, <1>2, <1>3, PTL DEF Spec

\* A home buyer who makes one request at a time is charged once for a fee, and
\* once for any payment of a management fee, for any payments, deliveries and
\* faults. Two requests at a time are outside: they may both be charged.
THEOREM OneAtATimeIsChargedOnce ==
    ASSUME \A q, s \in Requests : q = s
    PROVE  Spec => []ChargedOnce
<1>1. IInv /\ OnceInv => ChargedOnce
  <2> SUFFICES ASSUME IInv, OnceInv, NEW m \in References, NEW n \in References,
                      Charged(m), Charged(n), m # n
               PROVE  LET p == paystack[m].payment
                          q == paystack[n].payment
                      IN  /\ p # q
                          /\ payments[p].kind = payments[q].kind
                                 => payments[p].kind = "Management Fee"
    BY DEF ChargedOnce
  <2>1. paystack[m] # Absent /\ paystack[n] # Absent
    BY DEF Charged, Absent
  <2>2. Sold(m) /\ Sold(n)
    BY <2>1 DEF OnceInv, TablesAgree
  <2> QED
    BY <2>2 DEF Sold, Charged
<1>2. IInv /\ OnceInv /\ [Next]_vars => (IInv /\ OnceInv)'
  BY NextKeeps, OnceStep
<1>3. Init => IInv /\ OnceInv
  BY InitHolds, OnceStart
<1> QED
  BY <1>1, <1>2, <1>3, PTL DEF Spec

=============================================================================
