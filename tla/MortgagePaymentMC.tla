------------------------ MODULE MortgagePaymentMC --------------------------
(* Model-checking instances of MortgagePayment.                            *)
EXTENDS MortgagePayment, TLC

CONSTANTS p1, p2, r1, r2, w1, w2

DipFee        == {"Due Diligent"}
DecisionFees  == {"Broker Fee", "Management Fee"}
OnePayment    == {p1}
TwoPayments   == {p1, p2}
OneRequest    == {r1}
TwoRequests   == {r1, r2}
OneDelivery   == {w1}
TwoDeliveries == {w1, w2}

Symmetric ==
    Permutations(PaymentIds) \cup Permutations(Requests)
        \cup Permutations(Deliveries)

=============================================================================
