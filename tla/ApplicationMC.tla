--------------------------- MODULE ApplicationMC ---------------------------
(***************************************************************************)
(* Model-checking instance of what is done about one application outside   *)
(* the documents, the loan and the payments: the purchase (PropertyPurchase*)
(* with its own variables), the inspection of its property (Inspections),  *)
(* the answers to its decision in principle (DipNegotiation) and its loan  *)
(* officer (LoanOfficer). None reads what another writes, so a behaviour   *)
(* takes one of the four: the purchase stays as it began in the others,    *)
(* and the variables of a part that is not taken are unused.               *)
(***************************************************************************)
EXTENDS PropertyPurchase

CONSTANTS Inspections, PoolSize, Officers, Assignments

VARIABLES
    part,
    inspection, leaked,
    lender, buyer, status, fee, charged, reviewed, repeated, answer,
    officer, active, wanted, list, crossed,
    doing, item, read   \* of the three parts other than the purchase

Viewing     == INSTANCE Inspections WITH op <- doing, own <- item
Negotiation == INSTANCE DipNegotiation WITH op <- doing, stages <- item, seen <- read
Officer     == INSTANCE LoanOfficer WITH op <- doing, current <- item, seen <- read

ASSUME ViewingAssumptions ==
    Viewing!RequestsAssumption /\ Viewing!PoolAssumption /\ Viewing!RowsAssumption
ASSUME OfficerAssumptions == Officer!NobodyAssumption

viewing     == <<inspection, leaked>>
negotiation == <<lender, buyer, status, fee, charged, reviewed, repeated, answer>>
assignment  == <<officer, active, wanted, list, crossed>>
shared      == <<doing, item, read>>
MCvars      == <<vars, part, viewing, negotiation, assignment, shared>>

Unused == "unused"

NoViewing == inspection = Unused /\ leaked = Unused

NoNegotiation ==
    /\ lender = Unused /\ buyer = Unused /\ status = Unused
    /\ fee = Unused /\ charged = Unused /\ reviewed = Unused
    /\ repeated = Unused /\ answer = Unused

NoOfficer ==
    /\ officer = Unused /\ active = Unused /\ wanted = Unused
    /\ list = Unused /\ crossed = Unused

MCInit ==
    /\ Init
    /\ \/ /\ part = "purchase"
          /\ NoViewing /\ NoNegotiation /\ NoOfficer
          /\ doing = [r \in Requests |-> "idle"]
          /\ item = Unused /\ read = Unused
       \/ /\ type = "Outright"
          /\ \/ part = "viewing" /\ Viewing!Init /\ read = Unused /\ NoNegotiation /\ NoOfficer
             \/ part = "negotiation" /\ Negotiation!Init /\ NoViewing /\ NoOfficer
             \/ part = "officer" /\ Officer!Init /\ NoViewing /\ NoNegotiation

MCNext ==
    /\ UNCHANGED part
    /\ \/ /\ part = "purchase"
          /\ Next
          /\ UNCHANGED <<viewing, negotiation, assignment, shared>>
       \/ /\ part = "viewing"
          /\ Viewing!Next
          /\ UNCHANGED <<vars, negotiation, assignment, read>>
       \/ /\ part = "negotiation"
          /\ Negotiation!Next
          /\ UNCHANGED <<vars, viewing, assignment>>
       \/ /\ part = "officer"
          /\ Officer!Next
          /\ UNCHANGED <<vars, viewing, negotiation>>

\* Only the connections of the inspections need fairness.
MCFairness ==
    \A r \in Requests : WF_MCvars(/\ part = "viewing"
                                  /\ Viewing!Proceed(r)
                                  /\ UNCHANGED <<part, vars, negotiation, assignment, read>>)

MCSpec == MCInit /\ [][MCNext]_MCvars /\ MCFairness

\* Types, of the purchase and of the part that is taken.
PartTypeOK ==
    /\ TypeOK
    /\ part = "viewing"     => Viewing!TypeOK
    /\ part = "negotiation" => Negotiation!TypeOK
    /\ part = "officer"     => Officer!TypeOK

\* The properties of the other parts are those of their modules, stated there.
BookingBound    == part = "viewing" => Viewing!BookingBound
PaidWasAnswered == part = "negotiation" => Negotiation!PaidWasAnswered
StageUntilRepeated == part = "negotiation" => Negotiation!StageUntilRepeated
OneOfficer      == part = "officer" => Officer!OneOfficer

RequestsEnd         == part = "viewing" => Viewing!RequestsEnd
ReofferNeedsRefusal == [][part = "negotiation" => Negotiation!ReofferStays]_MCvars

=============================================================================
