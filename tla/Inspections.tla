---------------------------- MODULE Inspections ----------------------------
(***************************************************************************)
(* The inspections of one property by one user, and the connections their  *)
(* booking takes from the pool (Properties/Inspection.ts,                  *)
(* Developer/ManageInpections.ts, knex.ts).                                *)
(*                                                                         *)
(* ScheduleInspection opens a transaction and never uses it: each of its   *)
(* statements takes a second connection, and what it writes stays when the *)
(* transaction is rolled back. The transaction of a booking with a fee is  *)
(* never closed, nor is one whose first statement gets no connection. A    *)
(* request that waits for a connection when there is none gives up after a *)
(* while (the acquire timeout of knex). The payment of the fee books       *)
(* nothing: the webhook does not start the worker that would.              *)
(***************************************************************************)
EXTENDS Naturals, FiniteSets

CONSTANTS
    Requests,     \* HTTP requests that may be in flight together
    Inspections,  \* bound: rows of inspection
    PoolSize      \* pool.max

None == "none"

RequestsAssumption == IsFiniteSet(Requests)
PoolAssumption     == PoolSize \in Nat
RowsAssumption     == None \notin Inspections

Final    == {"Completed", "Canceled"}
Statuses == {"absent", "Pending"} \cup Final
Holds    == {"slot", "insert", "fee", "commit"}  \* a transaction is open
Ops      == {"idle", "begin", "answer"} \cup Holds

VARIABLES
    inspection,  \* inspection_status of each row
    leaked,      \* connections whose transaction nobody will close
    op,          \* where each request is
    own          \* the inspection it answers

vars == <<inspection, leaked, op, own>>

Init ==
    /\ inspection = [i \in Inspections |-> "absent"]
    /\ leaked = 0
    /\ op = [r \in Requests |-> "idle"]
    /\ own = [r \in Requests |-> None]

Free == PoolSize - leaked - Cardinality({r \in Requests : op[r] \in Holds})

Booked == {i \in Inspections : inspection[i] # "absent"}

To(r, next) == op' = [op EXCEPT ![r] = next]

\* A statement outside the transaction takes a connection and gives it back.
Runs(r, stage, next) ==
    /\ op[r] = stage
    /\ Free > 0
    /\ To(r, next)

-----------------------------------------------------------------------------
(* ScheduleInspection.                                                     *)

\* Mutant: a user may book again.
StartAgain(r) ==
    /\ Runs(r, "idle", "begin")
    /\ UNCHANGED <<inspection, leaked, own>>

Start(r) ==
    /\ Booked = {}
    /\ Runs(r, "idle", "begin")
    /\ UNCHANGED <<inspection, leaked, own>>

Begin(r) ==
    /\ Runs(r, "begin", "slot")
    /\ UNCHANGED <<inspection, leaked, own>>

\* The slot, then by the kind of the meeting.
FindSlot(r) ==
    /\ \E next \in {"insert", "fee"} : Runs(r, "slot", next)
    /\ UNCHANGED <<inspection, leaked, own>>

\* The row gets an id that no request knows.
Insert(r, i) ==
    /\ inspection[i] = "absent"
    /\ \A q \in Requests : own[q] # i
    /\ Runs(r, "insert", "commit")
    /\ inspection' = [inspection EXCEPT ![i] = "Pending"]
    /\ UNCHANGED <<leaked, own>>

\* The cache, the payment and its row; the booking waits for the payment.
AskForFee(r) ==
    /\ Runs(r, "fee", "idle")
    /\ leaked' = leaked + 1
    /\ UNCHANGED <<inspection, own>>

Commit(r) ==
    /\ op[r] = "commit"
    /\ To(r, "idle")
    /\ UNCHANGED <<inspection, leaked, own>>

\* A statement or the payment fails: the transaction is rolled back.
Rollback(r) ==
    /\ op[r] \in {"insert", "fee", "commit"}
    /\ To(r, "idle")
    /\ UNCHANGED <<inspection, leaked, own>>

\* Mutant: waiting for a second connection has no end.
AcquireTimeoutFirst(r) ==
    /\ Free = 0
    /\ op[r] = "begin"
    /\ To(r, "idle")
    /\ UNCHANGED <<inspection, leaked, own>>

\* No connection in time. The slot is looked up before the try: nobody
\* closes the transaction.
AcquireTimeout(r) ==
    /\ Free = 0
    /\ op[r] \in {"begin", "slot", "insert", "fee"}
    /\ To(r, "idle")
    /\ leaked' = IF op[r] = "slot" THEN leaked + 1 ELSE leaked
    /\ UNCHANGED <<inspection, own>>

-----------------------------------------------------------------------------
(* Answers: updateInspectionStatus and deleteInspection of the developer,  *)
(* and updateInspection, which any user may call.                          *)

ReadForStatus(r, i) ==
    /\ inspection[i] = "Pending"
    /\ Runs(r, "idle", "answer")
    /\ own' = [own EXCEPT ![r] = i]
    /\ UNCHANGED <<inspection, leaked>>

\* The row is updated if it is still there, whatever its status is by then.
UpdateStatus(r) ==
    /\ Runs(r, "answer", "idle")
    /\ inspection[own[r]] # "absent"
    /\ \E status \in Final : inspection' = [inspection EXCEPT ![own[r]] = status]
    /\ own' = [own EXCEPT ![r] = None]
    /\ UNCHANGED leaked

\* The row was deleted, a check or a statement fails, or no connection.
FailStatus(r) ==
    /\ op[r] = "answer"
    /\ To(r, "idle")
    /\ own' = [own EXCEPT ![r] = None]
    /\ UNCHANGED <<inspection, leaked>>

\* updateInspection looks at nothing: one statement, whatever the status is.
\* Its schema lets the caller set no other than an answer.
SetStatus(i, status) ==
    /\ Free > 0
    /\ inspection[i] # "absent"
    /\ inspection' = [inspection EXCEPT ![i] = status]
    /\ UNCHANGED <<leaked, op, own>>

Delete(i) ==
    /\ Free > 0
    /\ inspection[i] # "absent"
    /\ inspection' = [inspection EXCEPT ![i] = "absent"]
    /\ UNCHANGED <<leaked, op, own>>

-----------------------------------------------------------------------------
\* What a request does once it has started.
Proceed(r) ==
    \/ Begin(r) \/ FindSlot(r) \/ AskForFee(r) \/ Commit(r) \/ Rollback(r)
    \/ \E i \in Inspections : Insert(r, i)
    \/ UpdateStatus(r) \/ FailStatus(r)
    \/ AcquireTimeout(r)

Next ==
    \/ \E r \in Requests :
          \/ Start(r) \/ Proceed(r)
          \/ \E i \in Inspections : ReadForStatus(r, i)
    \/ \E i \in Inspections :
          Delete(i) \/ \E status \in Final : SetStatus(i, status)

\* A statement ends, with an answer or an error, and so does waiting.
Fairness == \A r \in Requests : WF_vars(Proceed(r))

Spec == Init /\ [][Next]_vars /\ Fairness

-----------------------------------------------------------------------------
(* Properties                                                              *)

\* Types.
TypeOK ==
    /\ inspection \in [Inspections -> Statuses]
    /\ leaked \in 0 .. PoolSize
    /\ op \in [Requests -> Ops]
    /\ own \in [Requests -> Inspections \cup {None}]
    /\ Free \in 0 .. PoolSize

\* The user has no more inspections than requests crossed, however often
\* they book and in whatever way bookings fail, although nothing but a
\* check before the transaction keeps a second one out (ScheduleInspection).
BookingBound == Cardinality(Booked) <= Cardinality(Requests)

\* Every request comes to an end, also when each holds the connection that
\* another waits for, or all are leaked (knex.ts, ScheduleInspection).
RequestsEnd == \A r \in Requests : op[r] # "idle" ~> op[r] = "idle"

=============================================================================
