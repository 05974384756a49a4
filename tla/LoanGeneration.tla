--------------------------- MODULE LoanGeneration ---------------------------
(***************************************************************************)
(* Who creates the loan of an application whose conditions are completed.  *)
(*                                                                         *)
(* Every minute the scheduler puts a cron job in the queue of the worker   *)
(* "condition-precedent-loan-generation". The cron lists the completed     *)
(* condition precedents and enqueues a job for each. The same worker, one  *)
(* job at a time, looks for the application of the row, its loan offer and *)
(* a loan, and in one transaction inserts the loan with its repayment      *)
(* schedule. Meanwhile handlers of DocumentReview complete, reopen and add *)
(* condition precedents and make the offers.                               *)
(*                                                                         *)
(* Loans are counted. Their amounts, dates and schedules, which no other   *)
(* step here reads, are left out.                                          *)
(***************************************************************************)
EXTENDS Naturals, Sequences, FiniteSets

CONSTANTS
    Applications,
    Conditions,    \* bound: rows of condition_precedents
    Owner,         \* their application_id
    MaxFaults      \* bound: failed jobs and server stops

ASSUME OwnerAssumption == Owner \in [Conditions -> Applications]
ASSUME FaultsAssumption == MaxFaults \in Nat

CronJob == "condition_precedent_loan_generation_job"
NoJob   == "no job"
Jobs    == Conditions \cup {CronJob}

ASSUME JobsAssumption == {CronJob, NoJob} \cap Conditions = {}

ConditionStatuses == {"absent", "Pending", "Completed"}

VARIABLES
    status,     \* status of every condition precedent
    offered,    \* applications with a loan_offer_id
    loans,      \* number of loans of every application
    queue,      \* conditionPrecedentQueue, oldest job first
    pc,         \* the worker (one job at a time): where it is,
    job,        \*   the job it is at,
    todo,       \*   and the rows the cron has still to enqueue
    faults,     \* faults so far, for MaxFaults
    completed   \* history: rows that were completed at some time

vars == <<status, offered, loans, queue, pc, job, todo, faults, completed>>

rows   == <<status, offered, completed>>
worker == <<pc, job, todo>>

\* "done": the loan is committed, and the job not yet completed in the queue.
WorkerStates == {"idle", "cron", "check", "insert", "done"}

WorkerStops == pc' = "idle" /\ job' = NoJob /\ todo' = {}

InQueue(j) == \E i \in 1 .. Len(queue) : queue[i] = j

Completed == {c \in Conditions : status[c] = "Completed"}

\* Mutant: the filter on the status is lost.
AnyCondition == {c \in Conditions : status[c] # "absent"}

\* Mutant: one row per application.
NewestCompleted ==
    {c \in Completed : \A o \in Completed : Owner[o] = Owner[c] => o = c}

\* findCompletedConditionPrecedentsWithoutLoan. The callback of its filter is
\* asynchronous: what it returns is a promise, which counts as true, so no row
\* is left out for its loan.
CompletedWithoutLoan == Completed

Init ==
    /\ status = [c \in Conditions |-> "absent"]
    /\ offered = {}
    /\ loans = [a \in Applications |-> 0]
    /\ queue = <<>>
    /\ pc = "idle"
    /\ job = NoJob
    /\ todo = {}
    /\ faults = 0
    /\ completed = {}

-----------------------------------------------------------------------------
(* What the handlers of DocumentReview and MortgagePayment do to the rows. *)

\* The webhook of the management fee, or a first upload for the conditions.
CreateCondition(c) ==
    /\ status[c] = "absent"
    /\ status' = [status EXCEPT ![c] = "Pending"]
    /\ UNCHANGED <<offered, loans, queue, worker, faults, completed>>

\* The lender completes its review: of the first group, with a loan offer;
OfferLoan(a) ==
    /\ offered' = offered \cup {a}
    /\ UNCHANGED <<status, loans, queue, worker, faults, completed>>

\* and of the second.
CompleteCondition(c) ==
    /\ status[c] = "Pending"
    /\ status' = [status EXCEPT ![c] = "Completed"]
    /\ completed' = completed \cup {c}
    /\ UNCHANGED <<offered, loans, queue, worker, faults>>

\* Documents uploaded again set the row to Pending.
ReopenCondition(c) ==
    /\ status[c] = "Completed"
    /\ status' = [status EXCEPT ![c] = "Pending"]
    /\ UNCHANGED <<offered, loans, queue, worker, faults, completed>>

-----------------------------------------------------------------------------
(* The worker and its queue.                                               *)

\* The scheduler keeps at most one cron job waiting, whatever is running.
ScheduleCron ==
    /\ ~InQueue(CronJob)
    /\ queue' = Append(queue, CronJob)
    /\ UNCHANGED <<rows, loans, worker, faults>>

StartCron ==
    /\ pc = "idle"
    /\ queue # <<>>
    /\ Head(queue) = CronJob
    /\ queue' = Tail(queue)
    /\ pc' = "cron"
    /\ job' = CronJob
    /\ todo' = CompletedWithoutLoan
    /\ UNCHANGED <<rows, loans, faults>>

\* Mutant: what is enqueued is the identifier of the application.
AddGenerateJobOfApplication(c) ==
    /\ pc = "cron"
    /\ c \in todo
    /\ todo' = todo \ {c}
    /\ queue' = Append(queue, Owner[c])
    /\ UNCHANGED <<rows, loans, pc, job, faults>>

AddGenerateJob(c) ==
    /\ pc = "cron"
    /\ c \in todo
    /\ todo' = todo \ {c}
    /\ queue' = Append(queue, c)
    /\ UNCHANGED <<rows, loans, pc, job, faults>>

EndCron ==
    /\ pc = "cron"
    /\ todo = {}
    /\ WorkerStops
    /\ UNCHANGED <<rows, loans, queue, faults>>

\* Mutant: the look for the offer is lost.
StartGenerateWithoutOffer ==
    /\ pc = "idle"
    /\ queue # <<>>
    /\ Head(queue) # CronJob
    /\ queue' = Tail(queue)
    /\ pc' = "check" /\ job' = Head(queue) /\ UNCHANGED todo
    /\ UNCHANGED <<rows, loans, faults>>

\* processCPLoanGen finds the row, which is never deleted, and does not look
\* at its status; its application, which exists; and the loan offer.
StartGenerate ==
    /\ pc = "idle"
    /\ queue # <<>>
    /\ Head(queue) # CronJob
    /\ queue' = Tail(queue)
    /\ IF Owner[Head(queue)] \in offered
       THEN pc' = "check" /\ job' = Head(queue) /\ UNCHANGED todo
       ELSE UNCHANGED worker
    /\ UNCHANGED <<rows, loans, faults>>

\* Mutant: the look for a loan is lost.
SkipCheckLoan ==
    /\ pc = "check"
    /\ pc' = "insert"
    /\ UNCHANGED <<rows, loans, queue, job, todo, faults>>

CheckLoan ==
    /\ pc = "check"
    /\ IF loans[Owner[job]] > 0
       THEN WorkerStops
       ELSE pc' = "insert" /\ UNCHANGED <<job, todo>>
    /\ UNCHANGED <<rows, loans, queue, faults>>

InsertLoan ==
    /\ pc = "insert"
    /\ loans' = [loans EXCEPT ![Owner[job]] = @ + 1]
    /\ pc' = "done"
    /\ UNCHANGED <<rows, queue, job, todo, faults>>

EndGenerate ==
    /\ pc = "done"
    /\ WorkerStops
    /\ UNCHANGED <<rows, loans, queue, faults>>

-----------------------------------------------------------------------------
(* Faults.                                                                 *)

\* A statement fails: the cron logs it, a generateLoan job is not retried.
FailJob ==
    /\ pc \notin {"idle", "done"}
    /\ faults < MaxFaults
    /\ WorkerStops
    /\ faults' = faults + 1
    /\ UNCHANGED <<rows, loans, queue>>

\* The server stops: the transaction is rolled back if it was not committed,
\* and BullMQ puts the job that was active back, first in line.
Crash ==
    /\ pc # "idle"
    /\ faults < MaxFaults
    /\ faults' = faults + 1
    /\ WorkerStops
    /\ queue' = <<job>> \o queue
    /\ UNCHANGED <<rows, loans>>

-----------------------------------------------------------------------------
Handlers ==
    \/ \E c \in Conditions :
         CreateCondition(c) \/ CompleteCondition(c) \/ ReopenCondition(c)
    \/ \E a \in Applications : OfferLoan(a)

Work ==
    \/ StartCron
    \/ \E c \in Conditions : AddGenerateJob(c)
    \/ EndCron
    \/ StartGenerate
    \/ CheckLoan
    \/ InsertLoan
    \/ EndGenerate

Next ==
    \/ Handlers
    \/ ScheduleCron
    \/ Work
    \/ FailJob
    \/ Crash

Spec == Init /\ [][Next]_vars

\* BullMQ keeps scheduling the cron job and running the worker. Nothing
\* obliges a person to act.
FairSpec == Spec /\ WF_vars(ScheduleCron) /\ WF_vars(Work)

-----------------------------------------------------------------------------
(* Properties.                                                             *)

\* Every variable stays in its type.
TypeOK ==
    /\ status \in [Conditions -> ConditionStatuses]
    /\ offered \subseteq Applications
    /\ loans \in [Applications -> Nat]
    /\ queue \in Seq(Jobs)
    /\ pc \in WorkerStates
    /\ job \in IF pc = "idle" THEN {NoJob}
               ELSE IF pc = "cron" THEN {CronJob} ELSE Conditions
    /\ todo \subseteq Conditions
    /\ faults \in Nat
    /\ completed \subseteq Conditions

\* An application never gets a second loan, although every minute another job
\* is made for each of its condition precedents, with or without a loan, and
\* jobs run again after a crash: the look and the insert are not atomic, but
\* the jobs run one at a time.
OneLoanPerApplication == \A a \in Applications : loans[a] <= 1

\* A loan is made only for an application that has an offer and had a
\* condition precedent completed, however old the job is.
LoanNeedsOfferAndCondition ==
    \A a \in Applications :
        loans[a] > 0 => /\ a \in offered
                        /\ \E c \in completed : Owner[c] = a

\* The worker implements GenerateOnce: a loan is wanted from the time when
\* the application has had both a completed condition and an offer.
LoanWanted == {a \in offered : \E c \in completed : Owner[c] = a}
Once == INSTANCE GenerateOnce WITH
            Items <- Applications,
            wanted <- LoanWanted,
            made <- loans
LoansAreGeneratedOnce == Once!Spec

\* An application with an offer and a condition that stays completed gets its
\* loan, whatever failed before, and although a job that came before the offer
\* was dropped.
CompletedGetsLoan ==
    \A c \in Conditions :
        <>[](status[c] = "Completed" /\ Owner[c] \in offered)
            => <>(loans[Owner[c]] > 0)

\* Only condition precedents whose application has no loan are listed: "Keep
\* only if no loan exists" (ConditionPrecedentRepository.ts:80).
CronListsWithoutLoan ==
    [][pc = "idle" /\ pc' = "cron" =>
           \A c \in todo' : loans[Owner[c]] = 0]_vars

=============================================================================
