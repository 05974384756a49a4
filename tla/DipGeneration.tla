--------------------------- MODULE DipGeneration ---------------------------
(***************************************************************************)
(* Who creates the DIP (decision in principle) of an approved eligibility. *)
(*                                                                         *)
(* Two paths insert rows in the table "dip":                               *)
(*   - HSF staff approve the eligibility (updatePrequalifierEligibility):  *)
(*     the handler reads the row, then opens a transaction that updates    *)
(*     it, looks for the application and inserts the DIP;                  *)
(*   - every two minutes the scheduler puts a cron job in the queue of the *)
(*     DIP worker, which lists the approved mortgage eligibilities that    *)
(*     have no DIP and enqueues one job for each; the same worker, one job *)
(*     at a time, then looks for a DIP and inserts it when there is none.  *)
(* Home buyers create the applications that carry the eligibilities.       *)
(*                                                                         *)
(* HTTP handlers run interleaved at every await. Postgres runs at READ     *)
(* COMMITTED: a statement sees what other transactions have committed, and *)
(* an UPDATE waits for a transaction that holds the row. Rows are counted, *)
(* not named: nothing here depends on the identity of a DIP.               *)
(***************************************************************************)
EXTENDS Naturals, Sequences, FiniteSets

CONSTANTS
    Eligibilities,   \* eligibility rows, one per (home buyer, property)
    Requests,        \* HTTP requests that may be in flight together
    MaxDecisions,    \* bound: HSF decisions started in a behaviour
    MaxFaults,       \* bound: failed jobs and server crashes in a behaviour
    MaxApplications  \* bound: applications per eligibility

ASSUME BoundsAssumption ==
    /\ MaxDecisions \in Nat
    /\ MaxFaults \in Nat
    /\ MaxApplications \in Nat

CronJob == "dip_generation_job"
NoJob   == "no job"
Jobs    == Eligibilities \cup {CronJob}

ASSUME JobsAssumption == {CronJob, NoJob} \cap Eligibilities = {}

Statuses      == {"Pending", "Approved", "Declined"}
PurchaseTypes == {"Mortgage", "Installment"}
NoApplication == "no application"
Sources       == {"hsf", "worker"}

VARIABLES
    status,        \* eligiblity_status of every eligibility
    applications,  \* number of applications of each type on an eligibility
    dips,          \* number of DIP rows of an eligibility, per path
    handler,       \* what each HTTP request is doing
    queue,         \* dipGenerationQueue, oldest job first
    pc,            \* the DIP worker (one job at a time): where it is,
    job,           \*   the job it is at,
    todo,          \*   and the jobs the cron has still to add, per eligibility
    decisions,     \* HSF decisions started, for MaxDecisions
    faults,        \* faults so far, for MaxFaults
    approvals      \* history: approvals committed on an eligibility

vars == <<status, applications, dips, handler, queue, pc, job, todo,
          decisions, faults, approvals>>

rows   == <<status, applications, dips, approvals>>
worker == <<pc, job, todo>>

Idle == [op |-> "idle"]

HandlerStates ==
    {Idle}
    \cup [op : {"decide"}, e : Eligibilities, eligible : BOOLEAN]
    \cup [op : {"transaction"}, e : Eligibilities, eligible : BOOLEAN,
          app : PurchaseTypes \cup {NoApplication}]
    \cup [op : {"apply"}, e : Eligibilities, type : PurchaseTypes]

\* "cron": adding the jobs of todo; "check", "insert": processing a job;
\* "done": the DIP is committed, and the job not yet completed in the queue.
WorkerStates == {"idle", "cron", "check", "insert", "done"}

NothingTodo == [e \in Eligibilities |-> 0]

WorkerStops == pc' = "idle" /\ job' = NoJob /\ todo' = NothingTodo

HasDip(e)         == \E s \in Sources : dips[e][s] > 0
HasApplication(e) == \E t \in PurchaseTypes : applications[e][t] > 0
InQueue(j)        == \E i \in 1 .. Len(queue) : queue[i] = j

\* Mutants: the query without the filter on the status, without the left join
\* on "dip", and on the wrong type of application.
AnyStatusWithoutDip ==
    [e \in Eligibilities |-> IF HasDip(e) THEN 0 ELSE applications[e]["Mortgage"]]
ApprovedWithOrWithoutDip ==
    [e \in Eligibilities |->
        IF status[e] = "Approved" THEN applications[e]["Mortgage"] ELSE 0]
InstallmentWithoutDip ==
    [e \in Eligibilities |->
        IF status[e] = "Approved" /\ ~HasDip(e)
        THEN applications[e]["Installment"] ELSE 0]

\* findApprovedMortgageEligibilitiesWithoutDip: one result per application
\* of the join, hence the count.
ApprovedWithoutDip ==
    [e \in Eligibilities |->
        IF status[e] = "Approved" /\ ~HasDip(e)
        THEN applications[e]["Mortgage"] ELSE 0]

Init ==
    /\ status = [e \in Eligibilities |-> "Pending"]
    /\ applications = [e \in Eligibilities |-> [t \in PurchaseTypes |-> 0]]
    /\ dips = [e \in Eligibilities |-> [s \in Sources |-> 0]]
    /\ handler = [r \in Requests |-> Idle]
    /\ queue = <<>>
    /\ pc = "idle"
    /\ job = NoJob
    /\ todo = NothingTodo
    /\ decisions = 0
    /\ faults = 0
    /\ approvals = [e \in Eligibilities |-> 0]

-----------------------------------------------------------------------------
(* HSF decides on an eligibility: updatePrequalifierEligibility.           *)

\* The row is read before the transaction; approving twice is refused.
ReadEligibility(r, e, eligible) ==
    /\ handler[r] = Idle
    /\ decisions < MaxDecisions
    /\ ~(status[e] = "Approved" /\ eligible)
    /\ handler' = [handler EXCEPT
           ![r] = [op |-> "decide", e |-> e, eligible |-> eligible]]
    /\ decisions' = decisions + 1
    /\ UNCHANGED <<rows, queue, worker, faults>>

HoldsRow(r, e) == handler[r].op = "transaction" /\ handler[r].e = e

\* UPDATE eligibility, then getByUniqueID: the update locks the row, the
\* query returns any one application of the eligibility, or none.
UpdateEligibility(r) ==
    /\ handler[r].op = "decide"
    /\ LET e == handler[r].e IN
       /\ \A q \in Requests : ~HoldsRow(q, e)
       /\ \E app \in PurchaseTypes \cup {NoApplication} :
            /\ IF HasApplication(e)
               THEN app # NoApplication /\ applications[e][app] > 0
               ELSE app = NoApplication
            /\ handler' = [handler EXCEPT
                 ![r] = [op |-> "transaction", e |-> e,
                         eligible |-> handler[r].eligible, app |-> app]]
    /\ UNCHANGED <<rows, queue, worker, decisions, faults>>

\* Mutant: the test "application &&" is lost.
CommitDecisionWithoutApplication(r) ==
    /\ handler[r].op = "transaction"
    /\ LET e == handler[r].e
           ok == handler[r].eligible
       IN  /\ status' = [status EXCEPT ![e] = IF ok THEN "Approved" ELSE "Declined"]
           /\ approvals' = IF ok THEN [approvals EXCEPT ![e] = @ + 1] ELSE approvals
           /\ dips' = IF ok THEN [dips EXCEPT ![e]["hsf"] = @ + 1] ELSE dips
    /\ handler' = [handler EXCEPT ![r] = Idle]
    /\ UNCHANGED <<applications, queue, worker, decisions, faults>>

\* An approval with an application inserts a DIP: no look for an earlier one.
CommitDecision(r) ==
    /\ handler[r].op = "transaction"
    /\ LET e == handler[r].e
           ok == handler[r].eligible
       IN  /\ status' = [status EXCEPT ![e] = IF ok THEN "Approved" ELSE "Declined"]
           /\ approvals' = IF ok THEN [approvals EXCEPT ![e] = @ + 1] ELSE approvals
           /\ dips' = IF ok /\ handler[r].app # NoApplication
                      THEN [dips EXCEPT ![e]["hsf"] = @ + 1]
                      ELSE dips
    /\ handler' = [handler EXCEPT ![r] = Idle]
    /\ UNCHANGED <<applications, queue, worker, decisions, faults>>

(* A home buyer applies: ApplicationService.create, whatever the status of *)
(* the eligibility. No application ever becomes Rejected, so one that      *)
(* exists refuses the next; but the look and the insert are not atomic.    *)
ReadLastApplication(r, e, type) ==
    /\ handler[r] = Idle
    /\ ~HasApplication(e)
    /\ handler' = [handler EXCEPT
           ![r] = [op |-> "apply", e |-> e, type |-> type]]
    /\ UNCHANGED <<rows, queue, worker, decisions, faults>>

CommitApplication(r) ==
    /\ handler[r].op = "apply"
    /\ LET e == handler[r].e
           t == handler[r].type
       IN  /\ applications[e][t] < MaxApplications
           /\ applications' = [applications EXCEPT ![e][t] = @ + 1]
    /\ handler' = [handler EXCEPT ![r] = Idle]
    /\ UNCHANGED <<status, dips, approvals, queue, worker, decisions, faults>>

-----------------------------------------------------------------------------
(* The DIP worker and its queue.                                           *)

\* The scheduler keeps at most one cron job waiting, whatever is running.
ScheduleCron ==
    /\ ~InQueue(CronJob)
    /\ queue' = Append(queue, CronJob)
    /\ UNCHANGED <<rows, handler, worker, decisions, faults>>

\* dipCron: the list is read once, the jobs are added one await at a time.
StartCron ==
    /\ pc = "idle"
    /\ queue # <<>>
    /\ Head(queue) = CronJob
    /\ queue' = Tail(queue)
    /\ pc' = "cron"
    /\ job' = CronJob
    /\ todo' = ApprovedWithoutDip
    /\ UNCHANGED <<rows, handler, decisions, faults>>

AddGenerateJobAgain(e) ==    \* mutant: the loop runs past the end of the list
    /\ pc = "cron"
    /\ todo' = [todo EXCEPT ![e] = @ - 1]
    /\ queue' = Append(queue, e)
    /\ UNCHANGED <<rows, handler, pc, job, decisions, faults>>

AddGenerateJob(e) ==
    /\ pc = "cron"
    /\ todo[e] > 0
    /\ todo' = [todo EXCEPT ![e] = @ - 1]
    /\ queue' = Append(queue, e)
    /\ UNCHANGED <<rows, handler, pc, job, decisions, faults>>

EndCron ==
    /\ pc = "cron"
    /\ todo = NothingTodo
    /\ WorkerStops
    /\ UNCHANGED <<rows, handler, queue, decisions, faults>>

\* processDipGen reads the eligibility (rows are never deleted, so it finds
\* it) and does not look at its status.
StartGenerate ==
    /\ pc = "idle"
    /\ queue # <<>>
    /\ Head(queue) # CronJob
    /\ queue' = Tail(queue)
    /\ pc' = "check"
    /\ job' = Head(queue)
    /\ UNCHANGED <<rows, handler, todo, decisions, faults>>

\* Mutant: the look for an existing DIP is lost.
SkipCheckDip ==
    /\ pc = "check"
    /\ pc' = "insert"
    /\ UNCHANGED <<rows, handler, queue, job, todo, decisions, faults>>

\* getDipByEligibilityID, then the application, which the cron's join found.
CheckDip ==
    /\ pc = "check"
    /\ IF HasDip(job) THEN WorkerStops
       ELSE pc' = "insert" /\ UNCHANGED <<job, todo>>
    /\ UNCHANGED <<rows, handler, queue, decisions, faults>>

InsertDip ==
    /\ pc = "insert"
    /\ dips' = [dips EXCEPT ![job]["worker"] = @ + 1]
    /\ pc' = "done"
    /\ UNCHANGED <<status, applications, approvals, handler, queue, job, todo,
                   decisions, faults>>

EndGenerate ==
    /\ pc = "done"
    /\ WorkerStops
    /\ UNCHANGED <<rows, handler, queue, decisions, faults>>

-----------------------------------------------------------------------------
(* Faults.                                                                 *)

\* A query fails: the cron logs it, a generateDip job is not retried.
FailJob ==
    /\ pc \notin {"idle", "done"}
    /\ faults < MaxFaults
    /\ WorkerStops
    /\ faults' = faults + 1
    /\ UNCHANGED <<rows, handler, queue, decisions>>

\* The server stops: requests are lost and their transactions rolled back;
\* the queue is in Redis, and the job that was active has stalled, its DIP
\* inserted or not: BullMQ puts it back, first in line.
Crash ==
    /\ faults < MaxFaults
    /\ faults' = faults + 1
    /\ handler' = [r \in Requests |-> Idle]
    /\ WorkerStops
    /\ queue' = IF pc = "idle" THEN queue ELSE <<job>> \o queue
    /\ UNCHANGED <<rows, decisions>>

-----------------------------------------------------------------------------
Decide(r) ==
    \/ \E e \in Eligibilities, ok \in BOOLEAN : ReadEligibility(r, e, ok)
    \/ UpdateEligibility(r)
    \/ CommitDecision(r)

Apply(r) ==
    \/ \E e \in Eligibilities, t \in PurchaseTypes : ReadLastApplication(r, e, t)
    \/ CommitApplication(r)

Work ==
    \/ StartCron
    \/ \E e \in Eligibilities : AddGenerateJob(e)
    \/ EndCron
    \/ StartGenerate
    \/ CheckDip
    \/ InsertDip
    \/ EndGenerate

Next ==
    \/ \E r \in Requests : Decide(r) \/ Apply(r)
    \/ ScheduleCron
    \/ Work
    \/ FailJob
    \/ Crash

Spec == Init /\ [][Next]_vars

\* BullMQ keeps scheduling the cron job and running the worker. Nothing
\* obliges a person to act.
FairSpec == Spec /\ WF_vars(ScheduleCron) /\ WF_vars(Work)

-----------------------------------------------------------------------------
(* Properties.                                                             *)

\* Every variable stays in its type.
TypeOK ==
    /\ status \in [Eligibilities -> Statuses]
    /\ applications \in [Eligibilities -> [PurchaseTypes -> Nat]]
    /\ dips \in [Eligibilities -> [Sources -> Nat]]
    /\ handler \in [Requests -> HandlerStates]
    /\ queue \in Seq(Jobs)
    /\ pc \in WorkerStates
    /\ job \in IF pc = "idle" THEN {NoJob}
               ELSE IF pc = "cron" THEN {CronJob} ELSE Eligibilities
    /\ todo \in [Eligibilities -> Nat]
    /\ decisions \in Nat
    /\ faults \in Nat
    /\ approvals \in [Eligibilities -> Nat]

\* The worker inserts at most one DIP for an eligibility, however often the
\* cron enqueued it, and whatever failed or crashed: "Check if a DIP already
\* exists" (dipWorker.ts:41) is sound among the worker's own jobs because
\* they run one at a time.
WorkerGeneratesOnce == \A e \in Eligibilities : dips[e]["worker"] <= 1

\* The two paths together never insert more DIPs for an eligibility than HSF
\* approved it times (so none when it never did), although the worker trusts
\* jobs that may be old, and an approval may commit between its check and its
\* insert.
NoMoreDipsThanApprovals ==
    \A e \in Eligibilities :
        dips[e]["hsf"] + dips[e]["worker"] <= approvals[e]

\* A DIP always has an application to belong to: the jobs come from a join
\* with the applications, and the approval inserts only when it finds one.
DipHasApplication == \A e \in Eligibilities : HasDip(e) => HasApplication(e)

\* The worker implements GenerateOnce for its own DIPs: one is wanted from the
\* time when the eligibility was approved and has an application.
Wanted == {e \in Eligibilities : approvals[e] > 0 /\ HasApplication(e)}
Once == INSTANCE GenerateOnce WITH
            Items <- Eligibilities,
            wanted <- Wanted,
            made <- [e \in Eligibilities |-> dips[e]["worker"]]
WorkerImplementsGenerateOnce == Once!Spec

\* One DIP per eligibility, which getDipByEligibilityID (.first()) and
\* the check of dipWorker.ts:41 take for granted.
OneDipPerEligibility ==
    \A e \in Eligibilities : dips[e]["hsf"] + dips[e]["worker"] <= 1

\* An eligibility that stays approved and has a mortgage application gets a
\* DIP: the cron repairs an approval that committed before the application.
ApprovedGetsDip ==
    \A e \in Eligibilities :
        <>[](status[e] = "Approved" /\ applications[e]["Mortgage"] > 0)
            => <>HasDip(e)

\* Duplicate jobs drain: once an eligibility has a DIP, its jobs disappear
\* from the queue and the cron never adds one again.
JobsDrain ==
    \A e \in Eligibilities :
        HasDip(e) ~> [](~InQueue(e) /\ todo[e] = 0)

=============================================================================
