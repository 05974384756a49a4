------------------------ MODULE LoanGenerationProofs ------------------------
(***************************************************************************)
(* Proofs about LoanGeneration, for any applications, condition precedents *)
(* and number of faults. A job may be run long after it was made, so IInv  *)
(* says of every job in flight what stays true of it: its row was          *)
(* completed once. What the look for a loan found stays true until the     *)
(* insert because only the worker inserts.                                 *)
(***************************************************************************)
EXTENDS LoanGeneration, TLAPS

CompletedRemembered == Completed \subseteq completed

QueueJustified ==
    \A i \in 1 .. Len(queue) : queue[i] \in Conditions => queue[i] \in completed

WorkerJustified ==
    /\ todo \subseteq completed
    /\ pc \in {"check", "insert", "done"}
         => job \in completed /\ Owner[job] \in offered

InsertAllowed == pc = "insert" => loans[Owner[job]] = 0

IInv ==
    /\ TypeOK
    /\ CompletedRemembered
    /\ QueueJustified
    /\ WorkerJustified
    /\ InsertAllowed
    /\ OneLoanPerApplication
    /\ LoanNeedsOfferAndCondition

-----------------------------------------------------------------------------
\* Every step of every actor keeps the variables in their types.
LEMMA TypeStep == TypeOK /\ [Next]_vars => TypeOK'
<1> SUFFICES ASSUME TypeOK, [Next]_vars PROVE TypeOK'
  OBVIOUS
<1> USE DEF TypeOK, rows, worker
<1>1. ASSUME NEW c \in Conditions, CreateCondition(c) PROVE TypeOK'
  BY <1>1 DEF CreateCondition, ConditionStatuses
<1>2. ASSUME NEW c \in Conditions, CompleteCondition(c) PROVE TypeOK'
  BY <1>2 DEF CompleteCondition, ConditionStatuses
<1>3. ASSUME NEW c \in Conditions, ReopenCondition(c) PROVE TypeOK'
  BY <1>3 DEF ReopenCondition, ConditionStatuses
<1>4. ASSUME NEW a \in Applications, OfferLoan(a) PROVE TypeOK'
  BY <1>4 DEF OfferLoan
<1>5. CASE ScheduleCron
  BY <1>5 DEF ScheduleCron, Jobs
<1>6. CASE StartCron
  BY <1>6 DEF StartCron, CompletedWithoutLoan, Completed, WorkerStates, Jobs
<1>7. ASSUME NEW c \in Conditions, AddGenerateJob(c) PROVE TypeOK'
  BY <1>7 DEF AddGenerateJob, Jobs
<1>8. CASE EndCron
  BY <1>8 DEF EndCron, WorkerStops, WorkerStates
<1>9. CASE StartGenerate
  BY <1>9 DEF StartGenerate, WorkerStates, Jobs
<1>10. CASE CheckLoan
  BY <1>10 DEF CheckLoan, WorkerStops, WorkerStates
<1>11. CASE InsertLoan
  <2>1. job \in Conditions /\ Owner[job] \in Applications
    BY <1>11, OwnerAssumption DEF InsertLoan
  <2> QED
    BY <1>11, <2>1 DEF InsertLoan, WorkerStates
<1>12. CASE EndGenerate
  BY <1>12 DEF EndGenerate, WorkerStops, WorkerStates
<1>13. CASE FailJob
  BY <1>13 DEF FailJob, WorkerStops, WorkerStates
<1>14. CASE Crash
  <2>1. <<job>> \in Seq(Jobs)
    BY <1>14 DEF Crash, WorkerStates, Jobs
  <2>2. queue' \in Seq(Jobs)
    BY <1>14, <2>1 DEF Crash
  <2> QED
    BY <1>14, <2>2 DEF Crash, WorkerStops, WorkerStates
<1>15. CASE UNCHANGED vars
  BY <1>15 DEF vars
<1> QED
  BY <1>1, <1>2, <1>3, <1>4, <1>5, <1>6, <1>7, <1>8, <1>9, <1>10, <1>11,
     <1>12, <1>13, <1>14, <1>15 DEF Next, Handlers, Work

\* Nothing is in flight when the program starts, so nothing needs a reason.
LEMMA InvInit == Init => IInv
  BY OwnerAssumption
     DEF Init, IInv, TypeOK, ConditionStatuses, WorkerStates,
         CompletedRemembered, Completed, QueueJustified, WorkerJustified,
         InsertAllowed, OneLoanPerApplication, LoanNeedsOfferAndCondition

\* What justifies a job or a loan is never taken away.
LEMMA HistoryGrows ==
  ASSUME TypeOK, Next \/ UNCHANGED vars
  PROVE  completed \subseteq completed' /\ offered \subseteq offered'
  BY DEF Next, Handlers, Work, CreateCondition, CompleteCondition,
         ReopenCondition, OfferLoan, ScheduleCron, StartCron, AddGenerateJob,
         EndCron, StartGenerate, CheckLoan, InsertLoan, EndGenerate, FailJob,
         Crash, rows, vars

\* The parts of IInv that a step cannot disturb when it leaves alone the
\* variables they are about.
LEMMA Frame ==
  ASSUME IInv, Next \/ UNCHANGED vars
  PROVE  /\ UNCHANGED <<status, completed>> => CompletedRemembered'
         /\ UNCHANGED queue => QueueJustified'
         /\ queue # <<>> /\ queue' = Tail(queue) => QueueJustified'
         /\ UNCHANGED worker => WorkerJustified'
         /\ WorkerStops => WorkerJustified' /\ InsertAllowed'
         /\ UNCHANGED <<pc, job, loans>> => InsertAllowed'
         /\ UNCHANGED loans
              => OneLoanPerApplication' /\ LoanNeedsOfferAndCondition'
<1> USE HistoryGrows DEF IInv
<1>0. TypeOK
  OBVIOUS
<1>1. ASSUME UNCHANGED <<status, completed>> PROVE CompletedRemembered'
  BY <1>1 DEF CompletedRemembered, Completed
<1>2. ASSUME UNCHANGED queue PROVE QueueJustified'
  BY <1>0, <1>2 DEF QueueJustified
<1>3. ASSUME queue # <<>>, queue' = Tail(queue) PROVE QueueJustified'
  BY <1>0, <1>3 DEF QueueJustified, TypeOK
<1>4. ASSUME UNCHANGED worker PROVE WorkerJustified'
  BY <1>0, <1>4 DEF WorkerJustified, worker
<1>5. ASSUME WorkerStops PROVE WorkerJustified' /\ InsertAllowed'
  BY <1>5 DEF WorkerStops, WorkerJustified, InsertAllowed
<1>6. ASSUME UNCHANGED <<pc, job, loans>> PROVE InsertAllowed'
  BY <1>6 DEF InsertAllowed
<1>7. ASSUME UNCHANGED loans
      PROVE  OneLoanPerApplication' /\ LoanNeedsOfferAndCondition'
  BY <1>0, <1>7 DEF OneLoanPerApplication, LoanNeedsOfferAndCondition
<1> QED
  BY <1>1, <1>2, <1>3, <1>4, <1>5, <1>6, <1>7

\* No step of a handler, of the worker or of a fault takes away what the
\* invariant says of the jobs in flight and of the rows they made.
LEMMA InvStep == IInv /\ [Next]_vars => IInv'
<1> SUFFICES ASSUME IInv, Next \/ UNCHANGED vars PROVE IInv'
  OBVIOUS
<1>0. TypeOK /\ TypeOK'
  BY TypeStep DEF IInv
<1> USE DEF rows, worker
<1>1. ASSUME NEW c \in Conditions, CreateCondition(c) PROVE IInv'
  <2>1. CompletedRemembered'
    BY <1>0, <1>1 DEF CreateCondition, CompletedRemembered, Completed, IInv,
                      TypeOK
  <2> QED
    BY <1>0, <1>1, <2>1, Frame DEF CreateCondition, IInv
<1>2. ASSUME NEW c \in Conditions, CompleteCondition(c) PROVE IInv'
  <2>1. CompletedRemembered'
    BY <1>0, <1>2 DEF CompleteCondition, CompletedRemembered, Completed, IInv,
                      TypeOK
  <2> QED
    BY <1>0, <1>2, <2>1, Frame DEF CompleteCondition, IInv
<1>3. ASSUME NEW c \in Conditions, ReopenCondition(c) PROVE IInv'
  <2>1. CompletedRemembered'
    BY <1>0, <1>3 DEF ReopenCondition, CompletedRemembered, Completed, IInv,
                      TypeOK
  <2> QED
    BY <1>0, <1>3, <2>1, Frame DEF ReopenCondition, IInv
<1>4. ASSUME NEW a \in Applications, OfferLoan(a) PROVE IInv'
  BY <1>0, <1>4, Frame DEF OfferLoan, IInv
<1>5. CASE ScheduleCron
  <2>1. QueueJustified'
    BY <1>0, <1>5, JobsAssumption
       DEF ScheduleCron, QueueJustified, IInv, TypeOK, CronJob
  <2> QED
    BY <1>0, <1>5, <2>1, Frame DEF ScheduleCron, IInv
<1>6. CASE StartCron
  <2>1. WorkerJustified' /\ InsertAllowed'
    BY <1>6 DEF StartCron, WorkerJustified, InsertAllowed, IInv,
                CompletedRemembered, CompletedWithoutLoan
  <2> QED
    BY <1>0, <1>6, <2>1, Frame DEF StartCron, IInv
<1>7. ASSUME NEW c \in Conditions, AddGenerateJob(c) PROVE IInv'
  <2>1. c \in completed
    BY <1>7 DEF AddGenerateJob, IInv, WorkerJustified
  <2>2. QueueJustified'
    BY <1>0, <1>7, <2>1 DEF AddGenerateJob, QueueJustified, IInv, TypeOK
  <2>3. WorkerJustified'
    BY <1>7 DEF AddGenerateJob, WorkerJustified, IInv
  <2> QED
    BY <1>0, <1>7, <2>2, <2>3, Frame DEF AddGenerateJob, IInv
<1>8. CASE EndCron
  BY <1>0, <1>8, Frame DEF EndCron, IInv
<1>9. CASE StartGenerate
  <2>1. Head(queue) \in completed
    BY <1>0, <1>9 DEF StartGenerate, QueueJustified, IInv, TypeOK, Jobs
  <2>2. WorkerJustified' /\ InsertAllowed'
    BY <1>9, <2>1 DEF StartGenerate, WorkerJustified, InsertAllowed, IInv
  <2> QED
    BY <1>0, <1>9, <2>2, Frame DEF StartGenerate, IInv
<1>10. CASE CheckLoan
  <2>1. CASE loans[Owner[job]] > 0
    BY <1>0, <1>10, <2>1, Frame DEF CheckLoan, IInv
  <2>2. CASE ~(loans[Owner[job]] > 0)
    <3>1. Owner[job] \in Applications
      BY <1>0, <1>10, OwnerAssumption DEF CheckLoan, TypeOK
    <3>2. InsertAllowed'
      BY <1>0, <1>10, <2>2, <3>1 DEF CheckLoan, InsertAllowed, TypeOK
    <3>3. WorkerJustified'
      BY <1>10, <2>2 DEF CheckLoan, WorkerJustified, IInv
    <3> QED
      BY <1>0, <1>10, <2>2, <3>2, <3>3, Frame DEF CheckLoan, IInv
  <2> QED
    BY <2>1, <2>2
<1>11. CASE InsertLoan
  <2>1. job \in completed /\ Owner[job] \in offered
    BY <1>11 DEF InsertLoan, IInv, WorkerJustified
  <2>2. loans[Owner[job]] = 0
    BY <1>11 DEF InsertLoan, IInv, InsertAllowed
  <2>3. OneLoanPerApplication'
    BY <1>0, <1>11, <2>2 DEF InsertLoan, OneLoanPerApplication, IInv, TypeOK
  <2>4. LoanNeedsOfferAndCondition'
    BY <1>0, <1>11, <2>1 DEF InsertLoan, LoanNeedsOfferAndCondition, IInv, TypeOK
  <2>5. WorkerJustified' /\ InsertAllowed'
    BY <1>11, <2>1 DEF InsertLoan, WorkerJustified, InsertAllowed, IInv
  <2> QED
    BY <1>0, <1>11, <2>3, <2>4, <2>5, Frame DEF InsertLoan, IInv
<1>12. CASE EndGenerate
  BY <1>0, <1>12, Frame DEF EndGenerate, IInv
<1>13. CASE FailJob
  BY <1>0, <1>13, Frame DEF FailJob, IInv
<1>14. CASE Crash
  <2>1. job \in Jobs /\ (job \in Conditions => job \in completed)
    BY <1>0, <1>14, JobsAssumption
       DEF Crash, TypeOK, WorkerStates, Jobs, IInv, WorkerJustified, CronJob
  <2>2. QueueJustified'
    <3> SUFFICES ASSUME NEW i \in 1 .. Len(queue'), queue'[i] \in Conditions
                 PROVE  queue'[i] \in completed
      BY <1>14 DEF QueueJustified, Crash
    <3>1. CASE i = 1
      BY <1>0, <1>14, <2>1, <3>1 DEF Crash, TypeOK
    <3>2. CASE i # 1
      <4>1. i - 1 \in 1 .. Len(queue) /\ queue'[i] = queue[i - 1]
        BY <1>0, <1>14, <2>1, <3>2 DEF Crash, TypeOK
      <4> QED
        BY <4>1 DEF IInv, QueueJustified
    <3> QED
      BY <3>1, <3>2
  <2> QED
    BY <1>0, <1>14, <2>2, Frame DEF Crash, IInv
<1>15. CASE UNCHANGED vars
  BY <1>0, <1>15, Frame DEF vars, IInv
<1> QED
  BY <1>1, <1>2, <1>3, <1>4, <1>5, <1>6, <1>7, <1>8, <1>9, <1>10, <1>11,
     <1>12, <1>13, <1>14, <1>15 DEF Next, Handlers, Work

\* The inductive invariant holds in every reachable state.
LEMMA InvAlways == Spec => []IInv
  BY InvInit, InvStep, PTL DEF Spec

\* Type correctness of the loan generation.
THEOREM TypeCorrect == Spec => []TypeOK
<1>1. IInv => TypeOK
  BY DEF IInv
<1> QED
  BY InvAlways, <1>1, PTL

\* An application never gets a second loan, however many condition precedents
\* and jobs it has, and whatever failed (conditionPrecedentWorker.ts:54-187).
THEOREM UniqueLoan == Spec => []OneLoanPerApplication
<1>1. IInv => OneLoanPerApplication
  BY DEF IInv
<1> QED
  BY InvAlways, <1>1, PTL

\* A loan is made only after an offer was made and a condition was completed.
THEOREM LoanIsDue == Spec => []LoanNeedsOfferAndCondition
<1>1. IInv => LoanNeedsOfferAndCondition
  BY DEF IInv
<1> QED
  BY InvAlways, <1>1, PTL

-----------------------------------------------------------------------------
\* The worker implements GenerateOnce: the insert makes the loan, and every
\* other step may only want more.
THEOREM LoansRefineGenerateOnce == Spec => LoansAreGeneratedOnce
<1>1. Init => Once!Init
  BY DEF Init, Once!Init, LoanWanted
<1>2. IInv /\ [Next]_vars => [Once!Next]_<<LoanWanted, loans>>
  <2> SUFFICES ASSUME IInv, Next \/ UNCHANGED vars
               PROVE  Once!Next \/ UNCHANGED <<LoanWanted, loans>>
    OBVIOUS
  <2>0. TypeOK /\ TypeOK'
    BY TypeStep DEF IInv
  <2>1. CASE InsertLoan
    <3>1. Owner[job] \in LoanWanted /\ Owner[job] \in Applications
      BY <2>0, <2>1 DEF InsertLoan, IInv, WorkerJustified, LoanWanted, TypeOK
    <3>2. loans[Owner[job]] = 0
      BY <2>1 DEF InsertLoan, IInv, InsertAllowed
    <3>3. loans' = [loans EXCEPT ![Owner[job]] = 1]
      BY <2>0, <2>1, <3>1, <3>2 DEF InsertLoan, TypeOK
    <3>4. UNCHANGED LoanWanted
      BY <2>1 DEF InsertLoan, LoanWanted, rows
    <3>5. \E item \in Applications : Once!Make(item)
      BY <3>1, <3>2, <3>3, <3>4 DEF Once!Make
    <3> QED
      BY <3>5 DEF Once!Next
  <2>2. CASE ~InsertLoan
    <3>1. UNCHANGED loans
      BY <2>2 DEF Next, Handlers, Work, CreateCondition, CompleteCondition,
         ReopenCondition, OfferLoan, ScheduleCron, StartCron, AddGenerateJob,
         EndCron, StartGenerate, CheckLoan, EndGenerate, FailJob, Crash, vars
    <3>2. LoanWanted' = LoanWanted \cup LoanWanted'
      BY <2>0, HistoryGrows DEF LoanWanted
    <3>3. LoanWanted' \in SUBSET Applications
      BY <2>0 DEF LoanWanted, TypeOK
    <3>4. Once!Want(LoanWanted')
      BY <3>1, <3>2, <3>3 DEF Once!Want
    <3> QED
      BY <3>3, <3>4 DEF Once!Next
  <2> QED
    BY <2>1, <2>2
<1> QED
  BY <1>1, <1>2, InvAlways, PTL
     DEF Spec, Once!Spec, LoansAreGeneratedOnce

=============================================================================
