------------------------ MODULE DipGenerationProofs ------------------------
(***************************************************************************)
(* Proofs about DipGeneration, for any eligibilities, requests and bounds. *)
(* The invariants of the runs are not inductive: an old job, or the worker *)
(* between its check and its insert, would break them. IInv adds what the  *)
(* check and the cron's query leave true until the insert.                 *)
(***************************************************************************)
EXTENDS DipGeneration, TLAPS

\* What every job in flight was made from.
Justified(e) == approvals[e] >= 1 /\ HasApplication(e)

ApprovedCounted ==
    \A e \in Eligibilities : status[e] = "Approved" => approvals[e] >= 1

QueueJustified ==
    \A i \in 1 .. Len(queue) : queue[i] \in Eligibilities => Justified(queue[i])

WorkerJustified ==
    /\ \A e \in Eligibilities : todo[e] > 0 => Justified(e)
    /\ pc \in {"check", "insert", "done"}
         => job \in Eligibilities /\ Justified(job)

HandlerJustified ==
    \A r \in Requests :
        handler[r].op = "transaction" =>
            (handler[r].app # NoApplication => HasApplication(handler[r].e))

\* An approval is still without its DIP while the worker is about to insert.
InsertAllowed ==
    pc = "insert" =>
        /\ dips[job]["worker"] = 0
        /\ dips[job]["hsf"] + 1 <= approvals[job]

Safe ==
    /\ WorkerGeneratesOnce
    /\ NoMoreDipsThanApprovals
    /\ DipHasApplication

IInv ==
    /\ TypeOK
    /\ ApprovedCounted
    /\ QueueJustified
    /\ WorkerJustified
    /\ HandlerJustified
    /\ InsertAllowed
    /\ Safe

-----------------------------------------------------------------------------
\* Tables, queue and requests start empty, and in their types.
LEMMA TypeInit == Init => TypeOK
  BY DEF Init, TypeOK, Statuses, HandlerStates, Idle, WorkerStates,
         NothingTodo

\* Every step of every actor keeps the variables in their types.
LEMMA TypeStep == TypeOK /\ [Next]_vars => TypeOK'
<1> SUFFICES ASSUME TypeOK, [Next]_vars PROVE TypeOK'
  OBVIOUS
<1> USE DEF TypeOK, rows, worker
<1>1. ASSUME NEW r \in Requests, NEW e \in Eligibilities, NEW ok \in BOOLEAN,
             ReadEligibility(r, e, ok)
      PROVE  TypeOK'
  BY <1>1 DEF ReadEligibility, HandlerStates
<1>2. ASSUME NEW r \in Requests, UpdateEligibility(r) PROVE TypeOK'
  <2>1. handler[r] \in [op : {"decide"}, e : Eligibilities, eligible : BOOLEAN]
    BY <1>2 DEF UpdateEligibility, HandlerStates, Idle
  <2> QED
    BY <1>2, <2>1 DEF UpdateEligibility, HandlerStates
<1>3. ASSUME NEW r \in Requests, CommitDecision(r) PROVE TypeOK'
  <2>1. handler[r] \in [op : {"transaction"}, e : Eligibilities,
                        eligible : BOOLEAN,
                        app : PurchaseTypes \cup {NoApplication}]
    BY <1>3 DEF CommitDecision, HandlerStates, Idle
  <2> QED
    BY <1>3, <2>1 DEF CommitDecision, HandlerStates, Statuses, Sources
<1>4. ASSUME NEW r \in Requests, NEW e \in Eligibilities,
             NEW t \in PurchaseTypes, ReadLastApplication(r, e, t)
      PROVE  TypeOK'
  BY <1>4 DEF ReadLastApplication, HandlerStates
<1>5. ASSUME NEW r \in Requests, CommitApplication(r) PROVE TypeOK'
  <2>1. handler[r] \in [op : {"apply"}, e : Eligibilities, type : PurchaseTypes]
    BY <1>5 DEF CommitApplication, HandlerStates, Idle
  <2> QED
    BY <1>5, <2>1 DEF CommitApplication, HandlerStates
<1>6. CASE ScheduleCron
  BY <1>6 DEF ScheduleCron, Jobs
<1>7. CASE StartCron
  <2>1. ApprovedWithoutDip \in [Eligibilities -> Nat]
    BY DEF ApprovedWithoutDip, PurchaseTypes
  <2> QED
    BY <1>7, <2>1 DEF StartCron, WorkerStates, Jobs
<1>8. ASSUME NEW e \in Eligibilities, AddGenerateJob(e) PROVE TypeOK'
  BY <1>8 DEF AddGenerateJob, WorkerStates, Jobs
<1>9. CASE EndCron
  BY <1>9 DEF EndCron, WorkerStates, WorkerStops, NothingTodo
<1>10. CASE StartGenerate
  BY <1>10 DEF StartGenerate, WorkerStates, Jobs
<1>11. CASE CheckDip
  BY <1>11 DEF CheckDip, WorkerStates, WorkerStops, NothingTodo
<1>12. CASE InsertDip
  <2>1. job \in Eligibilities
    BY <1>12 DEF InsertDip
  <2> QED
    BY <1>12, <2>1 DEF InsertDip, WorkerStates, Sources
<1>13. CASE FailJob
  BY <1>13 DEF FailJob, WorkerStates, WorkerStops, NothingTodo
<1>14. CASE Crash
  <2>1. handler' \in [Requests -> HandlerStates]
    BY <1>14 DEF Crash, HandlerStates
  <2>2. pc # "idle" => <<job>> \in Seq(Jobs)
    BY DEF WorkerStates, Jobs
  <2>3. queue' \in Seq(Jobs)
    BY <1>14, <2>2 DEF Crash
  <2> QED
    BY <1>14, <2>1, <2>3 DEF Crash, WorkerStates, WorkerStops, NothingTodo
<1>15. CASE EndGenerate
  BY <1>15 DEF EndGenerate, WorkerStates, WorkerStops, NothingTodo
<1>16. CASE UNCHANGED vars
  BY <1>16 DEF vars
<1> QED
  BY <1>1, <1>2, <1>3, <1>4, <1>5, <1>6, <1>7, <1>8, <1>9, <1>10, <1>11,
     <1>12, <1>13, <1>14, <1>15, <1>16 DEF Next, Decide, Apply, Work

\* Type correctness of the DIP generation.
THEOREM TypeCorrect == Spec => []TypeOK
  BY TypeInit, TypeStep, PTL DEF Spec

-----------------------------------------------------------------------------
\* Nothing is in flight when the program starts, so nothing needs a reason.
LEMMA InvInit == Init => IInv
<1> SUFFICES ASSUME Init PROVE IInv
  OBVIOUS
<1>1. TypeOK
  BY TypeInit
<1>2. ApprovedCounted /\ QueueJustified /\ HandlerJustified /\ InsertAllowed
  BY DEF Init, ApprovedCounted, QueueJustified, HandlerJustified,
         InsertAllowed, Idle
<1>3. WorkerJustified
  BY DEF Init, WorkerJustified, NothingTodo
<1>4. Safe
  BY DEF Init, Safe, WorkerGeneratesOnce, NoMoreDipsThanApprovals,
         DipHasApplication, HasDip, Sources
<1> QED
  BY <1>1, <1>2, <1>3, <1>4 DEF IInv

\* Nothing takes away what justified a job: approvals and applications only
\* accumulate.
LEMMA JustifiedStays ==
  ASSUME TypeOK, NEW e \in Eligibilities, Next \/ UNCHANGED vars
  PROVE  /\ HasApplication(e) => HasApplication(e)'
         /\ Justified(e) => Justified(e)'
<1> DEFINE Grows == /\ approvals'[e] >= approvals[e]
                    /\ \A t \in PurchaseTypes :
                          applications'[e][t] >= applications[e][t]
<1>1. Grows
  <2>1. ASSUME NEW r \in Requests, CommitDecision(r) PROVE Grows
    BY <2>1 DEF CommitDecision, TypeOK
  <2>2. ASSUME NEW r \in Requests, CommitApplication(r) PROVE Grows
    <3>1. handler[r].e \in Eligibilities /\ handler[r].type \in PurchaseTypes
      BY <2>2 DEF CommitApplication, TypeOK, HandlerStates, Idle
    <3> QED
      BY <2>2, <3>1 DEF CommitApplication, TypeOK
  <2>3. CASE UNCHANGED <<applications, approvals>>
    BY <2>3 DEF TypeOK
  <2> QED
    BY <2>1, <2>2, <2>3 DEF Next, Decide, Apply, Work, ReadEligibility,
       UpdateEligibility, ReadLastApplication, ScheduleCron, StartCron,
       AddGenerateJob, EndCron, StartGenerate, CheckDip, InsertDip, EndGenerate,
       FailJob, Crash, rows, vars
<1>2. HasApplication(e) => HasApplication(e)'
  <2> SUFFICES ASSUME NEW t \in PurchaseTypes, applications[e][t] > 0
               PROVE  applications'[e][t] > 0
    BY DEF HasApplication
  <2> QED
    BY <1>1, TypeStep DEF TypeOK
<1>3. Justified(e) => Justified(e)'
  BY <1>1, <1>2, TypeStep DEF Justified, TypeOK
<1> QED
  BY <1>2, <1>3

\* The parts of IInv that a step cannot disturb when it leaves alone the
\* variables they are about.
LEMMA Frame ==
  ASSUME IInv, Next \/ UNCHANGED vars
  PROVE  /\ UNCHANGED queue => QueueJustified'
         /\ UNCHANGED worker => WorkerJustified'
         /\ WorkerStops => WorkerJustified' /\ InsertAllowed'
         /\ UNCHANGED handler => HandlerJustified'
         /\ UNCHANGED <<status, approvals>> => ApprovedCounted'
         /\ UNCHANGED <<worker, dips, approvals>> => InsertAllowed'
         /\ UNCHANGED <<dips, approvals>> => Safe'
<1> USE DEF IInv
<1>0. TypeOK /\ TypeOK'
  BY TypeStep
<1>1. ASSUME UNCHANGED queue PROVE QueueJustified'
  <2> SUFFICES ASSUME NEW i \in 1 .. Len(queue), queue[i] \in Eligibilities
               PROVE  Justified(queue[i])'
    BY <1>1 DEF QueueJustified
  <2>1. Justified(queue[i])
    BY DEF QueueJustified
  <2> QED
    BY <1>1, <2>1, JustifiedStays
<1>2. ASSUME UNCHANGED worker PROVE WorkerJustified'
  BY <1>2, JustifiedStays DEF WorkerJustified, worker
<1>3. ASSUME WorkerStops PROVE WorkerJustified' /\ InsertAllowed'
  BY <1>3 DEF WorkerStops, WorkerJustified, InsertAllowed, NothingTodo
<1>4. ASSUME UNCHANGED handler PROVE HandlerJustified'
  <2> SUFFICES ASSUME NEW r \in Requests, handler[r].op = "transaction",
                      handler[r].app # NoApplication
               PROVE  HasApplication(handler[r].e)'
    BY <1>4 DEF HandlerJustified
  <2>1. handler[r].e \in Eligibilities
    BY DEF TypeOK, HandlerStates, Idle
  <2>2. HasApplication(handler[r].e)
    BY DEF HandlerJustified
  <2> QED
    BY <1>4, <2>1, <2>2, JustifiedStays
<1>5. ASSUME UNCHANGED <<status, approvals>> PROVE ApprovedCounted'
  BY <1>5 DEF ApprovedCounted
<1>6. ASSUME UNCHANGED <<worker, dips, approvals>> PROVE InsertAllowed'
  BY <1>6 DEF InsertAllowed, worker
<1>7. ASSUME UNCHANGED <<dips, approvals>> PROVE Safe'
  <2>1. WorkerGeneratesOnce' /\ NoMoreDipsThanApprovals'
    BY <1>7 DEF Safe, WorkerGeneratesOnce, NoMoreDipsThanApprovals
  <2>2. DipHasApplication'
    BY <1>7, JustifiedStays DEF Safe, DipHasApplication, HasDip
  <2> QED
    BY <2>1, <2>2 DEF Safe
<1> QED
  BY <1>1, <1>2, <1>3, <1>4, <1>5, <1>6, <1>7

\* No step of a handler, of the worker or of a fault takes away what the
\* invariant says of the jobs in flight and of the rows they made.
LEMMA InvStep == IInv /\ [Next]_vars => IInv'
<1> SUFFICES ASSUME IInv, Next \/ UNCHANGED vars PROVE IInv'
  OBVIOUS
<1>0. TypeOK /\ TypeOK'
  BY TypeStep DEF IInv
<1> USE DEF rows
<1>1. ASSUME NEW r \in Requests, NEW e \in Eligibilities, NEW ok \in BOOLEAN,
             ReadEligibility(r, e, ok)
      PROVE  IInv'
  <2>1. HandlerJustified'
    <3> SUFFICES ASSUME NEW q \in Requests, handler'[q].op = "transaction",
                        handler'[q].app # NoApplication
                 PROVE  HasApplication(handler[q].e)'
      BY DEF HandlerJustified
    <3>1. q # r /\ handler'[q] = handler[q]
      BY <1>0, <1>1 DEF ReadEligibility, TypeOK
    <3> QED
      BY <1>1, <3>1 DEF ReadEligibility, IInv, HandlerJustified, HasApplication
  <2> QED
    BY <1>0, <1>1, <2>1, Frame DEF ReadEligibility, IInv
<1>2. ASSUME NEW r \in Requests, UpdateEligibility(r) PROVE IInv'
  <2>1. HandlerJustified'
    <3> SUFFICES ASSUME NEW q \in Requests, handler'[q].op = "transaction",
                        handler'[q].app # NoApplication
                 PROVE  HasApplication(handler'[q].e)
      BY <1>2 DEF HandlerJustified, HasApplication, UpdateEligibility
    <3>1. CASE q = r
      BY <1>0, <1>2, <3>1 DEF UpdateEligibility, TypeOK
    <3>2. CASE q # r
      BY <1>0, <1>2, <3>2 DEF UpdateEligibility, TypeOK, IInv, HandlerJustified
    <3> QED
      BY <3>1, <3>2
  <2> QED
    BY <1>0, <1>2, <2>1, Frame DEF UpdateEligibility, IInv
<1>3. ASSUME NEW r \in Requests, CommitDecision(r) PROVE IInv'
  <2> DEFINE e  == handler[r].e
             ok == handler[r].eligible
  <2>1. e \in Eligibilities /\ ok \in BOOLEAN
    BY <1>0, <1>3 DEF CommitDecision, TypeOK, HandlerStates, Idle
  <2>2. /\ approvals'[e] = IF ok THEN approvals[e] + 1 ELSE approvals[e]
        /\ dips'[e]["worker"] = dips[e]["worker"]
        /\ dips'[e]["hsf"] <= dips[e]["hsf"] + (IF ok THEN 1 ELSE 0)
        /\ \A f \in Eligibilities \ {e} :
              approvals'[f] = approvals[f] /\ dips'[f] = dips[f]
              /\ status'[f] = status[f]
    BY <1>0, <1>3, <2>1 DEF CommitDecision, TypeOK, Sources
  <2>3. ApprovedCounted'
    BY <1>0, <1>3, <2>1, <2>2 DEF CommitDecision, ApprovedCounted, IInv, TypeOK
  <2>4. HandlerJustified'
    BY <1>0, <1>3 DEF CommitDecision, HandlerJustified, HasApplication, IInv,
                      TypeOK, Idle
  <2>5. InsertAllowed'
    <3> SUFFICES ASSUME pc = "insert"
                 PROVE  /\ dips'[job]["worker"] = 0
                        /\ dips'[job]["hsf"] + 1 <= approvals'[job]
      BY <1>3 DEF CommitDecision, InsertAllowed, worker
    <3>1. job \in Eligibilities
      BY <1>0 DEF TypeOK
    <3>2. dips[job]["worker"] = 0 /\ dips[job]["hsf"] + 1 <= approvals[job]
      BY DEF IInv, InsertAllowed
    <3>3. CASE job = e
      BY <1>0, <2>1, <2>2, <3>2, <3>3 DEF TypeOK, Sources
    <3>4. CASE job # e
      BY <2>2, <3>1, <3>2, <3>4
    <3> QED
      BY <3>3, <3>4
  <2>6. WorkerGeneratesOnce' /\ NoMoreDipsThanApprovals'
    <3> SUFFICES ASSUME NEW f \in Eligibilities
                 PROVE  /\ dips'[f]["worker"] <= 1
                        /\ dips'[f]["hsf"] + dips'[f]["worker"] <= approvals'[f]
      BY DEF WorkerGeneratesOnce, NoMoreDipsThanApprovals
    <3>1. /\ dips[f]["worker"] <= 1
          /\ dips[f]["hsf"] + dips[f]["worker"] <= approvals[f]
      BY DEF IInv, Safe, WorkerGeneratesOnce, NoMoreDipsThanApprovals
    <3>2. CASE f = e
      BY <1>0, <2>1, <2>2, <3>1, <3>2 DEF TypeOK, Sources
    <3>3. CASE f # e
      BY <2>2, <3>1, <3>3
    <3> QED
      BY <3>2, <3>3
  <2>7. DipHasApplication'
    <3> SUFFICES ASSUME NEW f \in Eligibilities, HasDip(f)'
                 PROVE  HasApplication(f)
      BY <1>3 DEF CommitDecision, DipHasApplication, HasApplication
    <3>1. CASE HasDip(f)
      BY <3>1 DEF IInv, Safe, DipHasApplication
    <3>2. CASE ~HasDip(f)
      <4>1. f = e /\ ok /\ handler[r].app # NoApplication
        BY <1>0, <1>3, <3>2, <2>1 DEF CommitDecision, HasDip, TypeOK, Sources
      <4> QED
        BY <1>3, <4>1 DEF CommitDecision, IInv, HandlerJustified
    <3> QED
      BY <3>1, <3>2
  <2> QED
    BY <1>0, <1>3, <2>3, <2>4, <2>5, <2>6, <2>7, Frame
       DEF CommitDecision, IInv, Safe
<1>4. ASSUME NEW r \in Requests, NEW e \in Eligibilities,
             NEW t \in PurchaseTypes, ReadLastApplication(r, e, t)
      PROVE  IInv'
  <2>1. HandlerJustified'
    BY <1>0, <1>4 DEF ReadLastApplication, HandlerJustified, HasApplication,
                      IInv, TypeOK
  <2> QED
    BY <1>0, <1>4, <2>1, Frame DEF ReadLastApplication, IInv
<1>5. ASSUME NEW r \in Requests, CommitApplication(r) PROVE IInv'
  <2>1. HandlerJustified'
    <3> SUFFICES ASSUME NEW q \in Requests, handler'[q].op = "transaction",
                        handler'[q].app # NoApplication
                 PROVE  HasApplication(handler[q].e)'
      BY DEF HandlerJustified
    <3>1. handler'[q] = handler[q]
      BY <1>0, <1>5 DEF CommitApplication, TypeOK, Idle
    <3>2. handler[q].e \in Eligibilities
      BY <1>0, <3>1 DEF TypeOK, HandlerStates, Idle
    <3> QED
      BY <1>0, <3>1, <3>2, JustifiedStays DEF IInv, HandlerJustified
  <2> QED
    BY <1>0, <1>5, <2>1, Frame DEF CommitApplication, IInv, worker
<1>6. CASE ScheduleCron
  <2>1. QueueJustified'
    BY <1>0, <1>6, JobsAssumption, JustifiedStays
       DEF ScheduleCron, QueueJustified, IInv, TypeOK, CronJob
  <2> QED
    BY <1>0, <1>6, <2>1, Frame DEF ScheduleCron, IInv
<1>7. CASE StartCron
  <2>1. QueueJustified'
    BY <1>0, <1>7, JustifiedStays
       DEF StartCron, QueueJustified, IInv, TypeOK
  <2>2. WorkerJustified' /\ InsertAllowed'
    <3> SUFFICES ASSUME NEW e \in Eligibilities, ApprovedWithoutDip[e] > 0
                 PROVE  Justified(e)'
      BY <1>7 DEF StartCron, WorkerJustified, InsertAllowed
    <3>1. status[e] = "Approved" /\ applications[e]["Mortgage"] > 0
      BY DEF ApprovedWithoutDip
    <3>2. Justified(e)
      BY <3>1 DEF Justified, IInv, ApprovedCounted, HasApplication, PurchaseTypes
    <3> QED
      BY <3>2, <1>0, JustifiedStays
  <2> QED
    BY <1>0, <1>7, <2>1, <2>2, Frame DEF StartCron, IInv
<1>8. ASSUME NEW e \in Eligibilities, AddGenerateJob(e) PROVE IInv'
  <2>1. Justified(e)'
    BY <1>0, <1>8, JustifiedStays DEF AddGenerateJob, IInv, WorkerJustified
  <2>2. QueueJustified'
    BY <1>0, <1>8, <2>1, JustifiedStays
       DEF AddGenerateJob, QueueJustified, IInv, TypeOK
  <2>3. WorkerJustified' /\ InsertAllowed'
    BY <1>0, <1>8, <2>1, JustifiedStays
       DEF AddGenerateJob, WorkerJustified, InsertAllowed, IInv, TypeOK
  <2> QED
    BY <1>0, <1>8, <2>2, <2>3, Frame DEF AddGenerateJob, IInv
<1>9. CASE EndCron
  BY <1>0, <1>9, Frame DEF EndCron, IInv
<1>10. CASE StartGenerate
  <2>1. QueueJustified'
    BY <1>0, <1>10, JustifiedStays
       DEF StartGenerate, QueueJustified, IInv, TypeOK
  <2>2. Head(queue) \in Eligibilities /\ Justified(Head(queue))
    BY <1>0, <1>10 DEF StartGenerate, QueueJustified, IInv, TypeOK, Jobs
  <2>3. WorkerJustified' /\ InsertAllowed'
    BY <1>0, <1>10, <2>2, JustifiedStays
       DEF StartGenerate, WorkerJustified, InsertAllowed, IInv
  <2> QED
    BY <1>0, <1>10, <2>1, <2>3, Frame DEF StartGenerate, IInv
<1>11. CASE CheckDip
  <2>1. CASE HasDip(job)
    BY <1>0, <1>11, <2>1, Frame DEF CheckDip, IInv
  <2>2. CASE ~HasDip(job)
    <3>1. job \in Eligibilities /\ Justified(job)
      BY <1>11 DEF CheckDip, IInv, WorkerJustified
    <3>2. dips[job]["worker"] = 0 /\ dips[job]["hsf"] = 0
      BY <1>0, <2>2, <3>1 DEF HasDip, TypeOK, Sources
    <3>3. InsertAllowed'
      BY <1>0, <1>11, <2>2, <3>1, <3>2
         DEF CheckDip, InsertAllowed, Justified, TypeOK
    <3>4. WorkerJustified'
      BY <1>0, <1>11, <2>2, <3>1, JustifiedStays
         DEF CheckDip, WorkerJustified, IInv
    <3> QED
      BY <1>0, <1>11, <2>2, <3>3, <3>4, Frame DEF CheckDip, IInv
  <2> QED
    BY <2>1, <2>2
<1>12. CASE InsertDip
  <2>1. job \in Eligibilities /\ Justified(job)
    BY <1>12 DEF InsertDip, IInv, WorkerJustified
  <2>2. /\ dips'[job]["worker"] = dips[job]["worker"] + 1
        /\ dips'[job]["hsf"] = dips[job]["hsf"]
        /\ \A f \in Eligibilities \ {job} : dips'[f] = dips[f]
    BY <1>0, <1>12, <2>1 DEF InsertDip, TypeOK, Sources
  <2>3. WorkerGeneratesOnce' /\ NoMoreDipsThanApprovals'
    <3> SUFFICES ASSUME NEW f \in Eligibilities
                 PROVE  /\ dips'[f]["worker"] <= 1
                        /\ dips'[f]["hsf"] + dips'[f]["worker"] <= approvals[f]
      BY <1>12 DEF InsertDip, WorkerGeneratesOnce, NoMoreDipsThanApprovals
    <3>1. CASE f = job
      BY <1>0, <1>12, <2>1, <2>2, <3>1
         DEF InsertDip, IInv, InsertAllowed, TypeOK, Sources
    <3>2. CASE f # job
      BY <2>2, <3>2 DEF IInv, Safe, WorkerGeneratesOnce, NoMoreDipsThanApprovals
    <3> QED
      BY <3>1, <3>2
  <2>4. DipHasApplication'
    <3> SUFFICES ASSUME NEW f \in Eligibilities, HasDip(f)'
                 PROVE  HasApplication(f)
      BY <1>12 DEF InsertDip, DipHasApplication, HasApplication
    <3>1. CASE f = job
      BY <2>1, <3>1 DEF Justified
    <3>2. CASE f # job
      BY <2>2, <3>2 DEF HasDip, IInv, Safe, DipHasApplication
    <3> QED
      BY <3>1, <3>2
  <2>5. WorkerJustified' /\ InsertAllowed'
    BY <1>0, <1>12, <2>1, JustifiedStays
       DEF InsertDip, WorkerJustified, InsertAllowed, IInv
  <2> QED
    BY <1>0, <1>12, <2>3, <2>4, <2>5, Frame DEF InsertDip, IInv, Safe
<1>13. CASE FailJob
  BY <1>0, <1>13, Frame DEF FailJob, IInv
<1>14. CASE Crash
  <2>1. HandlerJustified'
    BY <1>14 DEF Crash, HandlerJustified, Idle
  <2>2. QueueJustified'
    <3>1. CASE pc = "idle"
      BY <1>14, <3>1, Frame DEF Crash
    <3>2. CASE pc # "idle"
      <4>1. job \in Jobs /\ (job \in Eligibilities => Justified(job))
        BY <1>0, <3>2, JobsAssumption
           DEF TypeOK, WorkerStates, Jobs, IInv, WorkerJustified, CronJob
      <4>2. queue' = <<job>> \o queue
        BY <1>14, <3>2 DEF Crash
      <4> SUFFICES ASSUME NEW i \in 1 .. Len(queue'),
                          queue'[i] \in Eligibilities
                   PROVE  Justified(queue'[i])
        BY <1>0, JustifiedStays DEF QueueJustified
      <4>3. CASE i = 1
        BY <1>0, <4>1, <4>2, <4>3 DEF TypeOK
      <4>4. CASE i # 1
        <5>1. i - 1 \in 1 .. Len(queue) /\ queue'[i] = queue[i - 1]
          BY <1>0, <4>1, <4>2, <4>4 DEF TypeOK
        <5> QED
          BY <5>1 DEF IInv, QueueJustified
      <4> QED
        BY <4>3, <4>4
    <3> QED
      BY <3>1, <3>2
  <2> QED
    BY <1>0, <1>14, <2>1, <2>2, Frame DEF Crash, IInv
<1>15. CASE EndGenerate
  BY <1>0, <1>15, Frame DEF EndGenerate, IInv
<1>16. CASE UNCHANGED vars
  BY <1>0, <1>16, Frame DEF vars, worker, IInv
<1> QED
  BY <1>1, <1>2, <1>3, <1>4, <1>5, <1>6, <1>7, <1>8, <1>9, <1>10, <1>11,
     <1>12, <1>13, <1>14, <1>15, <1>16 DEF Next, Decide, Apply, Work

\* The inductive invariant holds in every reachable state.
LEMMA InvAlways == Spec => []IInv
  BY InvInit, InvStep, PTL DEF Spec

\* Whatever the interleaving of approvals, applications, cron runs, jobs,
\* failures and crashes, the two paths together insert at most one DIP for
\* each approval of an eligibility (dipWorker.ts:30-79, prequalify.ts:253-299).
THEOREM DipsBoundedByApprovals == Spec => []NoMoreDipsThanApprovals
<1>1. IInv => NoMoreDipsThanApprovals
  BY DEF IInv, Safe
<1> QED
  BY InvAlways, <1>1, PTL

\* The worker inserts at most one DIP for an eligibility, over all its jobs.
THEOREM WorkerUniqueDip == Spec => []WorkerGeneratesOnce
<1>1. IInv => WorkerGeneratesOnce
  BY DEF IInv, Safe
<1> QED
  BY InvAlways, <1>1, PTL

\* Every DIP has an application of its eligibility to belong to.
THEOREM DipBelongsToApplication == Spec => []DipHasApplication
<1>1. IInv => DipHasApplication
  BY DEF IInv, Safe
<1> QED
  BY InvAlways, <1>1, PTL

-----------------------------------------------------------------------------
\* The worker implements GenerateOnce: its insert is the one step that makes a
\* DIP; every other step leaves what is made alone and may only want more.
THEOREM WorkerRefinesGenerateOnce == Spec => WorkerImplementsGenerateOnce
<1> DEFINE Made == [e \in Eligibilities |-> dips[e]["worker"]]
<1>1. Init => Once!Init
  BY DEF Init, Once!Init, Wanted, Sources
<1>2. IInv /\ [Next]_vars => [Once!Next]_<<Wanted, Made>>
  <2> SUFFICES ASSUME IInv, Next \/ UNCHANGED vars
               PROVE  Once!Next \/ UNCHANGED <<Wanted, Made>>
    OBVIOUS
  <2>0. TypeOK
    BY DEF IInv
  <2>1. CASE InsertDip
    <3>1. job \in Eligibilities /\ Justified(job)
      BY <2>1 DEF InsertDip, IInv, WorkerJustified
    <3>2. job \in Wanted /\ Made[job] = 0
      BY <2>0, <2>1, <3>1
         DEF InsertDip, IInv, InsertAllowed, Wanted, Justified, TypeOK
    <3>3. Made' = [Made EXCEPT ![job] = 1]
      <4>1. \A e \in Eligibilities :
               dips'[e]["worker"] = IF e = job THEN 1 ELSE dips[e]["worker"]
        BY <2>0, <2>1, <3>1, <3>2 DEF InsertDip, TypeOK, Sources
      <4> QED
        BY <3>1, <4>1
    <3>4. UNCHANGED Wanted
      BY <2>1 DEF InsertDip, Wanted, HasApplication
    <3>5. \E item \in Eligibilities : Once!Make(item)
      BY <3>1, <3>2, <3>3, <3>4 DEF Once!Make
    <3> QED
      BY <3>5 DEF Once!Next
  <2>2. CASE ~InsertDip
    <3>1. Made' = Made
      <4>1. ASSUME NEW r \in Requests, CommitDecision(r) PROVE Made' = Made
        <5>1. \A e \in Eligibilities :
                 dips'[e]["worker"] = dips[e]["worker"]
          BY <2>0, <4>1 DEF CommitDecision, TypeOK, Sources
        <5> QED
          BY <5>1
      <4>2. CASE UNCHANGED dips
        BY <4>2
      <4> QED
        BY <2>2, <4>1, <4>2 DEF Next, Decide, Apply, Work, ReadEligibility,
           UpdateEligibility, ReadLastApplication, CommitApplication,
           ScheduleCron, StartCron, AddGenerateJob, EndCron, StartGenerate,
           CheckDip, EndGenerate, FailJob, Crash, rows, vars
    <3>2. Wanted' = Wanted \cup Wanted'
      <4>1. ASSUME NEW e \in Wanted PROVE e \in Wanted'
        <5>1. e \in Eligibilities /\ Justified(e)
          BY <2>0, <4>1 DEF Wanted, Justified, TypeOK
        <5>2. Justified(e)'
          BY <2>0, <5>1, JustifiedStays
        <5>3. TypeOK'
          BY <2>0, TypeStep
        <5> QED
          BY <5>1, <5>2, <5>3 DEF Wanted, Justified, TypeOK
      <4> QED
        BY <4>1
    <3>3. Wanted' \in SUBSET Eligibilities
      BY DEF Wanted
    <3>4. Once!Want(Wanted')
      BY <3>1, <3>2, <3>3 DEF Once!Want
    <3> QED
      BY <3>3, <3>4 DEF Once!Next
  <2> QED
    BY <2>1, <2>2
<1> QED
  BY <1>1, <1>2, InvAlways, PTL
     DEF Spec, Once!Spec, WorkerImplementsGenerateOnce

=============================================================================
