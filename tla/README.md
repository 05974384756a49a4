# TLA+ models of hsf-backend

hsf-backend is the server of a property finance platform: home buyers apply for
a property, by mortgage, by installments or outright; HSF staff, lenders and
developers review the application, and payments go through Paystack. It is one
Node.js process (Express) over Postgres (knex), with Redis for caching and for
the queues of BullMQ. This directory holds TLA+ modules that model its core
flows, the TLC configurations that check them on small instances, and theorems
about them that TLAPS checks.

## How the program runs, and what every model assumes of it

- **One process, many requests.** Handlers interleave at every `await`. A
  handler typically reads rows, checks them, and then opens a transaction
  (`runWithTransaction`, `src/infrastructure/database/knex.ts:52-73`) that
  writes from what it read before. The models give such a handler two steps or
  more: a *read* that stores in the request's record what is read, and a
  *commit* that writes from the record, however stale.
- **One statement, one read.** `getApplicationById` reads the row of an application
  and then, in a second statement outside any transaction, its stages
  (`ApplicationRepository.ts:305-311`). A commit may fall in between, and a handler
  then has an old guard and new stages. Wherever a handler uses both, `ReadStages` is
  a step of its own; lists of documents and the approval of each are read by further
  statements, and further steps.
- **Postgres at READ COMMITTED.** A statement sees what has committed. A
  transaction is one step where no statement in it reads what another
  transaction can change in between to a different effect, and several steps
  with the lock of the row where it matters (`DipGeneration`). A handler with no
  transaction (the payments) commits after every statement, so every statement
  is a step.
- **Unique keys.** The migrations put no unique key on `dip.eligibility_id`,
  `loans.application_id`, `application`, `loan_offers`, `condition_precedents`,
  `application_document_entries`, `inspection` or `user_assignments`, and no model
  invents one: what is unique is so because of the code, or is not. There are
  unique keys on the e-mail of a user, the name and type of an organization and the
  user of a membership: `Organizations` is about what they make of crossing requests.
  Two rows of the same stage, which two crossing inserts may make, are one here.
- **BullMQ.** Each worker is created without a concurrency, so it runs one job
  at a time. A job scheduler keeps at most one cron job waiting. The cron jobs
  run in the same worker as the jobs they enqueue. Jobs are not retried, but a
  job that was active when the process stopped is stalled and handed out again.
- **Failures.** Any statement may fail and the process may stop at any await;
  an open transaction is rolled back. Faults are bounded by `MaxFaults`. The client of
  the cache is different: it catches its errors and answers null
  (`redisClient.ts:164-167`), so a key is lost and the handler goes on.
- Rows are never deleted in these flows, but for inspections. Identifiers are model
  values; amounts, dates, names, e-mails and notifications are left out, except
  where they decide.

## Inventory

For each component: its state, its operations, whom it interacts with, what is
hard, and what makes it correct. *Modelled by* names the module, or says why not.

### Prequalification and eligibility (`useCases/Properties/preQualify/prequalify.ts`)
State: `prequalify_status`, `eligibility` (Pending, Approved, Declined), a cached
form under an OTP. Operations: `storePreQualify`, `verification` (one eligibility
per property), `updatePrequalifierEligibility` (HSF's decision, which may insert
a DIP). Hard: the decision is checked on a stale row; the OTP's cached form may
be used twice. Correct when: a decision has its effect once. *Modelled by*
`DipGeneration` (the decision). The form writes its rows once, before the flows
begin, and is not modelled.

### DIP generation (`crons/dipCron.ts`, `queue/dipQueue.ts`, `worker/dipWorker.ts`)
State: the table `dip`, the queue. Operations: scheduler, cron, `generateDip` job.
Interacts with HSF's decision, which inserts in the same table. Hard: check then
insert in two paths, repeated jobs, stops. Correct when: an approved application
gets a DIP, and only one. *Modelled by* `DipGeneration`.

### DIP negotiation (`useCases/Developer/ManageDip.ts`)
State: `dip_status`, the answers of lender and home buyer, the fee, the stages.
Operations: `updateDip`, `lenderDipResponse`, `userDipResponse`. Interacts with the
payments, the webhook and the review of the documents, which write the same row.
Hard: the lender may answer at any time, also a DIP that is accepted or paid; a
refusal of the home buyer is asked for the fee too; all write from stale reads.
Correct when: the fee follows both answers, the documents follow its charge, and the
application is at a stage until a review is completed twice. *Modelled by* `DipNegotiation`, without `updateDip`,
which edits amounts.

### Mortgage payments and the Paystack webhook (`useCases/Payments/payments.ts`, `routes/webbook/utils.routes.ts`)
State: `payments` (reference, metadata, status), the payment linked to the DIP or
the loan decision, Paystack's transactions and undelivered events. Operations:
`inititateMortgagePaymentIntent`, the webhook. Hard: no transaction anywhere,
events delivered again and again, references renewed while an event is in flight.
Correct when: progress is made exactly for what was charged, in the end and not
twice. *Modelled by* `MortgagePayment`; the other payments are not.

### Application stages (`repositories/property/ApplicationRepository.ts`, `shared/utils/application-stages.ts`)
State: rows of `application_stages`, with an entry and an exit time. Operations:
`addApplicationStage`, `updateApplicationStage`. Every flow exits the stages it
read as open and enters the next. Hard: a stage is entered at most once, so a handler that
exits it again, having seen it open, leaves the application at no stage: the stages
are read after the row whose marks should keep a second handler out. *Modelled by* the operators
of `ApplicationStages`, used by `DocumentReview`, `MortgagePayment`,
`PropertyPurchase` and `DipNegotiation`.

### Document upload and review (`useCases/Application/application.ts:1550-2524`)
State: document entries with the approvals of HSF and the lender, the marks of the
two reviews on the DIP and on the condition precedent, offers, stages.
Operations: upload, answer, completion by HSF and by the lender, for the documents
before the offer and those after it. Hard: all decide on stale reads, of four
statements or more each; uploading twice; the webhook replaces the condition precedent
and has no transaction. Correct when: HSF's review ends
before the lender's begins, each on an approval of every type of document, and an
offer or a completed condition comes only of both. *Modelled by* `DocumentReview`.

### Loan offer, loan decision and loan agreement (`useCases/Loan/*.ts`, `application.ts:2526-2710`)
State: workflow and answer of the offer, status and letters of the agreement.
Operations: `updateLoanOffer`, `updateLoanOfferWorkflow`,
`homeBuyerLoanOfferRespond`, `submitSignedLoanOfferLetter`,
`setLoanAgreementLetter`, `approveLenderLoanAgreement`. Hard: letters set,
revoked and approved by requests that cross; an offer made Ready twice exits the
stage it entered. Correct when: nobody answers an offer that was never ready, and the
agreement's status fits its documents. *Modelled by* `LoanSigning`; what making an
offer ready does to the stages of the application, by `DocumentReview`.

### Condition precedent and loan creation (`crons/conditionPrecedentCron.ts`, `worker/conditionPrecedentWorker.ts`)
State: `condition_precedents`, `loans` with their schedule, the queue. Operations:
scheduler, cron, `generateLoan` job. Hard: as DIP generation; the cron's filter
keeps everything. Correct when: one loan, of an application with an offer and a
completed condition. *Modelled by* `LoanGeneration`.

### Loan repayment (`crons/loanRepaymentCron.ts`, `worker/loanRepaymentWorker.ts`)
State: repayment schedules, transactions. Hard: the cron's paging loop reads the
same first batch again and again in the worker that should empty it, so it never
ends when a repayment is due. *Not modelled*: see the end.

### Property purchase (`application.ts:401-1213`, `useCases/Properties/propertyPurchase.ts`)
State: offer letter, its review request and approval, property closing, escrow
status, stages. Operations: request and answer of each. Hard: `requestOfferLetter`
writes four rows with no transaction; two requests at once; a closing can be answered
again and again. Correct when: a letter, its review and its approval agree; an approved
closing has its escrow; the application is at one stage until then, unless a second
closing was made, and at none after. *Modelled by* `PropertyPurchase`. `scheduleEscrowMeeting` fails on every call.

### Inspections and the connection pool (`useCases/Properties/Inspection.ts`, `Developer/ManageInpections.ts`, `database/knex.ts`)
State: inspections of one user, the connections their booking holds. Operations:
booking with and without a fee, the developer's answer, the status set by
`PATCH /inspection/:inspection_id/status`, deletion. Hard: a booking
holds the connection of a transaction it never uses while it waits for others, and
with a fee never gives it back, to a pool of ten. Correct when: every request ends, and crossing bookings are bounded;
an answer is not final, see *What the code allows*. *Modelled by* `Inspections`;
rescheduling and a day's availability are left out.

### Accounts, one-time passwords and sessions (`useCases/Auth/*.ts`)
State: users; login attempts, locks, one-time codes and tokens, the last three in
the cache. Operations: login, verification, registration, reset. Hard: attempts
counted by requests that cross; two keys per token, written one after the other and
cleared by others, either of which may be lost. Correct when: failed logins are
bounded, and a token that was replaced or cleared never works again. *Modelled by* `Accounts`, without sessions
and the set-up of a second factor.

### Organizations and members; agents, clients and users (`useCases/ManageOrganizations.ts`, `useCases/Agent/*.ts`)
State: organizations, their profile as a lender or developer, owners, users and
memberships; the loan officer of an application. Operations: creation, employees,
invitation, suspension, activation, deletion, disabling and enabling. Hard: creations
and invitations cross on one name or e-mail; an invitation has no transaction; what
was read before a deletion is written after it. Correct when: an organization with an
owner is whole, and what is deleted stays deleted but where the code brings it
back. *Modelled by* `Organizations` and
`LoanOfficer`.

### The rest
Permissions, notifications, files, properties and developers, enquiries, routes and
validation, schema, query building: see *Not modelled*.

## The modules

| Module | Models | Uses |
| --- | --- | --- |
| `GenerateOnce` | abstract: what is wanted is made at most once | |
| `TwoStageReview` | abstract: HSF's review, then the lender's | |
| `ApplicationStages` | operators on the stage rows of an application | |
| `DipGeneration` | HSF's decisions, applications, DIP cron, queue and worker | refines `GenerateOnce` |
| `DocumentReview` | uploads and the two reviews of both groups of documents | `ApplicationStages`; refines `TwoStageReview` |
| `MortgagePayment` | the fees, Paystack, its webhook | `ApplicationStages` |
| `LoanGeneration` | condition precedents, loan cron, queue and worker | refines `GenerateOnce` |
| `LoanSigning` | offer and agreement: terms, workflow, answer, letters, signature | |
| `PropertyPurchase` | offer letter, closing, escrow | `ApplicationStages` |
| `DipNegotiation` | answers to a DIP, its fee, upload and end of the review | `ApplicationStages` |
| `Inspections` | booking, answer and deletion; the connection pool | |
| `LoanOfficer` | who is assigned to an application | |
| `Organizations` | organizations, owners, users, memberships | |
| `Accounts` | login attempts and lock, codes and tokens of one account | |
| `ApplicationMC` | instance of `PropertyPurchase`, `Inspections`, `DipNegotiation` and `LoanOfficer`: one application | |
| `PlatformMC` | instance of `Organizations` and `Accounts` | |
| other `*MC` | the constants of the runs | |
| `ApplicationProofs` | theorems about `PropertyPurchase`, and about the parts of `ApplicationMC` | `DipNegotiationProofs`, `TLAPS` |
| `PlatformProofs` | theorems about `Organizations`, and about the parts of `PlatformMC` | `TLAPS` |
| other `*Proofs` | theorems about `DipGeneration`, `DocumentReview`, `MortgagePayment`, `LoanGeneration`, `LoanSigning`, `DipNegotiation` | `TLAPS` |

`PROJECT.json` maps every definition to its lines. Definitions marked *Mutant* in a
comment are wrong on purpose and used by no specification: each stands for a
plausible bug, and replacing the definition that follows it makes TLC find the
property it is meant for violated.

### DipGeneration
`status`, `applications` and `dips` are the tables, counted per eligibility (and per
path for the DIPs). `handler[r]` is what request `r` has read: a decision
(`ReadEligibility`, `UpdateEligibility`, `CommitDecision`: the row lock is
`HoldsRow`) or an application (`ReadLastApplication`, `CommitApplication`). `queue`
is BullMQ's; `pc`, `job`, `todo` are the one worker, with the states *check* and
*insert* on the two sides of the await between its look and its insert, and *done*
between its commit and BullMQ's completion of the job. `approvals` is a history
variable. `Crash` loses requests and puts the active job back in front.

- `dip_generation`: one eligibility, two requests, three decisions, two
  applications, one fault. Three decisions are what approve, decline, approve needs;
  two requests what a race needs; two applications make the cron's join return the
  eligibility twice. Checks `TypeOK`, `NoMoreDipsThanApprovals`,
  `DipHasApplication`, the refinement `WorkerImplementsGenerateOnce`, and under
  fairness `ApprovedGetsDip` (the cron repairs an approval that came before the
  application, after a failed job too) and `JobsDrain`.
- `dip_generation_duplicate` (violated): `OneDipPerEligibility`, which the comment
  and the check of `dipWorker.ts:41` stand for. See Findings.

### DocumentReview
`entries` are the documents with their approvals (one of HSF, any number of the
lender: `hsfCompleteDocumentReview` adds one each time it completes). `dipStatus`,
`hsfCompleted`, `lenderCompleted` are on the DIP; `conditions` and `current` are the
condition precedents and the one the application points to. A request reads what its
handler reads, one statement a step: the row with its guards (`ReadForUpload`,
`ReadForHsf`, `ReadForLender`), the stages (`ReadStages`), the documents
(`ReadDocuments`), the approval of each in any order (`ReadApproval`); then it commits
(`CommitUpload`, `CommitHsf`, `CommitLender`). A commit is one step: its first statement
locks the row of the DIP, a stage or a review request, and no other row it reads decides.
`ReadForReady` and `CommitReady` are `updateLoanOfferWorkflow`, which locks the offer
before it reads. `RespondHsf`, `RespondLender` are `documentApprovalRespond`,
`DecideEligibility` HSF's decision. The webhook of the management fee has no
transaction: `ReadForFee`, `CreateCondition`, `AttachCondition`, `ExitStage`,
`LookForStage`, `InsertStage`, any of which may be the last (`Abort`). `reviewed` and
`again` are history variables: which type was ever approved by whom; and whether a request
completed a review, or made an offer ready, that another had completed or made ready.

- `document_review`: two documents, up to two lender's approvals, two offers and two
  condition precedents. A behaviour goes one of two ways (`way` in `DocumentReviewMC`):
  two requests that cross, on the first group and to make its offer ready, without a change
  of the eligibility after HSF's review; or both groups by one request at a time, crossed by
  the webhook, without a change of the eligibility or a rejection in the first group, which
  is left alone after the offer. Two documents are what `OverfullIsFinal` needs: a second
  upload of a type is accepted, and then no one can ever complete the review, because both
  completions want exactly as many documents as types. What crosses within both groups at once is proved, not
  checked. `MortgageReviewIsTwoStage` and
  `ConditionReviewIsTwoStage` are the refinements of `TwoStageReview` by the review of each group.
  `StageUntilAgain`: the application is at a stage until something is done a second time.
  Each of its exceptions is reachable: a second completion, by a
  request that read the mark before the first and the stages after it; an offer made ready
  once more, which `ManageLoanOffer.ts:257-282` allows and which exits the very stage it
  entered; a second condition precedent, whose webhook exits the stage it cannot enter
  again; a webhook between its exits and its entry, or stopped there.

Two things no property states, because nothing in the code says otherwise: an upload sets a
completed condition precedent back to Pending, and the lender, whose mark stays, cannot
complete it again (`application.ts:1746`); and every delivery of the management fee
attaches a new condition precedent in place of the one under review (`utils.routes.ts:101`),
while `ConditionReviewIsTwoStage` ranges over all of them.

### MortgagePayment
`payments` hold a reference and the reference inside their metadata, which are two
numbers after `RenewReference`. `paystack` are the transactions, `events` the
`charge.success` events not yet answered 200. `request[r]` walks through
`inititateMortgagePaymentIntent` statement by statement, `delivery[d]` through the
webhook. `Charge` and `Lapse` are the home buyer at Paystack. Assumed of Paystack:
a reference names one transaction, and one that `verify` reports as abandoned can
no longer be paid. There are no transfers to an application, so transfer events do
not occur. `CHECK_DEADLOCK FALSE`: when everything is paid and delivered, or the
bounds on references and rows are reached, the system may stop. A second delivery of
the DIP's fee sets the DIP back to Documents Pending (`utils.routes.ts:148`); nothing in
the code says that it must not, and no property does.

- `mortgage_payment_races`: the DIP's fee, two requests, two deliveries, one fault, four
  references (two payments of which one is renewed). `SuccessWasCharged`,
  `ProgressWasPaid` (of the fees of the decision it says something in its proof only).
- `mortgage_payment_applied`: both fees of the decision, two payments, one request and
  one delivery at a time, one fault, under fairness. `ChargedOnce` (two requests at once
  do pay twice; a success set back by `payments.ts:217` is what it would catch); `StageLossIsTemporary`: between the webhook's exit of the open stages and
  its entry of the next the application is at none, until the event is delivered again;
  `ChargeIsApplied`: with a fault after any statement, delivery until 200 applies every
  charge whose event names its payment. Room for four condition precedents keeps the
  bound out of the way of repeated deliveries.
- `mortgage_payment_renewed` (violated): `NoFurtherAction`. See Findings.

### LoanGeneration
The same shape as `DipGeneration`, with the handlers reduced to what they do to the
rows the worker reads: `CreateCondition`, `CompleteCondition`, `ReopenCondition`,
`OfferLoan`. `CompletedWithoutLoan` is the cron's list, with its filter that keeps
every row. `completed` is a history variable.

- `loan_generation`: one application with two condition precedents, two faults.
  `TypeOK`, `LoanNeedsOfferAndCondition`, the refinement
  `LoansAreGeneratedOnce`, and under fairness `CompletedGetsLoan`. Two condition
  precedents of one application make the jobs that could insert twice.
- `loan_generation_listed` (violated): `CronListsWithoutLoan`. See Findings.

### LoanSigning
`workflow`, `answer` and `signedLetter` are columns of the offer, `agreement`,
`lenderDoc` and `borrowerDoc` of the agreement, `offerStage` the one stage row these
handlers enter. `op[r]` is the write request `r` has still to do; its input is chosen
when it reads (the answer itself when it writes), and `seen[r]` is the workflow status it read, which `updateLoanOffer`
writes back. Each handler is a *ReadFor...* with its checks and a *Commit...*: one
statement, or a transaction whose first statement locks the row of the offer or whose
result does not depend on the order. `LeaveOffer` is the step of the upload (or of the
webhook) that takes the application out of the stage.

- `loan_signing`: three requests, so that an answer, a change of the offer and another
  of the agreement cross. `TypeOK`, `OfferWasReady`, `StatusFitsDocuments`. The module has no
  other bound: columns and one stage row are finite.
- `loan_signing_approved` (violated): `ApprovedHasAllDocuments`. See Findings.

What the code allows and nothing in it forbids: an answer recorded on an offer taken
back to Under Review, terms edited after the answer, a signature on a declined offer,
and the borrower's turn with a letter that was revoked during the approval. What an offer
made Ready again does to the stages is in `DocumentReview`.

### PropertyPurchase
`review`, `approval` and `letter` are the status of the rows a request for an offer letter
makes one by one (`MakeReview`, `MakeApproval`, `MakeLetter`, `AttachLetter`, any of which
may be the last: `LoseLetter`); `offerLetter`, `current` and `escrow` are the references of
the application; `closing` the closings. `ReadForAnswer`/`CommitAnswer` is
`requestOfferLetterRespond`, `ReadForClosing`/`ReadStages`/`CommitClosing` `requestPropertyClosing`,
`ReadForRespond`/`ReadStages`/`CommitRespond` `propertyClosingRespond`; `open` is the stages a
request read as open. `LetterIsReviewed`; `ClosingHasEscrow`; `AtOneStage`: never at two
stages, at none without an escrow only when a second closing was made (by a request
that read no closing and then the stage of the first), and for good at none with one.

### DipNegotiation
`lender`, `buyer`, `status`, `reviewed` are columns of the DIP, `fee` the payment linked to
it, `stages` the stage rows. Every handler is a *ReadFor...*, where it uses the stages a
`ReadStages`, for a completion a `ReadDocuments`, and a *Commit...*; `FeeCharged` is
the webhook, at any time once the fee is asked for. `charged` and `repeated` are history:
the fee was charged, which is what `PaidWasAnswered` is about (that a request may set a successful
payment back, `payments.ts:217`, is in `MortgagePayment`), and a review was
completed that had been already. `StageUntilRepeated`: the application is at a stage until
then. `ReofferNeedsRefusal`: a DIP that was accepted and is then answered again by the lender
waits for a home buyer whose acceptance is refused ("Dip already approved"), so it is paid
for only after a refusal, or moved on by a late event or an upload.

### Inspections
`inspection` are the rows, `leaked` the connections nobody will give back, `op` where each
request is. `Begin` takes the connection of the transaction; `FindSlot`, `Insert` and
`AskForFee` need a second one for a moment; `Commit` and `Rollback` give the first back, a
booking with a fee does not, nor one whose look for a slot gets no connection. `AcquireTimeout` is the 60 seconds after which knex gives
up. `ReadForStatus`/`UpdateStatus` is the developer's answer, which looks for a pending
inspection first; `SetStatus` the other route, which looks at nothing. `BookingBound`;
`RequestsEnd`: no set of bookings that hold what the others wait for stops the server for
good, only for the timeout.

### LoanOfficer
`officer` and `active` are the assignments, `current` the one the application refers to.
`ReadApplication`, `ReadAssignments` and the commits are the three awaits of
`setApplicationLoanOfficer`. `OneOfficer`: the current assignment is in force whatever
crosses; the only one in force, with one row per officer, as long as nothing did
(`crossed`): the code does not lock, and two requests at once do leave two officers.

- `application`: two requests, on the four parts above. None of them reads what another
  writes, so a behaviour takes one of the four (`part`), and their union is the state
  space. Two reviews, two closings and one fault are what answers that cross and a failed
  request need; three inspections and a pool of two let a booking find the pool empty for
  either reason (leaked, or held by the other request); three assignments let two
  requests begin one each beside the first. `CHECK_DEADLOCK FALSE`: with all connections
  leaked and all rows used nothing is left to do.

### Organizations
`org`, `owner` and `profile` are the organizations and their lenders or developers,
`account` and `member` the users. Creation (`CommitCreate`) and employees are transactions
that the unique keys roll back (`Fail`); an invitation is `InviteOrganization`, `InviteUser`,
`InviteMember`, `InviteProfile`, each of which may be the last; suspension, activation and
deletion mark the members too (activation, as the code has it, marks them Deleted).
`OwnersAreMembers`; `LostInvitationIsFinal`: an organization whose invitation stopped before
its profile can never be invited or created again. `factor` is what `verifyMfa` looks at:
whether a user has an authenticator (`SetUpFactor`), and a verified e-mail. `DeletedIsFinal`: a
deleted organization and its deleted members stay so for good once the requests that read
them before are done, since none that could change them begins any more (`Gone` is
stable), but for a user with an authenticator whose e-mail was never verified, whom
`verifyMfa` makes Active whatever the status.

### Accounts
`failures` and `locked` are the attempts in the window and the lock, `code` the one-time
codes, `verified`, `resetToken` and `named` the tokens and the keys that name a token's user,
`lost`, `made`, `retired` and `counted` history and what requests carry. Every statement is a step and
may be the last (`Fail`); a key may be lost while the handler goes on. Left out is a
look for the lock that fails, which the code takes for no lock and lets one more login begin. The times to live of tokens are milliseconds in the code and
seconds to Redis, over a month: they do not expire here. `LockBound` says by how much
requests that cross can exceed the threshold; `NoTokenComesBack` that a token which was replaced
or cleared is never the user's token again.

- `platform`: two requests, on one of the two parts. Two organizations and two users are
  what creations need to cross on a name, on an e-mail, or on neither; threshold 1, five
  failures and one lost lock reach the bound and leave room above it; two tokens let a
  reset replace another. Authenticators and verified e-mails are of one user at a time, while a
  name is left (`OneFactor`). `CHECK_DEADLOCK FALSE`: with all names and codes used nothing is left to do.

## Fairness

Only what a scheduler does is fair: BullMQ keeps making the cron job and running
the worker (`WF` of `ScheduleCron` and of `Work`); a request that was received runs
to its end, and Paystack delivers an event until it is answered 200 (`WF` of each
request's, each delivery's steps and of `Receive` for each event). A booking or an
answer to an inspection goes on (`WF` of `Proceed`), because each of its statements ends
or its wait for a connection does, after 60 seconds. No person is
obliged to act: liveness properties say what follows when something *stays* true.
Faults are never fair, and are bounded.

## Proofs

For every value of the constants:

- `DipGenerationProofs`: `TypeCorrect`, `WorkerUniqueDip`, `DipsBoundedByApprovals`,
  `DipBelongsToApplication`, `WorkerRefinesGenerateOnce`.
- `LoanGenerationProofs`: `TypeCorrect`, `UniqueLoan`, `LoanIsDue`,
  `LoansRefineGenerateOnce`.
- `LoanSigningProofs`: `TypeCorrect`, `AnswersFollowReady`, `AgreementFits`, for any
  set of requests and with no assumption.
- `DocumentReviewProofs`: `TypeCorrect`, `OverfullStays`, `MortgageRefinesReview`,
  `ConditionRefinesReview`, `ReviewKeepsStage`.
- `MortgagePaymentProofs`: `TypeCorrect`, `SuccessIsCharged`, `ProgressIsPaid`,
  `StageIsFound`, `OneAtATimeIsChargedOnce`.
- `DipNegotiationProofs`: `TypeCorrect`, `FeeFollowsAnswers`, `StageUntilSecondReview`,
  `ReofferIsStuck`, of the module alone.
- `ApplicationProofs`: of `PropertyPurchase`, `TypeCorrect`, `PapersAreWhole`, `StagesFollow`,
  `EscrowFollows`; of `ApplicationMC`, `PartsTypeCorrect`, `BookingsAreBounded`
  (inspections), `PaymentFollowsAnswers`, `NegotiationKeepsStage`, `ReofferWaits`
  (negotiation), `OfficerInForce` (loan officer).
- `PlatformProofs`: of `Organizations`, `TypeCorrect`, `OwnersBelong`, `LostNameStays`,
  `DeletionStays`; of `PlatformMC`, `PartsTypeCorrect`, `FailuresAreBounded`,
  `NoTokenReturns`.

Every invariant, action property and refinement that a passing run checks is among them.

Assumptions: bounds are naturals; the names of the cron job, of no job, of no payment
and of nothing are not those of rows; every condition precedent has an application; the
two groups of documents have no type in common, and types and documents are finite;
the fees are that of the DIP, or are among the two of the decision; the requests in
flight are finitely many where they are counted (inspections, accounts), and for accounts
at least one. Each is a named definition of the module it is about, an `ASSUME` there or,
for the modules that are instantiated, in `ApplicationMC` or `PlatformMC`.
`OneAtATimeIsChargedOnce` has a hypothesis besides: any two requests are the same one,
as in the run. Without it the property is false: two requests at once each make a payment.

An invariant of the runs is seldom inductive: it says nothing of the request that has
read and not yet written. Each `IInv` adds what such a request can rely on although others
write meanwhile, and the proofs are mostly about why that survives their steps. Lemmas
(`Frame`, `...Kept`, `ReadStep`) dispose of steps that touch nothing an invariant is about, of
the request that ends, and of the one that begins; each other action has its own step.

- **The two generators.** `IInv` adds why each job is in flight (`QueueJustified`,
  `WorkerJustified`: the row was approved, or completed, once; this never stops being true
  because it is about the past), and what the worker's look leaves true until its insert
  (`InsertAllowed`). The last is stable for two different reasons. A loan is inserted by
  the worker only. A DIP is inserted by HSF's decision too, and what survives that is the
  *difference*: a decision adds one approval with each DIP, so one approval stays without
  its DIP. The refinements follow: the insert is `Make`, every step that adds a reason is
  `Want`, the rest stutter.
- **LoanSigning.** A request that will answer or sign, or will write back Ready, read that
  status (`InFlight`), and the status was committed with the stage, whose row is never
  removed.
- **DocumentReview.** A completion commits on approvals that may be withdrawn meanwhile.
  What keeps the refinement is that approvals *given* are not forgotten, that documents are
  only added, and that the lender has approvals to answer only once HSF completed its part
  (`OnDocuments`); `InFlight` says the same of what a request has read. In
  `TwoStageReview` the approvals are what was ever given, so a stale commit is still its step.
  `ReviewKeepsStage` is about all handlers of the stages at once. Each exits the stages it read
  as open and enters one, unless that one is there. Before anything is done a second time, a
  handler that finds its target there read the stages before the target was entered; what reads them
  later has a guard that says so. `StageInv` makes this exact: what was read
  as open is still among the rows (`StagesKnown`), the stages a review enters follow its
  marks (`StagesMarked`), and there is an open stage that no upload and no webhook will exit
  whose own stage was entered by another (`OneKept`, `StaysOpen`, `Late`). Where the
  property makes an exception the invariant does (`Excepted`): the argument breaks there, and so does
  the code.
- **MortgagePayment.** References are renewed while events and requests about the old ones
  are in flight. A number, wherever it is kept (row, metadata, Paystack, a request or a
  delivery in flight), is of one payment for good: `Numbered`, a function from numbers to
  payments of which every step keeps an extension. Hence an event names the payment that
  was charged, or none, and `Asks`, `Delivers` and `Tables` carry the charge from Paystack to
  what it moves on. `StageInv`: with one condition precedent the delivery that made it is the
  only one past it, so the application has entered the stage (`Entered`) or the event of a
  management fee is still there to be delivered (`Entering`); without one, every delivery of
  that fee still has its event. `OnceInv`: a transaction that is not abandoned has the
  reference its payment has now, so a payment has one of them at most; and the payment of
  a fee that was brought to Paystack is the one linked, where the next request finds it.
- **PropertyPurchase.** `PapersCarried` says how far the papers of a request for a letter
  are; `StagesAre` gives the stages by how far the closing is; `DealCarried` that a request which
  closes has read the first stage as open, unless a closing was made after it had read the
  row: its own then is a second one (`MadeTwice`), and only that may exit the stage of the closing.
- **DipNegotiation.** `Answered` says how the status, and a request that read it, follow from
  the answers; `StagesAre` in which order the stages are entered, and `StagesSeen` what of that order a
  request in flight has seen: an upload that saw no upload saw no decision, and a completion that saw the
  decision comes after another. `ApplicationProofs` takes these from an instance of
  `DipNegotiationProofs`.
- **Inspections.** `RoomToBook`: the inspections that are booked and the bookings under way are
  together no more than the requests; a booking that begins saw no inspection, and one that
  inserts its row leaves the second number for the first. The connections held and leaked
  never exceed the pool, because each statement that takes one found one free.
- **LoanOfficer.** `CameAlone`: as long as no two requests crossed, what a request read of the
  assignments is what they are.
- **Organizations.** `Carried`: what a request is about exists, and the member an invitation
  is about to make owns nothing, since the account was made after every organization that
  has an owner. The two action properties follow by one step per action; the one about what is
deleted needs `OwnMembership` besides: who is about to get a membership has none, so no
invitation under way moves a deleted member elsewhere.
- **Accounts.** `LockCount`: each failed login that is under way beyond the threshold will set
  the lock. Counted are those that will not, because they counted at most the threshold
  (`Small`), and those that are about to (`Locking`); a lock that is lost, or
  deleted by an older success, allows each request in flight one attempt more. `AtTheKeys` says that a request about to write
  the keys of a token has made it, that nobody else is about to write them, and that it never was the
  token of the user: so it cannot be one that was retired.

Only model-checked: liveness (`ApprovedGetsDip`, `JobsDrain`, `CompletedGetsLoan`,
`ChargeIsApplied`, `RequestsEnd`). Liveness under fairness and `ENABLED` are out of the
prover's reach, as is induction over data; no module here needs the last.

## Findings

- **Two DIPs for one eligibility** (`dip_generation_duplicate`). The worker looks for a
  DIP before it inserts one, HSF's approval does not look, and nothing makes a look and
  an insert one step. Two approvals in flight, an approval within the worker's check, or
  approve, decline, approve each leave two rows. Proved nevertheless: never more DIPs
  than approvals, and one at most from the worker.
- **A payment with no effect** (`mortgage_payment_renewed`). After an abandoned
  transaction a payment gets one new reference in `reference` and another in its
  metadata (`payments.ts:259-267`). The event of the charge names the second, the
  webhook finds no payment and answers 404; the next request marks the payment as made
  and answers that no further action is required.
- **The loan cron lists everything** (`loan_generation_listed`). The filter of
  `findCompletedConditionPrecedentsWithoutLoan` has an asynchronous callback, so every
  completed condition precedent is enqueued every minute for ever. The worker's look
  keeps the loan unique.
- **An agreement approved by one side** (`loan_signing_approved`). `loanEnum.ts:73-77`
  says that an approved agreement has been approved by lender and borrower and has all
  its documents; `submitSignedLoanOfferLetter` sets it Approved whatever its status and
  with no letter of the lender.

## What the code allows

The models reach the following as the code does. The properties are stated around them, and so say
what holds besides.

- **No stage after a second completion.** Two completions of a review by the lender may both read
  the mark before either sets it; when the second reads the stages after the first
  committed, it exits the stage just entered, `addApplicationStage` answers with the row that exists, and
  the application is at none (`ApplicationRepository.ts:305-311`). `StageUntilAgain`, `StageUntilRepeated`.
- **No stage after an offer is made ready again** (`ManageLoanOffer.ts:257-282`). `StageUntilAgain`.
- **Two closings at once.** `application.ts:604` answers a second request "You have an ongoing property closing
  request", but the look is before the transaction: two requests make two closings, and in one order
  the second leaves no stage. `AtOneStage`.
- **An answered inspection answered again.** `ManageInpections.ts:261` refuses it ("Inspection status
  has already been updated"); `PATCH /inspection/:inspection_id/status` (`inspection.routes.ts:82-96`,
  `Inspection.ts:202-207`) writes any status over any other. No property is about a status that was
  answered.
- **A deleted, banned or suspended user made Active.** `login` refuses such a user (`Auth.ts:519`); the second factor
  (`Auth.ts:778-786`) makes a user Active whose e-mail is not verified, whatever the status. `DeletedIsFinal`.
- **A token that resets nothing.** The key that names its user may be lost (`redisClient.ts:164-167`) while the
  token itself is set (`Auth.ts:207`, `543`). The user has to ask for another, and `NoTokenComesBack`
  holds all the same.

## Not modelled

The map covers what decides: the handlers whose order, staleness or failure matters. It is
a small part of the repository by lines, and could not honestly be a large one: most of
its lines are e-mail templates, seeds and migrations, routes, controllers, validation
schemas, type declarations, repositories that build SQL text, and handlers that read or write
one row.

- **Loan repayment.** The worker charges nothing yet, and `overdueLoanCron` is never started.
  The loop of `loanRepaymentCron.ts:31` has no state but the batch it asks for, and nothing in
  the repository promises that it ends. The amounts and the number of payments of a loan
  (`loanCalculationService.ts`, `conditionPrecedentWorker.ts:127`) are floating-point powers
  of fractions, which neither TLC nor TLAPS evaluates.
- **`scheduleEscrowMeeting`** looks its organization up by the id of the application and fails
  whatever the state; its answer has nothing to answer. The handlers of `propertyPurchase.ts`
  are reached by no route, and the worker of paid video inspections is never started.
- **`updateDip`** and the terms of offers edit amounts, which decide nothing here.
- **Prequalification form, sessions, the set-up of a second factor, profiles and roles,
  rescheduling and a day's availability, the payments of service offerings, transfers and
  analytics.** Each reads and writes its own rows; nothing modelled here reads them.
- **Properties and developers, enquiries and service offerings.** Single rows, one handler
  each, and no two of them relate.
- **Permissions** are a pure check at the start of a request: the models take the actors it lets
  through. **Notifications, server-sent events and e-mail**: nothing waits for them or reads
  them back. **Files**: pure I/O. **Routes, controllers and validation** decide which inputs reach a
  use case: the models enumerate those. **Pagination and query helpers** build SQL text; what
  a query selects is modelled where a handler depends on it. **Schema and seeds**: read for keys.
  **Cache**: its keys are variables of `Accounts` where a handler depends on them; the others
  hold copies of reads.

What would come next: the rescheduling of inspections against a day's slots; sessions, in
`Accounts`.
