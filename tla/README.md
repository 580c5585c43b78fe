# CarbonSite: verification of capture, import, calculation, publication and billing

CarbonSite (`src/`) collects a construction company's activity data, turns it into
greenhouse gas figures and publishes them to auditors. This directory models the parts of it
where several actors share state and where an invocation can die between two statements, and
states what the code promises there. Everything is translated from the TypeScript under `src/`.

## 1. The system

A Next.js application over one PostgreSQL database (Prisma, READ COMMITTED unless a route says
otherwise), deployed in one of two ways:

* **inline** (`JOB_PROCESSING_MODE` unset, Vercel): long jobs run inside the HTTP request that
  starts them, which the platform ends after `maxDuration` (60 s); cron routes sweep up what
  was left unfinished;
* **worker**: jobs go through pg-boss queues to a long-lived process (`workers/index.ts`).

Components, the state they keep and how they interact:

| Component | State | Operations | Interacts with |
|---|---|---|---|
| Calculation run engine `lib/calculation/run-worker.ts` | `CalculationRun` (status, claim timestamp, interruption count, progress), `EmissionCalculation`, live `DashboardAggregate`/`DashboardSlice` rows, supplier priorities, uncertainty, `SupplierDataRequest` | claim, chunk, pause, finalise, fail | called by the calculation routes, the continue endpoint, the sweep, pg-boss |
| Period triggers `calculation-runs/route.ts`, `field-submissions/trigger-calculation.ts`, `scheduling/calculation-scheduler.ts` | `CalculationRun.triggerHash` | look for a run in flight, create, dispatch | create runs for the engine |
| Snapshots `publish-snapshot`, `snapshots` routes | `PublishedSnapshot` and its copies of the live rows | publish, verify, assure, share | copies what the engine wrote |
| Factor selection, units, Monte Carlo (`lib/calculation/*`) | none (pure), caches per invocation | select a factor, convert, sample | called per record by the engine |
| Scope 2 instruments `lib/calculation/scope2-*.ts`, `energy-instruments` routes | `EnergyAttributeInstrument`, the allocation of a chunk in memory | allocate certificates to records, write the rows they back | loaded anew by every chunk of a run, from records users edit meanwhile |
| Imports `lib/imports` | `ImportBatch`, `StagedActivityRecord` | upload, parse in resumable chunks, commit, delete, sweep | creates activity records |
| Field submissions `lib/field-submissions`, `field-submissions` routes | `FieldSubmission` (status, form, unique idempotency key), linked evidence | submit, resubmit, edit, claim, approve, reject, ask for information, each singly or in bulk | creates approved records, triggers runs, answers the mobile app |
| Activity records | `ActivityRecord.reviewStatus` | create, edit, review, delete | read by runs |
| Reports `lib/reports`, `reports`, `branding` and `admin/schedule/reports` routes | `Report` (status, attempts, request hash), files in object storage | request, render, sweep, delete, drop from the cache when a branding save changes the logo | rendered by requests and sweeps, which are killed at a limit |
| Waste records `lib/waste`, `lib/material/receive.ts`, `environmental-metrics.ts`, `waste-records`, `waste/documents` and `material/movements` routes | `WasteDocument`, `MaterialMovement`, `WasteRecord`, an approved `ActivityRecord` and a run for each, `EnvironmentalMetricAggregate` | review one note or many, receive, type in, upload, edit, delete; each save calculates its record and rebuilds the totals of its period; its activity record is amended, reviewed and removed by hand | creates activity records and runs beside the engine's; the `activity-records` routes write the former |
| Evidence seals `lib/evidence/seal.ts` | `RecordSeal` (hash chain per record) | seal, verify | written after an approval |
| Audit chain `lib/db/audit.ts`, `lib/audit`, `members/[memberId]` route | `AuditLog` (hash chain per organisation), anchors | append, verify, anonymise, anchor; a deleted account leaves its rows without an author | written by every route |
| Jobs `lib/jobs`, `workers` | pg-boss queues | dispatch, retry, dead letter | run the others |
| Field app draft queue `mobile/lib/features/sync`, `core/storage` | `draft_submissions` on the phone | capture, drain, retry, recover after a restart | field submission routes, over a lossy connection |
| Billing `webhooks/stripe`, `billing/subscription`, `platform/orgs`, `lib/billing` | `StripeWebhookEvent`, `BillingSubscription`, `Organization.plan`, usage counters | handle an event, subscribe, change plan, cancel, check a limit; the platform sets a plan by hand | Stripe, which delivers events until they are acknowledged; limits guard the routes |
| The rest (UI, marketing, social value, tenders, connectors, LLM assistance) | their own tables | CRUD | - |

What is hard in it: claims that are timestamps without owners, read-then-write routes at READ
COMMITTED, work that is cut into chunks and resumed by whoever calls next, invocations killed
between two statements, two copies of one figure (aggregates and slices, live and snapshot)
that are written by different statements, and a phone and a payment provider that repeat what
the server may already have done. Section 6 lists what follows from it.

### What makes each component correct

* **Run engine**: one invocation works on a run at a time; a run that says it succeeded shows
  every record it was responsible for, each counted once; only deaths use up its attempts; it
  ends.
* **Period triggers, dashboard, snapshots**: an approval reaches the dashboard; every figure is
  counted once however runs overlap; readers never see a blank dashboard; a snapshot is a copy
  of one state, numbered without gaps.
* **Imports**: a file is staged once, under one content of the reference data, and becomes
  records all or none; a resumed parse neither loses nor repeats a row; parsing ends.
* **Field submissions and the field app**: a capture becomes one submission and never
  disappears; an approval makes exactly one record, out of a form that was checked; a decision
  stands.
* **Scope 2 instruments**: a certificate backs no more consumption than it covers, where and
  when it applies, the preferred ones first; however a run is cut, its rows are one allocation;
  a record is counted for exactly what it states.
* **Audit chain**: the log is append-only, each entry has one successor, and the checks report
  nothing that the application did itself, but for two things it does to old rows.
* **Reports**: a report is rendered by one invocation at a time, a bounded number of times, ends,
  has its files when it says so, and is not served with a logo that a branding save has replaced.
* **Waste records**: a load makes one record; a record is in the inventory once, with its
  present period, and its present weight unless somebody amended it there; the totals of a period
  are those of its records.
* **Billing**: no event is dropped, the rows follow what Stripe reports, nobody has a plan that
  nobody pays for unless the platform gave it, and overlapping or retried requests for one price
  charge once.
* **Schedules**: the next run is in the future, on the day asked for.

## 2. Modules

| Module | Models | Checked by |
|---|---|---|
| `CalculationRun` | one run: claim, chunks, finalisation, cancel, continue, sweep, death at any statement | `MC_CalculationRun` |
| `CalculationRun_proofs` | the theorems about it, that it implements `SoleWorker`, and what follows | TLAPS |
| `SoleWorker` | the abstract run: one worker, no claims, no time, no deaths | `calc_lease`, as the property `ImplementsSoleWorker` |
| `PeriodRuns` | all runs of one period: the trigger paths, the live swap at READ COMMITTED, snapshots | `MC_PeriodRuns` |
| `PeriodFigures_proofs` | the theorems about `PeriodRuns`, for any runs and publishers, and about `MarketAllocation`, for any records, instruments and changes | TLAPS |
| `ImportBatch` | one import: upload, resumable parse, sweep, commit, delete | `MC_ImportBatch` |
| `ImportBatch_proofs` | its four invariants, for files of any length and any invocations | TLAPS |
| `FieldSubmission` | the server's side of field submissions: submit, resubmit, edit, review, bulk review | through `DraftSync` |
| `DraftSync` | the phone's draft queue, composed with `FieldSubmission` | `MC_DraftSync` |
| `DraftSync_proofs` | the invariants and the action property of both | TLAPS |
| `MarketAllocation` | Scope 2 instruments: the allocation as a function, and a run in chunks that rebuilds it among users' changes | `MC_MarketAllocation` |
| `AuditChain` | one organisation's audit trail: writes, the walk, anonymisation, anchors | `MC_AuditChain` |
| `AuditChain_proofs` | its three invariants, and that it implements `AppendOnlyLog` | TLAPS |
| `AppendOnlyLog` | the abstract trail: a log, callers and what they were told | `audit_walk`, as the property `ImplementsLog` |
| `ReportRender` | one report asked for several times: requests, sweeps, deletion, uploaded and saved logos | `MC_ReportRender` |
| `ReportRender_proofs` | its safety properties, for any requests, sweeps and deletions | TLAPS |
| `WasteRecords` | transfer notes, loads and waste records, their calculations and totals, and the changes made to them by hand | `MC_WasteRecords` |
| `WasteRecords_proofs` | its four invariants, for any requests, notes, loads and periods | TLAPS |
| `Billing` | one organisation's subscription: Stripe, its events, the webhook, the route and the plan set by hand | `MC_Billing` |
| `Billing_proofs` | its three invariants, for any prices and plans, deliveries, requests and bounds | TLAPS |

`PeriodRuns` uses what `CalculationRun` establishes (`ImplementsSoleWorker`): a run has one
worker. In exchange it has several runs, their transactions and their publishers. `DraftSync`
EXTENDS `FieldSubmission` and calls its `Request`, `EndRequest` and `Abandon`; server steps leave the
phone's variable alone, and phone steps that send nothing leave the server's.

### CalculationRun

One action per database statement of `run-worker.ts`; what an invocation has read and not yet
used is in `hand`. `pc` names the statement it executes next:

| `pc` | Statement | Action |
|---|---|---|
| `claim` | first `updateMany` of `claimRun` (stale claim), else the second (free claim) | `ReclaimStale`, `ClaimFresh`, `ClaimRefused` |
| `reclaimed`, `exhausted` | count the interruption, give the run up | `CheckInterruptions`, `FailExhausted` |
| `chunk`, `size` | read the row, count the records, set running or fail | `BeginChunk`, `SizeRun`, `FailEmptyRun` |
| `load`, `write`, `beat`, `beatCut` | page, `createMany(skipDuplicates)`, progress and heartbeat | `LoadPage`, `FindNothingLeft`, `WritePage`, `Heartbeat` |
| `pause` | release the claim and return | `PauseRun` |
| `totals` ... `succeed` | finalisation | `LoadRunCalculations`, `RebuildDashboard`, `WriteDerived`, `FindActiveRequest`, `CreateRequest`, `Succeed` |
| `failing`, `caught` | the worker's catch, then the caller's | `Throw`, `FailRun`, `ThrowInClaim`, `CallerCatch` |

`Die` ends an invocation anywhere, as the platform does. Time is counted in ticks: `age` of
each invocation, `lock` of the claim since its last heartbeat. `KilledAtLimit` is TRUE for the
inline deployment: no tick passes for an invocation that has reached `MaxDuration`. The
record loop (factor selection, units, formula) is abstracted to which records of the page were
reached before the chunk deadline; the values it computes are not modelled.

### PeriodRuns

`aggs` and `slices` are the committed live tables, as the set of runs whose rows they hold. A
swap is a transaction of five steps: each `deleteMany` first sees what is committed (`saw`),
then waits for rows another transaction is deleting, then deletes those still there; the
commit publishes deletes and inserts together. This is PostgreSQL's READ COMMITTED, which no
route changes. A trigger request looks for a run in flight and creates one in two steps; its
hash is the path and a minute. A publisher copies aggregates and slices in two statements
under the advisory lock that numbers versions.

Abstractions: a page is all unprocessed records; the worker's death and resumption is only kept
inside the swap (`InterruptSwap`), the rest being `CalculationRun`'s; a run swaps once; billing,
usage limits and missing libraries are one nondeterministic refusal (`TurnDown`), which the
automatic path does not have while a methodology and a library are installed.

### ImportBatch

One action per database or storage statement, in three kinds of process.

| Process | Actions | Code |
|---|---|---|
| upload | `StoreFile`, `StoreFails`, `MarkParsing` | `imports/route.ts`: row first, then the object, then `parsing` and the parse in the same invocation |
| sweep | `SweepRead`, `SweepBump`, `SweepLost`, `SweepFail` | `schedule/import-batches/route.ts`, `lib/imports/retry.ts`: a compare-and-set on `updatedAt`, then a parse or the failure |
| parse | `ClaimBatch`, `ClaimRefused`, `ReadBatch`, `SetAside`, `NoteEmptyFile`, `ResumeStaging`, `RestartStaging`, `StageChunk`, `StopStaging`, `Yield`, `FinishParse`, `Throw`, `CatchParse` | `lib/imports/worker.ts`, `staging-plan.ts` |
| commit | `CommitCheck`, `CommitLoad`, `CommitFlip`, `CommitRefused` | `commit/route.ts`: rows are read outside the transaction that flips the batch |
| delete | `DeleteCheck`, `DeleteFile`, `DeleteRow`, `DeleteFails` | `[importId]/route.ts` |

A chunk stands for its 500 rows and remembers the content of the reference data (categories,
facilities, business units) it was validated under; whether its rows are ready or in error is a
function of that (`CleanUnder`). `referenceFingerprint` is that content, which `ChangeReference`
may change at any moment. Only the inline deployment is modelled: `LeaseAssumption` orders
60 s against `IMPORT_STALE_MS` of 180 s.

### FieldSubmission and DraftSync

A request is a small program: `LookUp`, `TurnDown`, `CreateRow`, `LinkFiles` for the submit and
resubmit routes, with `FailRequest` for an exception or a kill at any of them. A review opens by
reading rows (`OpenApproval`, `OpenBulkApproval`, `OpenDecision`, `OpenBulkRejection`,
`OpenEdit`), keeps them in `todo`, and writes later (`ApproveSubmission`, `Decide`,
`RejectAll`, `EditRow`); others may act in between. An approval is one transaction per row, a
bulk approval several in any order, cut short by `EndReview`.

The phone drains one draft at a time (`StartDraft`, `ReadReply`); it can lose the connection
while the server carries on (`LoseConnection`), be killed and restarted (`RestartApp`), and be
asked to try failed drafts again (`RetryDraft`). `MaxAttempts` is `_maxAttempts`.

Abstractions: a form is what `approvalBlocker` and the record look at; the rewriting of
category and facility during an approval is part of it; reading the original and looking for
the idempotency key are one step of a resubmission; marking a draft syncing, uploading its
photo and sending it are one step of the phone, since nobody else sees the difference; keys are
numbered in the order of capture; deleting a failed draft is left out, as it changes nothing
the properties read. Review claims, seals, review tasks, comments, audit entries and
notifications are left out: no modelled decision reads them.

### MarketAllocation

`AllocationOf` is `allocateInstruments`, a function of two tables: a fold over the records by
date, inside it a fold over the instruments by preference, each drawing what is left of both. A
loop over a sorted array is a fold over the set that comes to the last element (`LatestOf`,
`LastChoice`) last. `Allocation` applies it to the tables of the moment. `InOrder` is its
reference definition: it says of the result, not of the loops, what has to be true.
`DrawnInOrder` is that for every combination of the records and instruments of the instance and
in every state users bring them to.

A run is `OpenChunk` (the loader: the allocation of this moment), `WriteRows` (one page;
the loop may be cut after any record, which ends the chunk), `CloseChunk` and `Finish`; between
any two, `Approve`, `Withdraw`, `Edit`, `AddInstrument` and `DeleteInstrument`, which look at no
run. A row is what each instrument covers of a record and what is left to the library's factor.
Whether the library has a factor for a record, and in a unit it converts to, is part of the
record (`fits`, `misfits`, `none`). A chunk that dies is a chunk that is closed; runs, claims
and statements are `CalculationRun`'s.

### AuditChain and AppendOnlyLog

| Process | Actions | Code |
|---|---|---|
| write | `BeginWrite`, `TakeLock`, `ReadPrevious`, `Insert`, `Commit`, `Rollback` | `writeAuditLog`, one transaction under an advisory lock; the number is from a sequence, which a rollback does not give back |
| walk | `StartWalk`, `Feed`, `EndWalk` | `verifyAuditChain`, `ChainVerifier`, row by row among the writes |
| retention | `Anonymise` | `anonymiseExpiredAuditRows`, one UPDATE of the oldest rows |
| anchors | `ReadHead`, `PutAnchor`, `PutLatest`, `AnchorFails` | `lib/audit/anchor.ts`: two objects, overlapping jobs |
| accounts | `DeleteAccount` | `members/[memberId]/route.ts:141`: the foreign key of `actor_user_id` is ON DELETE SET NULL |

A hash is the sequence of the entries it covers, so a collision is impossible by construction;
that is the one cryptographic assumption. `LegacyChains` is what the table may hold from before
version 2, links broken by the writer that had no lock included. The mapping onto
`AppendOnlyLog`: the log is the head's hash, a caller is told when its call returns.

`Author` says whose call an entry is of. Deleting an account takes the author off all rows he
wrote (`Unsigned`) and leaves their hashes, which cover him, as they are: such a row no longer
says what its hash covers, and the walk reports it until it is anonymised. `ChainHolds` and
`FalseAlarmsAreKnown` except these rows (`Orphaned`, by the history variable `gone`), and only
these. A call whose author is gone by the time it inserts fails on the same key; that is one of
the ways a call is rolled back.

### ReportRender

Each invocation is a program with a program counter and an age; `Tick` passes no invocation
over `MaxDuration`, and `Die` ends one anywhere. Requests: `Ask`, `Drop`, `Refuse`, `Create`
(the unique request hash decides between two). Renders, in requests and sweeps: `Load`, `Start`,
`Render`, `Put` for each file, `MarkReady`, `Fail`. Sweeps: `Sweep`, `Claim` (by the time since
the row was last written), `GiveUp`. Deletions: `FindDoomed`, `RemoveObjects`, `RemoveRow`.
A branding save is `OpenSave` (it reads the logo in use and decides whether it changes),
`WriteLogo` and, if it does, `Bust`; `SaveDies` comes between the last two. `UploadLogo` is the other
route that replaces the logo, which drops no report from the cache. What a report contains is
left out except the logo it was rendered with.

### WasteRecords

A request is a program in `job`; what it read stays there until it is used.

| Request | Actions | Code |
|---|---|---|
| review, one or many | `Submit`, `Decide`, `RemoveNote`, `Review`, `Bulk…`, `Accept` | `waste/accept.ts` (one transaction, the note claimed first), `triage-load.ts`, `bulk-accept/route.ts` |
| receive | `ReceiveLoad`, `Receive`, `Mark`, `MarkWrites`, `RemoveMove` | `material/receive.ts`, `material/movements` routes |
| form, sheet | `Create`, `Upload`, `UploadRow`, `UploadEnds`, `Open`, `Edit`, `Delete` | `waste-records` routes |
| save | `SyncRead`, `MakeActivity` and `LinkActivity` or `UpdateActivity`, `Calculate`, `WriteFigure` | `syncWasteRecordCalculation` |
| totals | `RebuildReads`, `RebuildClears`, `RebuildCommits`, `SaveWater` | `rebuildEnvironmentalMetricAggregates` |
| by hand | `AmendActivity`, `ReviewActivities`, `RemoveActivity` | `activity-records` routes (PATCH, `bulk-review`, `review`, DELETE), `records/[recordId]` |
| | `ApproveTicket`, `UpdateMove` | `lib/field-submissions/approve.ts` for a waste ticket; PATCH of a received load |

What is written by hand neither saves nor rebuilds. An amended amount stands until the next save
of the waste record (`amended`), a review also after it (`reviewed`); an activity record can be
removed until it is calculated, which leaves the waste record without its link, and a save that
meets this throws (`ActivityGone`).

An exception and a kill are both `Die`. Totals are kept per writer (`totals[p][h]`), so that rows
doubled by two overlapping rebuilds are seen as two. CO2e stands for the weight it was computed
from. `latest` is the one row of a period's latest waste run, for `EarlierRowsSuperseded`.

### Billing

An event is its number, and carries the state it was sent with. Stripe's side is external:
`StatusChanges` and `InvoiceSettles` by `Lives`, the life of a subscription, and the answers to
requests.

| Process | Actions | Code |
|---|---|---|
| webhook | `Deliver`, `RecordEvent`, `AnswerDuplicate`, `FindBilling`, `WriteSubscription` or `WritePayment`, `WritePlan`, `Acknowledge`, `FailEvent`, `DieHandling` | `webhooks/stripe/route.ts` |
| subscribe | `Subscribe`, `AskStripe` (`ChangePrice` or `Create`), `SaveAnswer`, `SavePlan`, `Refused` | `billing/subscription/route.ts` POST, `lib/billing/stripe.ts` |
| cancel | `BeginCancel`, `CancelAtPeriodEnd`, `SaveStatus`, `Refused` | the same, DELETE |
| operator | `SetPlan` | `platform/orgs/[orgId]/route.ts` PATCH: any plan, Stripe not asked |

A plan has a price for each interval (`PlanOf`). Requests and idempotency keys name the price;
rows and events name the plan. The end of a subscription takes away the plans that are sold
(`Plans`) and leaves another (`Enterprise`). `overridden` says that the plan is the operator's.

An event that was not acknowledged is delivered again, at any time, also while an earlier
delivery is handled. An idempotency key keeps the first answer (`keys`; a day, so for the whole
of a behaviour; it also names the card, of which there is one). History variables say from which version of Stripe's state each field was last
written (`at`) and whether something older ever replaced something newer (`disturbed`).

## 3. Runs

| Run | Question | Bounds and why they suffice |
|---|---|---|
| `calc_lease` | does the ownerless claim exclude, are only deaths counted, do resumed runs publish complete figures once, and is all of it as if one worker did it? | 2 records in one page, so a page can be cut and an approval can come between pages; one death, so that another invocation takes over once; `MaxDuration` 1 < `LockStale` 2 keeps the order of 60 s and 90 s |
| `calc_ends` | does every run end, and one interrupted too often at once? | fairness, one invocation at a time, 3 deaths with a cap of 2, so the cap is passed |
| `period_figures` | what do swaps, cancels, failures and interruptions leave, and are snapshots right? | 2 runs, 1 request used twice, 2 publishers, 2 snapshots, 2 minutes; asked for by a user or an approval. A schedule differs from a user by its hash alone, and has been checked beside them too |
| `import_parse` | is the file staged whole, committed once, and does parsing end? | 2 chunks (one before and one after a cut), 2 contents of the reference data, 2 attempts, 2 parsers, 2 commits, 1 deletion |
| `field_review` | does each capture land once, does each approval make one checked record, do decisions stand? | 2 captures, so one can correct the other; 2 requests, so a retry overlaps what it repeats; 2 reviewers, any 3 of these 4 at once; 1 attempt before a draft fails, with manual retries unbounded |
| `market_claims` | is the allocation the right one, and what do the rows of a run claim? | 3 records of 3 kinds (two dates, two sites, one whose factor does not fit); 2 instruments of 3 kinds (a certificate that covers less than two records, a site's own for the later date, an unlimited tariff for the earlier); pages of 2, so a run has 2 pages and can be cut in each; 1 change by a user, at any moment |
| `audit_walk` | does the chain hold and implement a log, what do the checks report, does every call end? | 2 writers for the lock; 2 anchoring jobs that overlap; 1 account that wrote one of the entries and the old ones; tables that begin empty, with an unhashed row, or with a fork whose first row is sound |
| `report_sweep` | is a report rendered one at a time, three times at most, and does it end? | 2 requests, 2 overlapping sweeps, called again and again; the real `MAX_REPORT_ATTEMPTS`; 2 deaths beside those at the limit |
| `report_changes` | has a ready report its files, and does the cache show today's logo? | 2 requests, so one is answered with the other's report; a PDF and an XML, so a deletion and a render can stop between two files; 1 logo uploaded and 1 save, in any order; 2 attempts, so a second render meets what the first has left |
| `billing_events` | do the rows follow Stripe, is an event ever dropped, is anybody charged twice or given a plan? | 2 plans, one with 2 prices; 2 events, so they can arrive in the wrong order; 2 deliveries at a time, so one is repeated while it is handled; 2 requests at a time, so one overlaps or repeats the other, or one and a plan set by hand; 2 failures or deaths |
| `waste_saves` | does a load make one record, does a bulk approval see repeats, are inventory and totals right? | 2 requests for every pair of them; 2 notes with one reference; 2 periods, so an edit moves a record; 1 death; a change by hand takes the place of a request |
| `waste_latest` | (violation) are rows of earlier runs superseded? | 1 request after a saved record |

Two of each actor are enough where the question is about interleaving: every claim, swap,
look-then-create and read-then-write in the code involves a pair, and a third actor can only
repeat what one of the two did, because no row names its owner. Symmetry is used for
invocations, runs, requests, reviewers, records, transfer notes, deliveries and the two prices of
a plan, and never with liveness.

Several properties are conjunctions of named parts, which the comments over them explain one by
one: `CountsAreRight`, `FinishedIsWhole`, `SnapshotsAreSound`, `SwapsAreSound`, `StagedWhole`,
`StartsAreCounted`, `ApprovalsAreSound`, `CapturesLandOnce`, `ClaimsAreSound`, `FalseAlarmsAreKnown`,
`RendersAreLimited`. Some hold up to what the code itself cannot repair, and then a history
variable names the exception, and only it: `disturbed` (an older write over a newer one, or a
save that overlapped another), `spoiled` (the last rebuild of a period overlapped a write),
`raced` (two receipts of one load at a time), `unbusted` (the logo was replaced by an upload, by a
save that another change overtook or by one that died, and no save that changes it has reached
the reports since), `botched` (a webhook that died or could not forget its event), `overridden`
(the plan was set by hand), `gone` (accounts that were deleted), `amended` and `reviewed` (an
activity record changed by hand). Without interference of that kind, they hold.

One conjunct is out of its run's reach: in `calc_lease`, one death cannot pass the cap of
`CountsAreRight`. `calc_ends` passes it and ends; that the cap then holds is a theorem
(`InterruptionCap`).

`CHECK_DEADLOCK FALSE` in the period, field, market, audit, waste and billing runs: when no
request comes and nothing is captured, the system rests.

## 4. Fairness

`EventuallyTerminal` (`CalculationRun`) is checked under `FairSpec`:

* weak fairness of `Tick`: time passes;
* weak fairness of `AdvanceRun`: the sweep is called by cron (the route's header comment asks
  for every 1 to 2 minutes);
* weak fairness of a live invocation's next statement: the process runs until it is killed;
* strong fairness of taking a claim that is repeatedly free, and of reaching the page load
  while `age < FinalizeBy`: of the invocations that resume a run, infinitely many start
  promptly. Without it a run could pause forever, because finalisation only starts in the
  first 20 s of an invocation (`run-budget.ts`).

Cancels, approvals, deaths and failures are never fair; deaths are bounded by `MaxDeaths`.

`ParsingEnds` (`ImportBatch`) is checked under its own `FairSpec`:

* weak fairness of `Tick`, of the sweep's read, and of a live invocation's next statement;
* weak fairness of the exception a parse throws when the stored file is gone, which is the only
  step it can take then;
* strong fairness of the compare-and-set, the failure and the claim that a sweep which found
  the batch goes on to: not all of the sweeps die before they have counted a start or given the batch up.

Deaths, failures and changes of the reference data are unfair and unbounded: what ends parsing
is the attempt counter, which is what the property is about.

`EveryCallEnds` (`AuditChain`): weak fairness of a call in its transaction, which goes on or is
rolled back by Prisma's transaction timeout; strong fairness of taking the lock, since PostgreSQL
serves those who wait in turn. Nothing is assumed of a call that waits and gives up.

`EveryReportEnds` (`ReportRender`): weak fairness of an invocation's next statement or its
death, of the sweep, which cron calls again and again, and of `Tick`.

## 5. Proofs

What a run shows on a small instance, a theorem shows for every value of the constants that the
module's assumptions admit. One proof module per component, except that `PeriodFigures_proofs`
is about two; every action has its own step. For each invariant below, TLC has checked the
strengthened one on the component's run first.

| Module | Theorems | Properties of the runs they state |
|---|---|---|
| `CalculationRun_proofs` | `TypeCorrect`, `CalculatedOnce`; for the inline deployment `InlineInvariant`, `Exclusion`, `InterruptionCap`, `OnlyDeathsCount`, `PublishesItsRows`, `CoversDue`, `ProgressBacked`, `NoSecondRequest`, `FiguresGrow`, `CountsHold`, `FinishedHolds`, `Refinement`, `SucceededIsComplete`, `SucceededIsFinal` | all of `calc_lease` |
| `PeriodFigures_proofs` | `TypeCorrect`, `CoverageHolds`, `SnapshotsHold`, `SwapsHold` | all of `period_figures` |
| `PeriodFigures_proofs` | `MarketInvariant`, `AllocationInOrder`, `AllocationIsInOrder`, `OneAllocationHolds`, `ClaimsHold` | all of `market_claims` |
| `ImportBatch_proofs` | `TypeCorrect`, `OneParser`, `StagedWholeAlways`, `AttemptsCountFruitless` | all of `import_parse` but `ParsingEnds` |
| `DraftSync_proofs` | `TypeCorrect`, `ApprovalsHold`, `CapturesHold`, `DecisionsHold` | all of `field_review` |
| `AuditChain_proofs` | `TypeCorrect`, `ChainNeverForks`, `ChecksHold`, `ImplementsAppendOnlyLog` | all of `audit_walk` but `EveryCallEnds` |
| `ReportRender_proofs` | `RendersHold`, `GivingUpHolds`, `ReadyHolds`, `LogoHolds` | all of both report runs but `EveryReportEnds` |
| `WasteRecords_proofs` | `WasteInvariant`, `RecordedOnce`, `BulkRecordsOne`, `QuietRecordIsCounted`, `QuietPeriodIsExact` | all of `waste_saves` |
| `Billing_proofs` | `DeliveriesHold`, `ChargesHold`, `RowsMirrorStripe` | all of `billing_events` |

### Leases: calculation runs, imports, reports

Three components claim work by a timestamp without an owner, and rest on one relation between
two budgets: `MaxDuration` is less than the time after which a claim is stale
(`LeaseAssumption`, 60 s against 90 s for runs and 180 s for imports; `LimitAssumption` for
reports). The inductive part, called `LeaseInv` in all three, says that whoever is at work lives
at least as long as his row has been quiet. So a row quiet for longer than anybody lives has
nobody at work, and taking it over admits no second one. Exclusion alone is not inductive: it
says nothing of how old a claim is.

*Calculation runs.* `CapInv` (a free claim of a live run has interruptions to spare), `DeathInv`
(a claim nobody holds was left by a death not yet counted), `FigureInv` (from the empty page on,
the rows cannot change under the invocation that finalises), `ProgressInv` (a loaded page has no
rows yet) and `RequestInv` (what the supplier step has read) rest on `LeaseInv`; each has a lemma
with one step per action, and `RunInv` is their conjunction. Only `KilledAtLimit` needs to be
assumed, which is what the inline deployment is; `TypeCorrect` and `CalculatedOnce` do without.
`Refinement` shows that a run implements `SoleWorker`. The mapping forgets the invocations
(`working` is that some of them holds the run), the claim and the budgets; the records counted
are those with a row, the records shown those behind the live dashboard. A step is one of the
sole worker's because the holder is alone (otherwise one could succeed while another works),
because the rows read before the swap are still all the rows at the swap, and because a run that
is sized again has counted nothing (`SizedInv`). `SucceededIsComplete` and `SucceededIsFinal` are
then drawn from the abstract run alone.

*Imports.* `HolderInv` says which states of the batch a holder's statement can find; `CountInv`
ties the attempts to the starts that came to nothing and to the one under way, and keeps a sweep's
decision true between its read and its compare-and-set: either the attempts are still what it
read, or the batch has been written since and has been quiet for no longer than the sweep lives,
so the compare-and-set fails. `MemoryInv` says that what a parser has in memory (cursor,
fingerprint, content) is what the row says; without it a resumed parse could stage a chunk twice.
`RowsInv` and `CommitInv` carry whole staged files to the records of a commit, through a commit
that read its rows before another one or a deletion (`ReadyRows`).

*Reports.* The row of a report that somebody works on was written in his lifetime. `AskedInv`
says that a request makes a row once, before anybody works on it, so a row that is gone never
comes back; `AttemptInv` that an attempt is allowed when it is taken and that nobody else takes
one before it starts; `StoredInv` that the files stored so far stay until a deletion dooms the
report; `LogoInv` that a render that read an old logo has lost its key or is about to. The lemma
`StepForms` says what any step does, report by report and invocation by invocation (`Forms`); the
parts are then proved from the forms instead of from each action. Assumed besides: the
outputs are a sequence of names, the first of which every report has (`OutputsAssumption`), and a
request, a sweep and a deletion are different invocations (`NamesAssumption`).

### Tables written at READ COMMITTED: periods

`SwapInv`: two open swaps know of each other; one that has met no other has seen all there is in
the tables, because only the commits of swaps change them, and has deleted all of it before it
inserts. Hence `SwapsAreSound`. `SnapshotInv`: the advisory lock admits one publisher at a time,
whose version is the number of snapshots plus one, and what he copied is the live table as long
as no swap committed. `DueInv`: a run calculates what it is due before its swap. None of the
runs' properties mentions the steps in between, so none is inductive. No assumption on the
constants is used beyond types and finiteness.

### The allocation of Scope 2 instruments

Nothing is assumed but finite sets of records and instruments with numbers for ids, and that
amounts, dates and tiers are numbers (`IdAssumption`, `KindAssumption`).

*The function.* The community modules define a fold as a recursive function over all subsets of
a set, chosen by CHOOSE. It has the recursion equation only if some function has it, so
`FoldExists` constructs one, for subsets of growing size, by a least-counterexample argument
(`LeastNumber`). `SumSteps` and what follows then treat sums as they are used: a sum is what is
left of it without any one of its elements, and that one; it grows with its entries; a table
changed in one entry has a sum changed by as much. `EverySubset` is induction over the subsets of
a finite set, again from a least counterexample, with the claim given as a set of subsets instead
of an operator, since a prover here cannot instantiate one.

`EarlierOrder` and `PreferredOrder` say that the two comparators are strict total orders, ties
broken by the id, so each loop has a last element. `ServeLoop` and `AllocationSteps` are the two
loops as equations: what a loop has done with a set is what it has done with the set without its last
element, and then that one's turn. `Served` is the invariant of the inner loop (nothing overdrawn,
no other record touched, and every instrument already come to that applies is used up if the
record still wants something or a later instrument backs it), `Allocated` that of the outer one
(the order holds among the records come to, and the others have nothing). `DrawServes` and
`ServeAllocates` are their turns. The delicate part of the second is that what was used up by a
record and those before it stays so: the latest record adds nothing to what earlier ones have
drawn (`LatestDraws`). `AllocationInOrder` is the result, for every pair of tables;
`AllocationIsInOrder` states it of the tables in every reachable state.

*The run.* `LoadInv`: what a chunk has loaded is within each instrument and within what each
record stated, which is what the record states unless it was edited. `RowInv`: a row of the chunk
at work claims what the chunk has loaded for it, or nothing. `SameLoadInv`: as long as nobody has
changed anything, what is loaded is what would be loaded now. A page adds rows that no earlier
page has written, so `ChunkWithinCertificate` follows from the load by comparing sums
(`SumWithin`), for the chunk at work; of earlier chunks no row changes. Neither it nor
`OneAllocation` is inductive alone, because neither says anything of what the next page will
write. What an instrument says never changes (there is no route that edits one), which the first
of the two needs.

### The audit chain

Whoever is in its transaction is who holds the lock, so the head it read is still the head when
it inserts, and its number is above all (`LockInv`, `RowsInv`). The table therefore grows at its
end only, and a row's two neighbours never change: `ChainInv` for the links, `WalkInv` for a walk
that stands at a row while others append, `AnchorInv` for anchors put in the wrong order.
`OldEntries` are the entries of before version 2 and `LegacyRow` their rows; `CoverInv` says that
a hash covers those and calls that have ended. It makes each commit one step of
`AppendOnlyLog`, whose log is the hash of the head. That a non-empty table has a newest row comes
from `LeastNumber`, a least-element argument.

### Capture and review

`TalkInv` relates the two machines: the one draft marked as syncing is the draft of the one
request whose client waits, and what that request will be answered is still true when the answer
is read. `LandInv`: the server only answers in a way that makes the phone forget a capture when
the row exists. `ReviewInv`: the records are those of the approved rows, one of each, and a form
that an open approval holds has passed the check. What the server's actions do to rows and
records is put in three forms (`Rewritten`, `Added`, `Approved`) first, which are all the
invariants need. `CapturedAssumption`: for every
capture there is a form that is as complete as the capture is.

### Waste records

`LoadInv`: the row of a note says which record was made of it, and is written with that record,
so the claim fails for whoever comes second; for loads the same, except those two receipts had
read at a time (`raced`). `BulkInv` is about the notes a bulk approval has found alone of their
reference and not recorded yet (`Checked`): two of them, of whichever approvals, that share a
reference do not both wait. That the check is outside the transaction does no harm to notes that
wait: a note is judged against all that wait, one that has been decided never waits again, and
one that arrives later finds the other waiting too, or recorded under its reference. `SaveInv`: a live record that is not `disturbed` has one saver at a time; how
far he is (`SaveOf`) says which of link, weight, period, row and figure are right already, and
what he has read is what the record still says. When he is done, all are (`Settled`), but for a
weight amended by hand (`States`). What is written by hand is put in one form (`HandWrites`: which
fields of which rows stay), from which each part of the invariant is proved once. `TotalInv`: a
period that is not `spoiled` has one request that will rebuild it; from `clear` on its tally is
the weight of the records. `ActsInv` says that activity records belong to the record that links to
them, `PeriodsInv` that no request rebuilds a period twice. A period's weight is a fold, and
nothing about it needs induction: a write to another period leaves it as it is, and where a
number is needed (the initial records) it has at most one term. `DocsAssumption` (the notes are finitely many) is there because a
repeat is found by counting them.

### Billing

A row shows a state of Stripe's that may be long past, so the invariant speaks of versions:
`Shown` says that a value is that of the newest event of its kind up to a version. `StripeInv`
says so of Stripe's present state, `AnswersInv` of answers under way and of those kept under an
idempotency key, `FieldsInv` of each field at the version it was last written from (unless
something older ever replaced something newer, `disturbed`), `WrittenInv` that a handled event is
not newer than the fields it concerns. When every event has been handled, the fields are of the
newest version. `DeliveryInv` and `PlanInv` give that no event is lost and that nobody has a plan
that no event reported as paid; `KeyInv` counts the subscriptions by the keys they were made
under. Proving `QuietRowsMirrorStripe` showed that it also holds while requests are under way,
and it is stated so.

### What is model-checked only

* Liveness (`EventuallyTerminal`, `ParsingEnds`, `EveryCallEnds`, `EveryReportEnds`): fairness
  and ENABLED are out of the prover's reach.

Every invariant and every action property that a passing run checks is stated by a theorem, and so are
both refinements. Where the library would have an induction theorem that takes an operator, a
least counterexample among numbers (`LeastNumber`) or among the subsets of a finite set
(`EverySubset`) has been enough.

No module declares a RECURSIVE operator.

## 6. What the checks show

Held:

* the claim works without an owner exactly as long as the platform ends invocations before it
  goes stale; a run resumed any number of times publishes complete figures, counts each record
  once and asks a supplier once; pauses never count as interruptions;
* a swap that overlaps no other repairs whatever earlier swaps left; the dashboard is never
  blank in between; snapshots are numbered without gaps;
* an import is staged whole under one content of the reference data and committed all or none,
  however it is cut, resumed, restarted and deleted, and its parse ends; the attempts used are
  exactly the starts that came to nothing;
* a capture becomes one submission over any losses and restarts; an approval makes one record
  out of a form that passed `approvalBlocker`, even if the row is edited in between; decisions
  are never overwritten;
* the allocation of certificates is the one the preference order and the dates determine; a run
  cut anywhere has the rows of one allocation if nobody interferes; whatever users do, the rows
  of one chunk stay within a certificate and an unedited record is counted for what it states;
* the audit trail never forks and is an append-only log, whichever transactions are rolled back;
  the latest anchor always matches, though the jobs overlap; a walk reports no break but at two
  kinds of rows, named below;
* a report is rendered by one invocation at a time and three times at most; every one ends; one
  that is ready has its files; a branding save that changes the logo reaches also the reports that
  are being rendered with the old one;
* a transfer note gives one record; what no other request disturbed is in the inventory once,
  with its present weight (or the one somebody gave it there since), and in the totals of its
  period, also after it moved to another;
* no Stripe event is dropped unless a handler dies or cannot forget it; undisturbed by old
  events, the rows say what Stripe says; nobody has a plan that neither Stripe reported as paid
  nor the platform set; requests for one price, at once or repeated after a death, make one
  subscription.

Not kept by the code, with a run: the latest succeeded run of a period holds its position
(`datapoint-resolvers.ts:170`), but every save of a waste record leaves a succeeded run of one
row (`waste_latest`), and the readers of the latest run then see that row only.

Not kept by the code, met while modelling (paths below `src/`):

* Calculation runs. A cancelled run can come back, and a run that succeeded can be marked failed
  by a cancel that read it before (`run-worker.ts:787` and `:233`,
  `calculation-runs/[runId]/route.ts:39`). `processedRecordCount` stays short after a death
  between inserting a page and counting it. Approvals withdrawn before the first page let a run
  succeed over nothing and clear the dashboard. In the worker deployment nothing ends an
  invocation that outlives its claim, and a second one joins it.
* Period figures. Two swaps that overlap double every figure until the next run
  (`prisma/schema.prisma:1947`: one row per combination; `run-worker.ts:864`). An approval that
  finds a run in flight relies on it, though it may have read its last page
  (`trigger-calculation.ts:24`, `review/route.ts:175`). A snapshot of one run can hold the figures
  of another, because publication copies whatever is live.
* Imports. A deletion that passed its check before the commit deletes the committed batch
  (`imports/[importId]/route.ts:47` and `:34`). An upload that dies before it marks the batch
  leaves it `uploaded` for good: the sweep looks at `parsing` batches.
* Field submissions. A correction answered 409, because its original was approved meanwhile, is
  taken for landed and lost (`resubmit/route.ts:84`, `mobile/.../sync_service.dart:7`). A photo
  is dropped when the server dies between creating a submission and linking its files
  (`field-submissions/route.ts:592`, `sync_service.dart:110`). An edit that read a submission
  before its approval changes it afterwards, although `[submissionId]/route.ts:134` calls approved
  submissions immutable; the record keeps the form that was checked. Two reviewers can both hold a
  claim that `claim/route.ts:16` calls exclusive. A submission sent back stays approvable after
  its correction arrived.
* Scope 2. `scope2-allocation-loader.ts:8` says that the allocation is "Rebuilt identically on
  every chunk"; it is, if nobody approves, edits or adds anything between two chunks. Otherwise a
  certificate can be claimed by rows of two of them, beyond its volume.
* Audit. Anonymising a row of before version 2 that the walk had forgiven makes it a break,
  although `lib/audit/anonymise.ts:5` says that the chain still verifies. Deleting the account of a
  removed member (`members/[memberId]/route.ts:141`) takes the author off every row he wrote, in a
  table that `prisma/schema.prisma:2474` calls append-only; the hash of version 2 covers the author
  (`lib/audit/chain.ts:65`), so the walk reports each of these rows as tampered with until it is
  anonymised.
* Reports. `[reportId]/route.ts:76` says that the row stays if storage fails; a failed object is
  logged and the row deleted, and the XML file is never deleted. A request replaces a report
  older than 5 minutes that a sweep is rendering. The sweep's route sets no `maxDuration`, on
  which `LimitAssumption` rests. `branding/route.ts:105` says that a changed logo takes the reports
  out of the cache; the usual way to change it does not: the upload (`branding/logo/route.ts:66`)
  replaces the logo itself, and the save that follows finds it unchanged. A save that dies before
  the reports, or is overtaken by another, is not made good either.
* Waste. Receipts are called idempotent (`receive.ts:13`), but two that overlap make two records.
  Notes the team uploads never wait, so bulk approvals that overlap approve two of one reference.
  A rejected note can be accepted, and a load just received cancelled. The approved activity
  record of a deleted waste record still counts. A waste record whose activity record was amended
  by hand disagrees with it until its next save; one whose activity record was rejected is
  calculated again at every save, and stays rejected. The waste record of a field submission
  (`field-submissions/approve.ts:330`) has no figure of its own and is in no totals until something
  else rebuilds its period. While a save's own run is in flight it answers
  requests for a run of the period, and the sweep picks it up.
* Billing. The webhook records the event before it handles it, so a kill in between drops it,
  which the comment at `webhooks/stripe/route.ts:78` says must not happen. A failed payment whose
  handler fails after its update notifies nobody on the retry. The idempotency key names the price and the card
  (`subscription/route.ts:78`): two requests at once for two plans, or for the monthly and the
  annual price of one, make two subscriptions, both charged. A plan the platform sets by hand
  stands until the next event of a paid subscription. `stripeSubscriptionId` is never cleared, so an organisation whose
  subscription has ended cannot subscribe again (Stripe refuses to change it), although
  `lib/billing/limits.ts` asks it to. The event of any subscription of a customer, an old one's
  end included, is applied to the row, whichever subscription the row names.

The exclusion proof also says where the deployment must not change: `run-budget.ts` states that
every route that runs a chunk exports `maxDuration = 60`. The schedule sweep
(`app/api/admin/schedule/calculation-schedules/route.ts`) and the field submission review
routes run chunks inline and export none; the worker process has no limit at all.

## 7. Plan

Done: `CalculationRun` with its refinement of `SoleWorker`, `PeriodRuns`, `ImportBatch`,
`FieldSubmission` with `DraftSync`, `AuditChain` with `AppendOnlyLog`, `ReportRender`,
`WasteRecords`, `Billing` and `MarketAllocation`, each with its proofs.

Left: snapshot verification and assurance, evidence seals (a version per record under a unique
key) and the review claims of field submissions, once they have a promise to check.

## 8. Not modelled

The factor library, unit conversion, formulas and Monte Carlo sampling compute values that no
property here tells apart; they are pure and have unit tests with reference numbers, as the date
arithmetic of schedules has. The pg-boss deployment is covered only where it is the absence of a
time limit: delivery and retry are the library's. Usage limits are read and counted in single
statements and appear as refusals. Activity records that are typed in, reviewed or deleted by
hand are single statements on one row, and appear as the environment of the runs and of waste
records. Snapshot
verification, assurance and evidence seals: section 7. User interface, marketing, email, PDF
layout, OCR, LLM assistance and third-party connectors are input and output. Authentication and
tenancy checks are guards of every route and are taken as passed.

Some writers of modelled tables are left out, and what is shown does not speak of them:

* the reset of a test organisation (`platform/orgs/[orgId]/reset/route.ts`), which deletes its runs,
  snapshots, reports, imports, submissions and records under whatever is at work on them, and the
  scripts that seed or repair data (`scripts/seed-demo-org.ts`, `scripts/backfill-waste-records.ts`);
* connectors, which create import batches of their own (`lib/connectors/ingest.ts:168`), the dbt
  transformation, which writes to a run's row (`lib/jobs/workers/dbt-transform.ts:115`), and the
  bulk job that sets the category of records (`bulk-processor.ts:184`);
* the deadline monitor and the claim routes of field submissions, which write fields that no
  modelled decision reads (`submission-sla-monitoring.ts:81`, `claim/route.ts`), and the commuting
  import, which deletes unapproved records of its own that no run has calculated
  (`lib/commuting/import.ts:231`);
* routes that set the Scope 2 method or the evidence of an activity record.
