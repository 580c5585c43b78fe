--------------------------- MODULE CalculationRun ---------------------------
(***************************************************************************)
(* One calculation run of one reporting period: the processing claim (a    *)
(* lease without an owner), the chunked pass over the approved records,    *)
(* finalisation, cancellation, the continue endpoint, the stalled-run      *)
(* sweep, and invocations that fail or are killed at any statement.        *)
(* Source: lib/calculation/run-worker.ts and the calculation-runs routes.  *)
(*                                                                         *)
(* Every database statement of the worker is one action. Time is counted   *)
(* in ticks: an invocation has an age, the claim has an age since its last *)
(* heartbeat, and the code's budgets are constants compared with them.     *)
(***************************************************************************)
EXTENDS Integers, FiniteSets

CONSTANTS
    Records,          \* activity records of the period
    Invocations,      \* calls of processCalculationRun that may be live at once
    Batch,            \* BATCH_LOAD_SIZE: records loaded per page
    FinalizeBy,       \* FINALIZE_START_BY_MS, in ticks
    RequestBudget,    \* REQUEST_TIME_BUDGET_MS, in ticks
    MaxDuration,      \* the routes' maxDuration, in ticks
    LockStale,        \* LOCK_STALE_MS, in ticks
    MaxInterrupted,   \* MAX_INTERRUPTED_ATTEMPTS
    KilledAtLimit,    \* TRUE: the platform ends an invocation at MaxDuration
    MaxDeaths         \* bound of the model: invocations that die holding the claim

ASSUME RecordsAssumption == IsFiniteSet(Records)
ASSUME BudgetAssumption ==
    /\ Batch \in Nat \ {0}
    /\ FinalizeBy \in Nat /\ RequestBudget \in Nat
    /\ MaxDuration \in Nat /\ LockStale \in Nat
    /\ MaxInterrupted \in Nat \ {0}
    /\ MaxDeaths \in Nat
    /\ KilledAtLimit \in BOOLEAN
\* 60 s against 90 s: a route's invocation ends before its claim can go stale.
ASSUME LeaseAssumption == MaxDuration < LockStale

VARIABLES
    \* the CalculationRun row
    status,      \* CalculationRunStatus
    lock,        \* ticks since processingLockedAt, NoLock when it is null
    attempts,    \* interruptedAttempts
    total,       \* totalRecordCount, Unsized when null
    processed,   \* processedRecordCount
    error,       \* what errorMessage says
    \* other tables
    approved,    \* records of the period with reviewStatus "approved"
    rows,        \* EmissionCalculation rows of this run, per record
    live,        \* records behind the live DashboardAggregate rows this run wrote
    derived,     \* records behind the run's supplier priorities and uncertainty
    requests,    \* active SupplierDataRequest rows of the one supplier and category
    \* invocations: a call of processCalculationRun and its caller's catch
    pc, via, age, hand,
    \* requests outside the worker
    dispatched,  \* the creating request has dispatched the run
    cancelling,  \* a cancel request has read the run and not yet written it
    \* history, read by no guard but the bound on deaths
    due,         \* approved when the run was sized, and approved ever since
    deaths       \* invocations that ended while holding the claim, without releasing it

runVars == <<status, lock, attempts, total, processed, error>>
dataVars == <<rows, live, derived, requests>>
invVars == <<pc, via, age, hand>>
envVars == <<approved, dispatched, cancelling, due, deaths>>
vars == <<status, lock, attempts, total, processed, error, approved, rows, live,
          derived, requests, pc, via, age, hand, dispatched, cancelling, due, deaths>>

NoLock == -1
Unsized == -1
Runnable == {"queued", "running"}
Terminal == {"succeeded", "failed"}

\* Where an invocation stands: the statement it executes next.
ClaimSteps == {"reclaimed", "exhausted"}
ChunkSteps == {"chunk", "size", "load", "write", "beat", "beatCut", "pause"}
FinalSteps == {"totals", "rebuild", "derive", "ask", "create", "succeed"}
TrySteps == ChunkSteps \cup FinalSteps
Steps == {"idle", "claim", "failing", "caught"} \cup ClaimSteps \cup TrySteps
Callers == {"start", "continue", "background"}

Live(i) == pc[i] # "idle"
\* Past the claim and not yet returned: the invocation believes the run is its own.
Holds(i) == pc[i] \in ClaimSteps \cup TrySteps \cup {"failing"}
Works(i) == pc[i] \in TrySteps

Stale == lock > LockStale
AgeCap == LockStale + 1
Older(n) == IF n < AgeCap THEN n + 1 ELSE n
Unprocessed == {r \in approved : rows[r] = 0}
Calculated == {r \in Records : rows[r] > 0}

Init ==
    /\ status = "queued" /\ lock = NoLock /\ attempts = 0
    /\ total = Unsized /\ processed = 0 /\ error = "none"
    /\ approved \in SUBSET Records
    /\ rows = [r \in Records |-> 0]
    /\ live = {} /\ derived = {} /\ requests = 0
    /\ pc = [i \in Invocations |-> "idle"]
    /\ via = [i \in Invocations |-> "start"]
    /\ age = [i \in Invocations |-> 0]
    /\ hand = [i \in Invocations |-> {}]
    /\ dispatched = FALSE /\ cancelling = FALSE
    /\ due = {} /\ deaths = 0

Goto(i, step) == pc' = [pc EXCEPT ![i] = step]
\* The call returns: what it had in memory is gone.
Return(i) ==
    /\ Goto(i, "idle")
    /\ hand' = [hand EXCEPT ![i] = {}]
    /\ age' = [age EXCEPT ![i] = 0]
    /\ via' = [via EXCEPT ![i] = "start"]

---------------------------------------------------------------------------
(* Faulty variants: each is one definition below with a plausible slip, and   *)
(* breaks the property the project lists it for.                             *)

AdvanceOnlyReleased(i) ==
    /\ pc[i] = "idle"
    /\ status \in Runnable /\ lock = NoLock
    /\ Goto(i, "claim")
    /\ via' = [via EXCEPT ![i] = "background"]
    /\ UNCHANGED <<runVars, dataVars, age, hand, envVars>>

ClaimHeld(i) ==
    /\ pc[i] = "claim"
    /\ status \in Runnable
    /\ lock' = 0
    /\ Goto(i, "chunk")
    /\ UNCHANGED <<status, attempts, total, processed, error, dataVars, via, age, hand, envVars>>

FinaliseAfterOnePage(i) ==
    /\ pc[i] = "load"
    /\ Goto(i, IF age[i] >= FinalizeBy THEN "pause" ELSE "totals")
    /\ UNCHANGED <<runVars, dataVars, via, age, hand, envVars>>

HeartbeatBackwards(i) ==
    /\ pc[i] \in {"beat", "beatCut"}
    /\ processed' = processed - Cardinality(hand[i])
    /\ lock' = 0
    /\ Goto(i, IF pc[i] = "beat" THEN "load" ELSE "chunk")
    /\ hand' = [hand EXCEPT ![i] = {}]
    /\ UNCHANGED <<status, attempts, total, error, dataVars, via, age, envVars>>

PauseKeepingClaim(i) ==
    /\ pc[i] = "pause"
    /\ Return(i)
    /\ UNCHANGED <<runVars, dataVars, envVars>>

LoadApprovedCalculations(i) ==
    /\ pc[i] = "totals"
    /\ hand' = [hand EXCEPT ![i] = Calculated \cap approved]
    /\ Goto(i, "rebuild")
    /\ UNCHANGED <<runVars, dataVars, via, age, envVars>>

ReclaimEarly(i) ==
    /\ pc[i] = "claim"
    /\ status \in Runnable /\ lock >= RequestBudget
    /\ lock' = 0
    /\ attempts' = attempts + 1
    /\ Goto(i, "reclaimed")
    /\ UNCHANGED <<status, total, processed, error, dataVars, via, age, hand, envVars>>

\* createMany with skipDuplicates: the first row of a record is kept.
InsertOnce(f, S) == [r \in Records |-> IF r \in S /\ f[r] = 0 THEN 1 ELSE f[r]]

---------------------------------------------------------------------------
(* Callers: the creating request, the continue endpoint, the sweep and the  *)
(* pg-boss job. Each only reads the row, then calls processCalculationRun.  *)

Call(i, caller) ==
    /\ pc[i] = "idle"
    /\ Goto(i, "claim")
    /\ via' = [via EXCEPT ![i] = caller]
    /\ UNCHANGED <<runVars, dataVars, approved, age, hand, cancelling, due, deaths>>

\* A request or schedule fails a run it could not dispatch (CallerCatch); the run
\* an approval triggers is left to the sweep, as if its caller had died there.
StartRun(i) ==
    /\ ~dispatched
    /\ dispatched' = TRUE
    /\ Call(i, "start")

ContinueRun(i) ==
    /\ status = "running"
    /\ Call(i, "continue")
    /\ UNCHANGED dispatched

\* The sweep picks a running run nothing works on or, inline, a queued one whose
\* start never happened; a pg-boss job calls again while the run is not terminal.
AdvanceRun(i) ==
    /\ \/ status = "running" /\ (lock = NoLock \/ Stale)
       \/ status = "queued" /\ (dispatched \/ KilledAtLimit)
    /\ Call(i, "background")
    /\ UNCHANGED dispatched

---------------------------------------------------------------------------
(* claimRun *)

\* First updateMany: the claim is set but stale, so its holder died.
ReclaimStale(i) ==
    /\ pc[i] = "claim"
    /\ status \in Runnable /\ Stale
    /\ lock' = 0
    /\ attempts' = attempts + 1
    /\ Goto(i, "reclaimed")
    /\ UNCHANGED <<status, total, processed, error, dataVars, via, age, hand, envVars>>

CheckInterruptions(i) ==
    /\ pc[i] = "reclaimed"
    /\ Goto(i, IF attempts >= MaxInterrupted THEN "exhausted" ELSE "chunk")
    /\ UNCHANGED <<runVars, dataVars, via, age, hand, envVars>>

FailExhausted(i) ==
    /\ pc[i] = "exhausted"
    /\ IF status \in Runnable
         THEN status' = "failed" /\ lock' = NoLock /\ error' = "interrupted"
         ELSE UNCHANGED <<status, lock, error>>
    /\ Return(i)
    /\ UNCHANGED <<attempts, total, processed, dataVars, envVars>>

\* Second updateMany: nobody holds the run.
ClaimFresh(i) ==
    /\ pc[i] = "claim"
    /\ status \in Runnable /\ lock = NoLock
    /\ lock' = 0
    /\ Goto(i, "chunk")
    /\ UNCHANGED <<status, attempts, total, processed, error, dataVars, via, age, hand, envVars>>

ClaimRefused(i) ==
    /\ pc[i] = "claim"
    /\ status \notin Runnable \/ (lock # NoLock /\ ~Stale)
    /\ Return(i)
    /\ UNCHANGED <<runVars, dataVars, envVars>>

---------------------------------------------------------------------------
(* processOneChunk *)

\* Reads the row (its status is not looked at) and, on the first chunk, counts
\* the approved records.
BeginChunk(i) ==
    /\ pc[i] = "chunk"
    /\ IF total = Unsized
         THEN /\ hand' = [hand EXCEPT ![i] = approved]
              /\ Goto(i, "size")
              /\ due' = approved
         ELSE /\ hand' = [hand EXCEPT ![i] = {}]
              /\ Goto(i, "load")
              /\ UNCHANGED due
    /\ UNCHANGED <<runVars, approved, dataVars, via, age, dispatched, cancelling, deaths>>

SizeRun(i) ==
    /\ pc[i] = "size" /\ hand[i] # {}
    /\ status' = "running"
    /\ total' = Cardinality(hand[i])
    /\ Goto(i, "load")
    /\ hand' = [hand EXCEPT ![i] = {}]
    /\ UNCHANGED <<lock, attempts, processed, error, dataVars, via, age, envVars>>

FailEmptyRun(i) ==
    /\ pc[i] = "size" /\ hand[i] = {}
    /\ status' = "failed" /\ error' = "empty"
    /\ Return(i)
    /\ UNCHANGED <<lock, attempts, total, processed, dataVars, envVars>>

Page(p) ==
    /\ p \subseteq Unprocessed
    /\ \/ p = Unprocessed /\ Cardinality(p) <= Batch
       \/ Cardinality(p) = Batch

LoadPage(i) ==
    /\ pc[i] = "load"
    /\ \E p \in SUBSET Unprocessed :
         /\ p # {} /\ Page(p)
         /\ hand' = [hand EXCEPT ![i] = p]
    /\ Goto(i, "write")
    /\ UNCHANGED <<runVars, dataVars, via, age, envVars>>

\* The page came back empty. Finalisation starts only early in an invocation.
FindNothingLeft(i) ==
    /\ pc[i] = "load" /\ Unprocessed = {}
    /\ Goto(i, IF age[i] >= FinalizeBy THEN "pause" ELSE "totals")
    /\ UNCHANGED <<runVars, dataVars, via, age, hand, envVars>>

\* At least the first record of the page is reached; the chunk deadline may cut
\* off the others.
WritePage(i) ==
    /\ pc[i] = "write"
    /\ \E reached \in SUBSET hand[i] :
         /\ reached # {}
         /\ rows' = InsertOnce(rows, reached)
         /\ hand' = [hand EXCEPT ![i] = reached]
         /\ \/ reached = hand[i] /\ Goto(i, "beat")
            \/ Goto(i, "beatCut")
    /\ UNCHANGED <<runVars, live, derived, requests, via, age, envVars>>

\* Progress and heartbeat, whatever the row says by now. A chunk that used up
\* its time returns to the caller's loop, which stops at the request budget.
Heartbeat(i) ==
    /\ pc[i] \in {"beat", "beatCut"}
    /\ processed' = processed + Cardinality(hand[i])
    /\ lock' = 0
    /\ Goto(i, CASE pc[i] = "beat" -> "load"
                 [] pc[i] = "beatCut" /\ age[i] >= RequestBudget -> "pause"
                 [] OTHER -> "chunk")
    /\ hand' = [hand EXCEPT ![i] = {}]
    /\ UNCHANGED <<status, attempts, total, error, dataVars, via, age, envVars>>

\* Out of budget: release the claim and return normally.
PauseRun(i) ==
    /\ pc[i] = "pause"
    /\ lock' = NoLock
    /\ Return(i)
    /\ UNCHANGED <<status, attempts, total, processed, error, dataVars, envVars>>

---------------------------------------------------------------------------
(* Finalisation *)

LoadRunCalculations(i) ==
    /\ pc[i] = "totals"
    /\ hand' = [hand EXCEPT ![i] = Calculated]
    /\ Goto(i, "rebuild")
    /\ UNCHANGED <<runVars, dataVars, via, age, envVars>>

RebuildDashboard(i) ==
    /\ pc[i] = "rebuild"
    /\ live' = hand[i]
    /\ Goto(i, "derive")
    /\ UNCHANGED <<runVars, rows, derived, requests, via, age, hand, envVars>>

\* Supplier priorities and uncertainty: replaced, keyed by the run. Only a run a
\* user triggered, with uncertain Scope 3 records, goes on to supplier requests.
WriteDerived(i) ==
    /\ pc[i] = "derive"
    /\ derived' = hand[i]
    /\ \/ Goto(i, "ask")
       \/ Goto(i, "succeed")
    /\ UNCHANGED <<runVars, rows, live, requests, via, age, hand, envVars>>

FindActiveRequest(i) ==
    /\ pc[i] = "ask"
    /\ Goto(i, IF requests > 0 THEN "succeed" ELSE "create")
    /\ UNCHANGED <<runVars, dataVars, via, age, hand, envVars>>

\* A failed create is logged and does not fail the run.
CreateRequest(i) ==
    /\ pc[i] = "create"
    /\ requests' \in {requests, requests + 1}
    /\ Goto(i, "succeed")
    /\ UNCHANGED <<runVars, rows, live, derived, via, age, hand, envVars>>

Succeed(i) ==
    /\ pc[i] = "succeed"
    /\ status' = "succeeded" /\ error' = "none"
    /\ Return(i)
    /\ UNCHANGED <<lock, attempts, total, processed, dataVars, envVars>>

---------------------------------------------------------------------------
(* Failure: a statement throws, or the invocation is killed. *)

Throw(i) ==
    /\ Works(i)
    /\ Goto(i, "failing")
    /\ UNCHANGED <<runVars, dataVars, via, age, hand, envVars>>

\* The worker's catch: marks the run failed, leaves the claim, rethrows.
FailRun(i) ==
    /\ pc[i] = "failing"
    /\ status' = "failed" /\ error' = "failure"
    /\ Goto(i, "caught")
    /\ UNCHANGED <<lock, attempts, total, processed, dataVars, via, age, hand, envVars>>

\* claimRun is outside the worker's try: its failure reaches the caller directly.
ThrowInClaim(i) ==
    /\ pc[i] \in {"claim"} \cup ClaimSteps
    /\ deaths < MaxDeaths
    /\ deaths' = IF pc[i] \in ClaimSteps THEN deaths + 1 ELSE deaths
    /\ Goto(i, "caught")
    /\ UNCHANGED <<runVars, approved, dataVars, via, age, hand, dispatched, cancelling, due>>

\* The caller's catch: the creating request fails a run still queued, the
\* continue endpoint one that is running; the others only log.
CallerCatch(i) ==
    /\ pc[i] = "caught"
    /\ IF \/ via[i] = "start" /\ status = "queued"
          \/ via[i] = "continue" /\ status = "running"
         THEN status' = "failed" /\ error' = "failure"
         ELSE UNCHANGED <<status, error>>
    /\ Return(i)
    /\ UNCHANGED <<lock, attempts, total, processed, dataVars, envVars>>

Die(i) ==
    /\ Live(i)
    /\ deaths < MaxDeaths
    /\ deaths' = IF Holds(i) THEN deaths + 1 ELSE deaths
    /\ Return(i)
    /\ UNCHANGED <<runVars, approved, dataVars, dispatched, cancelling, due>>

---------------------------------------------------------------------------
(* Reviewers, an administrator, and time *)

\* PATCH action=cancel: read, then an unconditional update.
CancelRead ==
    /\ ~cancelling /\ status \in Runnable
    /\ cancelling' = TRUE
    /\ UNCHANGED <<runVars, approved, dataVars, invVars, dispatched, due, deaths>>

CancelWrite ==
    /\ cancelling
    /\ cancelling' = FALSE
    /\ status' = "failed" /\ error' = "cancelled"
    /\ UNCHANGED <<lock, attempts, total, processed, approved, dataVars, invVars, dispatched, due, deaths>>

Approve(r) ==
    /\ r \notin approved
    /\ approved' = approved \cup {r}
    /\ UNCHANGED <<runVars, dataVars, invVars, dispatched, cancelling, due, deaths>>

Unapprove(r) ==
    /\ r \in approved
    /\ approved' = approved \ {r}
    /\ due' = due \ {r}
    /\ UNCHANGED <<runVars, dataVars, invVars, dispatched, cancelling, deaths>>

\* A tick passes for the claim and for every live invocation. On a platform that
\* ends invocations at MaxDuration none of them lives to see a later tick.
Tick ==
    /\ KilledAtLimit => \A i \in Invocations : Live(i) => age[i] < MaxDuration
    /\ lock' = IF lock = NoLock THEN NoLock ELSE Older(lock)
    /\ age' = [i \in Invocations |-> IF Live(i) THEN Older(age[i]) ELSE 0]
    /\ <<lock', age'>> # <<lock, age>>
    /\ UNCHANGED <<status, attempts, total, processed, error, dataVars, pc, via, hand, envVars>>

---------------------------------------------------------------------------

Claim(i) == ReclaimStale(i) \/ ClaimFresh(i) \/ ClaimRefused(i)

Chunk(i) ==
    \/ CheckInterruptions(i) \/ FailExhausted(i)
    \/ BeginChunk(i) \/ SizeRun(i) \/ FailEmptyRun(i)
    \/ LoadPage(i) \/ FindNothingLeft(i) \/ WritePage(i) \/ Heartbeat(i) \/ PauseRun(i)

Finalise(i) ==
    \/ LoadRunCalculations(i) \/ RebuildDashboard(i) \/ WriteDerived(i)
    \/ FindActiveRequest(i) \/ CreateRequest(i) \/ Succeed(i)

Failure(i) == Throw(i) \/ ThrowInClaim(i) \/ Die(i)
Catch(i) == FailRun(i) \/ CallerCatch(i)

Next ==
    \/ \E i \in Invocations :
         \/ StartRun(i) \/ ContinueRun(i) \/ AdvanceRun(i)
         \/ Claim(i) \/ Chunk(i) \/ Finalise(i) \/ Failure(i) \/ Catch(i)
    \/ CancelRead \/ CancelWrite
    \/ \E r \in Records : Approve(r) \/ Unapprove(r)
    \/ Tick

Spec == Init /\ [][Next]_vars

\* A live invocation keeps executing; time passes; the sweep keeps being called.
\* A claim that keeps being possible is eventually taken. Of the invocations that
\* resume a run, infinitely many are prompt: they look for records while they may
\* still finalise.
Prompt(i) == age[i] < FinalizeBy
Fairness ==
    /\ WF_vars(Tick)
    /\ WF_vars(\E i \in Invocations : AdvanceRun(i))
    /\ \A i \in Invocations :
         /\ WF_vars(Claim(i) \/ Chunk(i) \/ Finalise(i) \/ Catch(i))
         /\ SF_vars(Prompt(i) /\ ReclaimStale(i))
         /\ SF_vars(Prompt(i) /\ ClaimFresh(i))
         /\ SF_vars(Prompt(i) /\ BeginChunk(i))
         /\ SF_vars(Prompt(i) /\ (LoadPage(i) \/ FindNothingLeft(i)))

FairSpec == Spec /\ Fairness

---------------------------------------------------------------------------
(* Properties *)

RunTypeOK ==
    /\ status \in Runnable \cup Terminal
    /\ lock \in {NoLock} \cup 0 .. AgeCap
    /\ attempts \in Nat
    /\ total \in {Unsized} \cup Nat
    /\ processed \in Nat
    /\ error \in {"none", "empty", "interrupted", "failure", "cancelled"}

DataTypeOK ==
    /\ rows \in [Records -> Nat]
    /\ live \subseteq Records /\ derived \subseteq Records
    /\ requests \in Nat

InvTypeOK ==
    /\ pc \in [Invocations -> Steps]
    /\ via \in [Invocations -> Callers]
    /\ age \in [Invocations -> 0 .. AgeCap]
    /\ hand \in [Invocations -> SUBSET Records]

EnvTypeOK ==
    /\ approved \subseteq Records /\ due \subseteq Records
    /\ dispatched \in BOOLEAN /\ cancelling \in BOOLEAN
    /\ deaths \in Nat

TypeOK == RunTypeOK /\ DataTypeOK /\ InvTypeOK /\ EnvTypeOK

\* No record is ever counted twice by a run, however its chunks are resumed and
\* whoever else is processing it.
NoDoubleCalculation == \A r \in Records : rows[r] <= 1

\* Two invocations never work on the run at once: the claim excludes them although
\* it names no owner. Holds where invocations end before their claim goes stale.
ExclusiveHolder == \A i, j \in Invocations : Holds(i) /\ Holds(j) => i = j

\* An invocation only works on a run that may still be interrupted.
NoWorkBeyondCap == \A i \in Invocations : Works(i) => attempts < MaxInterrupted

\* Each counted interruption is an invocation that ended without giving the claim
\* back; a pause is never counted.
InterruptionsAreDeaths == attempts <= deaths

\* A succeeded run publishes exactly its own calculations, and its supplier
\* priorities and uncertainty describe the same ones.
SucceededPublishesItsRows ==
    status = "succeeded" => live = Calculated /\ derived = Calculated

\* Every record that was approved when the run was sized, and stayed so, is in the
\* figures of a run that succeeded.
SucceededCoversDue == status = "succeeded" => due \subseteq live

\* The run's progress never exceeds the rows it has written.
ProgressIsBacked == processed <= Cardinality(Calculated)

\* Finalising twice does not ask a supplier twice for the same data.
OneSupplierRequest == requests <= 1

\* The counters the run is judged by are right at every moment: interruptions are deaths,
\* nothing works on a run interrupted too often, and progress is backed by rows.
CountsAreRight == InterruptionsAreDeaths /\ NoWorkBeyondCap /\ ProgressIsBacked

\* A run that succeeded, however often it was resumed and finalised, shows every record that
\* was due, each calculated once, in all its figures, and has asked each supplier once.
FinishedIsWhole ==
    /\ SucceededPublishesItsRows /\ SucceededCoversDue
    /\ NoDoubleCalculation /\ OneSupplierRequest

\* The dashboard never shows fewer of this run's records than before.
FiguresNeverShrink == [][live \subseteq live']_vars

\* A run always ends: it is finished, failed or given up on.
EventuallyTerminal == <>[](status \in Terminal)

---------------------------------------------------------------------------
(* Refinement *)

Sole == INSTANCE SoleWorker WITH
            working <- \E i \in Invocations : Holds(i), counted <- Calculated, shown <- live

\* However many invocations take the claim from each other, die, pause and resume, the
\* rest of the system sees one worker who counts, shows and succeeds once.
ImplementsSoleWorker == Sole!Spec

---------------------------------------------------------------------------
(* Inductive strengthenings, for an inline deployment (KilledAtLimit) *)

Finalising == {"totals", "rebuild", "derive", "ask", "create", "succeed"}

\* A holder's claim is younger than the holder, and the holder than the limit.
LeaseInv ==
    /\ \A i \in Invocations : age[i] <= MaxDuration
    /\ \A i \in Invocations : Holds(i) => lock # NoLock /\ lock <= age[i]
    /\ ExclusiveHolder

CapInv ==
    /\ NoWorkBeyondCap
    /\ status \in Runnable /\ lock = NoLock => attempts < MaxInterrupted

\* A claim nobody holds any more was left by a death not counted yet.
DeathInv ==
    /\ InterruptionsAreDeaths
    /\ status \in Runnable /\ lock # NoLock /\ (\A i \in Invocations : ~Holds(i))
          => attempts < deaths

FigureInv ==
    /\ live \subseteq Calculated
    /\ due \subseteq approved
    /\ status = "succeeded" =>
         /\ \A i \in Invocations : ~Holds(i)
         /\ live = Calculated /\ derived = Calculated /\ due \subseteq Calculated
    /\ \A i \in Invocations :
         /\ pc[i] \in Finalising => due \subseteq Calculated
         /\ pc[i] \in {"rebuild", "derive"} => hand[i] = Calculated
         /\ pc[i] \in Finalising \ {"totals", "rebuild"} => live = Calculated
         /\ pc[i] \in Finalising \ {"totals", "rebuild", "derive"} => derived = Calculated

ProgressInv ==
    /\ ProgressIsBacked
    /\ \A i \in Invocations :
         /\ pc[i] = "write" => hand[i] \cap Calculated = {}
         /\ pc[i] \in {"beat", "beatCut"} =>
              /\ hand[i] \subseteq Calculated
              /\ processed + Cardinality(hand[i]) <= Cardinality(Calculated)

RequestInv ==
    /\ OneSupplierRequest
    /\ \A i \in Invocations : pc[i] = "create" => requests = 0

=============================================================================
