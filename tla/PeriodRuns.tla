----------------------------- MODULE PeriodRuns -----------------------------
(***************************************************************************)
(* All calculation runs of one reporting period, and what they share: the  *)
(* approved records, the trigger paths that create runs, the period's live *)
(* dashboard rows that every run swaps, and the snapshots copied from them. *)
(*                                                                         *)
(* A run's own worker is one process here, as CalculationRun shows it to   *)
(* be in an inline deployment; that module has its chunks and its crashes. *)
(*                                                                         *)
(* Transactions run at READ COMMITTED, PostgreSQL's default: a statement    *)
(* sees what was committed when it started, waits for rows another         *)
(* transaction is deleting, and then skips those that are gone.            *)
(***************************************************************************)
EXTENDS Integers, FiniteSets

CONSTANTS
    Runs,         \* CalculationRun rows the period may ever get
    Requests,     \* concurrent requests that may create a run
    Records,      \* activity records of the period
    Publishers,   \* concurrent requests that publish a snapshot
    Ways,         \* what asks for a run outright: a user ("manual"), a "schedule"
    MaxMinute,    \* bound of the model: minutes that pass
    MaxSnapshots  \* bound of the model: snapshots published

ASSUME RunsAssumption == IsFiniteSet(Runs)
ASSUME WaysAssumption == Ways \subseteq {"manual", "schedule"}
ASSUME BoundAssumption == MaxMinute \in Nat /\ MaxSnapshots \in Nat

VARIABLES
    \* CalculationRun rows
    status,      \* "none" before the row exists
    hash,        \* triggerHash: the path and the minute it was made of
    \* each run's worker
    wpc,
    figures,     \* records with an EmissionCalculation row of the run
    saw,         \* rows the delete statement in progress has seen
    goneAggs,    \* aggregate rows the open transaction has deleted
    goneSlices,  \* slice rows the open transaction has deleted
    \* committed dashboard tables: the runs whose rows they hold
    aggs,        \* DashboardAggregate with snapshotId null
    slices,      \* DashboardSlice with snapshotId null
    \* requests that create runs
    rpc, path, bucket,
    \* publishing
    ppc, target, version, copied,
    snapshots,   \* PublishedSnapshot rows with the copies they own
    \* the rest of the world
    approved, minute,
    \* history
    due,         \* approved when the run was created, and approved ever since
    overlapped,  \* runs whose swap was open while another run's was
    disturbed    \* publishers during whose transaction a swap committed

runVars == <<status, hash>>
workVars == <<wpc, figures, saw, goneAggs, goneSlices>>
liveVars == <<aggs, slices>>
askVars == <<rpc, path, bucket>>
publishVars == <<ppc, target, version, copied, snapshots, disturbed>>
vars == <<status, hash, wpc, figures, saw, goneAggs, goneSlices, aggs, slices, rpc, path,
          bucket, ppc, target, version, copied, snapshots, approved, minute, due,
          overlapped, disturbed>>

Paths == {"manual", "auto", "schedule"}
NoHash == <<"manual", -1>>
NoRun == "none"
InFlight == {r \in Runs : status[r] \in {"queued", "running"}}
Exists(r) == status[r] # "none"

SwapSteps == {"deleteAggs", "seeSlices", "deleteSlices", "insert"}
WorkSteps == {"size", "work", "swap", "succeed"} \cup SwapSteps
Swapping(r) == wpc[r] \in SwapSteps
CopySteps == {"copyAggs", "copySlices"}

Init ==
    /\ status = [r \in Runs |-> "none"] /\ hash = [r \in Runs |-> NoHash]
    /\ wpc = [r \in Runs |-> "idle"]
    /\ figures = [r \in Runs |-> {}] /\ saw = [r \in Runs |-> {}]
    /\ goneAggs = [r \in Runs |-> {}] /\ goneSlices = [r \in Runs |-> {}]
    /\ aggs = {} /\ slices = {}
    /\ rpc = [q \in Requests |-> "idle"]
    /\ path = [q \in Requests |-> "manual"] /\ bucket = [q \in Requests |-> 0]
    /\ ppc = [p \in Publishers |-> "idle"]
    /\ target = [p \in Publishers |-> NoRun]
    /\ version = [p \in Publishers |-> 0] /\ copied = [p \in Publishers |-> {}]
    /\ snapshots = {}
    /\ approved = {} /\ minute = 0
    /\ due = [r \in Runs |-> {}] /\ overlapped = {} /\ disturbed = {}

---------------------------------------------------------------------------
(* Faulty variants: each is one definition below with a plausible slip, and   *)
(* breaks the property the project lists it for.                             *)

RequestRoundedUp(q, way) ==
    /\ rpc[q] = "idle"
    /\ rpc' = [rpc EXCEPT ![q] = "look"]
    /\ path' = [path EXCEPT ![q] = way]
    /\ bucket' = [bucket EXCEPT ![q] = minute + 1]

FinaliseUnchecked(r) ==
    /\ wpc[r] = "work"
    /\ wpc' = [wpc EXCEPT ![r] = "swap"]
    /\ UNCHANGED <<runVars, figures, saw, goneAggs, goneSlices, liveVars, askVars, publishVars,
                   approved, minute, due, overlapped>>

DeleteOwnSlices(r) ==
    /\ wpc[r] = "deleteSlices"
    /\ wpc' = [wpc EXCEPT ![r] = "insert"]
    /\ goneSlices' = [goneSlices EXCEPT ![r] = slices \cap {r}]
    /\ saw' = [saw EXCEPT ![r] = {}]
    /\ UNCHANGED <<runVars, figures, goneAggs, liveVars, askVars, publishVars, approved, minute,
                   due, overlapped>>

TakeVersionUnlocked(p) ==
    /\ ppc[p] = "lock"
    /\ ppc' = [ppc EXCEPT ![p] = "copyAggs"]
    /\ version' = [version EXCEPT ![p] = Cardinality(snapshots) + 1]
    /\ UNCHANGED <<runVars, workVars, liveVars, askVars, target, copied, snapshots, approved,
                   minute, due, overlapped, disturbed>>

---------------------------------------------------------------------------
(* Creating a run: a user, the approval of a field submission, a schedule *)

Request(q, way) ==
    /\ rpc[q] = "idle"
    /\ rpc' = [rpc EXCEPT ![q] = "look"]
    /\ path' = [path EXCEPT ![q] = way]
    /\ bucket' = [bucket EXCEPT ![q] = minute]

Answer(q) ==
    /\ rpc' = [rpc EXCEPT ![q] = "idle"]
    /\ path' = [path EXCEPT ![q] = "manual"]
    /\ bucket' = [bucket EXCEPT ![q] = 0]

\* A user asks for a run, or a schedule is due: the hash is made first.
AskForRun(q) ==
    /\ \E way \in Ways : Request(q, way)
    /\ UNCHANGED <<runVars, workVars, liveVars, publishVars, approved, minute, due, overlapped>>

\* A reviewer approves a field submission, which becomes an approved record, and
\* asks for a run without waiting for the answer.
ApproveSubmission(q, a) ==
    /\ a \notin approved
    /\ approved' = approved \cup {a}
    /\ Request(q, "auto")
    /\ UNCHANGED <<runVars, workVars, liveVars, publishVars, minute, due, overlapped>>

\* A run in flight answers for every new one. The automatic path makes its hash
\* only after this look.
LookInFlight(q) ==
    /\ rpc[q] = "look"
    /\ IF InFlight # {}
         THEN Answer(q)
         ELSE /\ rpc' = [rpc EXCEPT ![q] = "create"]
              /\ bucket' = [bucket EXCEPT ![q] = IF path[q] = "auto" THEN minute ELSE @]
              /\ UNCHANGED path
    /\ UNCHANGED <<runVars, workVars, liveVars, publishVars, approved, minute, due, overlapped>>

\* The unique triggerHash turns a second create of the same minute into a no-op.
CreateRun(q) ==
    /\ rpc[q] = "create"
    /\ LET h == <<path[q], bucket[q]>> IN
         IF \E r \in Runs : Exists(r) /\ hash[r] = h
           THEN UNCHANGED <<runVars, wpc, due>>
           ELSE \E r \in Runs :
                  /\ ~Exists(r)
                  /\ status' = [status EXCEPT ![r] = "queued"]
                  /\ hash' = [hash EXCEPT ![r] = h]
                  /\ wpc' = [wpc EXCEPT ![r] = "queued"]
                  /\ due' = [due EXCEPT ![r] = approved]
    /\ Answer(q)
    /\ UNCHANGED <<figures, saw, goneAggs, goneSlices, liveVars, publishVars, approved, minute,
                   overlapped>>

\* Billing or a usage limit refuses a user's run; no library stops a schedule's.
TurnDown(q) ==
    /\ rpc[q] = "create" /\ path[q] # "auto"
    /\ Answer(q)
    /\ UNCHANGED <<runVars, workVars, liveVars, publishVars, approved, minute, due, overlapped>>

---------------------------------------------------------------------------
(* A run's worker *)

WorkStep(r, from, to) == wpc[r] = from /\ wpc' = [wpc EXCEPT ![r] = to]

\* claimRun: a run that is already terminal is left alone.
ClaimRun(r) ==
    /\ WorkStep(r, "queued", "size")
    /\ status[r] \in {"queued", "running"}
    /\ UNCHANGED <<runVars, figures, saw, goneAggs, goneSlices, liveVars, askVars, publishVars,
                   approved, minute, due, overlapped>>

SizeRun(r) ==
    /\ wpc[r] = "size"
    /\ LET empty == approved = {} IN
         /\ wpc' = [wpc EXCEPT ![r] = IF empty THEN "done" ELSE "work"]
         /\ status' = [status EXCEPT ![r] = IF empty THEN "failed" ELSE "running"]
    /\ UNCHANGED <<hash, figures, saw, goneAggs, goneSlices, liveVars, askVars, publishVars,
                   approved, minute, due, overlapped>>

CalculatePage(r) ==
    /\ wpc[r] = "work"
    /\ ~(approved \subseteq figures[r])
    /\ figures' = [figures EXCEPT ![r] = @ \cup approved]
    /\ UNCHANGED <<runVars, wpc, saw, goneAggs, goneSlices, liveVars, askVars, publishVars,
                   approved, minute, due, overlapped>>

FindNothingLeft(r) ==
    /\ approved \subseteq figures[r]
    /\ WorkStep(r, "work", "swap")
    /\ UNCHANGED <<runVars, figures, saw, goneAggs, goneSlices, liveVars, askVars, publishVars,
                   approved, minute, due, overlapped>>

\* The swap opens its transaction; deleteMany on the aggregates starts.
SeeAggregates(r) ==
    /\ WorkStep(r, "swap", "deleteAggs")
    /\ saw' = [saw EXCEPT ![r] = aggs]
    /\ LET others == {s \in Runs \ {r} : Swapping(s)} IN
         overlapped' = IF others = {} THEN overlapped ELSE overlapped \cup others \cup {r}
    /\ UNCHANGED <<runVars, figures, goneAggs, goneSlices, liveVars, askVars, publishVars,
                   approved, minute, due>>

\* It waits for rows another transaction is deleting.
DeleteAggregates(r) ==
    /\ WorkStep(r, "deleteAggs", "seeSlices")
    /\ \A s \in Runs \ {r} : saw[r] \cap goneAggs[s] = {}
    /\ goneAggs' = [goneAggs EXCEPT ![r] = saw[r] \cap aggs]
    /\ saw' = [saw EXCEPT ![r] = {}]
    /\ UNCHANGED <<runVars, figures, goneSlices, liveVars, askVars, publishVars, approved, minute,
                   due, overlapped>>

SeeSlices(r) ==
    /\ WorkStep(r, "seeSlices", "deleteSlices")
    /\ saw' = [saw EXCEPT ![r] = slices]
    /\ UNCHANGED <<runVars, figures, goneAggs, goneSlices, liveVars, askVars, publishVars,
                   approved, minute, due, overlapped>>

DeleteSlices(r) ==
    /\ WorkStep(r, "deleteSlices", "insert")
    /\ \A s \in Runs \ {r} : saw[r] \cap goneSlices[s] = {}
    /\ goneSlices' = [goneSlices EXCEPT ![r] = saw[r] \cap slices]
    /\ saw' = [saw EXCEPT ![r] = {}]
    /\ UNCHANGED <<runVars, figures, goneAggs, liveVars, askVars, publishVars, approved, minute,
                   due, overlapped>>

\* What a run over these records inserts: nothing when it has no calculations.
Inserted(r) == IF figures[r] = {} THEN {} ELSE {r}
CloseSwap(r) ==
    /\ saw' = [saw EXCEPT ![r] = {}]
    /\ goneAggs' = [goneAggs EXCEPT ![r] = {}]
    /\ goneSlices' = [goneSlices EXCEPT ![r] = {}]

CommitSwap(r) ==
    /\ WorkStep(r, "insert", "succeed")
    /\ aggs' = (aggs \ goneAggs[r]) \cup Inserted(r)
    /\ slices' = (slices \ goneSlices[r]) \cup Inserted(r)
    /\ CloseSwap(r)
    /\ disturbed' = disturbed \cup {p \in Publishers : ppc[p] \in CopySteps}
    /\ UNCHANGED <<runVars, figures, askVars, ppc, target, version, copied, snapshots, approved,
                   minute, due, overlapped>>

Succeed(r) ==
    /\ WorkStep(r, "succeed", "done")
    /\ status' = [status EXCEPT ![r] = "succeeded"]
    /\ UNCHANGED <<hash, figures, saw, goneAggs, goneSlices, liveVars, askVars, publishVars,
                   approved, minute, due, overlapped>>

\* Any statement may throw; an open transaction rolls back.
FailRun(r) ==
    /\ wpc[r] \in WorkSteps
    /\ wpc' = [wpc EXCEPT ![r] = "done"]
    /\ status' = [status EXCEPT ![r] = "failed"]
    /\ CloseSwap(r)
    /\ UNCHANGED <<hash, figures, liveVars, askVars, publishVars, approved, minute, due, overlapped>>

\* The invocation is killed inside the swap: it rolls back, and a later one
\* continues the run.
InterruptSwap(r) ==
    /\ Swapping(r)
    /\ wpc' = [wpc EXCEPT ![r] = "work"]
    /\ CloseSwap(r)
    /\ UNCHANGED <<runVars, figures, liveVars, askVars, publishVars, approved, minute, due, overlapped>>

---------------------------------------------------------------------------
(* An administrator cancels; reviewers withdraw approvals; minutes pass *)

\* Marks the row; the worker is not told.
CancelRun(r) ==
    /\ r \in InFlight
    /\ status' = [status EXCEPT ![r] = "failed"]
    /\ UNCHANGED <<hash, workVars, liveVars, askVars, publishVars, approved, minute, due, overlapped>>

Unapprove(a) ==
    /\ a \in approved
    /\ approved' = approved \ {a}
    /\ due' = [r \in Runs |-> due[r] \ {a}]
    /\ UNCHANGED <<runVars, workVars, liveVars, askVars, publishVars, minute, overlapped>>

NextMinute ==
    /\ minute < MaxMinute
    /\ minute' = minute + 1
    /\ UNCHANGED <<runVars, workVars, liveVars, askVars, publishVars, approved, due, overlapped>>

---------------------------------------------------------------------------
(* Publishing a snapshot of a run *)

PublishStep(p, from, to) == ppc[p] = from /\ ppc' = [ppc EXCEPT ![p] = to]

\* Any succeeded run may be published; it is looked up outside the transaction.
CheckRun(p) ==
    /\ PublishStep(p, "idle", "lock")
    /\ \E r \in Runs : status[r] = "succeeded" /\ target' = [target EXCEPT ![p] = r]
    /\ Cardinality(snapshots) + Cardinality({q \in Publishers : ppc[q] # "idle"}) < MaxSnapshots
    /\ UNCHANGED <<runVars, workVars, liveVars, askVars, version, copied, snapshots, approved,
                   minute, due, overlapped, disturbed>>

LatestVersion ==
    IF snapshots = {} THEN 0
    ELSE CHOOSE v \in {s.version : s \in snapshots} : \A s \in snapshots : s.version <= v

\* nextSnapshotVersion: an advisory lock held until the transaction ends.
TakeVersion(p) ==
    /\ PublishStep(p, "lock", "copyAggs")
    /\ \A q \in Publishers : ppc[q] \notin CopySteps
    /\ version' = [version EXCEPT ![p] = LatestVersion + 1]
    /\ UNCHANGED <<runVars, workVars, liveVars, askVars, target, copied, snapshots, approved,
                   minute, due, overlapped, disturbed>>

CopyAggregates(p) ==
    /\ PublishStep(p, "copyAggs", "copySlices")
    /\ copied' = [copied EXCEPT ![p] = aggs]
    /\ UNCHANGED <<runVars, workVars, liveVars, askVars, target, version, snapshots, approved,
                   minute, due, overlapped, disturbed>>

EndPublish(p) ==
    /\ target' = [target EXCEPT ![p] = NoRun]
    /\ version' = [version EXCEPT ![p] = 0]
    /\ copied' = [copied EXCEPT ![p] = {}]
    /\ disturbed' = disturbed \ {p}

\* copyLiveSlicesToSnapshot, and the transaction commits.
CopySlices(p) ==
    /\ PublishStep(p, "copySlices", "idle")
    /\ snapshots' = snapshots \cup {[version |-> version[p], run |-> target[p], aggs |-> copied[p],
                                     slices |-> slices, quiet |-> p \notin disturbed]}
    /\ EndPublish(p)
    /\ UNCHANGED <<runVars, workVars, liveVars, askVars, approved, minute, due, overlapped>>

PublishFails(p) ==
    /\ ppc[p] # "idle"
    /\ ppc' = [ppc EXCEPT ![p] = "idle"]
    /\ EndPublish(p)
    /\ UNCHANGED <<runVars, workVars, liveVars, askVars, snapshots, approved, minute, due, overlapped>>

---------------------------------------------------------------------------

Ask(q) ==
    \/ AskForRun(q) \/ LookInFlight(q) \/ CreateRun(q) \/ TurnDown(q)
    \/ \E a \in Records : ApproveSubmission(q, a)

Swap(r) ==
    \/ SeeAggregates(r) \/ DeleteAggregates(r) \/ SeeSlices(r) \/ DeleteSlices(r)
    \/ CommitSwap(r) \/ InterruptSwap(r)

Work(r) ==
    \/ ClaimRun(r) \/ SizeRun(r) \/ CalculatePage(r) \/ FindNothingLeft(r)
    \/ Swap(r) \/ Succeed(r) \/ FailRun(r)

Publish(p) ==
    \/ CheckRun(p) \/ TakeVersion(p) \/ CopyAggregates(p) \/ CopySlices(p) \/ PublishFails(p)

Next ==
    \/ \E q \in Requests : Ask(q)
    \/ \E r \in Runs : Work(r) \/ CancelRun(r)
    \/ \E p \in Publishers : Publish(p)
    \/ \E a \in Records : Unapprove(a)
    \/ NextMinute

Spec == Init /\ [][Next]_vars

---------------------------------------------------------------------------
(* Properties *)

RunTypeOK ==
    /\ status \in [Runs -> {"none", "queued", "running", "succeeded", "failed"}]
    /\ hash \in [Runs -> {NoHash} \cup (Paths \X (0 .. MaxMinute))]
    /\ wpc \in [Runs -> {"idle", "queued", "done"} \cup WorkSteps]
    /\ figures \in [Runs -> SUBSET Records] /\ due \in [Runs -> SUBSET Records]
    /\ saw \in [Runs -> SUBSET Runs]
    /\ goneAggs \in [Runs -> SUBSET Runs] /\ goneSlices \in [Runs -> SUBSET Runs]

RequestTypeOK ==
    /\ rpc \in [Requests -> {"idle", "look", "create"}]
    /\ path \in [Requests -> Paths] /\ bucket \in [Requests -> 0 .. MaxMinute]

SnapshotRow ==
    [version : Nat \ {0}, run : Runs, aggs : SUBSET Runs, slices : SUBSET Runs, quiet : BOOLEAN]

PublishTypeOK ==
    /\ ppc \in [Publishers -> {"idle", "lock"} \cup CopySteps]
    /\ target \in [Publishers -> Runs \cup {NoRun}]
    /\ version \in [Publishers -> Nat] /\ copied \in [Publishers -> SUBSET Runs]
    /\ snapshots \subseteq SnapshotRow
    /\ disturbed \subseteq Publishers

TypeOK ==
    /\ RunTypeOK /\ RequestTypeOK /\ PublishTypeOK
    /\ aggs \subseteq Runs /\ slices \subseteq Runs /\ overlapped \subseteq Runs
    /\ approved \subseteq Records /\ minute \in 0 .. MaxMinute

\* A swap that overlapped no other leaves exactly its own figures in both tables,
\* whatever earlier swaps left there.
AloneSwapIsExact ==
    [][\A r \in Runs :
         wpc[r] = "insert" /\ wpc'[r] = "succeed" /\ r \notin overlapped =>
            aggs' = Inserted(r) /\ slices' = Inserted(r)]_vars

\* However swaps overlap or roll back, readers never see the dashboard go blank
\* unless a run had no calculations at all.
DashboardNeverBlank ==
    [][aggs # {} /\ aggs' = {} => \E r \in Runs : wpc[r] = "insert" /\ figures[r] = {}]_vars

\* However the runs of a period meet in the live tables, a swap that meets no other leaves
\* exactly its own figures, and no swap leaves readers a blank dashboard.
SwapsAreSound == AloneSwapIsExact /\ DashboardNeverBlank

\* A run that succeeds has calculated every record that was approved before the
\* request that created it was answered, and stayed approved.
RunCoversItsApprovals ==
    \A r \in Runs : status[r] = "succeeded" => due[r] \subseteq figures[r]

\* Two snapshots of a period never share a version, and none is skipped.
VersionsAreConsecutive ==
    {s.version : s \in snapshots} = 1 .. Cardinality(snapshots)

\* A snapshot copied while no swap committed has the same runs' figures in both
\* tables, if no two swaps ever overlapped.
QuietSnapshotAgrees ==
    overlapped = {} => \A s \in snapshots : s.quiet => s.aggs = s.slices

\* Publishers who copy at the same time, among runs that swap, take consecutive versions,
\* and what one copies undisturbed is of one state.
SnapshotsAreSound == VersionsAreConsecutive /\ QuietSnapshotAgrees
=============================================================================
