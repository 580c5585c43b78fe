---------------------------- MODULE PeriodFigures_proofs ----------------------------
(***************************************************************************)
(* Proofs about what a period shows and what its electricity claims:       *)
(* PeriodRuns, for any runs, requests, records and publishers, however      *)
(* many minutes pass and snapshots are published; MarketAllocation, for     *)
(* any finite sets of records and instruments, whatever they say, any       *)
(* batch size and however often users change them.                         *)
(*                                                                         *)
(* PeriodRuns: a swap that has met no other has seen the tables as they are *)
(* when it commits, because only commits of swaps change them; and the      *)
(* advisory lock keeps the versions of two publishers apart.               *)
(*                                                                         *)
(* MarketAllocation: a sum over a finite set is what is left of it without  *)
(* any one of its elements and that one, and an allocation is two nested    *)
(* folds, each of which comes to the last record or instrument last. What   *)
(* both loops keep is then shown by adding that last one to what the others *)
(* have drawn. Of the run, what a chunk has loaded is sound when it loads   *)
(* it, and stays what it was whatever users do before the chunk ends.       *)
(***************************************************************************)
EXTENDS PeriodRuns, MarketAllocation, FiniteSetTheorems, WellFoundedInduction, TLAPS

---------------------------------------------------------------------------
(* PeriodRuns: the parts of the inductive invariant. *)

\* A run is due no record that was withdrawn, and calculates what it is due before its swap.
DueInv ==
    /\ \A r \in Runs : due[r] \subseteq approved
    /\ \A r \in Runs : Swapping(r) \/ wpc[r] \in {"swap", "succeed"} => due[r] \subseteq figures[r]
    /\ RunCoversItsApprovals

\* Two open swaps know of each other. One that has met none has seen, and then deleted, all
\* there is in the tables; and while none ever met, the two tables agree.
SwapInv ==
    /\ \A r, s \in Runs : Swapping(r) /\ Swapping(s) /\ r # s => r \in overlapped
    /\ \A r \in Runs \ overlapped :
        /\ wpc[r] = "deleteAggs" => saw[r] = aggs
        /\ wpc[r] \in {"seeSlices", "deleteSlices", "insert"} => goneAggs[r] = aggs
        /\ wpc[r] = "deleteSlices" => saw[r] = slices
        /\ wpc[r] = "insert" => goneSlices[r] = slices
    /\ overlapped = {} => aggs = slices

\* One publisher copies at a time. Its version is the next, and what it copied while no swap
\* committed is what the tables hold.
SnapshotInv ==
    /\ IsFiniteSet(snapshots)
    /\ VersionsAreConsecutive
    /\ \A p \in Publishers : ppc[p] # "idle" => target[p] \in Runs
    /\ \A p, q \in Publishers : ppc[p] \in CopySteps /\ ppc[q] \in CopySteps => p = q
    /\ \A p \in Publishers : ppc[p] \in CopySteps => version[p] = Cardinality(snapshots) + 1
    /\ \A p \in Publishers \ disturbed : ppc[p] = "copySlices" => copied[p] = aggs
    /\ QuietSnapshotAgrees

PeriodInv == TypeOK /\ DueInv /\ SwapInv /\ SnapshotInv

---------------------------------------------------------------------------
(* Types. *)

\* The newest version is the number of snapshots.
LEMMA LatestIsCount ==
    ASSUME SnapshotInv
    PROVE  LatestVersion = Cardinality(snapshots) /\ LatestVersion \in Nat
<1> DEFINE n == Cardinality(snapshots)
           Versions == {s.version : s \in snapshots}
<1>1. n \in Nat /\ Versions = 1 .. n
  BY FS_CardinalityType DEF SnapshotInv, VersionsAreConsecutive
<1>2. CASE snapshots = {}
  BY <1>2, FS_EmptySet DEF LatestVersion
<1>3. CASE snapshots # {}
  <2>1. n \in 1 .. n
    BY <1>1, <1>3
  <2>2. \A v \in Versions : (\A s \in snapshots : s.version <= v) => v = n
    <3>1. PICK s \in snapshots : s.version = n
      BY <1>1, <2>1
    <3> QED
      BY <1>1, <3>1
  <2>3. n \in Versions /\ \A s \in snapshots : s.version <= n
    BY <1>1, <2>1
  <2>4. LatestVersion = CHOOSE v \in Versions : \A s \in snapshots : s.version <= v
    BY <1>3 DEF LatestVersion
  <2> QED
    BY <1>1, <2>2, <2>3, <2>4
<1> QED
  BY <1>2, <1>3

\* Types are kept by every step.
LEMMA TypeStep ==
    ASSUME TypeOK, SnapshotInv, [Next]_vars
    PROVE  TypeOK'
<1> USE BoundAssumption
      DEF TypeOK, RunTypeOK, RequestTypeOK, PublishTypeOK, WorkStep, PublishStep, SwapSteps,
          WorkSteps, CopySteps, runVars, workVars, liveVars, askVars, publishVars
<1>1. ASSUME NEW q \in Requests, AskForRun(q) PROVE TypeOK'
  BY <1>1, WaysAssumption DEF AskForRun, Request, Paths
<1>2. ASSUME NEW q \in Requests, NEW a \in Records, ApproveSubmission(q, a) PROVE TypeOK'
  BY <1>2 DEF ApproveSubmission, Request, Paths
<1>3. ASSUME NEW q \in Requests, LookInFlight(q) PROVE TypeOK'
  <2>1. CASE InFlight # {}
    BY <1>3, <2>1 DEF LookInFlight, Answer, Paths
  <2>2. CASE InFlight = {}
    BY <1>3, <2>2 DEF LookInFlight
  <2> QED
    BY <2>1, <2>2
<1>4. ASSUME NEW q \in Requests, CreateRun(q) PROVE TypeOK'
  <2>1. RequestTypeOK'
    BY <1>4 DEF CreateRun, Answer, Paths
  <2>2. status' \in [Runs -> {"none", "queued", "running", "succeeded", "failed"}]
        /\ wpc' \in [Runs -> {"idle", "queued", "done"} \cup WorkSteps]
        /\ due' \in [Runs -> SUBSET Records]
    <3>1. \/ UNCHANGED <<runVars, wpc, due>>
          \/ \E r \in Runs : /\ status' = [status EXCEPT ![r] = "queued"]
                            /\ wpc' = [wpc EXCEPT ![r] = "queued"]
                            /\ due' = [due EXCEPT ![r] = approved]
      BY <1>4 DEF CreateRun
    <3> QED
      BY <3>1
  <2>3. hash' \in [Runs -> {NoHash} \cup (Paths \X (0 .. MaxMinute))]
    BY <1>4 DEF CreateRun
  <2> QED
    BY <1>4, <2>1, <2>2, <2>3 DEF CreateRun
<1>5. ASSUME NEW q \in Requests, TurnDown(q) PROVE TypeOK'
  BY <1>5 DEF TurnDown, Answer, Paths
<1>6. ASSUME NEW r \in Runs, ClaimRun(r) PROVE TypeOK'
  BY <1>6 DEF ClaimRun
<1>7. ASSUME NEW r \in Runs, SizeRun(r) PROVE TypeOK'
  BY <1>7 DEF SizeRun
<1>8. ASSUME NEW r \in Runs, CalculatePage(r) PROVE TypeOK'
  BY <1>8 DEF CalculatePage
<1>9. ASSUME NEW r \in Runs, FindNothingLeft(r) PROVE TypeOK'
  BY <1>9 DEF FindNothingLeft
<1>10. ASSUME NEW r \in Runs, SeeAggregates(r) PROVE TypeOK'
  BY <1>10 DEF SeeAggregates
<1>11. ASSUME NEW r \in Runs, DeleteAggregates(r) PROVE TypeOK'
  BY <1>11 DEF DeleteAggregates
<1>12. ASSUME NEW r \in Runs, SeeSlices(r) PROVE TypeOK'
  BY <1>12 DEF SeeSlices
<1>13. ASSUME NEW r \in Runs, DeleteSlices(r) PROVE TypeOK'
  BY <1>13 DEF DeleteSlices
<1>14. ASSUME NEW r \in Runs, CommitSwap(r) PROVE TypeOK'
  BY <1>14 DEF CommitSwap, CloseSwap, Inserted
<1>15. ASSUME NEW r \in Runs, InterruptSwap(r) PROVE TypeOK'
  BY <1>15 DEF InterruptSwap, CloseSwap
<1>16. ASSUME NEW r \in Runs, Succeed(r) PROVE TypeOK'
  BY <1>16 DEF Succeed
<1>17. ASSUME NEW r \in Runs, FailRun(r) PROVE TypeOK'
  BY <1>17 DEF FailRun, CloseSwap
<1>18. ASSUME NEW r \in Runs, CancelRun(r) PROVE TypeOK'
  BY <1>18 DEF CancelRun
<1>19. ASSUME NEW p \in Publishers, CheckRun(p) PROVE TypeOK'
  BY <1>19 DEF CheckRun
<1>20. ASSUME NEW p \in Publishers, TakeVersion(p) PROVE TypeOK'
  BY <1>20, LatestIsCount DEF TakeVersion
<1>21. ASSUME NEW p \in Publishers, CopyAggregates(p) PROVE TypeOK'
  BY <1>21 DEF CopyAggregates
<1>22. ASSUME NEW p \in Publishers, CopySlices(p) PROVE TypeOK'
  <2>1. version[p] \in Nat \ {0} /\ target[p] \in Runs
    <3>1. version[p] = Cardinality(snapshots) + 1 /\ target[p] \in Runs
      BY <1>22 DEF CopySlices, SnapshotInv
    <3> QED
      BY <3>1, FS_CardinalityType DEF SnapshotInv
  <2>2. snapshots' \subseteq SnapshotRow
    <3>1. copied[p] \in SUBSET Runs /\ slices \in SUBSET Runs /\ (p \notin disturbed) \in BOOLEAN
      OBVIOUS
    <3>2. [version |-> version[p], run |-> target[p], aggs |-> copied[p], slices |-> slices,
           quiet |-> p \notin disturbed] \in SnapshotRow
      BY <2>1, <3>1 DEF SnapshotRow
    <3> QED
      BY <1>22, <3>2 DEF CopySlices
  <2> QED
    BY <1>22, <2>2 DEF CopySlices, EndPublish
<1>23. ASSUME NEW p \in Publishers, PublishFails(p) PROVE TypeOK'
  BY <1>23 DEF PublishFails, EndPublish
<1>24. ASSUME NEW a \in Records, Unapprove(a) PROVE TypeOK'
  BY <1>24 DEF Unapprove
<1>25. ASSUME NextMinute PROVE TypeOK'
  BY <1>25 DEF NextMinute
<1>26. ASSUME UNCHANGED vars PROVE TypeOK'
  BY <1>26 DEF vars
<1> QED
  BY <1>1, <1>2, <1>3, <1>4, <1>5, <1>6, <1>7, <1>8, <1>9, <1>10, <1>11, <1>12, <1>13,
     <1>14, <1>15, <1>16, <1>17, <1>18, <1>19, <1>20, <1>21, <1>22, <1>23, <1>24,
     <1>25, <1>26
     DEF Next, Ask, Work, Swap, Publish

---------------------------------------------------------------------------
(* What a run that succeeds has calculated. *)

LEMMA DueStep ==
    ASSUME TypeOK, DueInv, [Next]_vars
    PROVE  DueInv'
<1> USE DEF TypeOK, RunTypeOK, DueInv, RunCoversItsApprovals, WorkStep, Swapping, SwapSteps,
          WorkSteps, Exists, runVars, workVars, liveVars, askVars, publishVars
<1>1. ASSUME NEW q \in Requests, AskForRun(q) PROVE DueInv'
  BY <1>1 DEF AskForRun, Request
<1>2. ASSUME NEW q \in Requests, NEW a \in Records, ApproveSubmission(q, a) PROVE DueInv'
  BY <1>2 DEF ApproveSubmission, Request
<1>3. ASSUME NEW q \in Requests, LookInFlight(q) PROVE DueInv'
  BY <1>3 DEF LookInFlight, Answer
<1>4. ASSUME NEW q \in Requests, CreateRun(q) PROVE DueInv'
  BY <1>4 DEF CreateRun, Answer
<1>5. ASSUME NEW q \in Requests, TurnDown(q) PROVE DueInv'
  BY <1>5 DEF TurnDown, Answer
<1>6. ASSUME NEW r \in Runs, ClaimRun(r) PROVE DueInv'
  BY <1>6 DEF ClaimRun
<1>7. ASSUME NEW r \in Runs, SizeRun(r) PROVE DueInv'
  BY <1>7 DEF SizeRun
<1>8. ASSUME NEW r \in Runs, CalculatePage(r) PROVE DueInv'
  BY <1>8 DEF CalculatePage
<1>9. ASSUME NEW r \in Runs, FindNothingLeft(r) PROVE DueInv'
  BY <1>9 DEF FindNothingLeft
<1>10. ASSUME NEW r \in Runs, SeeAggregates(r) PROVE DueInv'
  BY <1>10 DEF SeeAggregates
<1>11. ASSUME NEW r \in Runs, DeleteAggregates(r) PROVE DueInv'
  BY <1>11 DEF DeleteAggregates
<1>12. ASSUME NEW r \in Runs, SeeSlices(r) PROVE DueInv'
  BY <1>12 DEF SeeSlices
<1>13. ASSUME NEW r \in Runs, DeleteSlices(r) PROVE DueInv'
  BY <1>13 DEF DeleteSlices
<1>14. ASSUME NEW r \in Runs, CommitSwap(r) PROVE DueInv'
  BY <1>14 DEF CommitSwap, CloseSwap, Inserted
<1>15. ASSUME NEW r \in Runs, InterruptSwap(r) PROVE DueInv'
  BY <1>15 DEF InterruptSwap, CloseSwap
<1>16. ASSUME NEW r \in Runs, Succeed(r) PROVE DueInv'
  BY <1>16 DEF Succeed
<1>17. ASSUME NEW r \in Runs, FailRun(r) PROVE DueInv'
  BY <1>17 DEF FailRun, CloseSwap
<1>18. ASSUME NEW r \in Runs, CancelRun(r) PROVE DueInv'
  BY <1>18 DEF CancelRun
<1>19. ASSUME NEW p \in Publishers, CheckRun(p) PROVE DueInv'
  BY <1>19 DEF CheckRun
<1>20. ASSUME NEW p \in Publishers, TakeVersion(p) PROVE DueInv'
  BY <1>20 DEF TakeVersion
<1>21. ASSUME NEW p \in Publishers, CopyAggregates(p) PROVE DueInv'
  BY <1>21 DEF CopyAggregates
<1>22. ASSUME NEW p \in Publishers, CopySlices(p) PROVE DueInv'
  BY <1>22 DEF CopySlices, EndPublish
<1>23. ASSUME NEW p \in Publishers, PublishFails(p) PROVE DueInv'
  BY <1>23 DEF PublishFails, EndPublish
<1>24. ASSUME NEW a \in Records, Unapprove(a) PROVE DueInv'
  BY <1>24 DEF Unapprove
<1>25. ASSUME NextMinute PROVE DueInv'
  BY <1>25 DEF NextMinute
<1>26. ASSUME UNCHANGED vars PROVE DueInv'
  BY <1>26 DEF vars
<1> QED
  BY <1>1, <1>2, <1>3, <1>4, <1>5, <1>6, <1>7, <1>8, <1>9, <1>10, <1>11, <1>12, <1>13,
     <1>14, <1>15, <1>16, <1>17, <1>18, <1>19, <1>20, <1>21, <1>22, <1>23, <1>24,
     <1>25, <1>26
     DEF Next, Ask, Work, Swap, Publish

---------------------------------------------------------------------------
(* The swaps. *)

LEMMA SwapStep ==
    ASSUME TypeOK, SwapInv, [Next]_vars
    PROVE  SwapInv'
<1> USE DEF TypeOK, RunTypeOK, SwapInv, WorkStep, Swapping, SwapSteps, WorkSteps, runVars,
          workVars, liveVars, askVars, publishVars
<1>1. ASSUME NEW q \in Requests, AskForRun(q) PROVE SwapInv'
  BY <1>1 DEF AskForRun, Request
<1>2. ASSUME NEW q \in Requests, NEW a \in Records, ApproveSubmission(q, a) PROVE SwapInv'
  BY <1>2 DEF ApproveSubmission, Request
<1>3. ASSUME NEW q \in Requests, LookInFlight(q) PROVE SwapInv'
  BY <1>3 DEF LookInFlight, Answer
<1>4. ASSUME NEW q \in Requests, CreateRun(q) PROVE SwapInv'
  BY <1>4 DEF CreateRun, Answer
<1>5. ASSUME NEW q \in Requests, TurnDown(q) PROVE SwapInv'
  BY <1>5 DEF TurnDown, Answer
<1>6. ASSUME NEW r \in Runs, ClaimRun(r) PROVE SwapInv'
  BY <1>6 DEF ClaimRun
<1>7. ASSUME NEW r \in Runs, SizeRun(r) PROVE SwapInv'
  BY <1>7 DEF SizeRun
<1>8. ASSUME NEW r \in Runs, CalculatePage(r) PROVE SwapInv'
  BY <1>8 DEF CalculatePage
<1>9. ASSUME NEW r \in Runs, FindNothingLeft(r) PROVE SwapInv'
  BY <1>9 DEF FindNothingLeft
<1>10. ASSUME NEW r \in Runs, SeeAggregates(r) PROVE SwapInv'
  BY <1>10 DEF SeeAggregates
<1>11. ASSUME NEW r \in Runs, DeleteAggregates(r) PROVE SwapInv'
  BY <1>11 DEF DeleteAggregates
<1>12. ASSUME NEW r \in Runs, SeeSlices(r) PROVE SwapInv'
  BY <1>12 DEF SeeSlices
<1>13. ASSUME NEW r \in Runs, DeleteSlices(r) PROVE SwapInv'
  BY <1>13 DEF DeleteSlices
<1>14. ASSUME NEW r \in Runs, CommitSwap(r) PROVE SwapInv'
  BY <1>14 DEF CommitSwap, CloseSwap, Inserted
<1>15. ASSUME NEW r \in Runs, InterruptSwap(r) PROVE SwapInv'
  BY <1>15 DEF InterruptSwap, CloseSwap
<1>16. ASSUME NEW r \in Runs, Succeed(r) PROVE SwapInv'
  BY <1>16 DEF Succeed
<1>17. ASSUME NEW r \in Runs, FailRun(r) PROVE SwapInv'
  BY <1>17 DEF FailRun, CloseSwap
<1>18. ASSUME NEW r \in Runs, CancelRun(r) PROVE SwapInv'
  BY <1>18 DEF CancelRun
<1>19. ASSUME NEW p \in Publishers, CheckRun(p) PROVE SwapInv'
  BY <1>19 DEF CheckRun
<1>20. ASSUME NEW p \in Publishers, TakeVersion(p) PROVE SwapInv'
  BY <1>20 DEF TakeVersion
<1>21. ASSUME NEW p \in Publishers, CopyAggregates(p) PROVE SwapInv'
  BY <1>21 DEF CopyAggregates
<1>22. ASSUME NEW p \in Publishers, CopySlices(p) PROVE SwapInv'
  BY <1>22 DEF CopySlices, EndPublish
<1>23. ASSUME NEW p \in Publishers, PublishFails(p) PROVE SwapInv'
  BY <1>23 DEF PublishFails, EndPublish
<1>24. ASSUME NEW a \in Records, Unapprove(a) PROVE SwapInv'
  BY <1>24 DEF Unapprove
<1>25. ASSUME NextMinute PROVE SwapInv'
  BY <1>25 DEF NextMinute
<1>26. ASSUME UNCHANGED vars PROVE SwapInv'
  BY <1>26 DEF vars
<1> QED
  BY <1>1, <1>2, <1>3, <1>4, <1>5, <1>6, <1>7, <1>8, <1>9, <1>10, <1>11, <1>12, <1>13,
     <1>14, <1>15, <1>16, <1>17, <1>18, <1>19, <1>20, <1>21, <1>22, <1>23, <1>24,
     <1>25, <1>26
     DEF Next, Ask, Work, Swap, Publish

---------------------------------------------------------------------------
(* The snapshots. *)

LEMMA VersionsWithOneMore ==
    ASSUME NEW S, NEW x
    PROVE  {s.version : s \in S \cup {x}} = {s.version : s \in S} \cup {x.version}
OBVIOUS

LEMMA SnapshotStep ==
    ASSUME TypeOK, SwapInv, SnapshotInv, [Next]_vars
    PROVE  SnapshotInv'
<1> USE DEF TypeOK, PublishTypeOK, SnapshotInv, VersionsAreConsecutive, QuietSnapshotAgrees,
          PublishStep, WorkStep, CopySteps, runVars, workVars, liveVars, askVars, publishVars
<1>1. ASSUME NEW q \in Requests, AskForRun(q) PROVE SnapshotInv'
  BY <1>1 DEF AskForRun, Request
<1>2. ASSUME NEW q \in Requests, NEW a \in Records, ApproveSubmission(q, a) PROVE SnapshotInv'
  BY <1>2 DEF ApproveSubmission, Request
<1>3. ASSUME NEW q \in Requests, LookInFlight(q) PROVE SnapshotInv'
  BY <1>3 DEF LookInFlight, Answer
<1>4. ASSUME NEW q \in Requests, CreateRun(q) PROVE SnapshotInv'
  BY <1>4 DEF CreateRun, Answer
<1>5. ASSUME NEW q \in Requests, TurnDown(q) PROVE SnapshotInv'
  BY <1>5 DEF TurnDown, Answer
<1>6. ASSUME NEW r \in Runs, ClaimRun(r) PROVE SnapshotInv'
  BY <1>6 DEF ClaimRun
<1>7. ASSUME NEW r \in Runs, SizeRun(r) PROVE SnapshotInv'
  BY <1>7 DEF SizeRun
<1>8. ASSUME NEW r \in Runs, CalculatePage(r) PROVE SnapshotInv'
  BY <1>8 DEF CalculatePage
<1>9. ASSUME NEW r \in Runs, FindNothingLeft(r) PROVE SnapshotInv'
  BY <1>9 DEF FindNothingLeft
<1>10. ASSUME NEW r \in Runs, SeeAggregates(r) PROVE SnapshotInv'
  BY <1>10 DEF SeeAggregates
<1>11. ASSUME NEW r \in Runs, DeleteAggregates(r) PROVE SnapshotInv'
  BY <1>11 DEF DeleteAggregates
<1>12. ASSUME NEW r \in Runs, SeeSlices(r) PROVE SnapshotInv'
  BY <1>12 DEF SeeSlices
<1>13. ASSUME NEW r \in Runs, DeleteSlices(r) PROVE SnapshotInv'
  BY <1>13 DEF DeleteSlices
<1>14. ASSUME NEW r \in Runs, CommitSwap(r) PROVE SnapshotInv'
  BY <1>14 DEF CommitSwap, CloseSwap, Inserted
<1>15. ASSUME NEW r \in Runs, InterruptSwap(r) PROVE SnapshotInv'
  BY <1>15 DEF InterruptSwap, CloseSwap
<1>16. ASSUME NEW r \in Runs, Succeed(r) PROVE SnapshotInv'
  BY <1>16 DEF Succeed
<1>17. ASSUME NEW r \in Runs, FailRun(r) PROVE SnapshotInv'
  BY <1>17 DEF FailRun, CloseSwap
<1>18. ASSUME NEW r \in Runs, CancelRun(r) PROVE SnapshotInv'
  BY <1>18 DEF CancelRun
<1>19. ASSUME NEW p \in Publishers, CheckRun(p) PROVE SnapshotInv'
  BY <1>19 DEF CheckRun
<1>20. ASSUME NEW p \in Publishers, TakeVersion(p) PROVE SnapshotInv'
  <2>1. /\ ppc[p] = "lock" /\ ppc' = [ppc EXCEPT ![p] = "copyAggs"]
        /\ version' = [version EXCEPT ![p] = Cardinality(snapshots) + 1]
        /\ \A q \in Publishers : ppc[q] \notin CopySteps
    BY <1>20, LatestIsCount DEF TakeVersion
  <2>2. UNCHANGED <<snapshots, aggs, slices, copied, disturbed, overlapped, target>>
    BY <1>20 DEF TakeVersion
  <2> QED
    BY <2>1, <2>2
<1>21. ASSUME NEW p \in Publishers, CopyAggregates(p) PROVE SnapshotInv'
  BY <1>21 DEF CopyAggregates
<1>22. ASSUME NEW p \in Publishers, CopySlices(p) PROVE SnapshotInv'
  <2> PICK new : new = [version |-> version[p], run |-> target[p], aggs |-> copied[p],
                        slices |-> slices, quiet |-> p \notin disturbed]
    OBVIOUS
  <2> DEFINE count == Cardinality(snapshots)
  <2>1. /\ ppc[p] = "copySlices" /\ ppc' = [ppc EXCEPT ![p] = "idle"]
        /\ snapshots' = snapshots \cup {new}
        /\ UNCHANGED <<aggs, slices, overlapped>>
        /\ \A q \in Publishers \ {p} :
              target'[q] = target[q] /\ version'[q] = version[q] /\ copied'[q] = copied[q]
        /\ disturbed' = disturbed \ {p}
    BY <1>22 DEF CopySlices, EndPublish
  <2>2. count \in Nat /\ new.version = count + 1
    BY <2>1, FS_CardinalityType
  <2>3. new \notin snapshots
    BY <2>2
  <2>4. IsFiniteSet(snapshots') /\ Cardinality(snapshots') = count + 1
    BY <2>1, <2>3, FS_AddElement
  <2>5. {s.version : s \in snapshots'} = 1 .. (count + 1)
    <3>1. {s.version : s \in snapshots} = 1 .. count
      OBVIOUS
    <3>2. {s.version : s \in snapshots \cup {new}}
             = {s.version : s \in snapshots} \cup {new.version}
      BY VersionsWithOneMore
    <3>3. {s.version : s \in snapshots'} = (1 .. count) \cup {new.version}
      BY <2>1, <3>1, <3>2, Zenon
    <3>4. (1 .. count) \cup {count + 1} = 1 .. (count + 1)
      BY <2>2
    <3> QED
      BY <2>2, <3>3, <3>4, Zenon
  <2>6. \A q \in Publishers : ppc'[q] \notin CopySteps
    BY <2>1
  <2>7. overlapped = {} /\ new.quiet => new.aggs = new.slices
    BY <2>1 DEF SwapInv
  <2>8. QuietSnapshotAgrees'
    BY <2>1, <2>7
  <2>9. \A q \in Publishers : ppc'[q] # "idle" => target'[q] \in Runs
    BY <2>1
  <2> QED
    BY <2>4, <2>5, <2>6, <2>8, <2>9
<1>23. ASSUME NEW p \in Publishers, PublishFails(p) PROVE SnapshotInv'
  BY <1>23 DEF PublishFails, EndPublish
<1>24. ASSUME NEW a \in Records, Unapprove(a) PROVE SnapshotInv'
  BY <1>24 DEF Unapprove
<1>25. ASSUME NextMinute PROVE SnapshotInv'
  BY <1>25 DEF NextMinute
<1>26. ASSUME UNCHANGED vars PROVE SnapshotInv'
  BY <1>26 DEF vars
<1> QED
  BY <1>1, <1>2, <1>3, <1>4, <1>5, <1>6, <1>7, <1>8, <1>9, <1>10, <1>11, <1>12, <1>13,
     <1>14, <1>15, <1>16, <1>17, <1>18, <1>19, <1>20, <1>21, <1>22, <1>23, <1>24,
     <1>25, <1>26
     DEF Next, Ask, Work, Swap, Publish

---------------------------------------------------------------------------
(* The theorems. *)

LEMMA PeriodInit == Init => PeriodInv
<1> SUFFICES ASSUME Init PROVE PeriodInv
  OBVIOUS
<1>1. TypeOK
  BY BoundAssumption DEF Init, TypeOK, RunTypeOK, RequestTypeOK, PublishTypeOK, Paths, NoHash
<1>2. DueInv
  BY DEF Init, DueInv, RunCoversItsApprovals, Swapping, SwapSteps
<1>3. SwapInv
  BY DEF Init, SwapInv, Swapping, SwapSteps
<1>4. SnapshotInv
  BY FS_EmptySet DEF Init, SnapshotInv, VersionsAreConsecutive, QuietSnapshotAgrees, CopySteps
<1> QED
  BY <1>1, <1>2, <1>3, <1>4 DEF PeriodInv

LEMMA PeriodStep == PeriodInv /\ [Next]_vars => PeriodInv'
BY TypeStep, DueStep, SwapStep, SnapshotStep DEF PeriodInv

\* Runs, requests, publishers and the tables they share keep their types.
THEOREM TypeCorrect == Spec => []TypeOK
<1>1. PeriodInv => TypeOK
  BY DEF PeriodInv
<1> QED
  BY <1>1, PeriodInit, PeriodStep, PTL DEF Spec

\* Whatever else runs, fails and is cancelled in the period, a run that succeeds has calculated
\* every record that was approved when it was created and stayed so (processOneChunk and the
\* trigger paths).
THEOREM CoverageHolds == Spec => []RunCoversItsApprovals
<1>1. PeriodInv => RunCoversItsApprovals
  BY DEF PeriodInv, DueInv
<1> QED
  BY <1>1, PeriodInit, PeriodStep, PTL DEF Spec

\* Versions are given out one after the other, and a copy that no swap disturbed is of one state,
\* as long as no two swaps ever overlapped (nextSnapshotVersion, copyLiveSlicesToSnapshot).
THEOREM SnapshotsHold == Spec => []SnapshotsAreSound
<1>1. PeriodInv => SnapshotsAreSound
  BY DEF PeriodInv, SnapshotInv, SnapshotsAreSound
<1> QED
  BY <1>1, PeriodInit, PeriodStep, PTL DEF Spec

\* A swap that met no other deletes all there is and inserts its own.
LEMMA SwapIsExact ==
    ASSUME TypeOK, SwapInv, NEW r \in Runs, CommitSwap(r), r \notin overlapped
    PROVE  aggs' = Inserted(r) /\ slices' = Inserted(r)
<1>1. goneAggs[r] = aggs /\ goneSlices[r] = slices
  BY DEF SwapInv, CommitSwap, WorkStep
<1> QED
  BY <1>1 DEF CommitSwap

\* A swap that met no other leaves exactly its own figures, whatever it found, and no swap but
\* that of a run without calculations leaves readers nothing (rebuildDashboardAggregates).
THEOREM SwapsHold == Spec => SwapsAreSound
<1> DEFINE Exact == \A r \in Runs :
              wpc[r] = "insert" /\ wpc'[r] = "succeed" /\ r \notin overlapped =>
                 aggs' = Inserted(r) /\ slices' = Inserted(r)
           Shown == aggs # {} /\ aggs' = {} =>
                       \E r \in Runs : wpc[r] = "insert" /\ figures[r] = {}
<1>1. PeriodInv /\ [Next]_vars => [Exact]_vars /\ [Shown]_vars
  <2> SUFFICES ASSUME PeriodInv, Next PROVE Exact /\ Shown
    OBVIOUS
  <2>1. TypeOK /\ SwapInv
    BY DEF PeriodInv
  <2>2. ASSUME NEW r \in Runs, CommitSwap(r) PROVE Exact /\ Shown
    <3>1. wpc[r] = "insert" /\ \A s \in Runs \ {r} : wpc'[s] = wpc[s]
      BY <2>2 DEF CommitSwap, WorkStep
    <3>2. Exact
      BY <2>1, <2>2, <3>1, SwapIsExact
    <3>3. Shown
      BY <2>2, <3>1 DEF CommitSwap, Inserted
    <3> QED
      BY <3>2, <3>3
  <2>3. ASSUME aggs' = aggs, \A r \in Runs : wpc'[r] = "succeed" => wpc[r] # "insert"
        PROVE  Exact /\ Shown
    BY <2>3
  <2>4. CASE \E r \in Runs : Work(r) \/ CancelRun(r)
    <3>1. PICK r \in Runs : Work(r) \/ CancelRun(r)
      BY <2>4
    <3>2. CASE ~CommitSwap(r)
      <4>1. aggs' = aggs /\ \A s \in Runs : wpc'[s] = "succeed" => wpc[s] # "insert"
        BY <2>1, <3>1, <3>2
           DEF Work, Swap, ClaimRun, SizeRun, CalculatePage, FindNothingLeft, SeeAggregates,
               DeleteAggregates, SeeSlices, DeleteSlices, InterruptSwap, Succeed, FailRun,
               CancelRun, WorkStep, liveVars, workVars, TypeOK, RunTypeOK
      <4> QED
        BY <2>3, <4>1
    <3> QED
      BY <2>2, <3>2
  <2>5. CASE ~\E r \in Runs : Work(r) \/ CancelRun(r)
    <3>1. aggs' = aggs /\ \A r \in Runs : wpc'[r] = "succeed" => wpc[r] # "insert"
      BY <2>1, <2>5
         DEF Next, Ask, AskForRun, ApproveSubmission, LookInFlight, CreateRun, TurnDown, Publish,
             CheckRun, TakeVersion, CopyAggregates, CopySlices, PublishFails, Unapprove,
             NextMinute, liveVars, workVars, TypeOK, RunTypeOK
    <3> QED
      BY <2>3, <3>1
  <2> QED
    BY <2>4, <2>5
<1> QED
  BY <1>1, PeriodInit, PeriodStep, PTL
     DEF Spec, SwapsAreSound, AloneSwapIsExact, DashboardNeverBlank

---------------------------------------------------------------------------
(* Finite sets, and what folds over them compute. *)

\* Every non-empty set of natural numbers has a least element.
LEMMA LeastNumber ==
    ASSUME NEW S \in SUBSET Nat, S # {}
    PROVE  \E n \in S : \A m \in S : n <= m
<1>1. PICK n \in S : \A m \in S : <<m, n>> \notin OpToRel(<, Nat)
  BY NatLessThanWellFounded, WFMin
<1>2. \A m \in S : ~(m < n)
  BY <1>1 DEF OpToRel
<1> QED
  BY <1>2

\* What holds of a set if it holds of the sets with one element less, holds of every subset of
\* a finite set: of a smallest one it does not hold of, it holds of all the smaller ones.
LEMMA EverySubset ==
    ASSUME NEW S, IsFiniteSet(S), NEW Good,
           \A T \in SUBSET S : (\A x \in T : T \ {x} \in Good) => T \in Good
    PROVE  \A T \in SUBSET S : T \in Good
<1> DEFINE Bad == {T \in SUBSET S : T \notin Good}
           Sizes == {Cardinality(T) : T \in Bad}
<1>1. SUFFICES ASSUME Bad # {} PROVE FALSE
  OBVIOUS
<1>2. \A T \in SUBSET S : IsFiniteSet(T) /\ Cardinality(T) \in Nat
  BY FS_Subset, FS_CardinalityType
<1>3. Sizes \in SUBSET Nat /\ Sizes # {}
  BY <1>1, <1>2
<1> HIDE DEF Sizes
<1>4. PICK n \in Sizes : \A m \in Sizes : n <= m
  BY <1>3, LeastNumber
<1>5. PICK T \in Bad : Cardinality(T) = n
  BY <1>4 DEF Sizes
<1>6. ASSUME NEW x \in T PROVE T \ {x} \in Good
  <2>1. T \ {x} \in SUBSET S /\ Cardinality(T \ {x}) = n - 1
    BY <1>2, <1>5, FS_RemoveElement
  <2>2. n - 1 \notin Sizes
    BY <1>3, <1>4
  <2>3. T \ {x} \notin Bad
    BY <2>1, <2>2 DEF Sizes
  <2> QED
    BY <2>1, <2>3
<1> QED
  BY <1>5, <1>6

\* A table of what a fold is for every subset of S: the entry of a subset comes of the entry of
\* the subset without its last element.
IsFold(w, S, base, last, step) ==
    \A T \in SUBSET S : w[T] = IF T = {} THEN base ELSE step[<<last[T], w[T \ {last[T]}]>>]

\* The fold of a finite set exists.
LEMMA FoldExists ==
    ASSUME NEW S, IsFiniteSet(S), NEW V, NEW base \in V,
           NEW last \in [(SUBSET S) \ {{}} -> S], \A T \in DOMAIN last : last[T] \in T,
           NEW step \in [S \X V -> V]
    PROVE  \E w \in [SUBSET S -> V] : IsFold(w, S, base, last, step)
<1> DEFINE Upto(n) == {T \in SUBSET S : Cardinality(T) <= n}
           Is(w, n) == /\ w \in [Upto(n) -> V]
                       /\ \A T \in Upto(n) :
                            w[T] = IF T = {} THEN base ELSE step[<<last[T], w[T \ {last[T]}]>>]
           Bad == {n \in Nat : ~ \E w : Is(w, n)}
<1>1. \A T \in SUBSET S :
        IsFiniteSet(T) /\ Cardinality(T) \in Nat /\ (Cardinality(T) = 0 <=> T = {})
  BY FS_Subset, FS_CardinalityType, FS_EmptySet
<1>2. \A T \in SUBSET S : T # {} =>
        /\ last[T] \in T /\ T \ {last[T]} \in SUBSET S
        /\ Cardinality(T \ {last[T]}) = Cardinality(T) - 1
  BY <1>1, FS_RemoveElement
<1>3. Bad = {}
  <2> HIDE DEF Is
  <2>1. SUFFICES ASSUME Bad # {} PROVE FALSE
    OBVIOUS
  <2>2. PICK n \in Bad : \A m \in Bad : n <= m
    BY <2>1, LeastNumber
  <2>3. n # 0
    <3>1. Is([T \in Upto(0) |-> base], 0)
      BY <1>1 DEF Is
    <3> QED
      BY <2>2, <3>1
  <2>4. PICK w : Is(w, n - 1)
    <3>1. n - 1 \in Nat /\ n - 1 \notin Bad
      BY <2>2, <2>3
    <3> QED
      BY <3>1
  <2> DEFINE z == [T \in Upto(n) |->
                     IF T = {} THEN base ELSE step[<<last[T], w[T \ {last[T]}]>>]]
  <2>5. \A T \in Upto(n) : T # {} => T \ {last[T]} \in Upto(n - 1) /\ last[T] \in S
    BY <1>1, <1>2
  <2>6. \A T \in Upto(n - 1) : T \in Upto(n) /\ z[T] = w[T]
    <3>1. \A T \in Upto(n - 1) : T \in Upto(n)
      BY <1>1
    <3> QED
      BY <3>1, <2>4 DEF Is
  <2>7. z \in [Upto(n) -> V]
    BY <2>4, <2>5 DEF Is
  <2>8. Is(z, n)
    BY <2>5, <2>6, <2>7 DEF Is
  <2> QED
    BY <2>2, <2>8
<1>4. PICK w : Is(w, Cardinality(S))
  BY <1>1, <1>3
<1>5. Upto(Cardinality(S)) = SUBSET S
  BY <1>1, FS_Subset
<1> QED
  BY <1>4, <1>5 DEF IsFold

\* The sum of a part of a table, which comes of the sum without any one entry of it.
LEMMA SumSteps ==
    ASSUME NEW S, IsFiniteSet(S), NEW f \in [S -> Int]
    PROVE  /\ SumFunctionOnSet(f, {}) = 0
           /\ \A T \in SUBSET S : SumFunctionOnSet(f, T) \in Int
           /\ \A T \in SUBSET S : \A x \in T :
                SumFunctionOnSet(f, T) = f[x] + SumFunctionOnSet(f, T \ {x})
           /\ SumFunction(f) = SumFunctionOnSet(f, S)
<1> DEFINE Turn(U, iter) == [T \in SUBSET U |->
                              IF T = {} THEN 0
                              ELSE LET x == CHOOSE x \in T : TRUE IN f[x] + iter[T \ {x}]]
           fold(U) == CHOOSE iter : iter = Turn(U, iter)
           last == [T \in (SUBSET S) \ {{}} |-> CHOOSE x \in T : TRUE]
           step == [p \in S \X Int |-> f[p[1]] + p[2]]
<1>1. PICK w \in [SUBSET S -> Int] : IsFold(w, S, 0, last, step)
  <2> DEFINE V == Int
             base == 0
  <2>1. last \in [(SUBSET S) \ {{}} -> S] /\ \A T \in DOMAIN last : last[T] \in T
    OBVIOUS
  <2>2. step \in [S \X V -> V] /\ base \in V
    OBVIOUS
  <2> HIDE DEF last, step, V, base
  <2>3. \E w \in [SUBSET S -> V] : IsFold(w, S, base, last, step)
    BY <2>1, <2>2, FoldExists
  <2> QED
    BY <2>3 DEF V, base
<1>2. \A T \in SUBSET S : T # {} => last[T] \in T /\ last[T] = CHOOSE x \in T : TRUE
  OBVIOUS
<1>3. \A T \in SUBSET S : w[T] = IF T = {} THEN 0 ELSE f[last[T]] + w[T \ {last[T]}]
  <2>1. \A x \in S, v \in Int : step[<<x, v>>] = f[x] + v
    OBVIOUS
  <2>2. \A T \in SUBSET S : w[T \ {last[T]}] \in Int
    BY <1>1
  <2> HIDE DEF last, step
  <2> QED
    BY <1>1, <1>2, <2>1, <2>2 DEF IsFold
<1> HIDE DEF last, step
<1>4. \A U \in SUBSET S : SumFunctionOnSet(f, U) = w[U]
  <2>1. SUFFICES ASSUME NEW U \in SUBSET S PROVE SumFunctionOnSet(f, U) = w[U]
    OBVIOUS
  <2> DEFINE part == [T \in SUBSET U |-> w[T]]
  <2>2. part = Turn(U, part)
    <3>1. \A T \in SUBSET U : part[T] = Turn(U, part)[T]
      BY <1>2, <1>3
    <3> QED
      BY <3>1
  <2>3. fold(U) = Turn(U, fold(U))
    BY <2>2
  <2>4. SumFunctionOnSet(f, U) = fold(U)[U]
    BY DEF SumFunctionOnSet, FoldFunctionOnSet, MapThenFoldSet
  <2>9. PICK k : k = Turn(U, k) /\ SumFunctionOnSet(f, U) = k[U]
    <3> HIDE DEF fold, Turn
    <3> QED
      BY <2>3, <2>4
  <2>5. \A T \in SUBSET U : k[T] = IF T = {} THEN 0 ELSE f[last[T]] + k[T \ {last[T]}]
    <3>1. \A T \in SUBSET U : k[T] = Turn(U, k)[T]
      <4> HIDE DEF Turn
      <4> QED
        BY <2>9
    <3>2. \A T \in SUBSET U :
            Turn(U, k)[T] = IF T = {} THEN 0 ELSE LET x == CHOOSE x \in T : TRUE
                                                  IN  f[x] + k[T \ {x}]
      OBVIOUS
    <3> HIDE DEF Turn
    <3> QED
      BY <3>1, <3>2, <1>2
  <2> DEFINE Good == {T \in SUBSET U : k[T] = w[T]}
  <2>6. \A T \in SUBSET U : (\A x \in T : T \ {x} \in Good) => T \in Good
    BY <2>5, <1>2, <1>3
  <2>7. IsFiniteSet(U)
    BY FS_Subset
  <2>8. U \in Good
    <3> HIDE DEF Good
    <3> QED
      BY <2>6, <2>7, EverySubset
  <2> QED
    BY <2>8, <2>9
<1> DEFINE Free == {T \in SUBSET S : \A x \in T : w[T] = f[x] + w[T \ {x}]}
<1>5. ASSUME NEW T \in SUBSET S, \A x \in T : T \ {x} \in Free PROVE T \in Free
  <2>1. SUFFICES ASSUME NEW x \in T, x # last[T] PROVE w[T] = f[x] + w[T \ {x}]
    BY <1>3
  <2> DEFINE l == last[T]
  <2>2. l \in T /\ T # {} /\ w[T] = f[l] + w[T \ {l}]
    BY <1>2, <1>3
  <2> HIDE DEF l
  <2>3. w[T \ {l}] = f[x] + w[(T \ {l}) \ {x}]
    BY <1>5, <2>1, <2>2 DEF l
  <2>4. w[T \ {x}] = f[l] + w[(T \ {x}) \ {l}]
    BY <1>5, <2>1, <2>2 DEF l
  <2>5. (T \ {x}) \ {l} = (T \ {l}) \ {x}
    OBVIOUS
  <2>6. f[x] \in Int /\ f[l] \in Int /\ w[(T \ {l}) \ {x}] \in Int
    BY <1>1, <2>1, <2>2
  <2>7. w[(T \ {x}) \ {l}] = w[(T \ {l}) \ {x}]
    BY <2>5
  <2> QED
    BY <2>2, <2>3, <2>4, <2>6, <2>7
<1>6. \A T \in SUBSET S : T \in Free
  <2> HIDE DEF Free
  <2> QED
    BY <1>5, EverySubset
<1>7. SumFunction(f) = SumFunctionOnSet(f, S)
  BY DEF SumFunction
<1>8. SumFunctionOnSet(f, {}) = 0
  BY <1>3, <1>4
<1>9. \A T \in SUBSET S : \A x \in T :
        SumFunctionOnSet(f, T) = f[x] + SumFunctionOnSet(f, T \ {x})
  BY <1>4, <1>6
<1>10. \A T \in SUBSET S : SumFunctionOnSet(f, T) \in Int
  BY <1>1, <1>4
<1> QED
  BY <1>7, <1>8, <1>9, <1>10

\* The sum of integers is one.
LEMMA SumInt ==
    ASSUME NEW S, IsFiniteSet(S), NEW f \in [S -> Int]
    PROVE  SumFunction(f) \in Int
<1>1. S \in SUBSET S
  OBVIOUS
<1> QED
  BY <1>1, SumSteps

\* Larger entries make a larger sum.
LEMMA SumLarger ==
    ASSUME NEW S, IsFiniteSet(S), NEW f \in [S -> Int], NEW g \in [S -> Int],
           NEW T \in SUBSET S, \A x \in T : f[x] <= g[x]
    PROVE  SumFunctionOnSet(f, T) <= SumFunctionOnSet(g, T)
<1> DEFINE Good == {U \in SUBSET T : SumFunctionOnSet(f, U) <= SumFunctionOnSet(g, U)}
<1>1. ASSUME NEW U \in SUBSET T, \A x \in U : U \ {x} \in Good PROVE U \in Good
  <2>1. CASE U = {}
    BY <2>1, SumSteps
  <2>2. CASE U # {}
    <3>1. PICK x \in U : TRUE
      BY <2>2
    <3> DEFINE a == SumFunctionOnSet(f, U \ {x})
               b == SumFunctionOnSet(g, U \ {x})
    <3>2. SumFunctionOnSet(f, U) = f[x] + a /\ a \in Int
      BY <3>1, SumSteps
    <3>3. SumFunctionOnSet(g, U) = g[x] + b /\ b \in Int
      BY <3>1, SumSteps
    <3>4. a <= b /\ f[x] <= g[x] /\ f[x] \in Int /\ g[x] \in Int
      BY <1>1, <3>1
    <3> HIDE DEF a, b
    <3> QED
      BY <3>2, <3>3, <3>4
  <2> QED
    BY <2>1, <2>2
<1>2. IsFiniteSet(T)
  BY FS_Subset
<1>3. T \in Good
  <2> HIDE DEF Good
  <2> QED
    BY <1>1, <1>2, EverySubset
<1> QED
  BY <1>3

\* Equal entries make an equal sum.
LEMMA SumSame ==
    ASSUME NEW S, IsFiniteSet(S), NEW f \in [S -> Int], NEW g \in [S -> Int],
           NEW T \in SUBSET S, \A x \in T : f[x] = g[x]
    PROVE  SumFunctionOnSet(f, T) = SumFunctionOnSet(g, T)
<1>1. \A x \in T : f[x] \in Int /\ g[x] \in Int
  OBVIOUS
<1>2. SumFunctionOnSet(f, T) <= SumFunctionOnSet(g, T)
  BY <1>1, SumLarger
<1>3. SumFunctionOnSet(g, T) <= SumFunctionOnSet(f, T)
  BY <1>1, SumLarger
<1>4. SumFunctionOnSet(f, T) \in Int /\ SumFunctionOnSet(g, T) \in Int
  BY SumSteps
<1> QED
  BY <1>2, <1>3, <1>4

\* A wider sum adds nothing if what it adds is nothing, and takes nothing away if none of it
\* is negative.
LEMMA SumWider ==
    ASSUME NEW S, IsFiniteSet(S), NEW f \in [S -> Int],
           NEW U \in SUBSET S, NEW T \in SUBSET U
    PROVE  /\ (\A x \in U \ T : f[x] = 0) => SumFunctionOnSet(f, T) = SumFunctionOnSet(f, U)
           /\ (\A x \in U \ T : f[x] >= 0) => SumFunctionOnSet(f, T) <= SumFunctionOnSet(f, U)
<1> DEFINE zero == \A x \in U \ T : f[x] = 0
           more == \A x \in U \ T : f[x] >= 0
           Of(W) == SumFunctionOnSet(f, W)
           Good == {W \in SUBSET U : /\ zero => Of(W \cap T) = Of(W)
                                     /\ more => Of(W \cap T) <= Of(W)}
<1>1. ASSUME NEW W \in SUBSET U, \A x \in W : W \ {x} \in Good PROVE W \in Good
  <2>1. CASE W = {}
    <3>1. W \cap T = W /\ Of(W) = 0
      BY <2>1, SumSteps
    <3> QED
      BY <3>1
  <2>2. CASE W # {}
    <3>1. PICK x \in W : TRUE
      BY <2>2
    <3> DEFINE a == Of(W \ {x})
               b == Of((W \ {x}) \cap T)
    <3>2. Of(W) = f[x] + a /\ a \in Int /\ b \in Int /\ f[x] \in Int
      BY <3>1, SumSteps
    <3>3. (zero => b = a) /\ (more => b <= a)
      BY <1>1, <3>1
    <3>4. CASE x \in T
      <4>1. (W \cap T) \ {x} = (W \ {x}) \cap T /\ x \in W \cap T /\ W \cap T \in SUBSET S
        BY <3>1, <3>4
      <4>2. Of(W \cap T) = f[x] + b
        BY <4>1, SumSteps
      <4> HIDE DEF a, b, Of, zero, more
      <4> QED
        BY <3>2, <3>3, <4>2 DEF Good
    <3>5. CASE x \notin T
      <4>1. W \cap T = (W \ {x}) \cap T
        BY <3>5
      <4>2. Of(W \cap T) = b
        BY <4>1
      <4>3. (zero => f[x] = 0) /\ (more => f[x] >= 0)
        BY <3>1, <3>5
      <4> HIDE DEF a, b, Of, zero, more
      <4> QED
        BY <3>2, <3>3, <4>2, <4>3 DEF Good
    <3> QED
      BY <3>4, <3>5
  <2> QED
    BY <2>1, <2>2
<1>2. IsFiniteSet(U)
  BY FS_Subset
<1>3. U \in Good
  <2> HIDE DEF Good
  <2> QED
    BY <1>1, <1>2, EverySubset
<1>4. U \cap T = T
  OBVIOUS
<1> QED
  BY <1>3, <1>4

\* The sum of a part is the sum of all, if the rest of it is nothing.
LEMMA SumRest ==
    ASSUME NEW S, IsFiniteSet(S), NEW f \in [S -> Int],
           NEW T \in SUBSET S, \A x \in S \ T : f[x] = 0
    PROVE  SumFunctionOnSet(f, T) = SumFunction(f)
<1>1. S \in SUBSET S
  OBVIOUS
<1>2. SumFunctionOnSet(f, T) = SumFunctionOnSet(f, S)
  BY <1>1, SumWider
<1> QED
  BY <1>2, SumSteps

\* Tables that differ in one entry have sums that differ by as much.
LEMMA SumChanged ==
    ASSUME NEW S, IsFiniteSet(S), NEW f \in [S -> Int], NEW g \in [S -> Int],
           NEW x \in S, \A y \in S \ {x} : f[y] = g[y]
    PROVE  SumFunction(g) = SumFunction(f) - f[x] + g[x]
<1> DEFINE rest == SumFunctionOnSet(f, S \ {x})
<1>1. rest = SumFunctionOnSet(g, S \ {x})
  BY SumSame
<1>2. SumFunction(f) = f[x] + rest /\ rest \in Int /\ f[x] \in Int
  BY SumSteps
<1>3. SumFunction(g) = g[x] + SumFunctionOnSet(g, S \ {x}) /\ g[x] \in Int
  BY SumSteps
<1> HIDE DEF rest
<1> QED
  BY <1>1, <1>2, <1>3

\* A sum of natural numbers is one, no smaller than any of them, and 0 if all of them are.
LEMMA SumNat ==
    ASSUME NEW S, IsFiniteSet(S), NEW f \in [S -> Nat]
    PROVE  /\ SumFunction(f) \in Nat
           /\ \A x \in S : f[x] <= SumFunction(f)
           /\ (\A x \in S : f[x] = 0) => SumFunction(f) = 0
           /\ SumFunction(f) = 0 => \A x \in S : f[x] = 0
<1>1. f \in [S -> Int] /\ {} \in SUBSET S
  OBVIOUS
<1>2. SumFunctionOnSet(f, {}) = 0 /\ SumFunction(f) = SumFunctionOnSet(f, S)
  BY <1>1, SumSteps
<1>3. SumFunction(f) \in Int
  BY <1>1, <1>2, SumSteps
<1>4. 0 <= SumFunction(f) /\ ((\A x \in S : f[x] = 0) => SumFunction(f) = 0)
  BY <1>1, <1>2, SumWider
<1>5. ASSUME NEW x \in S PROVE f[x] <= SumFunction(f)
  <2>1. SumFunctionOnSet(f, {x}) = f[x] + SumFunctionOnSet(f, {x} \ {x})
    BY <1>1, SumSteps
  <2>2. {x} \ {x} = {}
    OBVIOUS
  <2>3. SumFunctionOnSet(f, {x}) = f[x]
    BY <2>1, <2>2, <1>2
  <2>4. {x} \in SUBSET S /\ \A y \in S \ {x} : f[y] >= 0
    OBVIOUS
  <2>5. SumFunctionOnSet(f, {x}) <= SumFunctionOnSet(f, S)
    BY <1>1, <2>4, SumWider
  <2> QED
    BY <1>2, <2>3, <2>5
<1>6. SumFunction(f) = 0 => \A x \in S : f[x] = 0
  BY <1>5
<1> QED
  BY <1>3, <1>4, <1>5, <1>6

\* The sum of a part of a table is within the sum of a table with entries as large.
LEMMA SumWithin ==
    ASSUME NEW S, IsFiniteSet(S), NEW f \in [S -> Int], NEW g \in [S -> Nat],
           NEW T \in SUBSET S, \A x \in T : f[x] <= g[x]
    PROVE  SumFunctionOnSet(f, T) <= SumFunction(g)
<1>1. g \in [S -> Int] /\ \A x \in S \ T : g[x] >= 0
  OBVIOUS
<1>2. SumFunctionOnSet(f, T) <= SumFunctionOnSet(g, T)
  BY <1>1, SumLarger
<1>3. S \in SUBSET S
  OBVIOUS
<1>4. SumFunctionOnSet(g, T) <= SumFunctionOnSet(g, S)
  BY <1>1, <1>3, SumWider
<1>5. /\ SumFunctionOnSet(f, T) \in Int /\ SumFunctionOnSet(g, T) \in Int
      /\ SumFunctionOnSet(g, S) \in Int /\ SumFunction(g) = SumFunctionOnSet(g, S)
  BY <1>1, <1>3, SumSteps
<1> QED
  BY <1>2, <1>4, <1>5

---------------------------------------------------------------------------
(* The orders in which records and instruments are come to. *)

\* Records and instruments that an organisation may have: what an allocation is given.
Tables(records, instruments) ==
    /\ DOMAIN records \subseteq Electricity /\ records \in [DOMAIN records -> RecordKinds]
    /\ DOMAIN instruments \subseteq Instruments
    /\ instruments \in [DOMAIN instruments -> InstrumentKinds]

\* What the two tables hold, entry by entry.
LEMMA TablesAre ==
    ASSUME NEW records, NEW instruments, Tables(records, instruments)
    PROVE  /\ \A r \in DOMAIN records : /\ r \in Nat /\ r \in Electricity
                                        /\ records[r].kwh \in Nat /\ records[r].date \in Nat
           /\ \A i \in DOMAIN instruments :
                /\ i \in Nat /\ i \in Instruments
                /\ instruments[i].tier \in Nat /\ instruments[i].from \in Nat
                /\ instruments[i].covered # Unlimited => instruments[i].covered \in Nat
           /\ IsFiniteSet(DOMAIN records) /\ IsFiniteSet(DOMAIN instruments)
<1>1. IsFiniteSet(DOMAIN records) /\ IsFiniteSet(DOMAIN instruments)
  BY IdAssumption, FS_Subset DEF Tables
<1>2. \A r \in DOMAIN records : /\ r \in Nat /\ r \in Electricity
                                /\ records[r].kwh \in Nat /\ records[r].date \in Nat
  BY IdAssumption, KindAssumption DEF Tables
<1>3. \A i \in DOMAIN instruments :
        /\ i \in Nat /\ i \in Instruments
        /\ instruments[i] \in InstrumentKinds
  BY IdAssumption DEF Tables
<1>4. \A k \in InstrumentKinds : /\ k.tier \in Nat /\ k.from \in Nat
                                 /\ k.covered # Unlimited => k.covered \in Nat
  BY KindAssumption
<1> QED
  BY <1>1, <1>2, <1>3, <1>4

\* A finite set in a strict total order has a last element.
LEMMA HasLast ==
    ASSUME NEW S, IsFiniteSet(S), NEW before,
           \A x, y \in S : x # y => <<x, y>> \in before \/ <<y, x>> \in before,
           \A x, y, z \in S : <<x, y>> \in before /\ <<y, z>> \in before => <<x, z>> \in before
    PROVE  \A T \in SUBSET S : T # {} => \E x \in T : \A y \in T \ {x} : <<y, x>> \in before
<1> DEFINE Good == {T \in SUBSET S : T = {} \/ \E x \in T : \A y \in T \ {x} : <<y, x>> \in before}
<1>1. ASSUME NEW T \in SUBSET S, \A x \in T : T \ {x} \in Good PROVE T \in Good
  <2>1. SUFFICES ASSUME T # {} PROVE \E x \in T : \A y \in T \ {x} : <<y, x>> \in before
    OBVIOUS
  <2>2. PICK a \in T : TRUE
    BY <2>1
  <2>3. CASE T \ {a} = {}
    BY <2>2, <2>3
  <2>4. CASE T \ {a} # {}
    <3>1. PICK b \in T \ {a} : \A y \in (T \ {a}) \ {b} : <<y, b>> \in before
      BY <1>1, <2>2, <2>4
    <3>2. CASE <<a, b>> \in before
      BY <3>1, <3>2
    <3>3. CASE <<b, a>> \in before
      <4>1. \A y \in T \ {a} : <<y, a>> \in before
        BY <2>2, <3>1, <3>3
      <4> QED
        BY <4>1, <2>2
    <3> QED
      BY <2>2, <3>1, <3>2, <3>3
  <2> QED
    BY <2>3, <2>4
<1>2. \A T \in SUBSET S : T \in Good
  <2> HIDE DEF Good
  <2> QED
    BY <1>1, EverySubset
<1> QED
  BY <1>2

\* Records by date and then by id.
LEMMA EarlierOrder ==
    ASSUME NEW records, NEW instruments, Tables(records, instruments)
    PROVE  \A q, r, s \in DOMAIN records :
             /\ r # s => Earlier(records, r, s) \/ Earlier(records, s, r)
             /\ ~(Earlier(records, r, s) /\ Earlier(records, s, r)) /\ ~Earlier(records, r, r)
             /\ Earlier(records, q, r) /\ Earlier(records, r, s) => Earlier(records, q, s)
BY TablesAre DEF Earlier

\* The record that the outer loop comes to last is the latest.
LEMMA LatestIsLast ==
    ASSUME NEW records, NEW instruments, Tables(records, instruments),
           NEW R \in SUBSET DOMAIN records, R # {}
    PROVE  /\ LatestOf(records, R) \in R
           /\ \A s \in R \ {LatestOf(records, R)} : Earlier(records, s, LatestOf(records, R))
<1> DEFINE D == DOMAIN records
           before == {p \in D \X D : Earlier(records, p[1], p[2])}
<1>1. \A x, y \in D : <<x, y>> \in before <=> Earlier(records, x, y)
  OBVIOUS
<1>2. /\ \A x, y \in D : x # y => <<x, y>> \in before \/ <<y, x>> \in before
      /\ \A x, y, z \in D : <<x, y>> \in before /\ <<y, z>> \in before => <<x, z>> \in before
  <2> HIDE DEF before
  <2> QED
    BY <1>1, EarlierOrder
<1>3. IsFiniteSet(D)
  BY TablesAre
<1> HIDE DEF before, D
<1>4. R \in SUBSET D
  BY DEF D
<1>5. \E x \in R : \A y \in R \ {x} : <<y, x>> \in before
  BY <1>2, <1>3, <1>4, HasLast
<1>6. \E x \in R : \A y \in R \ {x} : Earlier(records, y, x)
  BY <1>1, <1>4, <1>5
<1> QED
  BY <1>6 DEF LatestOf

\* Instruments by tier, by whether they are of one facility, by when they begin, and by id.
LEMMA PreferredIs ==
    ASSUME NEW instruments, NEW i, NEW j
    PROVE  LET k == instruments[i]
               l == instruments[j]
               org(n) == IF n.facility = Anywhere THEN 1 ELSE 0
           IN  Preferred(instruments, i, j) <=>
                 \/ k.tier < l.tier
                 \/ /\ k.tier = l.tier
                    /\ \/ org(k) < org(l)
                       \/ /\ org(k) = org(l)
                          /\ k.from < l.from \/ (k.from = l.from /\ i < j)
<1> DEFINE a == Rank(instruments, i)
           b == Rank(instruments, j)
<1>1. 1 .. 4 = {1, 2, 3, 4} /\ 1 .. 1 - 1 = {} /\ 1 .. 2 - 1 = {1} /\ 1 .. 3 - 1 = {1, 2}
      /\ 1 .. 4 - 1 = {1, 2, 3}
  OBVIOUS
<1> HIDE DEF a, b
<1>2. Preferred(instruments, i, j) <=>
        \/ a[1] < b[1]
        \/ a[2] < b[2] /\ a[1] = b[1]
        \/ a[3] < b[3] /\ a[1] = b[1] /\ a[2] = b[2]
        \/ a[4] < b[4] /\ a[1] = b[1] /\ a[2] = b[2] /\ a[3] = b[3]
  <2>1. Preferred(instruments, i, j) <=>
          \E n \in 1 .. 4 : a[n] < b[n] /\ \A m \in 1 .. n - 1 : a[m] = b[m]
    BY DEF Preferred, a, b
  <2> QED
    BY <1>1, <2>1
<1> QED
  BY <1>2 DEF a, b, Rank

\* So no two instruments are equally preferred.
LEMMA PreferredOrder ==
    ASSUME NEW records, NEW instruments, Tables(records, instruments)
    PROVE  \A i, j, k \in DOMAIN instruments :
             /\ i # j => Preferred(instruments, i, j) \/ Preferred(instruments, j, i)
             /\ ~(Preferred(instruments, i, j) /\ Preferred(instruments, j, i))
             /\ ~Preferred(instruments, i, i)
             /\ Preferred(instruments, i, j) /\ Preferred(instruments, j, k)
                  => Preferred(instruments, i, k)
BY TablesAre, PreferredIs

\* The instrument that the inner loop comes to last is the least preferred.
LEMMA LastChoiceIsLast ==
    ASSUME NEW records, NEW instruments, Tables(records, instruments),
           NEW H \in SUBSET DOMAIN instruments, H # {}
    PROVE  /\ LastChoice(instruments, H) \in H
           /\ \A j \in H \ {LastChoice(instruments, H)} :
                Preferred(instruments, j, LastChoice(instruments, H))
<1> DEFINE D == DOMAIN instruments
           before == {p \in D \X D : Preferred(instruments, p[1], p[2])}
<1>1. \A x, y \in D : <<x, y>> \in before <=> Preferred(instruments, x, y)
  OBVIOUS
<1>2. /\ \A x, y \in D : x # y => <<x, y>> \in before \/ <<y, x>> \in before
      /\ \A x, y, z \in D : <<x, y>> \in before /\ <<y, z>> \in before => <<x, z>> \in before
  <2> HIDE DEF before
  <2> QED
    BY <1>1, PreferredOrder
<1>3. IsFiniteSet(D)
  BY TablesAre
<1> HIDE DEF before, D
<1>4. H \in SUBSET D
  BY DEF D
<1>5. \E x \in H : \A y \in H \ {x} : <<y, x>> \in before
  BY <1>2, <1>3, <1>4, HasLast
<1>6. \E x \in H : \A y \in H \ {x} : Preferred(instruments, y, x)
  BY <1>1, <1>4, <1>5
<1> QED
  BY <1>6 DEF LastChoice

---------------------------------------------------------------------------
(* The two loops of an allocation as folds. *)

\* What instruments back of records, of whatever sign.
Portions == [Electricity -> [Instruments -> Int]]
\* took, with another portion of one instrument for one record.
WithPortion(took, r, i, n) == [took EXCEPT ![r][i] = n]

\* Math.min of two numbers.
LEMMA MinOfTwo ==
    ASSUME NEW a \in Int, NEW b \in Int
    PROVE  Min({a, b}) = IF a <= b THEN a ELSE b
<1> DEFINE m == CHOOSE x \in {a, b} : \A y \in {a, b} : x <= y
<1>1. m \in {a, b} /\ m <= a /\ m <= b
  <2>1. \E x \in {a, b} : \A y \in {a, b} : x <= y
    OBVIOUS
  <2> QED
    BY <2>1
<1>2. Min({a, b}) = m
  BY DEF Min
<1> HIDE DEF m
<1> QED
  BY <1>1, <1>2

\* What a record is backed with, and what is drawn of an instrument, are numbers.
LEMMA TotalIs ==
    ASSUME NEW took \in Portions
    PROVE  /\ \A r \in Electricity : Total(took[r]) \in Int
           /\ \A i \in Instruments : Drawn(took, i) \in Int
<1>1. ASSUME NEW r \in Electricity PROVE Total(took[r]) \in Int
  <2>1. took[r] \in [Instruments -> Int]
    BY DEF Portions
  <2> QED
    BY <2>1, IdAssumption, SumInt DEF Total
<1>2. ASSUME NEW i \in Instruments PROVE Drawn(took, i) \in Int
  <2>1. [s \in Electricity |-> took[s][i]] \in [Electricity -> Int]
    BY DEF Portions
  <2> QED
    BY <2>1, IdAssumption, SumInt DEF Drawn
<1> QED
  BY <1>1, <1>2

\* What one turn of the inner loop does: a portion is drawn, from what is left to cover and what
\* is left of the instrument.
LEMMA DrawIs ==
    ASSUME NEW records, NEW instruments, Tables(records, instruments),
           NEW r \in DOMAIN records, NEW i \in DOMAIN instruments, NEW took \in Portions
    PROVE  /\ Draw(records, instruments, r, took, i) \in Portions
           /\ ~Applies(instruments[i], records[r]) => Draw(records, instruments, r, took, i) = took
           /\ Applies(instruments[i], records[r]) => \E n \in Int :
                /\ Draw(records, instruments, r, took, i) = WithPortion(took, r, i, n)
                /\ n <= records[r].kwh - Total(took[r])
                /\ instruments[i].covered # Unlimited =>
                     n <= instruments[i].covered - Drawn(took, i)
                /\ \/ n = records[r].kwh - Total(took[r])
                   \/ /\ instruments[i].covered # Unlimited
                      /\ n = instruments[i].covered - Drawn(took, i)
<1> DEFINE left == records[r].kwh - Total(took[r])
           room == instruments[i].covered - Drawn(took, i)
           available == IF instruments[i].covered = Unlimited THEN left ELSE room
           n == Min({left, available})
<1>1. r \in Electricity /\ i \in Instruments
  BY TablesAre
<1>2. left \in Int /\ (instruments[i].covered # Unlimited => room \in Int)
  BY <1>1, TotalIs, TablesAre
<1>3. n = IF left <= available THEN left ELSE available
  <2>1. left \in Int /\ available \in Int
    BY <1>2
  <2> HIDE DEF left, available
  <2> QED
    BY <2>1, MinOfTwo
<1>4. Draw(records, instruments, r, took, i) =
        IF Applies(instruments[i], records[r]) THEN WithPortion(took, r, i, n) ELSE took
  BY DEF Draw, Room, WithPortion
<1> HIDE DEF n
<1>5. /\ n \in Int /\ n <= left /\ (instruments[i].covered # Unlimited => n <= room)
      /\ n = left \/ (instruments[i].covered # Unlimited /\ n = room)
  <2> HIDE DEF left, room
  <2> QED
    BY <1>2, <1>3
<1>6. WithPortion(took, r, i, n) \in Portions
  BY <1>1, <1>5 DEF Portions, WithPortion
<1> QED
  BY <1>4, <1>5, <1>6

\* What it takes is none but that of the record, and of the instrument.
LEMMA ChangeOne ==
    ASSUME NEW took \in Portions, NEW r \in Electricity, NEW i \in Instruments, NEW n \in Int,
           took[r][i] = 0, NEW t, t = WithPortion(took, r, i, n)
    PROVE  /\ t \in Portions /\ t[r][i] = n
           /\ \A s \in Electricity : s # r => t[s] = took[s]
           /\ \A j \in Instruments : j # i => t[r][j] = took[r][j]
           /\ Total(t[r]) = Total(took[r]) + n
           /\ \A j \in Instruments : Drawn(t, j) = Drawn(took, j) + (IF j = i THEN n ELSE 0)
<1>1. /\ t \in Portions /\ t[r][i] = n
      /\ \A s \in Electricity : s # r => t[s] = took[s]
      /\ \A j \in Instruments : j # i => t[r][j] = took[r][j]
  BY DEF Portions, WithPortion
<1>2. Total(t[r]) = Total(took[r]) + n
  <2> DEFINE f == took[r]
             g == t[r]
  <2>1. f \in [Instruments -> Int] /\ g \in [Instruments -> Int]
    BY <1>1 DEF Portions
  <2>2. \A j \in Instruments \ {i} : f[j] = g[j]
    BY <1>1
  <2>3. f[i] = 0 /\ g[i] = n
    BY <1>1
  <2>4. Total(took[r]) = SumFunction(f) /\ Total(t[r]) = SumFunction(g)
    BY DEF Total
  <2> HIDE DEF f, g
  <2>5. SumFunction(g) = SumFunction(f) - f[i] + g[i]
    BY <2>1, <2>2, IdAssumption, SumChanged
  <2>6. SumFunction(f) \in Int
    BY <2>1, IdAssumption, SumInt
  <2> QED
    BY <2>3, <2>4, <2>5, <2>6
<1>3. ASSUME NEW j \in Instruments
      PROVE  Drawn(t, j) = Drawn(took, j) + (IF j = i THEN n ELSE 0)
  <2> DEFINE f == [s \in Electricity |-> took[s][j]]
             g == [s \in Electricity |-> t[s][j]]
  <2>1. f \in [Electricity -> Int] /\ g \in [Electricity -> Int]
    BY <1>1 DEF Portions
  <2>2. \A s \in Electricity \ {r} : f[s] = g[s]
    BY <1>1 DEF Portions
  <2>6. g[r] = f[r] + (IF j = i THEN n ELSE 0) /\ f[r] \in Int
    BY <1>1 DEF Portions
  <2>3. Drawn(took, j) = SumFunction(f) /\ Drawn(t, j) = SumFunction(g)
    BY DEF Drawn
  <2>4. Drawn(took, j) \in Int
    BY TotalIs
  <2> HIDE DEF f, g
  <2>5. SumFunction(g) = SumFunction(f) - f[r] + g[r]
    BY <2>1, <2>2, IdAssumption, SumChanged
  <2> QED
    BY <2>6, <2>3, <2>4, <2>5
<1> QED
  BY <1>1, <1>2, <1>3

\* The inner loop comes to the least preferred instrument last.
ServeLoop(w, records, instruments, r, took) ==
    /\ w[{}] = took
    /\ \A H \in SUBSET DOMAIN instruments : H # {} =>
        w[H] = Draw(records, instruments, r, w[H \ {LastChoice(instruments, H)}],
                    LastChoice(instruments, H))

\* The inner loop is such a fold, and takes portions to portions.
LEMMA ServeSteps ==
    ASSUME NEW records, NEW instruments, Tables(records, instruments),
           NEW r \in DOMAIN records, NEW took \in Portions
    PROVE  /\ Serve(records, instruments, r, took) \in Portions
           /\ \E w : /\ ServeLoop(w, records, instruments, r, took)
                    /\ Serve(records, instruments, r, took) = w[DOMAIN instruments]
<1> DEFINE D == DOMAIN instruments
           last == [H \in (SUBSET D) \ {{}} |-> LastChoice(instruments, H)]
           step == [p \in D \X Portions |-> Draw(records, instruments, r, p[2], p[1])]
           Turn(iter) == [H \in SUBSET D |->
                            IF H = {} THEN took
                            ELSE LET i == LastChoice(instruments, H)
                                 IN  Draw(records, instruments, r, iter[H \ {i}], i)]
           fold == CHOOSE iter : iter = Turn(iter)
<1>1. PICK w \in [SUBSET D -> Portions] : IsFold(w, D, took, last, step)
  <2>1. IsFiniteSet(D)
    BY TablesAre
  <2>2. last \in [(SUBSET D) \ {{}} -> D] /\ \A H \in DOMAIN last : last[H] \in H
    <3>1. \A H \in (SUBSET D) \ {{}} : LastChoice(instruments, H) \in H
      BY LastChoiceIsLast
    <3> QED
      BY <3>1
  <2>3. step \in [D \X Portions -> Portions]
    BY DrawIs
  <2> HIDE DEF D, last, step
  <2> QED
    BY <2>1, <2>2, <2>3, FoldExists
<1>2. w = Turn(w)
  <2>1. \A H \in SUBSET D : H # {} =>
          /\ LastChoice(instruments, H) \in D /\ last[H] = LastChoice(instruments, H)
          /\ w[H \ {LastChoice(instruments, H)}] \in Portions
    BY <1>1, LastChoiceIsLast
  <2>2. \A i \in D, t \in Portions : step[<<i, t>>] = Draw(records, instruments, r, t, i)
    OBVIOUS
  <2>3. \A H \in SUBSET D : Turn(w)[H] =
          IF H = {} THEN took
          ELSE Draw(records, instruments, r, w[H \ {LastChoice(instruments, H)}],
                    LastChoice(instruments, H))
    OBVIOUS
  <2> HIDE DEF step, last
  <2>4. \A H \in SUBSET D : w[H] = Turn(w)[H]
    <3> HIDE DEF Turn, D
    <3> QED
      BY <1>1, <2>1, <2>2, <2>3 DEF IsFold
  <2> QED
    BY <2>4
<1>3. fold = Turn(fold)
  <2> HIDE DEF Turn
  <2> QED
    BY <1>2
<1>4. Serve(records, instruments, r, took) = fold[D]
  BY DEF Serve, MapThenFoldSet
<1>5. PICK k : k = Turn(k) /\ Serve(records, instruments, r, took) = k[D]
  <2> HIDE DEF fold, Turn
  <2> QED
    BY <1>3, <1>4
<1>6. \A H \in SUBSET D : k[H] = Turn(k)[H]
  <2> HIDE DEF Turn
  <2> QED
    BY <1>5
<1>7. \A H \in SUBSET D : Turn(k)[H] =
        IF H = {} THEN took
        ELSE Draw(records, instruments, r, k[H \ {LastChoice(instruments, H)}],
                  LastChoice(instruments, H))
  OBVIOUS
<1>8. {} \in SUBSET D
  OBVIOUS
<1> HIDE DEF Turn
<1>9. \A H \in SUBSET D : H # {} =>
        k[H] = Draw(records, instruments, r, k[H \ {LastChoice(instruments, H)}],
                    LastChoice(instruments, H))
  BY <1>6, <1>7
<1>10. k[{}] = took
  BY <1>6, <1>7, <1>8
<1> DEFINE Good == {H \in SUBSET D : k[H] \in Portions}
<1>11. ASSUME NEW H \in SUBSET D, \A i \in H : H \ {i} \in Good PROVE H \in Good
  <2>1. CASE H = {}
    BY <1>10, <2>1
  <2>2. CASE H # {}
    <3> DEFINE i == LastChoice(instruments, H)
               t == k[H \ {i}]
    <3>1. i \in H /\ i \in D
      BY <2>2, LastChoiceIsLast
    <3>2. t \in Portions
      BY <1>11, <3>1
    <3>3. k[H] = Draw(records, instruments, r, t, i)
      BY <1>9, <2>2
    <3> HIDE DEF i, t
    <3>4. Draw(records, instruments, r, t, i) \in Portions
      BY <3>1, <3>2, DrawIs
    <3> QED
      BY <3>3, <3>4
  <2> QED
    BY <2>1, <2>2
<1>12. D \in Good
  <2>1. D \in SUBSET D /\ IsFiniteSet(D)
    BY TablesAre
  <2> HIDE DEF Good, D
  <2> QED
    BY <1>11, <2>1, EverySubset
<1>13. ServeLoop(k, records, instruments, r, took)
  BY <1>9, <1>10 DEF ServeLoop
<1> QED
  BY <1>5, <1>12, <1>13

---------------------------------------------------------------------------
(* The loops keep to the order. *)

\* What is never overdrawn, and what of it is used up.
Covers(instruments, t) ==
    /\ t \in [Electricity -> [Instruments -> Nat]]
    /\ \A i \in DOMAIN instruments :
        instruments[i].covered # Unlimited => Drawn(t, i) <= instruments[i].covered
\* Nothing is left of it.
UsedUp(instruments, t, i) ==
    instruments[i].covered # Unlimited /\ Drawn(t, i) = instruments[i].covered

\* The inner loop has come to the instruments of H. One that applies is used up, if the record
\* is not covered, or is backed by one that comes later.
Served(records, instruments, r, took, H, t) ==
    /\ Covers(instruments, t)
    /\ \A s \in Electricity : s # r => t[s] = took[s]
    /\ \A i \in Instruments : t[r][i] > 0 => i \in H /\ Applies(instruments[i], records[r])
    /\ Total(t[r]) <= records[r].kwh
    /\ \A i \in H : Applies(instruments[i], records[r]) =>
        /\ Total(t[r]) < records[r].kwh => UsedUp(instruments, t, i)
        /\ \A j \in H : t[r][j] > 0 /\ Preferred(instruments, i, j) => UsedUp(instruments, t, i)

\* One turn of the inner loop.
LEMMA DrawServes ==
    ASSUME NEW records, NEW instruments, Tables(records, instruments),
           NEW r \in DOMAIN records, NEW took, NEW t,
           NEW H \in SUBSET DOMAIN instruments, NEW k \in H,
           \A j \in H \ {k} : Preferred(instruments, j, k),
           Served(records, instruments, r, took, H \ {k}, t)
    PROVE  Served(records, instruments, r, took, H, Draw(records, instruments, r, t, k))
<1> DEFINE u == Draw(records, instruments, r, t, k)
           kwh == records[r].kwh
           limited(i) == instruments[i].covered # Unlimited
<1>1. /\ r \in Electricity /\ k \in DOMAIN instruments /\ k \in Instruments
      /\ H \subseteq Instruments /\ kwh \in Nat
      /\ \A i \in DOMAIN instruments : limited(i) => instruments[i].covered \in Nat
  BY TablesAre
<1>2. t \in Portions /\ t[r][k] = 0
  <2>1. t \in [Electricity -> [Instruments -> Nat]] /\ ~(t[r][k] > 0)
    BY <1>1 DEF Served, Covers
  <2> QED
    BY <1>1, <2>1 DEF Portions
<1>3. ~Preferred(instruments, k, k) /\ \A j \in H : ~Preferred(instruments, k, j)
  <2>1. \A j \in H : j # k => Preferred(instruments, j, k)
    OBVIOUS
  <2> QED
    BY <1>1, <2>1, PreferredOrder
<1>4. CASE ~Applies(instruments[k], records[r])
  <2>1. u = t
    BY <1>1, <1>2, <1>4, DrawIs
  <2>2. \A j \in H : t[r][j] > 0 => j \in H \ {k}
    BY <1>1 DEF Served
  <2>3. \A i \in H : Applies(instruments[i], records[r]) => i \in H \ {k}
    BY <1>4
  <2>4. Served(records, instruments, r, took, H, t)
    BY <2>2, <2>3 DEF Served
  <2> HIDE DEF u
  <2> QED
    BY <2>1, <2>4 DEF u
<1>5. CASE Applies(instruments[k], records[r])
  <2>1. PICK n \in Int :
          /\ u = WithPortion(t, r, k, n)
          /\ n <= kwh - Total(t[r])
          /\ limited(k) => n <= instruments[k].covered - Drawn(t, k)
          /\ \/ n = kwh - Total(t[r])
             \/ limited(k) /\ n = instruments[k].covered - Drawn(t, k)
    BY <1>1, <1>2, <1>5, DrawIs
  <2> HIDE DEF u
  <2>2. /\ u \in Portions /\ u[r][k] = n
        /\ \A s \in Electricity : s # r => u[s] = t[s]
        /\ \A j \in Instruments : j # k => u[r][j] = t[r][j]
        /\ Total(u[r]) = Total(t[r]) + n
        /\ \A j \in Instruments : Drawn(u, j) = Drawn(t, j) + (IF j = k THEN n ELSE 0)
    BY <1>1, <1>2, <2>1, ChangeOne
  <2>3. /\ Total(t[r]) \in Int /\ Total(t[r]) <= kwh
        /\ \A j \in Instruments : Drawn(t, j) \in Int
        /\ \A j \in DOMAIN instruments : limited(j) => Drawn(t, j) <= instruments[j].covered
    BY <1>1, <1>2, TotalIs DEF Served, Covers
  <2>4. n \in Nat
    BY <1>1, <2>1, <2>3
  <2>5. Covers(instruments, u)
    <3>1. u \in [Electricity -> [Instruments -> Nat]]
      <4>1. \A s \in Electricity, j \in Instruments : u[s][j] \in Nat
        BY <1>1, <2>2, <2>4 DEF Served, Covers
      <4> QED
        BY <2>2, <4>1 DEF Portions
    <3>2. ASSUME NEW j \in DOMAIN instruments, limited(j)
          PROVE  Drawn(u, j) <= instruments[j].covered
      <4>1. j \in Instruments /\ instruments[j].covered \in Nat /\ Drawn(t, j) \in Int
        BY <2>3, <3>2, TablesAre
      <4>2. CASE j = k
        <5>1. Drawn(u, j) = Drawn(t, j) + n
          BY <2>2, <4>1, <4>2
        <5> QED
          BY <2>1, <3>2, <4>1, <4>2, <5>1
      <4>3. CASE j # k
        <5>1. Drawn(u, j) = Drawn(t, j)
          BY <2>2, <4>1, <4>3
        <5> QED
          BY <2>3, <3>2, <5>1
      <4> QED
        BY <4>2, <4>3
    <3> QED
      BY <3>1, <3>2 DEF Covers
  <2>6. \A s \in Electricity : s # r => u[s] = took[s]
    BY <2>2 DEF Served
  <2>7. \A i \in Instruments : u[r][i] > 0 => i \in H /\ Applies(instruments[i], records[r])
    BY <1>5, <2>2 DEF Served
  <2>8. Total(u[r]) <= kwh
    BY <1>1, <2>1, <2>2, <2>3
  <2>9. \A i \in H \ {k} : UsedUp(instruments, t, i) => UsedUp(instruments, u, i)
    <3>1. \A i \in H \ {k} : Drawn(u, i) = Drawn(t, i)
      BY <1>1, <2>2, <2>3
    <3> QED
      BY <3>1 DEF UsedUp
  <2>10. Total(u[r]) < kwh => UsedUp(instruments, u, k)
    <3>1. SUFFICES ASSUME Total(u[r]) < kwh PROVE UsedUp(instruments, u, k)
      OBVIOUS
    <3>2. limited(k) /\ n = instruments[k].covered - Drawn(t, k)
      BY <1>1, <2>1, <2>2, <2>3, <3>1
    <3>3. Drawn(u, k) = Drawn(t, k) + n /\ instruments[k].covered \in Nat /\ Drawn(t, k) \in Int
      BY <1>1, <2>2, <2>3, <3>2
    <3> QED
      BY <3>2, <3>3 DEF UsedUp
  <2>11. ASSUME NEW i \in H, Applies(instruments[i], records[r])
         PROVE  /\ Total(u[r]) < kwh => UsedUp(instruments, u, i)
                /\ \A j \in H : u[r][j] > 0 /\ Preferred(instruments, i, j) =>
                     UsedUp(instruments, u, i)
    <3>1. CASE i = k
      BY <1>3, <2>10, <3>1
    <3>2. CASE i # k
      <4>1. Total(u[r]) < kwh => Total(t[r]) < kwh
        BY <1>1, <2>2, <2>3, <2>4
      <4>2. Total(t[r]) < kwh => UsedUp(instruments, u, i)
        BY <2>9, <2>11, <3>2 DEF Served
      <4>3. u[r][k] > 0 => Total(t[r]) < kwh
        BY <1>1, <2>1, <2>2, <2>3, <2>4
      <4>4. \A j \in H \ {k} : u[r][j] > 0 /\ Preferred(instruments, i, j) =>
              UsedUp(instruments, u, i)
        <5>1. \A j \in H \ {k} : u[r][j] = t[r][j]
          BY <1>1, <2>2
        <5> QED
          BY <2>9, <2>11, <3>2, <5>1 DEF Served
      <4> QED
        BY <4>1, <4>2, <4>3, <4>4
    <3> QED
      BY <3>1, <3>2
  <2>12. Served(records, instruments, r, took, H, u)
    BY <2>5, <2>6, <2>7, <2>8, <2>11 DEF Served
  <2> QED
    BY <2>12 DEF u
<1> QED
  BY <1>4, <1>5

\* The whole inner loop.
LEMMA ServeServes ==
    ASSUME NEW records, NEW instruments, Tables(records, instruments),
           NEW r \in DOMAIN records, NEW took, Covers(instruments, took), took[r] = Nothing
    PROVE  Served(records, instruments, r, took, DOMAIN instruments,
                  Serve(records, instruments, r, took))
<1> DEFINE D == DOMAIN instruments
<1>1. r \in Electricity /\ records[r].kwh \in Nat /\ IsFiniteSet(D)
  BY TablesAre
<1>2. took \in Portions
  BY DEF Covers, Portions
<1>3. PICK w : /\ ServeLoop(w, records, instruments, r, took)
               /\ Serve(records, instruments, r, took) = w[DOMAIN instruments]
  BY <1>2, ServeSteps
<1> DEFINE Good == {H \in SUBSET D : Served(records, instruments, r, took, H, w[H])}
<1>4. Served(records, instruments, r, took, {}, took)
  <2>1. Total(took[r]) = 0
    <3>1. Nothing \in [Instruments -> Nat] /\ \A i \in Instruments : Nothing[i] = 0
      BY DEF Nothing
    <3>2. SumFunction(Nothing) = 0
      BY <3>1, IdAssumption, SumNat
    <3> QED
      BY <3>2 DEF Total
  <2>2. \A i \in Instruments : took[r][i] = 0
    BY DEF Nothing
  <2> QED
    BY <1>1, <2>1, <2>2 DEF Served
<1>5. ASSUME NEW H \in SUBSET D, \A i \in H : H \ {i} \in Good PROVE H \in Good
  <2>1. CASE H = {}
    BY <1>3, <1>4, <2>1 DEF ServeLoop
  <2>2. CASE H # {}
    <3> DEFINE k == LastChoice(instruments, H)
    <3>1. k \in H /\ \A j \in H \ {k} : Preferred(instruments, j, k)
      BY <2>2, LastChoiceIsLast
    <3>2. w[H] = Draw(records, instruments, r, w[H \ {k}], k)
      BY <1>3, <2>2 DEF ServeLoop
    <3> HIDE DEF k
    <3>3. Served(records, instruments, r, took, H \ {k}, w[H \ {k}])
      BY <1>5, <3>1
    <3>4. Served(records, instruments, r, took, H, w[H])
      BY <3>1, <3>2, <3>3, DrawServes
    <3> QED
      BY <3>4
  <2> QED
    BY <2>1, <2>2
<1>6. D \in Good
  <2>1. D \in SUBSET D
    OBVIOUS
  <2> HIDE DEF Good, D
  <2> QED
    BY <1>1, <1>5, <2>1, EverySubset
<1> QED
  BY <1>3, <1>6

\* The outer loop comes to the latest record last.
LEMMA AllocationSteps ==
    ASSUME NEW records, NEW instruments, Tables(records, instruments)
    PROVE  \E w :
             /\ w[{}] = [r \in Electricity |-> Nothing]
             /\ \A R \in SUBSET DOMAIN records : R # {} =>
                  w[R] = Serve(records, instruments, LatestOf(records, R),
                               w[R \ {LatestOf(records, R)}])
             /\ AllocationOf(records, instruments) = w[DOMAIN records]
<1> DEFINE D == DOMAIN records
           none == [r \in Electricity |-> Nothing]
           last == [R \in (SUBSET D) \ {{}} |-> LatestOf(records, R)]
           step == [p \in D \X Portions |-> Serve(records, instruments, p[1], p[2])]
           Turn(iter) == [R \in SUBSET D |->
                            IF R = {} THEN none
                            ELSE LET r == LatestOf(records, R)
                                 IN  Serve(records, instruments, r, iter[R \ {r}])]
           fold == CHOOSE iter : iter = Turn(iter)
<1>1. PICK w \in [SUBSET D -> Portions] : IsFold(w, D, none, last, step)
  <2>1. IsFiniteSet(D)
    BY TablesAre
  <2>2. last \in [(SUBSET D) \ {{}} -> D] /\ \A R \in DOMAIN last : last[R] \in R
    <3>1. \A R \in (SUBSET D) \ {{}} : LatestOf(records, R) \in R
      BY LatestIsLast
    <3> QED
      BY <3>1
  <2>3. step \in [D \X Portions -> Portions]
    <3>1. \A r \in D, t \in Portions : Serve(records, instruments, r, t) \in Portions
      BY ServeSteps
    <3> QED
      BY <3>1
  <2>4. none \in Portions
    BY DEF Portions, Nothing
  <2> HIDE DEF D, none, last, step
  <2> QED
    BY <2>1, <2>2, <2>3, <2>4, FoldExists
<1> HIDE DEF none
<1>2. w = Turn(w)
  <2>1. \A R \in SUBSET D : R # {} =>
          /\ LatestOf(records, R) \in D /\ last[R] = LatestOf(records, R)
          /\ w[R \ {LatestOf(records, R)}] \in Portions
    BY <1>1, LatestIsLast
  <2>2. \A r \in D, t \in Portions : step[<<r, t>>] = Serve(records, instruments, r, t)
    OBVIOUS
  <2>3. \A R \in SUBSET D : Turn(w)[R] =
          IF R = {} THEN none
          ELSE Serve(records, instruments, LatestOf(records, R), w[R \ {LatestOf(records, R)}])
    OBVIOUS
  <2> HIDE DEF step, last
  <2>4. \A R \in SUBSET D : w[R] = Turn(w)[R]
    <3> HIDE DEF Turn, D
    <3> QED
      BY <1>1, <2>1, <2>2, <2>3 DEF IsFold
  <2> QED
    BY <2>4
<1>3. fold = Turn(fold)
  <2> HIDE DEF Turn
  <2> QED
    BY <1>2
<1>4. AllocationOf(records, instruments) = fold[D]
  BY DEF AllocationOf, MapThenFoldSet, none
<1>5. PICK k : k = Turn(k) /\ AllocationOf(records, instruments) = k[D]
  <2> HIDE DEF fold, Turn
  <2> QED
    BY <1>3, <1>4
<1>6. \A R \in SUBSET D : k[R] = Turn(k)[R]
  <2> HIDE DEF Turn
  <2> QED
    BY <1>5
<1>7. \A R \in SUBSET D : Turn(k)[R] =
        IF R = {} THEN none
        ELSE Serve(records, instruments, LatestOf(records, R), k[R \ {LatestOf(records, R)}])
  OBVIOUS
<1>8. {} \in SUBSET D
  OBVIOUS
<1> HIDE DEF Turn
<1> QED
  BY <1>5, <1>6, <1>7, <1>8 DEF none

\* The outer loop has come to the records of R.
Allocated(records, instruments, R, t) ==
    /\ Covers(instruments, t)
    /\ \A s \in Electricity \ R : t[s] = Nothing
    /\ \A s \in R :
        /\ \A i \in Instruments : t[s][i] > 0 =>
            i \in DOMAIN instruments /\ Applies(instruments[i], records[s])
        /\ Total(t[s]) <= records[s].kwh
        /\ \A i \in DOMAIN instruments : Applies(instruments[i], records[s]) =>
            /\ Total(t[s]) < records[s].kwh => UsedUpBy(records, instruments, t, s, i)
            /\ \A j \in DOMAIN instruments : t[s][j] > 0 /\ Preferred(instruments, i, j) =>
                UsedUpBy(records, instruments, t, s, i)

\* What the records of a part have drawn is the same if they have the same, and is all that is
\* drawn if the others have nothing.
LEMMA PartDrawn ==
    ASSUME NEW t \in Portions, NEW u \in Portions, NEW i \in Instruments,
           NEW B \in SUBSET Electricity
    PROVE  LET f == [s \in Electricity |-> t[s][i]]
               g == [s \in Electricity |-> u[s][i]]
           IN  /\ (\A s \in B : u[s] = t[s]) => SumFunctionOnSet(g, B) = SumFunctionOnSet(f, B)
               /\ (\A s \in Electricity \ B : u[s] = Nothing) => SumFunctionOnSet(g, B) = Drawn(u, i)
<1> DEFINE f == [s \in Electricity |-> t[s][i]]
           g == [s \in Electricity |-> u[s][i]]
<1>1. f \in [Electricity -> Int] /\ g \in [Electricity -> Int]
  BY DEF Portions
<1>2. (\A s \in B : u[s] = t[s]) => \A s \in B : g[s] = f[s]
  OBVIOUS
<1>3. (\A s \in Electricity \ B : u[s] = Nothing) => \A s \in Electricity \ B : g[s] = 0
  BY DEF Nothing
<1>4. Drawn(u, i) = SumFunction(g) /\ Electricity \in SUBSET Electricity
  BY DEF Drawn
<1> HIDE DEF f, g
<1>5. (\A s \in B : u[s] = t[s]) => SumFunctionOnSet(g, B) = SumFunctionOnSet(f, B)
  BY <1>1, <1>2, IdAssumption, SumSame
<1>6. (\A s \in Electricity \ B : u[s] = Nothing) => SumFunctionOnSet(g, B) = Drawn(u, i)
  <2>1. SUFFICES ASSUME \A s \in Electricity \ B : g[s] = 0
                 PROVE  SumFunctionOnSet(g, B) = SumFunction(g)
    BY <1>3, <1>4
  <2> QED
    BY <1>1, <2>1, IdAssumption, SumRest
<1> QED
  BY <1>5, <1>6 DEF f, g

\* The latest record takes nothing of what earlier ones have, and what it and they have drawn
\* is all that is drawn.
LEMMA LatestDraws ==
    ASSUME NEW records, NEW instruments, Tables(records, instruments),
           NEW R \in SUBSET DOMAIN records, NEW r \in R,
           \A s \in R \ {r} : Earlier(records, s, r),
           NEW t \in Portions, NEW u \in Portions, NEW i \in Instruments,
           \A s \in Electricity : s # r => u[s] = t[s],
           \A s \in Electricity \ R : u[s] = Nothing
    PROVE  /\ \A s \in R \ {r} : DrawnBy(records, u, s, i) = DrawnBy(records, t, s, i)
           /\ DrawnBy(records, u, r, i) = Drawn(u, i)
<1> DEFINE Before(s) == {q \in DOMAIN records : q = s \/ Earlier(records, q, s)}
<1>1. \A s : Before(s) \in SUBSET Electricity
  BY TablesAre
<1>2. ASSUME NEW s \in R \ {r} PROVE DrawnBy(records, u, s, i) = DrawnBy(records, t, s, i)
  <2> DEFINE B == Before(s)
  <2>1. r \notin B
    BY EarlierOrder
  <2>2. \A q \in B : u[q] = t[q]
    BY <1>1, <2>1
  <2>3. B \in SUBSET Electricity
    BY <1>1
  <2> QED
    BY <2>2, <2>3, PartDrawn DEF DrawnBy
<1>3. DrawnBy(records, u, r, i) = Drawn(u, i)
  <2> DEFINE B == Before(r)
  <2>1. \A q \in Electricity \ B : u[q] = Nothing
    OBVIOUS
  <2>2. B \in SUBSET Electricity
    BY <1>1
  <2> QED
    BY <2>1, <2>2, PartDrawn DEF DrawnBy
<1> QED
  BY <1>2, <1>3

\* One turn of the outer loop.
LEMMA ServeAllocates ==
    ASSUME NEW records, NEW instruments, Tables(records, instruments),
           NEW R \in SUBSET DOMAIN records, NEW r \in R,
           \A s \in R \ {r} : Earlier(records, s, r),
           NEW t, Allocated(records, instruments, R \ {r}, t)
    PROVE  Allocated(records, instruments, R, Serve(records, instruments, r, t))
<1> DEFINE u == Serve(records, instruments, r, t)
           D == DOMAIN instruments
<1>1. r \in DOMAIN records /\ r \in Electricity /\ R \subseteq Electricity /\ D \subseteq Instruments
  BY TablesAre
<1>2. Covers(instruments, t) /\ t[r] = Nothing
  BY <1>1 DEF Allocated
<1>3. Served(records, instruments, r, t, D, u)
  BY <1>1, <1>2, ServeServes
<1> HIDE DEF u
<1>4. /\ t \in Portions /\ u \in Portions /\ Covers(instruments, u)
      /\ \A s \in Electricity : s # r => u[s] = t[s]
      /\ \A s \in Electricity \ R : u[s] = Nothing
  <2>1. Covers(instruments, u) /\ \A s \in Electricity : s # r => u[s] = t[s]
    BY <1>3 DEF Served
  <2>2. t \in Portions /\ u \in Portions
    BY <1>2, <2>1 DEF Covers, Portions
  <2>3. \A s \in Electricity \ R : u[s] = Nothing
    BY <2>1 DEF Allocated
  <2> QED
    BY <2>1, <2>2, <2>3
<1>5. \A i \in D : /\ \A s \in R \ {r} : DrawnBy(records, u, s, i) = DrawnBy(records, t, s, i)
                   /\ DrawnBy(records, u, r, i) = Drawn(u, i)
  BY <1>1, <1>4, LatestDraws
<1>6. ASSUME NEW s \in R
      PROVE  /\ \A i \in Instruments : u[s][i] > 0 =>
                  i \in D /\ Applies(instruments[i], records[s])
             /\ Total(u[s]) <= records[s].kwh
             /\ \A i \in D : Applies(instruments[i], records[s]) =>
                  /\ Total(u[s]) < records[s].kwh => UsedUpBy(records, instruments, u, s, i)
                  /\ \A j \in D : u[s][j] > 0 /\ Preferred(instruments, i, j) =>
                       UsedUpBy(records, instruments, u, s, i)
  <2>1. CASE s = r
    <3>1. \A i \in D : UsedUp(instruments, u, i) => UsedUpBy(records, instruments, u, r, i)
      BY <1>5 DEF UsedUp, UsedUpBy
    <3> QED
      BY <1>1, <1>3, <2>1, <3>1 DEF Served
  <2>2. CASE s # r
    <3>1. u[s] = t[s] /\ s \in R \ {r}
      BY <1>1, <1>4, <2>2
    <3>2. \A i \in D : UsedUpBy(records, instruments, t, s, i) =>
                         UsedUpBy(records, instruments, u, s, i)
      BY <1>5, <3>1 DEF UsedUpBy
    <3> QED
      BY <3>1, <3>2 DEF Allocated
  <2> QED
    BY <2>1, <2>2
<1>7. Allocated(records, instruments, R, u)
  BY <1>4, <1>6 DEF Allocated
<1> QED
  BY <1>7 DEF u

\* The whole outer loop.
LEMMA AllocationAllocates ==
    ASSUME NEW records, NEW instruments, Tables(records, instruments)
    PROVE  Allocated(records, instruments, DOMAIN records, AllocationOf(records, instruments))
<1> DEFINE D == DOMAIN records
           none == [r \in Electricity |-> Nothing]
<1>1. PICK w :
        /\ w[{}] = [r \in Electricity |-> Nothing]
        /\ \A R \in SUBSET DOMAIN records : R # {} =>
             w[R] = Serve(records, instruments, LatestOf(records, R),
                          w[R \ {LatestOf(records, R)}])
        /\ AllocationOf(records, instruments) = w[DOMAIN records]
  BY AllocationSteps
<1>2. Allocated(records, instruments, {}, none)
  <2>1. /\ none \in [Electricity -> [Instruments -> Nat]] /\ none \in Portions
        /\ \A s \in Electricity : none[s] = Nothing
    BY DEF Nothing, Portions
  <2>2. ASSUME NEW i \in DOMAIN instruments, instruments[i].covered # Unlimited
        PROVE  Drawn(none, i) <= instruments[i].covered
    <3> DEFINE f == [s \in Electricity |-> none[s][i]]
    <3>1. i \in Instruments /\ instruments[i].covered \in Nat
      BY <2>2, TablesAre
    <3>2. f \in [Electricity -> Nat] /\ \A s \in Electricity : f[s] = 0
      BY <3>1 DEF Nothing
    <3>3. Drawn(none, i) = SumFunction(f)
      BY DEF Drawn
    <3> HIDE DEF f
    <3>4. SumFunction(f) = 0
      BY <3>2, IdAssumption, SumNat
    <3> QED
      BY <3>1, <3>3, <3>4
  <2> HIDE DEF none
  <2> QED
    BY <2>1, <2>2 DEF Allocated, Covers
<1> DEFINE Good == {R \in SUBSET D : Allocated(records, instruments, R, w[R])}
<1>3. ASSUME NEW R \in SUBSET D, \A r \in R : R \ {r} \in Good PROVE R \in Good
  <2>1. CASE R = {}
    BY <1>1, <1>2, <2>1
  <2>2. CASE R # {}
    <3> DEFINE k == LatestOf(records, R)
    <3>1. k \in R /\ \A s \in R \ {k} : Earlier(records, s, k)
      BY <2>2, LatestIsLast
    <3>2. w[R] = Serve(records, instruments, k, w[R \ {k}])
      BY <1>1, <2>2
    <3> HIDE DEF k
    <3>3. Allocated(records, instruments, R \ {k}, w[R \ {k}])
      BY <1>3, <3>1
    <3>4. Allocated(records, instruments, R, w[R])
      BY <3>1, <3>2, <3>3, ServeAllocates
    <3> QED
      BY <3>4
  <2> QED
    BY <2>1, <2>2
<1>4. D \in Good
  <2>1. D \in SUBSET D /\ IsFiniteSet(D)
    BY TablesAre
  <2> HIDE DEF Good, D
  <2> QED
    BY <1>3, <2>1, EverySubset
<1> QED
  BY <1>1, <1>4

\* The allocation keeps to the order and draws no more than there is, for all records and all
\* instruments an organisation may have.
THEOREM AllocationInOrder ==
    ASSUME NEW records, NEW instruments, Tables(records, instruments)
    PROVE  InOrder(records, instruments, AllocationOf(records, instruments))
<1> DEFINE t == AllocationOf(records, instruments)
<1>1. Allocated(records, instruments, DOMAIN records, t)
  BY AllocationAllocates
<1> HIDE DEF t
<1>2. ASSUME NEW r \in Electricity, NEW i \in Instruments, t[r][i] > 0
      PROVE  r \in DOMAIN records /\ i \in DOMAIN instruments /\ Applies(instruments[i], records[r])
  <2>1. r \in DOMAIN records
    <3>1. Nothing[i] = 0
      BY DEF Nothing
    <3> QED
      BY <1>1, <1>2, <3>1 DEF Allocated
  <2> QED
    BY <1>1, <1>2, <2>1 DEF Allocated
<1>3. \A r \in DOMAIN records : Total(t[r]) <= records[r].kwh
  BY <1>1 DEF Allocated
<1>4. ASSUME NEW i \in DOMAIN instruments, instruments[i].covered # Unlimited
      PROVE  Room(instruments, t, i) >= 0
  <2>1. t \in Portions
    BY <1>1 DEF Allocated, Covers, Portions
  <2>2. Drawn(t, i) \in Int
    BY <2>1, TotalIs, TablesAre
  <2>3. Drawn(t, i) <= instruments[i].covered
    BY <1>1, <1>4 DEF Allocated, Covers
  <2>4. instruments[i].covered \in Nat
    BY <1>4, TablesAre
  <2> QED
    BY <2>2, <2>3, <2>4 DEF Room
<1>5. ASSUME NEW r \in DOMAIN records, NEW i \in DOMAIN instruments,
             Applies(instruments[i], records[r]),
             \/ Total(t[r]) < records[r].kwh
             \/ \E j \in DOMAIN instruments : t[r][j] > 0 /\ Preferred(instruments, i, j)
      PROVE  UsedUpBy(records, instruments, t, r, i)
  BY <1>1, <1>5 DEF Allocated
<1> QED
  BY <1>2, <1>3, <1>4, <1>5 DEF InOrder, t

---------------------------------------------------------------------------
(* A run in chunks, and users who change what it is over. *)

\* The types of the state of MarketAllocation.
MarketTypeOK ==
    /\ record \in [Electricity -> RecordKinds] /\ approvedRecords \subseteq Electricity
    /\ instrument \in [Instruments -> InstrumentKinds]
    /\ held \subseteq Instruments /\ gone \subseteq Instruments
    /\ row \in [Electricity -> [claims : [Instruments -> Nat], factor : Nat, chunk : Nat]]
    /\ pc \in {"new", "open", "cut", "between", "done"} /\ chunk \in Nat /\ wrote \in BOOLEAN
    /\ claims \in [Electricity -> [Instruments -> Nat]] /\ asked \in [Electricity -> Nat]
    /\ changes \in Nat /\ edited \subseteq Electricity

\* What a chunk has loaded is covered by the instruments, and backs no more of a record than
\* the record stated, which is what it states unless it was edited.
LoadInv ==
    /\ \A i \in Instruments :
        instrument[i].covered # Unlimited => Drawn(claims, i) <= instrument[i].covered
    /\ \A r \in Electricity : Total(claims[r]) <= asked[r]
    /\ \A r \in Electricity \ edited : asked[r] \in {0, record[r].kwh}

\* A row is of a chunk that has begun, and one of the chunk at work claims what the chunk has
\* loaded for it or nothing.
RowInv ==
    /\ pc \in {"open", "cut"} => chunk > 0
    /\ \A r \in Electricity : Calculated(r) => row[r].chunk \in 1 .. chunk
    /\ pc \in {"open", "cut"} => \A r \in Electricity, i \in Instruments :
         row[r].chunk = chunk => row[r].claims[i] <= claims[r][i]

\* While nobody has changed anything, what a chunk has loaded is what any chunk would load.
SameLoadInv ==
    changes = 0 /\ pc \in {"open", "cut"} => claims = Allocation /\ asked = Asked

\* The inductive invariant: what a chunk has loaded, what its rows hold of it, and what runs check.
MarketInv ==
    /\ MarketTypeOK /\ LoadInv /\ RowInv /\ SameLoadInv
    /\ OneAllocation /\ ChunkWithinCertificate /\ KwhCountedOnce

\* A row that is not there claims nothing, and to claim nothing is to claim 0 in all.
LEMMA NothingIs ==
    /\ Nothing \in [Instruments -> Nat] /\ \A i \in Instruments : Nothing[i] = 0
    /\ Total(Nothing) = 0
    /\ \A i \in Instruments : Drawn([r \in Electricity |-> Nothing], i) = 0
<1>1. Nothing \in [Instruments -> Nat] /\ \A i \in Instruments : Nothing[i] = 0
  BY DEF Nothing
<1>2. Total(Nothing) = 0
  BY <1>1, IdAssumption, SumNat DEF Total
<1>3. ASSUME NEW i \in Instruments PROVE Drawn([r \in Electricity |-> Nothing], i) = 0
  <2> DEFINE none == [r \in Electricity |-> Nothing]
             f == [r \in Electricity |-> none[r][i]]
  <2>1. f \in [Electricity -> Nat] /\ \A r \in Electricity : f[r] = 0
    BY <1>1
  <2>2. Drawn(none, i) = SumFunction(f)
    BY DEF Drawn
  <2> HIDE DEF f
  <2>3. SumFunction(f) = 0
    BY <2>1, IdAssumption, SumNat
  <2> QED
    BY <2>2, <2>3
<1> QED
  BY <1>1, <1>2, <1>3

\* What a chunk loads is sound.
LEMMA AllocationLoads ==
    ASSUME MarketTypeOK
    PROVE  /\ Allocation \in [Electricity -> [Instruments -> Nat]] /\ Asked \in [Electricity -> Nat]
           /\ \A i \in Instruments : instrument[i].covered # Unlimited =>
                Drawn(Allocation, i) <= instrument[i].covered
           /\ \A r \in Electricity : Total(Allocation[r]) <= Asked[r]
<1> DEFINE records == LoadedRecords
           instruments == HeldInstruments
           t == Allocation
<1>1. Tables(records, instruments)
  BY DEF Tables, LoadedRecords, HeldInstruments, Loaded, MarketTypeOK
<1>2. DOMAIN records = approvedRecords /\ DOMAIN instruments = held
  BY DEF LoadedRecords, HeldInstruments, Loaded
<1>3. /\ \A r \in approvedRecords : records[r] = record[r]
      /\ \A i \in held : instruments[i] = instrument[i]
  BY DEF LoadedRecords, HeldInstruments, Loaded
<1>4. t = AllocationOf(records, instruments)
  BY DEF Allocation
<1>5. Asked \in [Electricity -> Nat]
      /\ \A r \in Electricity : Asked[r] = IF r \in approvedRecords THEN record[r].kwh ELSE 0
  BY KindAssumption DEF Asked, Loaded, MarketTypeOK
<1> HIDE DEF records, instruments, t
<1>6. Allocated(records, instruments, approvedRecords, t)
  BY <1>1, <1>2, <1>4, AllocationAllocates
<1>7. t \in [Electricity -> [Instruments -> Nat]]
  BY <1>6 DEF Allocated, Covers
<1>8. ASSUME NEW r \in Electricity PROVE Total(t[r]) <= Asked[r]
  <2>1. CASE r \in approvedRecords
    BY <1>3, <1>5, <1>6, <2>1 DEF Allocated
  <2>2. CASE r \notin approvedRecords
    BY <1>5, <1>6, <2>2, NothingIs DEF Allocated
  <2> QED
    BY <2>1, <2>2
<1>9. ASSUME NEW i \in Instruments, instrument[i].covered # Unlimited
      PROVE  Drawn(t, i) <= instrument[i].covered
  <2>1. CASE i \in held
    BY <1>2, <1>3, <1>6, <1>9, <2>1 DEF Allocated, Covers
  <2>2. CASE i \notin held
    <3> DEFINE f == [r \in Electricity |-> t[r][i]]
    <3>1. \A r \in Electricity : t[r][i] \in Nat /\ ~(t[r][i] > 0)
      <4>1. \A r \in approvedRecords : ~(t[r][i] > 0)
        BY <1>2, <1>6, <2>2 DEF Allocated
      <4>2. \A r \in Electricity \ approvedRecords : t[r][i] = 0
        BY <1>6, NothingIs DEF Allocated
      <4> QED
        BY <1>7, <4>1, <4>2
    <3>2. f \in [Electricity -> Nat] /\ \A r \in Electricity : f[r] = 0
      BY <3>1
    <3>3. Drawn(t, i) = SumFunction(f)
      BY DEF Drawn
    <3> HIDE DEF f
    <3>4. SumFunction(f) = 0
      BY <3>2, IdAssumption, SumNat
    <3>5. instrument[i].covered \in Nat
      BY <1>9, KindAssumption DEF MarketTypeOK
    <3> QED
      BY <3>3, <3>4, <3>5
  <2> QED
    BY <2>1, <2>2
<1> QED
  BY <1>5, <1>7, <1>8, <1>9 DEF t

\* The allocation and what it was asked for depend on the tables only.
LEMMA SameTables ==
    ASSUME UNCHANGED tableVars
    PROVE  Allocation' = Allocation /\ Asked' = Asked
BY DEF tableVars, Allocation, LoadedRecords, HeldInstruments, Loaded, Asked

\* What a row holds.
LEMMA RowOfIs ==
    ASSUME MarketTypeOK, NEW r \in Electricity, NEW portions \in [Instruments -> Nat],
           NEW kwh \in Nat, Total(portions) <= kwh
    PROVE  LET new == RowOf(r, portions, kwh) IN
           /\ new \in [claims : [Instruments -> Nat], factor : Nat, chunk : Nat]
           /\ new.chunk = chunk
           /\ \A i \in Instruments : new.claims[i] <= portions[i]
           /\ record[r].factor = "fits" /\ kwh \in {0, record[r].kwh} =>
                Total(new.claims) + new.factor = record[r].kwh
<1> DEFINE new == RowOf(r, portions, kwh)
           covered == Total(portions) > 0 /\ Total(portions) = kwh
           void == ~covered /\ record[r].factor = "misfits"
<1>1. Total(portions) \in Nat /\ record[r].kwh \in Nat /\ chunk \in Nat
  <2>1. Total(portions) \in Nat
    BY IdAssumption, SumNat DEF Total
  <2> QED
    BY <2>1, KindAssumption DEF MarketTypeOK
<1>2. AtFactor(r, portions, kwh) =
        IF Total(portions) = 0 THEN record[r].kwh
        ELSE IF kwh - Total(portions) <= record[r].kwh THEN kwh - Total(portions)
        ELSE record[r].kwh
  BY <1>1, MinOfTwo DEF AtFactor
<1>3. AtFactor(r, portions, kwh) \in Nat
  BY <1>1, <1>2
<1>4. new = [claims |-> IF void THEN Nothing ELSE portions,
             factor |-> IF ~covered /\ record[r].factor = "fits"
                          THEN AtFactor(r, portions, kwh) ELSE 0,
             chunk |-> chunk]
  BY DEF RowOf
<1> HIDE DEF new
<1>5. new \in [claims : [Instruments -> Nat], factor : Nat, chunk : Nat] /\ new.chunk = chunk
  BY <1>1, <1>3, <1>4, NothingIs
<1>6. \A i \in Instruments : new.claims[i] <= portions[i]
  BY <1>4, NothingIs
<1>7. ASSUME record[r].factor = "fits", kwh \in {0, record[r].kwh}
      PROVE  Total(new.claims) + new.factor = record[r].kwh
  <2>1. new.claims = portions
    BY <1>4, <1>7
  <2>2. new.factor = IF covered THEN 0 ELSE AtFactor(r, portions, kwh)
    BY <1>4, <1>7
  <2> QED
    BY <1>1, <1>2, <1>7, <2>1, <2>2
<1> QED
  BY <1>5, <1>6, <1>7 DEF new

\* A run that has not begun has no rows and has loaded nothing.
LEMMA MarketInitInv == MarketInit => MarketInv
<1> SUFFICES ASSUME MarketInit PROVE MarketInv
  OBVIOUS
<1>1. MarketTypeOK
  BY NothingIs DEF MarketInit, MarketTypeOK, NoRow
<1>2. \A r \in Electricity : claims[r] = Nothing /\ asked[r] = 0 /\ row[r] = NoRow
  BY DEF MarketInit
<1>3. LoadInv
  <2>1. \A i \in Instruments : instrument[i].covered # Unlimited => instrument[i].covered \in Nat
    BY <1>1, KindAssumption DEF MarketTypeOK
  <2>2. \A i \in Instruments : Drawn(claims, i) = 0
    BY NothingIs DEF MarketInit
  <2> QED
    BY <1>2, <2>1, <2>2, NothingIs DEF LoadInv
<1>4. RowInv /\ SameLoadInv /\ OneAllocation /\ KwhCountedOnce
  BY <1>2 DEF MarketInit, RowInv, SameLoadInv, OneAllocation, KwhCountedOnce, Calculated
<1>5. ChunkWithinCertificate
  BY DEF MarketInit, ChunkWithinCertificate
<1> QED
  BY <1>1, <1>3, <1>4, <1>5 DEF MarketInv

\* A step that writes no row leaves what the rows of a chunk claim; a chunk that begins has none.
LEMMA RowsKept ==
    ASSUME MarketInv, row' = row, instrument' = instrument,
           chunk' = chunk \/ chunk' = chunk + 1
    PROVE  ChunkWithinCertificate'
<1>1. SUFFICES ASSUME NEW c \in 1 .. chunk', NEW i \in Instruments,
                      instrument[i].covered # Unlimited
               PROVE  Claimed({r \in Electricity : row[r].chunk = c}, i)
                        <= instrument[i].covered
  BY DEF ChunkWithinCertificate, Claimed, Calculated
<1>2. chunk \in Nat /\ instrument[i].covered \in Nat
  BY <1>1, KindAssumption DEF MarketInv, MarketTypeOK
<1>3. CASE c \in 1 .. chunk
  BY <1>1, <1>3 DEF MarketInv, ChunkWithinCertificate
<1>4. CASE c \notin 1 .. chunk
  <2> DEFINE f == [r \in Electricity |-> row[r].claims[i]]
  <2>1. {r \in {r \in Electricity : row[r].chunk = c} : Calculated(r)} = {}
    BY <1>4 DEF MarketInv, RowInv
  <2>2. Claimed({r \in Electricity : row[r].chunk = c}, i) = SumFunctionOnSet(f, {})
    BY <2>1 DEF Claimed
  <2>3. f \in [Electricity -> Int]
    BY DEF MarketInv, MarketTypeOK
  <2> HIDE DEF f
  <2>4. SumFunctionOnSet(f, {}) = 0
    BY <2>3, IdAssumption, SumSteps
  <2> QED
    BY <1>2, <2>2, <2>4
<1> QED
  BY <1>3, <1>4

\* What the rows say is measured against one allocation as long as nothing changes.
LEMMA OneAllocationKept ==
    ASSUME OneAllocation, UNCHANGED <<tableVars, row, changes>>
    PROVE  OneAllocation'
<1>1. Allocation' = Allocation /\ Asked' = Asked /\ record' = record
  BY SameTables DEF tableVars
<1>2. ASSUME NEW r \in Electricity
      PROVE  /\ RowOf(r, Allocation[r], Asked[r])'.claims = RowOf(r, Allocation[r], Asked[r]).claims
             /\ RowOf(r, Allocation[r], Asked[r])'.factor = RowOf(r, Allocation[r], Asked[r]).factor
  BY <1>1 DEF RowOf, AtFactor
<1> QED
  BY <1>2 DEF OneAllocation, Calculated

\* A chunk begins, and loads what is sound.
LEMMA OpenChunkStep == MarketInv /\ OpenChunk => MarketInv'
<1> SUFFICES ASSUME MarketInv, OpenChunk PROVE MarketInv'
  OBVIOUS
<1>1. MarketTypeOK'
  <2>1. claims' \in [Electricity -> [Instruments -> Nat]] /\ asked' \in [Electricity -> Nat]
    BY AllocationLoads DEF MarketInv, OpenChunk
  <2>2. UNCHANGED <<tableVars, row, changes, edited>> /\ pc' = "open" /\ wrote' = FALSE
    BY DEF OpenChunk
  <2>3. chunk' \in Nat
    BY DEF OpenChunk, MarketInv, MarketTypeOK
  <2>4. /\ record' = record /\ approvedRecords' = approvedRecords /\ instrument' = instrument
        /\ held' = held /\ gone' = gone
    BY <2>2 DEF tableVars
  <2> QED
    BY <2>1, <2>2, <2>3, <2>4 DEF MarketInv, MarketTypeOK
<1>2. LoadInv'
  <2>1. \A r \in Electricity : Asked[r] \in {0, record[r].kwh}
    BY DEF Asked
  <2> QED
    BY <2>1, AllocationLoads DEF MarketInv, OpenChunk, LoadInv, tableVars, Drawn
<1>3. RowInv'
  <2>1. chunk \in Nat /\ \A r \in Electricity : row[r].chunk <= chunk
    BY DEF MarketInv, MarketTypeOK, RowInv, Calculated, NoRow
  <2> QED
    BY <2>1 DEF MarketInv, RowInv, OpenChunk, Calculated
<1>4. SameLoadInv'
  BY SameTables DEF OpenChunk, SameLoadInv
<1>5. OneAllocation' /\ ChunkWithinCertificate'
  BY OneAllocationKept, RowsKept DEF MarketInv, OpenChunk, tableVars
<1>6. KwhCountedOnce'
  BY DEF MarketInv, OpenChunk, KwhCountedOnce, Calculated, tableVars
<1> QED
  BY <1>1, <1>2, <1>3, <1>4, <1>5, <1>6 DEF MarketInv

\* A chunk ends, and what it had loaded is lost.
LEMMA EndChunkStep == MarketInv /\ (CloseChunk \/ Finish) => MarketInv'
<1> SUFFICES ASSUME MarketInv, CloseChunk \/ Finish PROVE MarketInv'
  OBVIOUS
<1>1. /\ UNCHANGED <<tableVars, row, chunk, changes, edited>>
      /\ pc' \in {"between", "done"} /\ wrote' = FALSE
      /\ claims' = [r \in Electricity |-> Nothing] /\ asked' = [r \in Electricity |-> 0]
  BY DEF CloseChunk, Finish
<1>2. MarketTypeOK'
  BY <1>1, NothingIs DEF MarketInv, MarketTypeOK, tableVars
<1>3. LoadInv'
  <2>1. \A i \in Instruments : instrument[i].covered # Unlimited => instrument[i].covered \in Nat
    BY KindAssumption DEF MarketInv, MarketTypeOK
  <2>2. \A i \in Instruments : Drawn(claims', i) = 0
    BY <1>1, NothingIs
  <2>3. \A r \in Electricity : Total(claims'[r]) = 0 /\ asked'[r] = 0
    BY <1>1, NothingIs
  <2> QED
    BY <1>1, <2>1, <2>2, <2>3 DEF LoadInv, tableVars, Drawn
<1>4. RowInv' /\ SameLoadInv'
  BY <1>1 DEF MarketInv, RowInv, SameLoadInv, Calculated
<1>5. OneAllocation' /\ ChunkWithinCertificate'
  BY <1>1, OneAllocationKept, RowsKept DEF MarketInv, tableVars
<1>6. KwhCountedOnce'
  BY <1>1 DEF MarketInv, KwhCountedOnce, Calculated, tableVars
<1> QED
  BY <1>2, <1>3, <1>4, <1>5, <1>6 DEF MarketInv

\* What users do: no row and no load changes, and only an edit changes what a record says.
LEMMA ChangeStep ==
    ASSUME MarketInv, Change, instrument' = instrument, MarketTypeOK', edited \subseteq edited',
           \A r \in Electricity \ edited' : record'[r] = record[r]
    PROVE  MarketInv'
<1>1. changes' # 0
  BY DEF MarketInv, MarketTypeOK, Change
<1>2. LoadInv'
  BY DEF MarketInv, LoadInv, Change, chunkVars, Drawn
<1>3. RowInv'
  BY DEF MarketInv, RowInv, Change, chunkVars, Calculated
<1>4. SameLoadInv' /\ OneAllocation'
  BY <1>1 DEF SameLoadInv, OneAllocation
<1>5. ChunkWithinCertificate'
  BY RowsKept DEF Change, chunkVars
<1>6. KwhCountedOnce'
  BY DEF MarketInv, KwhCountedOnce, Change, Calculated
<1> QED
  BY <1>2, <1>3, <1>4, <1>5, <1>6 DEF MarketInv

\* Every change of a user is such a change.
LEMMA UserStep ==
    ASSUME MarketInv,
           \/ \E r \in Electricity : Approve(r) \/ Withdraw(r) \/ Edit(r)
           \/ \E i \in Instruments : AddInstrument(i) \/ DeleteInstrument(i)
    PROVE  MarketInv'
<1>1. Change /\ instrument' = instrument /\ edited \subseteq edited'
  BY DEF Approve, Withdraw, Edit, AddInstrument, DeleteInstrument
<1>2. MarketTypeOK'
  <2>1. /\ row' = row /\ pc' = pc /\ chunk' = chunk /\ wrote' = wrote
        /\ claims' = claims /\ asked' = asked /\ changes' \in Nat
    BY <1>1 DEF Change, chunkVars, MarketInv, MarketTypeOK
  <2> DEFINE Typed ==
               /\ record' \in [Electricity -> RecordKinds] /\ approvedRecords' \subseteq Electricity
               /\ held' \subseteq Instruments /\ gone' \subseteq Instruments
               /\ edited' \subseteq Electricity
  <2>2. ASSUME NEW r \in Electricity, Approve(r) \/ Withdraw(r) PROVE Typed
    BY <2>2 DEF MarketInv, MarketTypeOK, Approve, Withdraw
  <2>3. ASSUME NEW r \in Electricity, Edit(r) PROVE Typed
    BY <2>3 DEF MarketInv, MarketTypeOK, Edit
  <2>4. ASSUME NEW i \in Instruments, AddInstrument(i) \/ DeleteInstrument(i) PROVE Typed
    BY <2>4 DEF MarketInv, MarketTypeOK, AddInstrument, DeleteInstrument
  <2>5. Typed
    BY <2>2, <2>3, <2>4
  <2> QED
    BY <1>1, <2>1, <2>5 DEF MarketInv, MarketTypeOK
<1>3. \A r \in Electricity \ edited' : record'[r] = record[r]
  BY DEF MarketInv, MarketTypeOK, Approve, Withdraw, Edit, AddInstrument, DeleteInstrument
<1> QED
  BY <1>1, <1>2, <1>3, ChangeStep

\* A page: its rows claim what the chunk has loaded for them, which no other row of the chunk does.
LEMMA WriteRowsStep == MarketInv /\ WriteRows => MarketInv'
<1> SUFFICES ASSUME MarketInv, WriteRows PROVE MarketInv'
  OBVIOUS
<1>1. PICK handled \in SUBSET Waiting :
        row' = [r \in Electricity |->
                  IF r \in handled THEN RowOf(r, claims[r], asked[r]) ELSE row[r]]
  BY DEF WriteRows
<1>2. /\ record' = record /\ approvedRecords' = approvedRecords /\ instrument' = instrument
      /\ held' = held /\ gone' = gone /\ chunk' = chunk /\ claims' = claims /\ asked' = asked
      /\ changes' = changes /\ edited' = edited
      /\ pc = "open" /\ pc' \in {"open", "cut"} /\ wrote' = TRUE
  BY DEF WriteRows, tableVars
<1>3. /\ MarketTypeOK /\ LoadInv /\ RowInv /\ chunk \in Nat /\ chunk > 0
      /\ handled \subseteq Electricity /\ \A r \in handled : row[r] = NoRow
  BY <1>2 DEF MarketInv, MarketTypeOK, RowInv, Waiting, Calculated
<1> DEFINE new(r) == RowOf(r, claims[r], asked[r])
<1>4. ASSUME NEW r \in Electricity
      PROVE  /\ new(r) \in [claims : [Instruments -> Nat], factor : Nat, chunk : Nat]
             /\ new(r).chunk = chunk
             /\ \A i \in Instruments : new(r).claims[i] <= claims[r][i]
             /\ record[r].factor = "fits" /\ asked[r] \in {0, record[r].kwh} =>
                  Total(new(r).claims) + new(r).factor = record[r].kwh
  <2>1. /\ claims[r] \in [Instruments -> Nat] /\ asked[r] \in Nat
        /\ Total(claims[r]) <= asked[r]
    BY <1>3 DEF MarketTypeOK, LoadInv
  <2> QED
    BY <1>3, <2>1, RowOfIs
<1>5. /\ \A r \in handled : row'[r] = new(r)
      /\ \A r \in Electricity \ handled : row'[r] = row[r]
  BY <1>1, <1>3
<1> HIDE DEF new
<1>6. MarketTypeOK'
  <2>1. row' \in [Electricity -> [claims : [Instruments -> Nat], factor : Nat, chunk : Nat]]
    <3>1. \A r \in Electricity :
            row'[r] \in [claims : [Instruments -> Nat], factor : Nat, chunk : Nat]
      BY <1>3, <1>4, <1>5 DEF MarketTypeOK
    <3>2. row' = [r \in Electricity |-> row'[r]]
      BY <1>1
    <3> QED
      BY <3>1, <3>2
  <2> QED
    BY <1>2, <1>3, <2>1 DEF MarketTypeOK
<1>7. LoadInv'
  BY <1>2 DEF MarketInv, LoadInv, Drawn
<1>8. RowInv'
  <2>1. \A r \in Electricity : Calculated(r)' => row'[r].chunk \in 1 .. chunk
    BY <1>3, <1>4, <1>5 DEF RowInv, Calculated
  <2>2. \A r \in Electricity, i \in Instruments :
          row'[r].chunk = chunk => row'[r].claims[i] <= claims[r][i]
    BY <1>2, <1>3, <1>4, <1>5 DEF RowInv
  <2> QED
    BY <1>2, <1>3, <2>1, <2>2 DEF RowInv
<1>9. Allocation' = Allocation /\ Asked' = Asked
  BY <1>2, SameTables DEF tableVars
<1>10. SameLoadInv'
  BY <1>2, <1>9 DEF MarketInv, SameLoadInv
<1>11. OneAllocation'
  <2>1. SUFFICES ASSUME changes = 0, NEW r \in Electricity, Calculated(r)'
                 PROVE  /\ row'[r].claims = RowOf(r, Allocation[r], Asked[r])'.claims
                        /\ row'[r].factor = RowOf(r, Allocation[r], Asked[r])'.factor
    BY <1>2 DEF OneAllocation
  <2>2. RowOf(r, Allocation[r], Asked[r])' = RowOf(r, Allocation[r], Asked[r])
    BY <1>2, <1>9 DEF RowOf, AtFactor
  <2>3. CASE r \in handled
    <3>1. claims = Allocation /\ asked = Asked
      BY <1>2, <2>1 DEF MarketInv, SameLoadInv
    <3> QED
      BY <1>5, <2>2, <2>3, <3>1 DEF new
  <2>4. CASE r \notin handled
    BY <1>5, <2>1, <2>2, <2>4 DEF MarketInv, OneAllocation, Calculated
  <2> QED
    BY <2>3, <2>4
<1>12. ChunkWithinCertificate'
  <2>1. SUFFICES ASSUME NEW c \in 1 .. chunk, NEW i \in Instruments,
                        instrument[i].covered # Unlimited
                 PROVE  Claimed({r \in Electricity : row[r].chunk = c}, i)'
                          <= instrument[i].covered
    BY <1>2 DEF ChunkWithinCertificate
  <2> DEFINE Of(rows) == {r \in {r \in Electricity : rows[r].chunk = c} : rows[r] # NoRow}
             T == Of(row)
             U == Of(row')
             f == [r \in Electricity |-> row[r].claims[i]]
             g == [r \in Electricity |-> row'[r].claims[i]]
  <2>2. /\ Claimed({r \in Electricity : row[r].chunk = c}, i) = SumFunctionOnSet(f, T)
        /\ Claimed({r \in Electricity : row[r].chunk = c}, i)' = SumFunctionOnSet(g, U)
    BY DEF Claimed, Calculated
  <2>3. /\ f \in [Electricity -> Int] /\ g \in [Electricity -> Int]
        /\ U \in SUBSET Electricity
    BY <1>3, <1>6 DEF MarketTypeOK
  <2>4. CASE c = chunk
    <3> DEFINE h == [r \in Electricity |-> claims[r][i]]
    <3>1. h \in [Electricity -> Nat] /\ \A r \in U : g[r] <= h[r]
      BY <1>2, <1>3, <1>8, <2>4 DEF MarketTypeOK, RowInv
    <3>2. SumFunction(h) <= instrument[i].covered
      BY <1>3, <2>1 DEF LoadInv, Drawn
    <3>3. SumFunction(h) \in Int /\ SumFunctionOnSet(g, U) \in Int /\ instrument[i].covered \in Int
      <4>1. instrument[i].covered \in Int
        BY <1>3, <2>1, KindAssumption DEF MarketTypeOK
      <4>2. h \in [Electricity -> Int]
        BY <3>1
      <4> HIDE DEF g, h, U
      <4> QED
        BY <2>3, <4>1, <4>2, IdAssumption, SumInt, SumSteps
    <3> HIDE DEF g, h, U
    <3>4. SumFunctionOnSet(g, U) <= SumFunction(h)
      BY <2>3, <3>1, IdAssumption, SumWithin
    <3> QED
      BY <2>2, <3>2, <3>3, <3>4
  <2>5. CASE c # chunk
    <3>1. T = U
      BY <1>3, <1>4, <1>5, <2>5
    <3>2. \A r \in U : f[r] = g[r]
      BY <1>3, <1>4, <1>5, <2>5
    <3> HIDE DEF f, g, T, U
    <3>3. SumFunctionOnSet(f, U) = SumFunctionOnSet(g, U)
      <4>1. f \in [Electricity -> Int]
        BY <2>3
      <4>2. g \in [Electricity -> Int]
        BY <2>3
      <4>3. U \in SUBSET Electricity
        BY <2>3
      <4>4. \A r \in U : f[r] <= g[r] /\ g[r] <= f[r]
        BY <3>2, <4>1, <4>2, <4>3
      <4>5. SumFunctionOnSet(f, U) <= SumFunctionOnSet(g, U)
        BY <4>1, <4>2, <4>3, <4>4, IdAssumption, SumLarger
      <4>6. SumFunctionOnSet(g, U) <= SumFunctionOnSet(f, U)
        BY <4>1, <4>2, <4>3, <4>4, IdAssumption, SumLarger
      <4>7. SumFunctionOnSet(f, U) \in Int /\ SumFunctionOnSet(g, U) \in Int
        BY <4>1, <4>2, <4>3, IdAssumption, SumSteps
      <4> QED
        BY <4>5, <4>6, <4>7
    <3> QED
      BY <2>1, <2>2, <3>1, <3>3 DEF MarketInv, ChunkWithinCertificate
  <2> QED
    BY <2>4, <2>5
<1>13. KwhCountedOnce'
  <2>1. SUFFICES ASSUME NEW r \in Electricity \ edited, Calculated(r)', record[r].factor = "fits"
                 PROVE  Total(row'[r].claims) + row'[r].factor = record[r].kwh
    BY <1>2 DEF KwhCountedOnce
  <2>2. CASE r \in handled
    <3>1. asked[r] \in {0, record[r].kwh}
      BY <1>3, <2>1 DEF LoadInv
    <3> QED
      BY <1>4, <1>5, <2>1, <2>2, <3>1
  <2>3. CASE r \notin handled
    BY <1>5, <2>1, <2>3 DEF MarketInv, KwhCountedOnce, Calculated
  <2> QED
    BY <2>2, <2>3
<1> QED
  BY <1>6, <1>7, <1>8, <1>10, <1>11, <1>12, <1>13 DEF MarketInv

\* Every step of the run and of its users.
LEMMA MarketStep == MarketInv /\ [MarketNext]_marketVars => MarketInv'
<1> SUFFICES ASSUME MarketInv, [MarketNext]_marketVars PROVE MarketInv'
  OBVIOUS
<1>1. CASE OpenChunk
  BY <1>1, OpenChunkStep
<1>2. CASE WriteRows
  BY <1>2, WriteRowsStep
<1>3. CASE CloseChunk \/ Finish
  BY <1>3, EndChunkStep
<1>4. CASE \/ \E r \in Electricity : Approve(r) \/ Withdraw(r) \/ Edit(r)
           \/ \E i \in Instruments : AddInstrument(i) \/ DeleteInstrument(i)
  BY <1>4, UserStep
<1>5. CASE UNCHANGED marketVars
  <2>1. /\ UNCHANGED <<tableVars, row, changes>> /\ row' = row /\ instrument' = instrument
        /\ chunk' = chunk /\ pc' = pc /\ wrote' = wrote /\ claims' = claims /\ asked' = asked
        /\ record' = record /\ edited' = edited /\ changes' = changes
        /\ approvedRecords' = approvedRecords /\ held' = held /\ gone' = gone
    BY <1>5 DEF marketVars, tableVars
  <2>2. MarketTypeOK' /\ LoadInv' /\ RowInv'
    BY <2>1 DEF MarketInv, MarketTypeOK, LoadInv, RowInv, Calculated, Drawn
  <2>3. SameLoadInv'
    BY <2>1, SameTables DEF MarketInv, SameLoadInv
  <2>4. OneAllocation' /\ ChunkWithinCertificate'
    BY <2>1, OneAllocationKept, RowsKept DEF MarketInv
  <2>5. KwhCountedOnce'
    BY <2>1 DEF MarketInv, KwhCountedOnce, Calculated
  <2> QED
    BY <2>2, <2>3, <2>4, <2>5 DEF MarketInv
<1> QED
  BY <1>1, <1>2, <1>3, <1>4, <1>5 DEF MarketNext

\* In every state of a run and of its users, whatever the records and instruments say, the
\* types hold, what the chunk has loaded is sound, and every row is accounted for.
THEOREM MarketInvariant == MarketSpec => []MarketInv
<1>1. MarketInit => MarketInv
  BY MarketInitInv
<1>2. MarketInv /\ [MarketNext]_marketVars => MarketInv'
  BY MarketStep
<1> QED
  BY <1>1, <1>2, PTL DEF MarketSpec

\* Whatever users have done to the tables, what a chunk would load next draws no more than a
\* record uses or an instrument covers, and in the order of preference (allocateInstruments).
THEOREM AllocationIsInOrder == MarketSpec => []DrawnInOrder
<1>1. MarketInv => DrawnInOrder
  <2>1. ASSUME MarketInv PROVE Tables(LoadedRecords, HeldInstruments)
    BY <2>1 DEF Tables, LoadedRecords, HeldInstruments, Loaded, MarketInv, MarketTypeOK
  <2> QED
    BY <2>1, AllocationInOrder DEF DrawnInOrder, Allocation
<1> QED
  BY <1>1, MarketInvariant, PTL

\* However a run is cut into chunks and pages, if nobody changes a record or an instrument its
\* rows are those of one allocation over all its records (loadMarketAllocations).
THEOREM OneAllocationHolds == MarketSpec => []OneAllocation
<1>1. MarketInv => OneAllocation
  BY DEF MarketInv
<1> QED
  BY <1>1, MarketInvariant, PTL

\* Whatever users change between two statements, the rows of a chunk claim no more of an
\* instrument than it covers, and a record nobody edited is counted for exactly its kWh.
THEOREM ClaimsHold == MarketSpec => []ClaimsAreSound
<1>1. MarketInv => ClaimsAreSound
  BY DEF MarketInv, ClaimsAreSound
<1> QED
  BY <1>1, MarketInvariant, PTL
=============================================================================
