------------------------ MODULE CalculationRun_proofs ------------------------
(***************************************************************************)
(* Proofs about CalculationRun, for every set of records and invocations    *)
(* and every value of the budgets. Each part of the inductive invariant is  *)
(* shown stable by a lemma of its own, one step per action; the theorems    *)
(* combine them. All but the first and the last theorem are about inline    *)
(* deployments, where the platform ends an invocation at MaxDuration.       *)
(***************************************************************************)
EXTENDS CalculationRun, FiniteSetTheorems, TLAPS

\* Sets of records are finite, so they can be counted.
LEMMA SubsetCardinality ==
    ASSUME NEW S, S \subseteq Records
    PROVE  IsFiniteSet(S) /\ Cardinality(S) \in Nat
BY RecordsAssumption, FS_Subset, FS_CardinalityType

\* Types are kept by every step, whatever the deployment.
LEMMA TypeStep ==
    ASSUME TypeOK, [Next]_vars
    PROVE  TypeOK'
<1> USE BudgetAssumption
      DEF TypeOK, RunTypeOK, DataTypeOK, InvTypeOK, EnvTypeOK, Goto, Return, Steps, Callers,
          TrySteps, ChunkSteps, FinalSteps, ClaimSteps, Runnable, Terminal, NoLock, Unsized,
          AgeCap, runVars, dataVars, invVars, envVars, Live, Holds, Works
<1>1. ASSUME NEW i \in Invocations, StartRun(i) PROVE TypeOK'
  BY <1>1 DEF StartRun, Call
<1>2. ASSUME NEW i \in Invocations, ContinueRun(i) PROVE TypeOK'
  BY <1>2 DEF ContinueRun, Call
<1>3. ASSUME NEW i \in Invocations, AdvanceRun(i) PROVE TypeOK'
  BY <1>3 DEF AdvanceRun, Call
<1>4. ASSUME NEW i \in Invocations, ReclaimStale(i) PROVE TypeOK'
  BY <1>4 DEF ReclaimStale
<1>5. ASSUME NEW i \in Invocations, CheckInterruptions(i) PROVE TypeOK'
  BY <1>5 DEF CheckInterruptions
<1>6. ASSUME NEW i \in Invocations, FailExhausted(i) PROVE TypeOK'
  BY <1>6 DEF FailExhausted
<1>7. ASSUME NEW i \in Invocations, ClaimFresh(i) PROVE TypeOK'
  BY <1>7 DEF ClaimFresh
<1>8. ASSUME NEW i \in Invocations, ClaimRefused(i) PROVE TypeOK'
  BY <1>8 DEF ClaimRefused
<1>9. ASSUME NEW i \in Invocations, BeginChunk(i) PROVE TypeOK'
  BY <1>9 DEF BeginChunk
<1>10. ASSUME NEW i \in Invocations, SizeRun(i) PROVE TypeOK'
  <2>1. Cardinality(hand[i]) \in Nat
    BY SubsetCardinality
  <2> QED
    BY <1>10, <2>1 DEF SizeRun
<1>11. ASSUME NEW i \in Invocations, FailEmptyRun(i) PROVE TypeOK'
  BY <1>11 DEF FailEmptyRun
<1>12. ASSUME NEW i \in Invocations, LoadPage(i) PROVE TypeOK'
  <2>1. PICK p \in SUBSET Unprocessed : hand' = [hand EXCEPT ![i] = p]
    BY <1>12 DEF LoadPage
  <2>2. p \subseteq Records
    BY DEF Unprocessed
  <2> QED
    BY <1>12, <2>1, <2>2 DEF LoadPage
<1>13. ASSUME NEW i \in Invocations, FindNothingLeft(i) PROVE TypeOK'
  BY <1>13 DEF FindNothingLeft
<1>14. ASSUME NEW i \in Invocations, WritePage(i) PROVE TypeOK'
  <2>1. PICK reached \in SUBSET hand[i] :
          /\ rows' = InsertOnce(rows, reached)
          /\ hand' = [hand EXCEPT ![i] = reached]
          /\ Goto(i, "beat") \/ Goto(i, "beatCut")
    BY <1>14 DEF WritePage
  <2>2. rows' \in [Records -> Nat]
    BY <2>1 DEF InsertOnce
  <2> QED
    BY <1>14, <2>1, <2>2 DEF WritePage
<1>15. ASSUME NEW i \in Invocations, Heartbeat(i) PROVE TypeOK'
  <2>1. Cardinality(hand[i]) \in Nat
    BY SubsetCardinality
  <2>2. processed' \in Nat
    BY <1>15, <2>1 DEF Heartbeat
  <2> QED
    BY <1>15, <2>2 DEF Heartbeat
<1>16. ASSUME NEW i \in Invocations, PauseRun(i) PROVE TypeOK'
  BY <1>16 DEF PauseRun
<1>17. ASSUME NEW i \in Invocations, LoadRunCalculations(i) PROVE TypeOK'
  <2>1. Calculated \in SUBSET Records
    BY DEF Calculated
  <2> QED
    BY <1>17, <2>1 DEF LoadRunCalculations
<1>18. ASSUME NEW i \in Invocations, RebuildDashboard(i) PROVE TypeOK'
  BY <1>18 DEF RebuildDashboard
<1>19. ASSUME NEW i \in Invocations, WriteDerived(i) PROVE TypeOK'
  BY <1>19 DEF WriteDerived
<1>20. ASSUME NEW i \in Invocations, FindActiveRequest(i) PROVE TypeOK'
  BY <1>20 DEF FindActiveRequest
<1>21. ASSUME NEW i \in Invocations, CreateRequest(i) PROVE TypeOK'
  BY <1>21 DEF CreateRequest
<1>22. ASSUME NEW i \in Invocations, Succeed(i) PROVE TypeOK'
  BY <1>22 DEF Succeed
<1>23. ASSUME NEW i \in Invocations, Throw(i) PROVE TypeOK'
  BY <1>23 DEF Throw
<1>24. ASSUME NEW i \in Invocations, FailRun(i) PROVE TypeOK'
  BY <1>24 DEF FailRun
<1>25. ASSUME NEW i \in Invocations, ThrowInClaim(i) PROVE TypeOK'
  BY <1>25 DEF ThrowInClaim
<1>26. ASSUME NEW i \in Invocations, CallerCatch(i) PROVE TypeOK'
  BY <1>26 DEF CallerCatch
<1>27. ASSUME NEW i \in Invocations, Die(i) PROVE TypeOK'
  BY <1>27 DEF Die
<1>28. ASSUME CancelRead PROVE TypeOK'
  BY <1>28 DEF CancelRead
<1>29. ASSUME CancelWrite PROVE TypeOK'
  BY <1>29 DEF CancelWrite
<1>30. ASSUME NEW r \in Records, Approve(r) PROVE TypeOK'
  BY <1>30 DEF Approve
<1>31. ASSUME NEW r \in Records, Unapprove(r) PROVE TypeOK'
  BY <1>31 DEF Unapprove
<1>32. ASSUME Tick PROVE TypeOK'
  BY <1>32 DEF Tick, Older
<1>33. ASSUME UNCHANGED vars PROVE TypeOK'
  BY <1>33 DEF vars
<1> QED
  BY <1>1, <1>2, <1>3, <1>4, <1>5, <1>6, <1>7, <1>8, <1>9, <1>10, <1>11, <1>12, <1>13,
     <1>14,
     <1>15, <1>16, <1>17, <1>18, <1>19, <1>20, <1>21, <1>22, <1>23, <1>24, <1>25, <1>26,
        <1>27,
     <1>28, <1>29, <1>30, <1>31, <1>32, <1>33
     DEF Next, Claim, Chunk, Finalise, Failure, Catch

\* A claim is younger than whoever holds it, so it cannot go stale under a holder:
\* a stale claim has no holder, and a free one has none either.
LEMMA LeaseStep ==
    ASSUME KilledAtLimit, TypeOK, LeaseInv, [Next]_vars
    PROVE  LeaseInv'
<1> USE BudgetAssumption, LeaseAssumption
      DEF TypeOK, RunTypeOK, InvTypeOK, Goto, Return, Steps, Callers, TrySteps, ChunkSteps,
          FinalSteps, ClaimSteps, NoLock, AgeCap, Stale, runVars, dataVars, invVars,
          envVars, Live, Holds, Works, LeaseInv, ExclusiveHolder
<1>1. ASSUME NEW i \in Invocations, StartRun(i) PROVE LeaseInv'
  BY <1>1 DEF StartRun, Call
<1>2. ASSUME NEW i \in Invocations, ContinueRun(i) PROVE LeaseInv'
  BY <1>2 DEF ContinueRun, Call
<1>3. ASSUME NEW i \in Invocations, AdvanceRun(i) PROVE LeaseInv'
  BY <1>3 DEF AdvanceRun, Call
<1>4. ASSUME NEW i \in Invocations, ReclaimStale(i) PROVE LeaseInv'
  BY <1>4 DEF ReclaimStale
<1>5. ASSUME NEW i \in Invocations, CheckInterruptions(i) PROVE LeaseInv'
  BY <1>5 DEF CheckInterruptions
<1>6. ASSUME NEW i \in Invocations, FailExhausted(i) PROVE LeaseInv'
  BY <1>6 DEF FailExhausted
<1>7. ASSUME NEW i \in Invocations, ClaimFresh(i) PROVE LeaseInv'
  BY <1>7 DEF ClaimFresh
<1>8. ASSUME NEW i \in Invocations, ClaimRefused(i) PROVE LeaseInv'
  BY <1>8 DEF ClaimRefused
<1>9. ASSUME NEW i \in Invocations, BeginChunk(i) PROVE LeaseInv'
  BY <1>9 DEF BeginChunk
<1>10. ASSUME NEW i \in Invocations, SizeRun(i) PROVE LeaseInv'
  BY <1>10 DEF SizeRun
<1>11. ASSUME NEW i \in Invocations, FailEmptyRun(i) PROVE LeaseInv'
  BY <1>11 DEF FailEmptyRun
<1>12. ASSUME NEW i \in Invocations, LoadPage(i) PROVE LeaseInv'
  BY <1>12 DEF LoadPage
<1>13. ASSUME NEW i \in Invocations, FindNothingLeft(i) PROVE LeaseInv'
  BY <1>13 DEF FindNothingLeft
<1>14. ASSUME NEW i \in Invocations, WritePage(i) PROVE LeaseInv'
  BY <1>14 DEF WritePage
<1>15. ASSUME NEW i \in Invocations, Heartbeat(i) PROVE LeaseInv'
  BY <1>15 DEF Heartbeat
<1>16. ASSUME NEW i \in Invocations, PauseRun(i) PROVE LeaseInv'
  BY <1>16 DEF PauseRun
<1>17. ASSUME NEW i \in Invocations, LoadRunCalculations(i) PROVE LeaseInv'
  BY <1>17 DEF LoadRunCalculations
<1>18. ASSUME NEW i \in Invocations, RebuildDashboard(i) PROVE LeaseInv'
  BY <1>18 DEF RebuildDashboard
<1>19. ASSUME NEW i \in Invocations, WriteDerived(i) PROVE LeaseInv'
  BY <1>19 DEF WriteDerived
<1>20. ASSUME NEW i \in Invocations, FindActiveRequest(i) PROVE LeaseInv'
  BY <1>20 DEF FindActiveRequest
<1>21. ASSUME NEW i \in Invocations, CreateRequest(i) PROVE LeaseInv'
  BY <1>21 DEF CreateRequest
<1>22. ASSUME NEW i \in Invocations, Succeed(i) PROVE LeaseInv'
  BY <1>22 DEF Succeed
<1>23. ASSUME NEW i \in Invocations, Throw(i) PROVE LeaseInv'
  BY <1>23 DEF Throw
<1>24. ASSUME NEW i \in Invocations, FailRun(i) PROVE LeaseInv'
  BY <1>24 DEF FailRun
<1>25. ASSUME NEW i \in Invocations, ThrowInClaim(i) PROVE LeaseInv'
  BY <1>25 DEF ThrowInClaim
<1>26. ASSUME NEW i \in Invocations, CallerCatch(i) PROVE LeaseInv'
  BY <1>26 DEF CallerCatch
<1>27. ASSUME NEW i \in Invocations, Die(i) PROVE LeaseInv'
  BY <1>27 DEF Die
<1>28. ASSUME CancelRead PROVE LeaseInv'
  BY <1>28 DEF CancelRead
<1>29. ASSUME CancelWrite PROVE LeaseInv'
  BY <1>29 DEF CancelWrite
<1>30. ASSUME NEW r \in Records, Approve(r) PROVE LeaseInv'
  BY <1>30 DEF Approve
<1>31. ASSUME NEW r \in Records, Unapprove(r) PROVE LeaseInv'
  BY <1>31 DEF Unapprove
<1>32. ASSUME Tick PROVE LeaseInv'
  BY <1>32 DEF Tick, Older
<1>33. ASSUME UNCHANGED vars PROVE LeaseInv'
  BY <1>33 DEF vars
<1> QED
  BY <1>1, <1>2, <1>3, <1>4, <1>5, <1>6, <1>7, <1>8, <1>9, <1>10, <1>11, <1>12, <1>13,
     <1>14,
     <1>15, <1>16, <1>17, <1>18, <1>19, <1>20, <1>21, <1>22, <1>23, <1>24, <1>25, <1>26,
        <1>27,
     <1>28, <1>29, <1>30, <1>31, <1>32, <1>33
     DEF Next, Claim, Chunk, Finalise, Failure, Catch

\* Taking over counts before it is checked, and nothing works between the two.
LEMMA CapStep ==
    ASSUME KilledAtLimit, TypeOK, LeaseInv, CapInv, [Next]_vars
    PROVE  CapInv'
<1> USE BudgetAssumption, LeaseAssumption
      DEF TypeOK, RunTypeOK, InvTypeOK, Goto, Return, Steps, Callers, TrySteps, ChunkSteps,
          FinalSteps, ClaimSteps, NoLock, AgeCap, Stale, Runnable, Terminal, runVars,
          dataVars, invVars, envVars, Live, Holds, Works, LeaseInv, ExclusiveHolder, CapInv,
          NoWorkBeyondCap
<1>1. ASSUME NEW i \in Invocations, StartRun(i) PROVE CapInv'
  BY <1>1 DEF StartRun, Call
<1>2. ASSUME NEW i \in Invocations, ContinueRun(i) PROVE CapInv'
  BY <1>2 DEF ContinueRun, Call
<1>3. ASSUME NEW i \in Invocations, AdvanceRun(i) PROVE CapInv'
  BY <1>3 DEF AdvanceRun, Call
<1>4. ASSUME NEW i \in Invocations, ReclaimStale(i) PROVE CapInv'
  BY <1>4 DEF ReclaimStale
<1>5. ASSUME NEW i \in Invocations, CheckInterruptions(i) PROVE CapInv'
  BY <1>5 DEF CheckInterruptions
<1>6. ASSUME NEW i \in Invocations, FailExhausted(i) PROVE CapInv'
  BY <1>6 DEF FailExhausted
<1>7. ASSUME NEW i \in Invocations, ClaimFresh(i) PROVE CapInv'
  BY <1>7 DEF ClaimFresh
<1>8. ASSUME NEW i \in Invocations, ClaimRefused(i) PROVE CapInv'
  BY <1>8 DEF ClaimRefused
<1>9. ASSUME NEW i \in Invocations, BeginChunk(i) PROVE CapInv'
  BY <1>9 DEF BeginChunk
<1>10. ASSUME NEW i \in Invocations, SizeRun(i) PROVE CapInv'
  BY <1>10 DEF SizeRun
<1>11. ASSUME NEW i \in Invocations, FailEmptyRun(i) PROVE CapInv'
  BY <1>11 DEF FailEmptyRun
<1>12. ASSUME NEW i \in Invocations, LoadPage(i) PROVE CapInv'
  BY <1>12 DEF LoadPage
<1>13. ASSUME NEW i \in Invocations, FindNothingLeft(i) PROVE CapInv'
  BY <1>13 DEF FindNothingLeft
<1>14. ASSUME NEW i \in Invocations, WritePage(i) PROVE CapInv'
  BY <1>14 DEF WritePage
<1>15. ASSUME NEW i \in Invocations, Heartbeat(i) PROVE CapInv'
  BY <1>15 DEF Heartbeat
<1>16. ASSUME NEW i \in Invocations, PauseRun(i) PROVE CapInv'
  BY <1>16 DEF PauseRun
<1>17. ASSUME NEW i \in Invocations, LoadRunCalculations(i) PROVE CapInv'
  BY <1>17 DEF LoadRunCalculations
<1>18. ASSUME NEW i \in Invocations, RebuildDashboard(i) PROVE CapInv'
  BY <1>18 DEF RebuildDashboard
<1>19. ASSUME NEW i \in Invocations, WriteDerived(i) PROVE CapInv'
  BY <1>19 DEF WriteDerived
<1>20. ASSUME NEW i \in Invocations, FindActiveRequest(i) PROVE CapInv'
  BY <1>20 DEF FindActiveRequest
<1>21. ASSUME NEW i \in Invocations, CreateRequest(i) PROVE CapInv'
  BY <1>21 DEF CreateRequest
<1>22. ASSUME NEW i \in Invocations, Succeed(i) PROVE CapInv'
  BY <1>22 DEF Succeed
<1>23. ASSUME NEW i \in Invocations, Throw(i) PROVE CapInv'
  BY <1>23 DEF Throw
<1>24. ASSUME NEW i \in Invocations, FailRun(i) PROVE CapInv'
  BY <1>24 DEF FailRun
<1>25. ASSUME NEW i \in Invocations, ThrowInClaim(i) PROVE CapInv'
  BY <1>25 DEF ThrowInClaim
<1>26. ASSUME NEW i \in Invocations, CallerCatch(i) PROVE CapInv'
  BY <1>26 DEF CallerCatch
<1>27. ASSUME NEW i \in Invocations, Die(i) PROVE CapInv'
  BY <1>27 DEF Die
<1>28. ASSUME CancelRead PROVE CapInv'
  BY <1>28 DEF CancelRead
<1>29. ASSUME CancelWrite PROVE CapInv'
  BY <1>29 DEF CancelWrite
<1>30. ASSUME NEW r \in Records, Approve(r) PROVE CapInv'
  BY <1>30 DEF Approve
<1>31. ASSUME NEW r \in Records, Unapprove(r) PROVE CapInv'
  BY <1>31 DEF Unapprove
<1>32. ASSUME Tick PROVE CapInv'
  BY <1>32 DEF Tick, Older
<1>33. ASSUME UNCHANGED vars PROVE CapInv'
  BY <1>33 DEF vars
<1> QED
  BY <1>1, <1>2, <1>3, <1>4, <1>5, <1>6, <1>7, <1>8, <1>9, <1>10, <1>11, <1>12, <1>13,
     <1>14,
     <1>15, <1>16, <1>17, <1>18, <1>19, <1>20, <1>21, <1>22, <1>23, <1>24, <1>25, <1>26,
        <1>27,
     <1>28, <1>29, <1>30, <1>31, <1>32, <1>33
     DEF Next, Claim, Chunk, Finalise, Failure, Catch

\* A claim that has no holder was left by a death no reclaim has counted.
LEMMA DeathStep ==
    ASSUME KilledAtLimit, TypeOK, LeaseInv, DeathInv, [Next]_vars
    PROVE  DeathInv'
<1> USE BudgetAssumption, LeaseAssumption
      DEF TypeOK, RunTypeOK, InvTypeOK, Goto, Return, Steps, Callers, TrySteps, ChunkSteps,
          FinalSteps, ClaimSteps, NoLock, AgeCap, Stale, Runnable, Terminal, runVars,
          dataVars, invVars, envVars, Live, Holds, Works, LeaseInv, ExclusiveHolder,
          EnvTypeOK, DeathInv, InterruptionsAreDeaths
<1>1. ASSUME NEW i \in Invocations, StartRun(i) PROVE DeathInv'
  BY <1>1 DEF StartRun, Call
<1>2. ASSUME NEW i \in Invocations, ContinueRun(i) PROVE DeathInv'
  BY <1>2 DEF ContinueRun, Call
<1>3. ASSUME NEW i \in Invocations, AdvanceRun(i) PROVE DeathInv'
  BY <1>3 DEF AdvanceRun, Call
<1>4. ASSUME NEW i \in Invocations, ReclaimStale(i) PROVE DeathInv'
  BY <1>4 DEF ReclaimStale
<1>5. ASSUME NEW i \in Invocations, CheckInterruptions(i) PROVE DeathInv'
  BY <1>5 DEF CheckInterruptions
<1>6. ASSUME NEW i \in Invocations, FailExhausted(i) PROVE DeathInv'
  BY <1>6 DEF FailExhausted
<1>7. ASSUME NEW i \in Invocations, ClaimFresh(i) PROVE DeathInv'
  BY <1>7 DEF ClaimFresh
<1>8. ASSUME NEW i \in Invocations, ClaimRefused(i) PROVE DeathInv'
  BY <1>8 DEF ClaimRefused
<1>9. ASSUME NEW i \in Invocations, BeginChunk(i) PROVE DeathInv'
  BY <1>9 DEF BeginChunk
<1>10. ASSUME NEW i \in Invocations, SizeRun(i) PROVE DeathInv'
  BY <1>10 DEF SizeRun
<1>11. ASSUME NEW i \in Invocations, FailEmptyRun(i) PROVE DeathInv'
  BY <1>11 DEF FailEmptyRun
<1>12. ASSUME NEW i \in Invocations, LoadPage(i) PROVE DeathInv'
  BY <1>12 DEF LoadPage
<1>13. ASSUME NEW i \in Invocations, FindNothingLeft(i) PROVE DeathInv'
  BY <1>13 DEF FindNothingLeft
<1>14. ASSUME NEW i \in Invocations, WritePage(i) PROVE DeathInv'
  BY <1>14 DEF WritePage
<1>15. ASSUME NEW i \in Invocations, Heartbeat(i) PROVE DeathInv'
  BY <1>15 DEF Heartbeat
<1>16. ASSUME NEW i \in Invocations, PauseRun(i) PROVE DeathInv'
  BY <1>16 DEF PauseRun
<1>17. ASSUME NEW i \in Invocations, LoadRunCalculations(i) PROVE DeathInv'
  BY <1>17 DEF LoadRunCalculations
<1>18. ASSUME NEW i \in Invocations, RebuildDashboard(i) PROVE DeathInv'
  BY <1>18 DEF RebuildDashboard
<1>19. ASSUME NEW i \in Invocations, WriteDerived(i) PROVE DeathInv'
  BY <1>19 DEF WriteDerived
<1>20. ASSUME NEW i \in Invocations, FindActiveRequest(i) PROVE DeathInv'
  BY <1>20 DEF FindActiveRequest
<1>21. ASSUME NEW i \in Invocations, CreateRequest(i) PROVE DeathInv'
  BY <1>21 DEF CreateRequest
<1>22. ASSUME NEW i \in Invocations, Succeed(i) PROVE DeathInv'
  BY <1>22 DEF Succeed
<1>23. ASSUME NEW i \in Invocations, Throw(i) PROVE DeathInv'
  BY <1>23 DEF Throw
<1>24. ASSUME NEW i \in Invocations, FailRun(i) PROVE DeathInv'
  BY <1>24 DEF FailRun
<1>25. ASSUME NEW i \in Invocations, ThrowInClaim(i) PROVE DeathInv'
  BY <1>25 DEF ThrowInClaim
<1>26. ASSUME NEW i \in Invocations, CallerCatch(i) PROVE DeathInv'
  BY <1>26 DEF CallerCatch
<1>27. ASSUME NEW i \in Invocations, Die(i) PROVE DeathInv'
  BY <1>27 DEF Die
<1>28. ASSUME CancelRead PROVE DeathInv'
  BY <1>28 DEF CancelRead
<1>29. ASSUME CancelWrite PROVE DeathInv'
  BY <1>29 DEF CancelWrite
<1>30. ASSUME NEW r \in Records, Approve(r) PROVE DeathInv'
  BY <1>30 DEF Approve
<1>31. ASSUME NEW r \in Records, Unapprove(r) PROVE DeathInv'
  BY <1>31 DEF Unapprove
<1>32. ASSUME Tick PROVE DeathInv'
  BY <1>32 DEF Tick, Older
<1>33. ASSUME UNCHANGED vars PROVE DeathInv'
  BY <1>33 DEF vars
<1> QED
  BY <1>1, <1>2, <1>3, <1>4, <1>5, <1>6, <1>7, <1>8, <1>9, <1>10, <1>11, <1>12, <1>13,
     <1>14,
     <1>15, <1>16, <1>17, <1>18, <1>19, <1>20, <1>21, <1>22, <1>23, <1>24, <1>25, <1>26,
        <1>27,
     <1>28, <1>29, <1>30, <1>31, <1>32, <1>33
     DEF Next, Claim, Chunk, Finalise, Failure, Catch

\* From the empty page on, the run's rows cannot change under the invocation that
\* finalises, so what it publishes is all of them.
LEMMA FigureStep ==
    ASSUME KilledAtLimit, TypeOK, LeaseInv, FigureInv, [Next]_vars
    PROVE  FigureInv'
<1> USE BudgetAssumption, LeaseAssumption
      DEF TypeOK, RunTypeOK, InvTypeOK, Goto, Return, Steps, Callers, TrySteps, ChunkSteps,
          FinalSteps, ClaimSteps, NoLock, AgeCap, Stale, Runnable, Terminal, runVars,
          dataVars, invVars, envVars, Live, Holds, Works, LeaseInv, ExclusiveHolder,
          DataTypeOK, EnvTypeOK, FigureInv, Finalising, Calculated, Unprocessed
<1>1. ASSUME NEW i \in Invocations, StartRun(i) PROVE FigureInv'
  BY <1>1 DEF StartRun, Call
<1>2. ASSUME NEW i \in Invocations, ContinueRun(i) PROVE FigureInv'
  BY <1>2 DEF ContinueRun, Call
<1>3. ASSUME NEW i \in Invocations, AdvanceRun(i) PROVE FigureInv'
  BY <1>3 DEF AdvanceRun, Call
<1>4. ASSUME NEW i \in Invocations, ReclaimStale(i) PROVE FigureInv'
  BY <1>4 DEF ReclaimStale
<1>5. ASSUME NEW i \in Invocations, CheckInterruptions(i) PROVE FigureInv'
  BY <1>5 DEF CheckInterruptions
<1>6. ASSUME NEW i \in Invocations, FailExhausted(i) PROVE FigureInv'
  BY <1>6 DEF FailExhausted
<1>7. ASSUME NEW i \in Invocations, ClaimFresh(i) PROVE FigureInv'
  BY <1>7 DEF ClaimFresh
<1>8. ASSUME NEW i \in Invocations, ClaimRefused(i) PROVE FigureInv'
  BY <1>8 DEF ClaimRefused
<1>9. ASSUME NEW i \in Invocations, BeginChunk(i) PROVE FigureInv'
  BY <1>9 DEF BeginChunk
<1>10. ASSUME NEW i \in Invocations, SizeRun(i) PROVE FigureInv'
  BY <1>10 DEF SizeRun
<1>11. ASSUME NEW i \in Invocations, FailEmptyRun(i) PROVE FigureInv'
  BY <1>11 DEF FailEmptyRun
<1>12. ASSUME NEW i \in Invocations, LoadPage(i) PROVE FigureInv'
  BY <1>12 DEF LoadPage
<1>13. ASSUME NEW i \in Invocations, FindNothingLeft(i) PROVE FigureInv'
  BY <1>13 DEF FindNothingLeft
<1>14. ASSUME NEW i \in Invocations, WritePage(i) PROVE FigureInv'
  <2>1. PICK reached \in SUBSET hand[i] :
          /\ rows' = InsertOnce(rows, reached)
          /\ hand' = [hand EXCEPT ![i] = reached]
          /\ Goto(i, "beat") \/ Goto(i, "beatCut")
    BY <1>14 DEF WritePage
  <2>2. Calculated \subseteq Calculated'
    BY <2>1 DEF InsertOnce
  <2> QED
    BY <1>14, <2>1, <2>2 DEF WritePage
<1>15. ASSUME NEW i \in Invocations, Heartbeat(i) PROVE FigureInv'
  BY <1>15 DEF Heartbeat
<1>16. ASSUME NEW i \in Invocations, PauseRun(i) PROVE FigureInv'
  BY <1>16 DEF PauseRun
<1>17. ASSUME NEW i \in Invocations, LoadRunCalculations(i) PROVE FigureInv'
  BY <1>17 DEF LoadRunCalculations
<1>18. ASSUME NEW i \in Invocations, RebuildDashboard(i) PROVE FigureInv'
  BY <1>18 DEF RebuildDashboard
<1>19. ASSUME NEW i \in Invocations, WriteDerived(i) PROVE FigureInv'
  BY <1>19 DEF WriteDerived
<1>20. ASSUME NEW i \in Invocations, FindActiveRequest(i) PROVE FigureInv'
  BY <1>20 DEF FindActiveRequest
<1>21. ASSUME NEW i \in Invocations, CreateRequest(i) PROVE FigureInv'
  BY <1>21 DEF CreateRequest
<1>22. ASSUME NEW i \in Invocations, Succeed(i) PROVE FigureInv'
  BY <1>22 DEF Succeed
<1>23. ASSUME NEW i \in Invocations, Throw(i) PROVE FigureInv'
  BY <1>23 DEF Throw
<1>24. ASSUME NEW i \in Invocations, FailRun(i) PROVE FigureInv'
  BY <1>24 DEF FailRun
<1>25. ASSUME NEW i \in Invocations, ThrowInClaim(i) PROVE FigureInv'
  BY <1>25 DEF ThrowInClaim
<1>26. ASSUME NEW i \in Invocations, CallerCatch(i) PROVE FigureInv'
  BY <1>26 DEF CallerCatch
<1>27. ASSUME NEW i \in Invocations, Die(i) PROVE FigureInv'
  BY <1>27 DEF Die
<1>28. ASSUME CancelRead PROVE FigureInv'
  BY <1>28 DEF CancelRead
<1>29. ASSUME CancelWrite PROVE FigureInv'
  BY <1>29 DEF CancelWrite
<1>30. ASSUME NEW r \in Records, Approve(r) PROVE FigureInv'
  BY <1>30 DEF Approve
<1>31. ASSUME NEW r \in Records, Unapprove(r) PROVE FigureInv'
  BY <1>31 DEF Unapprove
<1>32. ASSUME Tick PROVE FigureInv'
  BY <1>32 DEF Tick, Older
<1>33. ASSUME UNCHANGED vars PROVE FigureInv'
  BY <1>33 DEF vars
<1> QED
  BY <1>1, <1>2, <1>3, <1>4, <1>5, <1>6, <1>7, <1>8, <1>9, <1>10, <1>11, <1>12, <1>13,
     <1>14,
     <1>15, <1>16, <1>17, <1>18, <1>19, <1>20, <1>21, <1>22, <1>23, <1>24, <1>25, <1>26,
        <1>27,
     <1>28, <1>29, <1>30, <1>31, <1>32, <1>33
     DEF Next, Claim, Chunk, Finalise, Failure, Catch

\* A page holds records without rows; no other invocation can have written them.
LEMMA ProgressStep ==
    ASSUME KilledAtLimit, TypeOK, LeaseInv, ProgressInv, [Next]_vars
    PROVE  ProgressInv'
<1> USE BudgetAssumption, LeaseAssumption
      DEF TypeOK, RunTypeOK, InvTypeOK, Goto, Return, Steps, Callers, TrySteps, ChunkSteps,
          FinalSteps, ClaimSteps, NoLock, AgeCap, Stale, Runnable, Terminal, runVars,
          dataVars, invVars, envVars, Live, Holds, Works, LeaseInv, ExclusiveHolder,
          DataTypeOK, EnvTypeOK, ProgressInv, ProgressIsBacked, Calculated, Unprocessed
<1>1. ASSUME NEW i \in Invocations, StartRun(i) PROVE ProgressInv'
  BY <1>1 DEF StartRun, Call
<1>2. ASSUME NEW i \in Invocations, ContinueRun(i) PROVE ProgressInv'
  BY <1>2 DEF ContinueRun, Call
<1>3. ASSUME NEW i \in Invocations, AdvanceRun(i) PROVE ProgressInv'
  BY <1>3 DEF AdvanceRun, Call
<1>4. ASSUME NEW i \in Invocations, ReclaimStale(i) PROVE ProgressInv'
  BY <1>4 DEF ReclaimStale
<1>5. ASSUME NEW i \in Invocations, CheckInterruptions(i) PROVE ProgressInv'
  BY <1>5 DEF CheckInterruptions
<1>6. ASSUME NEW i \in Invocations, FailExhausted(i) PROVE ProgressInv'
  BY <1>6 DEF FailExhausted
<1>7. ASSUME NEW i \in Invocations, ClaimFresh(i) PROVE ProgressInv'
  BY <1>7 DEF ClaimFresh
<1>8. ASSUME NEW i \in Invocations, ClaimRefused(i) PROVE ProgressInv'
  BY <1>8 DEF ClaimRefused
<1>9. ASSUME NEW i \in Invocations, BeginChunk(i) PROVE ProgressInv'
  BY <1>9 DEF BeginChunk
<1>10. ASSUME NEW i \in Invocations, SizeRun(i) PROVE ProgressInv'
  BY <1>10 DEF SizeRun
<1>11. ASSUME NEW i \in Invocations, FailEmptyRun(i) PROVE ProgressInv'
  BY <1>11 DEF FailEmptyRun
<1>12. ASSUME NEW i \in Invocations, LoadPage(i) PROVE ProgressInv'
  BY <1>12 DEF LoadPage
<1>13. ASSUME NEW i \in Invocations, FindNothingLeft(i) PROVE ProgressInv'
  BY <1>13 DEF FindNothingLeft
<1>14. ASSUME NEW i \in Invocations, WritePage(i) PROVE ProgressInv'
  <2>1. PICK reached \in SUBSET hand[i] :
          /\ rows' = InsertOnce(rows, reached)
          /\ hand' = [hand EXCEPT ![i] = reached]
          /\ Goto(i, "beat") \/ Goto(i, "beatCut")
    BY <1>14 DEF WritePage
  <2>2. reached \cap Calculated = {}
    BY <1>14, <2>1 DEF WritePage
  <2>3. Calculated' = Calculated \cup reached
    BY <2>1 DEF InsertOnce
  <2>4. Cardinality(Calculated') = Cardinality(Calculated) + Cardinality(reached)
    <3>1. Calculated \subseteq Records /\ reached \subseteq Records
      BY <2>1
    <3>2. IsFiniteSet(Calculated) /\ IsFiniteSet(reached)
      BY <3>1, RecordsAssumption, FS_Subset
    <3> HIDE DEF Calculated
    <3>3. Cardinality(Calculated \cap reached) = 0
      BY <2>2, FS_EmptySet
    <3>4. Cardinality(Calculated \cup reached)
            = Cardinality(Calculated) + Cardinality(reached) - Cardinality(Calculated \cap
               reached)
      BY <3>2, FS_Union
    <3>5. Cardinality(Calculated) \in Nat /\ Cardinality(reached) \in Nat
      BY <3>2, FS_CardinalityType
    <3> QED
      BY <2>3, <3>3, <3>4, <3>5
  <2>5. Cardinality(reached) \in Nat /\ Cardinality(Calculated) \in Nat
    BY RecordsAssumption, FS_Subset, FS_CardinalityType
  <2>6. \A j \in Invocations \ {i} : pc'[j] \notin {"write", "beat", "beatCut"}
    BY <1>14, <2>1 DEF WritePage
  <2>7. processed' = processed /\ hand'[i] = reached /\ pc'[i] \in {"beat", "beatCut"}
    BY <1>14, <2>1 DEF WritePage
  <2> HIDE DEF Calculated
  <2> QED
    BY <2>3, <2>4, <2>5, <2>6, <2>7
<1>15. ASSUME NEW i \in Invocations, Heartbeat(i) PROVE ProgressInv'
  BY <1>15 DEF Heartbeat
<1>16. ASSUME NEW i \in Invocations, PauseRun(i) PROVE ProgressInv'
  BY <1>16 DEF PauseRun
<1>17. ASSUME NEW i \in Invocations, LoadRunCalculations(i) PROVE ProgressInv'
  BY <1>17 DEF LoadRunCalculations
<1>18. ASSUME NEW i \in Invocations, RebuildDashboard(i) PROVE ProgressInv'
  BY <1>18 DEF RebuildDashboard
<1>19. ASSUME NEW i \in Invocations, WriteDerived(i) PROVE ProgressInv'
  BY <1>19 DEF WriteDerived
<1>20. ASSUME NEW i \in Invocations, FindActiveRequest(i) PROVE ProgressInv'
  BY <1>20 DEF FindActiveRequest
<1>21. ASSUME NEW i \in Invocations, CreateRequest(i) PROVE ProgressInv'
  BY <1>21 DEF CreateRequest
<1>22. ASSUME NEW i \in Invocations, Succeed(i) PROVE ProgressInv'
  BY <1>22 DEF Succeed
<1>23. ASSUME NEW i \in Invocations, Throw(i) PROVE ProgressInv'
  BY <1>23 DEF Throw
<1>24. ASSUME NEW i \in Invocations, FailRun(i) PROVE ProgressInv'
  BY <1>24 DEF FailRun
<1>25. ASSUME NEW i \in Invocations, ThrowInClaim(i) PROVE ProgressInv'
  BY <1>25 DEF ThrowInClaim
<1>26. ASSUME NEW i \in Invocations, CallerCatch(i) PROVE ProgressInv'
  BY <1>26 DEF CallerCatch
<1>27. ASSUME NEW i \in Invocations, Die(i) PROVE ProgressInv'
  BY <1>27 DEF Die
<1>28. ASSUME CancelRead PROVE ProgressInv'
  BY <1>28 DEF CancelRead
<1>29. ASSUME CancelWrite PROVE ProgressInv'
  BY <1>29 DEF CancelWrite
<1>30. ASSUME NEW r \in Records, Approve(r) PROVE ProgressInv'
  BY <1>30 DEF Approve
<1>31. ASSUME NEW r \in Records, Unapprove(r) PROVE ProgressInv'
  BY <1>31 DEF Unapprove
<1>32. ASSUME Tick PROVE ProgressInv'
  BY <1>32 DEF Tick, Older
<1>33. ASSUME UNCHANGED vars PROVE ProgressInv'
  BY <1>33 DEF vars
<1> QED
  BY <1>1, <1>2, <1>3, <1>4, <1>5, <1>6, <1>7, <1>8, <1>9, <1>10, <1>11, <1>12, <1>13,
     <1>14,
     <1>15, <1>16, <1>17, <1>18, <1>19, <1>20, <1>21, <1>22, <1>23, <1>24, <1>25, <1>26,
        <1>27,
     <1>28, <1>29, <1>30, <1>31, <1>32, <1>33
     DEF Next, Claim, Chunk, Finalise, Failure, Catch

\* Nobody else creates a request between the look and the create.
LEMMA RequestStep ==
    ASSUME KilledAtLimit, TypeOK, LeaseInv, RequestInv, [Next]_vars
    PROVE  RequestInv'
<1> USE BudgetAssumption, LeaseAssumption
      DEF TypeOK, RunTypeOK, InvTypeOK, Goto, Return, Steps, Callers, TrySteps, ChunkSteps,
          FinalSteps, ClaimSteps, NoLock, AgeCap, Stale, Runnable, Terminal, runVars,
          dataVars, invVars, envVars, Live, Holds, Works, LeaseInv, ExclusiveHolder,
          DataTypeOK, RequestInv, OneSupplierRequest
<1>1. ASSUME NEW i \in Invocations, StartRun(i) PROVE RequestInv'
  BY <1>1 DEF StartRun, Call
<1>2. ASSUME NEW i \in Invocations, ContinueRun(i) PROVE RequestInv'
  BY <1>2 DEF ContinueRun, Call
<1>3. ASSUME NEW i \in Invocations, AdvanceRun(i) PROVE RequestInv'
  BY <1>3 DEF AdvanceRun, Call
<1>4. ASSUME NEW i \in Invocations, ReclaimStale(i) PROVE RequestInv'
  BY <1>4 DEF ReclaimStale
<1>5. ASSUME NEW i \in Invocations, CheckInterruptions(i) PROVE RequestInv'
  BY <1>5 DEF CheckInterruptions
<1>6. ASSUME NEW i \in Invocations, FailExhausted(i) PROVE RequestInv'
  BY <1>6 DEF FailExhausted
<1>7. ASSUME NEW i \in Invocations, ClaimFresh(i) PROVE RequestInv'
  BY <1>7 DEF ClaimFresh
<1>8. ASSUME NEW i \in Invocations, ClaimRefused(i) PROVE RequestInv'
  BY <1>8 DEF ClaimRefused
<1>9. ASSUME NEW i \in Invocations, BeginChunk(i) PROVE RequestInv'
  BY <1>9 DEF BeginChunk
<1>10. ASSUME NEW i \in Invocations, SizeRun(i) PROVE RequestInv'
  BY <1>10 DEF SizeRun
<1>11. ASSUME NEW i \in Invocations, FailEmptyRun(i) PROVE RequestInv'
  BY <1>11 DEF FailEmptyRun
<1>12. ASSUME NEW i \in Invocations, LoadPage(i) PROVE RequestInv'
  BY <1>12 DEF LoadPage
<1>13. ASSUME NEW i \in Invocations, FindNothingLeft(i) PROVE RequestInv'
  BY <1>13 DEF FindNothingLeft
<1>14. ASSUME NEW i \in Invocations, WritePage(i) PROVE RequestInv'
  BY <1>14 DEF WritePage
<1>15. ASSUME NEW i \in Invocations, Heartbeat(i) PROVE RequestInv'
  BY <1>15 DEF Heartbeat
<1>16. ASSUME NEW i \in Invocations, PauseRun(i) PROVE RequestInv'
  BY <1>16 DEF PauseRun
<1>17. ASSUME NEW i \in Invocations, LoadRunCalculations(i) PROVE RequestInv'
  BY <1>17 DEF LoadRunCalculations
<1>18. ASSUME NEW i \in Invocations, RebuildDashboard(i) PROVE RequestInv'
  BY <1>18 DEF RebuildDashboard
<1>19. ASSUME NEW i \in Invocations, WriteDerived(i) PROVE RequestInv'
  BY <1>19 DEF WriteDerived
<1>20. ASSUME NEW i \in Invocations, FindActiveRequest(i) PROVE RequestInv'
  BY <1>20 DEF FindActiveRequest
<1>21. ASSUME NEW i \in Invocations, CreateRequest(i) PROVE RequestInv'
  BY <1>21 DEF CreateRequest
<1>22. ASSUME NEW i \in Invocations, Succeed(i) PROVE RequestInv'
  BY <1>22 DEF Succeed
<1>23. ASSUME NEW i \in Invocations, Throw(i) PROVE RequestInv'
  BY <1>23 DEF Throw
<1>24. ASSUME NEW i \in Invocations, FailRun(i) PROVE RequestInv'
  BY <1>24 DEF FailRun
<1>25. ASSUME NEW i \in Invocations, ThrowInClaim(i) PROVE RequestInv'
  BY <1>25 DEF ThrowInClaim
<1>26. ASSUME NEW i \in Invocations, CallerCatch(i) PROVE RequestInv'
  BY <1>26 DEF CallerCatch
<1>27. ASSUME NEW i \in Invocations, Die(i) PROVE RequestInv'
  BY <1>27 DEF Die
<1>28. ASSUME CancelRead PROVE RequestInv'
  BY <1>28 DEF CancelRead
<1>29. ASSUME CancelWrite PROVE RequestInv'
  BY <1>29 DEF CancelWrite
<1>30. ASSUME NEW r \in Records, Approve(r) PROVE RequestInv'
  BY <1>30 DEF Approve
<1>31. ASSUME NEW r \in Records, Unapprove(r) PROVE RequestInv'
  BY <1>31 DEF Unapprove
<1>32. ASSUME Tick PROVE RequestInv'
  BY <1>32 DEF Tick, Older
<1>33. ASSUME UNCHANGED vars PROVE RequestInv'
  BY <1>33 DEF vars
<1> QED
  BY <1>1, <1>2, <1>3, <1>4, <1>5, <1>6, <1>7, <1>8, <1>9, <1>10, <1>11, <1>12, <1>13,
     <1>14,
     <1>15, <1>16, <1>17, <1>18, <1>19, <1>20, <1>21, <1>22, <1>23, <1>24, <1>25, <1>26,
        <1>27,
     <1>28, <1>29, <1>30, <1>31, <1>32, <1>33
     DEF Next, Claim, Chunk, Finalise, Failure, Catch

---------------------------------------------------------------------------
(* The invariant of an inline deployment *)

RunInv ==
    TypeOK /\ LeaseInv /\ CapInv /\ DeathInv /\ FigureInv /\ ProgressInv /\ RequestInv

\* The initial state, a run just created, satisfies every part.
LEMMA RunInvInit ==
    ASSUME Init
    PROVE  RunInv
<1> USE BudgetAssumption DEF Init
<1>1. TypeOK
  <2>1. RunTypeOK /\ DataTypeOK /\ EnvTypeOK
    BY DEF RunTypeOK, DataTypeOK, EnvTypeOK, Runnable
  <2>2. InvTypeOK
    BY DEF InvTypeOK, Steps, Callers, AgeCap
  <2> QED
    BY <2>1, <2>2 DEF TypeOK
<1>2. LeaseInv
  BY DEF LeaseInv, ExclusiveHolder, Holds, ClaimSteps, TrySteps, ChunkSteps, FinalSteps
<1>3. CapInv
  BY DEF CapInv, NoWorkBeyondCap, Works, TrySteps, ChunkSteps, FinalSteps
<1>4. DeathInv
  BY DEF DeathInv, InterruptionsAreDeaths
<1>5. FigureInv
  BY DEF FigureInv, Finalising
<1>6. ProgressInv
  <2>1. Calculated = {}
    BY DEF Calculated
  <2>2. Cardinality(Calculated) = 0
    BY <2>1, FS_EmptySet
  <2> QED
    BY <2>2 DEF ProgressInv, ProgressIsBacked
<1>7. RequestInv
  BY DEF RequestInv, OneSupplierRequest
<1> QED
  BY <1>1, <1>2, <1>3, <1>4, <1>5, <1>6, <1>7 DEF RunInv

\* Every step of an inline deployment keeps every part.
LEMMA RunInvStep ==
    ASSUME KilledAtLimit, RunInv, [Next]_vars
    PROVE  RunInv'
BY TypeStep, LeaseStep, CapStep, DeathStep, FigureStep, ProgressStep, RequestStep DEF RunInv

\* Every reachable state is well typed, whatever the deployment.
THEOREM TypeCorrect == Spec => []TypeOK
<1>1. Init => TypeOK
  BY RunInvInit DEF RunInv
<1>2. TypeOK /\ [Next]_vars => TypeOK'
  BY TypeStep
<1> QED
  BY <1>1, <1>2, PTL DEF Spec

\* Every reachable state of an inline deployment satisfies the invariant.
THEOREM InlineInvariant ==
    ASSUME KilledAtLimit
    PROVE  Spec => []RunInv
<1>1. Init => RunInv
  BY RunInvInit
<1>2. RunInv /\ [Next]_vars => RunInv'
  BY RunInvStep
<1> QED
  BY <1>1, <1>2, PTL DEF Spec

\* At most one invocation ever works on the run, although the claim (claimRun) names
\* no owner and its holder never checks that it still holds it.
THEOREM Exclusion ==
    ASSUME KilledAtLimit
    PROVE  Spec => []ExclusiveHolder
<1>1. RunInv => ExclusiveHolder
  BY DEF RunInv, LeaseInv
<1> QED
  BY <1>1, InlineInvariant, PTL

\* No invocation works on a run that has been interrupted MAX_INTERRUPTED_ATTEMPTS
\* times: the counter of claimRun is checked before every chunk that follows a reclaim.
THEOREM InterruptionCap ==
    ASSUME KilledAtLimit
    PROVE  Spec => []NoWorkBeyondCap
<1>1. RunInv => NoWorkBeyondCap
  BY DEF RunInv, CapInv
<1> QED
  BY <1>1, InlineInvariant, PTL

\* interruptedAttempts never exceeds the number of invocations that died holding the
\* claim: pauses, refused claims and failures are not counted.
THEOREM OnlyDeathsCount ==
    ASSUME KilledAtLimit
    PROVE  Spec => []InterruptionsAreDeaths
<1>1. RunInv => InterruptionsAreDeaths
  BY DEF RunInv, DeathInv
<1> QED
  BY <1>1, InlineInvariant, PTL

\* A succeeded run shows exactly its own calculations, in the dashboard and in the
\* figures derived from it (the finalisation of processOneChunk).
THEOREM PublishesItsRows ==
    ASSUME KilledAtLimit
    PROVE  Spec => []SucceededPublishesItsRows
<1>1. RunInv => SucceededPublishesItsRows
  BY DEF RunInv, FigureInv, SucceededPublishesItsRows
<1> QED
  BY <1>1, InlineInvariant, PTL

\* No record that was approved at sizing, and stayed approved, is missing from a run
\* that succeeded, whatever interrupted it.
THEOREM CoversDue ==
    ASSUME KilledAtLimit
    PROVE  Spec => []SucceededCoversDue
<1>1. RunInv => SucceededCoversDue
  BY DEF RunInv, FigureInv, SucceededCoversDue
<1> QED
  BY <1>1, InlineInvariant, PTL

\* processedRecordCount never runs ahead of the rows, although the two are written by
\* separate statements.
THEOREM ProgressBacked ==
    ASSUME KilledAtLimit
    PROVE  Spec => []ProgressIsBacked
<1>1. RunInv => ProgressIsBacked
  BY DEF RunInv, ProgressInv
<1> QED
  BY <1>1, InlineInvariant, PTL

\* A run that finalises twice asks a supplier once: the find-then-create of
\* autoCreateSupplierDataRequests is protected by the claim.
THEOREM NoSecondRequest ==
    ASSUME KilledAtLimit
    PROVE  Spec => []OneSupplierRequest
<1>1. RunInv => OneSupplierRequest
  BY DEF RunInv, RequestInv
<1> QED
  BY <1>1, InlineInvariant, PTL

\* The dashboard never loses a record of the run: a second finalisation publishes at
\* least what the first did.
THEOREM FiguresGrow ==
    ASSUME KilledAtLimit
    PROVE  Spec => FiguresNeverShrink
<1>1. ASSUME RunInv, [Next]_vars
      PROVE  live \subseteq live' \/ UNCHANGED vars
  <2>1. ASSUME NEW i \in Invocations, RebuildDashboard(i) PROVE live \subseteq live'
    BY <1>1, <2>1 DEF RebuildDashboard, RunInv, FigureInv, Finalising
  <2>2. (\A i \in Invocations : ~RebuildDashboard(i)) => live' = live
    BY <1>1
       DEF Next, Claim, Chunk, Finalise, Failure, Catch, StartRun, ContinueRun,
           AdvanceRun, Call, ReclaimStale, CheckInterruptions, FailExhausted, ClaimFresh,
           ClaimRefused, BeginChunk, SizeRun, FailEmptyRun, LoadPage, FindNothingLeft,
           WritePage, Heartbeat, PauseRun, LoadRunCalculations, WriteDerived,
           FindActiveRequest, CreateRequest, Succeed, Throw, FailRun, ThrowInClaim,
           CallerCatch, Die, CancelRead, CancelWrite, Approve, Unapprove, Tick, dataVars,
           vars
  <2> QED
    BY <2>1, <2>2
<1> QED
  BY <1>1, InlineInvariant, PTL DEF Spec, FiguresNeverShrink

\* No record gets two calculations of one run, even where invocations outlive their
\* claim: the unique key on (run, record) and skipDuplicates do not need the claim.
THEOREM CalculatedOnce == Spec => []NoDoubleCalculation
<1>1. Init => TypeOK /\ NoDoubleCalculation
  <2>1. Init => NoDoubleCalculation
    BY DEF Init, NoDoubleCalculation
  <2> QED
    BY <2>1, RunInvInit DEF RunInv
<1>2. TypeOK /\ NoDoubleCalculation /\ [Next]_vars => (TypeOK /\ NoDoubleCalculation)'
  <2> SUFFICES ASSUME TypeOK, NoDoubleCalculation, [Next]_vars PROVE NoDoubleCalculation'
    BY TypeStep
  <2>1. ASSUME NEW i \in Invocations, WritePage(i) PROVE NoDoubleCalculation'
    BY <2>1 DEF WritePage, InsertOnce, NoDoubleCalculation, TypeOK, DataTypeOK
  <2>2. (\A i \in Invocations : ~WritePage(i)) => rows' = rows
    BY DEF Next, Claim, Chunk, Finalise, Failure, Catch, StartRun, ContinueRun,
           AdvanceRun, Call, ReclaimStale, CheckInterruptions, FailExhausted, ClaimFresh,
           ClaimRefused, BeginChunk, SizeRun, FailEmptyRun, LoadPage, FindNothingLeft,
           Heartbeat, PauseRun, LoadRunCalculations, RebuildDashboard, WriteDerived,
           FindActiveRequest, CreateRequest, Succeed, Throw, FailRun, ThrowInClaim,
           CallerCatch, Die, CancelRead, CancelWrite, Approve, Unapprove, Tick, dataVars,
           vars
  <2> QED
    BY <2>1, <2>2 DEF NoDoubleCalculation
<1> QED
  BY <1>1, <1>2, PTL DEF Spec

\* The counts a resumed run goes by (its interruptions, its progress) never drift from
\* what was done, whatever the workers, the deaths and the cancellations.
THEOREM CountsHold ==
    ASSUME KilledAtLimit
    PROVE  Spec => []CountsAreRight
<1>1. InterruptionsAreDeaths /\ NoWorkBeyondCap /\ ProgressIsBacked => CountsAreRight
  BY DEF CountsAreRight
<1> QED
  BY <1>1, OnlyDeathsCount, InterruptionCap, ProgressBacked, PTL

\* A run that reads succeeded stands for whole figures: its own rows, every record that
\* was due, none calculated twice, and one supplier request at most.
THEOREM FinishedHolds ==
    ASSUME KilledAtLimit
    PROVE  Spec => []FinishedIsWhole
<1>1. /\ SucceededPublishesItsRows /\ SucceededCoversDue
      /\ NoDoubleCalculation /\ OneSupplierRequest
      => FinishedIsWhole
  BY DEF FinishedIsWhole
<1> QED
  BY <1>1, PublishesItsRows, CoversDue, NoSecondRequest, CalculatedOnce, PTL

---------------------------------------------------------------------------
(* In an inline deployment a run and all the invocations that take its claim *)
(* from each other implement SoleWorker.                                    *)

\* A run that has not been sized has no calculations, and nobody loads records of it;
\* sizing itself finds it so, because its invocation is alone.
SizedInv ==
    /\ total = Unsized =>
         /\ Calculated = {}
         /\ \A i \in Invocations : pc[i] \notin {"load", "write", "beat", "beatCut"}
    /\ \A i \in Invocations : pc[i] = "size" => total = Unsized

LEMMA SizedInit == Init => SizedInv
BY DEF Init, SizedInv, Calculated, Unsized

\* SizedInv is kept by every step.
LEMMA SizedStep ==
    ASSUME RunInv, SizedInv, [Next]_vars
    PROVE  SizedInv'
<1> USE DEF SizedInv, Calculated, Unsized, Goto, Return, RunInv, TypeOK, RunTypeOK, DataTypeOK,
          InvTypeOK, LeaseInv, ExclusiveHolder, Holds, Works, TrySteps, ChunkSteps, FinalSteps,
          ClaimSteps, Live, runVars, dataVars, invVars, envVars
<1>1. ASSUME NEW i \in Invocations, StartRun(i) PROVE SizedInv'
  BY <1>1 DEF StartRun, Call
<1>2. ASSUME NEW i \in Invocations, ContinueRun(i) PROVE SizedInv'
  BY <1>2 DEF ContinueRun, Call
<1>3. ASSUME NEW i \in Invocations, AdvanceRun(i) PROVE SizedInv'
  BY <1>3 DEF AdvanceRun, Call
<1>4. ASSUME NEW i \in Invocations, ReclaimStale(i) PROVE SizedInv'
  BY <1>4 DEF ReclaimStale
<1>5. ASSUME NEW i \in Invocations, CheckInterruptions(i) PROVE SizedInv'
  BY <1>5 DEF CheckInterruptions
<1>6. ASSUME NEW i \in Invocations, FailExhausted(i) PROVE SizedInv'
  BY <1>6 DEF FailExhausted
<1>7. ASSUME NEW i \in Invocations, ClaimFresh(i) PROVE SizedInv'
  BY <1>7 DEF ClaimFresh
<1>8. ASSUME NEW i \in Invocations, ClaimRefused(i) PROVE SizedInv'
  BY <1>8 DEF ClaimRefused
<1>9. ASSUME NEW i \in Invocations, BeginChunk(i) PROVE SizedInv'
  BY <1>9 DEF BeginChunk
<1>10. ASSUME NEW i \in Invocations, SizeRun(i) PROVE SizedInv'
  <2>1. Cardinality(hand[i]) \in Nat
    BY SubsetCardinality
  <2> QED
    BY <1>10, <2>1 DEF SizeRun
<1>11. ASSUME NEW i \in Invocations, FailEmptyRun(i) PROVE SizedInv'
  BY <1>11 DEF FailEmptyRun
<1>12. ASSUME NEW i \in Invocations, LoadPage(i) PROVE SizedInv'
  BY <1>12 DEF LoadPage
<1>13. ASSUME NEW i \in Invocations, FindNothingLeft(i) PROVE SizedInv'
  BY <1>13 DEF FindNothingLeft
<1>14. ASSUME NEW i \in Invocations, WritePage(i) PROVE SizedInv'
  <2>1. total # Unsized
    BY <1>14 DEF WritePage
  <2> QED
    BY <1>14, <2>1 DEF WritePage
<1>15. ASSUME NEW i \in Invocations, Heartbeat(i) PROVE SizedInv'
  BY <1>15 DEF Heartbeat
<1>16. ASSUME NEW i \in Invocations, PauseRun(i) PROVE SizedInv'
  BY <1>16 DEF PauseRun
<1>17. ASSUME NEW i \in Invocations, LoadRunCalculations(i) PROVE SizedInv'
  BY <1>17 DEF LoadRunCalculations
<1>18. ASSUME NEW i \in Invocations, RebuildDashboard(i) PROVE SizedInv'
  BY <1>18 DEF RebuildDashboard
<1>19. ASSUME NEW i \in Invocations, WriteDerived(i) PROVE SizedInv'
  BY <1>19 DEF WriteDerived
<1>20. ASSUME NEW i \in Invocations, FindActiveRequest(i) PROVE SizedInv'
  BY <1>20 DEF FindActiveRequest
<1>21. ASSUME NEW i \in Invocations, CreateRequest(i) PROVE SizedInv'
  BY <1>21 DEF CreateRequest
<1>22. ASSUME NEW i \in Invocations, Succeed(i) PROVE SizedInv'
  BY <1>22 DEF Succeed
<1>23. ASSUME NEW i \in Invocations, Throw(i) PROVE SizedInv'
  BY <1>23 DEF Throw
<1>24. ASSUME NEW i \in Invocations, FailRun(i) PROVE SizedInv'
  BY <1>24 DEF FailRun
<1>25. ASSUME NEW i \in Invocations, ThrowInClaim(i) PROVE SizedInv'
  BY <1>25 DEF ThrowInClaim
<1>26. ASSUME NEW i \in Invocations, CallerCatch(i) PROVE SizedInv'
  BY <1>26 DEF CallerCatch
<1>27. ASSUME NEW i \in Invocations, Die(i) PROVE SizedInv'
  BY <1>27 DEF Die
<1>28. ASSUME CancelRead PROVE SizedInv'
  BY <1>28 DEF CancelRead
<1>29. ASSUME CancelWrite PROVE SizedInv'
  BY <1>29 DEF CancelWrite
<1>30. ASSUME NEW r \in Records, Approve(r) PROVE SizedInv'
  BY <1>30 DEF Approve
<1>31. ASSUME NEW r \in Records, Unapprove(r) PROVE SizedInv'
  BY <1>31 DEF Unapprove
<1>32. ASSUME Tick PROVE SizedInv'
  BY <1>32 DEF Tick
<1>33. ASSUME UNCHANGED vars PROVE SizedInv'
  BY <1>33 DEF vars
<1> QED
  BY <1>1, <1>2, <1>3, <1>4, <1>5, <1>6, <1>7, <1>8, <1>9, <1>10, <1>11,
     <1>12, <1>13, <1>14, <1>15, <1>16, <1>17, <1>18, <1>19, <1>20, <1>21, <1>22,
     <1>23, <1>24, <1>25, <1>26, <1>27, <1>28, <1>29, <1>30, <1>31, <1>32, <1>33
     DEF Next, Claim, Chunk, Finalise, Failure, Catch

\* Every step is a step of the sole worker, or one he does not see.
LEMMA RefinementStep ==
    ASSUME KilledAtLimit, RunInv, SizedInv, [Next]_vars
    PROVE  [Sole!Next]_Sole!vars
<1> USE DEF Sole!Next, Sole!vars, Calculated, Goto, Return, RunInv, TypeOK, RunTypeOK, DataTypeOK,
          InvTypeOK, EnvTypeOK, LeaseInv, ExclusiveHolder, Holds, Works, TrySteps, ChunkSteps,
          FinalSteps, ClaimSteps, Runnable, Live, runVars, dataVars, invVars, envVars
<1>1. ASSUME NEW i \in Invocations, StartRun(i) PROVE [Sole!Next]_Sole!vars
  BY <1>1 DEF StartRun, Call
<1>2. ASSUME NEW i \in Invocations, ContinueRun(i) PROVE [Sole!Next]_Sole!vars
  BY <1>2 DEF ContinueRun, Call
<1>3. ASSUME NEW i \in Invocations, AdvanceRun(i) PROVE [Sole!Next]_Sole!vars
  BY <1>3 DEF AdvanceRun, Call
<1>4. ASSUME NEW i \in Invocations, ReclaimStale(i) PROVE [Sole!Next]_Sole!vars
  BY <1>4 DEF ReclaimStale, Sole!Begin
<1>5. ASSUME NEW i \in Invocations, CheckInterruptions(i) PROVE [Sole!Next]_Sole!vars
  BY <1>5 DEF CheckInterruptions
<1>6. ASSUME NEW i \in Invocations, FailExhausted(i) PROVE [Sole!Next]_Sole!vars
  BY <1>6 DEF FailExhausted, Sole!Fail, Sole!Rest
<1>7. ASSUME NEW i \in Invocations, ClaimFresh(i) PROVE [Sole!Next]_Sole!vars
  BY <1>7 DEF ClaimFresh, Sole!Begin
<1>8. ASSUME NEW i \in Invocations, ClaimRefused(i) PROVE [Sole!Next]_Sole!vars
  BY <1>8 DEF ClaimRefused
<1>9. ASSUME NEW i \in Invocations, BeginChunk(i) PROVE [Sole!Next]_Sole!vars
  BY <1>9 DEF BeginChunk, Sole!Size, SizedInv
<1>10. ASSUME NEW i \in Invocations, SizeRun(i) PROVE [Sole!Next]_Sole!vars
  BY <1>10 DEF SizeRun, Sole!Run, SizedInv
<1>11. ASSUME NEW i \in Invocations, FailEmptyRun(i) PROVE [Sole!Next]_Sole!vars
  BY <1>11 DEF FailEmptyRun, Sole!Fail
<1>12. ASSUME NEW i \in Invocations, LoadPage(i) PROVE [Sole!Next]_Sole!vars
  BY <1>12 DEF LoadPage
<1>13. ASSUME NEW i \in Invocations, FindNothingLeft(i) PROVE [Sole!Next]_Sole!vars
  BY <1>13 DEF FindNothingLeft
<1>14. ASSUME NEW i \in Invocations, WritePage(i) PROVE [Sole!Next]_Sole!vars
  <2>1. PICK reached \in SUBSET hand[i] : rows' = InsertOnce(rows, reached)
    BY <1>14 DEF WritePage
  <2>2. Calculated \subseteq Calculated' /\ Calculated' \subseteq Records
    BY <2>1 DEF InsertOnce
  <2>3. (\E j \in Invocations : Holds(j)) /\ (\E j \in Invocations : Holds(j))'
    BY <1>14 DEF WritePage
  <2> QED
    BY <1>14, <2>2, <2>3 DEF WritePage, Sole!Count
<1>15. ASSUME NEW i \in Invocations, Heartbeat(i) PROVE [Sole!Next]_Sole!vars
  BY <1>15 DEF Heartbeat
<1>16. ASSUME NEW i \in Invocations, PauseRun(i) PROVE [Sole!Next]_Sole!vars
  BY <1>16 DEF PauseRun, Sole!Rest
<1>17. ASSUME NEW i \in Invocations, LoadRunCalculations(i) PROVE [Sole!Next]_Sole!vars
  BY <1>17 DEF LoadRunCalculations
<1>18. ASSUME NEW i \in Invocations, RebuildDashboard(i) PROVE [Sole!Next]_Sole!vars
  BY <1>18 DEF RebuildDashboard, Sole!Show, FigureInv, Finalising
<1>19. ASSUME NEW i \in Invocations, WriteDerived(i) PROVE [Sole!Next]_Sole!vars
  BY <1>19 DEF WriteDerived
<1>20. ASSUME NEW i \in Invocations, FindActiveRequest(i) PROVE [Sole!Next]_Sole!vars
  BY <1>20 DEF FindActiveRequest
<1>21. ASSUME NEW i \in Invocations, CreateRequest(i) PROVE [Sole!Next]_Sole!vars
  BY <1>21 DEF CreateRequest
<1>22. ASSUME NEW i \in Invocations, Succeed(i) PROVE [Sole!Next]_Sole!vars
  BY <1>22 DEF Succeed, Sole!Succeed, FigureInv, Finalising
<1>23. ASSUME NEW i \in Invocations, Throw(i) PROVE [Sole!Next]_Sole!vars
  BY <1>23 DEF Throw
<1>24. ASSUME NEW i \in Invocations, FailRun(i) PROVE [Sole!Next]_Sole!vars
  BY <1>24 DEF FailRun, Sole!Fail
<1>25. ASSUME NEW i \in Invocations, ThrowInClaim(i) PROVE [Sole!Next]_Sole!vars
  BY <1>25 DEF ThrowInClaim, Sole!Rest
<1>26. ASSUME NEW i \in Invocations, CallerCatch(i) PROVE [Sole!Next]_Sole!vars
  BY <1>26 DEF CallerCatch, Sole!Cancel
<1>27. ASSUME NEW i \in Invocations, Die(i) PROVE [Sole!Next]_Sole!vars
  BY <1>27 DEF Die, Sole!Rest
<1>28. ASSUME CancelRead PROVE [Sole!Next]_Sole!vars
  BY <1>28 DEF CancelRead
<1>29. ASSUME CancelWrite PROVE [Sole!Next]_Sole!vars
  BY <1>29 DEF CancelWrite, Sole!Cancel
<1>30. ASSUME NEW r \in Records, Approve(r) PROVE [Sole!Next]_Sole!vars
  BY <1>30 DEF Approve
<1>31. ASSUME NEW r \in Records, Unapprove(r) PROVE [Sole!Next]_Sole!vars
  BY <1>31 DEF Unapprove, Sole!Withdraw
<1>32. ASSUME Tick PROVE [Sole!Next]_Sole!vars
  BY <1>32 DEF Tick
<1>33. ASSUME UNCHANGED vars PROVE [Sole!Next]_Sole!vars
  BY <1>33 DEF vars
<1> QED
  BY <1>1, <1>2, <1>3, <1>4, <1>5, <1>6, <1>7, <1>8, <1>9, <1>10, <1>11,
     <1>12, <1>13, <1>14, <1>15, <1>16, <1>17, <1>18, <1>19, <1>20, <1>21, <1>22,
     <1>23, <1>24, <1>25, <1>26, <1>27, <1>28, <1>29, <1>30, <1>31, <1>32, <1>33
     DEF Next, Claim, Chunk, Finalise, Failure, Catch

\* The run starts as the sole worker's does.
LEMMA RefinementInit == Init => Sole!Init
BY DEF Init, Sole!Init, Calculated, Holds, ClaimSteps, TrySteps, ChunkSteps, FinalSteps

\* However many invocations take the ownerless claim of claimRun from each other, and
\* whichever of them die, pause or fail at any statement of processOneChunk, the run behaves
\* as one worker who counts records, shows all of them at once and succeeds once.
THEOREM Refinement ==
    ASSUME KilledAtLimit
    PROVE  Spec => ImplementsSoleWorker
<1>1. Init => RunInv /\ SizedInv /\ Sole!Init
  BY RunInvInit, SizedInit, RefinementInit
<1>2. RunInv /\ SizedInv /\ [Next]_vars => (RunInv /\ SizedInv)' /\ [Sole!Next]_Sole!vars
  BY RunInvStep, SizedStep, RefinementStep
<1> QED
  BY <1>1, <1>2, PTL DEF Spec, ImplementsSoleWorker, Sole!Spec

---------------------------------------------------------------------------
(* What follows from being a sole worker. *)

\* A cancelled run can come back, but one that has succeeded is never worked on again.
SettledInv == Sole!Complete /\ (\E i \in Invocations : Holds(i)) \in BOOLEAN

LEMMA SettledInit == Sole!Init => SettledInv
BY DEF Sole!Init, SettledInv, Sole!Complete

LEMMA SettledStep ==
    ASSUME SettledInv, [Sole!Next]_Sole!vars
    PROVE  SettledInv'
<1> USE DEF SettledInv, Sole!Complete
<1>1. CASE Sole!Begin
  BY <1>1 DEF Sole!Begin
<1>2. CASE Sole!Rest
  BY <1>2 DEF Sole!Rest
<1>3. CASE Sole!Size
  BY <1>3 DEF Sole!Size
<1>4. CASE Sole!Run
  BY <1>4 DEF Sole!Run
<1>5. CASE Sole!Count
  BY <1>5 DEF Sole!Count
<1>6. CASE Sole!Show
  BY <1>6 DEF Sole!Show
<1>7. CASE Sole!Succeed
  BY <1>7 DEF Sole!Succeed
<1>8. CASE Sole!Fail
  BY <1>8 DEF Sole!Fail
<1>9. CASE Sole!Cancel
  BY <1>9 DEF Sole!Cancel
<1>10. CASE Sole!Withdraw
  BY <1>10 DEF Sole!Withdraw
<1>11. CASE UNCHANGED Sole!vars
  BY <1>11 DEF Sole!vars
<1> QED
  BY <1>1, <1>2, <1>3, <1>4, <1>5, <1>6, <1>7, <1>8, <1>9, <1>10, <1>11 DEF Sole!Next

\* A succeeded run shows all it counted and all of what was due (the finalisation of
\* processOneChunk), and no invocation is at it.
THEOREM SucceededIsComplete ==
    ASSUME KilledAtLimit
    PROVE  Spec => []Sole!Complete
<1>1. SettledInv => Sole!Complete
  BY DEF SettledInv
<1> QED
  BY <1>1, Refinement, SettledInit, SettledStep, PTL DEF ImplementsSoleWorker, Sole!Spec

\* Once a run has succeeded, neither its calculations nor the dashboard rows it wrote
\* change any more by its doing.
THEOREM SucceededIsFinal ==
    ASSUME KilledAtLimit
    PROVE  Spec => Sole!FiguresAreFinal
<1>1. SettledInv /\ [Sole!Next]_Sole!vars
      => [status = "succeeded" => UNCHANGED <<Calculated, live>>]_Sole!vars
  BY DEF SettledInv, Sole!Complete, Sole!Next, Sole!Begin, Sole!Rest, Sole!Size, Sole!Run,
         Sole!Count, Sole!Show, Sole!Succeed, Sole!Fail, Sole!Cancel, Sole!Withdraw, Sole!vars
<1> QED
  BY <1>1, Refinement, SettledInit, SettledStep, PTL
     DEF ImplementsSoleWorker, Sole!Spec, Sole!FiguresAreFinal
=============================================================================
