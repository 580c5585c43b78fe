-------------------------- MODULE ImportBatch_proofs --------------------------
(***************************************************************************)
(* Proofs about ImportBatch, for every set of invocations and requests,     *)
(* every file and every content of the reference data.                      *)
(*                                                                         *)
(* The argument: while a batch is parsing, it has been quiet for no longer  *)
(* than its parser has lived, and no invocation lives for as long as a      *)
(* batch must be quiet. So whoever takes a quiet batch over is alone, only  *)
(* one invocation counts a start or writes rows at a time, and what it has  *)
(* in memory is what the batch's row says.                                  *)
(***************************************************************************)
EXTENDS ImportBatch, FiniteSetTheorems, SequenceTheorems, TLAPS

\* How many chunks the batch's row says are staged.
Done == IF cursor = NoCursor THEN 0 ELSE cursor
Whole(rows) == Prefix(rows, size) /\ \A i \in 1 .. size : Ready(rows[i])

\* While the batch is uploaded only its upload lives; nobody holds it longer than it is quiet.
LeaseInv ==
    /\ \A p \in Parsers : pc[p] \in UploadSteps =>
          state \in {"uploaded", "deleted"} /\ \A q \in Parsers \ {p} : pc[q] = "idle"
    /\ state = "uploaded" => \A p \in Parsers : pc[p] \in UploadSteps \cup {"idle"}
    /\ \A p \in Parsers : Holds(p) /\ state = "parsing" => quiet <= age[p]
    /\ ExclusiveParser

\* What the steps of its holder say of the batch's state.
HolderInv ==
    \A p \in Parsers :
        /\ Holds(p) /\ pc[p] \notin {"note", "caught"} => state \in {"parsing", "deleted"}
        /\ pc[p] = "note" => state \in {"needs_attention", "deleted"}
        /\ pc[p] = "caught" => state \in {"parsing", "needs_attention", "deleted"}

\* How many starts are counted that nothing has come of yet: there is at most one.
Starting == IF \E p \in Parsers : Pending(p) THEN 1 ELSE 0

\* A start is made only while there is an attempt left; a sweep's decision is still true
\* when the batch has been quiet for longer than the sweep has lived.
CountInv ==
    /\ state = "uploaded" => attempts = 0 /\ fruitless = 0
    /\ state = "parsing" => attempts = fruitless + Starting
    /\ AttemptsBounded
    /\ \A p \in Parsers : pc[p] = "bump" =>
          /\ plan[p] \in {"retry", "giveUp"}
          /\ plan[p] = "retry" /\ state = "parsing" =>
                attempts < MaxAttempts \/ quiet <= age[p]
    /\ \A p \in Parsers : pc[p] = "claim" /\ state = "parsing" => attempts < MaxAttempts

\* A parser's memory agrees with the batch it stages.
MemoryInv ==
    \A p \in Parsers :
        /\ pc[p] \in {"empty", "start", "stage", "refund", "finish"} => under[p] \in References
        /\ pc[p] = "start" /\ plan[p] = "resume" /\ Exists =>
              at[p] = cursor /\ cursor # NoCursor /\ print = under[p]
        /\ pc[p] \in {"stage", "finish"} /\ Exists => at[p] = Done /\ under[p] = print
        /\ pc[p] = "finish" /\ Exists => Done = size

RowsInv ==
    /\ CursorMatchesRows /\ ReadyIsWhole
    /\ Done <= size
    /\ state = "uploaded" => cursor = NoCursor
    /\ state = "deleted" => staged = <<>>
    /\ state = "committed" => Whole(staged)

\* A commit holds what the ready batch held, and only one of them writes it.
CommitInv ==
    /\ \A c \in Committers : cpc[c] = "load" =>
          state \in {"ready_to_commit", "committed", "deleted"}
    /\ \A c \in Committers : cpc[c] = "flip" => Whole(mine[c])
    /\ records # <<>> => state \in {"committed", "deleted"}
    /\ WholeFileOrNothing

BatchInv == TypeOK /\ LeaseInv /\ HolderInv /\ CountInv /\ MemoryInv /\ RowsInv /\ CommitInv

---------------------------------------------------------------------------
(* The lease. *)

LEMMA LeaseStep ==
    ASSUME TypeOK, LeaseInv, HolderInv, [Next]_vars
    PROVE  LeaseInv'
<1> USE BudgetAssumption, LeaseAssumption
       DEF TypeOK, RowTypeOK, ParserTypeOK, LeaseInv, HolderInv, ExclusiveParser, Holds, Live,
           UploadSteps, TrySteps, Steps,
           rowVars, parseVars, requestVars, worldVars
<1>1. ASSUME NEW p \in Parsers, StoreFile(p) PROVE LeaseInv'
  BY <1>1 DEF StoreFile, At, Goto
<1>2. ASSUME NEW p \in Parsers, StoreFails(p) PROVE LeaseInv'
  BY <1>2 DEF StoreFails, Return, Goto
<1>3. ASSUME NEW p \in Parsers, MarkParsing(p) PROVE LeaseInv'
  BY <1>3 DEF MarkParsing, At, Goto
<1>4. ASSUME NEW p \in Parsers, SweepRead(p) PROVE LeaseInv'
  BY <1>4 DEF SweepRead, Goto
<1>5. ASSUME NEW p \in Parsers, SweepBump(p) PROVE LeaseInv'
  BY <1>5 DEF SweepBump, Goto
<1>6. ASSUME NEW p \in Parsers, SweepLost(p) PROVE LeaseInv'
  BY <1>6 DEF SweepLost, Return, Goto
<1>7. ASSUME NEW p \in Parsers, SweepFail(p) PROVE LeaseInv'
  BY <1>7 DEF SweepFail, Return, Goto
<1>8. ASSUME NEW p \in Parsers, ClaimBatch(p) PROVE LeaseInv'
  BY <1>8 DEF ClaimBatch, At, Goto
<1>9. ASSUME NEW p \in Parsers, ClaimRefused(p) PROVE LeaseInv'
  BY <1>9 DEF ClaimRefused, Return, Goto
<1>10. ASSUME NEW p \in Parsers, ReadBatch(p) PROVE LeaseInv'
  BY <1>10 DEF ReadBatch, At, Goto
<1>11. ASSUME NEW p \in Parsers, SetAside(p) PROVE LeaseInv'
  BY <1>11 DEF SetAside, At, Goto
<1>12. ASSUME NEW p \in Parsers, NoteEmptyFile(p) PROVE LeaseInv'
  BY <1>12 DEF NoteEmptyFile, Return, Goto
<1>13. ASSUME NEW p \in Parsers, ResumeStaging(p) PROVE LeaseInv'
  BY <1>13 DEF ResumeStaging, At, Goto
<1>14. ASSUME NEW p \in Parsers, RestartStaging(p) PROVE LeaseInv'
  BY <1>14 DEF RestartStaging, At, Goto
<1>15. ASSUME NEW p \in Parsers, StageChunk(p) PROVE LeaseInv'
  BY <1>15 DEF StageChunk
<1>16. ASSUME NEW p \in Parsers, StopStaging(p) PROVE LeaseInv'
  BY <1>16 DEF StopStaging, At, Goto
<1>17. ASSUME NEW p \in Parsers, Yield(p) PROVE LeaseInv'
  BY <1>17 DEF Yield, Return, Goto
<1>18. ASSUME NEW p \in Parsers, FinishParse(p) PROVE LeaseInv'
  BY <1>18 DEF FinishParse, Return, Goto
<1>19. ASSUME NEW p \in Parsers, CatchParse(p) PROVE LeaseInv'
  BY <1>19 DEF CatchParse, Return, Goto
<1>20. ASSUME NEW p \in Parsers, Throw(p) PROVE LeaseInv'
  BY <1>20 DEF Throw, Goto, Pending
<1>21. ASSUME NEW p \in Parsers, Die(p) PROVE LeaseInv'
  BY <1>21 DEF Die, Return, Goto, Pending
<1>22. ASSUME NEW c \in Committers, CommitCheck(c) PROVE LeaseInv'
  BY <1>22 DEF CommitCheck, CommitStep
<1>23. ASSUME NEW c \in Committers, CommitLoad(c) PROVE LeaseInv'
  BY <1>23 DEF CommitLoad, CommitStep
<1>24. ASSUME NEW c \in Committers, CommitFlip(c) PROVE LeaseInv'
  BY <1>24 DEF CommitFlip, CommitStep
<1>25. ASSUME NEW c \in Committers, CommitRefused(c) PROVE LeaseInv'
  BY <1>25 DEF CommitRefused
<1>26. ASSUME NEW d \in Deleters, DeleteCheck(d) PROVE LeaseInv'
  BY <1>26 DEF DeleteCheck, DeleteStep
<1>27. ASSUME NEW d \in Deleters, DeleteFile(d) PROVE LeaseInv'
  BY <1>27 DEF DeleteFile, DeleteStep
<1>28. ASSUME NEW d \in Deleters, DeleteRow(d) PROVE LeaseInv'
  BY <1>28 DEF DeleteRow, DeleteStep
<1>29. ASSUME NEW d \in Deleters, DeleteFails(d) PROVE LeaseInv'
  BY <1>29 DEF DeleteFails
<1>30. ASSUME ChangeReference PROVE LeaseInv'
  BY <1>30 DEF ChangeReference
<1>31. ASSUME Tick PROVE LeaseInv'
  BY <1>31 DEF Tick
<1>32. ASSUME UNCHANGED vars PROVE LeaseInv'
  BY <1>32 DEF vars
<1> QED
  BY <1>1, <1>2, <1>3, <1>4, <1>5, <1>6, <1>7, <1>8, <1>9, <1>10, <1>11, <1>12, <1>13,
     <1>14, <1>15, <1>16, <1>17, <1>18, <1>19, <1>20, <1>21, <1>22, <1>23, <1>24, <1>25,
     <1>26, <1>27, <1>28, <1>29, <1>30, <1>31, <1>32
     DEF Next, Upload, Sweep, Parse, Commit, Delete

LEMMA HolderStep ==
    ASSUME TypeOK, LeaseInv, HolderInv, [Next]_vars
    PROVE  HolderInv'
<1> USE DEF TypeOK, RowTypeOK, ParserTypeOK, LeaseInv, HolderInv, ExclusiveParser, Holds, Exists,
           UploadSteps, TrySteps, Steps,
           rowVars, parseVars, requestVars, worldVars
<1>1. ASSUME NEW p \in Parsers, StoreFile(p) PROVE HolderInv'
  BY <1>1 DEF StoreFile, At, Goto
<1>2. ASSUME NEW p \in Parsers, StoreFails(p) PROVE HolderInv'
  BY <1>2 DEF StoreFails, Return, Goto
<1>3. ASSUME NEW p \in Parsers, MarkParsing(p) PROVE HolderInv'
  BY <1>3 DEF MarkParsing, At, Goto
<1>4. ASSUME NEW p \in Parsers, SweepRead(p) PROVE HolderInv'
  BY <1>4 DEF SweepRead, Goto
<1>5. ASSUME NEW p \in Parsers, SweepBump(p) PROVE HolderInv'
  BY <1>5 DEF SweepBump, Goto
<1>6. ASSUME NEW p \in Parsers, SweepLost(p) PROVE HolderInv'
  BY <1>6 DEF SweepLost, Return, Goto
<1>7. ASSUME NEW p \in Parsers, SweepFail(p) PROVE HolderInv'
  BY <1>7 DEF SweepFail, Return, Goto
<1>8. ASSUME NEW p \in Parsers, ClaimBatch(p) PROVE HolderInv'
  BY <1>8 DEF ClaimBatch, At, Goto
<1>9. ASSUME NEW p \in Parsers, ClaimRefused(p) PROVE HolderInv'
  BY <1>9 DEF ClaimRefused, Return, Goto
<1>10. ASSUME NEW p \in Parsers, ReadBatch(p) PROVE HolderInv'
  BY <1>10 DEF ReadBatch, At, Goto
<1>11. ASSUME NEW p \in Parsers, SetAside(p) PROVE HolderInv'
  BY <1>11 DEF SetAside, At, Goto
<1>12. ASSUME NEW p \in Parsers, NoteEmptyFile(p) PROVE HolderInv'
  BY <1>12 DEF NoteEmptyFile, Return, Goto
<1>13. ASSUME NEW p \in Parsers, ResumeStaging(p) PROVE HolderInv'
  BY <1>13 DEF ResumeStaging, At, Goto
<1>14. ASSUME NEW p \in Parsers, RestartStaging(p) PROVE HolderInv'
  BY <1>14 DEF RestartStaging, At, Goto
<1>15. ASSUME NEW p \in Parsers, StageChunk(p) PROVE HolderInv'
  BY <1>15 DEF StageChunk
<1>16. ASSUME NEW p \in Parsers, StopStaging(p) PROVE HolderInv'
  BY <1>16 DEF StopStaging, At, Goto
<1>17. ASSUME NEW p \in Parsers, Yield(p) PROVE HolderInv'
  BY <1>17 DEF Yield, Return, Goto
<1>18. ASSUME NEW p \in Parsers, FinishParse(p) PROVE HolderInv'
  BY <1>18 DEF FinishParse, Return, Goto
<1>19. ASSUME NEW p \in Parsers, CatchParse(p) PROVE HolderInv'
  BY <1>19 DEF CatchParse, Return, Goto
<1>20. ASSUME NEW p \in Parsers, Throw(p) PROVE HolderInv'
  BY <1>20 DEF Throw, Goto, Pending
<1>21. ASSUME NEW p \in Parsers, Die(p) PROVE HolderInv'
  BY <1>21 DEF Die, Return, Goto, Pending
<1>22. ASSUME NEW c \in Committers, CommitCheck(c) PROVE HolderInv'
  BY <1>22 DEF CommitCheck, CommitStep
<1>23. ASSUME NEW c \in Committers, CommitLoad(c) PROVE HolderInv'
  BY <1>23 DEF CommitLoad, CommitStep
<1>24. ASSUME NEW c \in Committers, CommitFlip(c) PROVE HolderInv'
  BY <1>24 DEF CommitFlip, CommitStep
<1>25. ASSUME NEW c \in Committers, CommitRefused(c) PROVE HolderInv'
  BY <1>25 DEF CommitRefused
<1>26. ASSUME NEW d \in Deleters, DeleteCheck(d) PROVE HolderInv'
  BY <1>26 DEF DeleteCheck, DeleteStep
<1>27. ASSUME NEW d \in Deleters, DeleteFile(d) PROVE HolderInv'
  BY <1>27 DEF DeleteFile, DeleteStep
<1>28. ASSUME NEW d \in Deleters, DeleteRow(d) PROVE HolderInv'
  BY <1>28 DEF DeleteRow, DeleteStep
<1>29. ASSUME NEW d \in Deleters, DeleteFails(d) PROVE HolderInv'
  BY <1>29 DEF DeleteFails
<1>30. ASSUME ChangeReference PROVE HolderInv'
  BY <1>30 DEF ChangeReference
<1>31. ASSUME Tick PROVE HolderInv'
  BY <1>31 DEF Tick
<1>32. ASSUME UNCHANGED vars PROVE HolderInv'
  BY <1>32 DEF vars
<1> QED
  BY <1>1, <1>2, <1>3, <1>4, <1>5, <1>6, <1>7, <1>8, <1>9, <1>10, <1>11, <1>12, <1>13,
     <1>14, <1>15, <1>16, <1>17, <1>18, <1>19, <1>20, <1>21, <1>22, <1>23, <1>24, <1>25,
     <1>26, <1>27, <1>28, <1>29, <1>30, <1>31, <1>32
     DEF Next, Upload, Sweep, Parse, Commit, Delete

---------------------------------------------------------------------------
(* The attempts. *)

LEMMA StartingIsCardinality ==
    ASSUME ExclusiveParser
    PROVE  Cardinality({p \in Parsers : Pending(p)}) = Starting
<1>1. CASE \E p \in Parsers : Pending(p)
  <2> PICK p \in Parsers : Pending(p)
    BY <1>1
  <2>1. {q \in Parsers : Pending(q)} = {p}
    BY DEF ExclusiveParser, Holds, Pending
  <2> QED
    BY <1>1, <2>1, FS_Singleton DEF Starting
<1>2. CASE \A p \in Parsers : ~Pending(p)
  <2>1. {q \in Parsers : Pending(q)} = {}
    BY <1>2
  <2> QED
    BY <1>2, <2>1, FS_EmptySet DEF Starting
<1> QED
  BY <1>1, <1>2

LEMMA CountStep ==
    ASSUME TypeOK, LeaseInv, HolderInv, CountInv, [Next]_vars
    PROVE  CountInv'
<1> USE BudgetAssumption, LeaseAssumption
       DEF TypeOK, RowTypeOK, ParserTypeOK, RequestTypeOK, LeaseInv, HolderInv, CountInv,
           AttemptsBounded, ExclusiveParser, Starting, Exists, Holds, Pending, Live,
           UploadSteps, TrySteps, Steps,
           rowVars, parseVars, requestVars, worldVars
<1>1. ASSUME NEW p \in Parsers, StoreFile(p) PROVE CountInv'
  BY <1>1 DEF StoreFile, At, Goto
<1>2. ASSUME NEW p \in Parsers, StoreFails(p) PROVE CountInv'
  BY <1>2 DEF StoreFails, Return, Goto
<1>3. ASSUME NEW p \in Parsers, MarkParsing(p) PROVE CountInv'
  BY <1>3 DEF MarkParsing, At, Goto
<1>4. ASSUME NEW p \in Parsers, SweepRead(p) PROVE CountInv'
  BY <1>4 DEF SweepRead, Goto, DecideStalled
<1>5. ASSUME NEW p \in Parsers, SweepBump(p) PROVE CountInv'
  BY <1>5 DEF SweepBump, Goto
<1>6. ASSUME NEW p \in Parsers, SweepLost(p) PROVE CountInv'
  BY <1>6 DEF SweepLost, Return, Goto
<1>7. ASSUME NEW p \in Parsers, SweepFail(p) PROVE CountInv'
  BY <1>7 DEF SweepFail, Return, Goto
<1>8. ASSUME NEW p \in Parsers, ClaimBatch(p) PROVE CountInv'
  BY <1>8 DEF ClaimBatch, At, Goto
<1>9. ASSUME NEW p \in Parsers, ClaimRefused(p) PROVE CountInv'
  BY <1>9 DEF ClaimRefused, Return, Goto
<1>10. ASSUME NEW p \in Parsers, ReadBatch(p) PROVE CountInv'
  BY <1>10 DEF ReadBatch, At, Goto
<1>11. ASSUME NEW p \in Parsers, SetAside(p) PROVE CountInv'
  BY <1>11 DEF SetAside, At, Goto
<1>12. ASSUME NEW p \in Parsers, NoteEmptyFile(p) PROVE CountInv'
  BY <1>12 DEF NoteEmptyFile, Return, Goto
<1>13. ASSUME NEW p \in Parsers, ResumeStaging(p) PROVE CountInv'
  BY <1>13 DEF ResumeStaging, At, Goto
<1>14. ASSUME NEW p \in Parsers, RestartStaging(p) PROVE CountInv'
  BY <1>14 DEF RestartStaging, At, Goto
<1>15. ASSUME NEW p \in Parsers, StageChunk(p) PROVE CountInv'
  BY <1>15 DEF StageChunk
<1>16. ASSUME NEW p \in Parsers, StopStaging(p) PROVE CountInv'
  BY <1>16 DEF StopStaging, At, Goto
<1>17. ASSUME NEW p \in Parsers, Yield(p) PROVE CountInv'
  BY <1>17 DEF Yield, Return, Goto
<1>18. ASSUME NEW p \in Parsers, FinishParse(p) PROVE CountInv'
  BY <1>18 DEF FinishParse, Return, Goto
<1>19. ASSUME NEW p \in Parsers, CatchParse(p) PROVE CountInv'
  BY <1>19 DEF CatchParse, Return, Goto
<1>20. ASSUME NEW p \in Parsers, Throw(p) PROVE CountInv'
  BY <1>20 DEF Throw, Goto, Pending
<1>21. ASSUME NEW p \in Parsers, Die(p) PROVE CountInv'
  BY <1>21 DEF Die, Return, Goto, Pending
<1>22. ASSUME NEW c \in Committers, CommitCheck(c) PROVE CountInv'
  BY <1>22 DEF CommitCheck, CommitStep
<1>23. ASSUME NEW c \in Committers, CommitLoad(c) PROVE CountInv'
  BY <1>23 DEF CommitLoad, CommitStep
<1>24. ASSUME NEW c \in Committers, CommitFlip(c) PROVE CountInv'
  BY <1>24 DEF CommitFlip, CommitStep
<1>25. ASSUME NEW c \in Committers, CommitRefused(c) PROVE CountInv'
  BY <1>25 DEF CommitRefused
<1>26. ASSUME NEW d \in Deleters, DeleteCheck(d) PROVE CountInv'
  BY <1>26 DEF DeleteCheck, DeleteStep
<1>27. ASSUME NEW d \in Deleters, DeleteFile(d) PROVE CountInv'
  BY <1>27 DEF DeleteFile, DeleteStep
<1>28. ASSUME NEW d \in Deleters, DeleteRow(d) PROVE CountInv'
  BY <1>28 DEF DeleteRow, DeleteStep
<1>29. ASSUME NEW d \in Deleters, DeleteFails(d) PROVE CountInv'
  BY <1>29 DEF DeleteFails
<1>30. ASSUME ChangeReference PROVE CountInv'
  BY <1>30 DEF ChangeReference
<1>31. ASSUME Tick PROVE CountInv'
  BY <1>31 DEF Tick
<1>32. ASSUME UNCHANGED vars PROVE CountInv'
  BY <1>32 DEF vars
<1> QED
  BY <1>1, <1>2, <1>3, <1>4, <1>5, <1>6, <1>7, <1>8, <1>9, <1>10, <1>11, <1>12, <1>13,
     <1>14, <1>15, <1>16, <1>17, <1>18, <1>19, <1>20, <1>21, <1>22, <1>23, <1>24, <1>25,
     <1>26, <1>27, <1>28, <1>29, <1>30, <1>31, <1>32
     DEF Next, Upload, Sweep, Parse, Commit, Delete

---------------------------------------------------------------------------
(* What the parsers remember, and what is staged. *)

LEMMA MemoryStep ==
    ASSUME TypeOK, LeaseInv, HolderInv, MemoryInv, RowsInv, [Next]_vars
    PROVE  MemoryInv'
<1> USE FileAssumption
       DEF TypeOK, RowTypeOK, ParserTypeOK, LeaseInv, HolderInv, MemoryInv, RowsInv,
           ExclusiveParser, Exists, Holds, Pending, Live, Done, NoCursor,
           UploadSteps, TrySteps, Steps,
           rowVars, parseVars, requestVars, worldVars
<1>1. ASSUME NEW p \in Parsers, StoreFile(p) PROVE MemoryInv'
  BY <1>1 DEF StoreFile, At, Goto
<1>2. ASSUME NEW p \in Parsers, StoreFails(p) PROVE MemoryInv'
  BY <1>2 DEF StoreFails, Return, Goto
<1>3. ASSUME NEW p \in Parsers, MarkParsing(p) PROVE MemoryInv'
  BY <1>3 DEF MarkParsing, At, Goto
<1>4. ASSUME NEW p \in Parsers, SweepRead(p) PROVE MemoryInv'
  BY <1>4 DEF SweepRead, Goto
<1>5. ASSUME NEW p \in Parsers, SweepBump(p) PROVE MemoryInv'
  BY <1>5 DEF SweepBump, Goto
<1>6. ASSUME NEW p \in Parsers, SweepLost(p) PROVE MemoryInv'
  BY <1>6 DEF SweepLost, Return, Goto
<1>7. ASSUME NEW p \in Parsers, SweepFail(p) PROVE MemoryInv'
  BY <1>7 DEF SweepFail, Return, Goto
<1>8. ASSUME NEW p \in Parsers, ClaimBatch(p) PROVE MemoryInv'
  BY <1>8 DEF ClaimBatch, At, Goto
<1>9. ASSUME NEW p \in Parsers, ClaimRefused(p) PROVE MemoryInv'
  BY <1>9 DEF ClaimRefused, Return, Goto
<1>10. ASSUME NEW p \in Parsers, ReadBatch(p) PROVE MemoryInv'
  BY <1>10 DEF ReadBatch, At, Goto, StagingStart
<1>11. ASSUME NEW p \in Parsers, SetAside(p) PROVE MemoryInv'
  BY <1>11 DEF SetAside, At, Goto
<1>12. ASSUME NEW p \in Parsers, NoteEmptyFile(p) PROVE MemoryInv'
  BY <1>12 DEF NoteEmptyFile, Return, Goto
<1>13. ASSUME NEW p \in Parsers, ResumeStaging(p) PROVE MemoryInv'
  BY <1>13 DEF ResumeStaging, At, Goto
<1>14. ASSUME NEW p \in Parsers, RestartStaging(p) PROVE MemoryInv'
  BY <1>14 DEF RestartStaging, At, Goto
<1>15. ASSUME NEW p \in Parsers, StageChunk(p) PROVE MemoryInv'
  BY <1>15 DEF StageChunk
<1>16. ASSUME NEW p \in Parsers, StopStaging(p) PROVE MemoryInv'
  BY <1>16 DEF StopStaging, At, Goto
<1>17. ASSUME NEW p \in Parsers, Yield(p) PROVE MemoryInv'
  BY <1>17 DEF Yield, Return, Goto
<1>18. ASSUME NEW p \in Parsers, FinishParse(p) PROVE MemoryInv'
  BY <1>18 DEF FinishParse, Return, Goto
<1>19. ASSUME NEW p \in Parsers, CatchParse(p) PROVE MemoryInv'
  BY <1>19 DEF CatchParse, Return, Goto
<1>20. ASSUME NEW p \in Parsers, Throw(p) PROVE MemoryInv'
  BY <1>20 DEF Throw, Goto, Pending
<1>21. ASSUME NEW p \in Parsers, Die(p) PROVE MemoryInv'
  BY <1>21 DEF Die, Return, Goto, Pending
<1>22. ASSUME NEW c \in Committers, CommitCheck(c) PROVE MemoryInv'
  BY <1>22 DEF CommitCheck, CommitStep
<1>23. ASSUME NEW c \in Committers, CommitLoad(c) PROVE MemoryInv'
  BY <1>23 DEF CommitLoad, CommitStep
<1>24. ASSUME NEW c \in Committers, CommitFlip(c) PROVE MemoryInv'
  BY <1>24 DEF CommitFlip, CommitStep
<1>25. ASSUME NEW c \in Committers, CommitRefused(c) PROVE MemoryInv'
  BY <1>25 DEF CommitRefused
<1>26. ASSUME NEW d \in Deleters, DeleteCheck(d) PROVE MemoryInv'
  BY <1>26 DEF DeleteCheck, DeleteStep
<1>27. ASSUME NEW d \in Deleters, DeleteFile(d) PROVE MemoryInv'
  BY <1>27 DEF DeleteFile, DeleteStep
<1>28. ASSUME NEW d \in Deleters, DeleteRow(d) PROVE MemoryInv'
  BY <1>28 DEF DeleteRow, DeleteStep
<1>29. ASSUME NEW d \in Deleters, DeleteFails(d) PROVE MemoryInv'
  BY <1>29 DEF DeleteFails
<1>30. ASSUME ChangeReference PROVE MemoryInv'
  BY <1>30 DEF ChangeReference
<1>31. ASSUME Tick PROVE MemoryInv'
  BY <1>31 DEF Tick
<1>32. ASSUME UNCHANGED vars PROVE MemoryInv'
  BY <1>32 DEF vars
<1> QED
  BY <1>1, <1>2, <1>3, <1>4, <1>5, <1>6, <1>7, <1>8, <1>9, <1>10, <1>11, <1>12, <1>13,
     <1>14, <1>15, <1>16, <1>17, <1>18, <1>19, <1>20, <1>21, <1>22, <1>23, <1>24, <1>25,
     <1>26, <1>27, <1>28, <1>29, <1>30, <1>31, <1>32
     DEF Next, Upload, Sweep, Parse, Commit, Delete

LEMMA RowsStep ==
    ASSUME TypeOK, LeaseInv, HolderInv, MemoryInv, RowsInv, [Next]_vars
    PROVE  RowsInv'
<1> USE FileAssumption
       DEF TypeOK, RowTypeOK, ParserTypeOK, LeaseInv, HolderInv, MemoryInv, RowsInv,
           CursorMatchesRows, ReadyIsWhole, Whole, Prefix, Ready,
           ExclusiveParser, Exists, Holds, Pending, Live, Done, NoCursor,
           ChunkRow, UploadSteps, TrySteps, Steps,
           rowVars, parseVars, requestVars, worldVars
<1>1. ASSUME NEW p \in Parsers, StoreFile(p) PROVE RowsInv'
  BY <1>1 DEF StoreFile, At, Goto
<1>2. ASSUME NEW p \in Parsers, StoreFails(p) PROVE RowsInv'
  BY <1>2 DEF StoreFails, Return, Goto
<1>3. ASSUME NEW p \in Parsers, MarkParsing(p) PROVE RowsInv'
  BY <1>3 DEF MarkParsing, At, Goto
<1>4. ASSUME NEW p \in Parsers, SweepRead(p) PROVE RowsInv'
  BY <1>4 DEF SweepRead, Goto
<1>5. ASSUME NEW p \in Parsers, SweepBump(p) PROVE RowsInv'
  BY <1>5 DEF SweepBump, Goto
<1>6. ASSUME NEW p \in Parsers, SweepLost(p) PROVE RowsInv'
  BY <1>6 DEF SweepLost, Return, Goto
<1>7. ASSUME NEW p \in Parsers, SweepFail(p) PROVE RowsInv'
  BY <1>7 DEF SweepFail, Return, Goto
<1>8. ASSUME NEW p \in Parsers, ClaimBatch(p) PROVE RowsInv'
  BY <1>8 DEF ClaimBatch, At, Goto
<1>9. ASSUME NEW p \in Parsers, ClaimRefused(p) PROVE RowsInv'
  BY <1>9 DEF ClaimRefused, Return, Goto
<1>10. ASSUME NEW p \in Parsers, ReadBatch(p) PROVE RowsInv'
  BY <1>10 DEF ReadBatch, At, Goto
<1>11. ASSUME NEW p \in Parsers, SetAside(p) PROVE RowsInv'
  BY <1>11 DEF SetAside, At, Goto
<1>12. ASSUME NEW p \in Parsers, NoteEmptyFile(p) PROVE RowsInv'
  BY <1>12 DEF NoteEmptyFile, Return, Goto
<1>13. ASSUME NEW p \in Parsers, ResumeStaging(p) PROVE RowsInv'
  BY <1>13 DEF ResumeStaging, At, Goto
<1>14. ASSUME NEW p \in Parsers, RestartStaging(p) PROVE RowsInv'
  BY <1>14 DEF RestartStaging, At, Goto
<1>15. ASSUME NEW p \in Parsers, StageChunk(p) PROVE RowsInv'
  <2> DEFINE new == [chunk |-> at[p] + 1, under |-> under[p]]
  <2>1. /\ Exists /\ pc[p] = "stage" /\ at[p] < size
        /\ staged' = Append(staged, new) /\ cursor' = at[p] + 1
        /\ UNCHANGED <<state, print, size>>
    BY <1>15 DEF StageChunk
  <2>2. /\ at[p] = Done /\ under[p] = print /\ at[p] \in Nat /\ Len(staged) = at[p]
        /\ new \in ChunkRow /\ staged \in Seq(ChunkRow)
    BY <2>1
  <2>3. /\ Len(staged') = at[p] + 1 /\ staged'[at[p] + 1] = new
        /\ \A i \in 1 .. at[p] : staged'[i] = staged[i]
    BY <2>1, <2>2, AppendProperties
  <2>4. \A i \in 1 .. at[p] : staged[i].chunk = i /\ staged[i].under = print
    BY <2>1, <2>2
  <2>5. \A i \in 1 .. (at[p] + 1) : staged'[i].chunk = i /\ staged'[i].under = print
    <3> TAKE i \in 1 .. (at[p] + 1)
    <3>1. CASE i \in 1 .. at[p]
      BY <2>3, <2>4, <3>1
    <3>2. CASE i = at[p] + 1
      BY <2>2, <2>3, <3>2
    <3> QED
      BY <2>2, <3>1, <3>2
  <2>6. Done' = at[p] + 1 /\ staged'[1].under = print
    BY <2>1, <2>2, <2>5
  <2>7. CursorMatchesRows'
    BY <2>1, <2>2, <2>3, <2>5, <2>6
  <2> QED
    BY <2>1, <2>2, <2>6, <2>7
<1>16. ASSUME NEW p \in Parsers, StopStaging(p) PROVE RowsInv'
  BY <1>16 DEF StopStaging, At, Goto
<1>17. ASSUME NEW p \in Parsers, Yield(p) PROVE RowsInv'
  BY <1>17 DEF Yield, Return, Goto
<1>18. ASSUME NEW p \in Parsers, FinishParse(p) PROVE RowsInv'
  <2>1. /\ Exists /\ pc[p] = "finish" /\ UNCHANGED <<cursor, print, size, staged>>
        /\ state' \in {"ready_to_commit", "needs_attention", "failed"}
        /\ state' = "ready_to_commit" => under[p] \in CleanUnder
    BY <1>18 DEF FinishParse
  <2>2. Done = size /\ under[p] = print /\ Prefix(staged, size)
    BY <2>1
  <2>3. \A i \in 1 .. size : staged[i].under = print
    BY <2>1, <2>2
  <2> QED
    BY <2>1, <2>2, <2>3
<1>19. ASSUME NEW p \in Parsers, CatchParse(p) PROVE RowsInv'
  BY <1>19 DEF CatchParse, Return, Goto
<1>20. ASSUME NEW p \in Parsers, Throw(p) PROVE RowsInv'
  BY <1>20 DEF Throw, Goto, Pending
<1>21. ASSUME NEW p \in Parsers, Die(p) PROVE RowsInv'
  BY <1>21 DEF Die, Return, Goto, Pending
<1>22. ASSUME NEW c \in Committers, CommitCheck(c) PROVE RowsInv'
  BY <1>22 DEF CommitCheck, CommitStep
<1>23. ASSUME NEW c \in Committers, CommitLoad(c) PROVE RowsInv'
  BY <1>23 DEF CommitLoad, CommitStep
<1>24. ASSUME NEW c \in Committers, CommitFlip(c) PROVE RowsInv'
  BY <1>24 DEF CommitFlip, CommitStep
<1>25. ASSUME NEW c \in Committers, CommitRefused(c) PROVE RowsInv'
  BY <1>25 DEF CommitRefused
<1>26. ASSUME NEW d \in Deleters, DeleteCheck(d) PROVE RowsInv'
  BY <1>26 DEF DeleteCheck, DeleteStep
<1>27. ASSUME NEW d \in Deleters, DeleteFile(d) PROVE RowsInv'
  BY <1>27 DEF DeleteFile, DeleteStep
<1>28. ASSUME NEW d \in Deleters, DeleteRow(d) PROVE RowsInv'
  BY <1>28 DEF DeleteRow, DeleteStep
<1>29. ASSUME NEW d \in Deleters, DeleteFails(d) PROVE RowsInv'
  BY <1>29 DEF DeleteFails
<1>30. ASSUME ChangeReference PROVE RowsInv'
  BY <1>30 DEF ChangeReference
<1>31. ASSUME Tick PROVE RowsInv'
  BY <1>31 DEF Tick
<1>32. ASSUME UNCHANGED vars PROVE RowsInv'
  BY <1>32 DEF vars
<1> QED
  BY <1>1, <1>2, <1>3, <1>4, <1>5, <1>6, <1>7, <1>8, <1>9, <1>10, <1>11, <1>12, <1>13,
     <1>14, <1>15, <1>16, <1>17, <1>18, <1>19, <1>20, <1>21, <1>22, <1>23, <1>24, <1>25,
     <1>26, <1>27, <1>28, <1>29, <1>30, <1>31, <1>32
     DEF Next, Upload, Sweep, Parse, Commit, Delete

---------------------------------------------------------------------------
(* What is committed. *)

LEMMA AllRowsReady ==
    ASSUME NEW rows \in Seq(ChunkRow), \A i \in 1 .. Len(rows) : Ready(rows[i])
    PROVE  ReadyRows(rows) = rows
<1> DEFINE ready == {i \in 1 .. Len(rows) : Ready(rows[i])}
           Nth(n) == CHOOSE i \in ready : Cardinality({j \in ready : j <= i}) = n
<1>1. Len(rows) \in Nat /\ DOMAIN rows = 1 .. Len(rows) /\ ready = 1 .. Len(rows)
  BY LenProperties
<1>2. ASSUME NEW i \in ready PROVE Cardinality({j \in ready : j <= i}) = i
  <2>1. i \in Nat /\ i >= 1 /\ {j \in ready : j <= i} = 1 .. i
    BY <1>1, <1>2
  <2>2. Cardinality(1 .. i) = i
    BY <2>1, FS_Interval
  <2> QED
    BY <2>1, <2>2
<1>3. ASSUME NEW n \in 1 .. Len(rows) PROVE Nth(n) = n
  BY <1>1, <1>2
<1>4. Cardinality(ready) = Len(rows)
  <2>1. \A n \in Nat : Cardinality(1 .. n) = n
    BY FS_Interval
  <2> QED
    BY <1>1, <2>1
<1>5. ReadyRows(rows) = [n \in 1 .. Len(rows) |-> rows[Nth(n)]]
  BY <1>4 DEF ReadyRows
<1>6. ReadyRows(rows) = [n \in 1 .. Len(rows) |-> rows[n]]
  <2> HIDE DEF Nth
  <2> QED
    BY <1>3, <1>5
<1> QED
  BY <1>1, <1>6

\* The rows a commit loads are the whole file, and each is ready.
LEMMA LoadedWhole ==
    ASSUME TypeOK, RowsInv, CommitInv, NEW c \in Committers, CommitLoad(c)
    PROVE  /\ mine' = [mine EXCEPT ![c] = staged]
           /\ staged \in Seq(ChunkRow) /\ Whole(staged)
<1>1. /\ cpc[c] = "load" /\ mine' = [mine EXCEPT ![c] = ReadyRows(staged)]
      /\ ReadyRows(staged) # <<>>
  BY DEF CommitLoad, CommitStep, TypeOK, RequestTypeOK
<1>2. staged \in Seq(ChunkRow)
  BY DEF TypeOK, RowTypeOK
<1>3. state # "deleted"
  <2> SUFFICES ASSUME state = "deleted" PROVE FALSE
    OBVIOUS
  <2>1. staged = <<>>
    BY DEF RowsInv
  <2>2. \A i \in 1 .. Len(staged) : Ready(staged[i])
    BY <2>1
  <2> QED
    BY <1>1, <1>2, <2>1, <2>2, AllRowsReady
<1>4. Whole(staged)
  BY <1>1, <1>3 DEF CommitInv, RowsInv, ReadyIsWhole, Whole
<1>5. ReadyRows(staged) = staged
  BY <1>2, <1>4, AllRowsReady DEF Whole, Prefix
<1> QED
  BY <1>1, <1>2, <1>4, <1>5

LEMMA CommittedStep ==
    ASSUME TypeOK, LeaseInv, HolderInv, RowsInv, CommitInv, [Next]_vars
    PROVE  CommitInv'
<1> USE DEF TypeOK, RowTypeOK, ParserTypeOK, RequestTypeOK, LeaseInv, HolderInv, RowsInv, CommitInv,
           ReadyIsWhole, WholeFileOrNothing, Whole, Prefix, Ready, ExclusiveParser, Exists,
           Holds, Pending, Live, UploadSteps, TrySteps, Steps,
           rowVars, parseVars, requestVars, worldVars
<1>1. ASSUME NEW p \in Parsers, StoreFile(p) PROVE CommitInv'
  BY <1>1 DEF StoreFile, At, Goto
<1>2. ASSUME NEW p \in Parsers, StoreFails(p) PROVE CommitInv'
  BY <1>2 DEF StoreFails, Return, Goto
<1>3. ASSUME NEW p \in Parsers, MarkParsing(p) PROVE CommitInv'
  BY <1>3 DEF MarkParsing, At, Goto
<1>4. ASSUME NEW p \in Parsers, SweepRead(p) PROVE CommitInv'
  BY <1>4 DEF SweepRead, Goto
<1>5. ASSUME NEW p \in Parsers, SweepBump(p) PROVE CommitInv'
  BY <1>5 DEF SweepBump, Goto
<1>6. ASSUME NEW p \in Parsers, SweepLost(p) PROVE CommitInv'
  BY <1>6 DEF SweepLost, Return, Goto
<1>7. ASSUME NEW p \in Parsers, SweepFail(p) PROVE CommitInv'
  BY <1>7 DEF SweepFail, Return, Goto
<1>8. ASSUME NEW p \in Parsers, ClaimBatch(p) PROVE CommitInv'
  BY <1>8 DEF ClaimBatch, At, Goto
<1>9. ASSUME NEW p \in Parsers, ClaimRefused(p) PROVE CommitInv'
  BY <1>9 DEF ClaimRefused, Return, Goto
<1>10. ASSUME NEW p \in Parsers, ReadBatch(p) PROVE CommitInv'
  BY <1>10 DEF ReadBatch, At, Goto
<1>11. ASSUME NEW p \in Parsers, SetAside(p) PROVE CommitInv'
  BY <1>11 DEF SetAside, At, Goto
<1>12. ASSUME NEW p \in Parsers, NoteEmptyFile(p) PROVE CommitInv'
  BY <1>12 DEF NoteEmptyFile, Return, Goto
<1>13. ASSUME NEW p \in Parsers, ResumeStaging(p) PROVE CommitInv'
  BY <1>13 DEF ResumeStaging, At, Goto
<1>14. ASSUME NEW p \in Parsers, RestartStaging(p) PROVE CommitInv'
  BY <1>14 DEF RestartStaging, At, Goto
<1>15. ASSUME NEW p \in Parsers, StageChunk(p) PROVE CommitInv'
  BY <1>15 DEF StageChunk
<1>16. ASSUME NEW p \in Parsers, StopStaging(p) PROVE CommitInv'
  BY <1>16 DEF StopStaging, At, Goto
<1>17. ASSUME NEW p \in Parsers, Yield(p) PROVE CommitInv'
  BY <1>17 DEF Yield, Return, Goto
<1>18. ASSUME NEW p \in Parsers, FinishParse(p) PROVE CommitInv'
  BY <1>18 DEF FinishParse, Return, Goto
<1>19. ASSUME NEW p \in Parsers, CatchParse(p) PROVE CommitInv'
  BY <1>19 DEF CatchParse, Return, Goto
<1>20. ASSUME NEW p \in Parsers, Throw(p) PROVE CommitInv'
  BY <1>20 DEF Throw, Goto, Pending
<1>21. ASSUME NEW p \in Parsers, Die(p) PROVE CommitInv'
  BY <1>21 DEF Die, Return, Goto, Pending
<1>22. ASSUME NEW c \in Committers, CommitCheck(c) PROVE CommitInv'
  BY <1>22 DEF CommitCheck, CommitStep
<1>23. ASSUME NEW c \in Committers, CommitLoad(c) PROVE CommitInv'
  <2>1. /\ mine' = [mine EXCEPT ![c] = staged] /\ Whole(staged)
        /\ cpc' = [cpc EXCEPT ![c] = "flip"]
        /\ UNCHANGED <<state, size, staged, records>>
    BY <1>23, LoadedWhole DEF CommitLoad, CommitStep
  <2> QED
    BY <2>1
<1>24. ASSUME NEW c \in Committers, CommitFlip(c) PROVE CommitInv'
  <2>1. /\ cpc[c] = "flip" /\ cpc' = [cpc EXCEPT ![c] = "idle"]
        /\ mine' = [mine EXCEPT ![c] = <<>>] /\ UNCHANGED <<size, staged>>
    BY <1>24 DEF CommitFlip, CommitStep
  <2>2. CASE state = "ready_to_commit"
    <3>1. records = <<>> /\ mine[c] \in Seq(ChunkRow)
      BY <2>2
    <3>2. state' = "committed" /\ records' = mine[c]
      BY <1>24, <2>2, <3>1, ConcatEmptySeq DEF CommitFlip
    <3> QED
      BY <2>1, <2>2, <3>2
  <2>3. CASE state # "ready_to_commit"
    BY <1>24, <2>1, <2>3 DEF CommitFlip
  <2> QED
    BY <2>2, <2>3
<1>25. ASSUME NEW c \in Committers, CommitRefused(c) PROVE CommitInv'
  BY <1>25 DEF CommitRefused
<1>26. ASSUME NEW d \in Deleters, DeleteCheck(d) PROVE CommitInv'
  BY <1>26 DEF DeleteCheck, DeleteStep
<1>27. ASSUME NEW d \in Deleters, DeleteFile(d) PROVE CommitInv'
  BY <1>27 DEF DeleteFile, DeleteStep
<1>28. ASSUME NEW d \in Deleters, DeleteRow(d) PROVE CommitInv'
  BY <1>28 DEF DeleteRow, DeleteStep
<1>29. ASSUME NEW d \in Deleters, DeleteFails(d) PROVE CommitInv'
  BY <1>29 DEF DeleteFails
<1>30. ASSUME ChangeReference PROVE CommitInv'
  BY <1>30 DEF ChangeReference
<1>31. ASSUME Tick PROVE CommitInv'
  BY <1>31 DEF Tick
<1>32. ASSUME UNCHANGED vars PROVE CommitInv'
  BY <1>32 DEF vars
<1> QED
  BY <1>1, <1>2, <1>3, <1>4, <1>5, <1>6, <1>7, <1>8, <1>9, <1>10, <1>11, <1>12, <1>13,
     <1>14, <1>15, <1>16, <1>17, <1>18, <1>19, <1>20, <1>21, <1>22, <1>23, <1>24, <1>25,
     <1>26, <1>27, <1>28, <1>29, <1>30, <1>31, <1>32
     DEF Next, Upload, Sweep, Parse, Commit, Delete

---------------------------------------------------------------------------
(* Types. *)

LEMMA TypeStep ==
    ASSUME TypeOK, LeaseInv, HolderInv, CountInv, MemoryInv, RowsInv, CommitInv, [Next]_vars
    PROVE  TypeOK'
<1> USE FileAssumption, BudgetAssumption, LeaseAssumption
       DEF TypeOK, RowTypeOK, ParserTypeOK, RequestTypeOK, Exists, Live, Prints, NoCursor,
           UploadSteps, TrySteps, Steps,
           rowVars, parseVars, requestVars, worldVars
<1>1. ASSUME NEW p \in Parsers, StoreFile(p) PROVE TypeOK'
  BY <1>1 DEF StoreFile, At, Goto
<1>2. ASSUME NEW p \in Parsers, StoreFails(p) PROVE TypeOK'
  BY <1>2 DEF StoreFails, Return, Goto
<1>3. ASSUME NEW p \in Parsers, MarkParsing(p) PROVE TypeOK'
  BY <1>3 DEF MarkParsing, At, Goto
<1>4. ASSUME NEW p \in Parsers, SweepRead(p) PROVE TypeOK'
  BY <1>4 DEF SweepRead, Goto, DecideStalled
<1>5. ASSUME NEW p \in Parsers, SweepBump(p) PROVE TypeOK'
  BY <1>5 DEF SweepBump, Goto
<1>6. ASSUME NEW p \in Parsers, SweepLost(p) PROVE TypeOK'
  BY <1>6 DEF SweepLost, Return, Goto
<1>7. ASSUME NEW p \in Parsers, SweepFail(p) PROVE TypeOK'
  BY <1>7 DEF SweepFail, Return, Goto
<1>8. ASSUME NEW p \in Parsers, ClaimBatch(p) PROVE TypeOK'
  BY <1>8 DEF ClaimBatch, At, Goto
<1>9. ASSUME NEW p \in Parsers, ClaimRefused(p) PROVE TypeOK'
  BY <1>9 DEF ClaimRefused, Return, Goto
<1>10. ASSUME NEW p \in Parsers, ReadBatch(p) PROVE TypeOK'
  BY <1>10 DEF ReadBatch, At, Goto, StagingStart
<1>11. ASSUME NEW p \in Parsers, SetAside(p) PROVE TypeOK'
  BY <1>11 DEF SetAside, At, Goto
<1>12. ASSUME NEW p \in Parsers, NoteEmptyFile(p) PROVE TypeOK'
  BY <1>12 DEF NoteEmptyFile, Return, Goto
<1>13. ASSUME NEW p \in Parsers, ResumeStaging(p) PROVE TypeOK'
  BY <1>13 DEF ResumeStaging, At, Goto
<1>14. ASSUME NEW p \in Parsers, RestartStaging(p) PROVE TypeOK'
  BY <1>14 DEF RestartStaging, At, Goto
<1>15. ASSUME NEW p \in Parsers, StageChunk(p) PROVE TypeOK'
  <2> DEFINE new == [chunk |-> at[p] + 1, under |-> under[p]]
  <2>1. /\ at[p] \in Nat /\ at[p] < size /\ new \in ChunkRow
    BY <1>15 DEF StageChunk, MemoryInv, Done, ChunkRow
  <2>2. staged' = Append(staged, new) /\ staged' \in Seq(ChunkRow)
    BY <1>15, <2>1, AppendProperties DEF StageChunk
  <2>3. at[p] + 1 \in 0 .. Chunks
    BY <2>1
  <2> QED
    BY <1>15, <2>2, <2>3 DEF StageChunk
<1>16. ASSUME NEW p \in Parsers, StopStaging(p) PROVE TypeOK'
  BY <1>16 DEF StopStaging, At, Goto
<1>17. ASSUME NEW p \in Parsers, Yield(p) PROVE TypeOK'
  <2>1. pc[p] = "refund" /\ (Exists => state = "parsing" /\ attempts = fruitless + 1)
    BY <1>17 DEF Yield, CountInv, HolderInv, Holds, Starting, Pending
  <2>2. attempts' \in Nat /\ fruitless' \in Nat /\ quiet' \in 0 .. StaleAfter
    BY <1>17, <2>1 DEF Yield
  <2> QED
    BY <1>17, <2>2 DEF Yield, Return, Goto
<1>18. ASSUME NEW p \in Parsers, FinishParse(p) PROVE TypeOK'
  BY <1>18 DEF FinishParse, Return, Goto
<1>19. ASSUME NEW p \in Parsers, CatchParse(p) PROVE TypeOK'
  BY <1>19 DEF CatchParse, Return, Goto
<1>20. ASSUME NEW p \in Parsers, Throw(p) PROVE TypeOK'
  BY <1>20 DEF Throw, Goto, Pending
<1>21. ASSUME NEW p \in Parsers, Die(p) PROVE TypeOK'
  BY <1>21 DEF Die, Return, Goto, Pending
<1>22. ASSUME NEW c \in Committers, CommitCheck(c) PROVE TypeOK'
  BY <1>22 DEF CommitCheck, CommitStep
<1>23. ASSUME NEW c \in Committers, CommitLoad(c) PROVE TypeOK'
  <2>1. mine' = [mine EXCEPT ![c] = staged] /\ staged \in Seq(ChunkRow)
    BY <1>23, LoadedWhole
  <2> QED
    BY <1>23, <2>1 DEF CommitLoad, CommitStep
<1>24. ASSUME NEW c \in Committers, CommitFlip(c) PROVE TypeOK'
  <2>1. records \o mine[c] \in Seq(ChunkRow) /\ <<>> \in Seq(ChunkRow)
    BY ConcatProperties, EmptySeq
  <2> QED
    BY <1>24, <2>1 DEF CommitFlip, CommitStep
<1>25. ASSUME NEW c \in Committers, CommitRefused(c) PROVE TypeOK'
  BY <1>25 DEF CommitRefused
<1>26. ASSUME NEW d \in Deleters, DeleteCheck(d) PROVE TypeOK'
  BY <1>26 DEF DeleteCheck, DeleteStep
<1>27. ASSUME NEW d \in Deleters, DeleteFile(d) PROVE TypeOK'
  BY <1>27 DEF DeleteFile, DeleteStep
<1>28. ASSUME NEW d \in Deleters, DeleteRow(d) PROVE TypeOK'
  BY <1>28 DEF DeleteRow, DeleteStep
<1>29. ASSUME NEW d \in Deleters, DeleteFails(d) PROVE TypeOK'
  BY <1>29 DEF DeleteFails
<1>30. ASSUME ChangeReference PROVE TypeOK'
  BY <1>30 DEF ChangeReference
<1>31. ASSUME Tick PROVE TypeOK'
  BY <1>31 DEF Tick
<1>32. ASSUME UNCHANGED vars PROVE TypeOK'
  BY <1>32 DEF vars
<1> QED
  BY <1>1, <1>2, <1>3, <1>4, <1>5, <1>6, <1>7, <1>8, <1>9, <1>10, <1>11, <1>12, <1>13,
     <1>14, <1>15, <1>16, <1>17, <1>18, <1>19, <1>20, <1>21, <1>22, <1>23, <1>24, <1>25,
     <1>26, <1>27, <1>28, <1>29, <1>30, <1>31, <1>32
     DEF Next, Upload, Sweep, Parse, Commit, Delete

---------------------------------------------------------------------------
(* The theorems. *)

LEMMA BatchInit == Init => BatchInv
<1> SUFFICES ASSUME Init PROVE BatchInv
  OBVIOUS
<1>1. TypeOK
  <2>1. RowTypeOK
    <3>1. staged \in Seq(ChunkRow) /\ records \in Seq(ChunkRow)
      BY EmptySeq DEF Init
    <3>2. /\ attempts \in Nat /\ quiet \in 0 .. StaleAfter
          /\ size \in {0, Chunks} /\ ref \in References
      BY BudgetAssumption DEF Init
    <3>3. file \in BOOLEAN /\ cursor \in {NoCursor} \cup 0 .. Chunks /\ print \in Prints
      BY DEF Init, Prints
    <3>4. state \in {"uploaded"}
      BY DEF Init
    <3> QED
      BY <3>1, <3>2, <3>3, <3>4 DEF RowTypeOK
  <2>2. ParserTypeOK
    BY BudgetAssumption DEF Init, ParserTypeOK, Steps, UploadSteps, Prints
  <2>3. RequestTypeOK
    BY EmptySeq DEF Init, RequestTypeOK
  <2> QED
    BY <2>1, <2>2, <2>3 DEF TypeOK
<1>2. LeaseInv /\ HolderInv
  BY DEF Init, LeaseInv, HolderInv, ExclusiveParser, Holds, UploadSteps, TrySteps
<1>3. CountInv
  BY BudgetAssumption DEF Init, CountInv, AttemptsBounded
<1>4. MemoryInv
  BY DEF Init, MemoryInv
<1>5. RowsInv
  BY FileAssumption
     DEF Init, RowsInv, CursorMatchesRows, ReadyIsWhole, Prefix, Done, Exists, NoCursor
<1>6. CommitInv
  BY DEF Init, CommitInv, WholeFileOrNothing
<1> QED
  BY <1>1, <1>2, <1>3, <1>4, <1>5, <1>6 DEF BatchInv

LEMMA BatchStep == BatchInv /\ [Next]_vars => BatchInv'
BY TypeStep, LeaseStep, HolderStep, CountStep, MemoryStep, RowsStep, CommittedStep DEF BatchInv

LEMMA BatchAlways == Spec => []BatchInv
BY BatchInit, BatchStep, PTL DEF Spec

\* Every row, cursor and count of a batch and its invocations has its type.
THEOREM TypeCorrect == Spec => []TypeOK
<1>1. BatchInv => TypeOK
  BY DEF BatchInv
<1> QED
  BY <1>1, BatchAlways, PTL

\* However many sweeps and invocations there are, and whenever they are killed, two of them
\* never parse the batch at once, although nothing in its row names the one that does.
THEOREM OneParser == Spec => []ExclusiveParser
<1>1. BatchInv => ExclusiveParser
  BY DEF BatchInv, LeaseInv
<1> QED
  BY <1>1, BatchAlways, PTL

\* For a file of any length, a batch that is offered or committed is the whole file, each chunk
\* once and in order, validated under one content of the reference data; the records
\* created from it are all of it or none.
THEOREM StagedWholeAlways == Spec => []StagedWhole
<1>1. BatchInv => StagedWhole
  BY DEF BatchInv, RowsInv, CommitInv, StagedWhole
<1> QED
  BY <1>1, BatchAlways, PTL

\* The attempts of a batch count its fruitless starts and the one under way, and never
\* exceed what they may be.
THEOREM AttemptsCountFruitless == Spec => []StartsAreCounted
<1>1. BatchInv => StartsAreCounted
  BY StartingIsCardinality
     DEF BatchInv, LeaseInv, CountInv, StartsAreCounted, OnlyFruitlessStartsCount
<1> QED
  BY <1>1, BatchAlways, PTL
=============================================================================
