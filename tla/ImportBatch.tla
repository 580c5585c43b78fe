----------------------------- MODULE ImportBatch -----------------------------
(***************************************************************************)
(* One import batch in an inline deployment: upload, a parse that stages   *)
(* the file in chunks and yields when its budget is spent, the sweep that  *)
(* resumes a quiet batch, commits, and deletions. Invocations may fail or  *)
(* be killed at any statement, and the reference data a row is validated   *)
(* against may change at any time.                                         *)
(* Source: lib/imports/worker.ts, the imports routes and the import-batches *)
(* sweep.                                                                   *)
(*                                                                         *)
(* A chunk stands for its rows: it is staged with the reference data it was *)
(* validated under, and its rows are ready if the file is clean under it.  *)
(***************************************************************************)
EXTENDS Integers, FiniteSets, Sequences

CONSTANTS
    Parsers,       \* invocations of processImportBatch that may be live at once
    Committers,    \* concurrent commit requests
    Deleters,      \* concurrent delete requests
    Chunks,        \* chunks of a file that is not empty
    References,    \* contents the reference data may have
    CleanUnder,    \* those under which no row of the file has an error
    Budget,        \* INLINE_IMPORT_BUDGET_MS, in ticks
    MaxDuration,   \* the routes' maxDuration, in ticks
    StaleAfter,    \* IMPORT_STALE_MS, in ticks
    MaxAttempts    \* MAX_IMPORT_ATTEMPTS

ASSUME FileAssumption == Chunks \in Nat \ {0} /\ CleanUnder \subseteq References
ASSUME BudgetAssumption ==
    /\ Budget \in Nat /\ MaxDuration \in Nat /\ StaleAfter \in Nat
    /\ MaxAttempts \in Nat \ {0}
\* 60 s against 180 s: no invocation outlives a batch's quiet time.
ASSUME LeaseAssumption == MaxDuration < StaleAfter

VARIABLES
    \* the ImportBatch row and its file
    state,       \* ImportState, "deleted" once the row is gone
    cursor,      \* lastProcessedRowIndex in chunks, NoCursor when null
    print,       \* referenceFingerprint, NoPrint when null
    attempts,    \* processingAttempts
    quiet,       \* ticks since updatedAt, while parsing
    file,        \* the source object is in storage
    size,        \* chunks in the file, 0 for a file without rows
    \* other tables
    staged,      \* StagedActivityRecord rows, in the order they were inserted
    records,     \* ActivityRecord rows created from them
    ref,         \* categories, facilities and business units
    \* invocations that parse
    pc, age,
    at,          \* the loop's cursor
    plan,        \* what stagingStart decided: resume, restart, or discard progress
    under,       \* the reference data this invocation loaded
    moved,       \* it has staged a chunk
    \* commit and delete requests
    cpc, mine, dpc,
    \* history, read by no guard
    fruitless    \* counted starts that stalled, failed, or yielded after discarding rows

rowVars == <<state, cursor, print, attempts, quiet>>
parseVars == <<pc, age, at, plan, under, moved>>
requestVars == <<cpc, mine, dpc>>
worldVars == <<size, ref>>
vars == <<state, cursor, print, attempts, quiet, file, size, staged, records, ref, pc, age, at,
          plan, under, moved, cpc, mine, dpc, fruitless>>

NoCursor == -1
NoPrint == "none"
Prints == References \cup {NoPrint}
ChunkRow == [chunk : 1 .. Chunks, under : References]
Exists == state # "deleted"
Ready(row) == row.under \in CleanUnder

UploadSteps == {"put", "mark"}
TrySteps == {"read", "empty", "note", "start", "stage", "refund", "finish"}
Steps == {"idle", "bump", "giveUp", "claim", "caught"} \cup UploadSteps \cup TrySteps
Live(p) == pc[p] # "idle"
\* The invocation believes that it alone parses the batch.
Holds(p) == pc[p] \in TrySteps \cup {"claim", "giveUp", "caught"}
\* Its start is counted in attempts, and nothing has come of it yet.
Pending(p) == pc[p] \in TrySteps

Init ==
    /\ state = "uploaded" /\ cursor = NoCursor /\ print = NoPrint
    /\ attempts = 0 /\ quiet = 0
    /\ file = FALSE /\ size \in {0, Chunks}
    /\ staged = <<>> /\ records = <<>>
    /\ ref \in References
    /\ \E p \in Parsers : pc = [q \in Parsers |-> IF q = p THEN "put" ELSE "idle"]
    /\ age = [p \in Parsers |-> 0] /\ at = [p \in Parsers |-> NoCursor]
    /\ plan = [p \in Parsers |-> "restart"] /\ under = [p \in Parsers |-> NoPrint]
    /\ moved = [p \in Parsers |-> FALSE]
    /\ cpc = [c \in Committers |-> "idle"] /\ mine = [c \in Committers |-> <<>>]
    /\ dpc = [d \in Deleters |-> "idle"]
    /\ fruitless = 0

Goto(p, step) == pc' = [pc EXCEPT ![p] = step]
At(p, from, to) == pc[p] = from /\ Goto(p, to)
\* The invocation ends: what it had in memory is gone.
Return(p) ==
    /\ Goto(p, "idle")
    /\ age' = [age EXCEPT ![p] = 0]
    /\ at' = [at EXCEPT ![p] = NoCursor]
    /\ plan' = [plan EXCEPT ![p] = "restart"]
    /\ under' = [under EXCEPT ![p] = NoPrint]
    /\ moved' = [moved EXCEPT ![p] = FALSE]

---------------------------------------------------------------------------
(* Faulty variants: each is one definition below with a plausible slip, and   *)
(* breaks the property the project lists it for.                             *)

StageOneMore(p) ==
    /\ Exists
    /\ pc[p] = "stage" /\ at[p] <= size
    /\ cursor' = at[p] + 1 /\ quiet' = 0
    /\ at' = [at EXCEPT ![p] = @ + 1]
    /\ UNCHANGED <<state, print, attempts, file, staged, records, worldVars, pc, age, plan, under,
                   moved, requestVars, fruitless>>

BumpAnyParsing(p) ==
    /\ pc[p] = "bump"
    /\ state = "parsing"
    /\ quiet' = age[p]
    /\ Goto(p, IF plan[p] = "giveUp" THEN "giveUp" ELSE "claim")
    /\ plan' = [plan EXCEPT ![p] = "restart"]
    /\ UNCHANGED <<state, cursor, print, attempts, file, staged, records, worldVars, age, at,
                   under, moved, requestVars, fruitless>>

FlipUnconditionally(c) ==
    /\ cpc[c] = "flip"
    /\ cpc' = [cpc EXCEPT ![c] = "idle"]
    /\ state' = IF Exists THEN "committed" ELSE state
    /\ records' = records \o mine[c]
    /\ mine' = [mine EXCEPT ![c] = <<>>]
    /\ UNCHANGED <<cursor, print, attempts, quiet, file, staged, worldVars, parseVars, dpc, fruitless>>

YieldKeepingCount(p) ==
    /\ pc[p] = "refund"
    /\ fruitless' = IF plan[p] = "discard" THEN fruitless + 1 ELSE fruitless
    /\ Return(p)
    /\ UNCHANGED <<rowVars, file, staged, records, worldVars, requestVars>>

RefundDiscarded(p) ==
    /\ pc[p] = "refund"
    /\ attempts' = attempts - 1 /\ quiet' = 0
    /\ Return(p)
    /\ UNCHANGED <<state, cursor, print, file, staged, records, worldVars, requestVars, fruitless>>

---------------------------------------------------------------------------
(* Upload *)

StoreFile(p) ==
    /\ At(p, "put", "mark")
    /\ file' = TRUE
    /\ UNCHANGED <<rowVars, staged, records, worldVars, age, at, plan, under, moved, requestVars,
                   fruitless>>

\* The orphan row is deleted again; that may fail too.
StoreFails(p) ==
    /\ pc[p] = "put"
    /\ state' \in {state, "deleted"}
    /\ Return(p)
    /\ UNCHANGED <<cursor, print, attempts, quiet, file, staged, records, worldVars, requestVars,
                   fruitless>>

\* The upload goes on to dispatch the parse in its own invocation.
MarkParsing(p) ==
    /\ Exists
    /\ At(p, "mark", "claim")
    /\ state' = "parsing" /\ quiet' = 0
    /\ UNCHANGED <<cursor, print, attempts, file, staged, records, worldVars, age, at, plan, under,
                   moved, requestVars, fruitless>>

---------------------------------------------------------------------------
(* The sweep takes a batch that has been parsing and quiet for too long *)

DecideStalled == IF attempts >= MaxAttempts THEN "giveUp" ELSE "retry"

SweepRead(p) ==
    /\ pc[p] = "idle"
    /\ state = "parsing" /\ quiet >= StaleAfter
    /\ Goto(p, "bump")
    /\ plan' = [plan EXCEPT ![p] = DecideStalled]
    /\ UNCHANGED <<rowVars, file, staged, records, worldVars, age, at, under, moved, requestVars,
                   fruitless>>

\* updatedAt is set to the time the sweep started, if nothing wrote the row since.
SweepBump(p) ==
    /\ pc[p] = "bump"
    /\ state = "parsing" /\ quiet >= StaleAfter
    /\ quiet' = age[p]
    /\ Goto(p, IF plan[p] = "giveUp" THEN "giveUp" ELSE "claim")
    /\ plan' = [plan EXCEPT ![p] = "restart"]
    /\ UNCHANGED <<state, cursor, print, attempts, file, staged, records, worldVars, age, at,
                   under, moved, requestVars, fruitless>>

SweepLost(p) ==
    /\ pc[p] = "bump"
    /\ state # "parsing" \/ quiet < StaleAfter
    /\ Return(p)
    /\ UNCHANGED <<rowVars, file, staged, records, worldVars, requestVars, fruitless>>

SweepFail(p) ==
    /\ pc[p] = "giveUp"
    /\ IF Exists THEN state' = "failed" /\ quiet' = 0 ELSE UNCHANGED <<state, quiet>>
    /\ Return(p)
    /\ UNCHANGED <<cursor, print, attempts, file, staged, records, worldVars, requestVars, fruitless>>

---------------------------------------------------------------------------
(* processImportBatch *)

ClaimBatch(p) ==
    /\ At(p, "claim", "read")
    /\ state \in {"uploaded", "parsing"}
    /\ state' = "parsing" /\ attempts' = attempts + 1 /\ quiet' = 0
    /\ UNCHANGED <<cursor, print, file, staged, records, worldVars, age, at, plan, under, moved,
                   requestVars, fruitless>>

ClaimRefused(p) ==
    /\ pc[p] = "claim"
    /\ state \notin {"uploaded", "parsing"}
    /\ Return(p)
    /\ UNCHANGED <<rowVars, file, staged, records, worldVars, requestVars, fruitless>>

\* stagingStart: a cursor is resumed only under the reference data it was staged with.
StagingStart ==
    IF cursor # NoCursor /\ print = ref THEN "resume"
    ELSE IF cursor # NoCursor /\ print # NoPrint THEN "discard" ELSE "restart"

\* The batch, the reference data and the file; rows are validated in memory.
ReadBatch(p) ==
    /\ Exists /\ file
    /\ At(p, "read", IF size = 0 THEN "empty" ELSE "start")
    /\ at' = [at EXCEPT ![p] = cursor]
    /\ under' = [under EXCEPT ![p] = ref]
    /\ plan' = [plan EXCEPT ![p] = StagingStart]
    /\ UNCHANGED <<rowVars, file, staged, records, worldVars, age, moved, requestVars, fruitless>>

SetAside(p) ==
    /\ Exists
    /\ At(p, "empty", "note")
    /\ state' = "needs_attention" /\ quiet' = 0
    /\ UNCHANGED <<cursor, print, attempts, file, staged, records, worldVars, age, at, plan, under,
                   moved, requestVars, fruitless>>

\* The staged row that only says so is left out.
NoteEmptyFile(p) ==
    /\ Exists
    /\ pc[p] = "note"
    /\ Return(p)
    /\ UNCHANGED <<rowVars, file, staged, records, worldVars, requestVars, fruitless>>

ResumeStaging(p) ==
    /\ plan[p] = "resume"
    /\ At(p, "start", "stage")
    /\ UNCHANGED <<rowVars, file, staged, records, worldVars, age, at, plan, under, moved,
                   requestVars, fruitless>>

\* One transaction: staged rows out, cursor cleared, the new fingerprint in.
RestartStaging(p) ==
    /\ Exists /\ plan[p] # "resume"
    /\ At(p, "start", "stage")
    /\ staged' = <<>>
    /\ cursor' = NoCursor /\ print' = under[p] /\ quiet' = 0
    /\ at' = [at EXCEPT ![p] = 0]
    /\ UNCHANGED <<state, attempts, file, records, worldVars, age, plan, under, moved, requestVars,
                   fruitless>>

BudgetSpent(p) == moved[p] /\ age[p] >= Budget

\* One transaction: the chunk's rows and the cursor.
StageChunk(p) ==
    /\ Exists
    /\ pc[p] = "stage" /\ at[p] < size /\ ~BudgetSpent(p)
    /\ staged' = Append(staged, [chunk |-> at[p] + 1, under |-> under[p]])
    /\ cursor' = at[p] + 1 /\ quiet' = 0
    /\ at' = [at EXCEPT ![p] = @ + 1]
    /\ moved' = [moved EXCEPT ![p] = TRUE]
    /\ UNCHANGED <<state, print, attempts, file, records, worldVars, pc, age, plan, under,
                   requestVars, fruitless>>

StopStaging(p) ==
    /\ At(p, "stage", IF at[p] < size THEN "refund" ELSE "finish")
    /\ at[p] < size => BudgetSpent(p)
    /\ UNCHANGED <<rowVars, file, staged, records, worldVars, age, at, plan, under, moved,
                   requestVars, fruitless>>

\* Progress that is kept is not a failed attempt.
Yield(p) ==
    /\ pc[p] = "refund"
    /\ IF plan[p] = "discard"
         THEN fruitless' = fruitless + 1 /\ UNCHANGED <<attempts, quiet>>
         ELSE /\ attempts' = IF Exists THEN attempts - 1 ELSE attempts
              /\ quiet' = 0
              /\ UNCHANGED fruitless
    /\ Return(p)
    /\ UNCHANGED <<state, cursor, print, file, staged, records, worldVars, requestVars>>

\* The state the whole file deserves, whatever the row says by now.
FinishParse(p) ==
    /\ Exists
    /\ pc[p] = "finish"
    /\ state' \in IF under[p] \in CleanUnder THEN {"ready_to_commit"}
                  ELSE {"needs_attention", "failed"}
    /\ quiet' = 0
    /\ Return(p)
    /\ UNCHANGED <<cursor, print, attempts, file, staged, records, worldVars, requestVars, fruitless>>

---------------------------------------------------------------------------
(* Failure: a statement throws, or the invocation is killed *)

Throw(p) ==
    /\ Pending(p)
    /\ Goto(p, "caught")
    /\ fruitless' = fruitless + 1
    /\ UNCHANGED <<rowVars, file, staged, records, worldVars, age, at, plan, under, moved, requestVars>>

\* Only the last attempt fails the batch; the others leave it to the sweep.
CatchParse(p) ==
    /\ pc[p] = "caught"
    /\ IF Exists /\ attempts >= MaxAttempts
         THEN state' = "failed" /\ quiet' = 0
         ELSE UNCHANGED <<state, quiet>>
    /\ Return(p)
    /\ UNCHANGED <<cursor, print, attempts, file, staged, records, worldVars, requestVars, fruitless>>

Die(p) ==
    /\ Live(p)
    /\ fruitless' = IF Pending(p) THEN fruitless + 1 ELSE fruitless
    /\ Return(p)
    /\ UNCHANGED <<rowVars, file, staged, records, worldVars, requestVars>>

---------------------------------------------------------------------------
(* Commit *)

CommitStep(c, from, to) == cpc[c] = from /\ cpc' = [cpc EXCEPT ![c] = to]

CommitCheck(c) ==
    /\ state = "ready_to_commit"
    /\ CommitStep(c, "idle", "load")
    /\ UNCHANGED <<rowVars, file, staged, records, worldVars, parseVars, mine, dpc, fruitless>>

\* The rows that are ready. The query names no order; nothing depends on the one kept here.
ReadyRows(rows) ==
    LET ready == {i \in 1 .. Len(rows) : Ready(rows[i])}
        Nth(n) == CHOOSE i \in ready : Cardinality({j \in ready : j <= i}) = n
    IN  [n \in 1 .. Cardinality(ready) |-> rows[Nth(n)]]

\* The ready rows are read outside the transaction that writes them.
CommitLoad(c) ==
    /\ CommitStep(c, "load", "flip")
    /\ mine' = [mine EXCEPT ![c] = ReadyRows(staged)]
    /\ mine'[c] # <<>>
    /\ UNCHANGED <<rowVars, file, staged, records, worldVars, parseVars, dpc, fruitless>>

CommitFlip(c) ==
    /\ CommitStep(c, "flip", "idle")
    /\ IF state = "ready_to_commit"
         THEN state' = "committed" /\ records' = records \o mine[c]
         ELSE UNCHANGED <<state, records>>
    /\ mine' = [mine EXCEPT ![c] = <<>>]
    /\ UNCHANGED <<cursor, print, attempts, quiet, file, staged, worldVars, parseVars, dpc, fruitless>>

\* No ready rows, billing, a usage limit, possible duplicates, a failed transaction.
CommitRefused(c) ==
    /\ cpc[c] # "idle"
    /\ cpc' = [cpc EXCEPT ![c] = "idle"]
    /\ mine' = [mine EXCEPT ![c] = <<>>]
    /\ UNCHANGED <<rowVars, file, staged, records, worldVars, parseVars, dpc, fruitless>>

---------------------------------------------------------------------------
(* Delete *)

DeleteStep(d, from, to) == dpc[d] = from /\ dpc' = [dpc EXCEPT ![d] = to]

\* Until the upload has marked the batch it names no stored object.
DeleteCheck(d) ==
    /\ Exists /\ state # "committed"
    /\ DeleteStep(d, "idle", IF state = "uploaded" THEN "row" ELSE "file")
    /\ UNCHANGED <<rowVars, file, staged, records, worldVars, parseVars, cpc, mine, fruitless>>

DeleteFile(d) ==
    /\ DeleteStep(d, "file", "row")
    /\ file' \in {file, FALSE}
    /\ UNCHANGED <<rowVars, staged, records, worldVars, parseVars, cpc, mine, fruitless>>

\* Staged rows go with the batch; activity records stay and lose their link to it.
DeleteRow(d) ==
    /\ Exists
    /\ DeleteStep(d, "row", "idle")
    /\ state' = "deleted" /\ quiet' = 0
    /\ staged' = <<>>
    /\ UNCHANGED <<cursor, print, attempts, file, records, worldVars, parseVars, cpc, mine, fruitless>>

DeleteFails(d) ==
    /\ dpc[d] # "idle"
    /\ dpc' = [dpc EXCEPT ![d] = "idle"]
    /\ UNCHANGED <<rowVars, file, staged, records, worldVars, parseVars, cpc, mine, fruitless>>

---------------------------------------------------------------------------
(* The rest of the organisation, and time *)

ChangeReference ==
    /\ ref' \in References \ {ref}
    /\ UNCHANGED <<rowVars, file, size, staged, records, parseVars, requestVars, fruitless>>

\* The platform ends an invocation at MaxDuration: none lives to see a later tick.
Tick ==
    /\ \A p \in Parsers : Live(p) => age[p] < MaxDuration
    /\ quiet' = IF state = "parsing" /\ quiet < StaleAfter THEN quiet + 1 ELSE quiet
    /\ age' = [p \in Parsers |-> IF Live(p) THEN age[p] + 1 ELSE 0]
    /\ <<quiet', age'>> # <<quiet, age>>
    /\ UNCHANGED <<state, cursor, print, attempts, file, staged, records, worldVars, pc, at, plan,
                   under, moved, requestVars, fruitless>>

---------------------------------------------------------------------------

Upload(p) == StoreFile(p) \/ StoreFails(p) \/ MarkParsing(p)
Sweep(p) == SweepBump(p) \/ SweepLost(p) \/ SweepFail(p)

Parse(p) ==
    \/ ClaimBatch(p) \/ ClaimRefused(p) \/ ReadBatch(p) \/ SetAside(p) \/ NoteEmptyFile(p)
    \/ ResumeStaging(p) \/ RestartStaging(p) \/ StageChunk(p) \/ StopStaging(p) \/ Yield(p)
    \/ FinishParse(p) \/ CatchParse(p)

Commit(c) == CommitCheck(c) \/ CommitLoad(c) \/ CommitFlip(c) \/ CommitRefused(c)
Delete(d) == DeleteCheck(d) \/ DeleteFile(d) \/ DeleteRow(d) \/ DeleteFails(d)

Next ==
    \/ \E p \in Parsers :
         \/ Upload(p) \/ SweepRead(p) \/ Sweep(p) \/ Parse(p) \/ Throw(p) \/ Die(p)
    \/ \E c \in Committers : Commit(c)
    \/ \E d \in Deleters : Delete(d)
    \/ ChangeReference
    \/ Tick

Spec == Init /\ [][Next]_vars

\* Time passes, the sweep is called by cron, and a live invocation executes its
\* next statement or fails. Of the sweeps that find the batch, not all die before they
\* have claimed it or given it up.
Fairness ==
    /\ WF_vars(Tick)
    /\ WF_vars(\E p \in Parsers : SweepRead(p))
    /\ \A p \in Parsers :
         /\ WF_vars(Upload(p) \/ Sweep(p) \/ Parse(p))
         /\ WF_vars(pc[p] = "read" /\ ~file /\ Throw(p))
         /\ SF_vars(SweepBump(p)) /\ SF_vars(SweepFail(p)) /\ SF_vars(ClaimBatch(p))

FairSpec == Spec /\ Fairness

---------------------------------------------------------------------------
(* Properties *)

RowTypeOK ==
    /\ state \in {"uploaded", "parsing", "ready_to_commit", "needs_attention", "failed",
                  "committed", "deleted"}
    /\ cursor \in {NoCursor} \cup 0 .. Chunks
    /\ print \in Prints
    /\ attempts \in Nat /\ quiet \in 0 .. StaleAfter
    /\ file \in BOOLEAN /\ size \in {0, Chunks}
    /\ staged \in Seq(ChunkRow) /\ records \in Seq(ChunkRow)
    /\ ref \in References

ParserTypeOK ==
    /\ pc \in [Parsers -> Steps]
    /\ age \in [Parsers -> 0 .. MaxDuration]
    /\ at \in [Parsers -> {NoCursor} \cup 0 .. Chunks]
    /\ plan \in [Parsers -> {"resume", "restart", "discard", "giveUp", "retry"}]
    /\ under \in [Parsers -> Prints]
    /\ moved \in [Parsers -> BOOLEAN]

RequestTypeOK ==
    /\ cpc \in [Committers -> {"idle", "load", "flip"}]
    /\ mine \in [Committers -> Seq(ChunkRow)]
    /\ dpc \in [Deleters -> {"idle", "file", "row"}]
    /\ fruitless \in Nat

TypeOK == RowTypeOK /\ ParserTypeOK /\ RequestTypeOK

\* The first n chunks of the file, each once and in order, under one content of the
\* reference data.
Prefix(rows, n) ==
    /\ Len(rows) = n
    /\ \A i \in 1 .. n : rows[i].chunk = i /\ rows[i].under = rows[1].under

\* A batch has one parser: the sweep only resumes what nobody parses any more.
ExclusiveParser == \A p, q \in Parsers : Holds(p) /\ Holds(q) => p = q

\* "A cursor always matches the rows before it", however often staging was resumed,
\* restarted or cut off; and they were all validated under the reference data the
\* batch's fingerprint names.
CursorMatchesRows ==
    Exists =>
        /\ Prefix(staged, IF cursor = NoCursor THEN 0 ELSE cursor)
        /\ staged # <<>> => staged[1].under = print

\* A batch that may be committed is staged whole, and no row of it has an error under
\* the reference data it was validated with.
ReadyIsWhole ==
    state = "ready_to_commit" => Prefix(staged, size) /\ \A i \in 1 .. size : Ready(staged[i])

\* Records come from a batch all or none, and once: two commits, a commit of a batch
\* that is deleted or parsed again, never leave a part of the file or a second copy.
WholeFileOrNothing == records # <<>> => Prefix(records, size) /\ \A i \in 1 .. size : Ready(records[i])

\* However parses, commits and deletions interleave, the staged rows are those of one pass over
\* the file as far as the cursor says, and what is offered or committed is the whole file.
StagedWhole == CursorMatchesRows /\ ReadyIsWhole /\ WholeFileOrNothing

\* Only stalls, failures and restarts that discarded rows use up an attempt.
OnlyFruitlessStartsCount ==
    state = "parsing" =>
        attempts = fruitless + Cardinality({p \in Parsers : Pending(p)})

AttemptsBounded == attempts <= MaxAttempts

\* parseAttempts counts the fruitless starts, no other, and never more than there may be.
StartsAreCounted == OnlyFruitlessStartsCount /\ AttemptsBounded

\* Parsing ends, however invocations die and fail and however the reference data
\* changes: a batch is finished, set aside, given up on or deleted.
ParsingEnds == state = "parsing" ~> state # "parsing"
=============================================================================
