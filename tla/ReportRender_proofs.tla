------------------------- MODULE ReportRender_proofs -------------------------
(***************************************************************************)
(* Proofs about ReportRender, for any requests, sweeps, deletions, logos,   *)
(* uploads and saves, any number of outputs and any limits with             *)
(* MaxDuration < StaleAfter.                                               *)
(*                                                                         *)
(* The argument: whoever works on a report has written its row, or claimed  *)
(* it, in his lifetime, so the row has not been silent for longer than he   *)
(* is alive, and nobody lives for as long as a claim asks the row to have   *)
(* been silent. So a report has one worker, and what he read of the row is  *)
(* so until he changes it. A row that is gone never comes back: a request   *)
(* makes one at most, before anybody works on it.                           *)
(***************************************************************************)
EXTENDS ReportRender, SequenceTheorems, TLAPS

Files == Range(Outputs)
RequestSteps == {"idle", "drop", "gate", "load", "start", "render", "put", "failing", "done"}
SweepSteps == {"idle", "claim", "load", "start", "render", "put", "failing", "giveup"}

Steps == RequestSteps \cup SweepSteps \cup {"objects", "row"}
Statuses == {"none", "queued", "generating", "ready", "failed"}

AnyLogo == Logos \cup Uploads \cup {NoLogo}
Row == [status : Statuses, keyed : BOOLEAN, attempts : Nat, quiet : Nat, old : Nat,
        files : SUBSET Files, logo : AnyLogo]
RowsTyped == rows \in [Requests -> Row]
PlacesTyped ==
    /\ pc \in [Invocations -> Steps]
    /\ \A q \in Requests : pc[q] \in RequestSteps
    /\ \A s \in Sweeps : pc[s] \in SweepSteps
    /\ \A d \in Deletions : pc[d] \in {"idle", "objects", "row", "done"}
WorkTyped ==
    /\ age \in [Invocations -> 0 .. MaxDuration]
    /\ target \in [Invocations -> Requests \cup {NoReport}]
    /\ count \in [Invocations -> 0 .. Len(Outputs)]
    /\ \A i \in Invocations : pc[i] # "put" => count[i] = 0
SeenTyped ==
    /\ seen \in [Invocations -> [status : Statuses, attempts : Nat, logo : AnyLogo,
                                 files : SUBSET Files]]
    /\ logo \in AnyLogo
SaveTyped ==
    /\ uploaded \subseteq Uploads /\ unbusted \in BOOLEAN
    /\ save \in [Saves -> [step : {"idle", "write", "bust", "done"}, key : AnyLogo,
                            changed : BOOLEAN]]
TypeInv == RowsTyped /\ PlacesTyped /\ WorkTyped /\ SeenTyped /\ SaveTyped

\* i has the report it works on to itself, and must leave it ready or failed.
WorkSteps == {"load", "start", "render", "put", "failing", "giveup"}
Works(i) == pc[i] \in WorkSteps

\* A report is worked on once its request has made a row of it.
AskedInv ==
    /\ \A q \in Requests : Exists(q) => pc[q] \notin {"idle", "drop", "gate"}
    /\ \A i \in Renderers : Works(i) =>
          target[i] \in Requests /\ pc[target[i]] \notin {"idle", "drop", "gate"}

\* A sweep found its report unfinished, and a deletion has begun on its report.
FoundInv ==
    /\ \A s \in Sweeps : pc[s] = "claim" =>
          target[s] \in Requests /\ seen[s].status \in {"queued", "generating"}
    /\ \A d \in Deletions : pc[d] \in {"objects", "row"} => target[d] \in doomed

\* A report has one worker; he has written its row lately, and leaves it unfinished until
\* he is done.
LeaseInv ==
    /\ \A i, j \in Renderers : Works(i) /\ Works(j) /\ target[i] = target[j] => i = j
    /\ \A i \in Renderers : Works(i) /\ Exists(target[i]) =>
          /\ rows[target[i]].quiet <= age[i]
          /\ pc[i] # "failing" => Unfinished(rows[target[i]])

\* An attempt is allowed when it is taken, and nobody else takes one before it starts.
AttemptInv ==
    /\ \A r \in Requests : rows[r].attempts <= MaxAttempts
    /\ \A i \in Renderers : pc[i] \in {"load", "start"} /\ Exists(target[i]) =>
          rows[target[i]].attempts < MaxAttempts
    /\ \A s \in Sweeps : pc[s] = "claim" /\ Exists(target[s]) =>
          rows[target[s]].attempts = seen[s].attempts \/ rows[target[s]].quiet <= age[s]

\* What has been stored stays, until somebody deletes the report.
StoredInv ==
    /\ \A i \in Renderers : pc[i] = "put" /\ target[i] \notin doomed =>
          \A n \in 1 .. count[i] : <<target[i], Outputs[n]>> \in stored
    /\ ReadyIsWhole

\* A render that read the old logo has lost its key, or is about to.
LogoInv ==
    /\ \A i \in Renderers : pc[i] \in {"start", "render", "put"} /\ target[i] \in Keyed =>
          seen[i].logo = logo \/ Busting \/ unbusted
    /\ CacheShowsTheLogo

ReportInv == TypeInv /\ AskedInv /\ FoundInv /\ LeaseInv /\ AttemptInv /\ StoredInv /\ LogoInv


---------------------------------------------------------------------------
(* Type correctness *)

\* The branding routes replace the logo and leave reports and invocations alone, except that a
\* save takes the reports' keys in the end.
Replaces ==
    \/ \E b \in Saves : Saving(b)
    \/ \E u \in Uploads : UploadLogo(u)
Busts == \E b \in Saves : Bust(b)

LEMMA ReplacesForm ==
    ASSUME Replaces
    PROVE  UNCHANGED <<rows, stored, doomed, pc, age, target, seen, count>>
BY DEF Replaces, Saving, OpenSave, WriteLogo, SaveDies, UploadLogo, rowVars, workVars

LEMMA LeastOfTwo ==
    ASSUME NEW m \in Int, NEW n \in Int
    PROVE  Least({m, n}) = IF m <= n THEN m ELSE n
BY DEF Least

LEMMA CapType ==
    ASSUME NEW n \in Nat
    PROVE  /\ Cap(n) \in Nat /\ Cap(n) <= n
           /\ n >= StaleAfter => Cap(n) >= StaleAfter
BY LeastOfTwo, LimitAssumption DEF Cap

LEMMA OutputsTyped == Len(Outputs) \in Nat /\ DOMAIN Outputs = 1 .. Len(Outputs) /\ Len(Outputs) > 0
BY LenProperties, OutputsAssumption

LEMMA Kinds ==
    /\ \A q \in Requests :
          q \in Renderers /\ q \in Invocations /\ q \notin Sweeps /\ q \notin Deletions
    /\ \A s \in Sweeps :
          s \in Renderers /\ s \in Invocations /\ s \notin Requests /\ s \notin Deletions
    /\ \A d \in Deletions :
          d \in Invocations /\ d \notin Renderers /\ d \notin Requests /\ d \notin Sweeps
    /\ \A i \in Invocations : i \in Renderers \/ i \in Deletions
    /\ \A i \in Renderers : i \in Invocations /\ (i \in Requests \/ i \in Sweeps)
    /\ NoReport \notin Requests
BY NamesAssumption DEF Renderers, Invocations, NoReport

\* A row as a step leaves it.
RowIs(r, row) ==
    /\ rows' \in [Requests -> Row] /\ rows'[r] = row
    /\ \A other \in Requests : other # r => rows'[other] = rows[other]

LEMMA SetRowIs ==
    ASSUME RowsTyped, NEW r \in Requests, NEW row \in Row, SetRow(r, row)
    PROVE  RowIs(r, row)
BY DEF RowsTyped, SetRow, RowIs

LEMMA RowsOf ==
    /\ NoRow \in Row /\ [NoRow EXCEPT !.status = "queued", !.keyed = TRUE] \in Row
    /\ \A row \in Row :
          /\ Written([row EXCEPT !.status = "generating", !.attempts = @ + 1]) \in Row
          /\ Written([row EXCEPT !.status = "failed"]) \in Row
          /\ \A n \in AnyLogo :
                Written([row EXCEPT !.status = "ready", !.files = Files, !.logo = n]) \in Row
          /\ \A n \in Nat : [row EXCEPT !.quiet = n] \in Row
          /\ [row EXCEPT !.quiet = 0, !.keyed = FALSE, !.old = 0] \in Row
<1> USE DEF Row, Statuses, Written
<1>1. NoRow \in Row /\ [NoRow EXCEPT !.status = "queued", !.keyed = TRUE] \in Row
  BY DEF NoRow, AnyLogo
<1>2. ASSUME NEW row \in Row
      PROVE  /\ Written([row EXCEPT !.status = "generating", !.attempts = @ + 1]) \in Row
             /\ Written([row EXCEPT !.status = "failed"]) \in Row
  <2> DEFINE next == row.attempts + 1
  <2>1. next \in Nat
    OBVIOUS
  <2> HIDE DEF next
  <2>2. Written([row EXCEPT !.status = "generating", !.attempts = next]) \in Row
    BY <2>1
  <2>3. Written([row EXCEPT !.status = "failed"]) \in Row
    OBVIOUS
  <2> QED
    BY <2>2, <2>3 DEF next
<1>3. ASSUME NEW row \in Row
      PROVE  /\ \A n \in AnyLogo :
                   Written([row EXCEPT !.status = "ready", !.files = Files, !.logo = n]) \in Row
             /\ \A n \in Nat : [row EXCEPT !.quiet = n] \in Row
  OBVIOUS
<1>4. ASSUME NEW row \in Row PROVE [row EXCEPT !.quiet = 0, !.keyed = FALSE, !.old = 0] \in Row
  OBVIOUS
<1> HIDE DEF Row, Written
<1> QED
  BY <1>1, <1>2, <1>3, <1>4

LEMMA OlderOf ==
    ASSUME NEW row \in Row
    PROVE  /\ Older(row) \in Row
           /\ Older(row).status = row.status /\ Older(row).keyed = row.keyed
           /\ Older(row).attempts = row.attempts /\ Older(row).files = row.files
           /\ Older(row).logo = row.logo
           /\ row.status # "none" => Older(row).quiet <= row.quiet + 1
<1>1. Cap(row.quiet + 1) \in Nat /\ Cap(row.quiet + 1) <= row.quiet + 1
  BY CapType DEF Row
<1>2. Least({row.old + 1, StaleAfter}) \in Nat
  BY LeastOfTwo, LimitAssumption DEF Row
<1> DEFINE quiet == Cap(row.quiet + 1)
           old == Least({row.old + 1, StaleAfter})
<1> HIDE DEF quiet, old
<1>3. Older(row) = IF row.status = "none" THEN row
                   ELSE [row EXCEPT !.quiet = IF Unfinished(row) THEN quiet ELSE 0,
                                    !.old = IF Unfinished(row) /\ row.keyed THEN old ELSE 0]
  BY DEF Older, quiet, old, Row
<1>4. quiet \in Nat /\ old \in Nat /\ quiet <= row.quiet + 1
  BY <1>1, <1>2 DEF quiet, old
<1>5. CASE row.status = "none"
  BY <1>3, <1>5
<1>6. CASE row.status # "none" /\ Unfinished(row)
  <2>1. PICK n \in Nat : Older(row) = [row EXCEPT !.quiet = quiet, !.old = n]
    <3>1. CASE row.keyed
      BY <1>3, <1>4, <1>6, <3>1
    <3>2. CASE ~row.keyed
      BY <1>3, <1>6, <3>2
    <3> QED
      BY <3>1, <3>2
  <2> QED
    BY <1>4, <2>1 DEF Row
<1>7. CASE row.status # "none" /\ ~Unfinished(row)
  <2>1. Older(row) = [row EXCEPT !.quiet = 0, !.old = 0]
    BY <1>3, <1>7
  <2>2. [row EXCEPT !.quiet = 0, !.old = 0] \in Row
    BY DEF Row
  <2>3. Older(row) \in Row
    BY <2>1, <2>2, Zenon
  <2>4. /\ Older(row).status = row.status /\ Older(row).keyed = row.keyed
        /\ Older(row).attempts = row.attempts /\ Older(row).files = row.files
        /\ Older(row).logo = row.logo /\ Older(row).quiet = 0
    BY <2>1 DEF Row
  <2>5. row.quiet \in Nat
    BY DEF Row
  <2> QED
    BY <2>3, <2>4, <2>5
<1> QED
  BY <1>5, <1>6, <1>7

LEMMA NothingTyped ==
    Nothing \in [status : Statuses, attempts : Nat, logo : AnyLogo, files : SUBSET Files]
BY DEF Nothing, Statuses, AnyLogo

LEMMA FinishTypes ==
    ASSUME TypeInv, NEW i \in Invocations, Finish(i)
    PROVE  /\ WorkTyped' /\ (UNCHANGED brandVars => SeenTyped')
           /\ (i \in Deletions \/ pc[i] # "idle" \/ i \in Requests => PlacesTyped')
<1> USE Kinds DEF TypeInv, Finish, Goto, Rest
<1>1. WorkTyped'
  BY LimitAssumption, OutputsTyped DEF WorkTyped, PlacesTyped
<1>2. UNCHANGED brandVars => SeenTyped'
  BY NothingTyped DEF SeenTyped, brandVars
<1>3. PlacesTyped'
  BY DEF PlacesTyped, Steps, RequestSteps, SweepSteps
<1> QED
  BY <1>1, <1>2, <1>3

LEMMA ThrowTypes ==
    ASSUME TypeInv, NEW i \in Renderers, Throws(i)
    PROVE  /\ WorkTyped' /\ PlacesTyped' /\ (UNCHANGED brandVars => SeenTyped')
<1> USE Kinds DEF TypeInv, Throws, Goto
<1>1. WorkTyped'
  BY OutputsTyped DEF WorkTyped, PlacesTyped
<1>2. PlacesTyped'
  BY DEF PlacesTyped, Steps, RequestSteps, SweepSteps
<1>3. UNCHANGED brandVars => SeenTyped'
  BY NothingTyped DEF SeenTyped, brandVars
<1> QED
  BY <1>1, <1>2, <1>3

LEMMA GotoTypes ==
    ASSUME TypeInv, NEW i \in Invocations, NEW step, Goto(i, step), UNCHANGED <<age, count>>,
           step = "put" \/ pc[i] # "put", target' \in [Invocations -> Requests \cup {NoReport}]
    PROVE  WorkTyped'
BY DEF TypeInv, WorkTyped, PlacesTyped, Goto

LEMMA PlacesTypedStep ==
    ASSUME TypeInv, [Next]_vars
    PROVE  PlacesTyped'
<1> USE Kinds
    DEF TypeInv, PlacesTyped, Steps, RequestSteps, SweepSteps, SetRow, Goto, At, Finish, Rest,
        Throws, Nothing, Exists, rowVars, brandVars, workVars
<1>1. ASSUME NEW q \in Requests, Ask(q) PROVE PlacesTyped'
  BY <1>1 DEF Ask
<1>2. ASSUME NEW q \in Requests, Drop(q) PROVE PlacesTyped'
  BY <1>2 DEF Drop
<1>3. ASSUME NEW q \in Requests, Refuse(q) PROVE PlacesTyped'
  BY <1>3 DEF Refuse
<1>4. ASSUME NEW q \in Requests, Create(q) PROVE PlacesTyped'
  BY <1>4 DEF Create
<1>5. ASSUME NEW i \in Renderers, Load(i) PROVE PlacesTyped'
  BY <1>5 DEF Load, Throws
<1>6. ASSUME NEW i \in Renderers, Start(i) PROVE PlacesTyped'
  BY <1>6 DEF Start
<1>7. ASSUME NEW i \in Renderers, Render(i) PROVE PlacesTyped'
  BY <1>7 DEF Render
<1>8. ASSUME NEW i \in Renderers, Put(i) PROVE PlacesTyped'
  BY <1>8 DEF Put
<1>9. ASSUME NEW i \in Renderers, MarkReady(i) PROVE PlacesTyped'
  BY <1>9 DEF MarkReady, Throws, AllStored
<1>10. ASSUME NEW i \in Renderers, Fail(i) PROVE PlacesTyped'
  BY <1>10 DEF Fail, Throws
<1>11. ASSUME NEW i \in Renderers, WriteFailed(i) PROVE PlacesTyped'
  BY <1>11 DEF WriteFailed
<1>12. ASSUME NEW s \in Sweeps, Sweep(s) PROVE PlacesTyped'
  BY <1>12 DEF Sweep
<1>13. ASSUME NEW s \in Sweeps, Claim(s) PROVE PlacesTyped'
  BY <1>13 DEF Claim, Claimable
<1>14. ASSUME NEW s \in Sweeps, GiveUp(s) PROVE PlacesTyped'
  BY <1>14 DEF GiveUp
<1>15. ASSUME NEW d \in Deletions, FindDoomed(d) PROVE PlacesTyped'
  BY <1>15 DEF FindDoomed
<1>16. ASSUME NEW d \in Deletions, RemoveObjects(d) PROVE PlacesTyped'
  BY <1>16 DEF RemoveObjects
<1>17. ASSUME NEW d \in Deletions, RemoveRow(d) PROVE PlacesTyped'
  BY <1>17 DEF RemoveRow
<1>18. ASSUME NEW i \in Invocations, Die(i) PROVE PlacesTyped'
  BY <1>18 DEF Die, TimedOut, Alive
<1>19. ASSUME Replaces PROVE PlacesTyped'
  BY <1>19, ReplacesForm
<1>20. ASSUME Busts PROVE PlacesTyped'
  BY <1>20 DEF Busts, Bust, Busted
<1>22. ASSUME Tick PROVE PlacesTyped'
  BY <1>22 DEF Tick, Older, Alive
<1>23. ASSUME UNCHANGED vars PROVE PlacesTyped'
  BY <1>23 DEF vars
<1> QED
  BY <1>1, <1>2, <1>3, <1>4, <1>5, <1>6, <1>7, <1>8, <1>9, <1>10, <1>11, <1>12, <1>13,
     <1>14, <1>15, <1>16, <1>17, <1>18, <1>19, <1>20, <1>22, <1>23
     DEF Next, Requesting, Rendering, Sweeping, Deleting, Saving, Replaces, Busts

LEMMA WorkTypedStep ==
    ASSUME TypeInv, [Next]_vars
    PROVE  WorkTyped'
<1> USE LimitAssumption, Kinds, OutputsTyped
    DEF TypeInv, WorkTyped, PlacesTyped, At, Exists, rowVars, brandVars, workVars
<1>1. ASSUME NEW q \in Requests, Ask(q) PROVE WorkTyped'
  <2>1. CASE Keyed = {}
    BY <1>1, <2>1 DEF Ask, Goto
  <2>2. CASE Keyed # {} /\ ~Finish(q)
    BY <1>1, <2>2 DEF Ask, Goto, Keyed
  <2>3. CASE Finish(q)
    BY <1>1, <2>3, FinishTypes DEF Ask
  <2> QED
    BY <1>1, <2>1, <2>2, <2>3
<1>2. ASSUME NEW q \in Requests, Drop(q) PROVE WorkTyped'
  <2>1. CASE Exists(target[q])
    <3>1. /\ Goto(q, pc'[q]) /\ UNCHANGED <<age, count>> /\ pc[q] # "put"
          /\ target' \in [Invocations -> Requests \cup {NoReport}]
      BY <1>2, <2>1 DEF Drop, Goto
    <3> QED
      BY <3>1, GotoTypes
  <2>2. CASE Finish(q)
    BY <1>2, <2>2, FinishTypes DEF Drop
  <2> QED
    BY <1>2, <2>1, <2>2 DEF Drop
<1>3. ASSUME NEW q \in Requests, Refuse(q) PROVE WorkTyped'
  BY <1>3, FinishTypes DEF Refuse
<1>4. ASSUME NEW q \in Requests, Create(q) PROVE WorkTyped'
  <2>1. CASE ~Finish(q)
    <3>1. /\ Goto(q, pc'[q]) /\ UNCHANGED <<age, count>> /\ pc[q] # "put"
          /\ target' \in [Invocations -> Requests \cup {NoReport}]
      BY <1>4, <2>1 DEF Create, Goto
    <3> QED
      BY <3>1, GotoTypes
  <2>2. CASE Finish(q)
    BY <1>4, <2>2, FinishTypes DEF Create
  <2> QED
    BY <1>4, <2>1, <2>2
<1>5. ASSUME NEW i \in Renderers, Load(i) PROVE WorkTyped'
  <2>1. CASE Throws(i)
    BY <1>5, <2>1, ThrowTypes DEF Load
  <2>2. CASE Finish(i)
    BY <1>5, <2>2, FinishTypes DEF Load
  <2>3. CASE ~Throws(i) /\ ~Finish(i)
    BY <1>5, <2>3 DEF Load, Goto
  <2> QED
    BY <1>5, <2>1, <2>2, <2>3
<1>6. ASSUME NEW i \in Renderers, Start(i) PROVE WorkTyped'
  BY <1>6 DEF Start, Goto
<1>7. ASSUME NEW i \in Renderers, Render(i) PROVE WorkTyped'
  BY <1>7 DEF Render, Goto
<1>8. ASSUME NEW i \in Renderers, Put(i) PROVE WorkTyped'
  BY <1>8 DEF Put, Goto
<1>9. ASSUME NEW i \in Renderers, MarkReady(i) PROVE WorkTyped'
  <2>1. CASE Finish(i)
    BY <1>9, <2>1, FinishTypes DEF MarkReady
  <2>2. CASE Throws(i)
    BY <1>9, <2>2, ThrowTypes DEF MarkReady
  <2> QED
    BY <1>9, <2>1, <2>2 DEF MarkReady
<1>10. ASSUME NEW i \in Renderers, Fail(i) PROVE WorkTyped'
  BY <1>10, ThrowTypes DEF Fail
<1>11. ASSUME NEW i \in Renderers, WriteFailed(i) PROVE WorkTyped'
  BY <1>11, FinishTypes DEF WriteFailed
<1>12. ASSUME NEW s \in Sweeps, Sweep(s) PROVE WorkTyped'
  BY <1>12 DEF Sweep, Goto
<1>13. ASSUME NEW s \in Sweeps, Claim(s) PROVE WorkTyped'
  <2>1. CASE Claimable(s)
    BY <1>13, <2>1 DEF Claim, Goto
  <2>2. CASE Finish(s)
    BY <1>13, <2>2, FinishTypes DEF Claim
  <2> QED
    BY <1>13, <2>1, <2>2 DEF Claim
<1>14. ASSUME NEW s \in Sweeps, GiveUp(s) PROVE WorkTyped'
  BY <1>14, FinishTypes DEF GiveUp
<1>15. ASSUME NEW d \in Deletions, FindDoomed(d) PROVE WorkTyped'
  BY <1>15 DEF FindDoomed, Goto
<1>16. ASSUME NEW d \in Deletions, RemoveObjects(d) PROVE WorkTyped'
  BY <1>16 DEF RemoveObjects, Goto
<1>17. ASSUME NEW d \in Deletions, RemoveRow(d) PROVE WorkTyped'
  BY <1>17, FinishTypes DEF RemoveRow
<1>18. ASSUME NEW i \in Invocations, Die(i) PROVE WorkTyped'
  BY <1>18, FinishTypes DEF Die
<1>19. ASSUME Replaces PROVE WorkTyped'
  BY <1>19, ReplacesForm
<1>20. ASSUME Busts PROVE WorkTyped'
  BY <1>20 DEF Busts, Bust, Busted
<1>22. ASSUME Tick PROVE WorkTyped'
  <2>1. /\ UNCHANGED <<pc, target, count>>
        /\ age' = [i \in Invocations |-> IF Alive(i) THEN age[i] + 1 ELSE 0]
    BY <1>22 DEF Tick
  <2>2. \A i \in Invocations : Alive(i) => age[i] + 1 \in 0 .. MaxDuration
    BY <1>22 DEF Tick
  <2>3. age' \in [Invocations -> 0 .. MaxDuration]
    BY <2>1, <2>2
  <2> QED
    BY <2>1, <2>3
<1>23. ASSUME UNCHANGED vars PROVE WorkTyped'
  BY <1>23 DEF vars
<1> QED
  BY <1>1, <1>2, <1>3, <1>4, <1>5, <1>6, <1>7, <1>8, <1>9, <1>10, <1>11, <1>12, <1>13,
     <1>14, <1>15, <1>16, <1>17, <1>18, <1>19, <1>20, <1>22, <1>23
     DEF Next, Requesting, Rendering, Sweeping, Deleting, Saving, Replaces, Busts

\* A sweep notes of a report what its row says of it.
LEMMA SeenOfRow ==
    ASSUME SeenTyped, NEW s \in Sweeps, NEW status \in Statuses, NEW attempts \in Nat,
           seen' = [seen EXCEPT ![s].status = status, ![s].attempts = attempts],
           logo' = logo
    PROVE  SeenTyped'
BY DEF SeenTyped

LEMMA SeenTypedStep ==
    ASSUME TypeInv, [Next]_vars
    PROVE  SeenTyped'
<1> USE Kinds
    DEF TypeInv, SeenTyped, RowsTyped, Row, Statuses, At, Exists, rowVars, brandVars, workVars
<1>1. ASSUME NEW q \in Requests, Ask(q) PROVE SeenTyped'
  <2>1. CASE Keyed = {}
    BY <1>1, <2>1 DEF Ask, Goto
  <2>2. CASE Keyed # {} /\ ~Finish(q)
    BY <1>1, <2>2 DEF Ask, Goto, Keyed
  <2>3. CASE Finish(q)
    BY <1>1, <2>3, FinishTypes DEF Ask
  <2> QED
    BY <1>1, <2>1, <2>2, <2>3
<1>2. ASSUME NEW q \in Requests, Drop(q) PROVE SeenTyped'
  <2>1. CASE Exists(target[q])
    BY <1>2, <2>1 DEF Drop, Goto
  <2>2. CASE Finish(q)
    BY <1>2, <2>2, FinishTypes DEF Drop
  <2> QED
    BY <1>2, <2>1, <2>2 DEF Drop
<1>3. ASSUME NEW q \in Requests, Refuse(q) PROVE SeenTyped'
  BY <1>3, FinishTypes DEF Refuse
<1>4. ASSUME NEW q \in Requests, Create(q) PROVE SeenTyped'
  <2>1. CASE ~Finish(q)
    BY <1>4, <2>1 DEF Create, Goto
  <2>2. CASE Finish(q)
    BY <1>4, <2>2, FinishTypes DEF Create
  <2> QED
    BY <1>4, <2>1, <2>2
<1>5. ASSUME NEW i \in Renderers, Load(i) PROVE SeenTyped'
  <2>1. CASE Throws(i)
    BY <1>5, <2>1, ThrowTypes DEF Load
  <2>2. CASE Finish(i)
    BY <1>5, <2>2, FinishTypes DEF Load
  <2>3. CASE ~Throws(i) /\ ~Finish(i)
    BY <1>5, <2>3 DEF Load, Goto
  <2> QED
    BY <1>5, <2>1, <2>2, <2>3
<1>6. ASSUME NEW i \in Renderers, Start(i) PROVE SeenTyped'
  BY <1>6 DEF Start
<1>7. ASSUME NEW i \in Renderers, Render(i) PROVE SeenTyped'
  BY <1>7 DEF Render
<1>8. ASSUME NEW i \in Renderers, Put(i) PROVE SeenTyped'
  BY <1>8 DEF Put
<1>9. ASSUME NEW i \in Renderers, MarkReady(i) PROVE SeenTyped'
  <2>1. CASE Finish(i)
    BY <1>9, <2>1, FinishTypes DEF MarkReady
  <2>2. CASE Throws(i)
    BY <1>9, <2>2, ThrowTypes DEF MarkReady
  <2> QED
    BY <1>9, <2>1, <2>2 DEF MarkReady
<1>10. ASSUME NEW i \in Renderers, Fail(i) PROVE SeenTyped'
  BY <1>10, ThrowTypes DEF Fail
<1>11. ASSUME NEW i \in Renderers, WriteFailed(i) PROVE SeenTyped'
  BY <1>11, FinishTypes DEF WriteFailed
<1>12. ASSUME NEW s \in Sweeps, Sweep(s) PROVE SeenTyped'
  <2>1. PICK r \in Requests :
          seen' = [seen EXCEPT ![s].status = rows[r].status, ![s].attempts = rows[r].attempts]
    BY <1>12 DEF Sweep
  <2>2. rows[r].status \in Statuses /\ rows[r].attempts \in Nat
    OBVIOUS
  <2> DEFINE status == rows[r].status
             attempts == rows[r].attempts
  <2>3. seen' = [seen EXCEPT ![s].status = status, ![s].attempts = attempts]
    BY <2>1
  <2>4. status \in Statuses /\ attempts \in Nat
    BY <2>2
  <2>5. logo' = logo
    BY <1>12 DEF Sweep
  <2>6. SeenTyped
    OBVIOUS
  <2> HIDE DEF status, attempts, SeenTyped
  <2> QED
    BY <2>3, <2>4, <2>5, <2>6, SeenOfRow
<1>13. ASSUME NEW s \in Sweeps, Claim(s) PROVE SeenTyped'
  <2>1. CASE Claimable(s)
    BY <1>13, <2>1, NothingTyped DEF Claim, Goto, brandVars
  <2>2. CASE Finish(s)
    BY <1>13, <2>2, FinishTypes DEF Claim
  <2> QED
    BY <1>13, <2>1, <2>2 DEF Claim
<1>14. ASSUME NEW s \in Sweeps, GiveUp(s) PROVE SeenTyped'
  BY <1>14, FinishTypes DEF GiveUp
<1>15. ASSUME NEW d \in Deletions, FindDoomed(d) PROVE SeenTyped'
  BY <1>15 DEF FindDoomed
<1>16. ASSUME NEW d \in Deletions, RemoveObjects(d) PROVE SeenTyped'
  BY <1>16 DEF RemoveObjects
<1>17. ASSUME NEW d \in Deletions, RemoveRow(d) PROVE SeenTyped'
  BY <1>17, FinishTypes DEF RemoveRow
<1>18. ASSUME NEW i \in Invocations, Die(i) PROVE SeenTyped'
  BY <1>18, FinishTypes DEF Die
<1>19. ASSUME Replaces PROVE SeenTyped'
  <2>1. seen' = seen
    BY <1>19, ReplacesForm
  <2>2. logo' \in AnyLogo
    BY <1>19
       DEF Replaces, Saving, OpenSave, WriteLogo, SaveDies, UploadLogo, SaveTyped, AnyLogo
  <2> QED
    BY <2>1, <2>2
<1>20. ASSUME Busts PROVE SeenTyped'
  BY <1>20 DEF Busts, Bust, Busted
<1>22. ASSUME Tick PROVE SeenTyped'
  BY <1>22 DEF Tick, Older, Alive
<1>23. ASSUME UNCHANGED vars PROVE SeenTyped'
  BY <1>23 DEF vars
<1> QED
  BY <1>1, <1>2, <1>3, <1>4, <1>5, <1>6, <1>7, <1>8, <1>9, <1>10, <1>11, <1>12, <1>13,
     <1>14, <1>15, <1>16, <1>17, <1>18, <1>19, <1>20, <1>22, <1>23
     DEF Next, Requesting, Rendering, Sweeping, Deleting, Saving, Replaces, Busts

LEMMA SaveTypedStep ==
    ASSUME TypeInv, [Next]_vars
    PROVE  SaveTyped'
<1> USE DEF TypeInv, SaveTyped, SeenTyped
<1>1. ASSUME NEW b \in Saves, OpenSave(b) PROVE SaveTyped'
  <2>1. PICK key \in Logos \cup uploaded, changed \in BOOLEAN :
          save' = [save EXCEPT ![b] = [step |-> "write", key |-> key, changed |-> changed]]
    BY <1>1 DEF OpenSave
  <2>2. key \in AnyLogo
    BY DEF AnyLogo
  <2>3. UNCHANGED <<uploaded, unbusted>>
    BY <1>1 DEF OpenSave
  <2> QED
    BY <2>1, <2>2, <2>3
<1>2. ASSUME NEW b \in Saves, WriteLogo(b) PROVE SaveTyped'
  BY <1>2 DEF WriteLogo, SaveAt, AnyLogo
<1>3. ASSUME NEW b \in Saves, SaveDies(b) PROVE SaveTyped'
  BY <1>3 DEF SaveDies, SaveAt, AnyLogo
<1>4. ASSUME NEW b \in Saves, Bust(b) PROVE SaveTyped'
  BY <1>4 DEF Bust, SaveAt, AnyLogo
<1>5. ASSUME NEW u \in Uploads, UploadLogo(u) PROVE SaveTyped'
  BY <1>5 DEF UploadLogo
<1>6. ASSUME UNCHANGED brandVars PROVE SaveTyped'
  BY <1>6 DEF brandVars
<1> QED
  BY <1>1, <1>2, <1>3, <1>4, <1>5, <1>6
     DEF Next, vars, brandVars, Requesting, Rendering, Sweeping, Deleting, Saving, Ask, Drop,
         Refuse, Create, Load, Start, Render, Put, MarkReady, Fail, WriteFailed, Sweep, Claim,
         GiveUp, FindDoomed, RemoveObjects, RemoveRow, Die, Tick

---------------------------------------------------------------------------
(* What a step does, report by report and invocation by invocation. *)

Same(i) ==
    /\ pc'[i] = pc[i] /\ age'[i] = age[i] /\ target'[i] = target[i] /\ seen'[i] = seen[i]
    /\ count'[i] = count[i]
Others(i) == \A j \in Invocations : j # i => Same(j)
Goes(i, step) ==
    Others(i) /\ pc'[i] = step /\ age'[i] = age[i] /\ target'[i] = target[i]
Keeps(i) == seen'[i] = seen[i]
Ends(i) == Others(i) /\ pc'[i] = Rest(i)
Aside == UNCHANGED <<stored, doomed, brandVars>>

\* i is not at work afterwards, and has at most removed a row.
Idles(i) ==
    /\ Others(i) /\ Aside
    /\ \/ pc'[i] \in {"drop", "gate"} /\ pc[i] \in {"idle", "drop"}
       \/ pc'[i] = Rest(i)
    /\ UNCHANGED rows \/ \E r \in Requests : RowIs(r, NoRow)
Creates(q) ==
    /\ pc[q] = "gate" /\ Keyed = {}
    /\ Others(q) /\ Aside /\ pc'[q] = "load" /\ target'[q] = q
    /\ RowIs(q, [NoRow EXCEPT !.status = "queued", !.keyed = TRUE])
Begins(i) ==
    /\ pc[i] = "load" /\ Exists(target[i])
    /\ Others(i) /\ Aside /\ pc'[i] = "start" /\ age'[i] = age[i] /\ target'[i] = target[i]
    /\ seen'[i].logo = logo /\ UNCHANGED rows
Starts(i) ==
    /\ pc[i] = "start" /\ Exists(target[i])
    /\ Goes(i, "render") /\ Keeps(i) /\ Aside
    /\ RowIs(target[i], Written([rows[target[i]] EXCEPT !.status = "generating",
                                                        !.attempts = @ + 1]))
Renders(i) ==
    /\ pc[i] = "render" /\ Goes(i, "put") /\ Keeps(i) /\ count'[i] = count[i]
    /\ Aside /\ UNCHANGED rows
Puts(i) ==
    /\ pc[i] = "put" /\ Goes(i, "put") /\ Keeps(i) /\ count'[i] = count[i] + 1
    /\ stored' = stored \cup {<<target[i], Outputs[count[i] + 1]>>}
    /\ UNCHANGED <<rows, doomed, brandVars>>
Readies(i) ==
    /\ AllStored(i) /\ Exists(target[i])
    /\ Ends(i) \/ Goes(i, "failing")
    /\ Aside
    /\ RowIs(target[i], Written([rows[target[i]] EXCEPT
                !.status = "ready", !.files = Files, !.logo = seen[i].logo]))
Breaks(i) ==
    /\ pc[i] \in {"load", "start", "render", "put"}
    /\ Goes(i, "failing") /\ Aside /\ UNCHANGED rows
Fails(i) ==
    /\ pc[i] \in {"failing", "giveup"} /\ Ends(i) /\ Aside
    /\ IF Exists(target[i])
       THEN RowIs(target[i], Written([rows[target[i]] EXCEPT !.status = "failed"]))
       ELSE UNCHANGED rows
Finds(s) ==
    /\ pc[s] = "idle" /\ Others(s) /\ Aside /\ pc'[s] = "claim" /\ target'[s] \in Requests
    /\ Unfinished(rows[target'[s]]) /\ seen'[s].status = rows[target'[s]].status
    /\ seen'[s].attempts = rows[target'[s]].attempts /\ UNCHANGED rows
Claims(s) ==
    /\ pc[s] = "claim" /\ Claimable(s)
    /\ Goes(s, IF Exhausted(seen[s].attempts) THEN "giveup" ELSE "load") /\ Aside
    /\ RowIs(target[s], [rows[target[s]] EXCEPT !.quiet = age[s]])
Dooms(d) ==
    /\ Others(d) /\ pc'[d] \in {"objects", "row"} /\ target'[d] \in doomed'
    /\ doomed \subseteq doomed' /\ UNCHANGED <<rows, brandVars>>
    /\ \A r, f : <<r, f>> \in stored /\ r \notin doomed' => <<r, f>> \in stored'

Forms ==
    \/ \E i \in Invocations : Idles(i)
    \/ \E q \in Requests : Creates(q)
    \/ \E i \in Renderers : \/ Begins(i) \/ Starts(i) \/ Renders(i) \/ Puts(i)
                            \/ Readies(i) \/ Breaks(i) \/ Fails(i)
    \/ \E s \in Sweeps : Finds(s) \/ Claims(s)
    \/ \E d \in Deletions : Dooms(d)
    \/ Replaces \/ Busts \/ Tick
    \/ UNCHANGED vars

LEMMA FinishForm ==
    ASSUME TypeInv, NEW i \in Invocations, Finish(i)
    PROVE  Ends(i)
BY DEF TypeInv, PlacesTyped, WorkTyped, SeenTyped, Finish, Goto, Ends, Others, Same

LEMMA GotoForm ==
    ASSUME TypeInv, NEW i \in Invocations, NEW step, Goto(i, step), UNCHANGED <<age, target>>,
           \A j \in Invocations : j # i => count'[j] = count[j] /\ seen'[j] = seen[j]
    PROVE  Goes(i, step)
BY DEF TypeInv, PlacesTyped, Goto, Goes, Others, Same

LEMMA RowForm ==
    ASSUME TypeInv, NEW r, Exists(r), NEW row \in Row, SetRow(r, row)
    PROVE  RowIs(r, row)
BY SetRowIs DEF TypeInv, Exists

LEMMA StepForms ==
    ASSUME TypeInv, FoundInv, [Next]_vars
    PROVE  Forms
<1> USE Kinds
    DEF TypeInv, PlacesTyped, WorkTyped, SeenTyped, RowsTyped, At, Aside, rowVars, brandVars,
        workVars
<1>1. ASSUME NEW q \in Requests, Ask(q) PROVE Forms
  <2>1. Others(q) /\ (pc'[q] \in {"gate", "drop"} \/ pc'[q] = Rest(q))
    <3>1. CASE Finish(q)
      BY <3>1, FinishForm DEF Ends
    <3>2. CASE ~Finish(q)
      BY <1>1, <3>2 DEF Ask, Goto, Others, Same
    <3> QED
      BY <3>1, <3>2
  <2>2. Idles(q)
    BY <1>1, <2>1 DEF Ask, Idles
  <2> QED
    BY <2>2 DEF Forms
<1>2. ASSUME NEW q \in Requests, Drop(q) PROVE Forms
  <2>1. Others(q) /\ (pc'[q] = "gate" \/ pc'[q] = Rest(q))
    <3>1. CASE Finish(q)
      BY <3>1, FinishForm DEF Ends
    <3>2. CASE ~Finish(q)
      BY <1>2, <3>2 DEF Drop, Goto, Others, Same
    <3> QED
      BY <3>1, <3>2
  <2>2. UNCHANGED rows \/ RowIs(target[q], NoRow)
    BY <1>2, RowForm, RowsOf DEF Drop
  <2>3. Exists(target[q]) \/ UNCHANGED rows
    BY <1>2 DEF Drop
  <2>4. Idles(q)
    BY <1>2, <2>1, <2>2, <2>3 DEF Drop, Idles, Exists
  <2> QED
    BY <2>4 DEF Forms
<1>3. ASSUME NEW q \in Requests, Refuse(q) PROVE Forms
  <2>1. Idles(q)
    BY <1>3, FinishForm DEF Refuse, Idles, Ends
  <2> QED
    BY <2>1 DEF Forms
<1>4. ASSUME NEW q \in Requests, Create(q) PROVE Forms
  <2>1. CASE Keyed # {}
    <3>1. Idles(q)
      BY <1>4, <2>1, FinishForm DEF Create, Idles, Ends
    <3> QED
      BY <3>1 DEF Forms
  <2>2. CASE Keyed = {}
    <3>1. /\ Others(q) /\ pc'[q] = "load" /\ target'[q] = q
      BY <1>4, <2>2 DEF Create, Goto, Others, Same
    <3>2. RowIs(q, [NoRow EXCEPT !.status = "queued", !.keyed = TRUE])
      BY <1>4, <2>2, SetRowIs, RowsOf DEF Create
    <3>3. Creates(q)
      BY <1>4, <2>2, <3>1, <3>2 DEF Create, Creates
    <3> QED
      BY <3>3 DEF Forms
  <2> QED
    BY <2>1, <2>2
<1>5. ASSUME NEW i \in Renderers, Load(i) PROVE Forms
  <2>1. CASE Throws(i)
    <3>1. Goes(i, "failing")
      BY <2>1, GotoForm DEF Throws, TypeInv, SeenTyped, WorkTyped
    <3>2. Breaks(i)
      BY <1>5, <2>1, <3>1 DEF Load, Breaks
    <3> QED
      BY <3>2 DEF Forms
  <2>2. CASE Finish(i)
    <3>1. Idles(i)
      BY <1>5, <2>2, FinishForm DEF Load, Idles, Ends
    <3> QED
      BY <3>1 DEF Forms
  <2>3. CASE ~Throws(i) /\ ~Finish(i)
    <3>1. /\ Exists(target[i]) /\ Others(i) /\ pc'[i] = "start" /\ age'[i] = age[i]
          /\ target'[i] = target[i] /\ seen'[i].logo = logo
      BY <1>5, <2>3 DEF Load, Goto, Others, Same
    <3>2. Begins(i)
      BY <1>5, <3>1 DEF Load, Begins
    <3> QED
      BY <3>2 DEF Forms
  <2> QED
    BY <2>1, <2>2, <2>3
<1>6. ASSUME NEW i \in Renderers, Start(i) PROVE Forms
  <2>1. Goes(i, "render")
    BY <1>6, GotoForm DEF Start
  <2> DEFINE row == Written([rows[target[i]] EXCEPT !.status = "generating", !.attempts = @ + 1])
  <2>2. rows[target[i]] \in Row
    BY <1>6 DEF Start, Exists
  <2>3. row \in Row
    BY <2>2, RowsOf
  <2>4. Exists(target[i]) /\ SetRow(target[i], row)
    BY <1>6 DEF Start
  <2> HIDE DEF row
  <2>5. RowIs(target[i], row)
    BY <2>3, <2>4, RowForm
  <2>6. Starts(i)
    BY <1>6, <2>1, <2>5 DEF Start, Starts, Keeps, workVars, row
  <2> QED
    BY <2>6 DEF Forms
<1>7. ASSUME NEW i \in Renderers, Render(i) PROVE Forms
  <2>1. Goes(i, "put")
    BY <1>7, GotoForm DEF Render
  <2>2. Renders(i)
    BY <1>7, <2>1 DEF Render, Renders, Keeps, workVars
  <2> QED
    BY <2>2 DEF Forms
<1>8. ASSUME NEW i \in Renderers, Put(i) PROVE Forms
  <2>1. Puts(i)
    BY <1>8 DEF Put, Puts, Goes, Keeps, Others, Same
  <2> QED
    BY <2>1 DEF Forms
<1>9. ASSUME NEW i \in Renderers, MarkReady(i) PROVE Forms
  <2>1. Ends(i) \/ Goes(i, "failing")
    <3>1. CASE Finish(i)
      BY <3>1, FinishForm
    <3>2. CASE Throws(i)
      BY <3>2, GotoForm DEF Throws, TypeInv, SeenTyped, WorkTyped
    <3> QED
      BY <1>9, <3>1, <3>2 DEF MarkReady
  <2> DEFINE row == Written([rows[target[i]] EXCEPT
                        !.status = "ready", !.files = Files, !.logo = seen[i].logo])
  <2>2. rows[target[i]] \in Row /\ seen[i].logo \in AnyLogo
    BY <1>9 DEF MarkReady, Exists
  <2>3. row \in Row
    BY <2>2, RowsOf
  <2>4. Exists(target[i]) /\ SetRow(target[i], row)
    BY <1>9 DEF MarkReady, Files
  <2> HIDE DEF row
  <2>5. RowIs(target[i], row)
    BY <2>3, <2>4, RowForm
  <2>6. Readies(i)
    BY <1>9, <2>1, <2>5 DEF MarkReady, Readies, row
  <2> QED
    BY <2>6 DEF Forms
<1>10. ASSUME NEW i \in Renderers, Fail(i) PROVE Forms
  <2>1. Goes(i, "failing")
    BY <1>10, GotoForm DEF Fail, Throws, TypeInv, SeenTyped, WorkTyped
  <2>2. Breaks(i)
    BY <1>10, <2>1 DEF Fail, Breaks
  <2> QED
    BY <2>2 DEF Forms
<1>11. ASSUME NEW i \in Renderers, WriteFailed(i) PROVE Forms
  <2> DEFINE row == Written([rows[target[i]] EXCEPT !.status = "failed"])
  <2>1. Exists(target[i]) => row \in Row /\ SetRow(target[i], row)
    BY <1>11, RowsOf DEF WriteFailed, Exists
  <2> HIDE DEF row
  <2>2. Exists(target[i]) => RowIs(target[i], row)
    BY <2>1, RowForm
  <2>3. Fails(i)
    BY <1>11, <2>2, FinishForm DEF WriteFailed, Fails, row
  <2> QED
    BY <2>3 DEF Forms
<1>12. ASSUME NEW s \in Sweeps, Sweep(s) PROVE Forms
  <2>1. PICK r \in Requests :
          /\ Unfinished(rows[r]) /\ target' = [target EXCEPT ![s] = r]
          /\ seen' = [seen EXCEPT ![s].status = rows[r].status, ![s].attempts = rows[r].attempts]
    BY <1>12 DEF Sweep, Stalled
  <2>2. target'[s] = r /\ seen'[s].status = rows[r].status /\ seen'[s].attempts = rows[r].attempts
    BY <2>1
  <2>3. Others(s) /\ pc'[s] = "claim"
    BY <1>12, <2>1 DEF Sweep, Goto, Others, Same
  <2>4. Finds(s)
    BY <1>12, <2>1, <2>2, <2>3 DEF Sweep, Finds
  <2> QED
    BY <2>4 DEF Forms
<1>13. ASSUME NEW s \in Sweeps, Claim(s) PROVE Forms
  <2>1. CASE ~Claimable(s)
    <3>1. Idles(s)
      BY <1>13, <2>1, FinishForm DEF Claim, Idles, Ends
    <3> QED
      BY <3>1 DEF Forms
  <2>2. CASE Claimable(s)
    <3> DEFINE row == [rows[target[s]] EXCEPT !.quiet = age[s]]
    <3>1. Exists(target[s]) /\ SetRow(target[s], row) /\ rows[target[s]] \in Row /\ age[s] \in Nat
      BY <1>13, <2>2 DEF Claim, Claimable, Exists
    <3>2. row \in Row
      BY <3>1, RowsOf
    <3> HIDE DEF row
    <3>3. RowIs(target[s], row)
      BY <3>1, <3>2, RowForm
    <3>4. Goes(s, IF Exhausted(seen[s].attempts) THEN "giveup" ELSE "load")
      BY <1>13, <2>2, GotoForm DEF Claim, TypeInv, SeenTyped
    <3>5. Claims(s)
      BY <1>13, <2>2, <3>3, <3>4 DEF Claim, Claims, row
    <3> QED
      BY <3>5 DEF Forms
  <2> QED
    BY <2>1, <2>2
<1>14. ASSUME NEW s \in Sweeps, GiveUp(s) PROVE Forms
  <2> DEFINE row == Written([rows[target[s]] EXCEPT !.status = "failed"])
  <2>1. Exists(target[s]) => row \in Row /\ SetRow(target[s], row)
    BY <1>14, RowsOf DEF GiveUp, Exists
  <2> HIDE DEF row
  <2>2. Exists(target[s]) => RowIs(target[s], row)
    BY <2>1, RowForm
  <2>3. Fails(s)
    BY <1>14, <2>2, FinishForm DEF GiveUp, Fails, row
  <2> QED
    BY <2>3 DEF Forms
<1>15. ASSUME NEW d \in Deletions, FindDoomed(d) PROVE Forms
  <2>1. Dooms(d)
    BY <1>15 DEF FindDoomed, Dooms, Goto, Others, Same
  <2> QED
    BY <2>1 DEF Forms
<1>16. ASSUME NEW d \in Deletions, RemoveObjects(d) PROVE Forms
  <2>1. target[d] \in doomed
    BY <1>16 DEF RemoveObjects, FoundInv
  <2>2. \A r, f : <<r, f>> \in stored /\ r # target[d] => <<r, f>> \in stored'
    BY <1>16 DEF RemoveObjects
  <2>3. Dooms(d)
    BY <1>16, <2>1, <2>2 DEF RemoveObjects, Dooms, Goto, Others, Same
  <2> QED
    BY <2>3 DEF Forms
<1>17. ASSUME NEW d \in Deletions, RemoveRow(d) PROVE Forms
  <2>1. UNCHANGED rows \/ (target[d] \in Requests /\ RowIs(target[d], NoRow))
    BY <1>17, RowForm, RowsOf DEF RemoveRow, Exists
  <2>2. Idles(d)
    BY <1>17, <2>1, FinishForm DEF RemoveRow, Idles, Ends
  <2> QED
    BY <2>2 DEF Forms
<1>18. ASSUME NEW i \in Invocations, Die(i) PROVE Forms
  <2>1. Idles(i)
    BY <1>18, FinishForm DEF Die, Idles, Ends
  <2> QED
    BY <2>1 DEF Forms
<1>19. ASSUME Replaces PROVE Forms
  BY <1>19 DEF Forms
<1>20. ASSUME Busts PROVE Forms
  BY <1>20 DEF Busts, Bust, Busted, Forms
<1>22. ASSUME Tick PROVE Forms
  BY <1>22 DEF Tick, Older, Alive, Forms
<1>23. ASSUME UNCHANGED vars PROVE Forms
  BY <1>23 DEF vars, Forms
<1> QED
  BY <1>1, <1>2, <1>3, <1>4, <1>5, <1>6, <1>7, <1>8, <1>9, <1>10, <1>11, <1>12, <1>13,
     <1>14, <1>15, <1>16, <1>17, <1>18, <1>19, <1>20, <1>22, <1>23
     DEF Next, Requesting, Rendering, Sweeping, Deleting, Saving, Replaces, Busts

LEMMA RowsTypedStep ==
    ASSUME ReportInv, [Next]_vars
    PROVE  RowsTyped'
<1> USE Kinds DEF ReportInv, TypeInv, RowsTyped, RowIs, rowVars, brandVars, workVars
<1>1. ASSUME NEW i \in Invocations, Idles(i) PROVE RowsTyped'
  BY <1>1 DEF Idles
<1>2. ASSUME NEW q \in Requests, Creates(q) PROVE RowsTyped'
  BY <1>2 DEF Creates
<1>3. ASSUME NEW i \in Renderers, Begins(i) PROVE RowsTyped'
  BY <1>3 DEF Begins
<1>4. ASSUME NEW i \in Renderers, Starts(i) PROVE RowsTyped'
  BY <1>4 DEF Starts, Goes
<1>5. ASSUME NEW i \in Renderers, Renders(i) PROVE RowsTyped'
  BY <1>5 DEF Renders, Goes
<1>6. ASSUME NEW i \in Renderers, Puts(i) PROVE RowsTyped'
  BY <1>6 DEF Puts, Goes
<1>7. ASSUME NEW i \in Renderers, Readies(i) PROVE RowsTyped'
  BY <1>7 DEF Readies, Ends, Goes, AllStored, At
<1>8. ASSUME NEW i \in Renderers, Breaks(i) PROVE RowsTyped'
  BY <1>8 DEF Breaks, Goes
<1>9. ASSUME NEW i \in Renderers, Fails(i) PROVE RowsTyped'
  BY <1>9 DEF Fails, Ends
<1>10. ASSUME NEW s \in Sweeps, Finds(s) PROVE RowsTyped'
  BY <1>10 DEF Finds
<1>11. ASSUME NEW s \in Sweeps, Claims(s) PROVE RowsTyped'
  BY <1>11 DEF Claims, Goes, Claimable
<1>12. ASSUME NEW d \in Deletions, Dooms(d) PROVE RowsTyped'
  BY <1>12 DEF Dooms
<1>13. ASSUME Replaces PROVE RowsTyped'
  BY <1>13, ReplacesForm
<1>14. ASSUME Busts PROVE RowsTyped'
  <2>1. \A r \in Requests : rows[r] \in Row /\ rows'[r] \in {rows[r], Busted(r)}
    BY <1>14 DEF Busts, Bust
  <2>2. \A r \in Requests : Busted(r) \in Row
    BY <2>1, RowsOf DEF Busted
  <2> QED
    BY <1>14, <2>1, <2>2 DEF Busts, Bust
<1>16. ASSUME Tick PROVE RowsTyped'
  <2>1. \A r \in Requests : rows'[r] \in Row
    BY <1>16, OlderOf DEF Tick
  <2> QED
    BY <1>16, <2>1 DEF Tick
<1>17. ASSUME UNCHANGED vars PROVE RowsTyped'
  BY <1>17 DEF vars
<1> QED
  BY StepForms, <1>1, <1>2, <1>3, <1>4, <1>5, <1>6, <1>7, <1>8, <1>9, <1>10, <1>11,
     <1>12, <1>13, <1>14, <1>16, <1>17
     DEF Forms, ReportInv

LEMMA TypeStep ==
    ASSUME ReportInv, [Next]_vars
    PROVE  TypeInv'
BY RowsTypedStep, PlacesTypedStep, WorkTypedStep, SeenTypedStep, SaveTypedStep
   DEF ReportInv, TypeInv

\* A tick changes neither who is where nor what a row says of its report.
LEMMA TickRows ==
    ASSUME TypeInv, Tick, NEW r \in Requests
    PROVE  /\ rows'[r].status = rows[r].status /\ rows'[r].keyed = rows[r].keyed
           /\ rows'[r].attempts = rows[r].attempts /\ rows'[r].files = rows[r].files
           /\ rows'[r].logo = rows[r].logo
           /\ rows[r].status # "none" => rows'[r].quiet <= rows[r].quiet + 1
BY OlderOf DEF TypeInv, RowsTyped, Tick

LEMMA BustRows ==
    ASSUME TypeInv, Busts, NEW r \in Requests
    PROVE  /\ rows'[r].status = rows[r].status /\ rows'[r].attempts = rows[r].attempts
           /\ rows'[r].files = rows[r].files /\ rows'[r].logo = rows[r].logo
           /\ rows'[r].quiet = rows[r].quiet \/ rows'[r].quiet = 0
           /\ ~(rows'[r].keyed /\ Exists(r))
BY DEF TypeInv, RowsTyped, Row, Busts, Bust, Busted, Keyed, Exists

\* Who is at work afterwards was so before, or has made or claimed the row just now; a request
\* that was once answered or turned to its row is so for good; and only a request makes a row.
WorkersKept ==
    \A i \in Renderers : pc'[i] \in WorkSteps =>
        (Works(i) /\ target'[i] = target[i]) \/ Creates(i) \/ Claims(i)
AskedKept ==
    \A q \in Requests :
        pc[q] \notin {"idle", "drop", "gate"} => pc'[q] \notin {"idle", "drop", "gate"}
RowsMade ==
    \A r \in Requests : rows'[r].status # "none" => rows[r].status # "none" \/ Creates(r)

LEMMA WorkersKeptStep ==
    ASSUME ReportInv, [Next]_vars
    PROVE  WorkersKept
<1> USE Kinds DEF WorkersKept, Works, WorkSteps, Others, Same, Rest, rowVars, brandVars, workVars
<1>1. ASSUME NEW i \in Invocations, Idles(i) PROVE WorkersKept
  BY <1>1 DEF Idles
<1>2. ASSUME NEW q \in Requests, Creates(q) PROVE WorkersKept
  BY <1>2 DEF Creates
<1>3. ASSUME NEW i \in Renderers, Begins(i) PROVE WorkersKept
  BY <1>3 DEF Begins
<1>4. ASSUME NEW i \in Renderers, Starts(i) PROVE WorkersKept
  BY <1>4 DEF Starts, Goes
<1>5. ASSUME NEW i \in Renderers, Renders(i) PROVE WorkersKept
  BY <1>5 DEF Renders, Goes
<1>6. ASSUME NEW i \in Renderers, Puts(i) PROVE WorkersKept
  BY <1>6 DEF Puts, Goes
<1>7. ASSUME NEW i \in Renderers, Readies(i) PROVE WorkersKept
  BY <1>7 DEF Readies, Ends, Goes, AllStored, At
<1>8. ASSUME NEW i \in Renderers, Breaks(i) PROVE WorkersKept
  BY <1>8 DEF Breaks, Goes
<1>9. ASSUME NEW i \in Renderers, Fails(i) PROVE WorkersKept
  BY <1>9 DEF Fails, Ends
<1>10. ASSUME NEW s \in Sweeps, Finds(s) PROVE WorkersKept
  BY <1>10 DEF Finds
<1>11. ASSUME NEW s \in Sweeps, Claims(s) PROVE WorkersKept
  BY <1>11 DEF Claims, Goes, Claimable
<1>12. ASSUME NEW d \in Deletions, Dooms(d) PROVE WorkersKept
  BY <1>12 DEF Dooms
<1>13. ASSUME Replaces PROVE WorkersKept
  BY <1>13, ReplacesForm
<1>14. ASSUME Busts PROVE WorkersKept
  BY <1>14 DEF Busts, Bust, Busted
<1>16. ASSUME Tick PROVE WorkersKept
  BY <1>16 DEF Tick, Alive
<1>17. ASSUME UNCHANGED vars PROVE WorkersKept
  BY <1>17 DEF vars
<1> QED
  BY StepForms, <1>1, <1>2, <1>3, <1>4, <1>5, <1>6, <1>7, <1>8, <1>9, <1>10, <1>11,
     <1>12, <1>13, <1>14, <1>16, <1>17
     DEF Forms, ReportInv

LEMMA AskedKeptStep ==
    ASSUME ReportInv, [Next]_vars
    PROVE  AskedKept
<1> USE Kinds
    DEF AskedKept, ReportInv, TypeInv, PlacesTyped, RequestSteps, Others, Same, Rest, rowVars,
        brandVars, workVars
<1>1. ASSUME NEW i \in Invocations, Idles(i) PROVE AskedKept
  BY <1>1 DEF Idles
<1>2. ASSUME NEW q \in Requests, Creates(q) PROVE AskedKept
  BY <1>2 DEF Creates
<1>3. ASSUME NEW i \in Renderers, Begins(i) PROVE AskedKept
  BY <1>3 DEF Begins
<1>4. ASSUME NEW i \in Renderers, Starts(i) PROVE AskedKept
  BY <1>4 DEF Starts, Goes
<1>5. ASSUME NEW i \in Renderers, Renders(i) PROVE AskedKept
  BY <1>5 DEF Renders, Goes
<1>6. ASSUME NEW i \in Renderers, Puts(i) PROVE AskedKept
  BY <1>6 DEF Puts, Goes
<1>7. ASSUME NEW i \in Renderers, Readies(i) PROVE AskedKept
  BY <1>7 DEF Readies, Ends, Goes, AllStored, At
<1>8. ASSUME NEW i \in Renderers, Breaks(i) PROVE AskedKept
  BY <1>8 DEF Breaks, Goes
<1>9. ASSUME NEW i \in Renderers, Fails(i) PROVE AskedKept
  BY <1>9 DEF Fails, Ends
<1>10. ASSUME NEW s \in Sweeps, Finds(s) PROVE AskedKept
  BY <1>10 DEF Finds
<1>11. ASSUME NEW s \in Sweeps, Claims(s) PROVE AskedKept
  BY <1>11 DEF Claims, Goes, Claimable
<1>12. ASSUME NEW d \in Deletions, Dooms(d) PROVE AskedKept
  BY <1>12 DEF Dooms
<1>13. ASSUME Replaces PROVE AskedKept
  BY <1>13, ReplacesForm
<1>14. ASSUME Busts PROVE AskedKept
  BY <1>14 DEF Busts, Bust, Busted
<1>16. ASSUME Tick PROVE AskedKept
  BY <1>16 DEF Tick, Alive
<1>17. ASSUME UNCHANGED vars PROVE AskedKept
  BY <1>17 DEF vars
<1> QED
  BY StepForms, <1>1, <1>2, <1>3, <1>4, <1>5, <1>6, <1>7, <1>8, <1>9, <1>10, <1>11,
     <1>12, <1>13, <1>14, <1>16, <1>17
     DEF Forms, ReportInv

LEMMA RowsMadeStep ==
    ASSUME ReportInv, [Next]_vars
    PROVE  RowsMade
<1> USE DEF RowsMade, RowIs, Exists, NoRow, rowVars, brandVars, workVars
<1>1. ASSUME NEW i \in Invocations, Idles(i) PROVE RowsMade
  BY <1>1 DEF Idles
<1>2. ASSUME NEW q \in Requests, Creates(q) PROVE RowsMade
  BY <1>2 DEF Creates
<1>3. ASSUME NEW i \in Renderers, Begins(i) PROVE RowsMade
  BY <1>3 DEF Begins
<1>4. ASSUME NEW i \in Renderers, Starts(i) PROVE RowsMade
  BY <1>4 DEF Starts, Goes
<1>5. ASSUME NEW i \in Renderers, Renders(i) PROVE RowsMade
  BY <1>5 DEF Renders, Goes
<1>6. ASSUME NEW i \in Renderers, Puts(i) PROVE RowsMade
  BY <1>6 DEF Puts, Goes
<1>7. ASSUME NEW i \in Renderers, Readies(i) PROVE RowsMade
  BY <1>7 DEF Readies, Ends, Goes, AllStored, At
<1>8. ASSUME NEW i \in Renderers, Breaks(i) PROVE RowsMade
  BY <1>8 DEF Breaks, Goes
<1>9. ASSUME NEW i \in Renderers, Fails(i) PROVE RowsMade
  BY <1>9 DEF Fails, Ends
<1>10. ASSUME NEW s \in Sweeps, Finds(s) PROVE RowsMade
  BY <1>10 DEF Finds
<1>11. ASSUME NEW s \in Sweeps, Claims(s) PROVE RowsMade
  BY <1>11 DEF Claims, Goes, Claimable
<1>12. ASSUME NEW d \in Deletions, Dooms(d) PROVE RowsMade
  BY <1>12 DEF Dooms
<1>13. ASSUME Replaces PROVE RowsMade
  BY <1>13, ReplacesForm
<1>14. ASSUME Busts PROVE RowsMade
  BY <1>14, BustRows DEF Busts, Bust, Busted, ReportInv
<1>16. ASSUME Tick PROVE RowsMade
  BY <1>16, TickRows DEF Tick, Alive, ReportInv
<1>17. ASSUME UNCHANGED vars PROVE RowsMade
  BY <1>17 DEF vars
<1> QED
  BY StepForms, <1>1, <1>2, <1>3, <1>4, <1>5, <1>6, <1>7, <1>8, <1>9, <1>10, <1>11,
     <1>12, <1>13, <1>14, <1>16, <1>17
     DEF Forms, ReportInv

LEMMA AskedStep ==
    ASSUME ReportInv, [Next]_vars
    PROVE  AskedInv'
<1>1. WorkersKept /\ AskedKept /\ RowsMade
  BY WorkersKeptStep, AskedKeptStep, RowsMadeStep
<1>2. AskedInv
  BY DEF ReportInv
<1>3. \A q \in Requests : Creates(q) => pc'[q] = "load" /\ target'[q] = q
  BY DEF Creates
<1>4. \A q \in Requests : rows'[q].status # "none" => pc'[q] \notin {"idle", "drop", "gate"}
  BY <1>1, <1>2, <1>3 DEF AskedInv, AskedKept, RowsMade, Exists
<1>5. ASSUME NEW i \in Renderers, pc'[i] \in WorkSteps
      PROVE  target'[i] \in Requests /\ pc'[target'[i]] \notin {"idle", "drop", "gate"}
  <2>1. CASE Works(i) /\ target'[i] = target[i]
    BY <1>1, <1>2, <2>1 DEF AskedInv, AskedKept
  <2>2. CASE Creates(i)
    <3>1. i \in Requests
      BY <2>2, Kinds DEF Creates, ReportInv, TypeInv, PlacesTyped, SweepSteps
    <3> QED
      BY <1>3, <2>2, <3>1
  <2>3. CASE Claims(i)
    <3>1. target'[i] = target[i] /\ Exists(target[i])
      BY <2>3 DEF Claims, Claimable, Goes
    <3> QED
      BY <1>1, <1>2, <3>1 DEF AskedInv, AskedKept, Exists
  <2> QED
    BY <1>1, <1>5, <2>1, <2>2, <2>3 DEF WorkersKept
<1> QED
  BY <1>4, <1>5 DEF AskedInv, Exists, Works

LEMMA FoundStep ==
    ASSUME ReportInv, [Next]_vars
    PROVE  FoundInv'
<1> USE Kinds
    DEF ReportInv, FoundInv, Aside, Others, Same, Rest, Unfinished, rowVars, brandVars, workVars
<1>1. ASSUME NEW i \in Invocations, Idles(i) PROVE FoundInv'
  BY <1>1 DEF Idles
<1>2. ASSUME NEW q \in Requests, Creates(q) PROVE FoundInv'
  BY <1>2 DEF Creates
<1>3. ASSUME NEW i \in Renderers, Begins(i) PROVE FoundInv'
  BY <1>3 DEF Begins
<1>4. ASSUME NEW i \in Renderers, Starts(i) PROVE FoundInv'
  BY <1>4 DEF Starts, Goes
<1>5. ASSUME NEW i \in Renderers, Renders(i) PROVE FoundInv'
  BY <1>5 DEF Renders, Goes
<1>6. ASSUME NEW i \in Renderers, Puts(i) PROVE FoundInv'
  BY <1>6 DEF Puts, Goes
<1>7. ASSUME NEW i \in Renderers, Readies(i) PROVE FoundInv'
  BY <1>7 DEF Readies, Ends, Goes, AllStored, At
<1>8. ASSUME NEW i \in Renderers, Breaks(i) PROVE FoundInv'
  BY <1>8 DEF Breaks, Goes
<1>9. ASSUME NEW i \in Renderers, Fails(i) PROVE FoundInv'
  BY <1>9 DEF Fails, Ends
<1>10. ASSUME NEW s \in Sweeps, Finds(s) PROVE FoundInv'
  BY <1>10 DEF Finds
<1>11. ASSUME NEW s \in Sweeps, Claims(s) PROVE FoundInv'
  BY <1>11 DEF Claims, Goes, Claimable
<1>12. ASSUME NEW d \in Deletions, Dooms(d) PROVE FoundInv'
  BY <1>12 DEF Dooms
<1>13. ASSUME Replaces PROVE FoundInv'
  BY <1>13, ReplacesForm
<1>14. ASSUME Busts PROVE FoundInv'
  BY <1>14 DEF Busts, Bust, Busted
<1>16. ASSUME Tick PROVE FoundInv'
  BY <1>16 DEF Tick, Alive
<1>17. ASSUME UNCHANGED vars PROVE FoundInv'
  BY <1>17 DEF vars
<1> QED
  BY StepForms, <1>1, <1>2, <1>3, <1>4, <1>5, <1>6, <1>7, <1>8, <1>9, <1>10, <1>11,
     <1>12, <1>13, <1>14, <1>16, <1>17
     DEF Forms, ReportInv

\* Nobody works on a report that can be claimed.
LEMMA ClaimAlone ==
    ASSUME ReportInv, NEW s \in Sweeps, Claims(s), NEW i \in Renderers, Works(i)
    PROVE  target[i] # target[s]
<1> SUFFICES ASSUME target[i] = target[s] PROVE FALSE
  OBVIOUS
<1>1. Exists(target[s]) /\ rows[target[s]].quiet >= Cap(StaleAfter + age[s])
  BY DEF Claims, Claimable
<1>2. rows[target[s]].quiet <= age[i]
  BY <1>1 DEF ReportInv, LeaseInv
<1>3. age[i] \in 0 .. MaxDuration /\ age[s] \in Nat /\ rows[target[s]].quiet \in Nat
  BY <1>1, Kinds DEF ReportInv, TypeInv, WorkTyped, RowsTyped, Row, Exists
<1>4. Cap(StaleAfter + age[s]) >= StaleAfter /\ Cap(StaleAfter + age[s]) \in Nat
  BY <1>3, CapType, LimitAssumption
<1> QED
  BY <1>1, <1>2, <1>3, <1>4, LimitAssumption

LEMMA OneWorkerStep ==
    ASSUME ReportInv, [Next]_vars,
           NEW i \in Renderers, NEW j \in Renderers, pc'[i] \in WorkSteps, pc'[j] \in WorkSteps,
           target'[i] = target'[j], i # j
    PROVE  FALSE
<1>1. \A k \in Renderers : pc'[k] \in WorkSteps =>
         (Works(k) /\ target'[k] = target[k]) \/ Creates(k) \/ Claims(k)
  BY WorkersKeptStep DEF WorkersKept
<1>2. \A k \in Renderers : Works(k) => target[k] \in Requests /\ pc[target[k]] # "gate"
  BY DEF ReportInv, AskedInv
<1>3. \A k, l \in Renderers : Works(k) /\ Works(l) /\ target[k] = target[l] => k = l
  BY DEF ReportInv, LeaseInv
<1>4. ASSUME NEW k \in Renderers, NEW l \in Renderers, k # l, Creates(k) \/ Claims(k)
      PROVE  ~Creates(l) /\ ~Claims(l) /\ pc'[l] = pc[l] /\ target'[l] = target[l]
  <2>1. pc'[l] = pc[l] /\ target'[l] = target[l]
    BY <1>4, Kinds DEF Creates, Claims, Goes, Others, Same
  <2> QED
    BY <2>1 DEF Creates, Claims, Goes
<1>5. ASSUME NEW k \in Renderers, NEW l \in Renderers, k # l, Creates(k), Works(l),
             target'[k] = target[l]
      PROVE  FALSE
  BY <1>2, <1>5 DEF Creates
<1>6. ASSUME NEW k \in Renderers, NEW l \in Renderers, k # l, Claims(k), Works(l),
             target'[k] = target[l]
      PROVE  FALSE
  <2>1. k \in Sweeps
    BY <1>6, Kinds DEF Claims, ReportInv, TypeInv, PlacesTyped, RequestSteps
  <2>2. target'[k] = target[k]
    BY <1>6 DEF Claims, Goes
  <2> QED
    BY <1>6, <2>1, <2>2, ClaimAlone
<1> QED
  BY <1>1, <1>3, <1>4, <1>5, <1>6

\* Who works on a report has written its row in his lifetime, and leaves it unfinished.
Leased(i, r) ==
    /\ rows[r].quiet <= age[i]
    /\ pc[i] # "failing" => rows[r].status \in {"queued", "generating"}
LeaseKept(i, r) ==
    rows'[r].status # "none" /\ pc'[i] \in WorkSteps /\ target'[i] = r => (Leased(i, r))'

LEMMA LeaseFacts ==
    ASSUME ReportInv, NEW i \in Renderers, NEW r \in Requests, Works(i), target[i] = r
    PROVE  /\ rows[r].status # "none" => Leased(i, r)
           /\ age[i] \in Nat /\ rows[r] \in Row /\ pc[r] # "gate"
           /\ \A j \in Renderers : j # i /\ Works(j) => target[j] # r
           /\ \A s \in Sweeps : Claims(s) => target[s] # r
<1>1. \A s \in Sweeps : Claims(s) => target[s] # r
  BY ClaimAlone
<1> QED
  BY <1>1, Kinds
     DEF ReportInv, LeaseInv, AskedInv, TypeInv, WorkTyped, RowsTyped, Leased, Unfinished, Exists

LEMMA LeaseKeptStep ==
    ASSUME ReportInv, NEW w \in Renderers, NEW r \in Requests, Works(w), target[w] = r, [Next]_vars
    PROVE  LeaseKept(w, r)
<1> USE Kinds, LeaseFacts
    DEF LeaseKept, Leased, Works, WorkSteps, Written, NoRow, Row, Others, Same, Aside, RowIs,
        Exists, Rest, rowVars, brandVars, workVars
<1>1. ASSUME NEW i \in Invocations, Idles(i) PROVE LeaseKept(w, r)
  BY <1>1 DEF Idles
<1>2. ASSUME NEW q \in Requests, Creates(q) PROVE LeaseKept(w, r)
  BY <1>2 DEF Creates
<1>3. ASSUME NEW i \in Renderers, Begins(i) PROVE LeaseKept(w, r)
  BY <1>3 DEF Begins
<1>4. ASSUME NEW i \in Renderers, Starts(i) PROVE LeaseKept(w, r)
  <2>1. CASE i = w
    <3>1. /\ rows'[r] = Written([rows[r] EXCEPT !.status = "generating", !.attempts = @ + 1])
          /\ age'[w] = age[w]
      BY <1>4, <2>1 DEF Starts, Goes
    <3>2. rows'[r].status = "generating" /\ rows'[r].quiet = 0
      BY <3>1
    <3>3. age[w] \in Nat
      OBVIOUS
    <3> QED
      BY <3>1, <3>2, <3>3
  <2>2. CASE i # w
    <3>1. target[i] # r
      BY <1>4, <2>2 DEF Starts, Goes
    <3> QED
      BY <1>4, <2>2, <3>1 DEF Starts, Goes
  <2> QED
    BY <2>1, <2>2
<1>5. ASSUME NEW i \in Renderers, Renders(i) PROVE LeaseKept(w, r)
  BY <1>5 DEF Renders, Goes
<1>6. ASSUME NEW i \in Renderers, Puts(i) PROVE LeaseKept(w, r)
  BY <1>6 DEF Puts, Goes
<1>7. ASSUME NEW i \in Renderers, Readies(i) PROVE LeaseKept(w, r)
  <2>1. CASE i = w
    <3>1. /\ rows'[r] = Written([rows[r] EXCEPT
                            !.status = "ready", !.files = Files, !.logo = seen[i].logo])
          /\ pc'[w] \notin WorkSteps \/ (pc'[w] = "failing" /\ age'[w] = age[w])
      BY <1>7, <2>1 DEF Readies, Ends, Goes
    <3>2. rows'[r].quiet = 0
      BY <3>1
    <3>3. age[w] \in Nat
      OBVIOUS
    <3> QED
      BY <3>1, <3>2, <3>3
  <2>2. CASE i # w
    <3>1. target[i] # r
      BY <1>7, <2>2 DEF Readies, AllStored, At
    <3> QED
      BY <1>7, <2>2, <3>1 DEF Readies, Ends, Goes
  <2> QED
    BY <2>1, <2>2
<1>8. ASSUME NEW i \in Renderers, Breaks(i) PROVE LeaseKept(w, r)
  BY <1>8 DEF Breaks, Goes
<1>9. ASSUME NEW i \in Renderers, Fails(i) PROVE LeaseKept(w, r)
  BY <1>9 DEF Fails, Ends
<1>10. ASSUME NEW s \in Sweeps, Finds(s) PROVE LeaseKept(w, r)
  BY <1>10 DEF Finds
<1>11. ASSUME NEW s \in Sweeps, Claims(s) PROVE LeaseKept(w, r)
  BY <1>11 DEF Claims, Goes, Claimable
<1>12. ASSUME NEW d \in Deletions, Dooms(d) PROVE LeaseKept(w, r)
  BY <1>12 DEF Dooms
<1>13. ASSUME Replaces PROVE LeaseKept(w, r)
  BY <1>13, ReplacesForm
<1>14. ASSUME Busts PROVE LeaseKept(w, r)
  <2>1. rows'[r].status = rows[r].status /\ (rows'[r].quiet = rows[r].quiet \/ rows'[r].quiet = 0)
    BY <1>14, BustRows DEF ReportInv
  <2>2. UNCHANGED <<pc, age, target>>
    BY <1>14 DEF Busts, Bust
  <2> QED
    BY <2>1, <2>2
<1>16. ASSUME Tick PROVE LeaseKept(w, r)
  <2>1. /\ rows'[r].status = rows[r].status
        /\ rows[r].status # "none" => rows'[r].quiet <= rows[r].quiet + 1
    BY <1>16, TickRows DEF ReportInv
  <2>2. UNCHANGED <<pc, target>> /\ age'[w] = age[w] + 1
    BY <1>16 DEF Tick, Alive
  <2>3. rows'[r].quiet \in Nat
    BY <1>16, TypeStep DEF TypeInv, RowsTyped
  <2> QED
    BY <2>1, <2>2, <2>3
<1>17. ASSUME UNCHANGED vars PROVE LeaseKept(w, r)
  BY <1>17 DEF vars
<1> QED
  BY StepForms, <1>1, <1>2, <1>3, <1>4, <1>5, <1>6, <1>7, <1>8, <1>9, <1>10, <1>11,
     <1>12, <1>13, <1>14, <1>16, <1>17
     DEF Forms, ReportInv

LEMMA LeaseStep ==
    ASSUME ReportInv, [Next]_vars
    PROVE  LeaseInv'
<1>1. \A i, j \in Renderers :
         pc'[i] \in WorkSteps /\ pc'[j] \in WorkSteps /\ target'[i] = target'[j] => i = j
  BY OneWorkerStep
<1>2. ASSUME NEW i \in Renderers, pc'[i] \in WorkSteps, target'[i] \in Requests,
             rows'[target'[i]].status # "none"
      PROVE  (Leased(i, target[i]))'
  <2>1. CASE Works(i) /\ target'[i] = target[i]
    <3> DEFINE r == target[i]
    <3>1. LeaseKept(i, r)
      BY <1>2, <2>1, LeaseKeptStep
    <3> QED
      BY <1>2, <2>1, <3>1 DEF LeaseKept
  <2>2. CASE Creates(i)
    <3>1. i \in Requests
      BY <2>2, Kinds DEF Creates, ReportInv, TypeInv, PlacesTyped, SweepSteps
    <3>2. target'[i] = i /\ rows'[i].quiet = 0 /\ rows'[i].status = "queued"
      BY <2>2 DEF Creates, RowIs, NoRow
    <3>3. age'[i] \in Nat
      BY <3>1, Kinds, TypeStep DEF TypeInv, WorkTyped
    <3> QED
      BY <3>2, <3>3 DEF Leased
  <2>3. CASE Claims(i)
    <3> DEFINE r == target[i]
    <3>1. i \in Sweeps
      BY <2>3, Kinds DEF Claims, ReportInv, TypeInv, PlacesTyped, RequestSteps
    <3>2. /\ r \in Requests /\ rows[r] \in Row /\ target'[i] = r /\ age'[i] = age[i]
          /\ rows'[r] = [rows[r] EXCEPT !.quiet = age[i]] /\ rows[r].status = seen[i].status
      BY <2>3 DEF Claims, Claimable, Goes, RowIs, Exists, ReportInv, TypeInv, RowsTyped
    <3>3. seen[i].status \in {"queued", "generating"} /\ age[i] \in Nat
      BY <2>3, <3>1, Kinds DEF Claims, ReportInv, FoundInv, TypeInv, WorkTyped
    <3>4. rows'[r].quiet = age[i] /\ rows'[r].status = seen[i].status
      BY <3>2 DEF Row
    <3> QED
      BY <3>2, <3>3, <3>4 DEF Leased
  <2> QED
    BY <1>2, <2>1, <2>2, <2>3, WorkersKeptStep DEF WorkersKept
<1> QED
  BY <1>1, <1>2 DEF LeaseInv, Works, Exists, Leased, Unfinished

\* Started as often as it was, or anew, or once more by its worker, who was allowed to.
LEMMA AttemptFacts ==
    ASSUME ReportInv
    PROVE  /\ \A r \in Requests : rows[r] \in Row /\ rows[r].attempts <= MaxAttempts
           /\ MaxAttempts \in Nat \ {0}
           /\ \A i \in Renderers : pc[i] \in {"load", "start"} /\ Exists(target[i]) =>
                 rows[target[i]].attempts < MaxAttempts
BY AttemptsAssumption DEF ReportInv, TypeInv, RowsTyped, AttemptInv

FewStarts(r) == rows'[r].attempts <= MaxAttempts

LEMMA FewStartsStep ==
    ASSUME ReportInv, NEW r \in Requests, [Next]_vars
    PROVE  FewStarts(r)
<1> USE AttemptFacts
    DEF FewStarts, RowIs, Exists, NoRow, Written, Row, rowVars, brandVars, workVars
<1>1. ASSUME NEW i \in Invocations, Idles(i) PROVE FewStarts(r)
  BY <1>1 DEF Idles
<1>2. ASSUME NEW q \in Requests, Creates(q) PROVE FewStarts(r)
  <2>1. CASE q = r
    <3>1. rows'[r] = [NoRow EXCEPT !.status = "queued", !.keyed = TRUE]
      BY <1>2, <2>1 DEF Creates
    <3>2. rows'[r].attempts = 0
      BY <3>1
    <3> QED
      BY <3>2
  <2>2. CASE q # r
    BY <1>2, <2>2 DEF Creates
  <2> QED
    BY <2>1, <2>2
<1>3. ASSUME NEW i \in Renderers, Begins(i) PROVE FewStarts(r)
  BY <1>3 DEF Begins
<1>4. ASSUME NEW i \in Renderers, Starts(i) PROVE FewStarts(r)
  <2>1. CASE target[i] = r
    <3>1. rows'[r] = Written([rows[r] EXCEPT !.status = "generating", !.attempts = @ + 1])
      BY <1>4, <2>1 DEF Starts
    <3>2. rows'[r].attempts = rows[r].attempts + 1 /\ rows'[r].quiet = 0
      BY <3>1
    <3> QED
      BY <1>4, <2>1, <3>2 DEF Starts
  <2>2. CASE target[i] # r
    BY <1>4, <2>2 DEF Starts
  <2> QED
    BY <2>1, <2>2
<1>5. ASSUME NEW i \in Renderers, Renders(i) PROVE FewStarts(r)
  BY <1>5 DEF Renders, Goes
<1>6. ASSUME NEW i \in Renderers, Puts(i) PROVE FewStarts(r)
  BY <1>6 DEF Puts, Goes
<1>7. ASSUME NEW i \in Renderers, Readies(i) PROVE FewStarts(r)
  <2>1. CASE target[i] = r
    <3>1. rows'[r] = Written([rows[r] EXCEPT
                        !.status = "ready", !.files = Files, !.logo = seen[i].logo])
      BY <1>7, <2>1 DEF Readies
    <3>2. rows'[r].attempts = rows[r].attempts /\ rows'[r].quiet = 0
      BY <3>1
    <3> QED
      BY <1>7, <2>1, <3>2 DEF Readies
  <2>2. CASE target[i] # r
    BY <1>7, <2>2 DEF Readies
  <2> QED
    BY <2>1, <2>2
<1>8. ASSUME NEW i \in Renderers, Breaks(i) PROVE FewStarts(r)
  BY <1>8 DEF Breaks, Goes
<1>9. ASSUME NEW i \in Renderers, Fails(i) PROVE FewStarts(r)
  BY <1>9 DEF Fails, Ends
<1>10. ASSUME NEW s \in Sweeps, Finds(s) PROVE FewStarts(r)
  BY <1>10 DEF Finds
<1>11. ASSUME NEW s \in Sweeps, Claims(s) PROVE FewStarts(r)
  BY <1>11 DEF Claims, Goes, Claimable
<1>12. ASSUME NEW d \in Deletions, Dooms(d) PROVE FewStarts(r)
  BY <1>12 DEF Dooms
<1>13. ASSUME Replaces PROVE FewStarts(r)
  BY <1>13, ReplacesForm
<1>14. ASSUME Busts PROVE FewStarts(r)
  BY <1>14, BustRows DEF ReportInv
<1>16. ASSUME Tick PROVE FewStarts(r)
  BY <1>16, TickRows DEF ReportInv
<1>17. ASSUME UNCHANGED vars PROVE FewStarts(r)
  BY <1>17 DEF vars
<1> QED
  BY StepForms, <1>1, <1>2, <1>3, <1>4, <1>5, <1>6, <1>7, <1>8, <1>9, <1>10, <1>11,
     <1>12, <1>13, <1>14, <1>16, <1>17
     DEF Forms, ReportInv

MayStart(w, r) ==
    rows'[r].status # "none" /\ pc'[w] \in {"load", "start"} /\ target'[w] = r =>
        rows'[r].attempts < MaxAttempts

LEMMA MayStartStep ==
    ASSUME ReportInv, NEW w \in Renderers, NEW r \in Requests, Works(w), target[w] = r, [Next]_vars
    PROVE  MayStart(w, r)
<1> USE Kinds, LeaseFacts, AttemptFacts
    DEF MayStart, Works, WorkSteps, Others, Same, Rest, RowIs, Exists, NoRow, Written, Row,
        rowVars, brandVars, workVars
<1>1. ASSUME NEW i \in Invocations, Idles(i) PROVE MayStart(w, r)
  BY <1>1 DEF Idles
<1>2. ASSUME NEW q \in Requests, Creates(q) PROVE MayStart(w, r)
  BY <1>2 DEF Creates
<1>3. ASSUME NEW i \in Renderers, Begins(i) PROVE MayStart(w, r)
  BY <1>3 DEF Begins
<1>4. ASSUME NEW i \in Renderers, Starts(i) PROVE MayStart(w, r)
  <2>1. CASE target[i] = r
    <3>1. rows'[r] = Written([rows[r] EXCEPT !.status = "generating", !.attempts = @ + 1])
      BY <1>4, <2>1 DEF Starts
    <3>2. rows'[r].attempts = rows[r].attempts + 1 /\ rows'[r].quiet = 0
      BY <3>1
    <3> QED
      BY <1>4, <2>1, <3>2 DEF Starts, Goes
  <2>2. CASE target[i] # r
    BY <1>4, <2>2 DEF Starts, Goes
  <2> QED
    BY <2>1, <2>2
<1>5. ASSUME NEW i \in Renderers, Renders(i) PROVE MayStart(w, r)
  BY <1>5 DEF Renders, Goes
<1>6. ASSUME NEW i \in Renderers, Puts(i) PROVE MayStart(w, r)
  BY <1>6 DEF Puts, Goes
<1>7. ASSUME NEW i \in Renderers, Readies(i) PROVE MayStart(w, r)
  <2>1. CASE target[i] = r
    <3>1. rows'[r] = Written([rows[r] EXCEPT
                        !.status = "ready", !.files = Files, !.logo = seen[i].logo])
      BY <1>7, <2>1 DEF Readies
    <3>2. rows'[r].attempts = rows[r].attempts /\ rows'[r].quiet = 0
      BY <3>1
    <3> QED
      BY <1>7, <2>1, <3>2 DEF Readies, Goes, Ends
  <2>2. CASE target[i] # r
    BY <1>7, <2>2 DEF Readies, Goes, Ends
  <2> QED
    BY <2>1, <2>2
<1>8. ASSUME NEW i \in Renderers, Breaks(i) PROVE MayStart(w, r)
  BY <1>8 DEF Breaks, Goes
<1>9. ASSUME NEW i \in Renderers, Fails(i) PROVE MayStart(w, r)
  BY <1>9 DEF Fails, Ends
<1>10. ASSUME NEW s \in Sweeps, Finds(s) PROVE MayStart(w, r)
  BY <1>10 DEF Finds
<1>11. ASSUME NEW s \in Sweeps, Claims(s) PROVE MayStart(w, r)
  BY <1>11 DEF Claims, Goes, Claimable
<1>12. ASSUME NEW d \in Deletions, Dooms(d) PROVE MayStart(w, r)
  BY <1>12 DEF Dooms
<1>13. ASSUME Replaces PROVE MayStart(w, r)
  BY <1>13, ReplacesForm
<1>14. ASSUME Busts PROVE MayStart(w, r)
  <2>1. rows'[r].status = rows[r].status /\ rows'[r].attempts = rows[r].attempts
    BY <1>14, BustRows DEF ReportInv
  <2>2. UNCHANGED <<pc, age, target>>
    BY <1>14 DEF Busts, Bust
  <2> QED
    BY <2>1, <2>2
<1>16. ASSUME Tick PROVE MayStart(w, r)
  <2>1. rows'[r].status = rows[r].status /\ rows'[r].attempts = rows[r].attempts
    BY <1>16, TickRows DEF ReportInv
  <2>2. UNCHANGED <<pc, target>>
    BY <1>16 DEF Tick
  <2> QED
    BY <2>1, <2>2
<1>17. ASSUME UNCHANGED vars PROVE MayStart(w, r)
  BY <1>17 DEF vars
<1> QED
  BY StepForms, <1>1, <1>2, <1>3, <1>4, <1>5, <1>6, <1>7, <1>8, <1>9, <1>10, <1>11,
     <1>12, <1>13, <1>14, <1>16, <1>17
     DEF Forms, ReportInv

\* What a sweep has read of the attempts is so, or the row was written in its lifetime.
ClaimerKnows(s, r) ==
    rows[r].status # "none" /\ pc[s] = "claim" /\ target[s] = r =>
        rows[r].attempts = seen[s].attempts \/ rows[r].quiet <= age[s]

LEMMA ClaimerFacts ==
    ASSUME ReportInv, NEW w \in Sweeps, NEW r \in Requests
    PROVE  /\ ClaimerKnows(w, r) /\ age[w] \in Nat /\ rows[r] \in Row
           /\ \A s \in Sweeps : Claims(s) /\ target[s] = r => rows[r].quiet > age[w]
<1>1. /\ ClaimerKnows(w, r) /\ age[w] \in 0 .. MaxDuration /\ rows[r] \in Row
      /\ \A s \in Sweeps : age[s] \in Nat
  <2>1. ClaimerKnows(w, r)
    BY DEF ReportInv, AttemptInv, ClaimerKnows, Exists
  <2>2. \A i \in Invocations : age[i] \in 0 .. MaxDuration
    BY DEF ReportInv, TypeInv, WorkTyped
  <2>3. rows[r] \in Row
    BY DEF ReportInv, TypeInv, RowsTyped
  <2> QED
    BY <2>1, <2>2, <2>3, Kinds
<1>2. ASSUME NEW s \in Sweeps, Claims(s), target[s] = r PROVE rows[r].quiet > age[w]
  <2>1. rows[r].quiet >= Cap(StaleAfter + age[s]) /\ rows[r].quiet \in Nat
    BY <1>1, <1>2 DEF Claims, Claimable, Row
  <2>2. Cap(StaleAfter + age[s]) >= StaleAfter /\ Cap(StaleAfter + age[s]) \in Nat
    BY <1>1, CapType, LimitAssumption
  <2> QED
    BY <1>1, <2>1, <2>2, LimitAssumption
<1> QED
  BY <1>1, <1>2, LimitAssumption

LEMMA ClaimerKnowsStep ==
    ASSUME ReportInv, NEW w \in Sweeps, NEW r \in Requests, [Next]_vars
    PROVE  (ClaimerKnows(w, r))'
<1> USE Kinds, ClaimerFacts
    DEF ClaimerKnows, Others, Same, Rest, RowIs, Exists, NoRow, Written, Row, rowVars, brandVars,
        workVars
<1>1. ASSUME NEW i \in Invocations, Idles(i) PROVE (ClaimerKnows(w, r))'
  BY <1>1 DEF Idles
<1>2. ASSUME NEW q \in Requests, Creates(q) PROVE (ClaimerKnows(w, r))'
  <2>1. CASE q = r
    <3>1. rows'[r] = [NoRow EXCEPT !.status = "queued", !.keyed = TRUE]
      BY <1>2, <2>1 DEF Creates
    <3>2. rows'[r].quiet = 0 /\ age'[w] = age[w]
      BY <1>2, <3>1 DEF Creates
    <3> QED
      BY <3>2
  <2>2. CASE q # r
    BY <1>2, <2>2 DEF Creates
  <2> QED
    BY <2>1, <2>2
<1>3. ASSUME NEW i \in Renderers, Begins(i) PROVE (ClaimerKnows(w, r))'
  BY <1>3 DEF Begins
<1>4. ASSUME NEW i \in Renderers, Starts(i) PROVE (ClaimerKnows(w, r))'
  <2>1. CASE target[i] = r
    <3>1. rows'[r] = Written([rows[r] EXCEPT !.status = "generating", !.attempts = @ + 1])
      BY <1>4, <2>1 DEF Starts
    <3>2. rows'[r].attempts = rows[r].attempts + 1 /\ rows'[r].quiet = 0
      BY <3>1
    <3> QED
      BY <1>4, <2>1, <3>2 DEF Starts, Goes
  <2>2. CASE target[i] # r
    BY <1>4, <2>2 DEF Starts, Goes
  <2> QED
    BY <2>1, <2>2
<1>5. ASSUME NEW i \in Renderers, Renders(i) PROVE (ClaimerKnows(w, r))'
  BY <1>5 DEF Renders, Goes
<1>6. ASSUME NEW i \in Renderers, Puts(i) PROVE (ClaimerKnows(w, r))'
  BY <1>6 DEF Puts, Goes
<1>7. ASSUME NEW i \in Renderers, Readies(i) PROVE (ClaimerKnows(w, r))'
  <2>1. CASE target[i] = r
    <3>1. rows'[r] = Written([rows[r] EXCEPT
                        !.status = "ready", !.files = Files, !.logo = seen[i].logo])
      BY <1>7, <2>1 DEF Readies
    <3>2. rows'[r].attempts = rows[r].attempts /\ rows'[r].quiet = 0
      BY <3>1
    <3> QED
      BY <1>7, <2>1, <3>2 DEF Readies, Goes, Ends
  <2>2. CASE target[i] # r
    BY <1>7, <2>2 DEF Readies, Goes, Ends
  <2> QED
    BY <2>1, <2>2
<1>8. ASSUME NEW i \in Renderers, Breaks(i) PROVE (ClaimerKnows(w, r))'
  BY <1>8 DEF Breaks, Goes
<1>9. ASSUME NEW i \in Renderers, Fails(i) PROVE (ClaimerKnows(w, r))'
  <2>1. CASE target[i] = r /\ Exists(r)
    <3>1. rows'[r] = Written([rows[r] EXCEPT !.status = "failed"])
      BY <1>9, <2>1 DEF Fails
    <3>2. rows'[r].attempts = rows[r].attempts /\ rows'[r].quiet = 0
      BY <3>1
    <3> QED
      BY <1>9, <2>1, <3>2 DEF Fails, Ends
  <2>2. CASE ~(target[i] = r /\ Exists(r))
    BY <1>9, <2>2 DEF Fails, Ends
  <2> QED
    BY <2>1, <2>2
<1>10. ASSUME NEW s \in Sweeps, Finds(s) PROVE (ClaimerKnows(w, r))'
  BY <1>10 DEF Finds
<1>11. ASSUME NEW s \in Sweeps, Claims(s) PROVE (ClaimerKnows(w, r))'
  BY <1>11 DEF Claims, Goes, Claimable
<1>12. ASSUME NEW d \in Deletions, Dooms(d) PROVE (ClaimerKnows(w, r))'
  BY <1>12 DEF Dooms
<1>13. ASSUME Replaces PROVE (ClaimerKnows(w, r))'
  BY <1>13, ReplacesForm
<1>14. ASSUME Busts PROVE (ClaimerKnows(w, r))'
  <2>1. /\ rows'[r].status = rows[r].status /\ rows'[r].attempts = rows[r].attempts
        /\ rows'[r].quiet = rows[r].quiet \/ rows'[r].quiet = 0
    BY <1>14, BustRows DEF ReportInv
  <2>2. UNCHANGED <<pc, age, target, seen>>
    BY <1>14 DEF Busts, Bust
  <2> QED
    BY <2>1, <2>2
<1>16. ASSUME Tick PROVE (ClaimerKnows(w, r))'
  <2>1. /\ rows'[r].status = rows[r].status /\ rows'[r].attempts = rows[r].attempts
        /\ rows[r].status # "none" => rows'[r].quiet <= rows[r].quiet + 1
    BY <1>16, TickRows DEF ReportInv
  <2>2. UNCHANGED <<pc, target, seen>> /\ (pc[w] = "claim" => age'[w] = age[w] + 1)
    BY <1>16 DEF Tick, Alive
  <2>3. rows'[r].quiet \in Nat
    BY <1>16, TypeStep DEF TypeInv, RowsTyped
  <2> QED
    BY <2>1, <2>2, <2>3
<1>17. ASSUME UNCHANGED vars PROVE (ClaimerKnows(w, r))'
  BY <1>17 DEF vars
<1> QED
  BY StepForms, <1>1, <1>2, <1>3, <1>4, <1>5, <1>6, <1>7, <1>8, <1>9, <1>10, <1>11,
     <1>12, <1>13, <1>14, <1>16, <1>17
     DEF Forms, ReportInv

LEMMA AttemptStep ==
    ASSUME ReportInv, [Next]_vars
    PROVE  AttemptInv'
<1>1. \A r \in Requests : rows'[r].attempts <= MaxAttempts
  BY FewStartsStep DEF FewStarts
<1>2. ASSUME NEW i \in Renderers, pc'[i] \in {"load", "start"}, target'[i] \in Requests,
             rows'[target'[i]].status # "none"
      PROVE  rows'[target'[i]].attempts < MaxAttempts
  <2>1. CASE Works(i) /\ target'[i] = target[i]
    <3> DEFINE r == target[i]
    <3>1. MayStart(i, r)
      BY <1>2, <2>1, MayStartStep
    <3> QED
      BY <1>2, <2>1, <3>1 DEF MayStart
  <2>2. CASE Creates(i)
    BY <2>2, AttemptsAssumption DEF Creates, RowIs, NoRow
  <2>3. CASE Claims(i)
    <3> DEFINE r == target[i]
    <3>1. i \in Sweeps
      BY <2>3, Kinds DEF Claims, ReportInv, TypeInv, PlacesTyped, RequestSteps
    <3>2. /\ r \in Requests /\ rows[r].status # "none" /\ pc[i] = "claim" /\ target'[i] = r
          /\ rows'[r] = [rows[r] EXCEPT !.quiet = age[i]]
      BY <2>3 DEF Claims, Claimable, Goes, RowIs, Exists
    <3>3. rows[r].quiet > age[i] /\ ClaimerKnows(i, r) /\ rows[r] \in Row /\ age[i] \in Nat
      BY <2>3, <3>1, <3>2, ClaimerFacts
    <3>4. rows[r].attempts = seen[i].attempts
      BY <3>2, <3>3 DEF ClaimerKnows, Row
    <3>5. ~(seen[i].attempts >= MaxAttempts)
      BY <1>2, <2>3 DEF Claims, Goes, Exhausted
    <3>6. rows'[r].attempts = rows[r].attempts
      BY <3>2, <3>3 DEF Row
    <3> QED
      BY <3>2, <3>3, <3>4, <3>5, <3>6, AttemptsAssumption DEF Row
  <2> QED
    BY <1>2, <2>1, <2>2, <2>3, WorkersKeptStep DEF WorkersKept, WorkSteps
<1>3. \A s \in Sweeps, r \in Requests : (ClaimerKnows(s, r))'
  BY ClaimerKnowsStep
<1>4. \A s \in Sweeps, r \in Requests :
         rows'[r].status # "none" /\ pc'[s] = "claim" /\ target'[s] = r =>
            rows'[r].attempts = seen'[s].attempts \/ rows'[r].quiet <= age'[s]
  BY <1>3 DEF ClaimerKnows
<1> QED
  BY <1>1, <1>2, <1>4 DEF AttemptInv, Exists

\* What a render has stored of its report is stored.
HasStored(w) ==
    pc[w] = "put" /\ target[w] \notin doomed =>
        \A n \in 1 .. count[w] : <<target[w], Outputs[n]>> \in stored
HasFiles(r) ==
    r \notin doomed /\ rows[r].status = "ready" =>
        \A f \in rows[r].files \cup {Outputs[1]} : <<r, f>> \in stored

LEMMA StoredFacts ==
    ASSUME ReportInv
    PROVE  /\ \A i \in Renderers : HasStored(i)
           /\ \A r \in Requests : HasFiles(r) /\ rows[r] \in Row
           /\ \A i \in Renderers : count[i] \in Nat /\ (pc[i] # "put" => count[i] = 0)
           /\ \A d \in Deletions : pc[d] \in {"objects", "row"} => target[d] \in doomed
<1>1. /\ \A i \in Renderers : HasStored(i)
      /\ \A r \in Requests : HasFiles(r)
  BY DEF ReportInv, StoredInv, HasStored, HasFiles, ReadyIsWhole
<1>2. \A r \in Requests : rows[r] \in Row
  BY DEF ReportInv, TypeInv, RowsTyped
<1>3. \A i \in Renderers : count[i] \in Nat /\ (pc[i] # "put" => count[i] = 0)
  BY Kinds, OutputsTyped DEF ReportInv, TypeInv, WorkTyped
<1>4. \A d \in Deletions : pc[d] \in {"objects", "row"} => target[d] \in doomed
  BY DEF ReportInv, FoundInv
<1> QED
  BY <1>1, <1>2, <1>3, <1>4

LEMMA HasStoredStep ==
    ASSUME ReportInv, NEW w \in Renderers, [Next]_vars
    PROVE  (HasStored(w))'
<1> USE Kinds, StoredFacts DEF HasStored, Others, Same, Rest, rowVars, brandVars, workVars
<1>1. ASSUME NEW i \in Invocations, Idles(i) PROVE (HasStored(w))'
  BY <1>1 DEF Idles, Aside
<1>2. ASSUME NEW q \in Requests, Creates(q) PROVE (HasStored(w))'
  BY <1>2 DEF Creates, Aside
<1>3. ASSUME NEW i \in Renderers, Begins(i) PROVE (HasStored(w))'
  BY <1>3 DEF Begins, Aside
<1>4. ASSUME NEW i \in Renderers, Starts(i) PROVE (HasStored(w))'
  BY <1>4 DEF Starts, Goes, Aside
<1>5. ASSUME NEW i \in Renderers, Renders(i) PROVE (HasStored(w))'
  BY <1>5 DEF Renders, Goes, Aside
<1>6. ASSUME NEW i \in Renderers, Puts(i) PROVE (HasStored(w))'
  <2>1. CASE i = w
    <3>1. \A n \in 1 .. count'[w] : n \in 1 .. count[w] \/ n = count[w] + 1
      BY <1>6, <2>1 DEF Puts
    <3> QED
      BY <1>6, <2>1, <3>1 DEF Puts, Goes
  <2>2. CASE i # w
    BY <1>6, <2>2 DEF Puts, Goes
  <2> QED
    BY <2>1, <2>2
<1>7. ASSUME NEW i \in Renderers, Readies(i) PROVE (HasStored(w))'
  BY <1>7 DEF Readies, Ends, Goes, AllStored, At, Aside
<1>8. ASSUME NEW i \in Renderers, Breaks(i) PROVE (HasStored(w))'
  BY <1>8 DEF Breaks, Goes, Aside
<1>9. ASSUME NEW i \in Renderers, Fails(i) PROVE (HasStored(w))'
  BY <1>9 DEF Fails, Ends, Aside
<1>10. ASSUME NEW s \in Sweeps, Finds(s) PROVE (HasStored(w))'
  BY <1>10 DEF Finds, Aside
<1>11. ASSUME NEW s \in Sweeps, Claims(s) PROVE (HasStored(w))'
  BY <1>11 DEF Claims, Goes, Claimable, Aside
<1>12. ASSUME NEW d \in Deletions, Dooms(d) PROVE (HasStored(w))'
  BY <1>12 DEF Dooms, Aside
<1>13. ASSUME Replaces PROVE (HasStored(w))'
  BY <1>13, ReplacesForm
<1>14. ASSUME Busts PROVE (HasStored(w))'
  BY <1>14 DEF Busts, Bust, Busted
<1>16. ASSUME Tick PROVE (HasStored(w))'
  BY <1>16 DEF Tick, Alive
<1>17. ASSUME UNCHANGED vars PROVE (HasStored(w))'
  BY <1>17 DEF vars
<1> QED
  BY StepForms, <1>1, <1>2, <1>3, <1>4, <1>5, <1>6, <1>7, <1>8, <1>9, <1>10, <1>11,
     <1>12, <1>13, <1>14, <1>16, <1>17
     DEF Forms, ReportInv

LEMMA HasFilesStep ==
    ASSUME ReportInv, NEW r \in Requests, [Next]_vars
    PROVE  (HasFiles(r))'
<1> USE Kinds, StoredFacts DEF HasFiles, Row, rowVars, brandVars, workVars
<1>1. ASSUME NEW i \in Invocations, Idles(i) PROVE (HasFiles(r))'
  BY <1>1 DEF Idles, Aside, RowIs, Written, NoRow, Exists
<1>2. ASSUME NEW q \in Requests, Creates(q) PROVE (HasFiles(r))'
  BY <1>2 DEF Creates, Aside, RowIs, Written, NoRow, Exists
<1>3. ASSUME NEW i \in Renderers, Begins(i) PROVE (HasFiles(r))'
  BY <1>3 DEF Begins, Aside, RowIs, Written, NoRow, Exists
<1>4. ASSUME NEW i \in Renderers, Starts(i) PROVE (HasFiles(r))'
  <2>1. CASE target[i] = r
    <3>1. rows'[r] = Written([rows[r] EXCEPT !.status = "generating", !.attempts = @ + 1])
      BY <1>4, <2>1 DEF Starts, RowIs
    <3> QED
      BY <3>1 DEF Written
  <2>2. CASE target[i] # r
    BY <1>4, <2>2 DEF Starts, Aside, RowIs
  <2> QED
    BY <2>1, <2>2
<1>5. ASSUME NEW i \in Renderers, Renders(i) PROVE (HasFiles(r))'
  BY <1>5 DEF Renders, Goes, Aside, RowIs, Written, NoRow, Exists
<1>6. ASSUME NEW i \in Renderers, Puts(i) PROVE (HasFiles(r))'
  BY <1>6 DEF Puts, Goes, Aside, RowIs, Written, NoRow, Exists
<1>7. ASSUME NEW i \in Renderers, Readies(i) PROVE (HasFiles(r))'
  <2>1. CASE target[i] # r
    BY <1>7, <2>1 DEF Readies, Aside, RowIs
  <2>2. CASE target[i] = r
    <3>1. rows'[r] = Written([rows[r] EXCEPT
                        !.status = "ready", !.files = Files, !.logo = seen[i].logo])
      BY <1>7, <2>2 DEF Readies, RowIs
    <3>2. rows'[r].files = Files
      BY <3>1 DEF Written
    <3>3. \A f \in Files \cup {Outputs[1]} : \E n \in 1 .. Len(Outputs) : f = Outputs[n]
      BY OutputsTyped DEF Files, Range
    <3>4. HasStored(i) /\ pc[i] = "put" /\ count[i] = Len(Outputs) /\ UNCHANGED <<stored, doomed>>
      BY <1>7 DEF Readies, AllStored, At, Aside
    <3> QED
      BY <2>2, <3>2, <3>3, <3>4 DEF HasStored
  <2> QED
    BY <2>1, <2>2
<1>8. ASSUME NEW i \in Renderers, Breaks(i) PROVE (HasFiles(r))'
  BY <1>8 DEF Breaks, Goes, Aside, RowIs, Written, NoRow, Exists
<1>9. ASSUME NEW i \in Renderers, Fails(i) PROVE (HasFiles(r))'
  BY <1>9 DEF Fails, Ends, Aside, RowIs, Written, NoRow, Exists
<1>10. ASSUME NEW s \in Sweeps, Finds(s) PROVE (HasFiles(r))'
  BY <1>10 DEF Finds, Aside, RowIs, Written, NoRow, Exists
<1>11. ASSUME NEW s \in Sweeps, Claims(s) PROVE (HasFiles(r))'
  BY <1>11 DEF Claims, Goes, Claimable, Aside, RowIs, Written, NoRow, Exists
<1>12. ASSUME NEW d \in Deletions, Dooms(d) PROVE (HasFiles(r))'
  BY <1>12 DEF Dooms, Aside, RowIs, Written, NoRow, Exists
<1>13. ASSUME Replaces PROVE (HasFiles(r))'
  BY <1>13, ReplacesForm
<1>14. ASSUME Busts PROVE (HasFiles(r))'
  <2>1. /\ rows'[r].status = rows[r].status /\ rows'[r].files = rows[r].files
        /\ UNCHANGED <<stored, doomed>>
    BY <1>14, BustRows DEF Busts, Bust, ReportInv
  <2> QED
    BY <2>1
<1>16. ASSUME Tick PROVE (HasFiles(r))'
  <2>1. /\ rows'[r].status = rows[r].status /\ rows'[r].files = rows[r].files
        /\ UNCHANGED <<stored, doomed>>
    BY <1>16, TickRows DEF Tick, ReportInv
  <2> QED
    BY <2>1
<1>17. ASSUME UNCHANGED vars PROVE (HasFiles(r))'
  BY <1>17 DEF vars
<1> QED
  BY StepForms, <1>1, <1>2, <1>3, <1>4, <1>5, <1>6, <1>7, <1>8, <1>9, <1>10, <1>11,
     <1>12, <1>13, <1>14, <1>16, <1>17
     DEF Forms, ReportInv

LEMMA StoredStep ==
    ASSUME ReportInv, [Next]_vars
    PROVE  StoredInv'
<1>1. \A i \in Renderers : (HasStored(i))'
  BY HasStoredStep
<1>2. \A r \in Requests : (HasFiles(r))'
  BY HasFilesStep
<1> QED
  BY <1>1, <1>2 DEF StoredInv, ReadyIsWhole, HasStored, HasFiles

\* A report that still has its key shows the logo of today, or will.
Current(n) == n = logo \/ Busting \/ unbusted
DrawsCurrent(w, r) ==
    /\ pc[w] \in {"start", "render", "put"} /\ target[w] = r
    /\ rows[r].status # "none" /\ rows[r].keyed
    => Current(seen[w].logo)
ShowsCurrent(r) == rows[r].status = "ready" /\ rows[r].keyed => Current(rows[r].logo)

LEMMA LogoFacts ==
    ASSUME ReportInv
    PROVE  /\ \A i \in Renderers, r \in Requests : DrawsCurrent(i, r)
           /\ \A r \in Requests : ShowsCurrent(r) /\ rows[r] \in Row
           /\ \A i \in Renderers : Works(i) => target[i] \in Requests /\ pc[target[i]] # "gate"
BY Kinds
   DEF ReportInv, LogoInv, DrawsCurrent, ShowsCurrent, Current, CacheShowsTheLogo, Keyed, Exists,
       TypeInv, RowsTyped, AskedInv

\* Who replaces the logo will reach the reports, or is known not to.
LEMMA ReplacesCurrent ==
    ASSUME ReportInv, Replaces, NEW n, Current(n)
    PROVE  (Current(n))'
<1> USE DEF Current, Busting, ReportInv, TypeInv, SaveTyped, SaveAt
<1>1. ASSUME NEW b \in Saves, OpenSave(b) PROVE (Current(n))'
  BY <1>1 DEF OpenSave
<1>2. ASSUME NEW b \in Saves, WriteLogo(b) PROVE (Current(n))'
  BY <1>2 DEF WriteLogo
<1>3. ASSUME NEW b \in Saves, SaveDies(b) PROVE (Current(n))'
  BY <1>3 DEF SaveDies
<1>4. ASSUME NEW u \in Uploads, UploadLogo(u) PROVE (Current(n))'
  BY <1>4 DEF UploadLogo
<1> QED
  BY <1>1, <1>2, <1>3, <1>4 DEF Replaces, Saving

LEMMA DrawsCurrentStep ==
    ASSUME ReportInv, NEW w \in Renderers, NEW r \in Requests, [Next]_vars
    PROVE  (DrawsCurrent(w, r))'
<1> USE Kinds, LogoFacts
    DEF DrawsCurrent, Current, Busting, Others, Same, Rest, Works, WorkSteps, Row, rowVars, brandVars,
        workVars
<1>1. ASSUME NEW i \in Invocations, Idles(i) PROVE (DrawsCurrent(w, r))'
  BY <1>1 DEF Idles, Aside, RowIs, Written, NoRow, Exists
<1>2. ASSUME NEW q \in Requests, Creates(q) PROVE (DrawsCurrent(w, r))'
  BY <1>2 DEF Creates, Aside, RowIs, Written, NoRow, Exists
<1>3. ASSUME NEW i \in Renderers, Begins(i) PROVE (DrawsCurrent(w, r))'
  BY <1>3 DEF Begins, Aside, RowIs, Written, NoRow, Exists
<1>4. ASSUME NEW i \in Renderers, Starts(i) PROVE (DrawsCurrent(w, r))'
  <2>1. CASE target[i] = r
    <3>1. rows'[r] = Written([rows[r] EXCEPT !.status = "generating", !.attempts = @ + 1])
      BY <1>4, <2>1 DEF Starts, RowIs
    <3>2. rows'[r].keyed = rows[r].keyed /\ rows[r].status # "none"
      BY <1>4, <2>1, <3>1 DEF Starts, Written, Exists
    <3>3. /\ UNCHANGED <<logo, save, unbusted>> /\ target'[w] = target[w]
          /\ seen'[w] = seen[w]
          /\ pc'[w] \in {"start", "render", "put"} => pc[w] \in {"start", "render", "put"}
      BY <1>4, <2>1 DEF Starts, Aside, Goes, Keeps
    <3>4. DrawsCurrent(w, r)
      BY LogoFacts
    <3> QED
      BY <3>2, <3>3, <3>4
  <2>2. CASE target[i] # r
    BY <1>4, <2>2 DEF Starts, Aside, RowIs, Goes, Keeps
  <2> QED
    BY <2>1, <2>2
<1>5. ASSUME NEW i \in Renderers, Renders(i) PROVE (DrawsCurrent(w, r))'
  BY <1>5 DEF Renders, Goes, Keeps, Aside, RowIs, Written, NoRow, Exists
<1>6. ASSUME NEW i \in Renderers, Puts(i) PROVE (DrawsCurrent(w, r))'
  BY <1>6 DEF Puts, Goes, Keeps, Aside, RowIs, Written, NoRow, Exists
<1>7. ASSUME NEW i \in Renderers, Readies(i) PROVE (DrawsCurrent(w, r))'
  <2>1. CASE target[i] = r
    <3>1. rows'[r] = Written([rows[r] EXCEPT 
                        !.status = "ready", !.files = Files, !.logo = seen[i].logo])
      BY <1>7, <2>1 DEF Readies, RowIs
    <3>2. rows'[r].keyed = rows[r].keyed /\ rows[r].status # "none"
      BY <1>7, <2>1, <3>1 DEF Readies, Written, Exists
    <3> QED
      BY <1>7, <2>1, <3>1, <3>2 DEF Readies, Aside, Goes, Ends, Written
  <2>2. CASE target[i] # r
    BY <1>7, <2>2 DEF Readies, Aside, RowIs, Goes, Ends, Written
  <2> QED
    BY <2>1, <2>2
<1>8. ASSUME NEW i \in Renderers, Breaks(i) PROVE (DrawsCurrent(w, r))'
  BY <1>8 DEF Breaks, Goes, Aside, RowIs, Written, NoRow, Exists
<1>9. ASSUME NEW i \in Renderers, Fails(i) PROVE (DrawsCurrent(w, r))'
  <2>1. CASE target[i] = r /\ Exists(r)
    <3>1. rows'[r] = Written([rows[r] EXCEPT !.status = "failed"])
      BY <1>9, <2>1 DEF Fails, RowIs
    <3>2. rows'[r].keyed = rows[r].keyed /\ rows[r].status # "none"
      BY <1>9, <2>1, <3>1 DEF Written, Exists
    <3> QED
      BY <1>9, <3>2 DEF Fails, Ends, Aside
  <2>2. CASE ~(target[i] = r /\ Exists(r))
    BY <1>9, <2>2 DEF Fails, Ends, Aside, RowIs, Exists
  <2> QED
    BY <2>1, <2>2
<1>10. ASSUME NEW s \in Sweeps, Finds(s) PROVE (DrawsCurrent(w, r))'
  BY <1>10 DEF Finds, Aside, RowIs, Written, NoRow, Exists
<1>11. ASSUME NEW s \in Sweeps, Claims(s) PROVE (DrawsCurrent(w, r))'
  BY <1>11 DEF Claims, Goes, Claimable, Aside, RowIs, Written, NoRow, Exists
<1>12. ASSUME NEW d \in Deletions, Dooms(d) PROVE (DrawsCurrent(w, r))'
  BY <1>12 DEF Dooms, Aside, RowIs, Written, NoRow, Exists
<1>13. ASSUME Replaces PROVE (DrawsCurrent(w, r))'
  <2>1. UNCHANGED <<rows, pc, target, seen>>
    BY <1>13, ReplacesForm
  <2>2. \A n : Current(n) => (Current(n))'
    BY <1>13, ReplacesCurrent
  <2> HIDE DEF Current
  <2> QED
    BY <2>1, <2>2
<1>14. ASSUME Busts PROVE (DrawsCurrent(w, r))'
  <2>1. rows'[r].status # "none" => ~rows'[r].keyed
    BY <1>14, BustRows DEF Exists, ReportInv
  <2> QED
    BY <2>1
<1>16. ASSUME Tick PROVE (DrawsCurrent(w, r))'
  <2>1. /\ rows'[r].status = rows[r].status /\ rows'[r].keyed = rows[r].keyed
        /\ rows'[r].logo = rows[r].logo
        /\ UNCHANGED <<pc, target, seen, logo, save, unbusted>>
    BY <1>16, TickRows DEF Tick, ReportInv
  <2> QED
    BY <2>1
<1>17. ASSUME UNCHANGED vars PROVE (DrawsCurrent(w, r))'
  BY <1>17 DEF vars
<1> QED
  BY StepForms, <1>1, <1>2, <1>3, <1>4, <1>5, <1>6, <1>7, <1>8, <1>9, <1>10, <1>11,
     <1>12, <1>13, <1>14, <1>16, <1>17
     DEF Forms, ReportInv

LEMMA ShowsCurrentStep ==
    ASSUME ReportInv, NEW r \in Requests, [Next]_vars
    PROVE  (ShowsCurrent(r))'
<1> USE Kinds, LogoFacts DEF ShowsCurrent, Current, Busting, Row, rowVars, brandVars, workVars
<1>1. ASSUME NEW i \in Invocations, Idles(i) PROVE (ShowsCurrent(r))'
  BY <1>1 DEF Idles, Aside, RowIs, Written, NoRow, Exists
<1>2. ASSUME NEW q \in Requests, Creates(q) PROVE (ShowsCurrent(r))'
  <2>1. CASE q = r
    <3>1. rows'[r] = [NoRow EXCEPT !.status = "queued", !.keyed = TRUE]
      BY <1>2, <2>1 DEF Creates, RowIs
    <3>2. rows'[r].status = "queued"
      BY <3>1 DEF NoRow
    <3> QED
      BY <3>2
  <2>2. CASE q # r
    BY <1>2, <2>2 DEF Creates, Aside, RowIs
  <2> QED
    BY <2>1, <2>2
<1>3. ASSUME NEW i \in Renderers, Begins(i) PROVE (ShowsCurrent(r))'
  BY <1>3 DEF Begins, Aside, RowIs, Written, NoRow, Exists
<1>4. ASSUME NEW i \in Renderers, Starts(i) PROVE (ShowsCurrent(r))'
  <2>1. CASE target[i] = r
    <3>1. rows'[r] = Written([rows[r] EXCEPT !.status = "generating", !.attempts = @ + 1])
      BY <1>4, <2>1 DEF Starts, RowIs
    <3>2. rows'[r].keyed = rows[r].keyed /\ rows[r].status # "none"
      BY <1>4, <2>1, <3>1 DEF Starts, Written, Exists
    <3> QED
      BY <1>4, <2>1, <3>1, <3>2 DEF Starts, Aside, Written
  <2>2. CASE target[i] # r
    BY <1>4, <2>2 DEF Starts, Aside, RowIs, Written
  <2> QED
    BY <2>1, <2>2
<1>5. ASSUME NEW i \in Renderers, Renders(i) PROVE (ShowsCurrent(r))'
  BY <1>5 DEF Renders, Goes, Aside, RowIs, Written, NoRow, Exists
<1>6. ASSUME NEW i \in Renderers, Puts(i) PROVE (ShowsCurrent(r))'
  BY <1>6 DEF Puts, Goes, Aside, RowIs, Written, NoRow, Exists
<1>7. ASSUME NEW i \in Renderers, Readies(i) PROVE (ShowsCurrent(r))'
  <2>1. CASE target[i] = r
    <3>1. rows'[r] = Written([rows[r] EXCEPT 
                        !.status = "ready", !.files = Files, !.logo = seen[i].logo])
      BY <1>7, <2>1 DEF Readies, RowIs
    <3>2. rows'[r].keyed = rows[r].keyed /\ rows[r].status # "none"
      BY <1>7, <2>1, <3>1 DEF Readies, Written, Exists
    <3> QED
      BY <1>7, <2>1, <3>1, <3>2 DEF Readies, Aside, Written, AllStored, At, DrawsCurrent
  <2>2. CASE target[i] # r
    BY <1>7, <2>2 DEF Readies, Aside, RowIs, Written, AllStored, At, DrawsCurrent
  <2> QED
    BY <2>1, <2>2
<1>8. ASSUME NEW i \in Renderers, Breaks(i) PROVE (ShowsCurrent(r))'
  BY <1>8 DEF Breaks, Goes, Aside, RowIs, Written, NoRow, Exists
<1>9. ASSUME NEW i \in Renderers, Fails(i) PROVE (ShowsCurrent(r))'
  BY <1>9 DEF Fails, Ends, Aside, RowIs, Written, NoRow, Exists
<1>10. ASSUME NEW s \in Sweeps, Finds(s) PROVE (ShowsCurrent(r))'
  BY <1>10 DEF Finds, Aside, RowIs, Written, NoRow, Exists
<1>11. ASSUME NEW s \in Sweeps, Claims(s) PROVE (ShowsCurrent(r))'
  BY <1>11 DEF Claims, Goes, Claimable, Aside, RowIs, Written, NoRow, Exists
<1>12. ASSUME NEW d \in Deletions, Dooms(d) PROVE (ShowsCurrent(r))'
  BY <1>12 DEF Dooms, Aside, RowIs, Written, NoRow, Exists
<1>13. ASSUME Replaces PROVE (ShowsCurrent(r))'
  <2>1. UNCHANGED <<rows, pc, target, seen>>
    BY <1>13, ReplacesForm
  <2>2. \A n : Current(n) => (Current(n))'
    BY <1>13, ReplacesCurrent
  <2> HIDE DEF Current
  <2> QED
    BY <2>1, <2>2
<1>14. ASSUME Busts PROVE (ShowsCurrent(r))'
  <2>1. rows'[r].status # "none" => ~rows'[r].keyed
    BY <1>14, BustRows DEF Exists, ReportInv
  <2> QED
    BY <2>1
<1>16. ASSUME Tick PROVE (ShowsCurrent(r))'
  <2>1. /\ rows'[r].status = rows[r].status /\ rows'[r].keyed = rows[r].keyed
        /\ rows'[r].logo = rows[r].logo
        /\ UNCHANGED <<pc, target, seen, logo, save, unbusted>>
    BY <1>16, TickRows DEF Tick, ReportInv
  <2> QED
    BY <2>1
<1>17. ASSUME UNCHANGED vars PROVE (ShowsCurrent(r))'
  BY <1>17 DEF vars
<1> QED
  BY StepForms, <1>1, <1>2, <1>3, <1>4, <1>5, <1>6, <1>7, <1>8, <1>9, <1>10, <1>11,
     <1>12, <1>13, <1>14, <1>16, <1>17
     DEF Forms, ReportInv

LEMMA LogoStep ==
    ASSUME ReportInv, [Next]_vars
    PROVE  LogoInv'
<1>1. \A i \in Renderers, r \in Requests : (DrawsCurrent(i, r))'
  BY DrawsCurrentStep
<1>2. \A r \in Requests : (ShowsCurrent(r))'
  BY ShowsCurrentStep
<1> QED
  BY <1>1, <1>2
     DEF LogoInv, CacheShowsTheLogo, DrawsCurrent, ShowsCurrent, Current, Keyed, Exists

---------------------------------------------------------------------------
(* The invariant. *)

LEMMA ReportInit == Init => ReportInv
<1> SUFFICES ASSUME Init PROVE ReportInv
  OBVIOUS
<1> USE Kinds DEF Init
<1>1. \A r \in Requests : rows[r] = NoRow /\ rows[r].status = "none" /\ rows[r].attempts = 0
  BY DEF NoRow
<1>2. \A i \in Invocations : pc[i] = "idle"
  OBVIOUS
<1>3. TypeInv
  <2>1. RowsTyped
    BY RowsOf DEF RowsTyped
  <2>2. PlacesTyped
    BY DEF PlacesTyped, Steps, RequestSteps, SweepSteps
  <2>3. WorkTyped
    BY OutputsTyped, LimitAssumption DEF WorkTyped
  <2>4. SeenTyped
    BY DEF SeenTyped, Nothing, Statuses, AnyLogo
  <2>5. SaveTyped
    BY DEF SaveTyped, SaveAt, AnyLogo
  <2> QED
    BY <2>1, <2>2, <2>3, <2>4, <2>5 DEF TypeInv
<1>4. AskedInv /\ FoundInv
  BY <1>1, <1>2 DEF AskedInv, FoundInv, Exists, Works, WorkSteps
<1>5. LeaseInv
  BY <1>2 DEF LeaseInv, Works, WorkSteps
<1>6. AttemptInv
  BY <1>1, <1>2, AttemptsAssumption DEF AttemptInv
<1>7. StoredInv
  BY <1>1, <1>2 DEF StoredInv, ReadyIsWhole
<1>8. LogoInv
  BY <1>1, <1>2 DEF LogoInv, CacheShowsTheLogo, Keyed
<1> QED
  BY <1>3, <1>4, <1>5, <1>6, <1>7, <1>8 DEF ReportInv

LEMMA ReportStep == ReportInv /\ [Next]_vars => ReportInv'
BY TypeStep, AskedStep, FoundStep, LeaseStep, AttemptStep, StoredStep, LogoStep DEF ReportInv

LEMMA ReportAlways == Spec => []ReportInv
BY ReportInit, ReportStep, PTL DEF Spec

---------------------------------------------------------------------------
(* The theorems. *)

\* "a live render is never reclaimed" (lib/reports/retry.ts): however requests and sweeps overlap,
\* die and are killed, one invocation at a time renders a report, and MaxAttempts times at most.
THEOREM RendersHold == Spec => []RendersAreLimited
<1>1. ReportInv => ExclusiveRender
  BY DEF ReportInv, LeaseInv, ExclusiveRender, RendersNow, Works, WorkSteps
<1>2. ReportInv => StartsBounded
  BY DEF ReportInv, AttemptInv, StartsBounded
<1> QED
  BY <1>1, <1>2, ReportAlways, PTL DEF RendersAreLimited

\* The write with which a sweep fails a report asks nothing, and still finds it unfinished
\* (app/api/admin/schedule/reports/route.ts).
THEOREM GivingUpHolds == Spec => GivesUpUnfinished
<1> DEFINE StillUnfinished ==
             \A s \in Sweeps : GiveUp(s) /\ Exists(target[s]) => Unfinished(rows[target[s]])
<1>1. ReportInv => StillUnfinished
  BY Kinds DEF ReportInv, LeaseInv, Works, WorkSteps, GiveUp, At
<1> QED
  BY <1>1, ReportAlways, PTL DEF GivesUpUnfinished

\* A ready report's files are in the storage until somebody deletes it, whichever of its
\* renders, retried or overtaken, stored them.
THEOREM ReadyHolds == Spec => []ReadyIsWhole
<1>1. ReportInv => ReadyIsWhole
  BY DEF ReportInv, StoredInv
<1> QED
  BY <1>1, ReportAlways, PTL

\* No request is answered with a report that shows an old logo once a save that changed the logo
\* has reached the reports, also if it changed while the report was rendered; until a later
\* upload, which reaches none, or a save that died half way or was overtaken.
THEOREM LogoHolds == Spec => []CacheShowsTheLogo
<1>1. ReportInv => CacheShowsTheLogo
  BY DEF ReportInv, LogoInv
<1> QED
  BY <1>1, ReportAlways, PTL
=============================================================================
