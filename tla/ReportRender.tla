------------------------------ MODULE ReportRender ------------------------------
(***************************************************************************)
(* One report, asked for several times, in the deployment without a worker *)
(* process: it is rendered inside the request that asked for it, or inside  *)
(* a run of the sweep that found it abandoned. Every invocation is killed   *)
(* at the platform's time limit. Source: processReport of                   *)
(* lib/reports/worker.ts, lib/reports/retry.ts, the sweep, the routes that   *)
(* request and delete a report, and the two that replace the logo: the      *)
(* branding form's PUT, and the upload of a new one.                        *)
(*                                                                         *)
(* All requests ask for the same thing (one requestHash) and each creates   *)
(* one row at most: the row a request creates has the request's name. Time  *)
(* is counted in ticks, and a count stops where nothing depends on more.    *)
(***************************************************************************)
EXTENDS Integers, FiniteSets, Sequences, Functions

CONSTANTS
    Requests,       \* POST requests for the report
    Sweeps,         \* invocations of the sweep that may overlap; each runs again and again
    Deletions,      \* DELETE requests
    Outputs,        \* the files a render stores, in order
    MaxAttempts,    \* MAX_REPORT_ATTEMPTS
    StaleAfter,     \* REPORT_STALE_MS, in ticks
    MaxDuration,    \* the longest an invocation lives, in ticks: maxDuration of the POST route;
                    \* the sweep's route sets none and gets the platform's default
    Logos,          \* logos the organisation may have to begin with
    Uploads,        \* POST requests with a new logo, which is stored under the request's name; some
                    \* may have been made before
    Saves,          \* PUT requests of the branding form
    MaxDeaths       \* bound: invocations that die elsewhere than in a render at the limit

ASSUME LimitAssumption == MaxDuration \in Nat /\ StaleAfter \in Nat /\ MaxDuration < StaleAfter
ASSUME AttemptsAssumption == MaxAttempts \in Nat \ {0} /\ MaxDeaths \in Nat
ASSUME OutputsAssumption == Outputs \in Seq(STRING) /\ Len(Outputs) > 0
ASSUME NamesAssumption ==
    /\ Requests \cap Sweeps = {} /\ Deletions \cap (Requests \cup Sweeps) = {}
    /\ "none" \notin Requests
ASSUME LogosAssumption == Logos # {} /\ "none" \notin Logos \cup Uploads

Invocations == Requests \cup Sweeps \cup Deletions
Renderers == Requests \cup Sweeps
NoReport == "none"

VARIABLES
    rows,       \* reports
    stored,     \* object storage: <<report, file>>
    logo,       \* the key of the organisation's logo: reportHeaderLogoKey, or logoStorageKey
    uploaded,   \* uploads that were made
    save,       \* of a branding save: where it is, the key it writes, and logoChanged
    pc, age,    \* of an invocation: where it is, and for how long it runs
    target,     \* the report it works on
    seen,       \* what it read and still holds
    count,      \* files it has stored
    deaths,
    doomed,     \* history: reports a deletion has begun on
    unbusted    \* history: since reports last lost their keys, the logo was replaced by an
                \* upload, or by a save that saw no change or died before the reports

rowVars == <<rows, stored, doomed>>
brandVars == <<logo, uploaded, save, unbusted>>
workVars == <<target, seen, count>>
vars == <<rows, stored, logo, uploaded, save, pc, age, target, seen, count, deaths, doomed,
          unbusted>>

NoLogo == "none"
NoRow == [status |-> "none", keyed |-> FALSE, attempts |-> 0, quiet |-> 0, old |-> 0,
          files |-> {}, logo |-> NoLogo]
Exists(r) == r \in Requests /\ rows[r].status # "none"
Keyed == {r \in Requests : Exists(r) /\ rows[r].keyed}
Unfinished(row) == row.status \in {"queued", "generating"}
Least(S) == CHOOSE n \in S : \A m \in S : n <= m
Cap(n) == Least({n, StaleAfter + MaxDuration})

SaveAt(step) == [step |-> step, key |-> NoLogo, changed |-> FALSE]
Nothing == [status |-> "none", attempts |-> 0, logo |-> NoLogo, files |-> {}]

Init ==
    /\ rows = [r \in Requests |-> NoRow] /\ stored = {} /\ doomed = {}
    /\ logo \in Logos /\ uploaded \in SUBSET Uploads /\ unbusted = FALSE
    /\ save = [b \in Saves |-> SaveAt("idle")]
    /\ pc = [i \in Invocations |-> "idle"] /\ age = [i \in Invocations |-> 0]
    /\ target = [i \in Invocations |-> NoReport]
    /\ seen = [i \in Invocations |-> Nothing]
    /\ count = [i \in Invocations |-> 0]
    /\ deaths = 0

At(i, step) == pc[i] = step
Goto(i, step) == pc' = [pc EXCEPT ![i] = step]
\* The invocation answers: a sweep may run again, a request does not.
Rest(i) == IF i \in Sweeps THEN "idle" ELSE "done"
Finish(i) ==
    /\ Goto(i, Rest(i))
    /\ age' = [age EXCEPT ![i] = 0]
    /\ target' = [target EXCEPT ![i] = NoReport]
    /\ seen' = [seen EXCEPT ![i] = Nothing]
    /\ count' = [count EXCEPT ![i] = 0]
SetRow(r, row) == rows' = [rows EXCEPT ![r] = row]
Written(row) == [row EXCEPT !.quiet = 0]

Alive(i) == pc[i] \notin {"idle", "done"}

\* A row's age is asked for only where a request finds the row by its key.
Older(row) ==
    IF row.status = "none" THEN row
    ELSE [row EXCEPT !.quiet = IF Unfinished(row) THEN Cap(@ + 1) ELSE 0,
                     !.old = IF Unfinished(row) /\ row.keyed THEN Least({@ + 1, StaleAfter}) ELSE 0]

---------------------------------------------------------------------------
(* Faulty variants: each is one definition below with a plausible slip, and   *)
(* breaks the property the project lists it for.                             *)

ClaimedAlways(s) == Exists(target[s])

ReadyFirst(i) == At(i, "put")

BustReady(b) ==
    /\ save[b].step = "bust"
    /\ save' = [save EXCEPT ![b] = SaveAt("done")] /\ unbusted' = FALSE
    /\ rows' = [r \in Requests |->
            IF r \in Keyed /\ rows[r].status = "ready" THEN [rows[r] EXCEPT !.keyed = FALSE] ELSE rows[r]]
    /\ UNCHANGED <<stored, doomed, logo, uploaded, pc, age, workVars, deaths>>

StalledOnceStarted(row) == row.status = "generating" /\ row.quiet >= StaleAfter

---------------------------------------------------------------------------
(* POST .../reports                                                        *)

TooOld(row) == Unfinished(row) /\ row.old >= StaleAfter

\* A finished or a young report is the answer; a failed or an old one is replaced.
Ask(q) ==
    /\ At(q, "idle")
    /\ IF Keyed = {}
       THEN Goto(q, "gate") /\ UNCHANGED <<age, workVars>>
       ELSE \E r \in Keyed :
            IF rows[r].status = "failed" \/ TooOld(rows[r])
            THEN Goto(q, "drop") /\ target' = [target EXCEPT ![q] = r] /\ UNCHANGED <<age, seen, count>>
            ELSE Finish(q)
    /\ UNCHANGED <<rowVars, brandVars, deaths>>

Drop(q) ==
    /\ At(q, "drop")
    /\ IF Exists(target[q])
       THEN /\ SetRow(target[q], NoRow) /\ Goto(q, "gate")
            /\ target' = [target EXCEPT ![q] = NoReport] /\ UNCHANGED <<age, seen, count>>
       ELSE Finish(q) /\ UNCHANGED rows
    /\ UNCHANGED <<stored, doomed, brandVars, deaths>>

\* The billing gates come after the old row is gone.
Refuse(q) == At(q, "gate") /\ Finish(q) /\ UNCHANGED <<rowVars, brandVars, deaths>>

Create(q) ==
    /\ At(q, "gate")
    /\ IF Keyed # {}    \* the unique key: another request was first, and its report is the answer
       THEN Finish(q) /\ UNCHANGED rows
       ELSE /\ SetRow(q, [NoRow EXCEPT !.status = "queued", !.keyed = TRUE]) /\ Goto(q, "load")
            /\ target' = [target EXCEPT ![q] = q] /\ UNCHANGED <<age, seen, count>>
    /\ UNCHANGED <<stored, doomed, brandVars, deaths>>

---------------------------------------------------------------------------
(* processReport                                                           *)

Throws(i) ==
    /\ Goto(i, "failing")
    /\ seen' = [seen EXCEPT ![i] = Nothing]
    /\ count' = [count EXCEPT ![i] = 0]
    /\ UNCHANGED <<age, target>>

Load(i) ==
    /\ At(i, "load")
    /\ IF ~Exists(target[i])
       THEN Throws(i)
       ELSE IF rows[target[i]].status = "ready"
       THEN Finish(i)
       ELSE Goto(i, "start") /\ seen' = [seen EXCEPT ![i].logo = logo] /\ UNCHANGED <<age, target, count>>
    /\ UNCHANGED <<rowVars, brandVars, deaths>>

Start(i) ==
    /\ At(i, "start") /\ Exists(target[i])
    /\ SetRow(target[i], Written([rows[target[i]] EXCEPT !.status = "generating", !.attempts = @ + 1]))
    /\ Goto(i, "render")
    /\ UNCHANGED <<stored, doomed, brandVars, age, workVars, deaths>>

\* The verification token, written once the pages are rendered, needs the row.
Render(i) ==
    /\ At(i, "render") /\ Exists(target[i])
    /\ Goto(i, "put")
    /\ UNCHANGED <<rowVars, brandVars, age, workVars, deaths>>

Put(i) ==
    /\ At(i, "put") /\ count[i] < Len(Outputs)
    /\ stored' = stored \cup {<<target[i], Outputs[count[i] + 1]>>}
    /\ count' = [count EXCEPT ![i] = @ + 1]
    /\ UNCHANGED <<rows, doomed, brandVars, pc, age, target, seen, deaths>>

AllStored(i) == At(i, "put") /\ count[i] = Len(Outputs)

\* The answer to the update may be lost: the render then ends in its catch blocks.
MarkReady(i) ==
    /\ AllStored(i) /\ Exists(target[i])
    /\ SetRow(target[i], Written([rows[target[i]] EXCEPT
            !.status = "ready", !.files = Range(Outputs), !.logo = seen[i].logo]))
    /\ Finish(i) \/ Throws(i)
    /\ UNCHANGED <<stored, doomed, brandVars, deaths>>

\* Rendering, storage or the database fails, as the database does when the row is gone.
Fail(i) ==
    /\ pc[i] \in {"start", "render", "put"} /\ Throws(i)
    /\ UNCHANGED <<rowVars, brandVars, deaths>>

\* Up to three catch blocks write it one after the other; of a failed row nothing but its
\* removal can come between them, so one write stands for all.
WriteFailed(i) ==
    /\ At(i, "failing")
    /\ IF Exists(target[i])
       THEN SetRow(target[i], Written([rows[target[i]] EXCEPT !.status = "failed"]))
       ELSE UNCHANGED rows
    /\ Finish(i)
    /\ UNCHANGED <<stored, doomed, brandVars, deaths>>

---------------------------------------------------------------------------
(* The sweep                                                               *)

Stalled(row) == Unfinished(row) /\ row.quiet >= StaleAfter
Exhausted(attempts) == attempts >= MaxAttempts

Sweep(s) ==
    /\ At(s, "idle")
    /\ \E r \in Requests :
        /\ Stalled(rows[r])
        /\ \A q \in Requests : Stalled(rows[q]) => rows[q].quiet <= rows[r].quiet
        /\ target' = [target EXCEPT ![s] = r]
        /\ seen' = [seen EXCEPT ![s].status = rows[r].status, ![s].attempts = rows[r].attempts]
    /\ Goto(s, "claim")
    /\ UNCHANGED <<rowVars, brandVars, age, count, deaths>>

\* The claim asks again for the status and the silence the sweep's query found.
Claimable(s) ==
    /\ Exists(target[s])
    /\ rows[target[s]].status = seen[s].status
    /\ rows[target[s]].quiet >= Cap(StaleAfter + age[s])

\* The row is dated to the start of the sweep.
Claim(s) ==
    /\ At(s, "claim")
    /\ IF Claimable(s)
       THEN /\ SetRow(target[s], [rows[target[s]] EXCEPT !.quiet = age[s]])
            /\ Goto(s, IF Exhausted(seen[s].attempts) THEN "giveup" ELSE "load")
            /\ seen' = [seen EXCEPT ![s] = Nothing] /\ UNCHANGED <<age, target, count>>
       ELSE Finish(s) /\ UNCHANGED rows
    /\ UNCHANGED <<stored, doomed, brandVars, deaths>>

GiveUp(s) ==
    /\ At(s, "giveup")
    /\ IF Exists(target[s])
       THEN SetRow(target[s], Written([rows[target[s]] EXCEPT !.status = "failed"]))
       ELSE UNCHANGED rows
    /\ Finish(s)
    /\ UNCHANGED <<stored, doomed, brandVars, deaths>>

---------------------------------------------------------------------------
(* DELETE .../reports/[reportId]                                           *)

FindDoomed(d) ==
    /\ At(d, "idle")
    /\ \E r \in Requests :
        /\ Exists(r)
        /\ target' = [target EXCEPT ![d] = r]
        /\ seen' = [seen EXCEPT ![d].files = rows[r].files \cap {"pdf", "csv"}]
        /\ doomed' = doomed \cup {r}
    /\ Goto(d, "objects")
    /\ UNCHANGED <<rows, stored, brandVars, age, count, deaths>>

\* An object that cannot be deleted is logged and left.
RemoveObjects(d) ==
    /\ At(d, "objects") /\ Goto(d, "row")
    /\ \E removed \in SUBSET seen[d].files : stored' = stored \ {<<target[d], f>> : f \in removed}
    /\ UNCHANGED <<rows, doomed, brandVars, age, workVars, deaths>>

RemoveRow(d) ==
    /\ At(d, "row")
    /\ IF Exists(target[d]) THEN SetRow(target[d], NoRow) ELSE UNCHANGED rows
    /\ Finish(d)
    /\ UNCHANGED <<stored, doomed, brandVars, deaths>>

---------------------------------------------------------------------------
(* The branding routes, death and time                                     *)

\* POST .../branding/logo: the new logo is shown from now on, and no report loses its key.
UploadLogo(u) ==
    /\ u \notin uploaded /\ uploaded' = uploaded \cup {u}
    /\ logo' = u /\ unbusted' = TRUE
    /\ UNCHANGED <<rowVars, save, pc, age, workVars, deaths>>

\* PUT .../branding names a logo in storage, and compares it with the one in use. To name none
\* counts as a change, also where it brings back the logo in use.
OpenSave(b) ==
    /\ save[b].step = "idle"
    /\ \E key \in Logos \cup uploaded : \E changed \in {key # logo, TRUE} :
        save' = [save EXCEPT ![b] = [step |-> "write", key |-> key, changed |-> changed]]
    /\ UNCHANGED <<rowVars, logo, uploaded, unbusted, pc, age, workVars, deaths>>

WriteLogo(b) ==
    /\ save[b].step = "write"
    /\ save' = [save EXCEPT ![b] = SaveAt(IF save[b].changed THEN "bust" ELSE "done")]
    /\ logo' = save[b].key
    /\ unbusted' = (unbusted \/ (~save[b].changed /\ save[b].key # logo))
    /\ UNCHANGED <<rowVars, uploaded, pc, age, workVars, deaths>>

Busted(r) == [rows[r] EXCEPT !.quiet = 0, !.keyed = FALSE, !.old = 0]

\* Every report that has a key loses it, and is asked for anew next time.
Bust(b) ==
    /\ save[b].step = "bust"
    /\ save' = [save EXCEPT ![b] = SaveAt("done")] /\ unbusted' = FALSE
    /\ rows' = [r \in Requests |-> IF r \in Keyed THEN Busted(r) ELSE rows[r]]
    /\ UNCHANGED <<stored, doomed, logo, uploaded, pc, age, workVars, deaths>>

\* Before the write, death is no different from never going on.
SaveDies(b) ==
    /\ save[b].step = "bust" /\ deaths < MaxDeaths
    /\ unbusted' = TRUE
    /\ save' = [save EXCEPT ![b] = SaveAt("done")] /\ deaths' = deaths + 1
    /\ UNCHANGED <<rowVars, logo, uploaded, pc, age, workVars>>

TimedOut(i) == pc[i] \in {"render", "put"} /\ age[i] = MaxDuration

Die(i) ==
    /\ Alive(i) /\ Finish(i)
    /\ IF TimedOut(i) THEN UNCHANGED deaths ELSE deaths < MaxDeaths /\ deaths' = deaths + 1
    /\ UNCHANGED <<rowVars, brandVars>>

\* Nobody outlives the limit. What is finished has no use for its age.
Tick ==
    /\ \A i \in Invocations : Alive(i) => age[i] < MaxDuration
    /\ age' = [i \in Invocations |-> IF Alive(i) THEN age[i] + 1 ELSE 0]
    /\ rows' = [r \in Requests |-> Older(rows[r])]
    /\ UNCHANGED <<stored, doomed, brandVars, pc, workVars, deaths>>

---------------------------------------------------------------------------

Requesting(q) == Drop(q) \/ Refuse(q) \/ Create(q)
Rendering(i) == Load(i) \/ Start(i) \/ Render(i) \/ Put(i) \/ MarkReady(i) \/ Fail(i) \/ WriteFailed(i)
Sweeping(s) == Sweep(s) \/ Claim(s) \/ GiveUp(s)
Deleting(d) == RemoveObjects(d) \/ RemoveRow(d)
Saving(b) == OpenSave(b) \/ WriteLogo(b) \/ SaveDies(b)

Next ==
    \/ \E q \in Requests : Ask(q) \/ Requesting(q)
    \/ \E i \in Renderers : Rendering(i)
    \/ \E s \in Sweeps : Sweeping(s)
    \/ \E d \in Deletions : FindDoomed(d) \/ Deleting(d)
    \/ \E i \in Invocations : Die(i)
    \/ \E b \in Saves : Saving(b) \/ Bust(b)
    \/ \E u \in Uploads : UploadLogo(u)
    \/ Tick

Spec == Init /\ [][Next]_vars

\* What runs goes on or is killed, the sweep is called again and again, and time passes.
Fairness ==
    /\ \A q \in Requests : WF_vars(Requesting(q) \/ Rendering(q) \/ Die(q))
    /\ \A s \in Sweeps : WF_vars(Sweeping(s) \/ Rendering(s) \/ Die(s))
    /\ \A d \in Deletions : WF_vars(Deleting(d) \/ Die(d))
    /\ WF_vars(Tick)
FairSpec == Spec /\ Fairness

---------------------------------------------------------------------------
(* Properties *)

RendersNow(i, r) == target[i] = r /\ pc[i] \in {"start", "render", "put"}

\* A live render is never reclaimed by the sweep: whoever asks, dies and sweeps, one
\* invocation at a time renders a report (lib/reports/retry.ts:12).
ExclusiveRender ==
    \A r \in Requests, i, j \in Renderers : RendersNow(i, r) /\ RendersNow(j, r) => i = j

\* The sweep fails a report only if it is unfinished still, though the write that does so
\* does not ask (app/api/admin/schedule/reports/route.ts:50).
GivesUpUnfinished ==
    [][\A s \in Sweeps : GiveUp(s) /\ Exists(target[s]) => Unfinished(rows[target[s]])]_vars

\* What a ready report links to can be downloaded, whichever attempt stored it, until somebody
\* deletes it.
ReadyIsWhole ==
    \A r \in Requests \ doomed :
        rows[r].status = "ready" => \A f \in rows[r].files \cup {Outputs[1]} : <<r, f>> \in stored

\* A report is started MaxAttempts times at most, by whomever.
StartsBounded == \A r \in Requests : rows[r].attempts <= MaxAttempts

\* Overlapping sweeps and requests render a report one at a time, and as often as allowed.
RendersAreLimited == ExclusiveRender /\ StartsBounded

\* After a save that changed the logo has reached the reports, a report that requests are
\* answered with shows the logo of today, also if it was being rendered when the logo changed
\* (app/api/orgs/[orgId]/branding/route.ts:105). Only the route that does this is spoken of:
\* until the next such save, reports with an old logo remain once the logo was replaced by an
\* upload (branding/logo/route.ts:66), which is followed by a save that sees no change, by a
\* save that an upload or another save overtook, or by a save that died half way.
Busting == \E b \in Saves : save[b].step = "bust"
CacheShowsTheLogo ==
    \A r \in Keyed : rows[r].status = "ready" => rows[r].logo = logo \/ Busting \/ unbusted

\* A report that was asked for ends: it is ready, failed or gone.
EveryReportEnds == \A r \in Requests : Unfinished(rows[r]) ~> ~Unfinished(rows[r])
=============================================================================
