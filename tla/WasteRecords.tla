------------------------------ MODULE WasteRecords ------------------------------
(***************************************************************************)
(* Waste records: transfer notes that become records one by one or in bulk, *)
(* loads received off site, records typed in, uploaded in a spreadsheet,    *)
(* edited and deleted. Every save calculates its one record (an approved    *)
(* activity record and a calculation run of its own) and rebuilds the waste *)
(* totals of its period. The activity record is also amended, reviewed and   *)
(* removed by hand. The requests take no lock: they meet in the rows.       *)
(* Source: lib/waste/accept.ts, triage-load.ts, triage.ts,                  *)
(* lib/material/receive.ts, lib/calculation/environmental-metrics.ts,       *)
(* lib/field-submissions/approve.ts and the routes waste/documents,         *)
(* waste-records, material/movements, activity-records and records.         *)
(*                                                                         *)
(* A request that throws stops where it is, as one that dies does: Die.     *)
(***************************************************************************)
EXTENDS Integers, FiniteSets, Sequences, SequencesExt, FiniteSetsExt

CONSTANTS
    Handlers,    \* requests in progress at a time
    Docs,        \* transfer notes that may arrive
    Moves,       \* material movements, planned
    Periods,     \* reporting periods
    Bodies,      \* what a record may say: reference, weight, period
    Reading,     \* what each transfer note reads as
    NoRef,       \* transferNoteReference is null
    Form,        \* the source of a record that comes from no note and no load
    MaxJobs, MaxRecords, MaxDeaths   \* bounds: requests, waste records, deaths

ASSUME SourceAssumption == Form \notin Docs \cup Moves /\ Docs \cap Moves = {}
ASSUME BodyAssumption == \A b \in Bodies : b.weight \in Nat \ {0} /\ b.period \in Periods
ASSUME ReadingAssumption == Reading \in [Docs -> Bodies]
ASSUME DocsAssumption == IsFiniteSet(Docs)
ASSUME BoundAssumption == {MaxJobs, MaxRecords, MaxDeaths} \subseteq Nat

VARIABLES
    \* tables
    docs,      \* WasteDocument: its status and the waste record made of it (0: none)
    moves,     \* MaterialMovement: likewise
    recs,      \* WasteRecord, in the order of creation; a deleted one keeps its source
    acts,      \* ActivityRecord of category s3-waste, in the order of creation
    latest,    \* per period: the one activity record of the latest succeeded waste run
    totals,    \* EnvironmentalMetricAggregate: per period, the row each handler wrote (0: none)
    \* requests
    job,       \* per handler: the request it serves and how far it got
    \* bounds and history
    jobs, deaths,
    spoiled,   \* periods whose last rebuild overlapped a write, or never came
    disturbed, \* records whose saves overlapped, or one of whose saves stopped or never came
    raced      \* loads received by two requests at a time

inbox == <<docs, moves>>
tables == <<docs, moves, recs, acts, latest, totals>>
history == <<deaths, spoiled, disturbed, raced>>
vars == <<docs, moves, recs, acts, latest, totals, job, jobs, deaths, spoiled, disturbed, raced>>

NoBody == [ref |-> NoRef, weight |-> 0, period |-> 0]
Unread == [weight |-> 0, period |-> 0, link |-> 0]
Idle == [pc |-> "idle", task |-> "one", load |-> Form, body |-> NoBody, found |-> {}, rec |-> 0,
         was |-> 0, saw |-> Unread, act |-> 0, periods |-> <<>>, tally |-> 0, rows |-> {}]

Row(from, sure, b) == [live |-> TRUE, from |-> from, sure |-> sure, ref |-> b.ref,
                       weight |-> b.weight, period |-> b.period, link |-> 0, co2e |-> 0]

\* The activity record a waste record drives. History: amended by hand since the last save of
\* the waste record, and ever reviewed by hand.
Entry(r, weight, period, row) ==
    [of |-> r, live |-> TRUE, weight |-> weight, period |-> period, approved |-> TRUE, row |-> row,
     amended |-> FALSE, reviewed |-> FALSE]

Nothing ==
    /\ recs = <<>> /\ acts = <<>> /\ latest = [p \in Periods |-> 0]
    /\ totals = [p \in Periods |-> [h \in Handlers |-> 0]]
\* One record, typed in and saved before.
Saved(b, h) ==
    /\ recs = <<[Row(Form, FALSE, b) EXCEPT !.link = 1, !.co2e = b.weight]>>
    /\ acts = <<Entry(1, b.weight, b.period, TRUE)>>
    /\ latest = [p \in Periods |-> IF p = b.period THEN 1 ELSE 0]
    /\ totals = [p \in Periods |-> [g \in Handlers |-> IF p = b.period /\ g = h THEN b.weight ELSE 0]]

Init ==
    /\ docs = [d \in Docs |-> [status |-> "none", record |-> 0]]
    /\ moves = [m \in Moves |-> [status |-> "planned", record |-> 0]]
    /\ Nothing \/ \E b \in Bodies, h \in Handlers : Saved(b, h)
    /\ job = [h \in Handlers |-> Idle]
    /\ jobs = 0 /\ deaths = 0 /\ spoiled = {} /\ disturbed = {} /\ raced = {}

InTable(row) == row.status \notin {"none", "removed"}
Waiting(d) == docs[d].status = "pending" /\ docs[d].record = 0
Live(r) == recs[r].live
LiveRecords == {r \in DOMAIN recs : Live(r)}
Referenced(ref) == \E r \in LiveRecords : recs[r].ref = ref
InPeriod(p) == {r \in LiveRecords : recs[r].period = p}
Weighed(p) == SumFunction([r \in InPeriod(p) |-> recs[r].weight])

At(h, step) == job[h].pc = step
Go(h, step) == [job[h] EXCEPT !.pc = step]
Does(h, j) == job' = [job EXCEPT ![h] = j]
AtOnce == jobs < MaxJobs /\ jobs' = jobs + 1   \* a request of one step
\* The request answers, or a bulk approval turns to its next note.
Onward(h) == IF job[h].task = "bulk" THEN [Idle EXCEPT !.pc = "pick", !.task = "bulk", !.found = job[h].found]
             ELSE Idle
Begin(h, j) == At(h, "idle") /\ AtOnce /\ Does(h, j)
Saving(h) == job[h].pc \in {"sync", "make", "link", "update", "run", "figure"}
Busy(h) == Range(job[h].periods)

\* Handler h writes to records of the periods P and goes on as j.
Spoils(h, P, j) ==
    {p \in P \cup Range(j.periods) : \E g \in Handlers \ {h} : p \in Busy(g)}
\* The period its record is in, if another request moved it since h read it.
Moved(h) == {recs[job[h].rec].period} \ {job[h].was}
\* The handlers other than h that are in the middle of saving r.
Overlapped(h, r) == IF \E g \in Handlers \ {h} : Saving(g) /\ job[g].rec = r THEN {r} ELSE {}
\* The request throws: what it had to save and to rebuild stays as it is.
Stop(h) ==
    /\ Does(h, Idle)
    /\ spoiled' = spoiled \cup Busy(h)
    /\ disturbed' = IF Saving(h) THEN disturbed \cup {job[h].rec} ELSE disturbed

---------------------------------------------------------------------------
(* Faulty variants: each is one definition below with a plausible slip, and   *)
(* breaks the property the project lists it for.                             *)

ClaimAgain(d) == InTable(docs[d])

AloneOnScreen(d, screen) == Cardinality({e \in screen : Waiting(e) /\ Reading[e].ref = Reading[d].ref}) <= 1

OnlyTheNew(new, was) == <<new>>

KeepPeriod(a, saw) == [acts[a] EXCEPT !.weight = saw.weight, !.amended = FALSE]

---------------------------------------------------------------------------
(* Transfer notes arrive and are decided on *)

\* A carrier's note waits for a review, the team's own is accepted at once.
Submit(d) ==
    /\ docs[d].status = "none"
    /\ \E s \in {"pending", "accepted"} : docs' = [docs EXCEPT ![d].status = s]
    /\ UNCHANGED <<moves, recs, acts, latest, totals, job, jobs, history>>

\* Whatever the note's state, recorded or not.
Decide(d) ==
    /\ InTable(docs[d]) /\ AtOnce
    /\ \E s \in {"accepted", "rejected"} : docs' = [docs EXCEPT ![d].status = s]
    /\ UNCHANGED <<moves, recs, acts, latest, totals, job, history>>

RemoveNote(d) ==
    /\ InTable(docs[d]) /\ AtOnce
    /\ docs' = [docs EXCEPT ![d].status = "removed"]
    /\ UNCHANGED <<moves, recs, acts, latest, totals, job, history>>

---------------------------------------------------------------------------
(* A note becomes a record *)

Claimed(d) == InTable(docs[d]) /\ docs[d].record = 0

\* duplicatePending: every note still waiting counts, not just the ones on screen.
Alone(d, screen) == Cardinality({e \in Docs : Waiting(e) /\ Reading[e].ref = Reading[d].ref}) <= 1

\* A reviewer fills in the form, and may insist on a reference that exists.
Review(h, d, b) ==
    /\ Claimed(d)
    /\ \E allowDuplicate \in BOOLEAN : b.ref = NoRef \/ allowDuplicate \/ ~Referenced(b.ref)
    /\ Begin(h, [Idle EXCEPT !.pc = "accept", !.load = d, !.body = b])
    /\ UNCHANGED <<tables, history>>

\* Several notes are approved at once: each is triaged again on the server.
BulkFind(h) ==
    /\ \E ids \in SUBSET {d \in Docs : Claimed(d)} :
          ids # {} /\ Begin(h, [Idle EXCEPT !.pc = "waiting", !.task = "bulk", !.found = ids])
    /\ UNCHANGED <<tables, history>>

BulkWaiting(h) ==
    /\ At(h, "waiting")
    /\ Does(h, [Go(h, "seen") EXCEPT !.found =
            {d \in @ : Reading[d].ref # NoRef /\ Alone(d, job[h].found)}])
    /\ UNCHANGED <<tables, jobs, history>>

\* Other reasons (unread, a weight or a carrier that looks wrong) keep back any of them.
BulkSeen(h) ==
    /\ At(h, "seen")
    /\ \E ready \in SUBSET {d \in job[h].found : ~Referenced(Reading[d].ref)} :
          Does(h, [Go(h, "pick") EXCEPT !.found = ready])
    /\ UNCHANGED <<tables, jobs, history>>

\* The reference is checked again before each note is accepted.
BulkPick(h) ==
    /\ At(h, "pick")
    /\ \/ job[h].found = {} /\ Does(h, Idle)
       \/ \E d \in job[h].found :
             Does(h, [job[h] EXCEPT !.found = @ \ {d},
                         !.pc = IF Referenced(Reading[d].ref) THEN "pick" ELSE "accept",
                         !.load = IF Referenced(Reading[d].ref) THEN @ ELSE d,
                         !.body = IF Referenced(Reading[d].ref) THEN @ ELSE Reading[d]])
    /\ UNCHANGED <<tables, jobs, history>>

\* A waste record comes into being and its save begins.
Insert(h, from, b, sure) ==
    /\ Len(recs) < MaxRecords
    /\ recs' = Append(recs, Row(from, sure, b))
    /\ LET j == [job[h] EXCEPT !.pc = "sync", !.rec = Len(recs) + 1, !.load = Form, !.body = NoBody,
                    !.periods = IF b.period \in Range(@) THEN @ ELSE Append(@, b.period)]
       IN Does(h, j) /\ spoiled' = spoiled \cup Spoils(h, {b.period}, j)

\* One transaction: the document is claimed, the record made, the document linked.
Accept(h) ==
    /\ At(h, "accept")
    /\ LET d == job[h].load IN
         IF Claimed(d)
         THEN /\ Insert(h, d, job[h].body, job[h].task = "bulk" /\ docs[d].status = "pending")
              /\ docs' = [docs EXCEPT ![d] = [status |-> "accepted", record |-> Len(recs) + 1]]
         ELSE Does(h, Onward(h)) /\ UNCHANGED <<docs, recs, spoiled>>
    /\ UNCHANGED <<moves, acts, latest, totals, jobs, deaths, disturbed, raced>>

---------------------------------------------------------------------------
(* Records typed in, uploaded, edited, deleted *)

Create(h, b) ==
    /\ At(h, "idle") /\ AtOnce
    /\ Insert(h, Form, b, FALSE)
    /\ UNCHANGED <<inbox, acts, latest, totals, deaths, disturbed, raced>>

\* The rows of a spreadsheet, one by one: the totals are rebuilt after the last.
Upload(h) ==
    /\ Begin(h, [Idle EXCEPT !.pc = "rows", !.task = "sheet"])
    /\ UNCHANGED <<tables, history>>

UploadRow(h, b) ==
    /\ At(h, "rows") /\ Insert(h, Form, b, FALSE)
    /\ UNCHANGED <<inbox, acts, latest, totals, jobs, deaths, disturbed, raced>>

UploadEnds(h) ==
    /\ At(h, "rows")
    /\ Does(h, IF job[h].periods = <<>> THEN Idle ELSE [Go(h, "read") EXCEPT !.rec = 0])
    /\ UNCHANGED <<tables, jobs, history>>

\* An edit or a deletion reads the record first.
Open(h, r, step) ==
    /\ Live(r)
    /\ Begin(h, [Idle EXCEPT !.pc = step, !.rec = r, !.was = recs[r].period])
    /\ UNCHANGED <<tables, history>>

Rebuilds(new, was) == IF new = was THEN <<new>> ELSE <<new, was>>

Edit(h, b) ==
    /\ At(h, "edit")
    /\ LET r == job[h].rec
           j == [Go(h, "sync") EXCEPT !.was = 0, !.periods = Rebuilds(b.period, job[h].was)] IN
         IF Live(r)
         THEN /\ recs' = [recs EXCEPT ![r].ref = b.ref, ![r].weight = b.weight, ![r].period = b.period,
                                      ![r].sure = @ /\ recs[r].ref = b.ref]
              /\ Does(h, j)
              /\ spoiled' = spoiled \cup Moved(h) \cup Spoils(h, {recs[r].period, b.period}, j)
              /\ disturbed' = disturbed \cup Overlapped(h, r)
         ELSE Stop(h) /\ UNCHANGED recs
    /\ UNCHANGED <<inbox, acts, latest, totals, jobs, deaths, raced>>

\* The approved activity record and its calculations stay.
Delete(h) ==
    /\ At(h, "delete")
    /\ LET r == job[h].rec
           j == [Idle EXCEPT !.pc = "read", !.periods = <<job[h].was>>] IN
         IF Live(r)
         THEN /\ recs' = [recs EXCEPT ![r] = [live |-> FALSE, from |-> recs[r].from, sure |-> FALSE,
                             ref |-> NoRef, weight |-> 0, period |-> 0, link |-> 0, co2e |-> 0]]
              /\ Does(h, j)
              /\ spoiled' = spoiled \cup Moved(h) \cup Spoils(h, {recs[r].period}, j)
              /\ UNCHANGED disturbed
         ELSE Stop(h) /\ UNCHANGED recs
    /\ UNCHANGED <<inbox, acts, latest, totals, jobs, deaths, raced>>

\* A water record shares the period's totals.
SaveWater(h, p) ==
    /\ LET j == [Idle EXCEPT !.pc = "read", !.periods = <<p>>]
       IN Begin(h, j) /\ spoiled' = spoiled \cup Spoils(h, {p}, j)
    /\ UNCHANGED <<tables, deaths, disturbed, raced>>

---------------------------------------------------------------------------
(* Loads received off site *)

Receivable(m) == moves[m].record = 0 /\ moves[m].status \in {"planned", "dispatched", "received"}

\* A load already received answers with its record: nothing changes.
ReceiveLoad(h, m, b) ==
    /\ Receivable(m)
    /\ Begin(h, [Idle EXCEPT !.pc = "receive", !.load = m, !.body = b])
    /\ raced' = IF \E g \in Handlers : At(g, "receive") /\ job[g].load = m THEN raced \cup {m} ELSE raced
    /\ UNCHANGED <<tables, deaths, spoiled, disturbed>>

\* One transaction, without a condition on the load.
Receive(h) ==
    /\ At(h, "receive")
    /\ LET m == job[h].load IN
         IF InTable(moves[m])
         THEN /\ Insert(h, m, job[h].body, FALSE)
              /\ moves' = [moves EXCEPT ![m] = [status |-> "received", record |-> Len(recs) + 1]]
         ELSE Does(h, Idle) /\ UNCHANGED <<moves, recs, spoiled>>
    /\ UNCHANGED <<docs, acts, latest, totals, jobs, deaths, disturbed, raced>>

\* Dispatch, refuse or cancel: by the status read first, then without a condition.
Mark(h, m) ==
    /\ moves[m].status \in {"planned", "dispatched"}
    /\ \E to \in {"dispatched", "rejected", "cancelled"} :
          Begin(h, [Idle EXCEPT !.pc = "mark", !.load = m, !.task = to])
    /\ UNCHANGED <<tables, history>>

MarkWrites(h) ==
    /\ At(h, "mark")
    /\ moves' = IF InTable(moves[job[h].load])
                THEN [moves EXCEPT ![job[h].load].status = job[h].task] ELSE moves
    /\ Does(h, Idle)
    /\ UNCHANGED <<docs, recs, acts, latest, totals, jobs, history>>

RemoveMove(m) ==
    /\ moves[m].status \in {"planned", "cancelled"} /\ AtOnce
    /\ moves' = [moves EXCEPT ![m].status = "removed"]
    /\ UNCHANGED <<docs, recs, acts, latest, totals, job, history>>

---------------------------------------------------------------------------
(* syncWasteRecordCalculation: the save calculates its one record *)

\* The record is read once; a write needs it to be still there.
SyncRead(h) ==
    /\ At(h, "sync")
    /\ LET w == recs[job[h].rec] IN
         IF w.live
         THEN /\ Does(h, [Go(h, IF w.link = 0 THEN "make" ELSE "update") EXCEPT
                     !.saw = [weight |-> w.weight, period |-> w.period, link |-> w.link]])
              /\ UNCHANGED <<spoiled, disturbed>>
         ELSE Stop(h)
    /\ UNCHANGED <<tables, jobs, deaths, raced>>

MakeActivity(h) ==
    /\ At(h, "make")
    /\ acts' = Append(acts, Entry(job[h].rec, job[h].saw.weight, job[h].saw.period, FALSE))
    /\ Does(h, [Go(h, "link") EXCEPT !.act = Len(acts) + 1])
    /\ UNCHANGED <<inbox, recs, latest, totals, jobs, history>>

LinkActivity(h) ==
    /\ At(h, "link") /\ acts[job[h].act].live
    /\ IF Live(job[h].rec)
       THEN /\ recs' = [recs EXCEPT ![job[h].rec].link = job[h].act]
            /\ Does(h, Go(h, "run")) /\ UNCHANGED <<spoiled, disturbed>>
       ELSE Stop(h) /\ UNCHANGED recs
    /\ UNCHANGED <<inbox, acts, latest, totals, jobs, deaths, raced>>

\* A review by hand stands.
Restated(a, saw) == [acts[a] EXCEPT !.weight = saw.weight, !.period = saw.period, !.amended = FALSE]

UpdateActivity(h) ==
    /\ At(h, "update") /\ acts[job[h].saw.link].live
    /\ acts' = [acts EXCEPT ![job[h].saw.link] = Restated(job[h].saw.link, job[h].saw)]
    /\ Does(h, [Go(h, "run") EXCEPT !.act = job[h].saw.link])
    /\ UNCHANGED <<inbox, recs, latest, totals, jobs, history>>

\* A calculation run of the period with the one row, which succeeds. Reviews are not asked.
Calculate(h) ==
    /\ At(h, "run") /\ acts[job[h].act].live
    /\ acts' = [acts EXCEPT ![job[h].act].row = TRUE]
    /\ latest' = [latest EXCEPT ![job[h].saw.period] = job[h].act]
    /\ Does(h, [Go(h, "figure") EXCEPT !.act = 0])
    /\ UNCHANGED <<inbox, recs, totals, jobs, history>>

\* Somebody removed the activity record: linking, updating or calculating it throws.
ActivityGone(h) ==
    /\ \/ job[h].pc \in {"link", "run"} /\ ~acts[job[h].act].live
       \/ At(h, "update") /\ ~acts[job[h].saw.link].live
    /\ Stop(h)
    /\ UNCHANGED <<tables, jobs, deaths, raced>>

\* co2eTonnes is the factor times the weight read: the weight stands for it.
WriteFigure(h) ==
    /\ At(h, "figure")
    /\ IF Live(job[h].rec)
       THEN /\ recs' = [recs EXCEPT ![job[h].rec].co2e = job[h].saw.weight]
            /\ Does(h, [Go(h, IF job[h].task = "sheet" THEN "rows" ELSE "read") EXCEPT
                           !.rec = 0, !.saw = Unread])
            /\ UNCHANGED <<spoiled, disturbed>>
       ELSE Stop(h) /\ UNCHANGED recs
    /\ UNCHANGED <<inbox, acts, latest, totals, jobs, deaths, raced>>

---------------------------------------------------------------------------
(* rebuildEnvironmentalMetricAggregates, for each period in turn *)

\* The records are read outside the transaction. Alone from here on, it is exact.
RebuildReads(h) ==
    /\ At(h, "read")
    /\ LET p == Head(job[h].periods) IN
         /\ Does(h, [Go(h, "clear") EXCEPT !.tally = Weighed(p)])
         /\ spoiled' = IF \E g \in Handlers \ {h} : p \in Busy(g) THEN spoiled ELSE spoiled \ {p}
    /\ UNCHANGED <<tables, jobs, deaths, disturbed, raced>>

\* The rows the delete sees; those that commit later stay.
RebuildClears(h) ==
    /\ At(h, "clear")
    /\ Does(h, [Go(h, "commit") EXCEPT !.rows =
            {g \in Handlers : totals[Head(job[h].periods)][g] # 0}])
    /\ UNCHANGED <<tables, jobs, history>>

RebuildCommits(h) ==
    /\ At(h, "commit")
    /\ totals' = [totals EXCEPT ![Head(job[h].periods)] =
            [g \in Handlers |-> IF g = h THEN job[h].tally ELSE IF g \in job[h].rows THEN 0 ELSE @[g]]]
    /\ LET rest == Tail(job[h].periods) IN
         Does(h, IF rest = <<>> THEN Onward(h)
                 ELSE [Go(h, "read") EXCEPT !.periods = rest, !.tally = 0, !.rows = {}])
    /\ UNCHANGED <<inbox, recs, acts, latest, jobs, history>>

---------------------------------------------------------------------------
(* Written by hand, beside the requests: none of these saves or rebuilds.     *)

LiveEntries == {a \in DOMAIN acts : acts[a].live}

\* Whatever a waste record says, and whatever was calculated.
AmendActivity(a) ==
    /\ a \in LiveEntries /\ AtOnce
    /\ \E b \in Bodies : acts' = [acts EXCEPT ![a].weight = b.weight, ![a].amended = TRUE]
    /\ UNCHANGED <<inbox, recs, latest, totals, job, history>>

\* One or several at a time.
ReviewActivities(ids) ==
    /\ ids # {} /\ ids \subseteq LiveEntries /\ AtOnce
    /\ \E approved \in BOOLEAN :
          acts' = [a \in DOMAIN acts |-> IF a \in ids
                     THEN [acts[a] EXCEPT !.approved = approved, !.reviewed = TRUE] ELSE acts[a]]
    /\ UNCHANGED <<inbox, recs, latest, totals, job, history>>

\* Until it is calculated. The one waste record that may link to it loses its link; a save of
\* that record that is under way will stop at its next write.
RemoveActivity(a) ==
    /\ a \in LiveEntries /\ ~acts[a].row /\ AtOnce
    /\ acts' = [acts EXCEPT ![a].live = FALSE]
    /\ recs' = [recs EXCEPT ![acts[a].of].link = IF @ = a THEN 0 ELSE @]
    /\ disturbed' = disturbed \cup {acts[a].of}
    /\ UNCHANGED <<inbox, latest, totals, job, deaths, spoiled, raced>>

\* An approved field submission makes a waste record and its activity record in one
\* transaction; nothing is calculated and no totals are rebuilt.
ApproveTicket(b) ==
    /\ Len(recs) < MaxRecords /\ AtOnce
    /\ recs' = Append(recs, [Row(Form, FALSE, b) EXCEPT !.link = Len(acts) + 1])
    /\ acts' = Append(acts, Entry(Len(recs) + 1, b.weight, b.period, FALSE))
    /\ spoiled' = spoiled \cup {b.period}
    /\ disturbed' = disturbed \cup {Len(recs) + 1}
    /\ UNCHANGED <<inbox, latest, totals, job, deaths, raced>>

\* A received load's details are corrected, and with them its waste record's reference.
UpdateMove(m) ==
    /\ InTable(moves[m]) /\ moves[m].record \in LiveRecords /\ AtOnce
    /\ LET r == moves[m].record IN
         \E b \in Bodies : recs' = [recs EXCEPT ![r].ref = b.ref, ![r].sure = @ /\ recs[r].ref = b.ref]
    /\ UNCHANGED <<inbox, acts, latest, totals, job, history>>

---------------------------------------------------------------------------
Die(h) ==
    /\ ~At(h, "idle") /\ deaths < MaxDeaths
    /\ deaths' = deaths + 1
    /\ Stop(h)
    /\ UNCHANGED <<tables, jobs, raced>>

ByHand ==
    \/ \E a \in DOMAIN acts : AmendActivity(a) \/ RemoveActivity(a)
    \/ \E ids \in SUBSET DOMAIN acts : ReviewActivities(ids)
    \/ \E b \in Bodies : ApproveTicket(b)
    \/ \E m \in Moves : UpdateMove(m)
Note(d) == Submit(d) \/ Decide(d) \/ RemoveNote(d)
Bulk(h) == BulkFind(h) \/ BulkWaiting(h) \/ BulkSeen(h) \/ BulkPick(h)
Asks(h) ==
    \/ \E b \in Bodies : Create(h, b) \/ UploadRow(h, b) \/ Edit(h, b)
    \/ \E b \in Bodies, d \in Docs : Review(h, d, b)
    \/ \E b \in Bodies, m \in Moves : ReceiveLoad(h, m, b)
    \/ \E r \in DOMAIN recs, step \in {"edit", "delete"} : Open(h, r, step)
    \/ \E p \in Periods : SaveWater(h, p)
    \/ \E m \in Moves : Mark(h, m)
    \/ Upload(h)
Saves(h) ==
    \/ SyncRead(h) \/ MakeActivity(h) \/ LinkActivity(h) \/ UpdateActivity(h)
    \/ Calculate(h) \/ WriteFigure(h) \/ ActivityGone(h)
Rebuild(h) == RebuildReads(h) \/ RebuildClears(h) \/ RebuildCommits(h)
Next ==
    \/ \E d \in Docs : Note(d)
    \/ \E m \in Moves : RemoveMove(m)
    \/ ByHand
    \/ \E h \in Handlers :
          \/ Bulk(h) \/ Asks(h) \/ Saves(h) \/ Rebuild(h) \/ Die(h)
          \/ Accept(h) \/ Receive(h) \/ Delete(h) \/ MarkWrites(h) \/ UploadEnds(h)

Spec == Init /\ [][Next]_vars

---------------------------------------------------------------------------
(* Properties *)

\* accept.ts, "two reviewers (or a bulk approval and a click) cannot both make a record":
\* no transfer note ever gives two waste records, deleted ones included; a load does only
\* when two receipts of it overlap.
OneRecordPerLoad ==
    \A r1, r2 \in DOMAIN recs :
        r1 # r2 /\ recs[r1].from = recs[r2].from => recs[r1].from \in {Form} \cup raced

\* triage-load.ts, "a repeat can hide behind a filter": of notes with one reference that were
\* pending when bulk approvals recorded them, however the approvals overlap and whenever the
\* notes arrived, one makes a waste record that stands.
BulkNeverDoubles ==
    \A r1, r2 \in LiveRecords :
        r1 # r2 /\ recs[r1].sure /\ recs[r2].sure => recs[r1].ref # recs[r2].ref

\* A record that no save is about, and whose saves neither overlapped nor stopped half way, is in
\* the inventory once: one activity record, of its period, calculated, with its weight unless
\* somebody amended it by hand since, approved unless somebody reviewed it by hand; and the
\* record's own figure is of that weight. (A field submission's record has no save.)
QuietRecordsAgree ==
    \A r \in LiveRecords \ disturbed :
        (\A h \in Handlers : ~(Saving(h) /\ job[h].rec = r)) =>
            LET a == recs[r].link IN
               /\ a # 0 /\ acts[a].of = r /\ acts[a].live /\ acts[a].row
               /\ acts[a].period = recs[r].period
               /\ acts[a].weight = recs[r].weight \/ acts[a].amended
               /\ acts[a].approved \/ acts[a].reviewed
               /\ recs[r].co2e = recs[r].weight
               /\ \A b \in DOMAIN acts : acts[b].of = r => b = a

\* A period that no request is about, and whose last rebuild was alone, shows the weight of its
\* records in one row: also the period an edited record left.
QuietTotals ==
    \A p \in Periods \ spoiled :
        (\A h \in Handlers : p \notin Busy(h)) =>
            {totals[p][h] : h \in Handlers} \ {0} = {Weighed(p)} \ {0}
            /\ Cardinality({h \in Handlers : totals[p][h] # 0}) <= 1

---------------------------------------------------------------------------
(* What the repository says and the code does not keep *)

\* datapoint-resolvers.ts, "Only the latest succeeded run: rows from earlier runs are superseded":
\* once no save is under way, the latest succeeded run of a period has a row for every waste
\* record that an earlier one had a row for, unless a run of the whole period (module PeriodRuns)
\* has finished since.
EarlierRowsSuperseded ==
    (\A h \in Handlers : At(h, "idle")) =>
        \A r \in LiveRecords \ disturbed : latest[recs[r].period] = recs[r].link
=============================================================================
