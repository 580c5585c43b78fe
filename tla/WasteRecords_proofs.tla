--------------------------- MODULE WasteRecords_proofs ---------------------------
(***************************************************************************)
(* Proofs about WasteRecords, for any requests, notes, loads and periods.   *)
(*                                                                         *)
(* The argument: a note makes a record once, because its own row says so;   *)
(* two notes of one reference that bulk approvals hold never wait both; a   *)
(* record that no two saves overlap in has one saver at a time, whose step   *)
(* says what of the save is done; and a period that is not spoiled has one   *)
(* request at a time that will rebuild it.                                 *)
(***************************************************************************)
EXTENDS WasteRecords, FiniteSetTheorems, SequenceTheorems, TLAPS

Refs == {b.ref : b \in Bodies} \cup {NoRef}
Loads == Docs \cup Moves \cup {Form}
Days == Periods \cup {0}
Sums == {SumFunction(f) : f \in UNION {[S -> Nat] : S \in SUBSET Nat}} \cup Nat

EarlySteps == {"idle", "waiting", "seen", "pick", "accept", "receive", "mark", "edit", "delete"}
SaveSteps == {"sync", "make", "link", "update", "run", "figure"}
RebuildSteps == {"read", "clear", "commit"}
Steps == EarlySteps \cup SaveSteps \cup RebuildSteps \cup {"rows"}
Tasks == {"one", "bulk", "sheet", "dispatched", "rejected", "cancelled"}

Rec == [live : BOOLEAN, from : Loads, sure : BOOLEAN, ref : Refs, weight : Nat, period : Days,
        link : Nat, co2e : Nat]
Act == [of : Nat, live : BOOLEAN, weight : Nat, period : Days, approved : BOOLEAN, row : BOOLEAN,
        amended : BOOLEAN, reviewed : BOOLEAN]
Seen == [weight : Nat, period : Days, link : Nat]
Job == [pc : Steps, task : Tasks, load : Loads, body : Bodies \cup {NoBody}, found : SUBSET Docs,
        rec : Nat, was : Days, saw : Seen, act : Nat, periods : Seq(Periods), tally : Sums,
        rows : SUBSET Handlers]
DocStatuses == {"none", "pending", "accepted", "rejected", "removed"}
MoveStatuses == {"planned", "dispatched", "received", "rejected", "cancelled", "removed"}

InboxTyped ==
    /\ docs \in [Docs -> [status : DocStatuses, record : Nat]]
    /\ moves \in [Moves -> [status : MoveStatuses, record : Nat]]
RecsTyped ==
    /\ recs \in Seq(Rec) /\ acts \in Seq(Act)
    /\ \A r \in DOMAIN recs : Live(r) => recs[r].period \in Periods
TotalsTyped ==
    /\ latest \in [Periods -> Nat] /\ totals \in [Periods -> [Handlers -> Sums]]
JobsTyped == job \in [Handlers -> Job]
\* What a request is about at each of its steps, of the records D.
Placed(j, D) ==
    /\ j.pc = "accept" => j.load \in Docs /\ j.body \in Bodies
    /\ j.pc = "receive" => j.load \in Moves /\ j.body \in Bodies
    /\ j.pc = "mark" => j.load \in Moves /\ j.task \in {"dispatched", "rejected", "cancelled"}
    /\ j.pc \in SaveSteps \cup {"edit", "delete"} => j.rec \in D
    /\ j.pc \in {"edit", "delete"} => j.was \in Periods
    /\ j.pc \in {"make", "link", "update", "run", "figure"} => j.saw.period \in Periods
    /\ j.pc \in EarlySteps => j.periods = <<>>
    /\ j.task = "bulk" => j.pc \in {"waiting", "seen", "pick", "accept"} \cup SaveSteps \cup
          RebuildSteps
    /\ j.pc \in {"waiting", "seen", "pick"} => j.task = "bulk"
    /\ j.pc \in RebuildSteps => j.periods # <<>>
    /\ j.pc \in SaveSteps /\ j.task # "sheet" => j.periods # <<>>
PlacesTyped == \A h \in Handlers : Placed(job[h], DOMAIN recs)
TypeInv == InboxTyped /\ RecsTyped /\ TotalsTyped /\ JobsTyped /\ PlacesTyped

\* A note, or a load that was not raced for, makes its one record.
LoadInv ==
    /\ \A r \in DOMAIN recs : recs[r].from \in Docs => docs[recs[r].from].record = r
    /\ \A r \in DOMAIN recs : recs[r].from \in Moves \ raced => moves[recs[r].from].record = r
    /\ \A g, h \in Handlers : At(g, "receive") /\ At(h, "receive") /\ job[g].load = job[h].load
                              /\ job[g].load \notin raced => g = h
    /\ \A h \in Handlers : At(h, "receive") /\ job[h].load \notin raced =>
          moves[job[h].load].record = 0

\* The notes a bulk approval has found alone of their reference, and has not recorded yet.
Checked(h) ==
    {d \in Docs : /\ job[h].task = "bulk" /\ ~At(h, "waiting")
                  /\ d \in job[h].found \/ (At(h, "accept") /\ d = job[h].load)}
\* Two notes of one reference that bulk approvals have checked do not both wait. One that is
\* about to be recorded and waits has a reference no record has that a bulk approval made.
BulkInv ==
    /\ \A h \in Handlers : \A d \in job[h].found : docs[d].status # "none"
    /\ \A h \in Handlers : At(h, "accept") => docs[job[h].load].status # "none"
    /\ \A g, h \in Handlers : \A d \in Checked(g), e \in Checked(h) :
          Reading[d].ref = Reading[e].ref /\ Waiting(d) /\ Waiting(e) => d = e
    /\ \A h \in Handlers : At(h, "accept") /\ job[h].task = "bulk" =>
          job[h].body = Reading[job[h].load]
    /\ \A h \in Handlers, r \in LiveRecords :
          At(h, "accept") /\ job[h].task = "bulk" /\ Waiting(job[h].load) /\ recs[r].sure =>
             recs[r].ref # Reading[job[h].load].ref
    /\ BulkNeverDoubles

\* Activity records are of the waste record that links to them, and approved until a review.
ActsInv ==
    /\ \A a \in DOMAIN acts : acts[a].of \in DOMAIN recs
    /\ \A r \in DOMAIN recs : recs[r].link # 0 =>
          recs[r].link \in DOMAIN acts /\ acts[recs[r].link].of = r /\ acts[recs[r].link].live
    /\ \A a \in DOMAIN acts : acts[a].approved \/ acts[a].reviewed
    /\ \A h \in Handlers : At(h, "update") =>
          job[h].saw.link \in DOMAIN acts /\ acts[job[h].saw.link].of = job[h].rec
    /\ \A h \in Handlers : job[h].pc \in {"link", "run"} =>
          job[h].act \in DOMAIN acts /\ acts[job[h].act].of = job[h].rec

Owns(r, a) == \A b \in DOMAIN acts : acts[b].of = r => b = a
States(a, r) ==
    acts[a].period = recs[r].period /\ (acts[a].weight = recs[r].weight \/ acts[a].amended)
Settled(r) ==
    /\ recs[r].link # 0 /\ Owns(r, recs[r].link) /\ States(recs[r].link, r)
    /\ acts[recs[r].link].row /\ recs[r].co2e = recs[r].weight
\* h has read what the record says now.
Fresh(h, r) == job[h].saw.weight = recs[r].weight /\ job[h].saw.period = recs[r].period
\* How far the save of r by h is.
SaveOf(h, r) ==
    /\ At(h, "sync") /\ recs[r].link # 0 => Owns(r, recs[r].link)
    /\ At(h, "sync") /\ recs[r].link = 0 => \A a \in DOMAIN acts : acts[a].of # r
    /\ At(h, "make") => Fresh(h, r) /\ recs[r].link = 0 /\ \A a \in DOMAIN acts : acts[a].of # r
    /\ At(h, "link") => Fresh(h, r) /\ Owns(r, job[h].act) /\ States(job[h].act, r)
    /\ At(h, "update") => Fresh(h, r) /\ recs[r].link = job[h].saw.link /\ Owns(r, recs[r].link)
    /\ At(h, "run") => Fresh(h, r) /\ recs[r].link = job[h].act /\ Owns(r, recs[r].link)
                       /\ States(recs[r].link, r)
    /\ At(h, "figure") => Fresh(h, r) /\ recs[r].link # 0 /\ Owns(r, recs[r].link)
                          /\ States(recs[r].link, r) /\ acts[recs[r].link].row
Saves1(h, r) == Saving(h) /\ job[h].rec = r
SaveInv ==
    \A r \in LiveRecords \ disturbed :
        /\ \A g, h \in Handlers : Saves1(g, r) /\ Saves1(h, r) => g = h
        /\ \A h \in Handlers : Saves1(h, r) => SaveOf(h, r)
        /\ (\A h \in Handlers : ~Saves1(h, r)) => Settled(r)

Distinct(s) == \A i, j \in DOMAIN s : s[i] = s[j] => i = j
Exact(p) ==
    /\ {totals[p][h] : h \in Handlers} \ {0} = {Weighed(p)} \ {0}
    /\ \A g, h \in Handlers : totals[p][g] # 0 /\ totals[p][h] # 0 => g = h
\* A period that is not spoiled has one request that will rebuild it, and is exact if it has none.
RebuildOf(h, p) ==
    /\ At(h, "clear") => job[h].tally = Weighed(p)
    /\ At(h, "commit") => job[h].tally = Weighed(p) /\
          job[h].rows = {g \in Handlers : totals[p][g] # 0}
PeriodsInv == \A h \in Handlers : Distinct(job[h].periods)
TotalInv ==
    \A p \in Periods \ spoiled :
        /\ \A g, h \in Handlers : p \in Busy(g) /\ p \in Busy(h) => g = h
        /\ \A h \in Handlers : job[h].periods # <<>> /\ p = Head(job[h].periods) => RebuildOf(h, p)
        /\ (\A h \in Handlers : p \notin Busy(h)) => Exact(p)

WasteInv == TypeInv /\ LoadInv /\ BulkInv /\ ActsInv /\ SaveInv /\ PeriodsInv /\ TotalInv


---------------------------------------------------------------------------
(* Jobs and periods. *)

LEMMA NoPeriods == <<>> \in Seq(Periods) /\ Range(<<>>) = {} /\ Distinct(<<>>)
BY DEF Range, Distinct

LEMMA OnePeriod ==
    ASSUME NEW p \in Periods
    PROVE  /\ <<p>> \in Seq(Periods) /\ Range(<<p>>) = {p} /\ Distinct(<<p>>)
           /\ <<p>> # <<>> /\ Head(<<p>>) = p
<1>1. DOMAIN <<p>> = {1} /\ <<p>>[1] = p
  OBVIOUS
<1> QED
  BY <1>1 DEF Range, Distinct

LEMMA TwoPeriods ==
    ASSUME NEW p \in Periods, NEW q \in Periods
    PROVE  /\ Rebuilds(p, q) \in Seq(Periods) /\ Range(Rebuilds(p, q)) = {p, q}
           /\ Distinct(Rebuilds(p, q)) /\ Rebuilds(p, q) # <<>>
<1>1. CASE p = q
  BY <1>1, OnePeriod DEF Rebuilds
<1>2. CASE p # q
  <2>1. <<p, q>> \in Seq(Periods) /\ DOMAIN <<p, q>> = {1, 2} /\ <<p, q>>[1] = p /\ <<p, q>>[2] = q
    OBVIOUS
  <2>2. Rebuilds(p, q) = <<p, q>>
    BY <1>2 DEF Rebuilds
  <2> QED
    BY <1>2, <2>1, <2>2 DEF Range, Distinct
<1> QED
  BY <1>1, <1>2

LEMMA MorePeriods ==
    ASSUME NEW s \in Seq(Periods), NEW p \in Periods, p \notin Range(s)
    PROVE  /\ Append(s, p) \in Seq(Periods) /\ Range(Append(s, p)) = Range(s) \cup {p}
           /\ Append(s, p) # <<>> /\ (Distinct(s) => Distinct(Append(s, p)))
<1> DEFINE n == Len(s)
           more == Append(s, p)
<1>1. more \in Seq(Periods) /\ Len(more) = n + 1 /\ more[n + 1] = p /\ n \in Nat
  BY AppendProperties, LenProperties
<1>2. \A i \in 1 .. n : more[i] = s[i]
  BY AppendProperties
<1>3. DOMAIN s = 1 .. n /\ DOMAIN more = 1 .. n + 1
  BY <1>1, LenProperties
<1> HIDE DEF n, more
<1>4. Range(more) = Range(s) \cup {p}
  BY <1>1, <1>2, <1>3 DEF Range
<1>5. Distinct(s) => Distinct(more)
  BY <1>1, <1>2, <1>3 DEF Range, Distinct
<1>6. more # <<>>
  BY <1>1
<1> QED
  BY <1>1, <1>4, <1>5, <1>6 DEF more

LEMMA FewerPeriods ==
    ASSUME NEW s \in Seq(Periods), s # <<>>
    PROVE  /\ Head(s) \in Periods /\ Head(s) \in Range(s) /\ Tail(s) \in Seq(Periods)
           /\ Distinct(s) => Range(Tail(s)) = Range(s) \ {Head(s)} /\ Distinct(Tail(s))
<1> DEFINE n == Len(s)
           rest == Tail(s)
<1>1. n \in Nat /\ n > 0 /\ DOMAIN s = 1 .. n /\ Head(s) = s[1] /\ s[1] \in Periods
  BY LenProperties, EmptySeq, ElementOfSeq, HeadTailProperties
<1>2. /\ rest \in Seq(Periods) /\ Len(rest) = n - 1
      /\ \A i \in 1 .. n - 1 : rest[i] = s[i + 1]
  BY <1>1, HeadTailProperties
<1>3. DOMAIN rest = 1 .. n - 1
  BY <1>2, LenProperties
<1>4. \A i \in 2 .. n : i - 1 \in 1 .. n - 1 /\ rest[i - 1] = s[i]
  BY <1>1, <1>2
<1> HIDE DEF n, rest
<1>5. ASSUME Distinct(s) PROVE Range(rest) = Range(s) \ {s[1]}
  <2>1. ASSUME NEW p \in Range(rest) PROVE p \in Range(s) \ {s[1]}
    BY <2>1, <1>1, <1>2, <1>3, <1>5 DEF Range, Distinct
  <2>2. ASSUME NEW p \in Range(s), p # s[1] PROVE p \in Range(rest)
    <3>1. PICK i \in 1 .. n : p = s[i]
      BY <1>1 DEF Range
    <3>2. i \in 2 .. n
      BY <1>1, <2>2, <3>1
    <3> QED
      BY <1>3, <1>4, <3>1, <3>2 DEF Range
  <2> QED
    BY <2>1, <2>2
<1>6. ASSUME Distinct(s), NEW i \in 1 .. n - 1, NEW j \in 1 .. n - 1, rest[i] = rest[j]
      PROVE  i = j
  <2>1. i + 1 \in 1 .. n /\ j + 1 \in 1 .. n /\ s[i + 1] = s[j + 1]
    BY <1>1, <1>2, <1>6
  <2>2. i + 1 = j + 1
    BY <1>1, <1>6, <2>1 DEF Distinct
  <2> QED
    BY <2>2
<1>7. Distinct(s) => Distinct(rest)
  BY <1>3, <1>6 DEF Distinct
<1>8. Head(s) \in Range(s)
  BY <1>1 DEF Range
<1> QED
  BY <1>1, <1>2, <1>5, <1>7, <1>8 DEF rest

LEMMA IdleIsJob == Idle \in Job /\ NoBody \notin {} /\ Unread \in Seen
BY NoPeriods DEF Idle, Job, Unread, Seen, Days, Loads, Steps, EarlySteps, Tasks, Sums


\* Handler h goes on as j.
Turns(h, j) ==
    /\ j \in Job /\ job' \in [Handlers -> Job] /\ job'[h] = j
    /\ \A g \in Handlers \ {h} : job'[g] = job[g]

LEMMA DoesTurns ==
    ASSUME JobsTyped, NEW h \in Handlers, NEW j \in Job, Does(h, j)
    PROVE  Turns(h, j)
BY DEF JobsTyped, Does, Turns

LEMMA GoIsJob ==
    ASSUME JobsTyped, NEW h \in Handlers, NEW step \in Steps
    PROVE  Go(h, step) \in Job
<1>1. job[h] \in Job
  BY DEF JobsTyped
<1> QED
  BY <1>1 DEF Go, Job

\* The job of a request that has made a record and turns to saving it.
Inserted(h, b) ==
    [job[h] EXCEPT !.pc = "sync", !.rec = Len(recs) + 1, !.load = Form, !.body = NoBody,
         !.periods = IF b.period \in Range(@) THEN @ ELSE Append(@, b.period)]

LEMMA InsertedIsJob ==
    ASSUME TypeInv, NEW h \in Handlers, NEW b \in Bodies
    PROVE  /\ Inserted(h, b) \in Job
           /\ Range(Inserted(h, b).periods) = Range(job[h].periods) \cup {b.period}
           /\ Inserted(h, b).periods # <<>>
           /\ Distinct(job[h].periods) => Distinct(Inserted(h, b).periods)
<1> DEFINE old == job[h].periods
           new == IF b.period \in Range(old) THEN old ELSE Append(old, b.period)
<1>1. job[h] \in Job /\ old \in Seq(Periods) /\ b.period \in Periods /\ Len(recs) + 1 \in Nat
  BY BodyAssumption, LenProperties DEF TypeInv, JobsTyped, RecsTyped, Job
<1>2. /\ new \in Seq(Periods) /\ Range(new) = Range(old) \cup {b.period}
      /\ new # <<>> /\ (Distinct(old) => Distinct(new))
  <2>1. CASE b.period \in Range(old)
    BY <1>1, <2>1, NoPeriods
  <2>2. CASE b.period \notin Range(old)
    BY <1>1, <2>2, MorePeriods
  <2> QED
    BY <2>1, <2>2
<1>3. Inserted(h, b) = [job[h] EXCEPT !.pc = "sync", !.rec = Len(recs) + 1, !.load = Form,
                            !.body = NoBody, !.periods = new]
  BY DEF Inserted
<1> HIDE DEF new
<1>4. Inserted(h, b) \in Job /\ Inserted(h, b).periods = new
  BY <1>1, <1>2, <1>3 DEF Job, Steps, SaveSteps, Loads
<1> QED
  BY <1>2, <1>4

LEMMA InsertTurns ==
    ASSUME TypeInv, NEW h \in Handlers, NEW b \in Bodies, NEW from \in Loads, NEW sure \in BOOLEAN,
           Insert(h, from, b, sure)
    PROVE  /\ Turns(h, Inserted(h, b))
           /\ Len(recs) \in Nat /\ DOMAIN recs = 1 .. Len(recs)
           /\ DOMAIN recs' = 1 .. Len(recs) + 1 /\ recs'[Len(recs) + 1] = Row(from, sure, b)
           /\ recs' \in Seq(Rec) /\ \A r \in DOMAIN recs : recs'[r] = recs[r]
           /\ spoiled' = spoiled \cup {p \in {b.period} \cup Range(Inserted(h, b).periods) :
                                          \E g \in Handlers \ {h} : p \in Busy(g)}
<1>1. Row(from, sure, b) \in Rec
  BY BodyAssumption DEF Row, Rec, Days, Refs
<1>2. Turns(h, Inserted(h, b))
  BY InsertedIsJob, DoesTurns DEF Insert, Inserted, TypeInv
<1>3. recs \in Seq(Rec) /\ recs' = Append(recs, Row(from, sure, b))
  BY DEF TypeInv, RecsTyped, Insert
<1>4. /\ recs' \in Seq(Rec) /\ Len(recs') = Len(recs) + 1 /\ Len(recs) \in Nat
      /\ recs'[Len(recs) + 1] = Row(from, sure, b)
      /\ \A r \in 1 .. Len(recs) : recs'[r] = recs[r]
      /\ DOMAIN recs = 1 .. Len(recs) /\ DOMAIN recs' = 1 .. Len(recs) + 1
  BY <1>1, <1>3, AppendProperties, LenProperties
<1> QED
  BY <1>2, <1>4 DEF Insert, Spoils, Inserted

\* A request that stops: it died, or the activity record of its save is gone.
Halts(h) == ~At(h, "idle") /\ Stop(h) /\ UNCHANGED <<tables, jobs, raced>>

LEMMA HaltsEither ==
    ASSUME NEW h \in Handlers, Die(h) \/ ActivityGone(h)
    PROVE  Halts(h)
BY DEF Die, ActivityGone, Halts, At

LEMMA ByHandLeaves ==
    ASSUME ByHand
    PROVE  /\ docs' = docs /\ moves' = moves /\ latest' = latest /\ totals' = totals /\ job' = job
           /\ raced' = raced /\ spoiled \subseteq spoiled' /\ disturbed \subseteq disturbed'
BY DEF ByHand, AmendActivity, RemoveActivity, ReviewActivities, ApproveTicket, UpdateMove, inbox,
       history

LEMMA InboxTypedStep ==
    ASSUME TypeInv, [Next]_vars
    PROVE  InboxTyped'
<1> USE
    DEF TypeInv, InboxTyped, PlacesTyped, Placed, JobsTyped, Job, DocStatuses, MoveStatuses, At,
        Stop, tables, inbox, history
<1>1. ASSUME NEW d \in Docs, Submit(d) PROVE InboxTyped'
  <2>1. PICK s \in {"pending", "accepted"} : docs' = [docs EXCEPT ![d].status = s]
    BY <1>1 DEF Submit
  <2>2. docs[d] \in [status : DocStatuses, record : Nat]
    OBVIOUS
  <2>3. [docs[d] EXCEPT !.status = s] \in [status : DocStatuses, record : Nat]
    BY <2>2
  <2> QED
    BY <1>1, <2>1, <2>3 DEF Submit
<1>2. ASSUME NEW d \in Docs, Decide(d) PROVE InboxTyped'
  <2>1. PICK s \in {"accepted", "rejected"} : docs' = [docs EXCEPT ![d].status = s]
    BY <1>2 DEF Decide
  <2>2. docs[d] \in [status : DocStatuses, record : Nat]
    OBVIOUS
  <2>3. [docs[d] EXCEPT !.status = s] \in [status : DocStatuses, record : Nat]
    BY <2>2
  <2> QED
    BY <1>2, <2>1, <2>3 DEF Decide
<1>3. ASSUME NEW d \in Docs, RemoveNote(d) PROVE InboxTyped'
  BY <1>3 DEF RemoveNote
<1>4. ASSUME NEW m \in Moves, RemoveMove(m) PROVE InboxTyped'
  BY <1>4 DEF RemoveMove
<1>5. ASSUME NEW h \in Handlers, BulkFind(h) PROVE InboxTyped'
  BY <1>5 DEF BulkFind
<1>6. ASSUME NEW h \in Handlers, BulkWaiting(h) PROVE InboxTyped'
  BY <1>6 DEF BulkWaiting
<1>7. ASSUME NEW h \in Handlers, BulkSeen(h) PROVE InboxTyped'
  BY <1>7 DEF BulkSeen
<1>8. ASSUME NEW h \in Handlers, BulkPick(h) PROVE InboxTyped'
  BY <1>8 DEF BulkPick
<1>9. ASSUME NEW h \in Handlers, NEW b \in Bodies, Create(h, b) PROVE InboxTyped'
  BY <1>9 DEF Create
<1>10. ASSUME NEW h \in Handlers, NEW b \in Bodies, UploadRow(h, b) PROVE InboxTyped'
  BY <1>10 DEF UploadRow
<1>11. ASSUME NEW h \in Handlers, NEW b \in Bodies, Edit(h, b) PROVE InboxTyped'
  BY <1>11 DEF Edit
<1>12. ASSUME NEW h \in Handlers, NEW b \in Bodies, NEW d \in Docs, Review(h, d, b)
        PROVE  InboxTyped'
  BY <1>12 DEF Review
<1>13. ASSUME NEW h \in Handlers, NEW b \in Bodies, NEW m \in Moves, ReceiveLoad(h, m, b)
        PROVE  InboxTyped'
  BY <1>13 DEF ReceiveLoad
<1>14. ASSUME NEW h \in Handlers, NEW r \in DOMAIN recs, NEW step \in {"edit", "delete"},
              Open(h, r, step)
        PROVE  InboxTyped'
  BY <1>14 DEF Open
<1>15. ASSUME NEW h \in Handlers, NEW p \in Periods, SaveWater(h, p) PROVE InboxTyped'
  BY <1>15 DEF SaveWater
<1>16. ASSUME NEW h \in Handlers, NEW m \in Moves, Mark(h, m) PROVE InboxTyped'
  BY <1>16 DEF Mark
<1>17. ASSUME NEW h \in Handlers, Upload(h) PROVE InboxTyped'
  BY <1>17 DEF Upload
<1>18. ASSUME NEW h \in Handlers, SyncRead(h) PROVE InboxTyped'
  BY <1>18 DEF SyncRead
<1>19. ASSUME NEW h \in Handlers, MakeActivity(h) PROVE InboxTyped'
  BY <1>19 DEF MakeActivity
<1>20. ASSUME NEW h \in Handlers, LinkActivity(h) PROVE InboxTyped'
  BY <1>20 DEF LinkActivity
<1>21. ASSUME NEW h \in Handlers, UpdateActivity(h) PROVE InboxTyped'
  BY <1>21 DEF UpdateActivity
<1>22. ASSUME NEW h \in Handlers, Calculate(h) PROVE InboxTyped'
  BY <1>22 DEF Calculate
<1>23. ASSUME NEW h \in Handlers, WriteFigure(h) PROVE InboxTyped'
  BY <1>23 DEF WriteFigure
<1>24. ASSUME NEW h \in Handlers, RebuildReads(h) PROVE InboxTyped'
  BY <1>24 DEF RebuildReads
<1>25. ASSUME NEW h \in Handlers, RebuildClears(h) PROVE InboxTyped'
  BY <1>25 DEF RebuildClears
<1>26. ASSUME NEW h \in Handlers, RebuildCommits(h) PROVE InboxTyped'
  BY <1>26 DEF RebuildCommits
<1>27. ASSUME NEW h \in Handlers, Halts(h) PROVE InboxTyped'
  BY <1>27 DEF Halts
<1>28. ASSUME NEW h \in Handlers, Accept(h) PROVE InboxTyped'
  <2>1. CASE Claimed(job[h].load)
    <3>1. docs' = [docs EXCEPT ![job[h].load] = [status |-> "accepted", record |-> Len(recs) + 1]]
      BY <1>28, <2>1 DEF Accept
    <3>2. Len(recs) + 1 \in Nat
      BY LenProperties DEF RecsTyped
    <3> QED
      BY <1>28, <3>1, <3>2 DEF Accept
  <2>2. CASE ~Claimed(job[h].load)
    BY <1>28, <2>2 DEF Accept
  <2> QED
    BY <2>1, <2>2
<1>29. ASSUME NEW h \in Handlers, Receive(h) PROVE InboxTyped'
  <2>1. CASE InTable(moves[job[h].load])
    <3>1. moves' = [moves EXCEPT ![job[h].load] = [status |-> "received", record |-> Len(recs) + 1]]
      BY <1>29, <2>1 DEF Receive
    <3>2. Len(recs) + 1 \in Nat
      BY LenProperties DEF RecsTyped
    <3> QED
      BY <1>29, <3>1, <3>2 DEF Receive
  <2>2. CASE ~InTable(moves[job[h].load])
    BY <1>29, <2>2 DEF Receive
  <2> QED
    BY <2>1, <2>2
<1>30. ASSUME NEW h \in Handlers, Delete(h) PROVE InboxTyped'
  BY <1>30 DEF Delete
<1>31. ASSUME NEW h \in Handlers, MarkWrites(h) PROVE InboxTyped'
  <2>1. job[h].load \in Moves /\ job[h].task \in MoveStatuses
    BY <1>31 DEF MarkWrites
  <2>2. [moves[job[h].load] EXCEPT !.status = job[h].task] \in [status : MoveStatuses, record : Nat]
    BY <2>1
  <2> QED
    BY <1>31, <2>1, <2>2 DEF MarkWrites
<1>32. ASSUME NEW h \in Handlers, UploadEnds(h) PROVE InboxTyped'
  BY <1>32 DEF UploadEnds
<1>33. ASSUME UNCHANGED vars PROVE InboxTyped'
  BY <1>33 DEF vars
<1>34. ASSUME ByHand PROVE InboxTyped'
  BY <1>34, ByHandLeaves
<1> QED
  BY <1>1, <1>2, <1>3, <1>4, <1>5, <1>6, <1>7, <1>8, <1>9, <1>10, <1>11, <1>12, <1>13,
     <1>14, <1>15, <1>16, <1>17, <1>18, <1>19, <1>20, <1>21, <1>22, <1>23, <1>24, <1>25,
     <1>26, <1>27, <1>28, <1>29, <1>30, <1>31, <1>32, <1>33,
     <1>34, HaltsEither
     DEF Next, Note, Bulk, Asks, Saves, Rebuild

LEMMA SeqWithOneChanged ==
    ASSUME NEW S, NEW s \in Seq(S), NEW i \in DOMAIN s, NEW x \in S
    PROVE  [s EXCEPT ![i] = x] \in Seq(S) /\ DOMAIN [s EXCEPT ![i] = x] = DOMAIN s
BY LenProperties

LEMMA AppendIs ==
    ASSUME NEW S, NEW s \in Seq(S), NEW x
    PROVE  /\ DOMAIN s = 1 .. Len(s) /\ DOMAIN Append(s, x) = 1 .. Len(s) + 1 /\ Len(s) \in Nat
           /\ Append(s, x)[Len(s) + 1] = x /\ \A i \in DOMAIN s : Append(s, x)[i] = s[i]
<1>1. s \in Seq(S \cup {x}) /\ x \in S \cup {x}
  BY LenProperties
<1>2. Append(s, x) \in Seq(S \cup {x}) /\ Len(Append(s, x)) = Len(s) + 1
  BY <1>1, AppendProperties
<1> QED
  BY <1>1, <1>2, AppendProperties, LenProperties

---------------------------------------------------------------------------
(* What writes by hand make of the records and the activity records. *)

RecKept(r) ==
    /\ r \in DOMAIN recs' /\ recs'[r].live = recs[r].live /\ recs'[r].from = recs[r].from
    /\ recs'[r].weight = recs[r].weight /\ recs'[r].period = recs[r].period
    /\ recs'[r].co2e = recs[r].co2e
    /\ recs'[r].sure => recs[r].sure /\ recs'[r].ref = recs[r].ref
    /\ recs'[r].link = recs[r].link \/ (recs'[r].link = 0 /\ r \in disturbed')
ActKept(a) ==
    /\ a \in DOMAIN acts' /\ acts'[a].of = acts[a].of /\ acts'[a].period = acts[a].period
    /\ acts'[a].row = acts[a].row
    /\ acts'[a].amended \/ (acts'[a].weight = acts[a].weight /\ ~acts[a].amended)
    /\ acts[a].approved \/ acts[a].reviewed => acts'[a].approved \/ acts'[a].reviewed
    /\ acts'[a].live = acts[a].live \/ \A r \in DOMAIN recs' : recs'[r].link # a
\* A field submission's record, and its activity record.
RecMade(r) ==
    /\ recs'[r].live /\ recs'[r].from = Form /\ ~recs'[r].sure
    /\ recs'[r].period \in Periods \cap spoiled' /\ r \in disturbed'
    /\ recs'[r].link \in DOMAIN acts' /\ acts'[recs'[r].link].of = r /\ acts'[recs'[r].link].live
ActMade(a) == acts'[a].of \in DOMAIN recs' \ DOMAIN recs /\ acts'[a].approved
HandWrites ==
    /\ recs' \in Seq(Rec) /\ acts' \in Seq(Act)
    /\ \A r \in DOMAIN recs : RecKept(r)
    /\ \A a \in DOMAIN acts : ActKept(a)
    /\ \A r \in DOMAIN recs' : r \in DOMAIN recs \/ RecMade(r)
    /\ \A a \in DOMAIN acts' : a \in DOMAIN acts \/ ActMade(a)

LEMMA AmendWrites ==
    ASSUME TypeInv, NEW a \in DOMAIN acts, AmendActivity(a)
    PROVE  HandWrites
<1>1. acts \in Seq(Act) /\ recs \in Seq(Rec) /\ acts[a] \in Act /\ recs' = recs
  BY ElementOfSeq DEF TypeInv, RecsTyped, AmendActivity
<1>2. PICK b \in Bodies : acts' = [acts EXCEPT ![a].weight = b.weight, ![a].amended = TRUE]
  BY DEF AmendActivity
<1> DEFINE new == [acts[a] EXCEPT !.weight = b.weight, !.amended = TRUE]
<1>3. acts' = [acts EXCEPT ![a] = new]
  BY <1>1, <1>2
<1>4. /\ new \in Act /\ new.of = acts[a].of /\ new.period = acts[a].period /\ new.amended
      /\ new.row = acts[a].row /\ new.live = acts[a].live /\ new.approved = acts[a].approved
      /\ new.reviewed = acts[a].reviewed
  BY <1>1, BodyAssumption DEF Act
<1> HIDE DEF new
<1>5. acts' \in Seq(Act) /\ DOMAIN acts' = DOMAIN acts
  BY <1>1, <1>3, <1>4, SeqWithOneChanged
<1>6. \A c \in DOMAIN acts : acts'[c] = IF c = a THEN new ELSE acts[c]
  BY <1>1, <1>3
<1>7. \A c \in DOMAIN acts : acts[c] \in Act
  BY <1>1, ElementOfSeq
<1>8. ASSUME NEW c \in DOMAIN acts PROVE ActKept(c)
  <2>1. CASE c = a
    BY <1>4, <1>5, <1>6, <2>1 DEF ActKept
  <2>2. CASE c # a
    BY <1>5, <1>6, <1>7, <2>2 DEF ActKept, Act
  <2> QED
    BY <2>1, <2>2
<1> QED
  BY <1>1, <1>5, <1>8 DEF HandWrites, RecKept

LEMMA ReviewWrites ==
    ASSUME TypeInv, NEW ids, ReviewActivities(ids)
    PROVE  HandWrites
<1>1. acts \in Seq(Act) /\ recs \in Seq(Rec) /\ recs' = recs
  BY DEF TypeInv, RecsTyped, ReviewActivities
<1>2. \A c \in DOMAIN acts : acts[c] \in Act
  BY <1>1, ElementOfSeq
<1>3. PICK v \in BOOLEAN :
         acts' = [c \in DOMAIN acts |-> IF c \in ids
                    THEN [acts[c] EXCEPT !.approved = v, !.reviewed = TRUE] ELSE acts[c]]
  BY DEF ReviewActivities
<1>4. DOMAIN acts' = DOMAIN acts /\ DOMAIN acts = 1 .. Len(acts) /\ Len(acts) \in Nat
  BY <1>1, <1>3, LenProperties
<1>5. ASSUME NEW c \in DOMAIN acts PROVE acts'[c] \in Act /\ ActKept(c)
  <2>1. CASE c \in ids
    <3>1. acts'[c] = [acts[c] EXCEPT !.approved = v, !.reviewed = TRUE] /\ acts[c] \in Act
      BY <1>2, <1>3, <2>1
    <3>2. /\ acts'[c] \in Act /\ acts'[c].of = acts[c].of /\ acts'[c].period = acts[c].period
          /\ acts'[c].row = acts[c].row /\ acts'[c].weight = acts[c].weight
          /\ acts'[c].amended = acts[c].amended /\ acts'[c].reviewed
          /\ acts'[c].live = acts[c].live
      BY <3>1 DEF Act
    <3> QED
      BY <1>4, <3>1, <3>2 DEF ActKept, Act
  <2>2. CASE c \notin ids
    <3>1. acts'[c] = acts[c] /\ acts[c] \in Act
      BY <1>2, <1>3, <2>2
    <3> QED
      BY <1>4, <3>1 DEF ActKept, Act
  <2> QED
    BY <2>1, <2>2
<1>6. acts' \in [1 .. Len(acts) -> Act]
  BY <1>3, <1>4, <1>5
<1>7. acts' \in Seq(Act)
  BY <1>4, <1>6, SeqDef
<1> QED
  BY <1>1, <1>4, <1>5, <1>7 DEF HandWrites, RecKept

LEMMA RemoveWrites ==
    ASSUME TypeInv, ActsInv, NEW a \in DOMAIN acts, RemoveActivity(a)
    PROVE  HandWrites
<1>0. PICK o : o = acts[a].of
  OBVIOUS
<1>1. /\ acts \in Seq(Act) /\ recs \in Seq(Rec) /\ acts[a] \in Act /\ o \in DOMAIN recs
      /\ recs[o] \in Rec /\ a # 0
  BY <1>0, ElementOfSeq, LenProperties DEF TypeInv, RecsTyped, ActsInv
<1> DEFINE new == [acts[a] EXCEPT !.live = FALSE]
           rec == [recs[o] EXCEPT !.link = IF recs[o].link = a THEN 0 ELSE recs[o].link]
<1>2. /\ acts' = [acts EXCEPT ![a] = new] /\ recs' = [recs EXCEPT ![o] = rec]
      /\ disturbed' = disturbed \cup {o}
  BY <1>0, <1>1 DEF RemoveActivity
<1>3. /\ new \in Act /\ new.of = acts[a].of /\ new.period = acts[a].period
      /\ new.amended = acts[a].amended /\ new.row = acts[a].row /\ new.weight = acts[a].weight
      /\ new.approved = acts[a].approved /\ new.reviewed = acts[a].reviewed
  BY <1>1 DEF Act
<1>4. /\ rec \in Rec /\ rec.live = recs[o].live /\ rec.from = recs[o].from
      /\ rec.weight = recs[o].weight /\ rec.period = recs[o].period /\ rec.co2e = recs[o].co2e
      /\ rec.sure = recs[o].sure /\ rec.ref = recs[o].ref /\ rec.link # a
      /\ rec.link \in {0, recs[o].link}
  BY <1>1 DEF Rec
<1> HIDE DEF new, rec
<1>5. /\ acts' \in Seq(Act) /\ DOMAIN acts' = DOMAIN acts
      /\ recs' \in Seq(Rec) /\ DOMAIN recs' = DOMAIN recs
  BY <1>1, <1>2, <1>3, <1>4, SeqWithOneChanged
<1>6. /\ \A c \in DOMAIN acts : acts'[c] = IF c = a THEN new ELSE acts[c]
      /\ \A r \in DOMAIN recs : recs'[r] = IF r = o THEN rec ELSE recs[r]
  BY <1>1, <1>2
<1>7. \A r \in DOMAIN recs : RecKept(r)
  BY <1>2, <1>4, <1>5, <1>6 DEF RecKept
<1>8. \A r \in DOMAIN recs : r # o => recs[r].link # a
  BY <1>0, <1>1 DEF ActsInv
<1>9. \A r \in DOMAIN recs' : recs'[r].link # a
  BY <1>4, <1>5, <1>6, <1>8
<1>10. \A c \in DOMAIN acts : acts[c] \in Act
  BY <1>1, ElementOfSeq
<1>11. ASSUME NEW c \in DOMAIN acts PROVE ActKept(c)
  <2>1. CASE c = a
    BY <1>1, <1>3, <1>5, <1>6, <1>9, <2>1 DEF ActKept, Act
  <2>2. CASE c # a
    BY <1>5, <1>6, <1>10, <2>2 DEF ActKept, Act
  <2> QED
    BY <2>1, <2>2
<1> QED
  BY <1>5, <1>7, <1>11 DEF HandWrites

LEMMA TicketWrites ==
    ASSUME TypeInv, NEW b \in Bodies, ApproveTicket(b)
    PROVE  HandWrites
<1>0. PICK n, k : n = Len(recs) + 1 /\ k = Len(acts) + 1
  OBVIOUS
<1>1. acts \in Seq(Act) /\ recs \in Seq(Rec) /\ n \in Nat \ {0} /\ k \in Nat \ {0}
  BY <1>0, LenProperties DEF TypeInv, RecsTyped
<1> DEFINE rec == [Row(Form, FALSE, b) EXCEPT !.link = k]
           new == Entry(n, b.weight, b.period, FALSE)
<1>2. /\ acts' = Append(acts, new) /\ recs' = Append(recs, rec)
      /\ disturbed' = disturbed \cup {n} /\ spoiled' = spoiled \cup {b.period}
  BY <1>0 DEF ApproveTicket
<1>3. b.weight \in Nat /\ b.period \in Periods
  BY BodyAssumption
<1>4. new \in Act /\ new.of = n /\ new.live /\ new.approved
  BY <1>1, <1>3 DEF Act, Entry, Days
<1>5. /\ rec \in Rec /\ rec.live /\ rec.from = Form /\ ~rec.sure /\ rec.period = b.period
      /\ rec.link = k
  <2>1. Row(Form, FALSE, b) \in Rec
    BY <1>3 DEF Row, Rec, Loads, Refs, Days
  <2> QED
    BY <1>1, <2>1 DEF Row, Rec
<1> HIDE DEF new, rec
<1>6. /\ DOMAIN acts = 1 .. Len(acts) /\ DOMAIN acts' = 1 .. k /\ acts'[k] = new
      /\ \A c \in DOMAIN acts : acts'[c] = acts[c]
  BY <1>0, <1>1, <1>2, AppendIs
<1>7. /\ DOMAIN recs = 1 .. Len(recs) /\ DOMAIN recs' = 1 .. n /\ recs'[n] = rec
      /\ \A r \in DOMAIN recs : recs'[r] = recs[r]
  BY <1>0, <1>1, <1>2, AppendIs
<1>8. /\ \A c \in DOMAIN acts : c \in DOMAIN acts' /\ acts[c] \in Act
      /\ \A c \in DOMAIN acts' : c \in DOMAIN acts \/ c = k
      /\ k \in DOMAIN acts'
  BY <1>0, <1>1, <1>6, ElementOfSeq
<1>9. /\ \A r \in DOMAIN recs : r \in DOMAIN recs'
      /\ \A r \in DOMAIN recs' : r \in DOMAIN recs \/ r = n
      /\ n \in DOMAIN recs' \ DOMAIN recs
  BY <1>0, <1>1, <1>7
<1>10. \A c \in DOMAIN acts : ActKept(c)
  BY <1>6, <1>8 DEF ActKept, Act
<1>11. \A r \in DOMAIN recs : RecKept(r)
  BY <1>7, <1>9 DEF RecKept
<1>12. RecMade(n) /\ ActMade(k)
  BY <1>2, <1>3, <1>4, <1>5, <1>6, <1>7, <1>8, <1>9 DEF RecMade, ActMade
<1>13. acts' \in Seq(Act) /\ recs' \in Seq(Rec)
  BY <1>1, <1>2, <1>4, <1>5, AppendProperties
<1> QED
  BY <1>8, <1>9, <1>10, <1>11, <1>12, <1>13 DEF HandWrites

LEMMA MoveWrites ==
    ASSUME TypeInv, NEW m \in Moves, UpdateMove(m)
    PROVE  HandWrites
<1>0. PICK o : o = moves[m].record
  OBVIOUS
<1>1. /\ acts \in Seq(Act) /\ recs \in Seq(Rec) /\ o \in DOMAIN recs /\ recs[o] \in Rec
      /\ acts' = acts
  BY <1>0, ElementOfSeq DEF TypeInv, RecsTyped, UpdateMove, LiveRecords
<1>2. PICK b \in Bodies :
         recs' = [recs EXCEPT ![o].ref = b.ref, ![o].sure = @ /\ recs[o].ref = b.ref]
  BY <1>0 DEF UpdateMove
<1> DEFINE x == recs[o].sure /\ recs[o].ref = b.ref
           rec == [recs[o] EXCEPT !.ref = b.ref, !.sure = x]
<1>3. recs' = [recs EXCEPT ![o] = rec] /\ x \in BOOLEAN
  BY <1>1, <1>2 DEF Rec
<1> HIDE DEF x
<1>4. /\ rec \in Rec /\ rec.live = recs[o].live /\ rec.from = recs[o].from
      /\ rec.weight = recs[o].weight /\ rec.period = recs[o].period /\ rec.co2e = recs[o].co2e
      /\ rec.link = recs[o].link /\ rec.sure = x /\ rec.ref = b.ref
  BY <1>1, <1>3 DEF Rec, Refs
<1> HIDE DEF rec
<1>5. recs' \in Seq(Rec) /\ DOMAIN recs' = DOMAIN recs
  BY <1>1, <1>3, <1>4, SeqWithOneChanged
<1>6. \A r \in DOMAIN recs : recs'[r] = IF r = o THEN rec ELSE recs[r]
  BY <1>1, <1>3
<1>7. rec.sure => recs[o].sure /\ rec.ref = recs[o].ref
  BY <1>4 DEF x
<1>8. \A r \in DOMAIN recs : RecKept(r)
  BY <1>4, <1>5, <1>6, <1>7 DEF RecKept
<1>9. \A c \in DOMAIN acts : acts[c] \in Act
  BY <1>1, ElementOfSeq
<1>10. \A c \in DOMAIN acts : ActKept(c)
  BY <1>1, <1>9 DEF ActKept, Act
<1> QED
  BY <1>1, <1>5, <1>8, <1>10 DEF HandWrites

LEMMA ByHandWrites ==
    ASSUME TypeInv, ActsInv, ByHand
    PROVE  HandWrites
BY AmendWrites, RemoveWrites, ReviewWrites, TicketWrites, MoveWrites DEF ByHand

LEMMA ByHandTyped ==
    ASSUME TypeInv, ActsInv, ByHand
    PROVE  RecsTyped'
<1>1. HandWrites
  BY ByHandWrites
<1>2. ASSUME NEW r \in DOMAIN recs', recs'[r].live PROVE recs'[r].period \in Periods
  BY <1>1, <1>2 DEF HandWrites, RecKept, RecMade, TypeInv, RecsTyped, Live
<1> QED
  BY <1>1, <1>2 DEF HandWrites, RecsTyped, Live

LEMMA RecsTypedStep ==
    ASSUME TypeInv, ActsInv, [Next]_vars
    PROVE  RecsTyped'
<1> USE DEF TypeInv, RecsTyped, JobsTyped, At, Stop, Live, tables, inbox, history
<1>1. ASSUME NEW d \in Docs, Submit(d) PROVE RecsTyped'
  BY <1>1 DEF Submit
<1>2. ASSUME NEW d \in Docs, Decide(d) PROVE RecsTyped'
  BY <1>2 DEF Decide
<1>3. ASSUME NEW d \in Docs, RemoveNote(d) PROVE RecsTyped'
  BY <1>3 DEF RemoveNote
<1>4. ASSUME NEW m \in Moves, RemoveMove(m) PROVE RecsTyped'
  BY <1>4 DEF RemoveMove
<1>5. ASSUME NEW h \in Handlers, BulkFind(h) PROVE RecsTyped'
  BY <1>5 DEF BulkFind
<1>6. ASSUME NEW h \in Handlers, BulkWaiting(h) PROVE RecsTyped'
  BY <1>6 DEF BulkWaiting
<1>7. ASSUME NEW h \in Handlers, BulkSeen(h) PROVE RecsTyped'
  BY <1>7 DEF BulkSeen
<1>8. ASSUME NEW h \in Handlers, BulkPick(h) PROVE RecsTyped'
  BY <1>8 DEF BulkPick
<1>9. ASSUME NEW h \in Handlers, NEW b \in Bodies, Create(h, b) PROVE RecsTyped'
  <2>1. Form \in Loads /\ FALSE \in BOOLEAN
    BY DEF Loads
  <2>2. /\ DOMAIN recs' = 1 .. Len(recs) + 1 /\ recs'[Len(recs) + 1] = Row(Form, FALSE, b)
        /\ DOMAIN recs = 1 .. Len(recs) /\ recs' \in Seq(Rec) /\ b.period \in Periods
        /\ \A r \in DOMAIN recs : recs'[r] = recs[r]
    BY <1>9, <2>1, InsertTurns, BodyAssumption DEF Create
  <2>3. acts' \in Seq(Act)
    BY <1>9 DEF Create
  <2>4. Row(Form, FALSE, b).live /\ Row(Form, FALSE, b).period = b.period
    BY DEF Row
  <2>5. ASSUME NEW r \in DOMAIN recs', recs'[r].live PROVE recs'[r].period \in Periods
    <3>1. r \in DOMAIN recs \/ r = Len(recs) + 1
      BY <2>2, LenProperties
    <3> QED
      BY <2>2, <2>4, <2>5, <3>1
  <2> QED
    BY <2>2, <2>3, <2>5
<1>10. ASSUME NEW h \in Handlers, NEW b \in Bodies, UploadRow(h, b) PROVE RecsTyped'
  <2>1. Form \in Loads /\ FALSE \in BOOLEAN
    BY DEF Loads
  <2>2. /\ DOMAIN recs' = 1 .. Len(recs) + 1 /\ recs'[Len(recs) + 1] = Row(Form, FALSE, b)
        /\ DOMAIN recs = 1 .. Len(recs) /\ recs' \in Seq(Rec) /\ b.period \in Periods
        /\ \A r \in DOMAIN recs : recs'[r] = recs[r]
    BY <1>10, <2>1, InsertTurns, BodyAssumption DEF UploadRow
  <2>3. acts' \in Seq(Act)
    BY <1>10 DEF UploadRow
  <2>4. Row(Form, FALSE, b).live /\ Row(Form, FALSE, b).period = b.period
    BY DEF Row
  <2>5. ASSUME NEW r \in DOMAIN recs', recs'[r].live PROVE recs'[r].period \in Periods
    <3>1. r \in DOMAIN recs \/ r = Len(recs) + 1
      BY <2>2, LenProperties
    <3> QED
      BY <2>2, <2>4, <2>5, <3>1
  <2> QED
    BY <2>2, <2>3, <2>5
<1>11. ASSUME NEW h \in Handlers, NEW b \in Bodies, Edit(h, b) PROVE RecsTyped'
  <2>1. CASE Live(job[h].rec)
    <3> DEFINE new == [recs[job[h].rec] EXCEPT !.ref = b.ref, !.weight = b.weight,
                       !.period = b.period,
                       !.sure = @ /\ recs[job[h].rec].ref = b.ref]
    <3>1. recs' = [recs EXCEPT ![job[h].rec] = new] /\ UNCHANGED acts
      BY <1>11, <2>1 DEF Edit
    <3>2. job[h].rec \in DOMAIN recs /\ recs[job[h].rec] \in Rec /\ job[h].saw \in Seen
      BY <1>11, ElementOfSeq DEF PlacesTyped, Placed, Edit, SaveSteps, Job
    <3>3. new \in Rec /\ (new.live => new.period \in Periods)
      BY <2>1, <3>2, BodyAssumption DEF Rec, Seen, Days, Refs, Job
    <3> HIDE DEF Live
    <3>4. recs' \in Seq(Rec) /\ DOMAIN recs' = DOMAIN recs
      BY <3>1, <3>2, <3>3, SeqWithOneChanged
    <3>5. \A r \in DOMAIN recs : recs'[r] = IF r = job[h].rec THEN new ELSE recs[r]
      BY <3>1
    <3> QED
      BY <2>1, <3>1, <3>3, <3>4, <3>5 DEF Live
  <2>2. CASE ~Live(job[h].rec)
    BY <1>11, <2>2 DEF Edit
  <2> QED
    BY <2>1, <2>2
<1>12. ASSUME NEW h \in Handlers, NEW b \in Bodies, NEW d \in Docs, Review(h, d, b)
        PROVE  RecsTyped'
  BY <1>12 DEF Review
<1>13. ASSUME NEW h \in Handlers, NEW b \in Bodies, NEW m \in Moves, ReceiveLoad(h, m, b)
        PROVE  RecsTyped'
  BY <1>13 DEF ReceiveLoad
<1>14. ASSUME NEW h \in Handlers, NEW r \in DOMAIN recs, NEW step \in {"edit", "delete"},
              Open(h, r, step)
        PROVE  RecsTyped'
  BY <1>14 DEF Open
<1>15. ASSUME NEW h \in Handlers, NEW p \in Periods, SaveWater(h, p) PROVE RecsTyped'
  BY <1>15 DEF SaveWater
<1>16. ASSUME NEW h \in Handlers, NEW m \in Moves, Mark(h, m) PROVE RecsTyped'
  BY <1>16 DEF Mark
<1>17. ASSUME NEW h \in Handlers, Upload(h) PROVE RecsTyped'
  BY <1>17 DEF Upload
<1>18. ASSUME NEW h \in Handlers, SyncRead(h) PROVE RecsTyped'
  BY <1>18 DEF SyncRead
<1>19. ASSUME NEW h \in Handlers, MakeActivity(h) PROVE RecsTyped'
  <2> DEFINE new == Entry(job[h].rec, job[h].saw.weight, job[h].saw.period, FALSE)
  <2>1. new \in Act
    BY <1>19 DEF PlacesTyped, Placed, MakeActivity, SaveSteps, Job, Seen, Act, Days, Entry
  <2>2. acts' = Append(acts, new)
    BY <1>19 DEF MakeActivity
  <2> HIDE DEF new
  <2>3. acts' \in Seq(Act)
    BY <2>1, <2>2, AppendProperties
  <2> QED
    BY <1>19, <2>3 DEF MakeActivity
<1>20. ASSUME NEW h \in Handlers, LinkActivity(h) PROVE RecsTyped'
  <2>1. CASE Live(job[h].rec)
    <3> DEFINE new == [recs[job[h].rec] EXCEPT !.link = job[h].act]
    <3>1. recs' = [recs EXCEPT ![job[h].rec] = new] /\ UNCHANGED acts
      BY <1>20, <2>1 DEF LinkActivity
    <3>2. job[h].rec \in DOMAIN recs /\ recs[job[h].rec] \in Rec /\ job[h].saw \in Seen
      BY <1>20, ElementOfSeq DEF PlacesTyped, Placed, LinkActivity, SaveSteps, Job
    <3>3. new \in Rec /\ (new.live => new.period \in Periods)
      BY <2>1, <3>2 DEF Rec, Seen, Days, Refs, Job
    <3> HIDE DEF Live
    <3>4. recs' \in Seq(Rec) /\ DOMAIN recs' = DOMAIN recs
      BY <3>1, <3>2, <3>3, SeqWithOneChanged
    <3>5. \A r \in DOMAIN recs : recs'[r] = IF r = job[h].rec THEN new ELSE recs[r]
      BY <3>1
    <3> QED
      BY <2>1, <3>1, <3>3, <3>4, <3>5 DEF Live
  <2>2. CASE ~Live(job[h].rec)
    BY <1>20, <2>2 DEF LinkActivity
  <2> QED
    BY <2>1, <2>2
<1>21. ASSUME NEW h \in Handlers, UpdateActivity(h) PROVE RecsTyped'
  <2> DEFINE link == job[h].saw.link
           new == Restated(link, job[h].saw)
  <2>1. link \in DOMAIN acts /\ job[h] \in Job /\ acts' = [acts EXCEPT ![link] = new]
    BY <1>21 DEF UpdateActivity, ActsInv
  <2>2. acts[link] \in Act
    BY <2>1, ElementOfSeq
  <2>3. new \in Act
    BY <2>1, <2>2 DEF Restated, Act, Job, Seen
  <2>4. acts' \in Seq(Act)
    BY <2>1, <2>3, SeqWithOneChanged
  <2> QED
    BY <1>21, <2>4 DEF UpdateActivity
<1>22. ASSUME NEW h \in Handlers, Calculate(h) PROVE RecsTyped'
  <2> DEFINE act == job[h].act
           new == [acts[act] EXCEPT !.row = TRUE]
  <2>1. act \in DOMAIN acts /\ acts' = [acts EXCEPT ![act] = new]
    BY <1>22 DEF Calculate, ActsInv
  <2>2. acts[act] \in Act
    BY <2>1, ElementOfSeq
  <2>3. new \in Act
    BY <2>2 DEF Act
  <2>4. acts' \in Seq(Act)
    BY <2>1, <2>3, SeqWithOneChanged
  <2> QED
    BY <1>22, <2>4 DEF Calculate
<1>23. ASSUME NEW h \in Handlers, WriteFigure(h) PROVE RecsTyped'
  <2>1. CASE Live(job[h].rec)
    <3> DEFINE new == [recs[job[h].rec] EXCEPT !.co2e = job[h].saw.weight]
    <3>1. recs' = [recs EXCEPT ![job[h].rec] = new] /\ UNCHANGED acts
      BY <1>23, <2>1 DEF WriteFigure
    <3>2. job[h].rec \in DOMAIN recs /\ recs[job[h].rec] \in Rec /\ job[h].saw \in Seen
      BY <1>23, ElementOfSeq DEF PlacesTyped, Placed, WriteFigure, SaveSteps, Job
    <3>3. new \in Rec /\ (new.live => new.period \in Periods)
      BY <2>1, <3>2 DEF Rec, Seen, Days, Refs, Job
    <3> HIDE DEF Live
    <3>4. recs' \in Seq(Rec) /\ DOMAIN recs' = DOMAIN recs
      BY <3>1, <3>2, <3>3, SeqWithOneChanged
    <3>5. \A r \in DOMAIN recs : recs'[r] = IF r = job[h].rec THEN new ELSE recs[r]
      BY <3>1
    <3> QED
      BY <2>1, <3>1, <3>3, <3>4, <3>5 DEF Live
  <2>2. CASE ~Live(job[h].rec)
    BY <1>23, <2>2 DEF WriteFigure
  <2> QED
    BY <2>1, <2>2
<1>24. ASSUME NEW h \in Handlers, RebuildReads(h) PROVE RecsTyped'
  BY <1>24 DEF RebuildReads
<1>25. ASSUME NEW h \in Handlers, RebuildClears(h) PROVE RecsTyped'
  BY <1>25 DEF RebuildClears
<1>26. ASSUME NEW h \in Handlers, RebuildCommits(h) PROVE RecsTyped'
  BY <1>26 DEF RebuildCommits
<1>27. ASSUME NEW h \in Handlers, Halts(h) PROVE RecsTyped'
  BY <1>27 DEF Halts
<1>28. ASSUME NEW h \in Handlers, Accept(h) PROVE RecsTyped'
  <2>1. CASE Claimed(job[h].load)
    <3> DEFINE sure == job[h].task = "bulk" /\ docs[job[h].load].status = "pending"
    <3>1. /\ job[h].load \in Loads /\ sure \in BOOLEAN
          /\ job[h].body \in Bodies /\ job[h].body.period \in Periods
      BY <1>28, BodyAssumption DEF Loads, Accept, PlacesTyped, Placed
    <3>2. Insert(h, job[h].load, job[h].body, sure)
      BY <1>28, <2>1 DEF Accept
    <3>3. /\ DOMAIN recs' = 1 .. Len(recs) + 1
          /\ recs'[Len(recs) + 1] = Row(job[h].load, sure, job[h].body)
          /\ DOMAIN recs = 1 .. Len(recs) /\ recs' \in Seq(Rec)
          /\ \A r \in DOMAIN recs : recs'[r] = recs[r]
      BY <3>1, <3>2, InsertTurns
    <3>4. acts' \in Seq(Act)
      BY <1>28 DEF Accept
    <3> QED
      BY <3>1, <3>3, <3>4 DEF Row
  <2>2. CASE ~Claimed(job[h].load)
    BY <1>28, <2>2 DEF Accept
  <2> QED
    BY <2>1, <2>2
<1>29. ASSUME NEW h \in Handlers, Receive(h) PROVE RecsTyped'
  <2>1. CASE InTable(moves[job[h].load])
    <3>1. /\ job[h].load \in Loads /\ FALSE \in BOOLEAN
          /\ job[h].body \in Bodies /\ job[h].body.period \in Periods
      BY <1>29, BodyAssumption DEF Loads, Receive, PlacesTyped, Placed
    <3>2. Insert(h, job[h].load, job[h].body, FALSE)
      BY <1>29, <2>1 DEF Receive
    <3>3. /\ DOMAIN recs' = 1 .. Len(recs) + 1
          /\ recs'[Len(recs) + 1] = Row(job[h].load, FALSE, job[h].body)
          /\ DOMAIN recs = 1 .. Len(recs) /\ recs' \in Seq(Rec)
          /\ \A r \in DOMAIN recs : recs'[r] = recs[r]
      BY <3>1, <3>2, InsertTurns
    <3>4. acts' \in Seq(Act)
      BY <1>29 DEF Receive
    <3> QED
      BY <3>1, <3>3, <3>4 DEF Row
  <2>2. CASE ~InTable(moves[job[h].load])
    BY <1>29, <2>2 DEF Receive
  <2> QED
    BY <2>1, <2>2
<1>30. ASSUME NEW h \in Handlers, Delete(h) PROVE RecsTyped'
  <2>1. CASE Live(job[h].rec)
    <3> DEFINE new == [live |-> FALSE, from |-> recs[job[h].rec].from, sure |-> FALSE, ref |-> NoRef,
                       weight |-> 0, period |-> 0, link |-> 0, co2e |-> 0]
    <3>1. recs' = [recs EXCEPT ![job[h].rec] = new] /\ UNCHANGED acts
      BY <1>30, <2>1 DEF Delete
    <3>2. job[h].rec \in DOMAIN recs /\ recs[job[h].rec] \in Rec /\ job[h].saw \in Seen
      BY <1>30, ElementOfSeq DEF PlacesTyped, Placed, Delete, SaveSteps, Job
    <3>3. new \in Rec /\ (new.live => new.period \in Periods)
      BY <2>1, <3>2 DEF Rec, Seen, Days, Refs, Job
    <3> HIDE DEF Live
    <3>4. recs' \in Seq(Rec) /\ DOMAIN recs' = DOMAIN recs
      BY <3>1, <3>2, <3>3, SeqWithOneChanged
    <3>5. \A r \in DOMAIN recs : recs'[r] = IF r = job[h].rec THEN new ELSE recs[r]
      BY <3>1
    <3> QED
      BY <2>1, <3>1, <3>3, <3>4, <3>5 DEF Live
  <2>2. CASE ~Live(job[h].rec)
    BY <1>30, <2>2 DEF Delete
  <2> QED
    BY <2>1, <2>2
<1>31. ASSUME NEW h \in Handlers, MarkWrites(h) PROVE RecsTyped'
  BY <1>31 DEF MarkWrites
<1>32. ASSUME NEW h \in Handlers, UploadEnds(h) PROVE RecsTyped'
  BY <1>32 DEF UploadEnds
<1>33. ASSUME UNCHANGED vars PROVE RecsTyped'
  BY <1>33 DEF vars
<1>34. ASSUME ByHand PROVE RecsTyped'
  BY <1>34, ByHandTyped
<1> QED
  BY <1>1, <1>2, <1>3, <1>4, <1>5, <1>6, <1>7, <1>8, <1>9, <1>10, <1>11, <1>12, <1>13,
     <1>14, <1>15, <1>16, <1>17, <1>18, <1>19, <1>20, <1>21, <1>22, <1>23, <1>24, <1>25,
     <1>26, <1>27, <1>28, <1>29, <1>30, <1>31, <1>32, <1>33,
     <1>34, HaltsEither
     DEF Next, Note, Bulk, Asks, Saves, Rebuild

---------------------------------------------------------------------------
(* The records only grow in number, and keep where they come from. *)

RecsGrow ==
    /\ DOMAIN recs \subseteq DOMAIN recs'
    /\ \A r \in DOMAIN recs : recs'[r].from = recs[r].from

LEMMA InsertGrows ==
    ASSUME TypeInv, NEW h \in Handlers, NEW b \in Bodies, NEW from \in Loads, NEW sure \in BOOLEAN,
           Insert(h, from, b, sure)
    PROVE  RecsGrow
<1>1. /\ Len(recs) \in Nat /\ DOMAIN recs = 1 .. Len(recs) /\ DOMAIN recs' = 1 .. Len(recs) + 1
      /\ \A r \in DOMAIN recs : recs'[r] = recs[r]
  BY InsertTurns
<1>2. \A n \in Nat : 1 .. n \subseteq 1 .. n + 1
  OBVIOUS
<1> QED
  BY <1>1, <1>2 DEF RecsGrow

LEMMA RecsGrowStep ==
    ASSUME TypeInv, ActsInv, [Next]_vars
    PROVE  RecsGrow
<1> USE DEF RecsGrow, tables, inbox, history
<1>1. ASSUME NEW d \in Docs, Submit(d) PROVE RecsGrow
  BY <1>1 DEF Submit
<1>2. ASSUME NEW d \in Docs, Decide(d) PROVE RecsGrow
  BY <1>2 DEF Decide
<1>3. ASSUME NEW d \in Docs, RemoveNote(d) PROVE RecsGrow
  BY <1>3 DEF RemoveNote
<1>4. ASSUME NEW m \in Moves, RemoveMove(m) PROVE RecsGrow
  BY <1>4 DEF RemoveMove
<1>5. ASSUME NEW h \in Handlers, BulkFind(h) PROVE RecsGrow
  BY <1>5 DEF BulkFind
<1>6. ASSUME NEW h \in Handlers, BulkWaiting(h) PROVE RecsGrow
  BY <1>6 DEF BulkWaiting
<1>7. ASSUME NEW h \in Handlers, BulkSeen(h) PROVE RecsGrow
  BY <1>7 DEF BulkSeen
<1>8. ASSUME NEW h \in Handlers, BulkPick(h) PROVE RecsGrow
  BY <1>8 DEF BulkPick
<1>9. ASSUME NEW h \in Handlers, NEW b \in Bodies, Create(h, b) PROVE RecsGrow
  <2>1. Form \in Loads /\ FALSE \in BOOLEAN /\ Insert(h, Form, b, FALSE)
    BY <1>9 DEF Loads, Create
  <2> QED
    BY <2>1, InsertGrows
<1>10. ASSUME NEW h \in Handlers, NEW b \in Bodies, UploadRow(h, b) PROVE RecsGrow
  <2>1. Form \in Loads /\ FALSE \in BOOLEAN /\ Insert(h, Form, b, FALSE)
    BY <1>10 DEF Loads, UploadRow
  <2> QED
    BY <2>1, InsertGrows
<1>11. ASSUME NEW h \in Handlers, NEW b \in Bodies, Edit(h, b) PROVE RecsGrow
  <2>1. CASE Live(job[h].rec)
    <3> DEFINE new == [recs[job[h].rec] EXCEPT !.ref = b.ref, !.weight = b.weight,
                       !.period = b.period,
                       !.sure = @ /\ recs[job[h].rec].ref = b.ref]
    <3>1. recs' = [recs EXCEPT ![job[h].rec] = new]
      BY <1>11, <2>1 DEF Edit
    <3>2. recs[job[h].rec] \in Rec
      BY <1>11, ElementOfSeq DEF TypeInv, PlacesTyped, Placed, Edit, SaveSteps, At, RecsTyped
    <3>3. new.from = recs[job[h].rec].from
      BY <3>2 DEF Rec
    <3> QED
      BY <3>1, <3>3
  <2>2. CASE ~Live(job[h].rec)
    BY <1>11, <2>2 DEF Edit
  <2> QED
    BY <2>1, <2>2
<1>12. ASSUME NEW h \in Handlers, NEW b \in Bodies, NEW d \in Docs, Review(h, d, b) PROVE RecsGrow
  BY <1>12 DEF Review
<1>13. ASSUME NEW h \in Handlers, NEW b \in Bodies, NEW m \in Moves, ReceiveLoad(h, m, b)
        PROVE  RecsGrow
  BY <1>13 DEF ReceiveLoad
<1>14. ASSUME NEW h \in Handlers, NEW r \in DOMAIN recs, NEW step \in {"edit", "delete"},
              Open(h, r, step)
        PROVE  RecsGrow
  BY <1>14 DEF Open
<1>15. ASSUME NEW h \in Handlers, NEW p \in Periods, SaveWater(h, p) PROVE RecsGrow
  BY <1>15 DEF SaveWater
<1>16. ASSUME NEW h \in Handlers, NEW m \in Moves, Mark(h, m) PROVE RecsGrow
  BY <1>16 DEF Mark
<1>17. ASSUME NEW h \in Handlers, Upload(h) PROVE RecsGrow
  BY <1>17 DEF Upload
<1>18. ASSUME NEW h \in Handlers, SyncRead(h) PROVE RecsGrow
  BY <1>18 DEF SyncRead
<1>19. ASSUME NEW h \in Handlers, MakeActivity(h) PROVE RecsGrow
  BY <1>19 DEF MakeActivity
<1>20. ASSUME NEW h \in Handlers, LinkActivity(h) PROVE RecsGrow
  <2>1. CASE Live(job[h].rec)
    <3> DEFINE new == [recs[job[h].rec] EXCEPT !.link = job[h].act]
    <3>1. recs' = [recs EXCEPT ![job[h].rec] = new]
      BY <1>20, <2>1 DEF LinkActivity
    <3>2. recs[job[h].rec] \in Rec
      BY <1>20, ElementOfSeq DEF TypeInv, PlacesTyped, Placed, LinkActivity, SaveSteps, At,
         RecsTyped
    <3>3. new.from = recs[job[h].rec].from
      BY <3>2 DEF Rec
    <3> QED
      BY <3>1, <3>3
  <2>2. CASE ~Live(job[h].rec)
    BY <1>20, <2>2 DEF LinkActivity
  <2> QED
    BY <2>1, <2>2
<1>21. ASSUME NEW h \in Handlers, UpdateActivity(h) PROVE RecsGrow
  BY <1>21 DEF UpdateActivity
<1>22. ASSUME NEW h \in Handlers, Calculate(h) PROVE RecsGrow
  BY <1>22 DEF Calculate
<1>23. ASSUME NEW h \in Handlers, WriteFigure(h) PROVE RecsGrow
  <2>1. CASE Live(job[h].rec)
    <3> DEFINE new == [recs[job[h].rec] EXCEPT !.co2e = job[h].saw.weight]
    <3>1. recs' = [recs EXCEPT ![job[h].rec] = new]
      BY <1>23, <2>1 DEF WriteFigure
    <3>2. recs[job[h].rec] \in Rec
      BY <1>23, ElementOfSeq DEF TypeInv, PlacesTyped, Placed, WriteFigure, SaveSteps, At, RecsTyped
    <3>3. new.from = recs[job[h].rec].from
      BY <3>2 DEF Rec
    <3> QED
      BY <3>1, <3>3
  <2>2. CASE ~Live(job[h].rec)
    BY <1>23, <2>2 DEF WriteFigure
  <2> QED
    BY <2>1, <2>2
<1>24. ASSUME NEW h \in Handlers, RebuildReads(h) PROVE RecsGrow
  BY <1>24 DEF RebuildReads
<1>25. ASSUME NEW h \in Handlers, RebuildClears(h) PROVE RecsGrow
  BY <1>25 DEF RebuildClears
<1>26. ASSUME NEW h \in Handlers, RebuildCommits(h) PROVE RecsGrow
  BY <1>26 DEF RebuildCommits
<1>27. ASSUME NEW h \in Handlers, Halts(h) PROVE RecsGrow
  BY <1>27 DEF Halts
<1>28. ASSUME NEW h \in Handlers, Accept(h) PROVE RecsGrow
  <2>1. CASE Claimed(job[h].load)
    <3> DEFINE sure == job[h].task = "bulk" /\ docs[job[h].load].status = "pending"
    <3>1. /\ job[h].load \in Loads /\ sure \in BOOLEAN /\ job[h].body \in Bodies
      BY <1>28, <2>1 DEF TypeInv, Loads, Accept, PlacesTyped, Placed, At
    <3>2. Insert(h, job[h].load, job[h].body, sure)
      BY <1>28, <2>1 DEF Accept
    <3> QED
      BY <3>1, <3>2, InsertGrows
  <2>2. CASE ~Claimed(job[h].load)
    BY <1>28, <2>2 DEF Accept
  <2> QED
    BY <2>1, <2>2
<1>29. ASSUME NEW h \in Handlers, Receive(h) PROVE RecsGrow
  <2>1. CASE InTable(moves[job[h].load])
    <3>1. /\ job[h].load \in Loads /\ FALSE \in BOOLEAN /\ job[h].body \in Bodies
      BY <1>29, <2>1 DEF TypeInv, Loads, Receive, PlacesTyped, Placed, At
    <3>2. Insert(h, job[h].load, job[h].body, FALSE)
      BY <1>29, <2>1 DEF Receive
    <3> QED
      BY <3>1, <3>2, InsertGrows
  <2>2. CASE ~InTable(moves[job[h].load])
    BY <1>29, <2>2 DEF Receive
  <2> QED
    BY <2>1, <2>2
<1>30. ASSUME NEW h \in Handlers, Delete(h) PROVE RecsGrow
  <2>1. CASE Live(job[h].rec)
    <3> DEFINE new == [live |-> FALSE, from |-> recs[job[h].rec].from, sure |-> FALSE, ref |-> NoRef,
                       weight |-> 0, period |-> 0, link |-> 0, co2e |-> 0]
    <3>1. recs' = [recs EXCEPT ![job[h].rec] = new]
      BY <1>30, <2>1 DEF Delete
    <3>2. recs[job[h].rec] \in Rec
      BY <1>30, ElementOfSeq DEF TypeInv, PlacesTyped, Placed, Delete, SaveSteps, At, RecsTyped
    <3>3. new.from = recs[job[h].rec].from
      BY <3>2 DEF Rec
    <3> QED
      BY <3>1, <3>3
  <2>2. CASE ~Live(job[h].rec)
    BY <1>30, <2>2 DEF Delete
  <2> QED
    BY <2>1, <2>2
<1>31. ASSUME NEW h \in Handlers, MarkWrites(h) PROVE RecsGrow
  BY <1>31 DEF MarkWrites
<1>32. ASSUME NEW h \in Handlers, UploadEnds(h) PROVE RecsGrow
  BY <1>32 DEF UploadEnds
<1>33. ASSUME UNCHANGED vars PROVE RecsGrow
  BY <1>33 DEF vars
<1>34. ASSUME ByHand PROVE RecsGrow
  BY <1>34, ByHandWrites DEF HandWrites, RecKept
<1> QED
  BY <1>1, <1>2, <1>3, <1>4, <1>5, <1>6, <1>7, <1>8, <1>9, <1>10, <1>11, <1>12, <1>13,
     <1>14, <1>15, <1>16, <1>17, <1>18, <1>19, <1>20, <1>21, <1>22, <1>23, <1>24, <1>25,
     <1>26, <1>27, <1>28, <1>29, <1>30, <1>31, <1>32, <1>33,
     <1>34, HaltsEither
     DEF Next, Note, Bulk, Asks, Saves, Rebuild

---------------------------------------------------------------------------
(* The requests and what they are about. *)

LEMMA OneTurns ==
    ASSUME TypeInv, NEW h \in Handlers, NEW j \in Job, Does(h, j), Placed(j, DOMAIN recs'), RecsGrow
    PROVE  JobsTyped' /\ PlacesTyped'
<1>1. Turns(h, j)
  BY DoesTurns DEF TypeInv
<1>2. \A g \in Handlers : Placed(job[g], DOMAIN recs')
  BY DEF TypeInv, PlacesTyped, Placed, RecsGrow
<1>3. \A g \in Handlers : job'[g] = IF g = h THEN j ELSE job[g]
  BY <1>1 DEF Turns
<1>4. ASSUME NEW g \in Handlers PROVE Placed(job'[g], DOMAIN recs')
  BY <1>2, <1>3
<1> QED
  BY <1>1, <1>4 DEF Turns, JobsTyped, PlacesTyped

LEMMA NoTurns ==
    ASSUME TypeInv, job' = job, RecsGrow
    PROVE  JobsTyped' /\ PlacesTyped'
<1>1. \A g \in Handlers : Placed(job[g], DOMAIN recs')
  BY DEF TypeInv, PlacesTyped, Placed, RecsGrow
<1> QED
  BY <1>1 DEF TypeInv, JobsTyped, PlacesTyped

\* A request starts, or answers.
LEMMA IdleIsPlaced ==
    ASSUME NEW D
    PROVE  Placed(Idle, D)
BY DEF Placed, Idle, EarlySteps, SaveSteps, RebuildSteps

LEMMA RecFields ==
    ASSUME NEW w \in Rec
    PROVE  w.weight \in Nat /\ w.link \in Nat /\ w.co2e \in Nat /\ w.ref \in Refs /\
              w.period \in Days
BY DEF Rec

LEMMA WeighedIsSum ==
    ASSUME TypeInv, NEW p
    PROVE  Weighed(p) \in Sums
<1>1. recs \in Seq(Rec) /\ DOMAIN recs \subseteq Nat
  BY LenProperties DEF TypeInv, RecsTyped
<1>2. \A r \in DOMAIN recs : recs[r].weight \in Nat
  BY <1>1, ElementOfSeq, RecFields
<1>3. [r \in InPeriod(p) |-> recs[r].weight] \in [InPeriod(p) -> Nat] /\ InPeriod(p) \in SUBSET Nat
  BY <1>1, <1>2 DEF InPeriod, LiveRecords
<1> QED
  BY <1>3 DEF Weighed, Sums

LEMMA InsertPlaces ==
    ASSUME TypeInv, NEW h \in Handlers, NEW b \in Bodies, NEW from \in Loads, NEW sure \in BOOLEAN,
           Insert(h, from, b, sure), job[h].pc \in {"idle", "rows", "accept", "receive"}
    PROVE  JobsTyped' /\ PlacesTyped'
<1> DEFINE j == Inserted(h, b)
<1>1. j \in Job /\ j.periods # <<>> /\ RecsGrow /\ Does(h, j)
  BY InsertedIsJob, InsertGrows DEF Insert, Inserted
<1>2. Len(recs) + 1 \in DOMAIN recs'
  BY InsertTurns
<1>3. j.pc = "sync" /\ j.rec = Len(recs) + 1
  BY DEF Inserted, TypeInv, JobsTyped, Job
<1> HIDE DEF j
<1>4. Placed(j, DOMAIN recs')
  BY <1>1, <1>2, <1>3 DEF Placed, EarlySteps, SaveSteps, RebuildSteps
<1> QED
  BY <1>1, <1>4, OneTurns

LEMMA PickTurns ==
    ASSUME NEW h \in Handlers, BulkPick(h), TypeInv
    PROVE  \/ job[h].found = {} /\ Does(h, Idle)
           \/ \E d \in job[h].found :
                 Referenced(Reading[d].ref) /\ Does(h, [job[h] EXCEPT !.found = @ \ {d}])
           \/ \E d \in job[h].found :
                 /\ ~Referenced(Reading[d].ref)
                 /\ Does(h, [job[h] EXCEPT !.found = @ \ {d}, !.pc = "accept", !.load = d,
                                !.body = Reading[d]])
<1>1. job[h] \in Job /\ job[h].pc = "pick"
  BY DEF BulkPick, TypeInv, JobsTyped, At
<1>2. ASSUME NEW d \in job[h].found, Referenced(Reading[d].ref)
      PROVE  [job[h] EXCEPT !.found = @ \ {d},
                 !.pc = IF Referenced(Reading[d].ref) THEN "pick" ELSE "accept",
                 !.load = IF Referenced(Reading[d].ref) THEN @ ELSE d,
                 !.body = IF Referenced(Reading[d].ref) THEN @ ELSE Reading[d]]
              = [job[h] EXCEPT !.found = @ \ {d}]
  BY <1>1, <1>2 DEF Job
<1>3. ASSUME NEW d \in job[h].found, ~Referenced(Reading[d].ref)
      PROVE  [job[h] EXCEPT !.found = @ \ {d},
                 !.pc = IF Referenced(Reading[d].ref) THEN "pick" ELSE "accept",
                 !.load = IF Referenced(Reading[d].ref) THEN @ ELSE d,
                 !.body = IF Referenced(Reading[d].ref) THEN @ ELSE Reading[d]]
              = [job[h] EXCEPT !.found = @ \ {d}, !.pc = "accept", !.load = d, !.body = Reading[d]]
  BY <1>1, <1>3 DEF Job
<1> QED
  BY <1>2, <1>3 DEF BulkPick

LEMMA JobsStep ==
    ASSUME TypeInv, ActsInv, [Next]_vars
    PROVE  JobsTyped' /\ PlacesTyped'
<1> USE DEF tables, inbox, history
<1>1. ASSUME NEW d \in Docs, Submit(d) PROVE JobsTyped' /\ PlacesTyped'
  BY <1>1, RecsGrowStep, NoTurns DEF Submit
<1>2. ASSUME NEW d \in Docs, Decide(d) PROVE JobsTyped' /\ PlacesTyped'
  BY <1>2, RecsGrowStep, NoTurns DEF Decide
<1>3. ASSUME NEW d \in Docs, RemoveNote(d) PROVE JobsTyped' /\ PlacesTyped'
  BY <1>3, RecsGrowStep, NoTurns DEF RemoveNote
<1>4. ASSUME NEW m \in Moves, RemoveMove(m) PROVE JobsTyped' /\ PlacesTyped'
  BY <1>4, RecsGrowStep, NoTurns DEF RemoveMove
<1>5. ASSUME NEW h \in Handlers, BulkFind(h) PROVE JobsTyped' /\ PlacesTyped'
  <2>1. PICK ids \in SUBSET Docs :
           Does(h, [Idle EXCEPT !.pc = "waiting", !.task = "bulk", !.found = ids])
    BY <1>5 DEF BulkFind, Begin
  <2> DEFINE j == [Idle EXCEPT !.pc = "waiting", !.task = "bulk", !.found = ids]
  <2>2. /\ Does(h, j) /\ job[h] \in Job
        /\ Placed(job[h], DOMAIN recs) /\ RecsGrow
    BY <1>5, <2>1, RecsGrowStep DEF BulkFind, Begin, Stop, TypeInv, JobsTyped, PlacesTyped
  <2>3. /\ "waiting" \in Steps /\ "bulk" \in Tasks /\ ids \in SUBSET Docs
    BY <2>2, <1>5, <2>1, IdleIsJob
       DEF BulkFind, Job, Seen, Days, Loads, Steps, EarlySteps, SaveSteps, RebuildSteps, Tasks,
           Sums, At, Placed
  <2>4. j \in Job
    BY <2>2, <2>3, IdleIsJob DEF Job
  <2>5. /\ j.pc = "waiting" /\ j.task = "bulk" /\ j.load = Form /\ j.body = NoBody /\ j.rec = 0
           /\ j.was = 0 /\ j.saw = Unread /\ j.periods = <<>>
    BY <2>2 DEF Idle
  <2> HIDE DEF j
  <2>6. Placed(j, DOMAIN recs')
    BY <2>2, <2>5, <1>5, <2>1
       DEF BulkFind, Placed, EarlySteps, SaveSteps, RebuildSteps, At, RecsGrow
  <2> QED
    BY <2>2, <2>4, <2>6, OneTurns
<1>6. ASSUME NEW h \in Handlers, BulkWaiting(h) PROVE JobsTyped' /\ PlacesTyped'
  <2> DEFINE j == [Go(h, "seen") EXCEPT !.found = {d \in @ : Reading[d].ref # NoRef /\ Alone(d,
                        job[h].found)}]
  <2>1. /\ Does(h, j) /\ job[h] \in Job
        /\ Placed(job[h], DOMAIN recs) /\ RecsGrow
    BY <1>6, RecsGrowStep DEF BulkWaiting, Begin, Stop, TypeInv, JobsTyped, PlacesTyped
  <2>2. /\ "seen" \in Steps /\ {d \in job[h].found : Reading[d].ref # NoRef /\ Alone(d,
           job[h].found)} \in SUBSET Docs
    BY <2>1, <1>6, IdleIsJob
       DEF BulkWaiting, Job, Seen, Days, Loads, Steps, EarlySteps, SaveSteps, RebuildSteps,
           Tasks, Sums, At, Placed
  <2>3. j \in Job
    BY <2>1, <2>2, IdleIsJob DEF Job, Go
  <2>4. /\ j.pc = "seen" /\ j.task = job[h].task /\ j.load = job[h].load /\ j.body = job[h].body
           /\ j.rec = job[h].rec /\ j.was = job[h].was /\ j.saw = job[h].saw /\ j.periods =
           job[h].periods
    BY <2>1 DEF Job, Go
  <2> HIDE DEF j
  <2>5. Placed(j, DOMAIN recs')
    BY <2>1, <2>4, <1>6
       DEF BulkWaiting, Placed, EarlySteps, SaveSteps, RebuildSteps, At, RecsGrow
  <2> QED
    BY <2>1, <2>3, <2>5, OneTurns
<1>7. ASSUME NEW h \in Handlers, BulkSeen(h) PROVE JobsTyped' /\ PlacesTyped'
  <2>1. PICK ready \in SUBSET job[h].found : Does(h, [Go(h, "pick") EXCEPT !.found = ready])
    BY <1>7 DEF BulkSeen
  <2> DEFINE j == [Go(h, "pick") EXCEPT !.found = ready]
  <2>2. /\ Does(h, j) /\ job[h] \in Job
        /\ Placed(job[h], DOMAIN recs) /\ RecsGrow
    BY <1>7, <2>1, RecsGrowStep DEF BulkSeen, Begin, Stop, TypeInv, JobsTyped, PlacesTyped
  <2>3. /\ "pick" \in Steps /\ ready \in SUBSET Docs
    BY <2>2, <1>7, <2>1, IdleIsJob
       DEF BulkSeen, Job, Seen, Days, Loads, Steps, EarlySteps, SaveSteps, RebuildSteps, Tasks,
           Sums, At, Placed
  <2>4. j \in Job
    BY <2>2, <2>3, IdleIsJob DEF Job, Go
  <2>5. /\ j.pc = "pick" /\ j.task = job[h].task /\ j.load = job[h].load /\ j.body = job[h].body
           /\ j.rec = job[h].rec /\ j.was = job[h].was /\ j.saw = job[h].saw /\ j.periods =
           job[h].periods
    BY <2>2 DEF Job, Go
  <2> HIDE DEF j
  <2>6. Placed(j, DOMAIN recs')
    BY <2>2, <2>5, <1>7, <2>1
       DEF BulkSeen, Placed, EarlySteps, SaveSteps, RebuildSteps, At, RecsGrow
  <2> QED
    BY <2>2, <2>4, <2>6, OneTurns
<1>8. ASSUME NEW h \in Handlers, BulkPick(h) PROVE JobsTyped' /\ PlacesTyped'
  <2>1. CASE job[h].found = {} /\ Does(h, Idle)
    <3> DEFINE j == Idle
    <3>1. /\ Does(h, j) /\ job[h] \in Job
          /\ Placed(job[h], DOMAIN recs) /\ RecsGrow
      BY <1>8, <2>1, RecsGrowStep DEF BulkPick, Begin, Stop, TypeInv, JobsTyped, PlacesTyped
    <3>2. j \in Job
      BY <3>1, IdleIsJob DEF Job
    <3>3. /\ j.pc = "idle" /\ j.task = "one" /\ j.load = Form /\ j.body = NoBody /\ j.rec = 0 /\
             j.was = 0 /\ j.saw = Unread /\ j.periods = <<>>
      BY <3>1 DEF Idle
    <3> HIDE DEF j
    <3>4. Placed(j, DOMAIN recs')
      BY <3>1, <3>3, <1>8, <2>1
         DEF BulkPick, Placed, EarlySteps, SaveSteps, RebuildSteps, At, RecsGrow
    <3> QED
      BY <3>1, <3>2, <3>4, OneTurns
  <2>2. ASSUME NEW d \in job[h].found, Referenced(Reading[d].ref),
               Does(h, [job[h] EXCEPT !.found = @ \ {d}])
        PROVE  JobsTyped' /\ PlacesTyped'
    <3> DEFINE j == [job[h] EXCEPT !.found = @ \ {d}]
    <3>1. /\ Does(h, j) /\ job[h] \in Job
          /\ Placed(job[h], DOMAIN recs) /\ RecsGrow
      BY <1>8, <2>2, RecsGrowStep DEF BulkPick, Begin, Stop, TypeInv, JobsTyped, PlacesTyped
    <3>2. /\ job[h].found \ {d} \in SUBSET Docs
      BY <3>1, <1>8, <2>2, IdleIsJob
         DEF BulkPick, Job, Seen, Days, Loads, Steps, EarlySteps, SaveSteps, RebuildSteps,
             Tasks, Sums, At, Placed
    <3>3. j \in Job
      BY <3>1, <3>2, IdleIsJob DEF Job
    <3>4. /\ j.pc = job[h].pc /\ j.task = job[h].task /\ j.load = job[h].load /\ j.body =
             job[h].body /\ j.rec = job[h].rec /\ j.was = job[h].was /\ j.saw = job[h].saw /\
             j.periods = job[h].periods
      BY <3>1 DEF Job
    <3> HIDE DEF j
    <3>5. Placed(j, DOMAIN recs')
      BY <3>1, <3>4, <1>8, <2>2
         DEF BulkPick, Placed, EarlySteps, SaveSteps, RebuildSteps, At, RecsGrow
    <3> QED
      BY <3>1, <3>3, <3>5, OneTurns
  <2>3. ASSUME NEW d \in job[h].found,
               Does(h, [job[h] EXCEPT !.found = @ \ {d}, !.pc = "accept", !.load = d,
                           !.body = Reading[d]])
        PROVE  JobsTyped' /\ PlacesTyped'
    <3>1. d \in Docs /\ Reading[d] \in Bodies
      BY <2>3, ReadingAssumption DEF TypeInv, JobsTyped, Job
    <3> DEFINE j == [job[h] EXCEPT !.found = @ \ {d}, !.pc = "accept", !.load = d, !.body =
                          Reading[d]]
    <3>2. /\ Does(h, j) /\ job[h] \in Job
          /\ Placed(job[h], DOMAIN recs) /\ RecsGrow
      BY <1>8, <2>3, RecsGrowStep DEF BulkPick, Begin, Stop, TypeInv, JobsTyped, PlacesTyped
    <3>3. /\ "accept" \in Steps /\ d \in Loads /\ Reading[d] \in Bodies \cup {NoBody} /\
             job[h].found \ {d} \in SUBSET Docs
      BY <3>2, <1>8, <2>3, <3>1, IdleIsJob
         DEF BulkPick, Job, Seen, Days, Loads, Steps, EarlySteps, SaveSteps, RebuildSteps,
             Tasks, Sums, At, Placed
    <3>4. j \in Job
      BY <3>2, <3>3, IdleIsJob DEF Job
    <3>5. /\ j.pc = "accept" /\ j.task = job[h].task /\ j.load = d /\ j.body = Reading[d] /\
             j.rec = job[h].rec /\ j.was = job[h].was /\ j.saw = job[h].saw /\ j.periods =
             job[h].periods
      BY <3>2 DEF Job
    <3> HIDE DEF j
    <3>6. Placed(j, DOMAIN recs')
      BY <3>2, <3>5, <1>8, <2>3, <3>1
         DEF BulkPick, Placed, EarlySteps, SaveSteps, RebuildSteps, At, RecsGrow
    <3> QED
      BY <3>2, <3>4, <3>6, OneTurns
  <2> QED
    BY <1>8, <2>1, <2>2, <2>3, PickTurns
<1>9. ASSUME NEW h \in Handlers, NEW b \in Bodies, Create(h, b) PROVE JobsTyped' /\ PlacesTyped'
  <2>1. Form \in Loads /\ FALSE \in BOOLEAN /\ Insert(h, Form, b, FALSE)
    BY <1>9 DEF Loads, Create
  <2> QED
    BY <1>9, <2>1, InsertPlaces DEF Create, At
<1>10. ASSUME NEW h \in Handlers, NEW b \in Bodies, UploadRow(h, b)
        PROVE  JobsTyped' /\ PlacesTyped'
  <2>1. Form \in Loads /\ FALSE \in BOOLEAN /\ Insert(h, Form, b, FALSE)
    BY <1>10 DEF Loads, UploadRow
  <2> QED
    BY <1>10, <2>1, InsertPlaces DEF UploadRow, At
<1>11. ASSUME NEW h \in Handlers, NEW b \in Bodies, Edit(h, b) PROVE JobsTyped' /\ PlacesTyped'
  <2>1. CASE Live(job[h].rec)
    <3> DEFINE j == [Go(h, "sync") EXCEPT !.was = 0, !.periods = Rebuilds(b.period, job[h].was)]
    <3>1. /\ Does(h, j) /\ job[h] \in Job
          /\ Placed(job[h], DOMAIN recs) /\ RecsGrow
      BY <1>11, <2>1, RecsGrowStep DEF Edit, Begin, Stop, TypeInv, JobsTyped, PlacesTyped
    <3>2. /\ "sync" \in Steps /\ 0 \in Days /\ Rebuilds(b.period, job[h].was) \in Seq(Periods)
      BY <3>1, <1>11, <2>1, TwoPeriods, BodyAssumption, IdleIsJob
         DEF Edit, Job, Seen, Days, Loads, Steps, EarlySteps, SaveSteps, RebuildSteps, Tasks,
             Sums, At, Placed
    <3>3. j \in Job
      BY <3>1, <3>2, IdleIsJob DEF Job, Go
    <3>4. /\ j.pc = "sync" /\ j.task = job[h].task /\ j.load = job[h].load /\ j.body =
             job[h].body /\ j.rec = job[h].rec /\ j.was = 0 /\ j.saw = job[h].saw /\ j.periods =
             Rebuilds(b.period, job[h].was)
      BY <3>1 DEF Job, Go
    <3> HIDE DEF j
    <3>5. Placed(j, DOMAIN recs')
      BY <3>1, <3>4, <1>11, <2>1, TwoPeriods, BodyAssumption
         DEF Edit, Placed, EarlySteps, SaveSteps, RebuildSteps, At, RecsGrow
    <3> QED
      BY <3>1, <3>3, <3>5, OneTurns
  <2>2. CASE ~Live(job[h].rec)
    <3> DEFINE j == Idle
    <3>1. /\ Does(h, j) /\ job[h] \in Job
          /\ Placed(job[h], DOMAIN recs) /\ RecsGrow
      BY <1>11, <2>2, RecsGrowStep DEF Edit, Begin, Stop, TypeInv, JobsTyped, PlacesTyped
    <3>2. j \in Job
      BY <3>1, IdleIsJob DEF Job
    <3>3. /\ j.pc = "idle" /\ j.task = "one" /\ j.load = Form /\ j.body = NoBody /\ j.rec = 0 /\
             j.was = 0 /\ j.saw = Unread /\ j.periods = <<>>
      BY <3>1 DEF Idle
    <3> HIDE DEF j
    <3>4. Placed(j, DOMAIN recs')
      BY <3>1, <3>3, <1>11, <2>2
         DEF Edit, Placed, EarlySteps, SaveSteps, RebuildSteps, At, RecsGrow
    <3> QED
      BY <3>1, <3>2, <3>4, OneTurns
  <2> QED
    BY <1>11, <2>1, <2>2 DEF Edit
<1>12. ASSUME NEW h \in Handlers, NEW b \in Bodies, NEW d \in Docs, Review(h, d, b)
        PROVE  JobsTyped' /\ PlacesTyped'
  <2> DEFINE j == [Idle EXCEPT !.pc = "accept", !.load = d, !.body = b]
  <2>1. /\ Does(h, j) /\ job[h] \in Job
        /\ Placed(job[h], DOMAIN recs) /\ RecsGrow
    BY <1>12, RecsGrowStep DEF Review, Begin, Stop, TypeInv, JobsTyped, PlacesTyped
  <2>2. /\ "accept" \in Steps /\ d \in Loads /\ b \in Bodies \cup {NoBody}
    BY <2>1, <1>12, IdleIsJob
       DEF Review, Job, Seen, Days, Loads, Steps, EarlySteps, SaveSteps, RebuildSteps, Tasks,
           Sums, At, Placed
  <2>3. j \in Job
    BY <2>1, <2>2, IdleIsJob DEF Job
  <2>4. /\ j.pc = "accept" /\ j.task = "one" /\ j.load = d /\ j.body = b /\ j.rec = 0 /\ j.was =
           0 /\ j.saw = Unread /\ j.periods = <<>>
    BY <2>1 DEF Idle
  <2> HIDE DEF j
  <2>5. Placed(j, DOMAIN recs')
    BY <2>1, <2>4, <1>12 DEF Review, Placed, EarlySteps, SaveSteps, RebuildSteps, At, RecsGrow
  <2> QED
    BY <2>1, <2>3, <2>5, OneTurns
<1>13. ASSUME NEW h \in Handlers, NEW b \in Bodies, NEW m \in Moves, ReceiveLoad(h, m, b)
        PROVE  JobsTyped' /\ PlacesTyped'
  <2> DEFINE j == [Idle EXCEPT !.pc = "receive", !.load = m, !.body = b]
  <2>1. /\ Does(h, j) /\ job[h] \in Job
        /\ Placed(job[h], DOMAIN recs) /\ RecsGrow
    BY <1>13, RecsGrowStep DEF ReceiveLoad, Begin, Stop, TypeInv, JobsTyped, PlacesTyped
  <2>2. /\ "receive" \in Steps /\ m \in Loads /\ b \in Bodies \cup {NoBody}
    BY <2>1, <1>13, IdleIsJob
       DEF ReceiveLoad, Job, Seen, Days, Loads, Steps, EarlySteps, SaveSteps, RebuildSteps,
           Tasks, Sums, At, Placed
  <2>3. j \in Job
    BY <2>1, <2>2, IdleIsJob DEF Job
  <2>4. /\ j.pc = "receive" /\ j.task = "one" /\ j.load = m /\ j.body = b /\ j.rec = 0 /\ j.was
           = 0 /\ j.saw = Unread /\ j.periods = <<>>
    BY <2>1 DEF Idle
  <2> HIDE DEF j
  <2>5. Placed(j, DOMAIN recs')
    BY <2>1, <2>4, <1>13
       DEF ReceiveLoad, Placed, EarlySteps, SaveSteps, RebuildSteps, At, RecsGrow
  <2> QED
    BY <2>1, <2>3, <2>5, OneTurns
<1>14. ASSUME NEW h \in Handlers, NEW r \in DOMAIN recs, NEW step \in {"edit", "delete"},
              Open(h, r, step)
        PROVE  JobsTyped' /\ PlacesTyped'
  <2> DEFINE j == [Idle EXCEPT !.pc = step, !.rec = r, !.was = recs[r].period]
  <2>1. /\ Does(h, j) /\ job[h] \in Job
        /\ Placed(job[h], DOMAIN recs) /\ RecsGrow
    BY <1>14, RecsGrowStep DEF Open, Begin, Stop, TypeInv, JobsTyped, PlacesTyped
  <2>2. /\ step \in Steps /\ r \in Nat /\ recs[r].period \in Days
    <3>1. recs \in Seq(Rec) /\ r \in Nat
      BY LenProperties DEF TypeInv, RecsTyped
    <3>2. recs[r] \in Rec
      BY <3>1, ElementOfSeq
    <3>3. step \in Steps
      BY DEF Steps, EarlySteps
    <3> QED
      BY <3>1, <3>2, <3>3 DEF Rec
  <2>3. j \in Job
    BY <2>1, <2>2, IdleIsJob DEF Job
  <2>4. /\ j.pc = step /\ j.task = "one" /\ j.load = Form /\ j.body = NoBody /\ j.rec = r /\
           j.was = recs[r].period /\ j.saw = Unread /\ j.periods = <<>>
    BY <2>1 DEF Idle
  <2> HIDE DEF j
  <2>5. Placed(j, DOMAIN recs')
    BY <2>1, <2>4, <1>14, LenProperties
       DEF Open, Placed, EarlySteps, SaveSteps, RebuildSteps, At, RecsGrow, TypeInv, RecsTyped
  <2> QED
    BY <2>1, <2>3, <2>5, OneTurns
<1>15. ASSUME NEW h \in Handlers, NEW p \in Periods, SaveWater(h, p)
        PROVE  JobsTyped' /\ PlacesTyped'
  <2> DEFINE j == [Idle EXCEPT !.pc = "read", !.periods = <<p>>]
  <2>1. /\ Does(h, j) /\ job[h] \in Job
        /\ Placed(job[h], DOMAIN recs) /\ RecsGrow
    BY <1>15, RecsGrowStep DEF SaveWater, Begin, Stop, TypeInv, JobsTyped, PlacesTyped
  <2>2. /\ "read" \in Steps /\ <<p>> \in Seq(Periods)
    BY <2>1, <1>15, OnePeriod, IdleIsJob
       DEF SaveWater, Job, Seen, Days, Loads, Steps, EarlySteps, SaveSteps, RebuildSteps, Tasks,
           Sums, At, Placed
  <2>3. j \in Job
    BY <2>1, <2>2, IdleIsJob DEF Job
  <2>4. /\ j.pc = "read" /\ j.task = "one" /\ j.load = Form /\ j.body = NoBody /\ j.rec = 0 /\
           j.was = 0 /\ j.saw = Unread /\ j.periods = <<p>>
    BY <2>1 DEF Idle
  <2> HIDE DEF j
  <2>5. Placed(j, DOMAIN recs')
    BY <2>1, <2>4, <1>15, OnePeriod
       DEF SaveWater, Placed, EarlySteps, SaveSteps, RebuildSteps, At, RecsGrow
  <2> QED
    BY <2>1, <2>3, <2>5, OneTurns
<1>16. ASSUME NEW h \in Handlers, NEW m \in Moves, Mark(h, m) PROVE JobsTyped' /\ PlacesTyped'
  <2>1. PICK to \in {"dispatched", "rejected", "cancelled"} :
           Does(h, [Idle EXCEPT !.pc = "mark", !.load = m, !.task = to])
    BY <1>16 DEF Mark, Begin
  <2> DEFINE j == [Idle EXCEPT !.pc = "mark", !.load = m, !.task = to]
  <2>2. /\ Does(h, j) /\ job[h] \in Job
        /\ Placed(job[h], DOMAIN recs) /\ RecsGrow
    BY <1>16, <2>1, RecsGrowStep DEF Mark, Begin, Stop, TypeInv, JobsTyped, PlacesTyped
  <2>3. /\ "mark" \in Steps /\ to \in Tasks /\ m \in Loads
    BY <2>2, <1>16, <2>1, IdleIsJob
       DEF Mark, Job, Seen, Days, Loads, Steps, EarlySteps, SaveSteps, RebuildSteps, Tasks,
           Sums, At, Placed
  <2>4. j \in Job
    BY <2>2, <2>3, IdleIsJob DEF Job
  <2>5. /\ j.pc = "mark" /\ j.task = to /\ j.load = m /\ j.body = NoBody /\ j.rec = 0 /\ j.was =
           0 /\ j.saw = Unread /\ j.periods = <<>>
    BY <2>2 DEF Idle
  <2> HIDE DEF j
  <2>6. Placed(j, DOMAIN recs')
    BY <2>2, <2>5, <1>16, <2>1 DEF Mark, Placed, EarlySteps, SaveSteps, RebuildSteps, At, RecsGrow
  <2> QED
    BY <2>2, <2>4, <2>6, OneTurns
<1>17. ASSUME NEW h \in Handlers, Upload(h) PROVE JobsTyped' /\ PlacesTyped'
  <2> DEFINE j == [Idle EXCEPT !.pc = "rows", !.task = "sheet"]
  <2>1. /\ Does(h, j) /\ job[h] \in Job
        /\ Placed(job[h], DOMAIN recs) /\ RecsGrow
    BY <1>17, RecsGrowStep DEF Upload, Begin, Stop, TypeInv, JobsTyped, PlacesTyped
  <2>2. /\ "rows" \in Steps /\ "sheet" \in Tasks
    BY <2>1, <1>17, IdleIsJob
       DEF Upload, Job, Seen, Days, Loads, Steps, EarlySteps, SaveSteps, RebuildSteps, Tasks,
           Sums, At, Placed
  <2>3. j \in Job
    BY <2>1, <2>2, IdleIsJob DEF Job
  <2>4. /\ j.pc = "rows" /\ j.task = "sheet" /\ j.load = Form /\ j.body = NoBody /\ j.rec = 0 /\
           j.was = 0 /\ j.saw = Unread /\ j.periods = <<>>
    BY <2>1 DEF Idle
  <2> HIDE DEF j
  <2>5. Placed(j, DOMAIN recs')
    BY <2>1, <2>4, <1>17 DEF Upload, Placed, EarlySteps, SaveSteps, RebuildSteps, At, RecsGrow
  <2> QED
    BY <2>1, <2>3, <2>5, OneTurns
<1>18. ASSUME NEW h \in Handlers, SyncRead(h) PROVE JobsTyped' /\ PlacesTyped'
  <2>1. CASE recs[job[h].rec].live
    <3>1. /\ recs[job[h].rec].weight \in Nat /\ recs[job[h].rec].link \in Nat
          /\ recs[job[h].rec].period \in Periods
      BY <1>18, <2>1, ElementOfSeq, RecFields
      DEF TypeInv, RecsTyped, Live, PlacesTyped, Placed, SyncRead, At, SaveSteps
    <3> DEFINE j == [Go(h, IF recs[job[h].rec].link = 0 THEN "make" ELSE "update") EXCEPT !.saw
                          = [weight |-> recs[job[h].rec].weight, period |->
                          recs[job[h].rec].period, link |-> recs[job[h].rec].link]]
    <3>2. /\ Does(h, j) /\ job[h] \in Job
          /\ Placed(job[h], DOMAIN recs) /\ RecsGrow
      BY <1>18, <2>1, RecsGrowStep DEF SyncRead, Begin, Stop, TypeInv, JobsTyped, PlacesTyped
    <3>3. /\ (IF recs[job[h].rec].link = 0 THEN "make" ELSE "update") \in Steps /\ [weight |->
             recs[job[h].rec].weight, period |-> recs[job[h].rec].period, link |->
             recs[job[h].rec].link] \in Seen
      BY <3>2, <1>18, <2>1, <3>1, IdleIsJob
         DEF SyncRead, Job, Seen, Days, Loads, Steps, EarlySteps, SaveSteps, RebuildSteps,
             Tasks, Sums, At, Placed
    <3>4. j \in Job
      BY <3>2, <3>3, IdleIsJob DEF Job, Go
    <3>5. /\ j.pc = (IF recs[job[h].rec].link = 0 THEN "make" ELSE "update") /\ j.task =
             job[h].task /\ j.load = job[h].load /\ j.body = job[h].body /\ j.rec = job[h].rec
             /\ j.was = job[h].was /\ j.saw = [weight |-> recs[job[h].rec].weight, period |->
             recs[job[h].rec].period, link |-> recs[job[h].rec].link] /\ j.periods =
             job[h].periods
      BY <3>2 DEF Job, Go
    <3> HIDE DEF j
    <3>6. Placed(j, DOMAIN recs')
      BY <3>2, <3>5, <1>18, <2>1, <3>1
         DEF SyncRead, Placed, EarlySteps, SaveSteps, RebuildSteps, At, RecsGrow
    <3> QED
      BY <3>2, <3>4, <3>6, OneTurns
  <2>2. CASE ~recs[job[h].rec].live
    <3> DEFINE j == Idle
    <3>1. /\ Does(h, j) /\ job[h] \in Job
          /\ Placed(job[h], DOMAIN recs) /\ RecsGrow
      BY <1>18, <2>2, RecsGrowStep DEF SyncRead, Begin, Stop, TypeInv, JobsTyped, PlacesTyped
    <3>2. j \in Job
      BY <3>1, IdleIsJob DEF Job
    <3>3. /\ j.pc = "idle" /\ j.task = "one" /\ j.load = Form /\ j.body = NoBody /\ j.rec = 0 /\
             j.was = 0 /\ j.saw = Unread /\ j.periods = <<>>
      BY <3>1 DEF Idle
    <3> HIDE DEF j
    <3>4. Placed(j, DOMAIN recs')
      BY <3>1, <3>3, <1>18, <2>2
         DEF SyncRead, Placed, EarlySteps, SaveSteps, RebuildSteps, At, RecsGrow
    <3> QED
      BY <3>1, <3>2, <3>4, OneTurns
  <2> QED
    BY <1>18, <2>1, <2>2 DEF SyncRead
<1>19. ASSUME NEW h \in Handlers, MakeActivity(h) PROVE JobsTyped' /\ PlacesTyped'
  <2> DEFINE j == [Go(h, "link") EXCEPT !.act = Len(acts) + 1]
  <2>1. /\ Does(h, j) /\ job[h] \in Job
        /\ Placed(job[h], DOMAIN recs) /\ RecsGrow
    BY <1>19, RecsGrowStep DEF MakeActivity, Begin, Stop, TypeInv, JobsTyped, PlacesTyped
  <2>2. /\ "link" \in Steps /\ Len(acts) + 1 \in Nat
    BY <2>1, <1>19, LenProperties, IdleIsJob
       DEF MakeActivity, Job, Seen, Days, Loads, Steps, EarlySteps, SaveSteps, RebuildSteps,
           Tasks, Sums, At, Placed, TypeInv, RecsTyped
  <2>3. j \in Job
    BY <2>1, <2>2, IdleIsJob DEF Job, Go
  <2>4. /\ j.pc = "link" /\ j.task = job[h].task /\ j.load = job[h].load /\ j.body = job[h].body
           /\ j.rec = job[h].rec /\ j.was = job[h].was /\ j.saw = job[h].saw /\ j.periods =
           job[h].periods
    BY <2>1 DEF Job, Go
  <2> HIDE DEF j
  <2>5. Placed(j, DOMAIN recs')
    BY <2>1, <2>4, <1>19, LenProperties
       DEF MakeActivity, Placed, EarlySteps, SaveSteps, RebuildSteps, At, RecsGrow, TypeInv,
           RecsTyped
  <2> QED
    BY <2>1, <2>3, <2>5, OneTurns
<1>20. ASSUME NEW h \in Handlers, LinkActivity(h) PROVE JobsTyped' /\ PlacesTyped'
  <2>1. CASE Live(job[h].rec)
    <3> DEFINE j == Go(h, "run")
    <3>1. /\ Does(h, j) /\ job[h] \in Job
          /\ Placed(job[h], DOMAIN recs) /\ RecsGrow
      BY <1>20, <2>1, RecsGrowStep DEF LinkActivity, Begin, Stop, TypeInv, JobsTyped, PlacesTyped
    <3>2. /\ "run" \in Steps
      BY <3>1, <1>20, <2>1, IdleIsJob
         DEF LinkActivity, Job, Seen, Days, Loads, Steps, EarlySteps, SaveSteps, RebuildSteps,
             Tasks, Sums, At, Placed
    <3>3. j \in Job
      BY <3>1, <3>2, IdleIsJob DEF Job, Go
    <3>4. /\ j.pc = "run" /\ j.task = job[h].task /\ j.load = job[h].load /\ j.body =
             job[h].body /\ j.rec = job[h].rec /\ j.was = job[h].was /\ j.saw = job[h].saw /\
             j.periods = job[h].periods
      BY <3>1 DEF Job, Go
    <3> HIDE DEF j
    <3>5. Placed(j, DOMAIN recs')
      BY <3>1, <3>4, <1>20, <2>1
         DEF LinkActivity, Placed, EarlySteps, SaveSteps, RebuildSteps, At, RecsGrow
    <3> QED
      BY <3>1, <3>3, <3>5, OneTurns
  <2>2. CASE ~Live(job[h].rec)
    <3> DEFINE j == Idle
    <3>1. /\ Does(h, j) /\ job[h] \in Job
          /\ Placed(job[h], DOMAIN recs) /\ RecsGrow
      BY <1>20, <2>2, RecsGrowStep DEF LinkActivity, Begin, Stop, TypeInv, JobsTyped, PlacesTyped
    <3>2. j \in Job
      BY <3>1, IdleIsJob DEF Job
    <3>3. /\ j.pc = "idle" /\ j.task = "one" /\ j.load = Form /\ j.body = NoBody /\ j.rec = 0 /\
             j.was = 0 /\ j.saw = Unread /\ j.periods = <<>>
      BY <3>1 DEF Idle
    <3> HIDE DEF j
    <3>4. Placed(j, DOMAIN recs')
      BY <3>1, <3>3, <1>20, <2>2
         DEF LinkActivity, Placed, EarlySteps, SaveSteps, RebuildSteps, At, RecsGrow
    <3> QED
      BY <3>1, <3>2, <3>4, OneTurns
  <2> QED
    BY <1>20, <2>1, <2>2 DEF LinkActivity
<1>21. ASSUME NEW h \in Handlers, UpdateActivity(h) PROVE JobsTyped' /\ PlacesTyped'
  <2> DEFINE j == [Go(h, "run") EXCEPT !.act = job[h].saw.link]
  <2>1. /\ Does(h, j) /\ job[h] \in Job
        /\ Placed(job[h], DOMAIN recs) /\ RecsGrow
    BY <1>21, RecsGrowStep DEF UpdateActivity, Begin, Stop, TypeInv, JobsTyped, PlacesTyped
  <2>2. /\ "run" \in Steps /\ job[h].saw.link \in Nat
    BY <2>1, <1>21, IdleIsJob
       DEF UpdateActivity, Job, Seen, Days, Loads, Steps, EarlySteps, SaveSteps, RebuildSteps,
           Tasks, Sums, At, Placed
  <2>3. j \in Job
    BY <2>1, <2>2, IdleIsJob DEF Job, Go
  <2>4. /\ j.pc = "run" /\ j.task = job[h].task /\ j.load = job[h].load /\ j.body = job[h].body
           /\ j.rec = job[h].rec /\ j.was = job[h].was /\ j.saw = job[h].saw /\ j.periods =
           job[h].periods
    BY <2>1 DEF Job, Go
  <2> HIDE DEF j
  <2>5. Placed(j, DOMAIN recs')
    BY <2>1, <2>4, <1>21
       DEF UpdateActivity, Placed, EarlySteps, SaveSteps, RebuildSteps, At, RecsGrow
  <2> QED
    BY <2>1, <2>3, <2>5, OneTurns
<1>22. ASSUME NEW h \in Handlers, Calculate(h) PROVE JobsTyped' /\ PlacesTyped'
  <2> DEFINE j == [Go(h, "figure") EXCEPT !.act = 0]
  <2>1. /\ Does(h, j) /\ job[h] \in Job
        /\ Placed(job[h], DOMAIN recs) /\ RecsGrow
    BY <1>22, RecsGrowStep DEF Calculate, Begin, Stop, TypeInv, JobsTyped, PlacesTyped
  <2>2. /\ "figure" \in Steps /\ 0 \in Nat
    BY <2>1, <1>22, IdleIsJob
       DEF Calculate, Job, Seen, Days, Loads, Steps, EarlySteps, SaveSteps, RebuildSteps, Tasks,
           Sums, At, Placed
  <2>3. j \in Job
    BY <2>1, <2>2, IdleIsJob DEF Job, Go
  <2>4. /\ j.pc = "figure" /\ j.task = job[h].task /\ j.load = job[h].load /\ j.body =
           job[h].body /\ j.rec = job[h].rec /\ j.was = job[h].was /\ j.saw = job[h].saw /\
           j.periods = job[h].periods
    BY <2>1 DEF Job, Go
  <2> HIDE DEF j
  <2>5. Placed(j, DOMAIN recs')
    BY <2>1, <2>4, <1>22 DEF Calculate, Placed, EarlySteps, SaveSteps, RebuildSteps, At, RecsGrow
  <2> QED
    BY <2>1, <2>3, <2>5, OneTurns
<1>23. ASSUME NEW h \in Handlers, WriteFigure(h) PROVE JobsTyped' /\ PlacesTyped'
  <2>1. CASE Live(job[h].rec)
    <3> DEFINE j == [Go(h, IF job[h].task = "sheet" THEN "rows" ELSE "read") EXCEPT !.rec = 0,
                          !.saw = Unread]
    <3>1. /\ Does(h, j) /\ job[h] \in Job
          /\ Placed(job[h], DOMAIN recs) /\ RecsGrow
      BY <1>23, <2>1, RecsGrowStep DEF WriteFigure, Begin, Stop, TypeInv, JobsTyped, PlacesTyped
    <3>2. /\ (IF job[h].task = "sheet" THEN "rows" ELSE "read") \in Steps /\ 0 \in Nat /\ Unread
             \in Seen
      BY <3>1, <1>23, <2>1, IdleIsJob
         DEF WriteFigure, Job, Seen, Days, Loads, Steps, EarlySteps, SaveSteps, RebuildSteps,
             Tasks, Sums, At, Placed
    <3>3. j \in Job
      BY <3>1, <3>2, IdleIsJob DEF Job, Go
    <3>4. /\ j.pc = (IF job[h].task = "sheet" THEN "rows" ELSE "read") /\ j.task = job[h].task
             /\ j.load = job[h].load /\ j.body = job[h].body /\ j.rec = 0 /\ j.was = job[h].was
             /\ j.saw = Unread /\ j.periods = job[h].periods
      BY <3>1 DEF Job, Go
    <3> HIDE DEF j
    <3>5. Placed(j, DOMAIN recs')
      BY <3>1, <3>4, <1>23, <2>1
         DEF WriteFigure, Placed, EarlySteps, SaveSteps, RebuildSteps, At, RecsGrow
    <3> QED
      BY <3>1, <3>3, <3>5, OneTurns
  <2>2. CASE ~Live(job[h].rec)
    <3> DEFINE j == Idle
    <3>1. /\ Does(h, j) /\ job[h] \in Job
          /\ Placed(job[h], DOMAIN recs) /\ RecsGrow
      BY <1>23, <2>2, RecsGrowStep DEF WriteFigure, Begin, Stop, TypeInv, JobsTyped, PlacesTyped
    <3>2. j \in Job
      BY <3>1, IdleIsJob DEF Job
    <3>3. /\ j.pc = "idle" /\ j.task = "one" /\ j.load = Form /\ j.body = NoBody /\ j.rec = 0 /\
             j.was = 0 /\ j.saw = Unread /\ j.periods = <<>>
      BY <3>1 DEF Idle
    <3> HIDE DEF j
    <3>4. Placed(j, DOMAIN recs')
      BY <3>1, <3>3, <1>23, <2>2
         DEF WriteFigure, Placed, EarlySteps, SaveSteps, RebuildSteps, At, RecsGrow
    <3> QED
      BY <3>1, <3>2, <3>4, OneTurns
  <2> QED
    BY <1>23, <2>1, <2>2 DEF WriteFigure
<1>24. ASSUME NEW h \in Handlers, RebuildReads(h) PROVE JobsTyped' /\ PlacesTyped'
  <2> DEFINE j == [Go(h, "clear") EXCEPT !.tally = Weighed(Head(job[h].periods))]
  <2>1. /\ Does(h, j) /\ job[h] \in Job
        /\ Placed(job[h], DOMAIN recs) /\ RecsGrow
    BY <1>24, RecsGrowStep DEF RebuildReads, Begin, Stop, TypeInv, JobsTyped, PlacesTyped
  <2>2. /\ "clear" \in Steps /\ Weighed(Head(job[h].periods)) \in Sums
    BY <2>1, <1>24, WeighedIsSum, IdleIsJob
       DEF RebuildReads, Job, Seen, Days, Loads, Steps, EarlySteps, SaveSteps, RebuildSteps,
           Tasks, Sums, At, Placed
  <2>3. j \in Job
    BY <2>1, <2>2, IdleIsJob DEF Job, Go
  <2>4. /\ j.pc = "clear" /\ j.task = job[h].task /\ j.load = job[h].load /\ j.body =
           job[h].body /\ j.rec = job[h].rec /\ j.was = job[h].was /\ j.saw = job[h].saw /\
           j.periods = job[h].periods
    BY <2>1 DEF Job, Go
  <2> HIDE DEF j
  <2>5. Placed(j, DOMAIN recs')
    BY <2>1, <2>4, <1>24, WeighedIsSum
       DEF RebuildReads, Placed, EarlySteps, SaveSteps, RebuildSteps, At, RecsGrow
  <2> QED
    BY <2>1, <2>3, <2>5, OneTurns
<1>25. ASSUME NEW h \in Handlers, RebuildClears(h) PROVE JobsTyped' /\ PlacesTyped'
  <2> DEFINE j == [Go(h, "commit") EXCEPT !.rows = {g \in Handlers :
                        totals[Head(job[h].periods)][g] # 0}]
  <2>1. /\ Does(h, j) /\ job[h] \in Job
        /\ Placed(job[h], DOMAIN recs) /\ RecsGrow
    BY <1>25, RecsGrowStep DEF RebuildClears, Begin, Stop, TypeInv, JobsTyped, PlacesTyped
  <2>2. /\ "commit" \in Steps /\ {g \in Handlers : totals[Head(job[h].periods)][g] # 0} \in
           SUBSET Handlers
    BY <2>1, <1>25, IdleIsJob
       DEF RebuildClears, Job, Seen, Days, Loads, Steps, EarlySteps, SaveSteps, RebuildSteps,
           Tasks, Sums, At, Placed
  <2>3. j \in Job
    BY <2>1, <2>2, IdleIsJob DEF Job, Go
  <2>4. /\ j.pc = "commit" /\ j.task = job[h].task /\ j.load = job[h].load /\ j.body =
           job[h].body /\ j.rec = job[h].rec /\ j.was = job[h].was /\ j.saw = job[h].saw /\
           j.periods = job[h].periods
    BY <2>1 DEF Job, Go
  <2> HIDE DEF j
  <2>5. Placed(j, DOMAIN recs')
    BY <2>1, <2>4, <1>25
       DEF RebuildClears, Placed, EarlySteps, SaveSteps, RebuildSteps, At, RecsGrow
  <2> QED
    BY <2>1, <2>3, <2>5, OneTurns
<1>26. ASSUME NEW h \in Handlers, RebuildCommits(h) PROVE JobsTyped' /\ PlacesTyped'
  <2>1. CASE Tail(job[h].periods) = <<>> /\ job[h].task = "bulk"
    <3> DEFINE j == [Idle EXCEPT !.pc = "pick", !.task = "bulk", !.found = job[h].found]
    <3>1. /\ Does(h, j) /\ job[h] \in Job
          /\ Placed(job[h], DOMAIN recs) /\ RecsGrow
      BY <1>26, <2>1, RecsGrowStep
         DEF RebuildCommits, Begin, Stop, TypeInv, JobsTyped, PlacesTyped, Onward
    <3>2. /\ "pick" \in Steps /\ "bulk" \in Tasks /\ job[h].found \in SUBSET Docs
      BY <3>1, <1>26, <2>1, IdleIsJob
         DEF RebuildCommits, Job, Seen, Days, Loads, Steps, EarlySteps, SaveSteps, RebuildSteps,
             Tasks, Sums, At, Placed, Onward
    <3>3. j \in Job
      BY <3>1, <3>2, IdleIsJob DEF Job
    <3>4. /\ j.pc = "pick" /\ j.task = "bulk" /\ j.load = Form /\ j.body = NoBody /\ j.rec = 0
             /\ j.was = 0 /\ j.saw = Unread /\ j.periods = <<>>
      BY <3>1 DEF Idle
    <3> HIDE DEF j
    <3>5. Placed(j, DOMAIN recs')
      BY <3>1, <3>4, <1>26, <2>1
         DEF RebuildCommits, Placed, EarlySteps, SaveSteps, RebuildSteps, At, RecsGrow, Onward
    <3> QED
      BY <3>1, <3>3, <3>5, OneTurns
  <2>2. CASE Tail(job[h].periods) = <<>> /\ job[h].task # "bulk"
    <3> DEFINE j == Idle
    <3>1. /\ Does(h, j) /\ job[h] \in Job
          /\ Placed(job[h], DOMAIN recs) /\ RecsGrow
      BY <1>26, <2>2, RecsGrowStep
         DEF RebuildCommits, Begin, Stop, TypeInv, JobsTyped, PlacesTyped, Onward
    <3>2. j \in Job
      BY <3>1, IdleIsJob DEF Job
    <3>3. /\ j.pc = "idle" /\ j.task = "one" /\ j.load = Form /\ j.body = NoBody /\ j.rec = 0 /\
             j.was = 0 /\ j.saw = Unread /\ j.periods = <<>>
      BY <3>1 DEF Idle
    <3> HIDE DEF j
    <3>4. Placed(j, DOMAIN recs')
      BY <3>1, <3>3, <1>26, <2>2
         DEF RebuildCommits, Placed, EarlySteps, SaveSteps, RebuildSteps, At, RecsGrow, Onward
    <3> QED
      BY <3>1, <3>2, <3>4, OneTurns
  <2>3. CASE Tail(job[h].periods) # <<>>
    <3> DEFINE j == [Go(h, "read") EXCEPT !.periods = Tail(job[h].periods), !.tally = 0, !.rows
                          = {}]
    <3>1. /\ Does(h, j) /\ job[h] \in Job
          /\ Placed(job[h], DOMAIN recs) /\ RecsGrow
      BY <1>26, <2>3, RecsGrowStep
         DEF RebuildCommits, Begin, Stop, TypeInv, JobsTyped, PlacesTyped
    <3>2. /\ "read" \in Steps /\ Tail(job[h].periods) \in Seq(Periods) /\ 0 \in Sums /\ {} \in
             SUBSET Handlers
      BY <3>1, <1>26, <2>3, FewerPeriods, IdleIsJob
         DEF RebuildCommits, Job, Seen, Days, Loads, Steps, EarlySteps, SaveSteps, RebuildSteps,
             Tasks, Sums, At, Placed
    <3>3. j \in Job
      BY <3>1, <3>2, IdleIsJob DEF Job, Go
    <3>4. /\ j.pc = "read" /\ j.task = job[h].task /\ j.load = job[h].load /\ j.body =
             job[h].body /\ j.rec = job[h].rec /\ j.was = job[h].was /\ j.saw = job[h].saw /\
             j.periods = Tail(job[h].periods)
      BY <3>1 DEF Job, Go
    <3> HIDE DEF j
    <3>5. Placed(j, DOMAIN recs')
      BY <3>1, <3>4, <1>26, <2>3, FewerPeriods
         DEF RebuildCommits, Placed, EarlySteps, SaveSteps, RebuildSteps, At, RecsGrow
    <3> QED
      BY <3>1, <3>3, <3>5, OneTurns
  <2> QED
    BY <1>26, <2>1, <2>2, <2>3 DEF RebuildCommits
<1>27. ASSUME NEW h \in Handlers, Halts(h) PROVE JobsTyped' /\ PlacesTyped'
  <2> DEFINE j == Idle
  <2>1. /\ Does(h, j) /\ job[h] \in Job
        /\ Placed(job[h], DOMAIN recs) /\ RecsGrow
    BY <1>27, RecsGrowStep DEF Halts, Begin, Stop, TypeInv, JobsTyped, PlacesTyped
  <2>2. j \in Job
    BY <2>1, IdleIsJob DEF Job
  <2>3. /\ j.pc = "idle" /\ j.task = "one" /\ j.load = Form /\ j.body = NoBody /\ j.rec = 0 /\
           j.was = 0 /\ j.saw = Unread /\ j.periods = <<>>
    BY <2>1 DEF Idle
  <2> HIDE DEF j
  <2>4. Placed(j, DOMAIN recs')
    BY <2>1, <2>3, <1>27 DEF Halts, Placed, EarlySteps, SaveSteps, RebuildSteps, At, RecsGrow
  <2> QED
    BY <2>1, <2>2, <2>4, OneTurns
<1>28. ASSUME NEW h \in Handlers, Accept(h) PROVE JobsTyped' /\ PlacesTyped'
  <2>1. CASE Claimed(job[h].load)
    <3> DEFINE sure == job[h].task = "bulk" /\ docs[job[h].load].status = "pending"
    <3>1. /\ job[h].load \in Loads /\ sure \in BOOLEAN /\ job[h].body \in Bodies
      BY <1>28, <2>1 DEF TypeInv, Loads, Accept, PlacesTyped, Placed, At
    <3>2. Insert(h, job[h].load, job[h].body, sure)
      BY <1>28, <2>1 DEF Accept
    <3> QED
      BY <1>28, <3>1, <3>2, InsertPlaces DEF Accept, At
  <2>2. CASE job[h].task = "bulk" /\ ~Claimed(job[h].load)
    <3> DEFINE j == [Idle EXCEPT !.pc = "pick", !.task = "bulk", !.found = job[h].found]
    <3>1. /\ Does(h, j) /\ job[h] \in Job
          /\ Placed(job[h], DOMAIN recs) /\ RecsGrow
      BY <1>28, <2>2, RecsGrowStep
         DEF Accept, Begin, Stop, TypeInv, JobsTyped, PlacesTyped, Onward
    <3>2. /\ "pick" \in Steps /\ "bulk" \in Tasks /\ job[h].found \in SUBSET Docs
      BY <3>1, <1>28, <2>2, IdleIsJob
         DEF Accept, Job, Seen, Days, Loads, Steps, EarlySteps, SaveSteps, RebuildSteps, Tasks,
             Sums, At, Placed, Onward
    <3>3. j \in Job
      BY <3>1, <3>2, IdleIsJob DEF Job
    <3>4. /\ j.pc = "pick" /\ j.task = "bulk" /\ j.load = Form /\ j.body = NoBody /\ j.rec = 0
             /\ j.was = 0 /\ j.saw = Unread /\ j.periods = <<>>
      BY <3>1 DEF Idle
    <3> HIDE DEF j
    <3>5. Placed(j, DOMAIN recs')
      BY <3>1, <3>4, <1>28, <2>2
         DEF Accept, Placed, EarlySteps, SaveSteps, RebuildSteps, At, RecsGrow, Onward
    <3> QED
      BY <3>1, <3>3, <3>5, OneTurns
  <2>3. CASE job[h].task # "bulk" /\ ~Claimed(job[h].load)
    <3> DEFINE j == Idle
    <3>1. /\ Does(h, j) /\ job[h] \in Job
          /\ Placed(job[h], DOMAIN recs) /\ RecsGrow
      BY <1>28, <2>3, RecsGrowStep
         DEF Accept, Begin, Stop, TypeInv, JobsTyped, PlacesTyped, Onward
    <3>2. j \in Job
      BY <3>1, IdleIsJob DEF Job
    <3>3. /\ j.pc = "idle" /\ j.task = "one" /\ j.load = Form /\ j.body = NoBody /\ j.rec = 0 /\
             j.was = 0 /\ j.saw = Unread /\ j.periods = <<>>
      BY <3>1 DEF Idle
    <3> HIDE DEF j
    <3>4. Placed(j, DOMAIN recs')
      BY <3>1, <3>3, <1>28, <2>3
         DEF Accept, Placed, EarlySteps, SaveSteps, RebuildSteps, At, RecsGrow, Onward
    <3> QED
      BY <3>1, <3>2, <3>4, OneTurns
  <2> QED
    BY <2>1, <2>2, <2>3
<1>29. ASSUME NEW h \in Handlers, Receive(h) PROVE JobsTyped' /\ PlacesTyped'
  <2>1. CASE InTable(moves[job[h].load])
    <3>1. /\ job[h].load \in Loads /\ FALSE \in BOOLEAN /\ job[h].body \in Bodies
      BY <1>29, <2>1 DEF TypeInv, Loads, Receive, PlacesTyped, Placed, At
    <3>2. Insert(h, job[h].load, job[h].body, FALSE)
      BY <1>29, <2>1 DEF Receive
    <3> QED
      BY <1>29, <3>1, <3>2, InsertPlaces DEF Receive, At
  <2>2. CASE ~InTable(moves[job[h].load])
    <3> DEFINE j == Idle
    <3>1. /\ Does(h, j) /\ job[h] \in Job
          /\ Placed(job[h], DOMAIN recs) /\ RecsGrow
      BY <1>29, <2>2, RecsGrowStep DEF Receive, Begin, Stop, TypeInv, JobsTyped, PlacesTyped
    <3>2. j \in Job
      BY <3>1, IdleIsJob DEF Job
    <3>3. /\ j.pc = "idle" /\ j.task = "one" /\ j.load = Form /\ j.body = NoBody /\ j.rec = 0 /\
             j.was = 0 /\ j.saw = Unread /\ j.periods = <<>>
      BY <3>1 DEF Idle
    <3> HIDE DEF j
    <3>4. Placed(j, DOMAIN recs')
      BY <3>1, <3>3, <1>29, <2>2
         DEF Receive, Placed, EarlySteps, SaveSteps, RebuildSteps, At, RecsGrow
    <3> QED
      BY <3>1, <3>2, <3>4, OneTurns
  <2> QED
    BY <2>1, <2>2
<1>30. ASSUME NEW h \in Handlers, Delete(h) PROVE JobsTyped' /\ PlacesTyped'
  <2>1. CASE Live(job[h].rec)
    <3> DEFINE j == [Idle EXCEPT !.pc = "read", !.periods = <<job[h].was>>]
    <3>1. /\ Does(h, j) /\ job[h] \in Job
          /\ Placed(job[h], DOMAIN recs) /\ RecsGrow
      BY <1>30, <2>1, RecsGrowStep DEF Delete, Begin, Stop, TypeInv, JobsTyped, PlacesTyped
    <3>2. /\ "read" \in Steps /\ <<job[h].was>> \in Seq(Periods)
      BY <3>1, <1>30, <2>1, OnePeriod, IdleIsJob
         DEF Delete, Job, Seen, Days, Loads, Steps, EarlySteps, SaveSteps, RebuildSteps, Tasks,
             Sums, At, Placed
    <3>3. j \in Job
      BY <3>1, <3>2, IdleIsJob DEF Job
    <3>4. /\ j.pc = "read" /\ j.task = "one" /\ j.load = Form /\ j.body = NoBody /\ j.rec = 0 /\
             j.was = 0 /\ j.saw = Unread /\ j.periods = <<job[h].was>>
      BY <3>1 DEF Idle
    <3> HIDE DEF j
    <3>5. Placed(j, DOMAIN recs')
      BY <3>1, <3>4, <1>30, <2>1, OnePeriod
         DEF Delete, Placed, EarlySteps, SaveSteps, RebuildSteps, At, RecsGrow
    <3> QED
      BY <3>1, <3>3, <3>5, OneTurns
  <2>2. CASE ~Live(job[h].rec)
    <3> DEFINE j == Idle
    <3>1. /\ Does(h, j) /\ job[h] \in Job
          /\ Placed(job[h], DOMAIN recs) /\ RecsGrow
      BY <1>30, <2>2, RecsGrowStep DEF Delete, Begin, Stop, TypeInv, JobsTyped, PlacesTyped
    <3>2. j \in Job
      BY <3>1, IdleIsJob DEF Job
    <3>3. /\ j.pc = "idle" /\ j.task = "one" /\ j.load = Form /\ j.body = NoBody /\ j.rec = 0 /\
             j.was = 0 /\ j.saw = Unread /\ j.periods = <<>>
      BY <3>1 DEF Idle
    <3> HIDE DEF j
    <3>4. Placed(j, DOMAIN recs')
      BY <3>1, <3>3, <1>30, <2>2
         DEF Delete, Placed, EarlySteps, SaveSteps, RebuildSteps, At, RecsGrow
    <3> QED
      BY <3>1, <3>2, <3>4, OneTurns
  <2> QED
    BY <1>30, <2>1, <2>2 DEF Delete
<1>31. ASSUME NEW h \in Handlers, MarkWrites(h) PROVE JobsTyped' /\ PlacesTyped'
  <2> DEFINE j == Idle
  <2>1. /\ Does(h, j) /\ job[h] \in Job
        /\ Placed(job[h], DOMAIN recs) /\ RecsGrow
    BY <1>31, RecsGrowStep DEF MarkWrites, Begin, Stop, TypeInv, JobsTyped, PlacesTyped
  <2>2. j \in Job
    BY <2>1, IdleIsJob DEF Job
  <2>3. /\ j.pc = "idle" /\ j.task = "one" /\ j.load = Form /\ j.body = NoBody /\ j.rec = 0 /\
           j.was = 0 /\ j.saw = Unread /\ j.periods = <<>>
    BY <2>1 DEF Idle
  <2> HIDE DEF j
  <2>4. Placed(j, DOMAIN recs')
    BY <2>1, <2>3, <1>31 DEF MarkWrites, Placed, EarlySteps, SaveSteps, RebuildSteps, At, RecsGrow
  <2> QED
    BY <2>1, <2>2, <2>4, OneTurns
<1>32. ASSUME NEW h \in Handlers, UploadEnds(h) PROVE JobsTyped' /\ PlacesTyped'
  <2>1. CASE job[h].periods = <<>>
    <3> DEFINE j == Idle
    <3>1. /\ Does(h, j) /\ job[h] \in Job
          /\ Placed(job[h], DOMAIN recs) /\ RecsGrow
      BY <1>32, <2>1, RecsGrowStep DEF UploadEnds, Begin, Stop, TypeInv, JobsTyped, PlacesTyped
    <3>2. j \in Job
      BY <3>1, IdleIsJob DEF Job
    <3>3. /\ j.pc = "idle" /\ j.task = "one" /\ j.load = Form /\ j.body = NoBody /\ j.rec = 0 /\
             j.was = 0 /\ j.saw = Unread /\ j.periods = <<>>
      BY <3>1 DEF Idle
    <3> HIDE DEF j
    <3>4. Placed(j, DOMAIN recs')
      BY <3>1, <3>3, <1>32, <2>1
         DEF UploadEnds, Placed, EarlySteps, SaveSteps, RebuildSteps, At, RecsGrow
    <3> QED
      BY <3>1, <3>2, <3>4, OneTurns
  <2>2. CASE job[h].periods # <<>>
    <3> DEFINE j == [Go(h, "read") EXCEPT !.rec = 0]
    <3>1. /\ Does(h, j) /\ job[h] \in Job
          /\ Placed(job[h], DOMAIN recs) /\ RecsGrow
      BY <1>32, <2>2, RecsGrowStep DEF UploadEnds, Begin, Stop, TypeInv, JobsTyped, PlacesTyped
    <3>2. /\ "read" \in Steps /\ 0 \in Nat
      BY <3>1, <1>32, <2>2, IdleIsJob
         DEF UploadEnds, Job, Seen, Days, Loads, Steps, EarlySteps, SaveSteps, RebuildSteps,
             Tasks, Sums, At, Placed
    <3>3. j \in Job
      BY <3>1, <3>2, IdleIsJob DEF Job, Go
    <3>4. /\ j.pc = "read" /\ j.task = job[h].task /\ j.load = job[h].load /\ j.body =
             job[h].body /\ j.rec = 0 /\ j.was = job[h].was /\ j.saw = job[h].saw /\ j.periods =
             job[h].periods
      BY <3>1 DEF Job, Go
    <3> HIDE DEF j
    <3>5. Placed(j, DOMAIN recs')
      BY <3>1, <3>4, <1>32, <2>2
         DEF UploadEnds, Placed, EarlySteps, SaveSteps, RebuildSteps, At, RecsGrow
    <3> QED
      BY <3>1, <3>3, <3>5, OneTurns
  <2> QED
    BY <1>32, <2>1, <2>2 DEF UploadEnds
<1>33. ASSUME UNCHANGED vars PROVE JobsTyped' /\ PlacesTyped'
  BY <1>33, RecsGrowStep, NoTurns DEF vars
<1>34. ASSUME ByHand PROVE JobsTyped' /\ PlacesTyped'
  BY <1>34, ByHandLeaves, RecsGrowStep, NoTurns
<1> QED
  BY <1>1, <1>2, <1>3, <1>4, <1>5, <1>6, <1>7, <1>8, <1>9, <1>10, <1>11, <1>12, <1>13,
     <1>14, <1>15, <1>16, <1>17, <1>18, <1>19, <1>20, <1>21, <1>22, <1>23, <1>24, <1>25,
     <1>26, <1>27, <1>28, <1>29, <1>30, <1>31, <1>32, <1>33,
     <1>34, HaltsEither
     DEF Next, Note, Bulk, Asks, Saves, Rebuild

---------------------------------------------------------------------------
(* The tables' types. *)

LEMMA TotalsTypedStep ==
    ASSUME TypeInv, [Next]_vars
    PROVE  TotalsTyped'
<1> USE DEF TotalsTyped, tables, inbox, history
<1>1. ASSUME NEW d \in Docs, Submit(d) PROVE TotalsTyped'
  BY <1>1 DEF Submit, TypeInv
<1>2. ASSUME NEW d \in Docs, Decide(d) PROVE TotalsTyped'
  BY <1>2 DEF Decide, TypeInv
<1>3. ASSUME NEW d \in Docs, RemoveNote(d) PROVE TotalsTyped'
  BY <1>3 DEF RemoveNote, TypeInv
<1>4. ASSUME NEW m \in Moves, RemoveMove(m) PROVE TotalsTyped'
  BY <1>4 DEF RemoveMove, TypeInv
<1>5. ASSUME NEW h \in Handlers, BulkFind(h) PROVE TotalsTyped'
  BY <1>5 DEF BulkFind, TypeInv
<1>6. ASSUME NEW h \in Handlers, BulkWaiting(h) PROVE TotalsTyped'
  BY <1>6 DEF BulkWaiting, TypeInv
<1>7. ASSUME NEW h \in Handlers, BulkSeen(h) PROVE TotalsTyped'
  BY <1>7 DEF BulkSeen, TypeInv
<1>8. ASSUME NEW h \in Handlers, BulkPick(h) PROVE TotalsTyped'
  BY <1>8 DEF BulkPick, TypeInv
<1>9. ASSUME NEW h \in Handlers, NEW b \in Bodies, Create(h, b) PROVE TotalsTyped'
  BY <1>9 DEF Create, TypeInv
<1>10. ASSUME NEW h \in Handlers, NEW b \in Bodies, UploadRow(h, b) PROVE TotalsTyped'
  BY <1>10 DEF UploadRow, TypeInv
<1>11. ASSUME NEW h \in Handlers, NEW b \in Bodies, Edit(h, b) PROVE TotalsTyped'
  BY <1>11 DEF Edit, TypeInv
<1>12. ASSUME NEW h \in Handlers, NEW b \in Bodies, NEW d \in Docs, Review(h, d, b)
        PROVE  TotalsTyped'
  BY <1>12 DEF Review, TypeInv
<1>13. ASSUME NEW h \in Handlers, NEW b \in Bodies, NEW m \in Moves, ReceiveLoad(h, m, b)
        PROVE  TotalsTyped'
  BY <1>13 DEF ReceiveLoad, TypeInv
<1>14. ASSUME NEW h \in Handlers, NEW r \in DOMAIN recs, NEW step \in {"edit", "delete"},
              Open(h, r, step)
        PROVE  TotalsTyped'
  BY <1>14 DEF Open, TypeInv
<1>15. ASSUME NEW h \in Handlers, NEW p \in Periods, SaveWater(h, p) PROVE TotalsTyped'
  BY <1>15 DEF SaveWater, TypeInv
<1>16. ASSUME NEW h \in Handlers, NEW m \in Moves, Mark(h, m) PROVE TotalsTyped'
  BY <1>16 DEF Mark, TypeInv
<1>17. ASSUME NEW h \in Handlers, Upload(h) PROVE TotalsTyped'
  BY <1>17 DEF Upload, TypeInv
<1>18. ASSUME NEW h \in Handlers, SyncRead(h) PROVE TotalsTyped'
  BY <1>18 DEF SyncRead, TypeInv
<1>19. ASSUME NEW h \in Handlers, MakeActivity(h) PROVE TotalsTyped'
  BY <1>19 DEF MakeActivity, TypeInv
<1>20. ASSUME NEW h \in Handlers, LinkActivity(h) PROVE TotalsTyped'
  BY <1>20 DEF LinkActivity, TypeInv
<1>21. ASSUME NEW h \in Handlers, UpdateActivity(h) PROVE TotalsTyped'
  BY <1>21 DEF UpdateActivity, TypeInv
<1>22. ASSUME NEW h \in Handlers, Calculate(h) PROVE TotalsTyped'
  <2>1. job[h].act \in Nat
    BY DEF TypeInv, JobsTyped, Job
  <2> QED
    BY <1>22, <2>1 DEF Calculate, TypeInv
<1>23. ASSUME NEW h \in Handlers, WriteFigure(h) PROVE TotalsTyped'
  BY <1>23 DEF WriteFigure, TypeInv
<1>24. ASSUME NEW h \in Handlers, RebuildReads(h) PROVE TotalsTyped'
  BY <1>24 DEF RebuildReads, TypeInv
<1>25. ASSUME NEW h \in Handlers, RebuildClears(h) PROVE TotalsTyped'
  BY <1>25 DEF RebuildClears, TypeInv
<1>26. ASSUME NEW h \in Handlers, RebuildCommits(h) PROVE TotalsTyped'
  <2>1. job[h].tally \in Sums /\ 0 \in Sums
    BY DEF TypeInv, JobsTyped, Job, Sums
  <2> QED
    BY <1>26, <2>1 DEF RebuildCommits, TypeInv
<1>27. ASSUME NEW h \in Handlers, Halts(h) PROVE TotalsTyped'
  BY <1>27 DEF Halts, TypeInv
<1>28. ASSUME NEW h \in Handlers, Accept(h) PROVE TotalsTyped'
  BY <1>28 DEF Accept, TypeInv
<1>29. ASSUME NEW h \in Handlers, Receive(h) PROVE TotalsTyped'
  BY <1>29 DEF Receive, TypeInv
<1>30. ASSUME NEW h \in Handlers, Delete(h) PROVE TotalsTyped'
  BY <1>30 DEF Delete, TypeInv
<1>31. ASSUME NEW h \in Handlers, MarkWrites(h) PROVE TotalsTyped'
  BY <1>31 DEF MarkWrites, TypeInv
<1>32. ASSUME NEW h \in Handlers, UploadEnds(h) PROVE TotalsTyped'
  BY <1>32 DEF UploadEnds, TypeInv
<1>33. ASSUME UNCHANGED vars PROVE TotalsTyped'
  BY <1>33 DEF vars, TypeInv
<1>34. ASSUME ByHand PROVE TotalsTyped'
  BY <1>34, ByHandLeaves DEF TypeInv
<1> QED
  BY <1>1, <1>2, <1>3, <1>4, <1>5, <1>6, <1>7, <1>8, <1>9, <1>10, <1>11, <1>12, <1>13,
     <1>14, <1>15, <1>16, <1>17, <1>18, <1>19, <1>20, <1>21, <1>22, <1>23, <1>24, <1>25,
     <1>26, <1>27, <1>28, <1>29, <1>30, <1>31, <1>32, <1>33,
     <1>34, HaltsEither
     DEF Next, Note, Bulk, Asks, Saves, Rebuild

LEMMA TypeInvStep ==
    ASSUME TypeInv, ActsInv, [Next]_vars
    PROVE  TypeInv'
BY InboxTypedStep, RecsTypedStep, TotalsTypedStep, JobsStep DEF TypeInv

---------------------------------------------------------------------------
(* What each step makes of the request that takes it. *)

Others(h) == \A g \in Handlers \ {h} : job'[g] = job[g]
SameNote(h) ==
    /\ job'[h].task = job[h].task /\ job'[h].load = job[h].load
    /\ job'[h].body = job[h].body /\ job'[h].found = job[h].found
NoNote(h) ==
    job'[h].task = "one" /\ job'[h].load = Form /\ job'[h].body = NoBody /\ job'[h].found = {}
SameSave(h) ==
    /\ job'[h].rec = job[h].rec /\ job'[h].was = job[h].was
    /\ job'[h].saw = job[h].saw /\ job'[h].act = job[h].act
NoSave(h) == job'[h].rec = 0 /\ job'[h].was = 0 /\ job'[h].saw = Unread /\ job'[h].act = 0
SameTotals(h) ==
    job'[h].periods = job[h].periods /\ job'[h].tally = job[h].tally /\ job'[h].rows = job[h].rows
NoTotals(h) == job'[h].periods = <<>> /\ job'[h].tally = 0 /\ job'[h].rows = {}

LEMMA ReviewTurns ==
    ASSUME TypeInv, NEW h \in Handlers, NEW b \in Bodies, NEW d \in Docs, Review(h, d, b)
    PROVE  /\ At(h, "idle") /\ Claimed(d) /\ Others(h)
           /\ job'[h].pc = "accept" /\ job'[h].task = "one" /\ job'[h].load = d
           /\ job'[h].body = b /\ job'[h].found = {} /\ NoSave(h) /\ NoTotals(h)
<1>1. job[h] \in Job /\ job \in [Handlers -> Job]
  BY DEF TypeInv, JobsTyped
<1>2. /\ job'[h].pc = "accept" /\ job'[h].task = "one" /\ job'[h].load = d /\ job'[h].body = b
      /\ job'[h].found = {} /\ NoSave(h) /\ NoTotals(h)
  <2>1. job'[h] = [Idle EXCEPT !.pc = "accept", !.load = d, !.body = b]
    BY <1>1 DEF Review, Begin, Stop, Does, Onward, Live
  <2> QED
    BY <1>1, <2>1 DEF Idle, SameNote, SameSave, SameTotals, NoNote, NoSave, NoTotals
<1>3. At(h, "idle") /\ Claimed(d) /\ Others(h)
  BY <1>1 DEF Review, Others, Begin, Stop, Does, At
<1> QED
  BY <1>2, <1>3

LEMMA BulkFindTurns ==
    ASSUME TypeInv, NEW h \in Handlers, BulkFind(h)
    PROVE  /\ At(h, "idle") /\ Others(h)
           /\ \E ids \in SUBSET {d \in Docs : Claimed(d)} :
                 /\ job'[h].pc = "waiting" /\ job'[h].task = "bulk" /\ job'[h].load = Form
                 /\ job'[h].body = NoBody /\ job'[h].found = ids /\ NoSave(h) /\ NoTotals(h)
<1>1. job[h] \in Job /\ job \in [Handlers -> Job]
  BY DEF TypeInv, JobsTyped
<1>2. \E ids \in SUBSET {d \in Docs : Claimed(d)} : Does(h, [Idle EXCEPT !.pc = "waiting",
         !.task = "bulk", !.found = ids])
  BY <1>1 DEF BulkFind, Begin, At
<1>3. \E ids \in SUBSET {d \in Docs : Claimed(d)} :
         /\ job'[h].pc = "waiting" /\ job'[h].task = "bulk" /\ job'[h].load = Form
         /\ job'[h].body = NoBody /\ job'[h].found = ids /\ NoSave(h) /\ NoTotals(h)
  BY <1>1, <1>2 DEF Does, Idle, SameNote, SameSave, SameTotals, NoNote, NoSave, NoTotals
<1>4. At(h, "idle") /\ Others(h)
  BY <1>1 DEF BulkFind, Others, Begin, Stop, Does, At
<1> QED
  BY <1>3, <1>4

LEMMA BulkWaitingTurns ==
    ASSUME TypeInv, NEW h \in Handlers, BulkWaiting(h)
    PROVE  /\ At(h, "waiting") /\ Others(h)
           /\ job'[h].pc = "seen" /\ job'[h].task = job[h].task /\ job'[h].load = job[h].load
           /\ job'[h].body = job[h].body
           /\ job'[h].found = {d \in job[h].found : Reading[d].ref # NoRef /\ Alone(d,
                 job[h].found)}
           /\ SameSave(h) /\ SameTotals(h)
<1>1. job[h] \in Job /\ job \in [Handlers -> Job]
  BY DEF TypeInv, JobsTyped
<1>2. /\ job'[h].pc = "seen" /\ job'[h].task = job[h].task /\ job'[h].load = job[h].load
      /\ job'[h].body = job[h].body
      /\ job'[h].found = {d \in job[h].found : Reading[d].ref # NoRef /\ Alone(d, job[h].found)}
      /\ SameSave(h) /\ SameTotals(h)
  <2>1. job'[h] = [Go(h, "seen") EXCEPT !.found = {d \in @ : Reading[d].ref # NoRef /\ Alone(d,
            job[h].found)}]
    BY <1>1 DEF BulkWaiting, Begin, Stop, Does, Onward, Live
  <2> QED
    BY <1>1, <2>1 DEF Job, Go, SameNote, SameSave, SameTotals, NoNote, NoSave, NoTotals
<1>3. At(h, "waiting") /\ Others(h)
  BY <1>1 DEF BulkWaiting, Others, Begin, Stop, Does, At
<1> QED
  BY <1>2, <1>3

LEMMA BulkSeenTurns ==
    ASSUME TypeInv, NEW h \in Handlers, BulkSeen(h)
    PROVE  /\ At(h, "seen") /\ Others(h)
           /\ \E ready \in SUBSET {d \in job[h].found : ~Referenced(Reading[d].ref)} :
                 /\ job'[h].pc = "pick" /\ job'[h].task = job[h].task
                 /\ job'[h].load = job[h].load /\ job'[h].body = job[h].body
                 /\ job'[h].found = ready /\ SameSave(h) /\ SameTotals(h)
<1>1. job[h] \in Job /\ job \in [Handlers -> Job]
  BY DEF TypeInv, JobsTyped
<1>2. \E ready \in SUBSET {d \in job[h].found : ~Referenced(Reading[d].ref)} : Does(h, [Go(h,
         "pick") EXCEPT !.found = ready])
  BY <1>1 DEF BulkSeen, Begin, At
<1>3. \E ready \in SUBSET {d \in job[h].found : ~Referenced(Reading[d].ref)} :
         /\ job'[h].pc = "pick" /\ job'[h].task = job[h].task /\ job'[h].load = job[h].load
         /\ job'[h].body = job[h].body /\ job'[h].found = ready /\ SameSave(h) /\ SameTotals(h)
  BY <1>1, <1>2 DEF Does, Job, Go, SameNote, SameSave, SameTotals, NoNote, NoSave, NoTotals
<1>4. At(h, "seen") /\ Others(h)
  BY <1>1 DEF BulkSeen, Others, Begin, Stop, Does, At
<1> QED
  BY <1>3, <1>4

LEMMA UploadEndsTurns ==
    ASSUME TypeInv, NEW h \in Handlers, UploadEnds(h)
    PROVE  /\ At(h, "rows") /\ Others(h)
           /\ job[h].periods = <<>> =>
                 /\ job'[h].pc = "idle" /\ NoNote(h) /\ NoSave(h) /\ NoTotals(h)
           /\ job[h].periods # <<>> =>
                 /\ job'[h].pc = "read" /\ SameNote(h) /\ job'[h].rec = 0
                 /\ job'[h].was = job[h].was /\ job'[h].saw = job[h].saw
                 /\ job'[h].act = job[h].act /\ SameTotals(h)
<1>1. job[h] \in Job /\ job \in [Handlers -> Job]
  BY DEF TypeInv, JobsTyped
<1>2. ASSUME job[h].periods = <<>>
      PROVE  /\ job'[h].pc = "idle" /\ NoNote(h) /\ NoSave(h) /\ NoTotals(h)
  <2>1. job'[h] = Idle
    BY <1>1, <1>2 DEF UploadEnds, Begin, Stop, Does, Onward, Live
  <2> QED
    BY <1>1, <2>1 DEF Idle, SameNote, SameSave, SameTotals, NoNote, NoSave, NoTotals
<1>3. ASSUME job[h].periods # <<>>
      PROVE  /\ job'[h].pc = "read" /\ SameNote(h) /\ job'[h].rec = 0
             /\ job'[h].was = job[h].was /\ job'[h].saw = job[h].saw /\ job'[h].act = job[h].act
             /\ SameTotals(h)
  <2>1. job'[h] = [Go(h, "read") EXCEPT !.rec = 0]
    BY <1>1, <1>3 DEF UploadEnds, Begin, Stop, Does, Onward, Live
  <2> QED
    BY <1>1, <2>1 DEF Job, Go, SameNote, SameSave, SameTotals, NoNote, NoSave, NoTotals
<1>4. At(h, "rows") /\ Others(h)
  BY <1>1 DEF UploadEnds, Others, Begin, Stop, Does, At
<1> QED
  BY <1>2, <1>3, <1>4

LEMMA OpenTurns ==
    ASSUME TypeInv, NEW h \in Handlers, NEW r \in DOMAIN recs, NEW step \in {"edit", "delete"},
           Open(h, r,
           step)
    PROVE  /\ At(h, "idle") /\ Live(r) /\ Others(h)
           /\ job'[h].pc = step /\ NoNote(h) /\ job'[h].rec = r /\ job'[h].was = recs[r].period
           /\ job'[h].saw = Unread /\ job'[h].act = 0 /\ NoTotals(h)
<1>1. job[h] \in Job /\ job \in [Handlers -> Job]
  BY DEF TypeInv, JobsTyped
<1>2. /\ job'[h].pc = step /\ NoNote(h) /\ job'[h].rec = r /\ job'[h].was = recs[r].period
      /\ job'[h].saw = Unread /\ job'[h].act = 0 /\ NoTotals(h)
  <2>1. job'[h] = [Idle EXCEPT !.pc = step, !.rec = r, !.was = recs[r].period]
    BY <1>1 DEF Open, Begin, Stop, Does, Onward, Live
  <2> QED
    BY <1>1, <2>1 DEF Idle, SameNote, SameSave, SameTotals, NoNote, NoSave, NoTotals
<1>3. At(h, "idle") /\ Live(r) /\ Others(h)
  BY <1>1 DEF Open, Others, Begin, Stop, Does, At
<1> QED
  BY <1>2, <1>3

LEMMA EditTurns ==
    ASSUME TypeInv, NEW h \in Handlers, NEW b \in Bodies, Edit(h, b)
    PROVE  /\ At(h, "edit") /\ Others(h)
           /\ Live(job[h].rec) =>
                 /\ job'[h].pc = "sync" /\ SameNote(h) /\ job'[h].rec = job[h].rec
                 /\ job'[h].was = 0 /\ job'[h].saw = job[h].saw /\ job'[h].act = job[h].act
                 /\ job'[h].periods = Rebuilds(b.period, job[h].was)
                 /\ job'[h].tally = job[h].tally /\ job'[h].rows = job[h].rows
           /\ ~Live(job[h].rec) =>
                 /\ job'[h].pc = "idle" /\ NoNote(h) /\ NoSave(h) /\ NoTotals(h)
<1>1. job[h] \in Job /\ job \in [Handlers -> Job]
  BY DEF TypeInv, JobsTyped
<1>2. ASSUME Live(job[h].rec)
      PROVE  /\ job'[h].pc = "sync" /\ SameNote(h) /\ job'[h].rec = job[h].rec
             /\ job'[h].was = 0 /\ job'[h].saw = job[h].saw /\ job'[h].act = job[h].act
             /\ job'[h].periods = Rebuilds(b.period, job[h].was) /\ job'[h].tally = job[h].tally
             /\ job'[h].rows = job[h].rows
  <2>1. job'[h] = [Go(h, "sync") EXCEPT !.was = 0, !.periods = Rebuilds(b.period, job[h].was)]
    BY <1>1, <1>2 DEF Edit, Begin, Stop, Does, Onward, Live
  <2> QED
    BY <1>1, <2>1 DEF Job, Go, SameNote, SameSave, SameTotals, NoNote, NoSave, NoTotals
<1>3. ASSUME ~Live(job[h].rec)
      PROVE  /\ job'[h].pc = "idle" /\ NoNote(h) /\ NoSave(h) /\ NoTotals(h)
  <2>1. job'[h] = Idle
    BY <1>1, <1>3 DEF Edit, Begin, Stop, Does, Onward, Live
  <2> QED
    BY <1>1, <2>1 DEF Idle, SameNote, SameSave, SameTotals, NoNote, NoSave, NoTotals
<1>4. At(h, "edit") /\ Others(h)
  BY <1>1 DEF Edit, Others, Begin, Stop, Does, At
<1> QED
  BY <1>2, <1>3, <1>4

LEMMA DeleteTurns ==
    ASSUME TypeInv, NEW h \in Handlers, Delete(h)
    PROVE  /\ At(h, "delete") /\ Others(h)
           /\ Live(job[h].rec) =>
                 /\ job'[h].pc = "read" /\ NoNote(h) /\ NoSave(h)
                 /\ job'[h].periods = <<job[h].was>> /\ job'[h].tally = 0 /\ job'[h].rows = {}
           /\ ~Live(job[h].rec) =>
                 /\ job'[h].pc = "idle" /\ NoNote(h) /\ NoSave(h) /\ NoTotals(h)
<1>1. job[h] \in Job /\ job \in [Handlers -> Job]
  BY DEF TypeInv, JobsTyped
<1>2. ASSUME Live(job[h].rec)
      PROVE  /\ job'[h].pc = "read" /\ NoNote(h) /\ NoSave(h)
             /\ job'[h].periods = <<job[h].was>> /\ job'[h].tally = 0 /\ job'[h].rows = {}
  <2>1. job'[h] = [Idle EXCEPT !.pc = "read", !.periods = <<job[h].was>>]
    BY <1>1, <1>2 DEF Delete, Begin, Stop, Does, Onward, Live
  <2> QED
    BY <1>1, <2>1 DEF Idle, SameNote, SameSave, SameTotals, NoNote, NoSave, NoTotals
<1>3. ASSUME ~Live(job[h].rec)
      PROVE  /\ job'[h].pc = "idle" /\ NoNote(h) /\ NoSave(h) /\ NoTotals(h)
  <2>1. job'[h] = Idle
    BY <1>1, <1>3 DEF Delete, Begin, Stop, Does, Onward, Live
  <2> QED
    BY <1>1, <2>1 DEF Idle, SameNote, SameSave, SameTotals, NoNote, NoSave, NoTotals
<1>4. At(h, "delete") /\ Others(h)
  BY <1>1 DEF Delete, Others, Begin, Stop, Does, At
<1> QED
  BY <1>2, <1>3, <1>4

LEMMA SaveWaterTurns ==
    ASSUME TypeInv, NEW h \in Handlers, NEW p \in Periods, SaveWater(h, p)
    PROVE  /\ At(h, "idle") /\ Others(h)
           /\ job'[h].pc = "read" /\ NoNote(h) /\ NoSave(h) /\ job'[h].periods = <<p>>
           /\ job'[h].tally = 0 /\ job'[h].rows = {}
<1>1. job[h] \in Job /\ job \in [Handlers -> Job]
  BY DEF TypeInv, JobsTyped
<1>2. /\ job'[h].pc = "read" /\ NoNote(h) /\ NoSave(h) /\ job'[h].periods = <<p>>
      /\ job'[h].tally = 0 /\ job'[h].rows = {}
  <2>1. job'[h] = [Idle EXCEPT !.pc = "read", !.periods = <<p>>]
    BY <1>1 DEF SaveWater, Begin, Stop, Does, Onward, Live
  <2> QED
    BY <1>1, <2>1 DEF Idle, SameNote, SameSave, SameTotals, NoNote, NoSave, NoTotals
<1>3. At(h, "idle") /\ Others(h)
  BY <1>1 DEF SaveWater, Others, Begin, Stop, Does, At
<1> QED
  BY <1>2, <1>3

LEMMA ReceiveLoadTurns ==
    ASSUME TypeInv, NEW h \in Handlers, NEW b \in Bodies, NEW m \in Moves, ReceiveLoad(h, m, b)
    PROVE  /\ At(h, "idle") /\ Receivable(m) /\ Others(h)
           /\ job'[h].pc = "receive" /\ job'[h].task = "one" /\ job'[h].load = m
           /\ job'[h].body = b /\ job'[h].found = {} /\ NoSave(h) /\ NoTotals(h)
<1>1. job[h] \in Job /\ job \in [Handlers -> Job]
  BY DEF TypeInv, JobsTyped
<1>2. /\ job'[h].pc = "receive" /\ job'[h].task = "one" /\ job'[h].load = m /\ job'[h].body = b
      /\ job'[h].found = {} /\ NoSave(h) /\ NoTotals(h)
  <2>1. job'[h] = [Idle EXCEPT !.pc = "receive", !.load = m, !.body = b]
    BY <1>1 DEF ReceiveLoad, Begin, Stop, Does, Onward, Live
  <2> QED
    BY <1>1, <2>1 DEF Idle, SameNote, SameSave, SameTotals, NoNote, NoSave, NoTotals
<1>3. At(h, "idle") /\ Receivable(m) /\ Others(h)
  BY <1>1 DEF ReceiveLoad, Others, Begin, Stop, Does, At
<1> QED
  BY <1>2, <1>3

LEMMA UploadTurns ==
    ASSUME TypeInv, NEW h \in Handlers, Upload(h)
    PROVE  /\ At(h, "idle") /\ Others(h)
           /\ job'[h].pc = "rows" /\ job'[h].task = "sheet" /\ job'[h].load = Form
           /\ job'[h].body = NoBody /\ job'[h].found = {} /\ NoSave(h) /\ NoTotals(h)
<1>1. job[h] \in Job /\ job \in [Handlers -> Job]
  BY DEF TypeInv, JobsTyped
<1>2. /\ job'[h].pc = "rows" /\ job'[h].task = "sheet" /\ job'[h].load = Form
      /\ job'[h].body = NoBody /\ job'[h].found = {} /\ NoSave(h) /\ NoTotals(h)
  <2>1. job'[h] = [Idle EXCEPT !.pc = "rows", !.task = "sheet"]
    BY <1>1 DEF Upload, Begin, Stop, Does, Onward, Live
  <2> QED
    BY <1>1, <2>1 DEF Idle, SameNote, SameSave, SameTotals, NoNote, NoSave, NoTotals
<1>3. At(h, "idle") /\ Others(h)
  BY <1>1 DEF Upload, Others, Begin, Stop, Does, At
<1> QED
  BY <1>2, <1>3

LEMMA MarkTurns ==
    ASSUME TypeInv, NEW h \in Handlers, NEW m \in Moves, Mark(h, m)
    PROVE  /\ At(h, "idle") /\ Others(h)
           /\ \E to \in {"dispatched", "rejected", "cancelled"} :
                 /\ job'[h].pc = "mark" /\ job'[h].task = to /\ job'[h].load = m
                 /\ job'[h].body = NoBody /\ job'[h].found = {} /\ NoSave(h) /\ NoTotals(h)
<1>1. job[h] \in Job /\ job \in [Handlers -> Job]
  BY DEF TypeInv, JobsTyped
<1>2. \E to \in {"dispatched", "rejected", "cancelled"} : Does(h, [Idle EXCEPT !.pc = "mark",
         !.load = m, !.task = to])
  BY <1>1 DEF Mark, Begin, At
<1>3. \E to \in {"dispatched", "rejected", "cancelled"} :
         /\ job'[h].pc = "mark" /\ job'[h].task = to /\ job'[h].load = m
         /\ job'[h].body = NoBody /\ job'[h].found = {} /\ NoSave(h) /\ NoTotals(h)
  BY <1>1, <1>2 DEF Does, Idle, SameNote, SameSave, SameTotals, NoNote, NoSave, NoTotals
<1>4. At(h, "idle") /\ Others(h)
  BY <1>1 DEF Mark, Others, Begin, Stop, Does, At
<1> QED
  BY <1>3, <1>4

LEMMA MarkWritesTurns ==
    ASSUME TypeInv, NEW h \in Handlers, MarkWrites(h)
    PROVE  /\ At(h, "mark") /\ Others(h)
           /\ job'[h].pc = "idle" /\ NoNote(h) /\ NoSave(h) /\ NoTotals(h)
<1>1. job[h] \in Job /\ job \in [Handlers -> Job]
  BY DEF TypeInv, JobsTyped
<1>2. /\ job'[h].pc = "idle" /\ NoNote(h) /\ NoSave(h) /\ NoTotals(h)
  <2>1. job'[h] = Idle
    BY <1>1 DEF MarkWrites, Begin, Stop, Does, Onward, Live
  <2> QED
    BY <1>1, <2>1 DEF Idle, SameNote, SameSave, SameTotals, NoNote, NoSave, NoTotals
<1>3. At(h, "mark") /\ Others(h)
  BY <1>1 DEF MarkWrites, Others, Begin, Stop, Does, At
<1> QED
  BY <1>2, <1>3

LEMMA SyncReadTurns ==
    ASSUME TypeInv, NEW h \in Handlers, SyncRead(h)
    PROVE  /\ At(h, "sync") /\ Others(h)
           /\ Live(job[h].rec) =>
                 /\ job'[h].pc = (IF recs[job[h].rec].link = 0 THEN "make" ELSE "update")
                 /\ SameNote(h) /\ job'[h].rec = job[h].rec /\ job'[h].was = job[h].was
                 /\ job'[h].saw = [weight |-> recs[job[h].rec].weight, period |->
                       recs[job[h].rec].period, link |-> recs[job[h].rec].link]
                 /\ job'[h].act = job[h].act /\ SameTotals(h)
           /\ ~Live(job[h].rec) =>
                 /\ job'[h].pc = "idle" /\ NoNote(h) /\ NoSave(h) /\ NoTotals(h)
<1>1. job[h] \in Job /\ job \in [Handlers -> Job]
  BY DEF TypeInv, JobsTyped
<1>2. ASSUME Live(job[h].rec)
      PROVE  /\ job'[h].pc = (IF recs[job[h].rec].link = 0 THEN "make" ELSE "update")
             /\ SameNote(h) /\ job'[h].rec = job[h].rec /\ job'[h].was = job[h].was
             /\ job'[h].saw = [weight |-> recs[job[h].rec].weight, period |->
                   recs[job[h].rec].period, link |-> recs[job[h].rec].link]
             /\ job'[h].act = job[h].act /\ SameTotals(h)
  <2>1. job'[h] = [Go(h, IF recs[job[h].rec].link = 0 THEN "make" ELSE "update") EXCEPT !.saw =
            [weight |-> recs[job[h].rec].weight, period |-> recs[job[h].rec].period, link |->
            recs[job[h].rec].link]]
    BY <1>1, <1>2 DEF SyncRead, Begin, Stop, Does, Onward, Live
  <2> QED
    BY <1>1, <2>1 DEF Job, Go, SameNote, SameSave, SameTotals, NoNote, NoSave, NoTotals
<1>3. ASSUME ~Live(job[h].rec)
      PROVE  /\ job'[h].pc = "idle" /\ NoNote(h) /\ NoSave(h) /\ NoTotals(h)
  <2>1. job'[h] = Idle
    BY <1>1, <1>3 DEF SyncRead, Begin, Stop, Does, Onward, Live
  <2> QED
    BY <1>1, <2>1 DEF Idle, SameNote, SameSave, SameTotals, NoNote, NoSave, NoTotals
<1>4. At(h, "sync") /\ Others(h)
  BY <1>1 DEF SyncRead, Others, Begin, Stop, Does, At
<1> QED
  BY <1>2, <1>3, <1>4

LEMMA MakeActivityTurns ==
    ASSUME TypeInv, NEW h \in Handlers, MakeActivity(h)
    PROVE  /\ At(h, "make") /\ Others(h)
           /\ job'[h].pc = "link" /\ SameNote(h) /\ job'[h].rec = job[h].rec
           /\ job'[h].was = job[h].was /\ job'[h].saw = job[h].saw
           /\ job'[h].act = Len(acts) + 1 /\ SameTotals(h)
<1>1. job[h] \in Job /\ job \in [Handlers -> Job]
  BY DEF TypeInv, JobsTyped
<1>2. /\ job'[h].pc = "link" /\ SameNote(h) /\ job'[h].rec = job[h].rec
      /\ job'[h].was = job[h].was /\ job'[h].saw = job[h].saw /\ job'[h].act = Len(acts) + 1
      /\ SameTotals(h)
  <2>1. job'[h] = [Go(h, "link") EXCEPT !.act = Len(acts) + 1]
    BY <1>1 DEF MakeActivity, Begin, Stop, Does, Onward, Live
  <2> QED
    BY <1>1, <2>1 DEF Job, Go, SameNote, SameSave, SameTotals, NoNote, NoSave, NoTotals
<1>3. At(h, "make") /\ Others(h)
  BY <1>1 DEF MakeActivity, Others, Begin, Stop, Does, At
<1> QED
  BY <1>2, <1>3

LEMMA LinkActivityTurns ==
    ASSUME TypeInv, NEW h \in Handlers, LinkActivity(h)
    PROVE  /\ At(h, "link") /\ Others(h)
           /\ Live(job[h].rec) =>
                 /\ job'[h].pc = "run" /\ SameNote(h) /\ SameSave(h) /\ SameTotals(h)
           /\ ~Live(job[h].rec) =>
                 /\ job'[h].pc = "idle" /\ NoNote(h) /\ NoSave(h) /\ NoTotals(h)
<1>1. job[h] \in Job /\ job \in [Handlers -> Job]
  BY DEF TypeInv, JobsTyped
<1>2. ASSUME Live(job[h].rec)
      PROVE  /\ job'[h].pc = "run" /\ SameNote(h) /\ SameSave(h) /\ SameTotals(h)
  <2>1. job'[h] = Go(h, "run")
    BY <1>1, <1>2 DEF LinkActivity, Begin, Stop, Does, Onward, Live
  <2> QED
    BY <1>1, <2>1 DEF Job, Go, SameNote, SameSave, SameTotals, NoNote, NoSave, NoTotals
<1>3. ASSUME ~Live(job[h].rec)
      PROVE  /\ job'[h].pc = "idle" /\ NoNote(h) /\ NoSave(h) /\ NoTotals(h)
  <2>1. job'[h] = Idle
    BY <1>1, <1>3 DEF LinkActivity, Begin, Stop, Does, Onward, Live
  <2> QED
    BY <1>1, <2>1 DEF Idle, SameNote, SameSave, SameTotals, NoNote, NoSave, NoTotals
<1>4. At(h, "link") /\ Others(h)
  BY <1>1 DEF LinkActivity, Others, Begin, Stop, Does, At
<1> QED
  BY <1>2, <1>3, <1>4

LEMMA UpdateActivityTurns ==
    ASSUME TypeInv, NEW h \in Handlers, UpdateActivity(h)
    PROVE  /\ At(h, "update") /\ Others(h)
           /\ job'[h].pc = "run" /\ SameNote(h) /\ job'[h].rec = job[h].rec
           /\ job'[h].was = job[h].was /\ job'[h].saw = job[h].saw
           /\ job'[h].act = job[h].saw.link /\ SameTotals(h)
<1>1. job[h] \in Job /\ job \in [Handlers -> Job]
  BY DEF TypeInv, JobsTyped
<1>2. /\ job'[h].pc = "run" /\ SameNote(h) /\ job'[h].rec = job[h].rec
      /\ job'[h].was = job[h].was /\ job'[h].saw = job[h].saw /\ job'[h].act = job[h].saw.link
      /\ SameTotals(h)
  <2>1. job'[h] = [Go(h, "run") EXCEPT !.act = job[h].saw.link]
    BY <1>1 DEF UpdateActivity, Begin, Stop, Does, Onward, Live
  <2> QED
    BY <1>1, <2>1 DEF Job, Go, SameNote, SameSave, SameTotals, NoNote, NoSave, NoTotals
<1>3. At(h, "update") /\ Others(h)
  BY <1>1 DEF UpdateActivity, Others, Begin, Stop, Does, At
<1> QED
  BY <1>2, <1>3

LEMMA CalculateTurns ==
    ASSUME TypeInv, NEW h \in Handlers, Calculate(h)
    PROVE  /\ At(h, "run") /\ Others(h)
           /\ job'[h].pc = "figure" /\ SameNote(h) /\ job'[h].rec = job[h].rec
           /\ job'[h].was = job[h].was /\ job'[h].saw = job[h].saw /\ job'[h].act = 0
           /\ SameTotals(h)
<1>1. job[h] \in Job /\ job \in [Handlers -> Job]
  BY DEF TypeInv, JobsTyped
<1>2. /\ job'[h].pc = "figure" /\ SameNote(h) /\ job'[h].rec = job[h].rec
      /\ job'[h].was = job[h].was /\ job'[h].saw = job[h].saw /\ job'[h].act = 0
      /\ SameTotals(h)
  <2>1. job'[h] = [Go(h, "figure") EXCEPT !.act = 0]
    BY <1>1 DEF Calculate, Begin, Stop, Does, Onward, Live
  <2> QED
    BY <1>1, <2>1 DEF Job, Go, SameNote, SameSave, SameTotals, NoNote, NoSave, NoTotals
<1>3. At(h, "run") /\ Others(h)
  BY <1>1 DEF Calculate, Others, Begin, Stop, Does, At
<1> QED
  BY <1>2, <1>3

LEMMA WriteFigureTurns ==
    ASSUME TypeInv, NEW h \in Handlers, WriteFigure(h)
    PROVE  /\ At(h, "figure") /\ Others(h)
           /\ Live(job[h].rec) =>
                 /\ job'[h].pc = (IF job[h].task = "sheet" THEN "rows" ELSE "read")
                 /\ SameNote(h) /\ job'[h].rec = 0 /\ job'[h].was = job[h].was
                 /\ job'[h].saw = Unread /\ job'[h].act = job[h].act /\ SameTotals(h)
           /\ ~Live(job[h].rec) =>
                 /\ job'[h].pc = "idle" /\ NoNote(h) /\ NoSave(h) /\ NoTotals(h)
<1>1. job[h] \in Job /\ job \in [Handlers -> Job]
  BY DEF TypeInv, JobsTyped
<1>2. ASSUME Live(job[h].rec)
      PROVE  /\ job'[h].pc = (IF job[h].task = "sheet" THEN "rows" ELSE "read") /\ SameNote(h)
             /\ job'[h].rec = 0 /\ job'[h].was = job[h].was /\ job'[h].saw = Unread
             /\ job'[h].act = job[h].act /\ SameTotals(h)
  <2>1. job'[h] = [Go(h, IF job[h].task = "sheet" THEN "rows" ELSE "read") EXCEPT !.rec = 0,
            !.saw = Unread]
    BY <1>1, <1>2 DEF WriteFigure, Begin, Stop, Does, Onward, Live
  <2> QED
    BY <1>1, <2>1 DEF Job, Go, SameNote, SameSave, SameTotals, NoNote, NoSave, NoTotals
<1>3. ASSUME ~Live(job[h].rec)
      PROVE  /\ job'[h].pc = "idle" /\ NoNote(h) /\ NoSave(h) /\ NoTotals(h)
  <2>1. job'[h] = Idle
    BY <1>1, <1>3 DEF WriteFigure, Begin, Stop, Does, Onward, Live
  <2> QED
    BY <1>1, <2>1 DEF Idle, SameNote, SameSave, SameTotals, NoNote, NoSave, NoTotals
<1>4. At(h, "figure") /\ Others(h)
  BY <1>1 DEF WriteFigure, Others, Begin, Stop, Does, At
<1> QED
  BY <1>2, <1>3, <1>4

LEMMA RebuildReadsTurns ==
    ASSUME TypeInv, NEW h \in Handlers, RebuildReads(h)
    PROVE  /\ At(h, "read") /\ Others(h)
           /\ job'[h].pc = "clear" /\ SameNote(h) /\ SameSave(h)
           /\ job'[h].periods = job[h].periods /\ job'[h].tally = Weighed(Head(job[h].periods))
           /\ job'[h].rows = job[h].rows
<1>1. job[h] \in Job /\ job \in [Handlers -> Job]
  BY DEF TypeInv, JobsTyped
<1>2. /\ job'[h].pc = "clear" /\ SameNote(h) /\ SameSave(h) /\ job'[h].periods = job[h].periods
      /\ job'[h].tally = Weighed(Head(job[h].periods)) /\ job'[h].rows = job[h].rows
  <2>1. job'[h] = [Go(h, "clear") EXCEPT !.tally = Weighed(Head(job[h].periods))]
    BY <1>1 DEF RebuildReads, Begin, Stop, Does, Onward, Live
  <2> QED
    BY <1>1, <2>1 DEF Job, Go, SameNote, SameSave, SameTotals, NoNote, NoSave, NoTotals
<1>3. At(h, "read") /\ Others(h)
  BY <1>1 DEF RebuildReads, Others, Begin, Stop, Does, At
<1> QED
  BY <1>2, <1>3

LEMMA RebuildClearsTurns ==
    ASSUME TypeInv, NEW h \in Handlers, RebuildClears(h)
    PROVE  /\ At(h, "clear") /\ Others(h)
           /\ job'[h].pc = "commit" /\ SameNote(h) /\ SameSave(h)
           /\ job'[h].periods = job[h].periods /\ job'[h].tally = job[h].tally
           /\ job'[h].rows = {g \in Handlers : totals[Head(job[h].periods)][g] # 0}
<1>1. job[h] \in Job /\ job \in [Handlers -> Job]
  BY DEF TypeInv, JobsTyped
<1>2. /\ job'[h].pc = "commit" /\ SameNote(h) /\ SameSave(h) /\ job'[h].periods = job[h].periods
      /\ job'[h].tally = job[h].tally
      /\ job'[h].rows = {g \in Handlers : totals[Head(job[h].periods)][g] # 0}
  <2>1. job'[h] = [Go(h, "commit") EXCEPT !.rows = {g \in Handlers :
            totals[Head(job[h].periods)][g] # 0}]
    BY <1>1 DEF RebuildClears, Begin, Stop, Does, Onward, Live
  <2> QED
    BY <1>1, <2>1 DEF Job, Go, SameNote, SameSave, SameTotals, NoNote, NoSave, NoTotals
<1>3. At(h, "clear") /\ Others(h)
  BY <1>1 DEF RebuildClears, Others, Begin, Stop, Does, At
<1> QED
  BY <1>2, <1>3

LEMMA RebuildCommitsTurns ==
    ASSUME TypeInv, NEW h \in Handlers, RebuildCommits(h)
    PROVE  /\ At(h, "commit") /\ Others(h)
           /\ Tail(job[h].periods) = <<>> /\ job[h].task = "bulk" =>
                 /\ job'[h].pc = "pick" /\ job'[h].task = "bulk" /\ job'[h].load = Form
                 /\ job'[h].body = NoBody /\ job'[h].found = job[h].found /\ NoSave(h)
                 /\ NoTotals(h)
           /\ Tail(job[h].periods) = <<>> /\ job[h].task # "bulk" =>
                 /\ job'[h].pc = "idle" /\ NoNote(h) /\ NoSave(h) /\ NoTotals(h)
           /\ Tail(job[h].periods) # <<>> =>
                 /\ job'[h].pc = "read" /\ SameNote(h) /\ SameSave(h)
                 /\ job'[h].periods = Tail(job[h].periods) /\ job'[h].tally = 0
                 /\ job'[h].rows = {}
<1>1. job[h] \in Job /\ job \in [Handlers -> Job]
  BY DEF TypeInv, JobsTyped
<1>2. ASSUME Tail(job[h].periods) = <<>> /\ job[h].task = "bulk"
      PROVE  /\ job'[h].pc = "pick" /\ job'[h].task = "bulk" /\ job'[h].load = Form
             /\ job'[h].body = NoBody /\ job'[h].found = job[h].found /\ NoSave(h)
             /\ NoTotals(h)
  <2>1. job'[h] = [Idle EXCEPT !.pc = "pick", !.task = "bulk", !.found = job[h].found]
    BY <1>1, <1>2 DEF RebuildCommits, Begin, Stop, Does, Onward, Live
  <2> QED
    BY <1>1, <2>1 DEF Idle, SameNote, SameSave, SameTotals, NoNote, NoSave, NoTotals
<1>3. ASSUME Tail(job[h].periods) = <<>> /\ job[h].task # "bulk"
      PROVE  /\ job'[h].pc = "idle" /\ NoNote(h) /\ NoSave(h) /\ NoTotals(h)
  <2>1. job'[h] = Idle
    BY <1>1, <1>3 DEF RebuildCommits, Begin, Stop, Does, Onward, Live
  <2> QED
    BY <1>1, <2>1 DEF Idle, SameNote, SameSave, SameTotals, NoNote, NoSave, NoTotals
<1>4. ASSUME Tail(job[h].periods) # <<>>
      PROVE  /\ job'[h].pc = "read" /\ SameNote(h) /\ SameSave(h)
             /\ job'[h].periods = Tail(job[h].periods) /\ job'[h].tally = 0 /\ job'[h].rows = {}
  <2>1. job'[h] = [Go(h, "read") EXCEPT !.periods = Tail(job[h].periods), !.tally = 0, !.rows =
            {}]
    BY <1>1, <1>4 DEF RebuildCommits, Begin, Stop, Does, Onward, Live
  <2> QED
    BY <1>1, <2>1 DEF Job, Go, SameNote, SameSave, SameTotals, NoNote, NoSave, NoTotals
<1>5. At(h, "commit") /\ Others(h)
  BY <1>1 DEF RebuildCommits, Others, Begin, Stop, Does, At
<1> QED
  BY <1>2, <1>3, <1>4, <1>5

LEMMA HaltTurns ==
    ASSUME TypeInv, NEW h \in Handlers, Halts(h)
    PROVE  /\ ~At(h, "idle") /\ Others(h)
           /\ job'[h].pc = "idle" /\ NoNote(h) /\ NoSave(h) /\ NoTotals(h)
<1>1. job[h] \in Job /\ job \in [Handlers -> Job]
  BY DEF TypeInv, JobsTyped
<1>2. /\ job'[h].pc = "idle" /\ NoNote(h) /\ NoSave(h) /\ NoTotals(h)
  <2>1. job'[h] = Idle
    BY <1>1 DEF Halts, Begin, Stop, Does, Onward, Live
  <2> QED
    BY <1>1, <2>1 DEF Idle, SameNote, SameSave, SameTotals, NoNote, NoSave, NoTotals
<1>3. ~At(h, "idle") /\ Others(h)
  BY <1>1 DEF Halts, Others, Begin, Stop, Does, At
<1> QED
  BY <1>2, <1>3

LEMMA BulkPickTurns ==
    ASSUME TypeInv, NEW h \in Handlers, BulkPick(h)
    PROVE  /\ At(h, "pick") /\ Others(h)
           /\ \/ /\ job[h].found = {} /\ job'[h].pc = "idle"
                 /\ NoNote(h) /\ NoSave(h) /\ NoTotals(h)
              \/ \E d \in job[h].found :
                    /\ job'[h].pc = "pick" /\ job'[h].task = job[h].task
                    /\ job'[h].load = job[h].load /\ job'[h].body = job[h].body
                    /\ job'[h].found = job[h].found \ {d} /\ SameSave(h) /\ SameTotals(h)
              \/ \E d \in job[h].found :
                    /\ ~Referenced(Reading[d].ref)
                    /\ job'[h].pc = "accept" /\ job'[h].task = job[h].task
                    /\ job'[h].load = d /\ job'[h].body = Reading[d]
                    /\ job'[h].found = job[h].found \ {d} /\ SameSave(h) /\ SameTotals(h)
<1>1. job[h] \in Job /\ job \in [Handlers -> Job]
  BY DEF TypeInv, JobsTyped
<1>2. At(h, "pick") /\ Others(h)
  BY <1>1 DEF BulkPick, Others, Does, At
<1>3. CASE job[h].found = {} /\ Does(h, Idle)
  BY <1>1, <1>2, <1>3 DEF Does, Idle, NoNote, NoSave, NoTotals
<1>4. ASSUME NEW d \in job[h].found, Does(h, [job[h] EXCEPT !.found = @ \ {d}])
      PROVE  /\ job'[h].pc = "pick" /\ job'[h].task = job[h].task
             /\ job'[h].load = job[h].load /\ job'[h].body = job[h].body
             /\ job'[h].found = job[h].found \ {d} /\ SameSave(h) /\ SameTotals(h)
  BY <1>1, <1>2, <1>4 DEF Does, Job, At, SameSave, SameTotals
<1>5. ASSUME NEW d \in job[h].found,
             Does(h, [job[h] EXCEPT !.found = @ \ {d}, !.pc = "accept", !.load = d,
                         !.body = Reading[d]])
      PROVE  /\ job'[h].pc = "accept" /\ job'[h].task = job[h].task
             /\ job'[h].load = d /\ job'[h].body = Reading[d]
             /\ job'[h].found = job[h].found \ {d} /\ SameSave(h) /\ SameTotals(h)
  BY <1>1, <1>5 DEF Does, Job, SameSave, SameTotals
<1> QED
  BY <1>2, <1>3, <1>4, <1>5, PickTurns

LEMMA InsertJob ==
    ASSUME TypeInv, NEW h \in Handlers, NEW b \in Bodies, NEW from \in Loads, NEW sure \in BOOLEAN,
           Insert(h, from, b, sure)
    PROVE  /\ Others(h)
           /\ job'[h].pc = "sync" /\ job'[h].task = job[h].task /\ job'[h].load = Form
           /\ job'[h].body = NoBody /\ job'[h].found = job[h].found
           /\ job'[h].rec = Len(recs) + 1 /\ job'[h].was = job[h].was
           /\ job'[h].saw = job[h].saw /\ job'[h].act = job[h].act
           /\ job'[h].periods = Inserted(h, b).periods
           /\ job'[h].tally = job[h].tally /\ job'[h].rows = job[h].rows
<1>1. job[h] \in Job /\ job'[h] = Inserted(h, b) /\ Others(h)
  BY InsertTurns DEF Turns, Others, TypeInv, JobsTyped
<1>2. /\ Inserted(h, b).pc = "sync" /\ Inserted(h, b).task = job[h].task
      /\ Inserted(h, b).load = Form /\ Inserted(h, b).body = NoBody
      /\ Inserted(h, b).found = job[h].found /\ Inserted(h, b).rec = Len(recs) + 1
      /\ Inserted(h, b).was = job[h].was /\ Inserted(h, b).saw = job[h].saw
      /\ Inserted(h, b).act = job[h].act
      /\ Inserted(h, b).tally = job[h].tally /\ Inserted(h, b).rows = job[h].rows
  BY <1>1 DEF Inserted, Job
<1> QED
  BY <1>1, <1>2

LEMMA AcceptTurns ==
    ASSUME TypeInv, NEW h \in Handlers, Accept(h)
    PROVE  /\ At(h, "accept") /\ job[h].load \in Docs /\ job[h].load \in Loads
           /\ job[h].body \in Bodies
           /\ (job[h].task = "bulk" /\ docs[job[h].load].status = "pending") \in BOOLEAN
           /\ Claimed(job[h].load) =>
                 /\ Insert(h, job[h].load, job[h].body,
                           job[h].task = "bulk" /\ docs[job[h].load].status = "pending")
                 /\ docs' = [docs EXCEPT ![job[h].load] =
                                [status |-> "accepted", record |-> Len(recs) + 1]]
           /\ ~Claimed(job[h].load) =>
                 /\ UNCHANGED <<docs, recs, spoiled>> /\ Others(h)
                 /\ NoSave(h) /\ NoTotals(h) /\ job'[h].load = Form
                 /\ \/ job[h].task = "bulk" /\ job'[h].pc = "pick" /\ job'[h].task = "bulk"
                       /\ job'[h].found = job[h].found
                    \/ job[h].task # "bulk" /\ job'[h].pc = "idle" /\ job'[h].task = "one"
                       /\ job'[h].found = {}
<1>1. job[h] \in Job /\ job \in [Handlers -> Job] /\ At(h, "accept")
  BY DEF TypeInv, JobsTyped, Accept
<1>2. job[h].load \in Docs /\ job[h].load \in Loads /\ job[h].body \in Bodies
  BY <1>1 DEF TypeInv, PlacesTyped, Placed, At, Loads
<1>3. CASE Claimed(job[h].load)
  BY <1>1, <1>2, <1>3 DEF Accept
<1>4. CASE ~Claimed(job[h].load)
  <2>1. UNCHANGED <<docs, recs, spoiled>> /\ job' = [job EXCEPT ![h] = Onward(h)]
    BY <1>1, <1>4 DEF Accept, Does
  <2>2. Others(h) /\ job'[h] = Onward(h)
    BY <1>1, <2>1 DEF Others
  <2>3. CASE job[h].task = "bulk"
    BY <1>1, <1>2, <1>4, <2>1, <2>2, <2>3 DEF Onward, Idle, NoSave, NoTotals
  <2>4. CASE job[h].task # "bulk"
    BY <1>1, <1>2, <1>4, <2>1, <2>2, <2>4 DEF Onward, Idle, NoSave, NoTotals
  <2> QED
    BY <2>3, <2>4
<1> QED
  BY <1>3, <1>4

LEMMA ReceiveTurns ==
    ASSUME TypeInv, NEW h \in Handlers, Receive(h)
    PROVE  /\ At(h, "receive") /\ job[h].load \in Moves /\ job[h].load \in Loads
           /\ job[h].body \in Bodies
           /\ InTable(moves[job[h].load]) =>
                 /\ Insert(h, job[h].load, job[h].body, FALSE)
                 /\ moves' = [moves EXCEPT ![job[h].load] =
                                 [status |-> "received", record |-> Len(recs) + 1]]
           /\ ~InTable(moves[job[h].load]) =>
                 /\ UNCHANGED <<moves, recs, spoiled>> /\ Others(h)
                 /\ job'[h].pc = "idle" /\ NoNote(h) /\ NoSave(h) /\ NoTotals(h)
<1>1. job[h] \in Job /\ job \in [Handlers -> Job] /\ At(h, "receive")
  BY DEF TypeInv, JobsTyped, Receive
<1>2. job[h].load \in Moves /\ job[h].load \in Loads /\ job[h].body \in Bodies
  BY <1>1 DEF TypeInv, PlacesTyped, Placed, At, Loads
<1>3. CASE InTable(moves[job[h].load])
  BY <1>1, <1>2, <1>3 DEF Receive
<1>4. CASE ~InTable(moves[job[h].load])
  <2>1. UNCHANGED <<moves, recs, spoiled>> /\ job' = [job EXCEPT ![h] = Idle]
    BY <1>1, <1>4 DEF Receive, Does
  <2>2. Others(h) /\ job'[h] = Idle
    BY <1>1, <2>1 DEF Others
  <2> QED
    BY <1>1, <1>2, <1>4, <2>1, <2>2 DEF Idle, NoNote, NoSave, NoTotals
<1> QED
  BY <1>3, <1>4

---------------------------------------------------------------------------
(* A note, or a load, and the record made of it. *)

\* No load is received, and no record is made.
NoLoads ==
    /\ DOMAIN recs' = DOMAIN recs /\ RecsGrow
    /\ \A d \in Docs : docs'[d].record = docs[d].record
    /\ \A m \in Moves : moves'[m].record = moves[m].record
    /\ raced \subseteq raced'
    /\ \A h \in Handlers : job'[h] = job[h] \/ job'[h].pc # "receive"

LEMMA NoLoadsKeep ==
    ASSUME TypeInv, LoadInv, NoLoads
    PROVE  LoadInv'
<1>1. \A h \in Handlers : job'[h].pc = "receive" => job'[h] = job[h] /\ job[h].load \in Moves
  BY DEF NoLoads, TypeInv, PlacesTyped, Placed
<1> QED
  BY <1>1 DEF NoLoads, LoadInv, At, RecsGrow

LEMMA InsertLoads ==
    ASSUME TypeInv, LoadInv, NEW h \in Handlers, NEW b \in Bodies, NEW from \in Loads,
           NEW sure \in BOOLEAN, Insert(h, from, b, sure), raced' = raced,
           \A d \in Docs \ {from} : docs'[d].record = docs[d].record,
           \A m \in Moves \ {from} : moves'[m].record = moves[m].record,
           from \in Docs => docs[from].record = 0 /\ docs'[from].record = Len(recs) + 1,
           from \in Moves => moves'[from].record = Len(recs) + 1,
           from \in Moves \ raced => moves[from].record = 0,
           from \in Moves =>
              \A g \in Handlers \ {h} : At(g, "receive") /\ job[g].load = from => from \in raced
    PROVE  LoadInv'
<1> DEFINE n == Len(recs) + 1
<1>1. /\ DOMAIN recs = 1 .. Len(recs) /\ DOMAIN recs' = 1 .. n /\ Len(recs) \in Nat
      /\ recs'[n] = Row(from, sure, b) /\ \A r \in DOMAIN recs : recs'[r] = recs[r]
      /\ Turns(h, Inserted(h, b))
  BY InsertTurns
<1>2. recs'[n].from = from
  BY <1>1 DEF Row
<1>3. job'[h].pc = "sync"
  BY <1>1 DEF Turns, Inserted, TypeInv, JobsTyped, Job
<1>4. \A r \in DOMAIN recs' : r # 0 /\ (r \in DOMAIN recs \/ r = n)
  BY <1>1
<1>5. \A r \in DOMAIN recs : r # 0 /\ recs'[r].from = recs[r].from
  BY <1>1
<1> HIDE DEF n
<1>6. \A r \in DOMAIN recs' : recs'[r].from \in Docs => docs'[recs'[r].from].record = r
  BY <1>2, <1>4, <1>5 DEF LoadInv, n
<1>7. \A r \in DOMAIN recs' : recs'[r].from \in Moves \ raced => moves'[recs'[r].from].record = r
  BY <1>2, <1>4, <1>5 DEF LoadInv, n
<1>8. \A g \in Handlers : At(g, "receive")' =>
         job'[g] = job[g] /\ At(g, "receive") /\ g # h /\ job[g].load \in Moves
  BY <1>1, <1>3 DEF Turns, At, TypeInv, PlacesTyped, Placed
<1> QED
  BY <1>6, <1>7, <1>8 DEF LoadInv

LEMMA ByHandLoads ==
    ASSUME TypeInv, ActsInv, LoadInv, ByHand
    PROVE  LoadInv'
<1>1. HandWrites
  BY ByHandWrites
<1>2. docs' = docs /\ moves' = moves /\ job' = job /\ raced' = raced
  BY ByHandLeaves
<1>3. \A r \in DOMAIN recs' : recs'[r].from \in Docs \cup Moves =>
         r \in DOMAIN recs /\ recs'[r].from = recs[r].from
  BY <1>1, SourceAssumption DEF HandWrites, RecKept, RecMade
<1> QED
  BY <1>2, <1>3 DEF LoadInv, At

LEMMA LoadInvStep ==
    ASSUME TypeInv, ActsInv, LoadInv, [Next]_vars
    PROVE  LoadInv'
<1> USE DEF tables, inbox, history
<1>1. ASSUME NEW d \in Docs, Submit(d) PROVE LoadInv'
  <2>1. NoLoads
    BY <1>1, RecsGrowStep
    DEF NoLoads, Others, Submit, TypeInv, InboxTyped
  <2> QED
    BY <2>1, NoLoadsKeep
<1>2. ASSUME NEW d \in Docs, Decide(d) PROVE LoadInv'
  <2>1. NoLoads
    BY <1>2, RecsGrowStep
    DEF NoLoads, Others, Decide, TypeInv, InboxTyped
  <2> QED
    BY <2>1, NoLoadsKeep
<1>3. ASSUME NEW d \in Docs, RemoveNote(d) PROVE LoadInv'
  <2>1. NoLoads
    BY <1>3, RecsGrowStep
    DEF NoLoads, Others, RemoveNote, TypeInv, InboxTyped
  <2> QED
    BY <2>1, NoLoadsKeep
<1>4. ASSUME NEW m \in Moves, RemoveMove(m) PROVE LoadInv'
  <2>1. NoLoads
    BY <1>4, RecsGrowStep
    DEF NoLoads, Others, RemoveMove, TypeInv, InboxTyped
  <2> QED
    BY <2>1, NoLoadsKeep
<1>5. ASSUME NEW h \in Handlers, BulkFind(h) PROVE LoadInv'
  <2>1. NoLoads
    BY <1>5, RecsGrowStep, BulkFindTurns
    DEF NoLoads, Others, BulkFind, Begin, At
  <2> QED
    BY <2>1, NoLoadsKeep
<1>6. ASSUME NEW h \in Handlers, BulkWaiting(h) PROVE LoadInv'
  <2>1. NoLoads
    BY <1>6, RecsGrowStep, BulkWaitingTurns
    DEF NoLoads, Others, BulkWaiting, Begin, At
  <2> QED
    BY <2>1, NoLoadsKeep
<1>7. ASSUME NEW h \in Handlers, BulkSeen(h) PROVE LoadInv'
  <2>1. NoLoads
    BY <1>7, RecsGrowStep, BulkSeenTurns
    DEF NoLoads, Others, BulkSeen, Begin, At
  <2> QED
    BY <2>1, NoLoadsKeep
<1>8. ASSUME NEW h \in Handlers, BulkPick(h) PROVE LoadInv'
  <2>1. NoLoads
    BY <1>8, RecsGrowStep, BulkPickTurns
    DEF NoLoads, Others, BulkPick, Begin, At
  <2> QED
    BY <2>1, NoLoadsKeep
<1>9. ASSUME NEW h \in Handlers, NEW b \in Bodies, Create(h, b) PROVE LoadInv'
  <2>1. Form \in Loads /\ FALSE \in BOOLEAN /\ Insert(h, Form, b, FALSE)
    BY <1>9 DEF Loads, Create
  <2>2. UNCHANGED <<inbox, raced>>
    BY <1>9 DEF Create
  <2>3. Form \notin Docs \cup Moves
    BY SourceAssumption
  <2> QED
    BY <2>1, <2>2, <2>3, InsertLoads DEF inbox
<1>10. ASSUME NEW h \in Handlers, NEW b \in Bodies, UploadRow(h, b) PROVE LoadInv'
  <2>1. Form \in Loads /\ FALSE \in BOOLEAN /\ Insert(h, Form, b, FALSE)
    BY <1>10 DEF Loads, UploadRow
  <2>2. UNCHANGED <<inbox, raced>>
    BY <1>10 DEF UploadRow
  <2>3. Form \notin Docs \cup Moves
    BY SourceAssumption
  <2> QED
    BY <2>1, <2>2, <2>3, InsertLoads DEF inbox
<1>11. ASSUME NEW h \in Handlers, NEW b \in Bodies, Edit(h, b) PROVE LoadInv'
  <2>1. NoLoads
    BY <1>11, RecsGrowStep, EditTurns
    DEF NoLoads, Others, Edit, Begin, At
  <2> QED
    BY <2>1, NoLoadsKeep
<1>12. ASSUME NEW h \in Handlers, NEW b \in Bodies, NEW d \in Docs, Review(h, d, b) PROVE LoadInv'
  <2>1. NoLoads
    BY <1>12, RecsGrowStep, ReviewTurns
    DEF NoLoads, Others, Review, Begin, At
  <2> QED
    BY <2>1, NoLoadsKeep
<1>13. ASSUME NEW h \in Handlers, NEW b \in Bodies, NEW m \in Moves, ReceiveLoad(h, m, b)
        PROVE  LoadInv'
  <2>1. job'[h].pc = "receive" /\ job'[h].load = m /\ Others(h)
    BY <1>13, ReceiveLoadTurns
  <2>2. UNCHANGED <<docs, moves, recs>> /\ moves[m].record = 0 /\ raced \subseteq raced'
    BY <1>13 DEF ReceiveLoad, Receivable, tables
  <2>3. \A g \in Handlers : At(g, "receive") /\ job[g].load = m => m \in raced'
    BY <1>13 DEF ReceiveLoad
  <2> QED
    BY <2>1, <2>2, <2>3 DEF LoadInv, At, Others
<1>14. ASSUME NEW h \in Handlers, NEW r \in DOMAIN recs, NEW step \in {"edit", "delete"},
              Open(h, r, step)
        PROVE  LoadInv'
  <2>1. NoLoads
    BY <1>14, RecsGrowStep, OpenTurns
    DEF NoLoads, Others, Open, Begin, At
  <2> QED
    BY <2>1, NoLoadsKeep
<1>15. ASSUME NEW h \in Handlers, NEW p \in Periods, SaveWater(h, p) PROVE LoadInv'
  <2>1. NoLoads
    BY <1>15, RecsGrowStep, SaveWaterTurns
    DEF NoLoads, Others, SaveWater, Begin, At
  <2> QED
    BY <2>1, NoLoadsKeep
<1>16. ASSUME NEW h \in Handlers, NEW m \in Moves, Mark(h, m) PROVE LoadInv'
  <2>1. NoLoads
    BY <1>16, RecsGrowStep, MarkTurns
    DEF NoLoads, Others, Mark, Begin, At
  <2> QED
    BY <2>1, NoLoadsKeep
<1>17. ASSUME NEW h \in Handlers, Upload(h) PROVE LoadInv'
  <2>1. NoLoads
    BY <1>17, RecsGrowStep, UploadTurns
    DEF NoLoads, Others, Upload, Begin, At
  <2> QED
    BY <2>1, NoLoadsKeep
<1>18. ASSUME NEW h \in Handlers, SyncRead(h) PROVE LoadInv'
  <2>1. NoLoads
    BY <1>18, RecsGrowStep, SyncReadTurns
    DEF NoLoads, Others, SyncRead, Begin, At
  <2> QED
    BY <2>1, NoLoadsKeep
<1>19. ASSUME NEW h \in Handlers, MakeActivity(h) PROVE LoadInv'
  <2>1. NoLoads
    BY <1>19, RecsGrowStep, MakeActivityTurns
    DEF NoLoads, Others, MakeActivity, Begin, At
  <2> QED
    BY <2>1, NoLoadsKeep
<1>20. ASSUME NEW h \in Handlers, LinkActivity(h) PROVE LoadInv'
  <2>1. NoLoads
    BY <1>20, RecsGrowStep, LinkActivityTurns
    DEF NoLoads, Others, LinkActivity, Begin, At
  <2> QED
    BY <2>1, NoLoadsKeep
<1>21. ASSUME NEW h \in Handlers, UpdateActivity(h) PROVE LoadInv'
  <2>1. NoLoads
    BY <1>21, RecsGrowStep, UpdateActivityTurns
    DEF NoLoads, Others, UpdateActivity, Begin, At
  <2> QED
    BY <2>1, NoLoadsKeep
<1>22. ASSUME NEW h \in Handlers, Calculate(h) PROVE LoadInv'
  <2>1. NoLoads
    BY <1>22, RecsGrowStep, CalculateTurns
    DEF NoLoads, Others, Calculate, Begin, At
  <2> QED
    BY <2>1, NoLoadsKeep
<1>23. ASSUME NEW h \in Handlers, WriteFigure(h) PROVE LoadInv'
  <2>1. NoLoads
    BY <1>23, RecsGrowStep, WriteFigureTurns
    DEF NoLoads, Others, WriteFigure, Begin, At
  <2> QED
    BY <2>1, NoLoadsKeep
<1>24. ASSUME NEW h \in Handlers, RebuildReads(h) PROVE LoadInv'
  <2>1. NoLoads
    BY <1>24, RecsGrowStep, RebuildReadsTurns
    DEF NoLoads, Others, RebuildReads, Begin, At
  <2> QED
    BY <2>1, NoLoadsKeep
<1>25. ASSUME NEW h \in Handlers, RebuildClears(h) PROVE LoadInv'
  <2>1. NoLoads
    BY <1>25, RecsGrowStep, RebuildClearsTurns
    DEF NoLoads, Others, RebuildClears, Begin, At
  <2> QED
    BY <2>1, NoLoadsKeep
<1>26. ASSUME NEW h \in Handlers, RebuildCommits(h) PROVE LoadInv'
  <2>1. NoLoads
    BY <1>26, RecsGrowStep, RebuildCommitsTurns
    DEF NoLoads, Others, RebuildCommits, Begin, At
  <2> QED
    BY <2>1, NoLoadsKeep
<1>27. ASSUME NEW h \in Handlers, Halts(h) PROVE LoadInv'
  <2>1. NoLoads
    BY <1>27, RecsGrowStep, HaltTurns
    DEF NoLoads, Others, Halts, Begin, At
  <2> QED
    BY <2>1, NoLoadsKeep
<1>28. ASSUME NEW h \in Handlers, Accept(h) PROVE LoadInv'
  <2> DEFINE d == job[h].load
             sure == job[h].task = "bulk" /\ docs[d].status = "pending"
  <2>1. d \in Docs /\ d \in Loads /\ sure \in BOOLEAN /\ job[h].body \in Bodies
    BY <1>28, AcceptTurns
  <2>2. CASE Claimed(d)
    <3>1. Insert(h, d, job[h].body, sure)
      BY <1>28, <2>2, AcceptTurns
    <3>2. /\ docs' = [docs EXCEPT ![d] = [status |-> "accepted", record |-> Len(recs) + 1]]
          /\ UNCHANGED <<moves, raced>> /\ docs[d].record = 0
      BY <1>28, <2>2, AcceptTurns DEF Accept, Claimed
    <3>3. /\ d \notin Moves /\ docs'[d].record = Len(recs) + 1
          /\ \A e \in Docs \ {d} : docs'[e].record = docs[e].record
      BY <2>1, <3>2, SourceAssumption DEF TypeInv, InboxTyped
    <3> HIDE DEF d, sure
    <3> QED
      BY <2>1, <3>1, <3>2, <3>3, InsertLoads
  <2>3. CASE ~Claimed(d)
    <3>1. NoLoads
      BY <1>28, <2>3, RecsGrowStep, AcceptTurns DEF NoLoads, Accept, Others
    <3> QED
      BY <3>1, NoLoadsKeep
  <2> QED
    BY <2>2, <2>3
<1>29. ASSUME NEW h \in Handlers, Receive(h) PROVE LoadInv'
  <2> DEFINE m == job[h].load
  <2>1. m \in Moves /\ m \in Loads /\ FALSE \in BOOLEAN /\ job[h].body \in Bodies /\
           At(h, "receive")
    BY <1>29, ReceiveTurns
  <2>2. CASE InTable(moves[m])
    <3>1. Insert(h, m, job[h].body, FALSE)
      BY <1>29, <2>2, ReceiveTurns
    <3>2. /\ moves' = [moves EXCEPT ![m] = [status |-> "received", record |-> Len(recs) + 1]]
          /\ UNCHANGED <<docs, raced>>
      BY <1>29, <2>2, ReceiveTurns DEF Receive
    <3>3. /\ m \notin Docs /\ moves'[m].record = Len(recs) + 1
          /\ \A n \in Moves \ {m} : moves'[n].record = moves[n].record
      BY <2>1, <3>2, SourceAssumption DEF TypeInv, InboxTyped
    <3>4. m \notin raced => moves[m].record = 0
      BY <2>1 DEF LoadInv
    <3>5. \A g \in Handlers \ {h} : At(g, "receive") /\ job[g].load = m => m \in raced
      BY <2>1 DEF LoadInv
    <3> HIDE DEF m
    <3> QED
      BY <2>1, <3>1, <3>2, <3>3, <3>4, <3>5, InsertLoads
  <2>3. CASE ~InTable(moves[m])
    <3>1. NoLoads
      BY <1>29, <2>3, RecsGrowStep, ReceiveTurns DEF NoLoads, Receive, Others
    <3> QED
      BY <3>1, NoLoadsKeep
  <2> QED
    BY <2>2, <2>3
<1>30. ASSUME NEW h \in Handlers, Delete(h) PROVE LoadInv'
  <2>1. NoLoads
    BY <1>30, RecsGrowStep, DeleteTurns
    DEF NoLoads, Others, Delete, Begin, At
  <2> QED
    BY <2>1, NoLoadsKeep
<1>31. ASSUME NEW h \in Handlers, MarkWrites(h) PROVE LoadInv'
  <2>1. NoLoads
    BY <1>31, RecsGrowStep, MarkWritesTurns
    DEF NoLoads, Others, MarkWrites, TypeInv, InboxTyped, PlacesTyped, Placed, At
  <2> QED
    BY <2>1, NoLoadsKeep
<1>32. ASSUME NEW h \in Handlers, UploadEnds(h) PROVE LoadInv'
  <2>1. NoLoads
    BY <1>32, RecsGrowStep, UploadEndsTurns
    DEF NoLoads, Others, UploadEnds, Begin, At
  <2> QED
    BY <2>1, NoLoadsKeep
<1>33. ASSUME UNCHANGED vars PROVE LoadInv'
  <2>1. NoLoads
    BY <1>33, RecsGrowStep
    DEF NoLoads, Others, vars
  <2> QED
    BY <2>1, NoLoadsKeep
<1>34. ASSUME ByHand PROVE LoadInv'
  BY <1>34, ByHandLoads
<1> QED
  BY <1>1, <1>2, <1>3, <1>4, <1>5, <1>6, <1>7, <1>8, <1>9, <1>10, <1>11, <1>12, <1>13,
     <1>14, <1>15, <1>16, <1>17, <1>18, <1>19, <1>20, <1>21, <1>22, <1>23, <1>24, <1>25,
     <1>26, <1>27, <1>28, <1>29, <1>30, <1>31, <1>32, <1>33,
     <1>34, HaltsEither
     DEF Next, Note, Bulk, Asks, Saves, Rebuild

---------------------------------------------------------------------------
(* What the steps write to a record. *)

LEMMA LinkActivityWrites ==
    ASSUME TypeInv, NEW h \in Handlers, LinkActivity(h)
    PROVE  /\ job[h].rec \in DOMAIN recs /\ DOMAIN recs' = DOMAIN recs
           /\ \A r \in DOMAIN recs \ {job[h].rec} : recs'[r] = recs[r]
           /\ ~Live(job[h].rec) => recs' = recs
           /\ Live(job[h].rec) =>
                 /\ recs'[job[h].rec].link = job[h].act
                 /\ recs'[job[h].rec].live = recs[job[h].rec].live
                 /\ recs'[job[h].rec].from = recs[job[h].rec].from
                 /\ recs'[job[h].rec].sure = recs[job[h].rec].sure
                 /\ recs'[job[h].rec].ref = recs[job[h].rec].ref
                 /\ recs'[job[h].rec].weight = recs[job[h].rec].weight
                 /\ recs'[job[h].rec].period = recs[job[h].rec].period
                 /\ recs'[job[h].rec].co2e = recs[job[h].rec].co2e
<1>1. job[h].rec \in DOMAIN recs /\ recs[job[h].rec] \in Rec
  BY ElementOfSeq DEF TypeInv, RecsTyped, PlacesTyped, Placed, LinkActivity, At, SaveSteps
<1>2. Live(job[h].rec) =>
         recs' = [recs EXCEPT ![job[h].rec] = [recs[job[h].rec] EXCEPT !.link = job[h].act]]
  BY DEF LinkActivity
<1>3. ~Live(job[h].rec) => recs' = recs
  BY DEF LinkActivity
<1> QED
  BY <1>1, <1>2, <1>3 DEF Rec

LEMMA WriteFigureWrites ==
    ASSUME TypeInv, NEW h \in Handlers, WriteFigure(h)
    PROVE  /\ job[h].rec \in DOMAIN recs /\ DOMAIN recs' = DOMAIN recs
           /\ \A r \in DOMAIN recs \ {job[h].rec} : recs'[r] = recs[r]
           /\ ~Live(job[h].rec) => recs' = recs
           /\ Live(job[h].rec) =>
                 /\ recs'[job[h].rec].co2e = job[h].saw.weight
                 /\ recs'[job[h].rec].live = recs[job[h].rec].live
                 /\ recs'[job[h].rec].from = recs[job[h].rec].from
                 /\ recs'[job[h].rec].sure = recs[job[h].rec].sure
                 /\ recs'[job[h].rec].ref = recs[job[h].rec].ref
                 /\ recs'[job[h].rec].weight = recs[job[h].rec].weight
                 /\ recs'[job[h].rec].period = recs[job[h].rec].period
                 /\ recs'[job[h].rec].link = recs[job[h].rec].link
<1>1. job[h].rec \in DOMAIN recs /\ recs[job[h].rec] \in Rec
  BY ElementOfSeq DEF TypeInv, RecsTyped, PlacesTyped, Placed, WriteFigure, At, SaveSteps
<1>2. Live(job[h].rec) =>
         recs' = [recs EXCEPT ![job[h].rec] =
                     [recs[job[h].rec] EXCEPT !.co2e = job[h].saw.weight]]
  BY DEF WriteFigure
<1>3. ~Live(job[h].rec) => recs' = recs
  BY DEF WriteFigure
<1> QED
  BY <1>1, <1>2, <1>3 DEF Rec

LEMMA DeleteWrites ==
    ASSUME TypeInv, NEW h \in Handlers, Delete(h)
    PROVE  /\ job[h].rec \in DOMAIN recs /\ DOMAIN recs' = DOMAIN recs
           /\ \A r \in DOMAIN recs \ {job[h].rec} : recs'[r] = recs[r]
           /\ ~Live(job[h].rec) => recs' = recs
           /\ Live(job[h].rec) =>
                 /\ recs'[job[h].rec].live = FALSE /\ recs'[job[h].rec].sure = FALSE
                 /\ recs'[job[h].rec].ref = NoRef /\ recs'[job[h].rec].weight = 0
                 /\ recs'[job[h].rec].period = 0 /\ recs'[job[h].rec].link = 0
                 /\ recs'[job[h].rec].co2e = 0 /\ recs'[job[h].rec].from = recs[job[h].rec].from
<1>1. job[h].rec \in DOMAIN recs /\ recs[job[h].rec] \in Rec
  BY ElementOfSeq DEF TypeInv, RecsTyped, PlacesTyped, Placed, Delete, At, SaveSteps
<1>2. Live(job[h].rec) =>
         recs' = [recs EXCEPT ![job[h].rec] =
                     [live |-> FALSE, from |-> recs[job[h].rec].from, sure |-> FALSE, ref |-> NoRef,
                      weight |-> 0, period |-> 0, link |-> 0, co2e |-> 0]]
  BY DEF Delete
<1>3. ~Live(job[h].rec) => recs' = recs
  BY DEF Delete
<1> QED
  BY <1>1, <1>2, <1>3 DEF Rec

LEMMA EditWrites ==
    ASSUME TypeInv, NEW h \in Handlers, NEW b \in Bodies, Edit(h, b)
    PROVE  /\ job[h].rec \in DOMAIN recs /\ DOMAIN recs' = DOMAIN recs
           /\ \A r \in DOMAIN recs \ {job[h].rec} : recs'[r] = recs[r]
           /\ ~Live(job[h].rec) => recs' = recs
           /\ Live(job[h].rec) =>
                 /\ recs'[job[h].rec].ref = b.ref /\ recs'[job[h].rec].weight = b.weight
                 /\ recs'[job[h].rec].period = b.period
                 /\ (recs'[job[h].rec].sure => recs[job[h].rec].sure /\ recs[job[h].rec].ref =
                       b.ref)
                 /\ recs'[job[h].rec].live = recs[job[h].rec].live
                 /\ recs'[job[h].rec].from = recs[job[h].rec].from
                 /\ recs'[job[h].rec].link = recs[job[h].rec].link
                 /\ recs'[job[h].rec].co2e = recs[job[h].rec].co2e
<1>1. job[h].rec \in DOMAIN recs /\ recs[job[h].rec] \in Rec
  BY ElementOfSeq DEF TypeInv, RecsTyped, PlacesTyped, Placed, Edit, At, SaveSteps
<1>2. Live(job[h].rec) =>
         recs' = [recs EXCEPT ![job[h].rec] =
                     [recs[job[h].rec] EXCEPT !.ref = b.ref, !.weight = b.weight,
                      !.period = b.period,
                      !.sure = @ /\ recs[job[h].rec].ref = b.ref]]
  BY DEF Edit
<1>3. ~Live(job[h].rec) => recs' = recs
  BY DEF Edit
<1> DEFINE x == recs[job[h].rec].sure /\ recs[job[h].rec].ref = b.ref
           new == [recs[job[h].rec] EXCEPT !.ref = b.ref, !.weight = b.weight,
                                           !.period = b.period, !.sure = x]
<1>4. Live(job[h].rec) => recs' = [recs EXCEPT ![job[h].rec] = new]
  BY <1>2
<1> HIDE DEF x
<1>5. /\ new.ref = b.ref /\ new.weight = b.weight /\ new.period = b.period /\ new.sure = x
      /\ new.live = recs[job[h].rec].live /\ new.from = recs[job[h].rec].from
      /\ new.link = recs[job[h].rec].link /\ new.co2e = recs[job[h].rec].co2e
  BY <1>1 DEF Rec
<1> HIDE DEF new
<1>6. Live(job[h].rec) => recs'[job[h].rec] = new
  BY <1>1, <1>4
<1>7. Live(job[h].rec) =>
         (recs'[job[h].rec].sure => recs[job[h].rec].sure /\ recs[job[h].rec].ref = b.ref)
  BY <1>5, <1>6 DEF x
<1> QED
  BY <1>1, <1>3, <1>4, <1>5, <1>6, <1>7

---------------------------------------------------------------------------
(* Activity records, and the records that link to them. *)

NoActs ==
    /\ DOMAIN acts' = DOMAIN acts
    /\ \A a \in DOMAIN acts : /\ acts'[a].of = acts[a].of /\ acts'[a].live = acts[a].live
                              /\ acts'[a].approved = acts[a].approved
                              /\ acts'[a].reviewed = acts[a].reviewed
    /\ RecsGrow
    /\ \A r \in DOMAIN recs' :
          recs'[r].link = 0 \/ (r \in DOMAIN recs /\ recs'[r].link = recs[r].link)
    /\ \A h \in Handlers : job'[h] = job[h] \/ job'[h].pc \notin {"update", "link", "run"}

LEMMA NoActsKeep ==
    ASSUME TypeInv, ActsInv, NoActs
    PROVE  ActsInv'
BY DEF NoActs, ActsInv, At, RecsGrow

LEMMA InsertActs ==
    ASSUME TypeInv, ActsInv, NEW h \in Handlers, NEW b \in Bodies, NEW from \in Loads,
           NEW sure \in BOOLEAN, Insert(h, from, b, sure), acts' = acts
    PROVE  ActsInv'
<1>1. /\ DOMAIN recs = 1 .. Len(recs) /\ DOMAIN recs' = 1 .. Len(recs) + 1 /\ Len(recs) \in Nat
      /\ recs'[Len(recs) + 1] = Row(from, sure, b) /\ \A r \in DOMAIN recs : recs'[r] = recs[r]
  BY InsertTurns
<1>2. recs'[Len(recs) + 1].link = 0
  BY <1>1 DEF Row
<1>3. \A r \in DOMAIN recs' : r \in DOMAIN recs \/ r = Len(recs) + 1
  BY <1>1
<1>4. RecsGrow
  BY InsertGrows
<1>5. \A g \in Handlers : job'[g] = job[g] \/ job'[g].pc = "sync"
  BY InsertJob DEF Others
<1>6. NoActs
  BY <1>1, <1>2, <1>3, <1>4, <1>5 DEF NoActs
<1> QED
  BY <1>6, NoActsKeep

LEMMA ByHandActs ==
    ASSUME TypeInv, ActsInv, ByHand
    PROVE  ActsInv'
<1>1. HandWrites /\ job' = job
  BY ByHandWrites, ByHandLeaves
<1>2. \A r \in DOMAIN recs : r \in DOMAIN recs'
  BY <1>1 DEF HandWrites, RecKept
<1>3. \A a \in DOMAIN acts : a \in DOMAIN acts' /\ acts'[a].of = acts[a].of
  BY <1>1 DEF HandWrites, ActKept
<1>4. \A a \in DOMAIN acts' : acts'[a].of \in DOMAIN recs'
  BY <1>1, <1>2, <1>3 DEF HandWrites, ActMade, ActsInv
<1>5. ASSUME NEW r \in DOMAIN recs', recs'[r].link # 0
      PROVE  /\ recs'[r].link \in DOMAIN acts' /\ acts'[recs'[r].link].of = r
             /\ acts'[recs'[r].link].live
  <2>1. CASE r \in DOMAIN recs
    <3>1. recs'[r].link = recs[r].link
      BY <1>1, <1>5, <2>1 DEF HandWrites, RecKept
    <3>2. recs[r].link \in DOMAIN acts /\ acts[recs[r].link].of = r /\ acts[recs[r].link].live
      BY <1>5, <2>1, <3>1 DEF ActsInv
    <3>3. ActKept(recs[r].link)
      BY <1>1, <3>2 DEF HandWrites
    <3> QED
      BY <1>3, <3>1, <3>2, <3>3 DEF ActKept
  <2>2. CASE r \notin DOMAIN recs
    BY <1>1, <2>2 DEF HandWrites, RecMade
  <2> QED
    BY <2>1, <2>2
<1>6. \A a \in DOMAIN acts' : acts'[a].approved \/ acts'[a].reviewed
  BY <1>1 DEF HandWrites, ActKept, ActMade, ActsInv
<1>7. \A h \in Handlers : At(h, "update") =>
         job[h].saw.link \in DOMAIN acts' /\ acts'[job[h].saw.link].of = job[h].rec
  BY <1>3 DEF ActsInv
<1>8. \A h \in Handlers : job[h].pc \in {"link", "run"} =>
         job[h].act \in DOMAIN acts' /\ acts'[job[h].act].of = job[h].rec
  BY <1>3 DEF ActsInv
<1> QED
  BY <1>1, <1>4, <1>5, <1>6, <1>7, <1>8 DEF ActsInv, At

LEMMA ActsInvStep ==
    ASSUME TypeInv, ActsInv, [Next]_vars
    PROVE  ActsInv'
<1> USE DEF tables, inbox, history
<1>1. ASSUME NEW d \in Docs, Submit(d) PROVE ActsInv'
  <2>1. NoActs
    BY <1>1, RecsGrowStep
    DEF NoActs, Others, Submit
  <2> QED
    BY <2>1, NoActsKeep
<1>2. ASSUME NEW d \in Docs, Decide(d) PROVE ActsInv'
  <2>1. NoActs
    BY <1>2, RecsGrowStep
    DEF NoActs, Others, Decide
  <2> QED
    BY <2>1, NoActsKeep
<1>3. ASSUME NEW d \in Docs, RemoveNote(d) PROVE ActsInv'
  <2>1. NoActs
    BY <1>3, RecsGrowStep
    DEF NoActs, Others, RemoveNote
  <2> QED
    BY <2>1, NoActsKeep
<1>4. ASSUME NEW m \in Moves, RemoveMove(m) PROVE ActsInv'
  <2>1. NoActs
    BY <1>4, RecsGrowStep
    DEF NoActs, Others, RemoveMove
  <2> QED
    BY <2>1, NoActsKeep
<1>5. ASSUME NEW h \in Handlers, BulkFind(h) PROVE ActsInv'
  <2>1. NoActs
    BY <1>5, RecsGrowStep, BulkFindTurns
    DEF NoActs, Others, BulkFind, Begin, At
  <2> QED
    BY <2>1, NoActsKeep
<1>6. ASSUME NEW h \in Handlers, BulkWaiting(h) PROVE ActsInv'
  <2>1. NoActs
    BY <1>6, RecsGrowStep, BulkWaitingTurns
    DEF NoActs, Others, BulkWaiting, Begin, At
  <2> QED
    BY <2>1, NoActsKeep
<1>7. ASSUME NEW h \in Handlers, BulkSeen(h) PROVE ActsInv'
  <2>1. NoActs
    BY <1>7, RecsGrowStep, BulkSeenTurns
    DEF NoActs, Others, BulkSeen, Begin, At
  <2> QED
    BY <2>1, NoActsKeep
<1>8. ASSUME NEW h \in Handlers, BulkPick(h) PROVE ActsInv'
  <2>1. NoActs
    BY <1>8, RecsGrowStep, BulkPickTurns
    DEF NoActs, Others, BulkPick, Begin, At
  <2> QED
    BY <2>1, NoActsKeep
<1>9. ASSUME NEW h \in Handlers, NEW b \in Bodies, Create(h, b) PROVE ActsInv'
  <2>1. Form \in Loads /\ FALSE \in BOOLEAN /\ Insert(h, Form, b, FALSE) /\ UNCHANGED acts
    BY <1>9 DEF Loads, Create
  <2> QED
    BY <2>1, InsertActs
<1>10. ASSUME NEW h \in Handlers, NEW b \in Bodies, UploadRow(h, b) PROVE ActsInv'
  <2>1. Form \in Loads /\ FALSE \in BOOLEAN /\ Insert(h, Form, b, FALSE) /\ UNCHANGED acts
    BY <1>10 DEF Loads, UploadRow
  <2> QED
    BY <2>1, InsertActs
<1>11. ASSUME NEW h \in Handlers, NEW b \in Bodies, Edit(h, b) PROVE ActsInv'
  <2>1. NoActs
    BY <1>11, RecsGrowStep, EditTurns, EditWrites
    DEF NoActs, Others, Edit, Begin, At
  <2> QED
    BY <2>1, NoActsKeep
<1>12. ASSUME NEW h \in Handlers, NEW b \in Bodies, NEW d \in Docs, Review(h, d, b) PROVE ActsInv'
  <2>1. NoActs
    BY <1>12, RecsGrowStep, ReviewTurns
    DEF NoActs, Others, Review, Begin, At
  <2> QED
    BY <2>1, NoActsKeep
<1>13. ASSUME NEW h \in Handlers, NEW b \in Bodies, NEW m \in Moves, ReceiveLoad(h, m, b)
        PROVE  ActsInv'
  <2>1. NoActs
    BY <1>13, RecsGrowStep, ReceiveLoadTurns
    DEF NoActs, Others, ReceiveLoad, Begin, At
  <2> QED
    BY <2>1, NoActsKeep
<1>14. ASSUME NEW h \in Handlers, NEW r \in DOMAIN recs, NEW step \in {"edit", "delete"},
              Open(h, r, step)
        PROVE  ActsInv'
  <2>1. NoActs
    BY <1>14, RecsGrowStep, OpenTurns
    DEF NoActs, Others, Open, Begin, At
  <2> QED
    BY <2>1, NoActsKeep
<1>15. ASSUME NEW h \in Handlers, NEW p \in Periods, SaveWater(h, p) PROVE ActsInv'
  <2>1. NoActs
    BY <1>15, RecsGrowStep, SaveWaterTurns
    DEF NoActs, Others, SaveWater, Begin, At
  <2> QED
    BY <2>1, NoActsKeep
<1>16. ASSUME NEW h \in Handlers, NEW m \in Moves, Mark(h, m) PROVE ActsInv'
  <2>1. NoActs
    BY <1>16, RecsGrowStep, MarkTurns
    DEF NoActs, Others, Mark, Begin, At
  <2> QED
    BY <2>1, NoActsKeep
<1>17. ASSUME NEW h \in Handlers, Upload(h) PROVE ActsInv'
  <2>1. NoActs
    BY <1>17, RecsGrowStep, UploadTurns
    DEF NoActs, Others, Upload, Begin, At
  <2> QED
    BY <2>1, NoActsKeep
<1>18. ASSUME NEW h \in Handlers, SyncRead(h) PROVE ActsInv'
  <2>1. CASE Live(job[h].rec)
    <3>1. /\ job'[h].rec = job[h].rec /\ Others(h)
          /\ job'[h].pc = IF recs[job[h].rec].link = 0 THEN "make" ELSE "update"
          /\ job'[h].saw = [weight |-> recs[job[h].rec].weight,
                            period |-> recs[job[h].rec].period, link |-> recs[job[h].rec].link]
      BY <1>18, <2>1, SyncReadTurns
    <3>3. job'[h].saw.link = recs[job[h].rec].link
      BY <3>1
    <3>2. UNCHANGED <<recs, acts>> /\ job[h].rec \in DOMAIN recs
      BY <1>18 DEF SyncRead, tables, TypeInv, PlacesTyped, Placed, At, SaveSteps
    <3> QED
      BY <3>1, <3>2, <3>3 DEF ActsInv, At, Others
  <2>2. CASE ~Live(job[h].rec)
    <3>1. NoActs
      BY <1>18, <2>2, RecsGrowStep, SyncReadTurns DEF NoActs, Others, SyncRead
    <3> QED
      BY <3>1, NoActsKeep
  <2> QED
    BY <2>1, <2>2
<1>19. ASSUME NEW h \in Handlers, MakeActivity(h) PROVE ActsInv'
  <2>1. /\ job'[h].pc = "link" /\ job'[h].act = Len(acts) + 1 /\ job'[h].rec = job[h].rec
        /\ Others(h) /\ job[h].rec \in DOMAIN recs /\ recs' = recs
    BY <1>19, MakeActivityTurns
    DEF SameNote, TypeInv, PlacesTyped, Placed, At, SaveSteps, MakeActivity, tables, inbox
  <2> DEFINE new == Entry(job[h].rec, job[h].saw.weight, job[h].saw.period, FALSE)
  <2>2. /\ acts' = Append(acts, new) /\ acts \in Seq(Act) /\ new.of = job[h].rec
        /\ new.approved
    BY <1>19 DEF MakeActivity, TypeInv, RecsTyped, Entry
  <2> HIDE DEF new
  <2>3. /\ DOMAIN acts = 1 .. Len(acts) /\ DOMAIN acts' = 1 .. Len(acts) + 1 /\ Len(acts) \in Nat
        /\ acts'[Len(acts) + 1] = new /\ \A a \in DOMAIN acts : acts'[a] = acts[a]
    BY <2>2, AppendIs
  <2>4. \A a \in DOMAIN acts' : a \in DOMAIN acts \/ a = Len(acts) + 1
    BY <2>3
  <2>5. Len(acts) + 1 \in DOMAIN acts' /\ \A a \in DOMAIN acts : a \in DOMAIN acts'
    BY <2>3
  <2>6. \A a \in DOMAIN acts' : acts'[a].of \in DOMAIN recs'
    BY <2>1, <2>2, <2>3, <2>4 DEF ActsInv
  <2>7. \A r \in DOMAIN recs' : recs'[r].link # 0 =>
           /\ recs'[r].link \in DOMAIN acts' /\ acts'[recs'[r].link].of = r
           /\ acts'[recs'[r].link].live
    BY <2>1, <2>3, <2>5 DEF ActsInv
  <2>8. \A a \in DOMAIN acts' : acts'[a].approved \/ acts'[a].reviewed
    BY <2>2, <2>3, <2>4 DEF ActsInv
  <2>9. \A g \in Handlers : job'[g].pc = "update" =>
           job'[g].saw.link \in DOMAIN acts' /\ acts'[job'[g].saw.link].of = job'[g].rec
    BY <2>1, <2>3, <2>5 DEF ActsInv, At, Others
  <2>10. \A g \in Handlers : job'[g].pc \in {"link", "run"} =>
            job'[g].act \in DOMAIN acts' /\ acts'[job'[g].act].of = job'[g].rec
    <3>1. ASSUME NEW g \in Handlers, g # h, job'[g].pc \in {"link", "run"}
          PROVE  job'[g].act \in DOMAIN acts' /\ acts'[job'[g].act].of = job'[g].rec
      BY <2>1, <2>3, <2>5, <3>1 DEF ActsInv, Others
    <3>2. job'[h].act \in DOMAIN acts' /\ acts'[job'[h].act].of = job'[h].rec
      BY <2>1, <2>2, <2>3, <2>5
    <3> QED
      BY <3>1, <3>2
  <2> QED
    BY <2>6, <2>7, <2>8, <2>9, <2>10 DEF ActsInv, At
<1>20. ASSUME NEW h \in Handlers, LinkActivity(h) PROVE ActsInv'
  <2>1. CASE Live(job[h].rec)
    <3>1. /\ job'[h].pc = "run" /\ job'[h].rec = job[h].rec /\ job'[h].act = job[h].act
          /\ Others(h) /\ At(h, "link")
      BY <1>20, <2>1, LinkActivityTurns DEF SameSave
    <3>2. /\ acts' = acts /\ DOMAIN recs' = DOMAIN recs /\ recs'[job[h].rec].link = job[h].act
          /\ \A r \in DOMAIN recs \ {job[h].rec} : recs'[r] = recs[r]
      BY <1>20, <2>1, LinkActivityWrites DEF LinkActivity
    <3>3. job[h].act \in DOMAIN acts /\ acts[job[h].act].of = job[h].rec /\ acts[job[h].act].live
      BY <1>20, <3>1 DEF ActsInv, At, LinkActivity
    <3> QED
      BY <3>1, <3>2, <3>3 DEF ActsInv, At, Others
  <2>2. CASE ~Live(job[h].rec)
    <3>1. NoActs
      BY <1>20, <2>2, RecsGrowStep, LinkActivityTurns DEF NoActs, Others, LinkActivity
    <3> QED
      BY <3>1, NoActsKeep
  <2> QED
    BY <2>1, <2>2
<1>21. ASSUME NEW h \in Handlers, UpdateActivity(h) PROVE ActsInv'
  <2>1. /\ job'[h].pc = "run" /\ job'[h].act = job[h].saw.link /\ job'[h].rec = job[h].rec
        /\ Others(h) /\ At(h, "update") /\ recs' = recs
    BY <1>21, UpdateActivityTurns DEF UpdateActivity
  <2>2. job[h].saw.link \in DOMAIN acts /\ acts[job[h].saw.link].of = job[h].rec
    BY <2>1 DEF ActsInv
  <2>3. /\ acts' = [acts EXCEPT ![job[h].saw.link] = Restated(job[h].saw.link, job[h].saw)]
        /\ acts[job[h].saw.link] \in Act
    BY <1>21, <2>2, ElementOfSeq DEF UpdateActivity, TypeInv, RecsTyped
  <2> DEFINE new == Restated(job[h].saw.link, job[h].saw)
  <2>4. /\ new.of = acts[job[h].saw.link].of /\ new.live = acts[job[h].saw.link].live
        /\ new.approved = acts[job[h].saw.link].approved
        /\ new.reviewed = acts[job[h].saw.link].reviewed
    BY <2>3 DEF Restated, Act
  <2> HIDE DEF new
  <2>5. /\ DOMAIN acts' = DOMAIN acts
        /\ \A a \in DOMAIN acts : /\ acts'[a].of = acts[a].of /\ acts'[a].live = acts[a].live
                                  /\ acts'[a].approved = acts[a].approved
                                  /\ acts'[a].reviewed = acts[a].reviewed
    BY <2>2, <2>3, <2>4 DEF new
  <2> QED
    BY <2>1, <2>2, <2>5 DEF ActsInv, At, Others
<1>22. ASSUME NEW h \in Handlers, Calculate(h) PROVE ActsInv'
  <2>1. /\ job[h].act \in DOMAIN acts /\ acts[job[h].act] \in Act
        /\ acts' = [acts EXCEPT ![job[h].act] = [@ EXCEPT !.row = TRUE]]
    BY <1>22, ElementOfSeq DEF Calculate, ActsInv, TypeInv, RecsTyped, At
  <2>2. /\ DOMAIN acts' = DOMAIN acts
        /\ \A a \in DOMAIN acts : /\ acts'[a].of = acts[a].of /\ acts'[a].live = acts[a].live
                                  /\ acts'[a].approved = acts[a].approved
                                  /\ acts'[a].reviewed = acts[a].reviewed
    BY <2>1 DEF Act
  <2>3. NoActs
    BY <1>22, <2>2, RecsGrowStep, CalculateTurns DEF NoActs, Others, Calculate
  <2> QED
    BY <2>3, NoActsKeep
<1>23. ASSUME NEW h \in Handlers, WriteFigure(h) PROVE ActsInv'
  <2>1. NoActs
    BY <1>23, RecsGrowStep, WriteFigureTurns, WriteFigureWrites
    DEF NoActs, Others, WriteFigure, Begin, At
  <2> QED
    BY <2>1, NoActsKeep
<1>24. ASSUME NEW h \in Handlers, RebuildReads(h) PROVE ActsInv'
  <2>1. NoActs
    BY <1>24, RecsGrowStep, RebuildReadsTurns
    DEF NoActs, Others, RebuildReads, Begin, At
  <2> QED
    BY <2>1, NoActsKeep
<1>25. ASSUME NEW h \in Handlers, RebuildClears(h) PROVE ActsInv'
  <2>1. NoActs
    BY <1>25, RecsGrowStep, RebuildClearsTurns
    DEF NoActs, Others, RebuildClears, Begin, At
  <2> QED
    BY <2>1, NoActsKeep
<1>26. ASSUME NEW h \in Handlers, RebuildCommits(h) PROVE ActsInv'
  <2>1. NoActs
    BY <1>26, RecsGrowStep, RebuildCommitsTurns
    DEF NoActs, Others, RebuildCommits, Begin, At
  <2> QED
    BY <2>1, NoActsKeep
<1>27. ASSUME NEW h \in Handlers, Halts(h) PROVE ActsInv'
  <2>1. NoActs
    BY <1>27, RecsGrowStep, HaltTurns
    DEF NoActs, Others, Halts, Begin, At
  <2> QED
    BY <2>1, NoActsKeep
<1>28. ASSUME NEW h \in Handlers, Accept(h) PROVE ActsInv'
  <2>1. CASE Claimed(job[h].load)
    <3> DEFINE sure == job[h].task = "bulk" /\ docs[job[h].load].status = "pending"
    <3>1. /\ job[h].load \in Loads /\ job[h].body \in Bodies /\ sure \in BOOLEAN
          /\ Insert(h, job[h].load, job[h].body, sure)
      BY <1>28, <2>1, AcceptTurns
    <3>2. acts' = acts
      BY <1>28 DEF Accept
    <3> QED
      BY <3>1, <3>2, InsertActs
  <2>2. CASE ~Claimed(job[h].load)
    <3>1. NoActs
      BY <1>28, <2>2, RecsGrowStep, AcceptTurns DEF NoActs, Others, Accept
    <3> QED
      BY <3>1, NoActsKeep
  <2> QED
    BY <2>1, <2>2
<1>29. ASSUME NEW h \in Handlers, Receive(h) PROVE ActsInv'
  <2>1. CASE InTable(moves[job[h].load])
    <3>1. /\ job[h].load \in Loads /\ job[h].body \in Bodies /\ FALSE \in BOOLEAN
          /\ Insert(h, job[h].load, job[h].body, FALSE)
      BY <1>29, <2>1, ReceiveTurns
    <3>2. acts' = acts
      BY <1>29 DEF Receive
    <3> QED
      BY <3>1, <3>2, InsertActs
  <2>2. CASE ~InTable(moves[job[h].load])
    <3>1. NoActs
      BY <1>29, <2>2, RecsGrowStep, ReceiveTurns DEF NoActs, Others, Receive
    <3> QED
      BY <3>1, NoActsKeep
  <2> QED
    BY <2>1, <2>2
<1>30. ASSUME NEW h \in Handlers, Delete(h) PROVE ActsInv'
  <2>1. NoActs
    BY <1>30, RecsGrowStep, DeleteTurns, DeleteWrites
    DEF NoActs, Others, Delete, Begin, At
  <2> QED
    BY <2>1, NoActsKeep
<1>31. ASSUME NEW h \in Handlers, MarkWrites(h) PROVE ActsInv'
  <2>1. NoActs
    BY <1>31, RecsGrowStep, MarkWritesTurns
    DEF NoActs, Others, MarkWrites, Begin, At
  <2> QED
    BY <2>1, NoActsKeep
<1>32. ASSUME NEW h \in Handlers, UploadEnds(h) PROVE ActsInv'
  <2>1. NoActs
    BY <1>32, RecsGrowStep, UploadEndsTurns
    DEF NoActs, Others, UploadEnds, Begin, At
  <2> QED
    BY <2>1, NoActsKeep
<1>33. ASSUME UNCHANGED vars PROVE ActsInv'
  <2>1. NoActs
    BY <1>33, RecsGrowStep
    DEF NoActs, Others, vars
  <2> QED
    BY <2>1, NoActsKeep
<1>34. ASSUME ByHand PROVE ActsInv'
  BY <1>34, ByHandActs
<1> QED
  BY <1>1, <1>2, <1>3, <1>4, <1>5, <1>6, <1>7, <1>8, <1>9, <1>10, <1>11, <1>12, <1>13,
     <1>14, <1>15, <1>16, <1>17, <1>18, <1>19, <1>20, <1>21, <1>22, <1>23, <1>24, <1>25,
     <1>26, <1>27, <1>28, <1>29, <1>30, <1>31, <1>32, <1>33,
     <1>34, HaltsEither
     DEF Next, Note, Bulk, Asks, Saves, Rebuild

---------------------------------------------------------------------------
(* Bulk approvals. *)

\* A note that has arrived stays, and never waits again once it does not.
NotesAge ==
    \A d \in Docs : docs[d].status # "none" =>
        docs'[d].status # "none" /\ (Waiting(d)' => Waiting(d))
\* The records made by bulk approvals that stand did so before, with their reference.
SureKept ==
    \A r \in DOMAIN recs' : recs'[r].live /\ recs'[r].sure =>
        r \in DOMAIN recs /\ recs[r].live /\ recs[r].sure /\ recs'[r].ref = recs[r].ref
\* A request that neither checks notes nor picks one.
Unpicked(h) ==
    /\ job'[h].pc # "accept"
    /\ \/ job'[h].found = {}
       \/ /\ job'[h].found = job[h].found /\ job'[h].task = job[h].task
          /\ job[h].pc # "waiting"
\* One that narrows its choice, or is about to accept a note whose reference no record has.
Picks(h) ==
    /\ \A d \in job'[h].found : d \in Docs /\ docs[d].status # "none"
    /\ Checked(h)' \subseteq Checked(h)
    /\ job'[h].pc = "accept" =>
          /\ docs[job'[h].load].status # "none" /\ job'[h].load \in Docs
          /\ job'[h].task = "bulk" =>
                job'[h].body = Reading[job'[h].load] /\ ~Referenced(Reading[job'[h].load].ref)

LEMMA CheckedIsArrived ==
    ASSUME TypeInv, BulkInv, NEW h \in Handlers, NEW d \in Checked(h)
    PROVE  d \in Docs /\ docs[d].status # "none"
BY DEF Checked, BulkInv

LEMMA FoundAreDocs ==
    ASSUME TypeInv, NEW h \in Handlers
    PROVE  job[h].found \subseteq Docs
BY DEF TypeInv, JobsTyped, Job

LEMMA UnpickedPicks ==
    ASSUME TypeInv, BulkInv, NEW h \in Handlers, Unpicked(h)
    PROVE  Picks(h)
<1>1. \A d \in job'[h].found : d \in Docs /\ docs[d].status # "none"
  BY FoundAreDocs DEF Unpicked, BulkInv
<1>2. Checked(h)' \subseteq Checked(h)
  BY DEF Unpicked, Checked, At
<1> QED
  BY <1>1, <1>2 DEF Unpicked, Picks

LEMMA BulkKept ==
    ASSUME TypeInv, BulkInv, NotesAge, SureKept,
           \A h \in Handlers : job'[h] = job[h] \/ Picks(h)
    PROVE  BulkInv'
<1>1. \A h \in Handlers : \A d \in job'[h].found : docs'[d].status # "none"
  BY FoundAreDocs DEF Picks, NotesAge, BulkInv
<1>2. \A h \in Handlers : job'[h].pc = "accept" =>
         docs[job'[h].load].status # "none" /\ job'[h].load \in Docs
  BY DEF Picks, BulkInv, At, TypeInv, PlacesTyped, Placed
<1>3. \A h \in Handlers : job'[h].pc = "accept" => docs'[job'[h].load].status # "none"
  BY <1>2 DEF NotesAge
<1>4. \A h \in Handlers : Checked(h)' \subseteq Checked(h)
  BY DEF Picks, Checked, At
<1>5. ASSUME NEW g \in Handlers, NEW h \in Handlers, NEW d \in Checked(g)', NEW e \in Checked(h)',
             Reading[d].ref = Reading[e].ref, Waiting(d)', Waiting(e)'
      PROVE  d = e
  <2>1. d \in Checked(g) /\ e \in Checked(h)
    BY <1>4
  <2>2. Waiting(d) /\ Waiting(e)
    BY <1>5, <2>1, CheckedIsArrived DEF NotesAge
  <2> QED
    BY <1>5, <2>1, <2>2 DEF BulkInv
<1>6. \A h \in Handlers :
         job'[h].pc = "accept" /\ job'[h].task = "bulk" => job'[h].body = Reading[job'[h].load]
  BY DEF Picks, BulkInv, At
<1>7. ASSUME NEW h \in Handlers, NEW r \in DOMAIN recs', recs'[r].live, job'[h].pc = "accept",
             job'[h].task = "bulk", Waiting(job[h].load)', recs'[r].sure
      PROVE  recs'[r].ref # Reading[job'[h].load].ref
  <2>1. r \in DOMAIN recs /\ recs[r].live /\ recs[r].sure /\ recs'[r].ref = recs[r].ref
    BY <1>7 DEF SureKept
  <2>2. Waiting(job'[h].load)
    BY <1>2, <1>7 DEF NotesAge, Waiting
  <2>3. CASE job'[h] = job[h]
    BY <1>7, <2>1, <2>2, <2>3 DEF BulkInv, At, LiveRecords, Live
  <2>4. CASE Picks(h)
    BY <1>7, <2>1, <2>4 DEF Picks, Referenced, LiveRecords, Live
  <2> QED
    BY <2>3, <2>4
<1>8. BulkNeverDoubles'
  BY DEF SureKept, BulkInv, BulkNeverDoubles, LiveRecords, Live
<1> QED
  BY <1>1, <1>3, <1>5, <1>6, <1>7, <1>8 DEF BulkInv, At, LiveRecords, Live

LEMMA AloneIsOnly ==
    ASSUME NEW d \in Docs, NEW e \in Docs, NEW screen, Alone(d, screen), Waiting(d), Waiting(e),
           Reading[d].ref = Reading[e].ref
    PROVE  d = e
<1> DEFINE S == {f \in Docs : Waiting(f) /\ Reading[f].ref = Reading[d].ref}
<1>1. IsFiniteSet(S) /\ Cardinality(S) <= 1 /\ {d, e} \subseteq S
  BY DocsAssumption, FS_Subset DEF Alone
<1>2. SUFFICES ASSUME d # e PROVE FALSE
  OBVIOUS
<1>3. IsFiniteSet({d, e}) /\ Cardinality({d, e}) = 2
  <2>1. IsFiniteSet({d}) /\ Cardinality({d}) = 1
    BY FS_Singleton
  <2>2. IsFiniteSet({d} \cup {e}) /\ Cardinality({d} \cup {e}) = Cardinality({d}) + 1
    <3>1. e \notin {d}
      BY <1>2
    <3> QED
      BY <2>1, <3>1, FS_AddElement
  <2>3. {d} \cup {e} = {d, e}
    OBVIOUS
  <2> QED
    BY <2>1, <2>2, <2>3
<1> HIDE DEF S
<1>4. Cardinality({d, e}) <= Cardinality(S) /\ Cardinality(S) \in Nat
  BY <1>1, FS_Subset, FS_CardinalityType
<1> QED
  BY <1>1, <1>3, <1>4

LEMMA InsertBulk ==
    ASSUME TypeInv, BulkInv, NEW h \in Handlers, NEW b \in Bodies, NEW from \in Loads,
           Insert(h, from, b, FALSE), UNCHANGED docs,
           job[h].pc \in {"idle", "rows", "accept", "receive"}
    PROVE  BulkInv'
<1>1. /\ DOMAIN recs = 1 .. Len(recs) /\ DOMAIN recs' = 1 .. Len(recs) + 1 /\ Len(recs) \in Nat
      /\ recs'[Len(recs) + 1] = Row(from, FALSE, b) /\ \A r \in DOMAIN recs : recs'[r] = recs[r]
  BY InsertTurns
<1>2. ~recs'[Len(recs) + 1].sure
  BY <1>1 DEF Row
<1>3. \A r \in DOMAIN recs' : r \in DOMAIN recs \/ r = Len(recs) + 1
  BY <1>1
<1>4. SureKept
  BY <1>1, <1>2, <1>3 DEF SureKept
<1>5. Unpicked(h) /\ \A g \in Handlers \ {h} : job'[g] = job[g]
  BY InsertJob DEF Unpicked, Others
<1>6. NotesAge
  BY DEF NotesAge, Waiting
<1> QED
  BY <1>4, <1>5, <1>6, UnpickedPicks, BulkKept

LEMMA AcceptBulk ==
    ASSUME TypeInv, BulkInv, NEW h \in Handlers, Accept(h), Claimed(job[h].load)
    PROVE  BulkInv'
<1>0. PICK d \in Docs : d = job[h].load
  BY AcceptTurns
<1> DEFINE b == job[h].body
           n == Len(recs) + 1
           sure == job[h].task = "bulk" /\ docs[d].status = "pending"
<1>1. /\ d \in Docs /\ b \in Bodies /\ sure \in BOOLEAN /\ d \in Loads /\ At(h, "accept")
      /\ Insert(h, d, b, sure) /\ docs' = [docs EXCEPT ![d] = [status |-> "accepted", record |-> n]]
  BY <1>0, AcceptTurns
<1>2. /\ DOMAIN recs = 1 .. Len(recs) /\ DOMAIN recs' = 1 .. n /\ Len(recs) \in Nat
      /\ recs'[n] = Row(d, sure, b) /\ \A r \in DOMAIN recs : recs'[r] = recs[r]
  BY <1>1, InsertTurns
<1>3. docs'[d].status = "accepted" /\ \A e \in Docs \ {d} : docs'[e] = docs[e]
  BY <1>1 DEF TypeInv, InboxTyped
<1>4. NotesAge /\ ~Waiting(d)'
  BY <1>1, <1>3 DEF NotesAge, Waiting
<1>5. /\ job'[h].pc = "sync" /\ job'[h].found = job[h].found /\ job'[h].task = job[h].task
      /\ \A g \in Handlers \ {h} : job'[g] = job[g]
  BY <1>1, InsertJob DEF Others
<1>6. Unpicked(h)
  BY <1>1, <1>5 DEF Unpicked, At
<1>7. \A r \in DOMAIN recs' : r \in DOMAIN recs \/ r = n
  BY <1>2
<1>8. /\ recs'[n].sure = sure /\ recs'[n].ref = b.ref /\ n \notin DOMAIN recs
  BY <1>2 DEF Row
<1> HIDE DEF n, b, sure
<1>9. CASE ~sure
  <2>1. SureKept
    BY <1>2, <1>7, <1>8, <1>9 DEF SureKept
  <2> QED
    BY <1>4, <1>5, <1>6, <2>1, UnpickedPicks, BulkKept
<1>10. CASE sure
  \* What the frame lemma gives for the records but the new one.
  <2>1. Waiting(d) /\ job[h].task = "bulk" /\ b = Reading[d] /\ d \in Checked(h)
    BY <1>0, <1>1, <1>10 DEF sure, b, Claimed, Waiting, BulkInv, Checked, At
  <2>2. \A r \in LiveRecords : recs[r].sure => recs[r].ref # Reading[d].ref
    BY <1>0, <1>1, <2>1 DEF BulkInv
  <2>3. LiveRecords' \subseteq LiveRecords \cup {n} /\ \A r \in LiveRecords : recs'[r] = recs[r]
    BY <1>2, <1>7 DEF LiveRecords, Live
  <2>4. BulkNeverDoubles'
    <3>1. SUFFICES ASSUME NEW r1 \in LiveRecords', NEW r2 \in LiveRecords', r1 # r2,
                          recs'[r1].sure, recs'[r2].sure
                   PROVE  recs'[r1].ref # recs'[r2].ref
      BY DEF BulkNeverDoubles
    <3>2. CASE r1 = n
      BY <1>8, <2>1, <2>2, <2>3, <3>1, <3>2
    <3>3. CASE r2 = n
      BY <1>8, <2>1, <2>2, <2>3, <3>1, <3>3
    <3>4. CASE r1 # n /\ r2 # n
      BY <2>3, <3>1, <3>4 DEF BulkInv, BulkNeverDoubles
    <3> QED
      BY <3>2, <3>3, <3>4
  <2>5. \A g \in Handlers : Picks(g) \/ job'[g] = job[g]
    BY <1>5, <1>6, UnpickedPicks
  <2>6. \A g \in Handlers : job'[g].pc = "accept" =>
           /\ g # h /\ job'[g] = job[g] /\ job[g].load \in Docs
           /\ docs[job[g].load].status # "none"
           /\ Waiting(job[g].load)' => Waiting(job[g].load) /\ job[g].load # d
    BY <1>4, <1>5 DEF BulkInv, At, TypeInv, PlacesTyped, Placed, NotesAge, Waiting
  <2>7. ASSUME NEW g \in Handlers, job'[g].pc = "accept", job'[g].task = "bulk",
               Waiting(job[g].load)'
        PROVE  /\ Reading[job[g].load].ref # Reading[d].ref
               /\ \A r \in LiveRecords : recs[r].sure => recs[r].ref # Reading[job[g].load].ref
    <3>1. /\ job[g].load \in Checked(g) /\ Waiting(job[g].load) /\ job[g].load # d
          /\ job[g].pc = "accept" /\ job[g].task = "bulk"
      BY <2>6, <2>7 DEF Checked, At
    <3> QED
      BY <2>1, <3>1 DEF BulkInv, At
  <2>8. \A g \in Handlers, r \in LiveRecords' :
           job'[g].pc = "accept" /\ job'[g].task = "bulk" /\ Waiting(job[g].load)'
           /\ recs'[r].sure => recs'[r].ref # Reading[job'[g].load].ref
    <3>1. SUFFICES ASSUME NEW g \in Handlers, NEW r \in LiveRecords', job'[g].pc = "accept",
                          job'[g].task = "bulk", Waiting(job[g].load)', recs'[r].sure
                   PROVE  recs'[r].ref # Reading[job'[g].load].ref
      OBVIOUS
    <3>2. job'[g] = job[g]
      BY <2>6, <3>1
    <3>3. CASE r = n
      BY <1>8, <2>1, <2>7, <3>1, <3>2, <3>3
    <3>4. CASE r # n
      BY <2>3, <2>7, <3>1, <3>2, <3>4
    <3> QED
      BY <3>3, <3>4
  <2>9. \A g \in Handlers : Checked(g)' \subseteq Checked(g)
    BY <2>5 DEF Picks, Checked, At
  <2>10. \A g, k \in Handlers : \A x \in Checked(g)', y \in Checked(k)' :
            Reading[x].ref = Reading[y].ref /\ Waiting(x)' /\ Waiting(y)' => x = y
    <3>1. SUFFICES ASSUME NEW g \in Handlers, NEW k \in Handlers, NEW x \in Checked(g)',
                          NEW y \in Checked(k)', Reading[x].ref = Reading[y].ref,
                          Waiting(x)', Waiting(y)'
                   PROVE  x = y
      OBVIOUS
    <3>2. x \in Checked(g) /\ y \in Checked(k)
      BY <2>9, <3>1
    <3>3. Waiting(x) /\ Waiting(y)
      BY <1>4, <3>1, <3>2, CheckedIsArrived DEF NotesAge
    <3> QED
      BY <3>1, <3>2, <3>3 DEF BulkInv
  <2>11. \A g \in Handlers : \A x \in job'[g].found : docs'[x].status # "none"
    BY <1>4, <1>5, FoundAreDocs DEF BulkInv, NotesAge
  <2>12. \A g \in Handlers : job'[g].pc = "accept" =>
            /\ docs'[job'[g].load].status # "none"
            /\ job'[g].task = "bulk" => job'[g].body = Reading[job'[g].load]
    BY <1>4, <2>6 DEF BulkInv, NotesAge, At
  <2> QED
    BY <2>4, <2>8, <2>10, <2>11, <2>12 DEF BulkInv, At
<1> QED
  BY <1>9, <1>10

LEMMA ByHandBulk ==
    ASSUME TypeInv, ActsInv, BulkInv, ByHand
    PROVE  BulkInv'
<1>1. HandWrites /\ job' = job /\ docs' = docs
  BY ByHandWrites, ByHandLeaves
<1>2. NotesAge
  BY <1>1 DEF NotesAge, Waiting
<1>3. SureKept
  BY <1>1 DEF SureKept, HandWrites, RecKept, RecMade
<1> QED
  BY <1>1, <1>2, <1>3, BulkKept

LEMMA BulkInvStep ==
    ASSUME TypeInv, ActsInv, BulkInv, [Next]_vars
    PROVE  BulkInv'
<1> USE DEF tables, inbox, history
<1>1. ASSUME NEW d \in Docs, Submit(d) PROVE BulkInv'
  <2>1. NotesAge /\ SureKept
    BY <1>1 DEF NotesAge, SureKept, Waiting, InTable, Submit, TypeInv, InboxTyped
  <2>2. \A h \in Handlers : job'[h] = job[h]
    BY <1>1 DEF Submit
  <2> QED
    BY <2>1, <2>2, BulkKept
<1>2. ASSUME NEW d \in Docs, Decide(d) PROVE BulkInv'
  <2>1. NotesAge /\ SureKept
    BY <1>2 DEF NotesAge, SureKept, Waiting, InTable, Decide, TypeInv, InboxTyped
  <2>2. \A h \in Handlers : job'[h] = job[h]
    BY <1>2 DEF Decide
  <2> QED
    BY <2>1, <2>2, BulkKept
<1>3. ASSUME NEW d \in Docs, RemoveNote(d) PROVE BulkInv'
  <2>1. NotesAge /\ SureKept
    BY <1>3 DEF NotesAge, SureKept, Waiting, InTable, RemoveNote, TypeInv, InboxTyped
  <2>2. \A h \in Handlers : job'[h] = job[h]
    BY <1>3 DEF RemoveNote
  <2> QED
    BY <2>1, <2>2, BulkKept
<1>4. ASSUME NEW m \in Moves, RemoveMove(m) PROVE BulkInv'
  <2>1. NotesAge /\ SureKept
    BY <1>4 DEF NotesAge, SureKept, Waiting, InTable, RemoveMove, TypeInv, InboxTyped
  <2>2. \A h \in Handlers : job'[h] = job[h]
    BY <1>4 DEF RemoveMove
  <2> QED
    BY <2>1, <2>2, BulkKept
<1>5. ASSUME NEW h \in Handlers, BulkFind(h) PROVE BulkInv'
  <2>1. NotesAge /\ SureKept
    BY <1>5 DEF NotesAge, SureKept, Waiting, BulkFind
  <2>2. \A g \in Handlers \ {h} : job'[g] = job[g]
    BY <1>5, BulkFindTurns DEF Others
  <2>3. Picks(h)
    BY <1>5, BulkFindTurns DEF Picks, Checked, Claimed, InTable, At
  <2> QED
    BY <2>1, <2>2, <2>3, BulkKept
<1>6. ASSUME NEW h \in Handlers, BulkWaiting(h) PROVE BulkInv'
  <2>1. NotesAge /\ SureKept /\ UNCHANGED <<docs, recs>>
    BY <1>6 DEF NotesAge, SureKept, Waiting, BulkWaiting
  <2> DEFINE alone == {d \in job[h].found : Reading[d].ref # NoRef /\ Alone(d, job[h].found)}
  <2>2. /\ job'[h].pc = "seen" /\ job'[h].found = alone /\ At(h, "waiting")
        /\ \A g \in Handlers \ {h} : job'[g] = job[g]
    BY <1>6, BulkWaitingTurns DEF Others
  <2>3. \A d \in Checked(h)' : Alone(d, job[h].found)
    BY <2>2 DEF Checked, At
  <2>4. \A g \in Handlers \ {h} : Checked(g)' = Checked(g)
    BY <2>2 DEF Checked, At
  <2>5. \A d, e \in Docs : Alone(d, job[h].found) /\ Waiting(d) /\ Waiting(e)
                           /\ Reading[d].ref = Reading[e].ref => d = e
    BY AloneIsOnly
  <2>6. \A g \in Handlers : Checked(g)' \subseteq Docs
    BY DEF Checked
  <2>7. \A g, k \in Handlers : \A d \in Checked(g)', e \in Checked(k)' :
           Reading[d].ref = Reading[e].ref /\ Waiting(d) /\ Waiting(e) => d = e
    <3>1. SUFFICES ASSUME NEW g \in Handlers, NEW k \in Handlers, NEW d \in Checked(g)',
                          NEW e \in Checked(k)', Reading[d].ref = Reading[e].ref,
                          Waiting(d), Waiting(e)
                   PROVE  d = e
      OBVIOUS
    <3>2. CASE g = h
      BY <2>3, <2>5, <2>6, <3>1, <3>2
    <3>3. CASE k = h
      BY <2>3, <2>5, <2>6, <3>1, <3>3
    <3>4. CASE g # h /\ k # h
      <4>1. d \in Checked(g) /\ e \in Checked(k)
        BY <2>4, <3>1, <3>4
      <4> QED
        BY <3>1, <4>1 DEF BulkInv
    <3> QED
      BY <3>2, <3>3, <3>4
  <2>8. \A d \in Docs : Waiting(d)' = Waiting(d)
    BY <2>1 DEF Waiting
  <2>9. \A g \in Handlers : \A d \in job'[g].found : docs[d].status # "none"
    BY <2>2 DEF BulkInv
  <2>10. \A g \in Handlers : job'[g].pc = "accept" => job'[g] = job[g] /\ job[g].load \in Docs
    BY <2>2 DEF TypeInv, PlacesTyped, Placed
  <2>11. BulkNeverDoubles'
    BY <2>1 DEF BulkInv, BulkNeverDoubles, LiveRecords, Live
  <2>12. \A g, k \in Handlers : \A d \in Checked(g)', e \in Checked(k)' :
            Reading[d].ref = Reading[e].ref /\ Waiting(d)' /\ Waiting(e)' => d = e
    BY <2>6, <2>7, <2>8
  <2>13. \A g \in Handlers, r \in LiveRecords :
            job'[g].pc = "accept" /\ job'[g].task = "bulk" /\ Waiting(job[g].load)'
            /\ recs[r].sure => recs[r].ref # Reading[job'[g].load].ref
    BY <2>8, <2>10 DEF BulkInv, At
  <2>14. LiveRecords' = LiveRecords
    BY <2>1 DEF LiveRecords, Live
  <2>15. \A g \in Handlers : job'[g].pc = "accept" =>
            /\ docs[job'[g].load].status # "none"
            /\ job'[g].task = "bulk" => job'[g].body = Reading[job'[g].load]
    BY <2>10 DEF BulkInv, At
  <2> QED
    BY <2>1, <2>9, <2>11, <2>12, <2>13, <2>14, <2>15 DEF BulkInv, At
<1>7. ASSUME NEW h \in Handlers, BulkSeen(h) PROVE BulkInv'
  <2>1. NotesAge /\ SureKept
    BY <1>7 DEF NotesAge, SureKept, Waiting, BulkSeen
  <2>2. \A g \in Handlers \ {h} : job'[g] = job[g]
    BY <1>7, BulkSeenTurns DEF Others
  <2>3. Picks(h)
    <3>1. /\ job'[h].pc = "pick" /\ job'[h].task = job[h].task
          /\ job'[h].found \subseteq job[h].found /\ At(h, "seen")
      BY <1>7, BulkSeenTurns
    <3> QED
      BY <3>1, FoundAreDocs DEF Picks, Checked, At, BulkInv
  <2> QED
    BY <2>1, <2>2, <2>3, BulkKept
<1>8. ASSUME NEW h \in Handlers, BulkPick(h) PROVE BulkInv'
  <2>1. NotesAge /\ SureKept
    BY <1>8 DEF NotesAge, SureKept, Waiting, BulkPick
  <2>2. \A g \in Handlers \ {h} : job'[g] = job[g]
    BY <1>8, BulkPickTurns DEF Others
  <2>3. Picks(h)
    <3>1. At(h, "pick") /\ job[h].found \subseteq Docs /\
             \A d \in job[h].found : docs[d].status # "none"
      BY <1>8, BulkPickTurns, FoundAreDocs DEF BulkInv
    <3>2. CASE job'[h].pc = "idle" /\ job'[h].found = {}
      BY <3>2 DEF Picks, Checked, At
    <3>3. CASE /\ job'[h].pc = "pick" /\ job'[h].task = job[h].task
               /\ job'[h].found \subseteq job[h].found
      BY <3>1, <3>3 DEF Picks, Checked, At
    <3>4. ASSUME NEW d \in job[h].found, ~Referenced(Reading[d].ref), job'[h].pc = "accept",
                 job'[h].task = job[h].task, job'[h].load = d, job'[h].body = Reading[d],
                 job'[h].found = job[h].found \ {d}
          PROVE  Picks(h)
      <4>1. Checked(h)' \subseteq Checked(h)
        BY <3>1, <3>4 DEF Checked, At
      <4> QED
        BY <3>1, <3>4, <4>1 DEF Picks
    <3> QED
      BY <1>8, <3>2, <3>3, <3>4, BulkPickTurns DEF NoNote
  <2> QED
    BY <2>1, <2>2, <2>3, BulkKept
<1>9. ASSUME NEW h \in Handlers, NEW b \in Bodies, Create(h, b) PROVE BulkInv'
  <2>1. /\ Form \in Loads /\ Insert(h, Form, b, FALSE) /\ UNCHANGED docs
        /\ job[h].pc \in {"idle", "rows", "accept", "receive"}
    BY <1>9 DEF Loads, Create, At
  <2> QED
    BY <2>1, InsertBulk
<1>10. ASSUME NEW h \in Handlers, NEW b \in Bodies, UploadRow(h, b) PROVE BulkInv'
  <2>1. /\ Form \in Loads /\ Insert(h, Form, b, FALSE) /\ UNCHANGED docs
        /\ job[h].pc \in {"idle", "rows", "accept", "receive"}
    BY <1>10 DEF Loads, UploadRow, At
  <2> QED
    BY <2>1, InsertBulk
<1>11. ASSUME NEW h \in Handlers, NEW b \in Bodies, Edit(h, b) PROVE BulkInv'
  <2>1. NotesAge
    BY <1>11 DEF NotesAge, Waiting, Edit
  <2>2. SureKept
    BY <1>11, EditWrites DEF SureKept, Live
  <2>3. Unpicked(h) /\ \A g \in Handlers \ {h} : job'[g] = job[g]
    BY <1>11, EditTurns DEF Unpicked, Others, SameNote, NoNote, At
  <2> QED
    BY <2>1, <2>2, <2>3, UnpickedPicks, BulkKept
<1>12. ASSUME NEW h \in Handlers, NEW b \in Bodies, NEW d \in Docs, Review(h, d, b) PROVE BulkInv'
  <2>1. NotesAge /\ SureKept
    BY <1>12 DEF NotesAge, SureKept, Waiting, Review
  <2>2. \A g \in Handlers \ {h} : job'[g] = job[g]
    BY <1>12, ReviewTurns DEF Others
  <2>3. Picks(h)
    BY <1>12, ReviewTurns DEF Picks, Checked, Claimed, InTable, At
  <2> QED
    BY <2>1, <2>2, <2>3, BulkKept
<1>13. ASSUME NEW h \in Handlers, NEW b \in Bodies, NEW m \in Moves, ReceiveLoad(h, m, b)
        PROVE  BulkInv'
  <2>1. NotesAge
    BY <1>13 DEF NotesAge, Waiting, ReceiveLoad
  <2>2. SureKept
    BY <1>13 DEF SureKept, Live, ReceiveLoad
  <2>3. Unpicked(h) /\ \A g \in Handlers \ {h} : job'[g] = job[g]
    BY <1>13, ReceiveLoadTurns DEF Unpicked, Others, SameNote, NoNote, At
  <2> QED
    BY <2>1, <2>2, <2>3, UnpickedPicks, BulkKept
<1>14. ASSUME NEW h \in Handlers, NEW r \in DOMAIN recs, NEW step \in {"edit", "delete"},
              Open(h, r, step)
        PROVE  BulkInv'
  <2>1. NotesAge
    BY <1>14 DEF NotesAge, Waiting, Open
  <2>2. SureKept
    BY <1>14 DEF SureKept, Live, Open
  <2>3. Unpicked(h) /\ \A g \in Handlers \ {h} : job'[g] = job[g]
    BY <1>14, OpenTurns DEF Unpicked, Others, SameNote, NoNote, At
  <2> QED
    BY <2>1, <2>2, <2>3, UnpickedPicks, BulkKept
<1>15. ASSUME NEW h \in Handlers, NEW p \in Periods, SaveWater(h, p) PROVE BulkInv'
  <2>1. NotesAge
    BY <1>15 DEF NotesAge, Waiting, SaveWater
  <2>2. SureKept
    BY <1>15 DEF SureKept, Live, SaveWater
  <2>3. Unpicked(h) /\ \A g \in Handlers \ {h} : job'[g] = job[g]
    BY <1>15, SaveWaterTurns DEF Unpicked, Others, SameNote, NoNote, At
  <2> QED
    BY <2>1, <2>2, <2>3, UnpickedPicks, BulkKept
<1>16. ASSUME NEW h \in Handlers, NEW m \in Moves, Mark(h, m) PROVE BulkInv'
  <2>1. NotesAge
    BY <1>16 DEF NotesAge, Waiting, Mark
  <2>2. SureKept
    BY <1>16 DEF SureKept, Live, Mark
  <2>3. Unpicked(h) /\ \A g \in Handlers \ {h} : job'[g] = job[g]
    BY <1>16, MarkTurns DEF Unpicked, Others, SameNote, NoNote, At
  <2> QED
    BY <2>1, <2>2, <2>3, UnpickedPicks, BulkKept
<1>17. ASSUME NEW h \in Handlers, Upload(h) PROVE BulkInv'
  <2>1. NotesAge
    BY <1>17 DEF NotesAge, Waiting, Upload
  <2>2. SureKept
    BY <1>17 DEF SureKept, Live, Upload
  <2>3. Unpicked(h) /\ \A g \in Handlers \ {h} : job'[g] = job[g]
    BY <1>17, UploadTurns DEF Unpicked, Others, SameNote, NoNote, At
  <2> QED
    BY <2>1, <2>2, <2>3, UnpickedPicks, BulkKept
<1>18. ASSUME NEW h \in Handlers, SyncRead(h) PROVE BulkInv'
  <2>1. NotesAge
    BY <1>18 DEF NotesAge, Waiting, SyncRead
  <2>2. SureKept
    BY <1>18 DEF SureKept, Live, SyncRead
  <2>3. Unpicked(h) /\ \A g \in Handlers \ {h} : job'[g] = job[g]
    BY <1>18, SyncReadTurns DEF Unpicked, Others, SameNote, NoNote, At
  <2> QED
    BY <2>1, <2>2, <2>3, UnpickedPicks, BulkKept
<1>19. ASSUME NEW h \in Handlers, MakeActivity(h) PROVE BulkInv'
  <2>1. NotesAge
    BY <1>19 DEF NotesAge, Waiting, MakeActivity
  <2>2. SureKept
    BY <1>19 DEF SureKept, Live, MakeActivity
  <2>3. Unpicked(h) /\ \A g \in Handlers \ {h} : job'[g] = job[g]
    BY <1>19, MakeActivityTurns DEF Unpicked, Others, SameNote, NoNote, At
  <2> QED
    BY <2>1, <2>2, <2>3, UnpickedPicks, BulkKept
<1>20. ASSUME NEW h \in Handlers, LinkActivity(h) PROVE BulkInv'
  <2>1. NotesAge
    BY <1>20 DEF NotesAge, Waiting, LinkActivity
  <2>2. SureKept
    BY <1>20, LinkActivityWrites DEF SureKept, Live, LinkActivity
  <2>3. Unpicked(h) /\ \A g \in Handlers \ {h} : job'[g] = job[g]
    BY <1>20, LinkActivityTurns DEF Unpicked, Others, SameNote, NoNote, At
  <2> QED
    BY <2>1, <2>2, <2>3, UnpickedPicks, BulkKept
<1>21. ASSUME NEW h \in Handlers, UpdateActivity(h) PROVE BulkInv'
  <2>1. NotesAge
    BY <1>21 DEF NotesAge, Waiting, UpdateActivity
  <2>2. SureKept
    BY <1>21 DEF SureKept, Live, UpdateActivity
  <2>3. Unpicked(h) /\ \A g \in Handlers \ {h} : job'[g] = job[g]
    BY <1>21, UpdateActivityTurns DEF Unpicked, Others, SameNote, NoNote, At
  <2> QED
    BY <2>1, <2>2, <2>3, UnpickedPicks, BulkKept
<1>22. ASSUME NEW h \in Handlers, Calculate(h) PROVE BulkInv'
  <2>1. NotesAge
    BY <1>22 DEF NotesAge, Waiting, Calculate
  <2>2. SureKept
    BY <1>22 DEF SureKept, Live, Calculate
  <2>3. Unpicked(h) /\ \A g \in Handlers \ {h} : job'[g] = job[g]
    BY <1>22, CalculateTurns DEF Unpicked, Others, SameNote, NoNote, At
  <2> QED
    BY <2>1, <2>2, <2>3, UnpickedPicks, BulkKept
<1>23. ASSUME NEW h \in Handlers, WriteFigure(h) PROVE BulkInv'
  <2>1. NotesAge
    BY <1>23 DEF NotesAge, Waiting, WriteFigure
  <2>2. SureKept
    BY <1>23, WriteFigureWrites DEF SureKept, Live, WriteFigure
  <2>3. Unpicked(h) /\ \A g \in Handlers \ {h} : job'[g] = job[g]
    BY <1>23, WriteFigureTurns DEF Unpicked, Others, SameNote, NoNote, At
  <2> QED
    BY <2>1, <2>2, <2>3, UnpickedPicks, BulkKept
<1>24. ASSUME NEW h \in Handlers, RebuildReads(h) PROVE BulkInv'
  <2>1. NotesAge
    BY <1>24 DEF NotesAge, Waiting, RebuildReads
  <2>2. SureKept
    BY <1>24 DEF SureKept, Live, RebuildReads
  <2>3. Unpicked(h) /\ \A g \in Handlers \ {h} : job'[g] = job[g]
    BY <1>24, RebuildReadsTurns DEF Unpicked, Others, SameNote, NoNote, At
  <2> QED
    BY <2>1, <2>2, <2>3, UnpickedPicks, BulkKept
<1>25. ASSUME NEW h \in Handlers, RebuildClears(h) PROVE BulkInv'
  <2>1. NotesAge
    BY <1>25 DEF NotesAge, Waiting, RebuildClears
  <2>2. SureKept
    BY <1>25 DEF SureKept, Live, RebuildClears
  <2>3. Unpicked(h) /\ \A g \in Handlers \ {h} : job'[g] = job[g]
    BY <1>25, RebuildClearsTurns DEF Unpicked, Others, SameNote, NoNote, At
  <2> QED
    BY <2>1, <2>2, <2>3, UnpickedPicks, BulkKept
<1>26. ASSUME NEW h \in Handlers, RebuildCommits(h) PROVE BulkInv'
  <2>1. NotesAge
    BY <1>26 DEF NotesAge, Waiting, RebuildCommits
  <2>2. SureKept
    BY <1>26 DEF SureKept, Live, RebuildCommits
  <2>3. Unpicked(h) /\ \A g \in Handlers \ {h} : job'[g] = job[g]
    BY <1>26, RebuildCommitsTurns DEF Unpicked, Others, SameNote, NoNote, At
  <2> QED
    BY <2>1, <2>2, <2>3, UnpickedPicks, BulkKept
<1>27. ASSUME NEW h \in Handlers, Halts(h) PROVE BulkInv'
  <2>1. NotesAge
    BY <1>27 DEF NotesAge, Waiting, Halts
  <2>2. SureKept
    BY <1>27 DEF SureKept, Live, Halts
  <2>3. Unpicked(h) /\ \A g \in Handlers \ {h} : job'[g] = job[g]
    BY <1>27, HaltTurns DEF Unpicked, Others, SameNote, NoNote, At
  <2> QED
    BY <2>1, <2>2, <2>3, UnpickedPicks, BulkKept
<1>28. ASSUME NEW h \in Handlers, Accept(h) PROVE BulkInv'
  <2>1. CASE Claimed(job[h].load)
    BY <1>28, <2>1, AcceptBulk
  <2>2. CASE ~Claimed(job[h].load)
    <3>1. NotesAge /\ SureKept
      BY <1>28, <2>2, AcceptTurns DEF NotesAge, SureKept, Waiting
    <3>2. Unpicked(h) /\ \A g \in Handlers \ {h} : job'[g] = job[g]
      BY <1>28, <2>2, AcceptTurns DEF Unpicked, Others, At
    <3> QED
      BY <3>1, <3>2, UnpickedPicks, BulkKept
  <2> QED
    BY <2>1, <2>2
<1>29. ASSUME NEW h \in Handlers, Receive(h) PROVE BulkInv'
  <2>1. CASE InTable(moves[job[h].load])
    <3>1. /\ job[h].load \in Loads /\ job[h].body \in Bodies
          /\ Insert(h, job[h].load, job[h].body, FALSE) /\ UNCHANGED docs
          /\ job[h].pc \in {"idle", "rows", "accept", "receive"}
      BY <1>29, <2>1, ReceiveTurns DEF Receive, At
    <3> QED
      BY <3>1, InsertBulk
  <2>2. CASE ~InTable(moves[job[h].load])
    <3>1. NotesAge /\ SureKept
      BY <1>29, <2>2 DEF NotesAge, SureKept, Waiting, Receive
    <3>2. Unpicked(h) /\ \A g \in Handlers \ {h} : job'[g] = job[g]
      BY <1>29, <2>2, ReceiveTurns DEF Unpicked, Others, NoNote
    <3> QED
      BY <3>1, <3>2, UnpickedPicks, BulkKept
  <2> QED
    BY <2>1, <2>2
<1>30. ASSUME NEW h \in Handlers, Delete(h) PROVE BulkInv'
  <2>1. NotesAge
    BY <1>30 DEF NotesAge, Waiting, Delete
  <2>2. SureKept
    BY <1>30, DeleteWrites DEF SureKept, Live, Delete
  <2>3. Unpicked(h) /\ \A g \in Handlers \ {h} : job'[g] = job[g]
    BY <1>30, DeleteTurns DEF Unpicked, Others, SameNote, NoNote, At
  <2> QED
    BY <2>1, <2>2, <2>3, UnpickedPicks, BulkKept
<1>31. ASSUME NEW h \in Handlers, MarkWrites(h) PROVE BulkInv'
  <2>1. NotesAge
    BY <1>31 DEF NotesAge, Waiting, MarkWrites
  <2>2. SureKept
    BY <1>31 DEF SureKept, Live, MarkWrites
  <2>3. Unpicked(h) /\ \A g \in Handlers \ {h} : job'[g] = job[g]
    BY <1>31, MarkWritesTurns DEF Unpicked, Others, SameNote, NoNote, At
  <2> QED
    BY <2>1, <2>2, <2>3, UnpickedPicks, BulkKept
<1>32. ASSUME NEW h \in Handlers, UploadEnds(h) PROVE BulkInv'
  <2>1. NotesAge
    BY <1>32 DEF NotesAge, Waiting, UploadEnds
  <2>2. SureKept
    BY <1>32 DEF SureKept, Live, UploadEnds
  <2>3. Unpicked(h) /\ \A g \in Handlers \ {h} : job'[g] = job[g]
    BY <1>32, UploadEndsTurns DEF Unpicked, Others, SameNote, NoNote, At
  <2> QED
    BY <2>1, <2>2, <2>3, UnpickedPicks, BulkKept
<1>33. ASSUME UNCHANGED vars PROVE BulkInv'
  <2>1. NotesAge /\ SureKept
    BY <1>33 DEF NotesAge, SureKept, Waiting, InTable, vars, TypeInv, InboxTyped
  <2>2. \A h \in Handlers : job'[h] = job[h]
    BY <1>33 DEF vars
  <2> QED
    BY <2>1, <2>2, BulkKept
<1>34. ASSUME ByHand PROVE BulkInv'
  BY <1>34, ByHandBulk
<1> QED
  BY <1>1, <1>2, <1>3, <1>4, <1>5, <1>6, <1>7, <1>8, <1>9, <1>10, <1>11, <1>12, <1>13,
     <1>14, <1>15, <1>16, <1>17, <1>18, <1>19, <1>20, <1>21, <1>22, <1>23, <1>24, <1>25,
     <1>26, <1>27, <1>28, <1>29, <1>30, <1>31, <1>32, <1>33,
     <1>34, HaltsEither
     DEF Next, Note, Bulk, Asks, Saves, Rebuild

---------------------------------------------------------------------------
(* Saves. *)

\* A step of h that is about the record r0 alone, and its activity records.
About(h, r0) ==
    /\ Others(h)
    /\ \A r \in DOMAIN recs' : r # r0 => r \in DOMAIN recs /\ recs'[r] = recs[r]
    /\ Saving(h) => job[h].rec = r0
    /\ job'[h].pc \in SaveSteps => job'[h].rec = r0
    /\ \A a \in DOMAIN acts : a \in DOMAIN acts' /\ acts'[a].of = acts[a].of
    /\ \A a \in DOMAIN acts : acts[a].of # r0 => acts'[a] = acts[a]
    /\ \A a \in DOMAIN acts' : a \in DOMAIN acts \/ acts'[a].of = r0
    /\ disturbed \subseteq disturbed'

LEMMA SaveOfOther ==
    ASSUME TypeInv, ActsInv, NEW h \in Handlers, NEW r0, About(h, r0), NEW g \in Handlers,
           g # h, NEW r \in DOMAIN recs', r # r0, Saves1(g, r), SaveOf(g, r)
    PROVE  SaveOf(g, r)'
<1>1. job'[g] = job[g] /\ recs'[r] = recs[r] /\ r \in DOMAIN recs
  BY DEF About, Others
<1>2. \A x : Owns(r, x) => Owns(r, x)'
  BY DEF About, Owns
<1>3. (\A a \in DOMAIN acts : acts[a].of # r) => \A a \in DOMAIN acts' : acts'[a].of # r
  BY DEF About
<1>4. recs[r].link # 0 => acts'[recs[r].link] = acts[recs[r].link]
  BY <1>1 DEF About, ActsInv
<1>5. job[g].pc \in {"link", "run"} => acts'[job[g].act] = acts[job[g].act]
  BY <1>1 DEF About, ActsInv, Saves1
<1>6. \A x : At(g, x)' = At(g, x)
  BY <1>1 DEF At
<1>7. Fresh(g, r)' = Fresh(g, r)
  BY <1>1 DEF Fresh
<1>8. recs[r].link # 0 => States(recs[r].link, r)' = States(recs[r].link, r)
  BY <1>1, <1>4 DEF States
<1>9. At(g, "link") => States(job[g].act, r)' = States(job[g].act, r)
  BY <1>1, <1>5 DEF States, At
<1>10. At(g, "run") => recs[r].link # 0
  <2>1. ASSUME At(g, "run") PROVE recs[r].link # 0
    <3>1. job[g].rec = r /\ job[g].act \in DOMAIN acts /\ recs[r].link = job[g].act
      BY <2>1 DEF SaveOf, ActsInv, Saves1, At
    <3>2. DOMAIN acts \subseteq Nat \ {0}
      BY LenProperties DEF TypeInv, RecsTyped
    <3> QED
      BY <3>1, <3>2
  <2> QED
    BY <2>1
<1> QED
  BY <1>1, <1>2, <1>3, <1>4, <1>6, <1>7, <1>8, <1>9, <1>10 DEF SaveOf, Saves1

LEMMA SettledOther ==
    ASSUME TypeInv, ActsInv, NEW h \in Handlers, NEW r0, About(h, r0), NEW r \in DOMAIN recs',
           r # r0, Settled(r)
    PROVE  Settled(r)'
<1>1. recs'[r] = recs[r] /\ r \in DOMAIN recs /\ recs[r].link # 0
  BY DEF About, Settled
<1>2. \A x : Owns(r, x) => Owns(r, x)'
  BY DEF About, Owns
<1>3. acts'[recs[r].link] = acts[recs[r].link]
  BY <1>1 DEF About, ActsInv
<1> QED
  BY <1>1, <1>2, <1>3 DEF Settled, States

LEMMA SaveKept ==
    ASSUME TypeInv, ActsInv, SaveInv, NEW h \in Handlers, NEW r0, About(h, r0),
           r0 \in LiveRecords' \ disturbed' =>
              /\ \A g \in Handlers \ {h} : ~Saves1(g, r0)
              /\ Saves1(h, r0)' => SaveOf(h, r0)'
              /\ ~Saves1(h, r0)' => Settled(r0)'
    PROVE  SaveInv'
<1>1. \A g \in Handlers \ {h} : job'[g] = job[g]
  BY DEF About, Others
<1>2. \A r : r # r0 => ~Saves1(h, r) /\ ~Saves1(h, r)'
  BY DEF About, Saves1, Saving, SaveSteps
<1>3. \A g \in Handlers \ {h}, r \in DOMAIN recs' : Saves1(g, r)' = Saves1(g, r)
  BY <1>1 DEF Saves1, Saving
<1>4. ASSUME NEW r \in LiveRecords' \ disturbed', r # r0
      PROVE  /\ \A g, k \in Handlers : Saves1(g, r)' /\ Saves1(k, r)' => g = k
             /\ \A g \in Handlers : Saves1(g, r)' => SaveOf(g, r)'
             /\ (\A g \in Handlers : ~Saves1(g, r)') => Settled(r)'
  <2>1. r \in DOMAIN recs' /\ r \in LiveRecords \ disturbed
    BY <1>4 DEF About, LiveRecords, Live
  <2>2. \A g \in Handlers : Saves1(g, r)' => g # h /\ Saves1(g, r)
    BY <1>2, <1>3, <1>4, <2>1
  <2>3. \A g \in Handlers : Saves1(g, r) => Saves1(g, r)'
    BY <1>2, <1>3, <1>4, <2>1
  <2>4. \A g \in Handlers : Saves1(g, r)' => SaveOf(g, r)'
    BY <1>4, <2>1, <2>2, SaveOfOther DEF SaveInv
  <2>5. (\A g \in Handlers : ~Saves1(g, r)') => Settled(r)'
    BY <1>4, <2>1, <2>3, SettledOther DEF SaveInv
  <2> QED
    BY <2>1, <2>2, <2>4, <2>5 DEF SaveInv
<1>5. ASSUME r0 \in LiveRecords' \ disturbed'
      PROVE  /\ \A g, k \in Handlers : Saves1(g, r0)' /\ Saves1(k, r0)' => g = k
             /\ \A g \in Handlers : Saves1(g, r0)' => SaveOf(g, r0)'
             /\ (\A g \in Handlers : ~Saves1(g, r0)') => Settled(r0)'
  <2>1. r0 \in DOMAIN recs'
    BY <1>5 DEF LiveRecords
  <2>2. \A g \in Handlers \ {h} : ~Saves1(g, r0)'
    BY <1>3, <1>5, <2>1
  <2> QED
    BY <1>5, <2>2
<1> QED
  BY <1>4, <1>5 DEF SaveInv

LEMMA SavesNone ==
    ASSUME TypeInv, ActsInv, SaveInv, NEW h \in Handlers, Others(h), UNCHANGED <<recs, acts>>,
           disturbed \subseteq disturbed', ~Saving(h), job'[h].pc \notin SaveSteps
    PROVE  SaveInv'
<1>1. 0 \notin DOMAIN recs'
  BY LenProperties DEF TypeInv, RecsTyped
<1>2. About(h, 0)
  BY DEF About
<1> QED
  BY <1>1, <1>2, SaveKept DEF LiveRecords

LEMMA SaveStops ==
    ASSUME TypeInv, ActsInv, SaveInv, NEW h \in Handlers, Others(h), UNCHANGED <<recs, acts>>,
           disturbed' = IF Saving(h) THEN disturbed \cup {job[h].rec} ELSE disturbed,
           job'[h].pc = "idle"
    PROVE  SaveInv'
<1>1. CASE Saving(h)
  <2>1. About(h, job[h].rec) /\ job[h].rec \in disturbed'
    BY <1>1 DEF About, SaveSteps
  <2> QED
    BY <2>1, SaveKept
<1>2. CASE ~Saving(h)
  BY <1>2, SavesNone DEF SaveSteps
<1> QED
  BY <1>1, <1>2

LEMMA InsertSaves ==
    ASSUME TypeInv, ActsInv, SaveInv, NEW h \in Handlers, NEW b \in Bodies, NEW from \in Loads,
           NEW sure \in BOOLEAN, Insert(h, from, b, sure), UNCHANGED <<acts, disturbed>>, ~Saving(h)
    PROVE  SaveInv'
<1>0. PICK n : n = Len(recs) + 1
  OBVIOUS
<1>1. /\ DOMAIN recs = 1 .. Len(recs) /\ DOMAIN recs' = 1 .. n /\ Len(recs) \in Nat
      /\ recs'[n] = Row(from, sure, b) /\ \A r \in DOMAIN recs : recs'[r] = recs[r]
  BY <1>0, InsertTurns
<1>2. recs'[n].link = 0
  BY <1>0, <1>1 DEF Row
<1>3. \A r \in DOMAIN recs' : r # n => r \in DOMAIN recs
  BY <1>0, <1>1
<1>4. n \notin DOMAIN recs
  BY <1>0, <1>1
<1>5. Others(h) /\ job'[h].pc = "sync" /\ job'[h].rec = n
  BY <1>0, InsertJob
<1>6. About(h, n)
  BY <1>1, <1>3, <1>5 DEF About, Others, Saving
<1>7. \A g \in Handlers : ~Saves1(g, n)
  BY <1>4 DEF TypeInv, PlacesTyped, Placed, Saves1, Saving, SaveSteps
<1>8. SaveOf(h, n)' /\ Saves1(h, n)'
  BY <1>2, <1>4, <1>5 DEF SaveOf, Saves1, Saving, At, ActsInv
<1> QED
  BY <1>6, <1>7, <1>8, SaveKept

LEMMA SoleSaver ==
    ASSUME SaveInv, NEW h \in Handlers, Saving(h), job[h].rec \in LiveRecords \ disturbed
    PROVE  /\ \A g \in Handlers \ {h} : ~Saves1(g, job[h].rec)
           /\ SaveOf(h, job[h].rec)
BY DEF SaveInv, Saves1

LEMMA ByHandSaves ==
    ASSUME TypeInv, ActsInv, SaveInv, ByHand
    PROVE  SaveInv'
<1>1. HandWrites /\ job' = job /\ disturbed \subseteq disturbed'
  BY ByHandWrites, ByHandLeaves
<1>2. SUFFICES ASSUME NEW r \in LiveRecords' \ disturbed'
               PROVE  /\ \A g, k \in Handlers : Saves1(g, r)' /\ Saves1(k, r)' => g = k
                      /\ \A g \in Handlers : Saves1(g, r)' => SaveOf(g, r)'
                      /\ (\A g \in Handlers : ~Saves1(g, r)') => Settled(r)'
  BY DEF SaveInv
<1>3. r \in DOMAIN recs /\ RecKept(r)
  BY <1>1, <1>2 DEF HandWrites, RecMade, LiveRecords
<1>4. /\ recs'[r].link = recs[r].link /\ recs'[r].weight = recs[r].weight
      /\ recs'[r].period = recs[r].period /\ recs'[r].co2e = recs[r].co2e
      /\ r \in LiveRecords \ disturbed
  BY <1>1, <1>2, <1>3 DEF RecKept, LiveRecords, Live
<1>5. \A g \in Handlers : /\ Saves1(g, r)' = Saves1(g, r) /\ Fresh(g, r)' = Fresh(g, r)
                          /\ \A x : At(g, x)' = At(g, x)
  BY <1>1, <1>4 DEF Saves1, Saving, At, Fresh
<1>6. \A a \in DOMAIN acts' : acts'[a].of = r => a \in DOMAIN acts /\ acts[a].of = r
  BY <1>1, <1>3 DEF HandWrites, ActKept, ActMade
<1>7. \A x : Owns(r, x) => Owns(r, x)'
  BY <1>6 DEF Owns
<1>8. (\A a \in DOMAIN acts : acts[a].of # r) => \A a \in DOMAIN acts' : acts'[a].of # r
  BY <1>6
<1>9. ASSUME NEW a \in DOMAIN acts
      PROVE  /\ acts'[a].row = acts[a].row
             /\ States(a, r) => /\ acts'[a].period = recs'[r].period
                                /\ acts'[a].weight = recs'[r].weight \/ acts'[a].amended
  <2>1. ActKept(a)
    BY <1>1 DEF HandWrites
  <2> QED
    BY <1>4, <2>1 DEF ActKept, States
<1>10. recs[r].link # 0 => recs[r].link \in DOMAIN acts
  BY <1>3 DEF ActsInv
<1>11. 0 \notin DOMAIN acts
  BY LenProperties DEF TypeInv, RecsTyped
<1>12. ASSUME NEW g \in Handlers, Saves1(g, r), SaveOf(g, r) PROVE SaveOf(g, r)'
  <2>1. job[g].pc \in {"link", "run"} => job[g].act \in DOMAIN acts
    BY DEF ActsInv
  <2>2. At(g, "link") => States(job[g].act, r)'
    BY <1>1, <1>9, <1>12, <2>1 DEF SaveOf, At, States
  <2>3. At(g, "run") => States(recs[r].link, r)'
    BY <1>1, <1>4, <1>9, <1>12, <2>1 DEF SaveOf, At, States
  <2>4. At(g, "figure") => States(recs[r].link, r)' /\ acts'[recs[r].link].row
    BY <1>4, <1>9, <1>10, <1>12 DEF SaveOf, States
  <2> QED
    BY <1>1, <1>4, <1>5, <1>7, <1>8, <1>12, <2>2, <2>3, <2>4 DEF SaveOf
<1>13. Settled(r) => Settled(r)'
  BY <1>4, <1>7, <1>9, <1>10 DEF Settled, States
<1> QED
  BY <1>4, <1>5, <1>12, <1>13 DEF SaveInv

LEMMA SaveInvStep ==
    ASSUME TypeInv, ActsInv, SaveInv, [Next]_vars
    PROVE  SaveInv'
<1> USE DEF tables, inbox, history
<1>1. ASSUME NEW d \in Docs, Submit(d) PROVE SaveInv'
  BY <1>1 DEF Submit, SaveInv, Saves1, Saving, SaveOf, Settled, Owns, States, Fresh, LiveRecords,
     Live, At
<1>2. ASSUME NEW d \in Docs, Decide(d) PROVE SaveInv'
  BY <1>2 DEF Decide, SaveInv, Saves1, Saving, SaveOf, Settled, Owns, States, Fresh, LiveRecords,
     Live, At
<1>3. ASSUME NEW d \in Docs, RemoveNote(d) PROVE SaveInv'
  BY <1>3 DEF RemoveNote, SaveInv, Saves1, Saving, SaveOf, Settled, Owns, States, Fresh,
     LiveRecords, Live, At
<1>4. ASSUME NEW m \in Moves, RemoveMove(m) PROVE SaveInv'
  BY <1>4 DEF RemoveMove, SaveInv, Saves1, Saving, SaveOf, Settled, Owns, States, Fresh,
     LiveRecords, Live, At
<1>5. ASSUME NEW h \in Handlers, BulkFind(h) PROVE SaveInv'
  <2>1. /\ Others(h) /\ UNCHANGED <<recs, acts>> /\ disturbed \subseteq disturbed'
        /\ ~Saving(h) /\ job'[h].pc \notin SaveSteps
    BY <1>5, BulkFindTurns DEF BulkFind, Saving, SaveSteps, At
  <2> QED
    BY <2>1, SavesNone
<1>6. ASSUME NEW h \in Handlers, BulkWaiting(h) PROVE SaveInv'
  <2>1. /\ Others(h) /\ UNCHANGED <<recs, acts>> /\ disturbed \subseteq disturbed'
        /\ ~Saving(h) /\ job'[h].pc \notin SaveSteps
    BY <1>6, BulkWaitingTurns DEF BulkWaiting, Saving, SaveSteps, At
  <2> QED
    BY <2>1, SavesNone
<1>7. ASSUME NEW h \in Handlers, BulkSeen(h) PROVE SaveInv'
  <2>1. /\ Others(h) /\ UNCHANGED <<recs, acts>> /\ disturbed \subseteq disturbed'
        /\ ~Saving(h) /\ job'[h].pc \notin SaveSteps
    BY <1>7, BulkSeenTurns DEF BulkSeen, Saving, SaveSteps, At
  <2> QED
    BY <2>1, SavesNone
<1>8. ASSUME NEW h \in Handlers, BulkPick(h) PROVE SaveInv'
  <2>1. /\ Others(h) /\ UNCHANGED <<recs, acts>> /\ disturbed \subseteq disturbed'
        /\ ~Saving(h) /\ job'[h].pc \notin SaveSteps
    BY <1>8, BulkPickTurns DEF BulkPick, Saving, SaveSteps, At
  <2> QED
    BY <2>1, SavesNone
<1>9. ASSUME NEW h \in Handlers, NEW b \in Bodies, Create(h, b) PROVE SaveInv'
  <2>1. /\ Form \in Loads /\ FALSE \in BOOLEAN /\ Insert(h, Form, b, FALSE)
        /\ UNCHANGED <<acts, disturbed>> /\ ~Saving(h)
    BY <1>9 DEF Loads, Create, At, Saving
  <2> QED
    BY <2>1, InsertSaves
<1>10. ASSUME NEW h \in Handlers, NEW b \in Bodies, UploadRow(h, b) PROVE SaveInv'
  <2>1. /\ Form \in Loads /\ FALSE \in BOOLEAN /\ Insert(h, Form, b, FALSE)
        /\ UNCHANGED <<acts, disturbed>> /\ ~Saving(h)
    BY <1>10 DEF Loads, UploadRow, At, Saving
  <2> QED
    BY <2>1, InsertSaves
<1>11. ASSUME NEW h \in Handlers, NEW b \in Bodies, Edit(h, b) PROVE SaveInv'
  <2> DEFINE r == job[h].rec
  <2>1. CASE Live(r)
    <3>1. PICK s : s = r
      OBVIOUS
    <3>2. /\ Others(h) /\ job'[h].pc = "sync" /\ job'[h].rec = s /\ At(h, "edit")
      BY <1>11, <2>1, <3>1, EditTurns
    <3>3. /\ acts' = acts /\ disturbed' = disturbed \cup Overlapped(h, s)
      BY <1>11, <2>1, <3>1 DEF Edit
    <3>4. /\ s \in DOMAIN recs /\ DOMAIN recs' = DOMAIN recs /\ recs'[s].link = recs[s].link
          /\ \A q \in DOMAIN recs \ {s} : recs'[q] = recs[q]
      BY <1>11, <2>1, <3>1, EditWrites
    <3>5. About(h, s)
      BY <3>2, <3>3, <3>4 DEF About, At, Saving
    <3>6. ASSUME s \in LiveRecords' \ disturbed'
          PROVE  /\ \A g \in Handlers \ {h} : ~Saves1(g, s)
                 /\ SaveOf(h, s)' /\ Saves1(h, s)'
      <4>1. \A g \in Handlers : ~Saves1(g, s)
        BY <3>2, <3>3, <3>6 DEF Overlapped, Saves1, At, Saving
      <4>2. Settled(s)
        BY <2>1, <3>1, <3>3, <3>4, <3>6, <4>1 DEF SaveInv, LiveRecords
      <4>3. Owns(s, recs[s].link)'
        BY <3>3, <3>4, <4>2 DEF Settled, Owns
      <4> QED
        BY <3>2, <3>4, <4>1, <4>2, <4>3 DEF SaveOf, Settled, Saves1, Saving, At
    <3> QED
      BY <3>5, <3>6, SaveKept
  <2>2. CASE ~Live(r)
    <3>1. /\ Others(h) /\ UNCHANGED <<recs, acts>> /\ job'[h].pc = "idle"
          /\ disturbed' = IF Saving(h) THEN disturbed \cup {job[h].rec} ELSE disturbed
      BY <1>11, <2>2, EditTurns DEF Edit, Stop
    <3> QED
      BY <3>1, SaveStops
  <2> QED
    BY <2>1, <2>2
<1>12. ASSUME NEW h \in Handlers, NEW b \in Bodies, NEW d \in Docs, Review(h, d, b) PROVE SaveInv'
  <2>1. /\ Others(h) /\ UNCHANGED <<recs, acts>> /\ disturbed \subseteq disturbed'
        /\ ~Saving(h) /\ job'[h].pc \notin SaveSteps
    BY <1>12, ReviewTurns DEF Review, Saving, SaveSteps, At
  <2> QED
    BY <2>1, SavesNone
<1>13. ASSUME NEW h \in Handlers, NEW b \in Bodies, NEW m \in Moves, ReceiveLoad(h, m, b)
        PROVE  SaveInv'
  <2>1. /\ Others(h) /\ UNCHANGED <<recs, acts>> /\ disturbed \subseteq disturbed'
        /\ ~Saving(h) /\ job'[h].pc \notin SaveSteps
    BY <1>13, ReceiveLoadTurns DEF ReceiveLoad, Saving, SaveSteps, At
  <2> QED
    BY <2>1, SavesNone
<1>14. ASSUME NEW h \in Handlers, NEW r \in DOMAIN recs, NEW step \in {"edit", "delete"},
              Open(h, r, step)
        PROVE  SaveInv'
  <2>1. /\ Others(h) /\ UNCHANGED <<recs, acts>> /\ disturbed \subseteq disturbed'
        /\ ~Saving(h) /\ job'[h].pc \notin SaveSteps
    BY <1>14, OpenTurns DEF Open, Saving, SaveSteps, At
  <2> QED
    BY <2>1, SavesNone
<1>15. ASSUME NEW h \in Handlers, NEW p \in Periods, SaveWater(h, p) PROVE SaveInv'
  <2>1. /\ Others(h) /\ UNCHANGED <<recs, acts>> /\ disturbed \subseteq disturbed'
        /\ ~Saving(h) /\ job'[h].pc \notin SaveSteps
    BY <1>15, SaveWaterTurns DEF SaveWater, Saving, SaveSteps, At
  <2> QED
    BY <2>1, SavesNone
<1>16. ASSUME NEW h \in Handlers, NEW m \in Moves, Mark(h, m) PROVE SaveInv'
  <2>1. /\ Others(h) /\ UNCHANGED <<recs, acts>> /\ disturbed \subseteq disturbed'
        /\ ~Saving(h) /\ job'[h].pc \notin SaveSteps
    BY <1>16, MarkTurns DEF Mark, Saving, SaveSteps, At
  <2> QED
    BY <2>1, SavesNone
<1>17. ASSUME NEW h \in Handlers, Upload(h) PROVE SaveInv'
  <2>1. /\ Others(h) /\ UNCHANGED <<recs, acts>> /\ disturbed \subseteq disturbed'
        /\ ~Saving(h) /\ job'[h].pc \notin SaveSteps
    BY <1>17, UploadTurns DEF Upload, Saving, SaveSteps, At
  <2> QED
    BY <2>1, SavesNone
<1>18. ASSUME NEW h \in Handlers, SyncRead(h) PROVE SaveInv'
  <2>1. CASE Live(job[h].rec)
    <3>1. PICK s : s = job[h].rec
      OBVIOUS
    <3>2. Others(h) /\ Saving(h) /\ s \in DOMAIN recs
      BY <1>18, <3>1, SyncReadTurns DEF Saving, At, TypeInv, PlacesTyped, Placed, SaveSteps
    <3>3. /\ job'[h].pc = IF recs[s].link = 0 THEN "make" ELSE "update"
          /\ job'[h].rec = s
          /\ job'[h].saw = [weight |-> recs[s].weight, period |-> recs[s].period,
                            link |-> recs[s].link]
      BY <1>18, <2>1, <3>1, SyncReadTurns
    <3>4. UNCHANGED <<recs, acts, disturbed>> /\ At(h, "sync")
      BY <1>18, <2>1 DEF SyncRead, Live
    <3>7. About(h, s)
      BY <3>1, <3>2, <3>3, <3>4 DEF About, SaveSteps
    <3>8. s \in LiveRecords' \ disturbed' => s \in LiveRecords \ disturbed
      BY <3>2, <3>3, <3>4 DEF LiveRecords, Live
    <3>9. ASSUME s \in LiveRecords' \ disturbed'
          PROVE  /\ \A g \in Handlers \ {h} : ~Saves1(g, s)
                 /\ Saves1(h, s)' => SaveOf(h, s)'
                 /\ ~Saves1(h, s)' => Settled(s)'
      <4>1. (\A g \in Handlers \ {h} : ~Saves1(g, s)) /\ SaveOf(h, s)
        BY <3>1, <3>2, <3>8, <3>9, SoleSaver
      <4>2. Fresh(h, s)' /\ job'[h].saw.link = recs[s].link
        BY <3>3, <3>4 DEF Fresh
      <4>3. CASE recs[s].link = 0
        BY <3>3, <3>4, <4>1, <4>2, <4>3 DEF SaveOf, At, Saves1, Saving
      <4>4. CASE recs[s].link # 0
        <5>1. Owns(s, recs[s].link)'
          BY <3>4, <4>1, <4>4 DEF SaveOf, Owns
        <5>2. job'[h].pc = "update"
          BY <3>3, <4>4
        <5> QED
          BY <3>3, <3>4, <4>1, <4>2, <5>1, <5>2 DEF SaveOf, At, Saves1, Saving
      <4> QED
        BY <4>3, <4>4
    <3> QED
      BY <3>7, <3>9, SaveKept
  <2>2. CASE ~Live(job[h].rec)
    <3>1. /\ Others(h) /\ UNCHANGED <<recs, acts>> /\ job'[h].pc = "idle"
          /\ disturbed' = IF Saving(h) THEN disturbed \cup {job[h].rec} ELSE disturbed
      BY <1>18, <2>2, SyncReadTurns DEF SyncRead, Stop, Live
    <3> QED
      BY <3>1, SaveStops
  <2> QED
    BY <2>1, <2>2
<1>19. ASSUME NEW h \in Handlers, MakeActivity(h) PROVE SaveInv'
  <2>1. PICK s : s = job[h].rec
    OBVIOUS
  <2>2. Others(h) /\ Saving(h) /\ s \in DOMAIN recs
    BY <1>19, <2>1, MakeActivityTurns DEF Saving, At, TypeInv, PlacesTyped, Placed, SaveSteps
  <2>3. /\ job'[h].pc = "link" /\ job'[h].rec = s /\ job'[h].act = Len(acts) + 1
        /\ job'[h].saw = job[h].saw
    BY <1>19, <2>1, MakeActivityTurns
  <2>4. UNCHANGED <<recs, disturbed>> /\ At(h, "make")
    BY <1>19 DEF MakeActivity
  <2>5. PICK new : /\ new = Entry(s, job[h].saw.weight, job[h].saw.period, FALSE)
                   /\ acts' = Append(acts, new)
    BY <1>19, <2>1 DEF MakeActivity
  <2>6. /\ DOMAIN acts = 1 .. Len(acts) /\ DOMAIN acts' = 1 .. Len(acts) + 1 /\ Len(acts) \in Nat
        /\ acts'[Len(acts) + 1] = new /\ \A a \in DOMAIN acts : acts'[a] = acts[a]
    <3>1. acts \in Seq(Act)
      BY DEF TypeInv, RecsTyped
    <3>2. acts' = Append(acts, new)
      BY <2>5
    <3> QED
      BY <3>1, <3>2, AppendIs
  <2>10. \A a \in DOMAIN acts' : a \in DOMAIN acts \/ a = Len(acts) + 1
    BY <2>6
  <2>11. \A a \in DOMAIN acts : a \in DOMAIN acts'
    BY <2>6
  <2>12. /\ acts'[Len(acts) + 1].of = s
         /\ acts'[Len(acts) + 1].weight = job[h].saw.weight
         /\ acts'[Len(acts) + 1].period = job[h].saw.period
    BY <2>5, <2>6 DEF Entry
  <2>7. About(h, s)
    BY <2>1, <2>2, <2>3, <2>4, <2>6, <2>10, <2>11, <2>12 DEF About, SaveSteps
  <2>8. s \in LiveRecords' \ disturbed' => s \in LiveRecords \ disturbed
    BY <2>2, <2>3, <2>4 DEF LiveRecords, Live
  <2>9. ASSUME s \in LiveRecords' \ disturbed'
        PROVE  /\ \A g \in Handlers \ {h} : ~Saves1(g, s)
               /\ Saves1(h, s)' => SaveOf(h, s)'
               /\ ~Saves1(h, s)' => Settled(s)'
    <3>1. (\A g \in Handlers \ {h} : ~Saves1(g, s)) /\ SaveOf(h, s)
      BY <2>1, <2>2, <2>8, <2>9, SoleSaver
    <3>2. Fresh(h, s) /\ \A a \in DOMAIN acts : acts[a].of # s
      BY <2>4, <3>1 DEF SaveOf
    <3>3. Fresh(h, s)'
      BY <2>3, <2>4, <3>2 DEF Fresh
    <3>4. Owns(s, job[h].act)'
      BY <2>3, <2>6, <2>10, <3>2 DEF Owns
    <3>5. States(job[h].act, s)'
      BY <2>3, <2>4, <2>12, <3>2 DEF States, Fresh
    <3> QED
      BY <2>3, <3>1, <3>3, <3>4, <3>5 DEF SaveOf, At, Saves1, Saving
  <2> QED
    BY <2>7, <2>9, SaveKept
<1>20. ASSUME NEW h \in Handlers, LinkActivity(h) PROVE SaveInv'
  <2>1. CASE Live(job[h].rec)
    <3>1. PICK s : s = job[h].rec
      OBVIOUS
    <3>2. Others(h) /\ Saving(h) /\ s \in DOMAIN recs
      BY <1>20, <3>1, LinkActivityTurns DEF Saving, At, TypeInv, PlacesTyped, Placed, SaveSteps
    <3>3. /\ job'[h].pc = "run" /\ job'[h].rec = s /\ job'[h].act = job[h].act
          /\ job'[h].saw = job[h].saw
      BY <1>20, <2>1, <3>1, LinkActivityTurns DEF SameSave
    <3>4. UNCHANGED <<acts, disturbed>> /\ At(h, "link") /\ recs[s].live
      BY <1>20, <2>1, <3>1 DEF LinkActivity, Live
    <3>5. /\ DOMAIN recs' = DOMAIN recs /\ recs'[s].link = job[h].act
          /\ recs'[s].weight = recs[s].weight /\ recs'[s].period = recs[s].period
          /\ \A r \in DOMAIN recs \ {s} : recs'[r] = recs[r]
      BY <1>20, <2>1, <3>1, LinkActivityWrites
    <3>7. About(h, s)
      BY <3>1, <3>2, <3>3, <3>4, <3>5 DEF About, SaveSteps
    <3>8. s \in LiveRecords' \ disturbed' => s \in LiveRecords \ disturbed
      BY <3>2, <3>3, <3>4 DEF LiveRecords, Live
    <3>9. ASSUME s \in LiveRecords' \ disturbed'
          PROVE  /\ \A g \in Handlers \ {h} : ~Saves1(g, s)
                 /\ Saves1(h, s)' => SaveOf(h, s)'
                 /\ ~Saves1(h, s)' => Settled(s)'
      <4>1. (\A g \in Handlers \ {h} : ~Saves1(g, s)) /\ SaveOf(h, s)
        BY <3>1, <3>2, <3>8, <3>9, SoleSaver
      <4>2. Fresh(h, s) /\ Owns(s, job[h].act) /\ States(job[h].act, s)
        BY <3>4, <4>1 DEF SaveOf
      <4>3. Fresh(h, s)'
        BY <3>3, <3>5, <4>2 DEF Fresh
      <4>4. Owns(s, recs[s].link)' /\ States(recs[s].link, s)'
        BY <3>4, <3>5, <4>2 DEF Owns, States
      <4> QED
        BY <3>3, <3>5, <4>1, <4>3, <4>4 DEF SaveOf, At, Saves1, Saving
    <3> QED
      BY <3>7, <3>9, SaveKept
  <2>2. CASE ~Live(job[h].rec)
    <3>1. /\ Others(h) /\ UNCHANGED <<recs, acts>> /\ job'[h].pc = "idle"
          /\ disturbed' = IF Saving(h) THEN disturbed \cup {job[h].rec} ELSE disturbed
      BY <1>20, <2>2, LinkActivityTurns DEF LinkActivity, Stop, Live
    <3> QED
      BY <3>1, SaveStops
  <2> QED
    BY <2>1, <2>2
<1>21. ASSUME NEW h \in Handlers, UpdateActivity(h) PROVE SaveInv'
  <2>1. PICK s : s = job[h].rec
    OBVIOUS
  <2>2. Others(h) /\ Saving(h) /\ s \in DOMAIN recs
    BY <1>21, <2>1, UpdateActivityTurns DEF Saving, At, TypeInv, PlacesTyped, Placed, SaveSteps
  <2>3. /\ job'[h].pc = "run" /\ job'[h].rec = s /\ job'[h].act = job[h].saw.link
        /\ job'[h].saw = job[h].saw
    BY <1>21, <2>1, UpdateActivityTurns
  <2>4. UNCHANGED <<recs, disturbed>> /\ At(h, "update")
    BY <1>21 DEF UpdateActivity
  <2>5. /\ job[h].saw.link \in DOMAIN acts /\ acts[job[h].saw.link].of = s
        /\ acts[job[h].saw.link] \in Act
        /\ acts' = [acts EXCEPT ![job[h].saw.link] = Restated(job[h].saw.link, job[h].saw)]
    BY <1>21, <2>1, <2>4, ElementOfSeq DEF UpdateActivity, ActsInv, TypeInv, RecsTyped
  <2>6. /\ Restated(job[h].saw.link, job[h].saw).of = s
        /\ Restated(job[h].saw.link, job[h].saw).weight = job[h].saw.weight
        /\ Restated(job[h].saw.link, job[h].saw).period = job[h].saw.period
    BY <2>5 DEF Restated, Act
  <2>10. /\ DOMAIN acts' = DOMAIN acts /\ \A a \in DOMAIN acts : acts'[a].of = acts[a].of
         /\ acts'[job[h].saw.link].weight = job[h].saw.weight
         /\ acts'[job[h].saw.link].period = job[h].saw.period
         /\ \A a \in DOMAIN acts : acts[a].of # s => acts'[a] = acts[a]
    BY <2>5, <2>6
  <2>7. About(h, s)
    BY <2>1, <2>2, <2>3, <2>4, <2>10 DEF About, SaveSteps
  <2>8. s \in LiveRecords' \ disturbed' => s \in LiveRecords \ disturbed
    BY <2>2, <2>3, <2>4 DEF LiveRecords, Live
  <2>9. ASSUME s \in LiveRecords' \ disturbed'
        PROVE  /\ \A g \in Handlers \ {h} : ~Saves1(g, s)
               /\ Saves1(h, s)' => SaveOf(h, s)'
               /\ ~Saves1(h, s)' => Settled(s)'
    <3>1. (\A g \in Handlers \ {h} : ~Saves1(g, s)) /\ SaveOf(h, s)
      BY <2>1, <2>2, <2>8, <2>9, SoleSaver
    <3>2. Fresh(h, s) /\ recs[s].link = job[h].saw.link /\ Owns(s, recs[s].link)
      BY <2>4, <3>1 DEF SaveOf
    <3>3. Fresh(h, s)'
      BY <2>3, <2>4, <3>2 DEF Fresh
    <3>4. Owns(s, recs[s].link)'
      BY <2>4, <2>10, <3>2 DEF Owns
    <3>5. States(recs[s].link, s)'
      BY <2>4, <2>10, <3>2 DEF States, Fresh
    <3> QED
      BY <2>3, <2>4, <3>1, <3>2, <3>3, <3>4, <3>5 DEF SaveOf, At, Saves1, Saving
  <2> QED
    BY <2>7, <2>9, SaveKept
<1>22. ASSUME NEW h \in Handlers, Calculate(h) PROVE SaveInv'
  <2>1. PICK s : s = job[h].rec
    OBVIOUS
  <2>2. Others(h) /\ Saving(h) /\ s \in DOMAIN recs
    BY <1>22, <2>1, CalculateTurns DEF Saving, At, TypeInv, PlacesTyped, Placed, SaveSteps
  <2>3. /\ job'[h].pc = "figure" /\ job'[h].rec = s /\ job'[h].saw = job[h].saw
    BY <1>22, <2>1, CalculateTurns
  <2>4. UNCHANGED <<recs, disturbed>> /\ At(h, "run")
    BY <1>22 DEF Calculate
  <2>5. /\ job[h].act \in DOMAIN acts /\ acts[job[h].act].of = s /\ acts[job[h].act] \in Act
        /\ acts' = [acts EXCEPT ![job[h].act] = [@ EXCEPT !.row = TRUE]]
    BY <1>22, <2>1, <2>4, ElementOfSeq DEF Calculate, ActsInv, TypeInv, RecsTyped, At
  <2>6. /\ DOMAIN acts' = DOMAIN acts /\ acts'[job[h].act].row
        /\ \A a \in DOMAIN acts : /\ acts'[a].of = acts[a].of /\ acts'[a].weight = acts[a].weight
                                  /\ acts'[a].period = acts[a].period
                                  /\ acts'[a].amended = acts[a].amended
                                  /\ acts[a].of # s => acts'[a] = acts[a]
    BY <2>5 DEF Act
  <2>10. job[h].act # 0
    BY <2>5, LenProperties DEF TypeInv, RecsTyped
  <2>7. About(h, s)
    BY <2>1, <2>2, <2>3, <2>4, <2>6 DEF About, SaveSteps
  <2>8. s \in LiveRecords' \ disturbed' => s \in LiveRecords \ disturbed
    BY <2>2, <2>3, <2>4 DEF LiveRecords, Live
  <2>9. ASSUME s \in LiveRecords' \ disturbed'
        PROVE  /\ \A g \in Handlers \ {h} : ~Saves1(g, s)
               /\ Saves1(h, s)' => SaveOf(h, s)'
               /\ ~Saves1(h, s)' => Settled(s)'
    <3>1. (\A g \in Handlers \ {h} : ~Saves1(g, s)) /\ SaveOf(h, s)
      BY <2>1, <2>2, <2>8, <2>9, SoleSaver
    <3>2. /\ Fresh(h, s) /\ recs[s].link = job[h].act /\ Owns(s, recs[s].link)
          /\ States(recs[s].link, s)
      BY <2>4, <3>1 DEF SaveOf
    <3>3. Fresh(h, s)'
      BY <2>3, <2>4, <3>2 DEF Fresh
    <3>4. Owns(s, recs[s].link)'
      BY <2>4, <2>6, <3>2 DEF Owns
    <3>5. States(recs[s].link, s)'
      <4>1. PICK a : a = job[h].act
        OBVIOUS
      <4>2. a \in DOMAIN acts /\ recs[s].link = a /\ recs' = recs /\ States(a, s)
        BY <2>4, <2>5, <3>2, <4>1
      <4>3. /\ acts'[a].period = acts[a].period /\ acts'[a].weight = acts[a].weight
            /\ acts'[a].amended = acts[a].amended
        BY <2>6, <4>2
      <4> QED
        BY <4>2, <4>3 DEF States
    <3> QED
      BY <2>3, <2>4, <2>6, <2>10, <3>1, <3>2, <3>3, <3>4, <3>5 DEF SaveOf, At, Saves1, Saving
  <2> QED
    BY <2>7, <2>9, SaveKept
<1>23. ASSUME NEW h \in Handlers, WriteFigure(h) PROVE SaveInv'
  <2>1. CASE Live(job[h].rec)
    <3>1. PICK s : s = job[h].rec
      OBVIOUS
    <3>2. Others(h) /\ Saving(h) /\ s \in DOMAIN recs
      BY <1>23, <3>1, WriteFigureTurns DEF Saving, At, TypeInv, PlacesTyped, Placed, SaveSteps
    <3>3. job'[h].pc \in {"rows", "read"}
      BY <1>23, <2>1, WriteFigureTurns
    <3>4. UNCHANGED <<acts, disturbed>> /\ At(h, "figure") /\ recs[s].live
      BY <1>23, <2>1, <3>1 DEF WriteFigure, Live
    <3>5. /\ DOMAIN recs' = DOMAIN recs /\ recs'[s].co2e = job[h].saw.weight
          /\ recs'[s].weight = recs[s].weight /\ recs'[s].period = recs[s].period
          /\ recs'[s].link = recs[s].link
          /\ \A r \in DOMAIN recs \ {s} : recs'[r] = recs[r]
      BY <1>23, <2>1, <3>1, WriteFigureWrites
    <3>7. About(h, s)
      BY <3>1, <3>2, <3>3, <3>4, <3>5 DEF About, SaveSteps
    <3>8. s \in LiveRecords' \ disturbed' => s \in LiveRecords \ disturbed
      BY <3>2, <3>3, <3>4 DEF LiveRecords, Live
    <3>9. ASSUME s \in LiveRecords' \ disturbed'
          PROVE  /\ \A g \in Handlers \ {h} : ~Saves1(g, s)
                 /\ Saves1(h, s)' => SaveOf(h, s)'
                 /\ ~Saves1(h, s)' => Settled(s)'
      <4>1. (\A g \in Handlers \ {h} : ~Saves1(g, s)) /\ SaveOf(h, s)
        BY <3>1, <3>2, <3>8, <3>9, SoleSaver
      <4>2. /\ Fresh(h, s) /\ recs[s].link # 0 /\ Owns(s, recs[s].link)
            /\ States(recs[s].link, s) /\ acts[recs[s].link].row
        BY <3>4, <4>1 DEF SaveOf
      <4>3. Owns(s, recs[s].link)' /\ States(recs[s].link, s)'
        BY <3>4, <3>5, <4>2 DEF Owns, States
      <4>4. ~Saves1(h, s)'
        BY <3>3 DEF Saves1, Saving
      <4> QED
        BY <3>4, <3>5, <4>1, <4>2, <4>3, <4>4 DEF Settled, Fresh
    <3> QED
      BY <3>7, <3>9, SaveKept
  <2>2. CASE ~Live(job[h].rec)
    <3>1. /\ Others(h) /\ UNCHANGED <<recs, acts>> /\ job'[h].pc = "idle"
          /\ disturbed' = IF Saving(h) THEN disturbed \cup {job[h].rec} ELSE disturbed
      BY <1>23, <2>2, WriteFigureTurns DEF WriteFigure, Stop, Live
    <3> QED
      BY <3>1, SaveStops
  <2> QED
    BY <2>1, <2>2
<1>24. ASSUME NEW h \in Handlers, RebuildReads(h) PROVE SaveInv'
  <2>1. /\ Others(h) /\ UNCHANGED <<recs, acts>> /\ disturbed \subseteq disturbed'
        /\ ~Saving(h) /\ job'[h].pc \notin SaveSteps
    BY <1>24, RebuildReadsTurns DEF RebuildReads, Saving, SaveSteps, At
  <2> QED
    BY <2>1, SavesNone
<1>25. ASSUME NEW h \in Handlers, RebuildClears(h) PROVE SaveInv'
  <2>1. /\ Others(h) /\ UNCHANGED <<recs, acts>> /\ disturbed \subseteq disturbed'
        /\ ~Saving(h) /\ job'[h].pc \notin SaveSteps
    BY <1>25, RebuildClearsTurns DEF RebuildClears, Saving, SaveSteps, At
  <2> QED
    BY <2>1, SavesNone
<1>26. ASSUME NEW h \in Handlers, RebuildCommits(h) PROVE SaveInv'
  <2>1. /\ Others(h) /\ UNCHANGED <<recs, acts>> /\ disturbed \subseteq disturbed'
        /\ ~Saving(h) /\ job'[h].pc \notin SaveSteps
    BY <1>26, RebuildCommitsTurns DEF RebuildCommits, Saving, SaveSteps, At
  <2> QED
    BY <2>1, SavesNone
<1>27. ASSUME NEW h \in Handlers, Halts(h) PROVE SaveInv'
  <2>1. /\ Others(h) /\ UNCHANGED <<recs, acts>> /\ job'[h].pc = "idle"
        /\ disturbed' = IF Saving(h) THEN disturbed \cup {job[h].rec} ELSE disturbed
    BY <1>27, HaltTurns DEF Halts, Stop
  <2> QED
    BY <2>1, SaveStops
<1>28. ASSUME NEW h \in Handlers, Accept(h) PROVE SaveInv'
  <2>1. CASE Claimed(job[h].load)
    <3> DEFINE sure == job[h].task = "bulk" /\ docs[job[h].load].status = "pending"
    <3>1. /\ job[h].load \in Loads /\ job[h].body \in Bodies /\ sure \in BOOLEAN
          /\ Insert(h, job[h].load, job[h].body, sure)
      BY <1>28, <2>1, AcceptTurns
    <3>2. UNCHANGED <<acts, disturbed>> /\ ~Saving(h)
      BY <1>28 DEF Accept, At, Saving
    <3> QED
      BY <3>1, <3>2, InsertSaves
  <2>2. CASE ~Claimed(job[h].load)
    <3>1. /\ Others(h) /\ UNCHANGED <<recs, acts, disturbed>>
          /\ ~Saving(h) /\ job'[h].pc \notin SaveSteps
      BY <1>28, <2>2, AcceptTurns DEF Accept, Saving, SaveSteps, At
    <3> QED
      BY <3>1, SavesNone
  <2> QED
    BY <2>1, <2>2
<1>29. ASSUME NEW h \in Handlers, Receive(h) PROVE SaveInv'
  <2>1. CASE InTable(moves[job[h].load])
    <3>1. /\ job[h].load \in Loads /\ job[h].body \in Bodies /\ FALSE \in BOOLEAN
          /\ Insert(h, job[h].load, job[h].body, FALSE)
      BY <1>29, <2>1, ReceiveTurns
    <3>2. UNCHANGED <<acts, disturbed>> /\ ~Saving(h)
      BY <1>29 DEF Receive, At, Saving
    <3> QED
      BY <3>1, <3>2, InsertSaves
  <2>2. CASE ~InTable(moves[job[h].load])
    <3>1. /\ Others(h) /\ UNCHANGED <<recs, acts, disturbed>>
          /\ ~Saving(h) /\ job'[h].pc \notin SaveSteps
      BY <1>29, <2>2, ReceiveTurns DEF Receive, Saving, SaveSteps, At
    <3> QED
      BY <3>1, SavesNone
  <2> QED
    BY <2>1, <2>2
<1>30. ASSUME NEW h \in Handlers, Delete(h) PROVE SaveInv'
  <2>1. CASE Live(job[h].rec)
    <3>1. PICK s : s = job[h].rec
      OBVIOUS
    <3>2. /\ Others(h) /\ job'[h].pc = "read" /\ At(h, "delete") /\ UNCHANGED <<acts, disturbed>>
      BY <1>30, <2>1, DeleteTurns DEF Delete
    <3>3. /\ DOMAIN recs' = DOMAIN recs /\ ~recs'[s].live
          /\ \A q \in DOMAIN recs \ {s} : recs'[q] = recs[q]
      BY <1>30, <2>1, <3>1, DeleteWrites
    <3>4. About(h, s)
      BY <3>2, <3>3 DEF About, At, Saving, SaveSteps
    <3> QED
      BY <3>3, <3>4, SaveKept DEF LiveRecords, Live
  <2>2. CASE ~Live(job[h].rec)
    <3>1. /\ Others(h) /\ UNCHANGED <<recs, acts>> /\ job'[h].pc = "idle"
          /\ disturbed' = IF Saving(h) THEN disturbed \cup {job[h].rec} ELSE disturbed
      BY <1>30, <2>2, DeleteTurns DEF Delete, Stop, Live
    <3> QED
      BY <3>1, SaveStops
  <2> QED
    BY <2>1, <2>2
<1>31. ASSUME NEW h \in Handlers, MarkWrites(h) PROVE SaveInv'
  <2>1. /\ Others(h) /\ UNCHANGED <<recs, acts>> /\ disturbed \subseteq disturbed'
        /\ ~Saving(h) /\ job'[h].pc \notin SaveSteps
    BY <1>31, MarkWritesTurns DEF MarkWrites, Saving, SaveSteps, At
  <2> QED
    BY <2>1, SavesNone
<1>32. ASSUME NEW h \in Handlers, UploadEnds(h) PROVE SaveInv'
  <2>1. /\ Others(h) /\ UNCHANGED <<recs, acts>> /\ disturbed \subseteq disturbed'
        /\ ~Saving(h) /\ job'[h].pc \notin SaveSteps
    BY <1>32, UploadEndsTurns DEF UploadEnds, Saving, SaveSteps, At
  <2> QED
    BY <2>1, SavesNone
<1>33. ASSUME UNCHANGED vars PROVE SaveInv'
  BY <1>33 DEF vars, SaveInv, Saves1, Saving, SaveOf, Settled, Owns, States, Fresh, LiveRecords,
     Live, At
<1>34. ASSUME ByHand PROVE SaveInv'
  BY <1>34, ByHandSaves
<1> QED
  BY <1>1, <1>2, <1>3, <1>4, <1>5, <1>6, <1>7, <1>8, <1>9, <1>10, <1>11, <1>12, <1>13,
     <1>14, <1>15, <1>16, <1>17, <1>18, <1>19, <1>20, <1>21, <1>22, <1>23, <1>24, <1>25,
     <1>26, <1>27, <1>28, <1>29, <1>30, <1>31, <1>32, <1>33,
     <1>34, HaltsEither
     DEF Next, Note, Bulk, Asks, Saves, Rebuild

---------------------------------------------------------------------------
(* Periods and their totals. *)

LEMMA InsertDistinct ==
    ASSUME TypeInv, PeriodsInv, NEW h \in Handlers, NEW b \in Bodies, NEW from \in Loads,
           NEW sure \in BOOLEAN, Insert(h, from, b, sure)
    PROVE  PeriodsInv'
<1>1. Others(h) /\ job'[h].periods = Inserted(h, b).periods
  BY InsertJob
<1>2. Distinct(Inserted(h, b).periods)
  BY InsertedIsJob DEF PeriodsInv
<1> QED
  BY <1>1, <1>2 DEF PeriodsInv, Others

LEMMA PeriodsInvStep ==
    ASSUME TypeInv, PeriodsInv, [Next]_vars
    PROVE  PeriodsInv'
<1> USE DEF tables, inbox, history
<1>1. ASSUME NEW d \in Docs, Submit(d) PROVE PeriodsInv'
  BY <1>1 DEF Submit, PeriodsInv
<1>2. ASSUME NEW d \in Docs, Decide(d) PROVE PeriodsInv'
  BY <1>2 DEF Decide, PeriodsInv
<1>3. ASSUME NEW d \in Docs, RemoveNote(d) PROVE PeriodsInv'
  BY <1>3 DEF RemoveNote, PeriodsInv
<1>4. ASSUME NEW m \in Moves, RemoveMove(m) PROVE PeriodsInv'
  BY <1>4 DEF RemoveMove, PeriodsInv
<1>5. ASSUME NEW h \in Handlers, BulkFind(h) PROVE PeriodsInv'
  BY <1>5, BulkFindTurns, NoPeriods DEF PeriodsInv, Others, SameTotals, NoTotals
<1>6. ASSUME NEW h \in Handlers, BulkWaiting(h) PROVE PeriodsInv'
  BY <1>6, BulkWaitingTurns, NoPeriods DEF PeriodsInv, Others, SameTotals, NoTotals
<1>7. ASSUME NEW h \in Handlers, BulkSeen(h) PROVE PeriodsInv'
  BY <1>7, BulkSeenTurns, NoPeriods DEF PeriodsInv, Others, SameTotals, NoTotals
<1>8. ASSUME NEW h \in Handlers, BulkPick(h) PROVE PeriodsInv'
  BY <1>8, BulkPickTurns, NoPeriods DEF PeriodsInv, Others, SameTotals, NoTotals
<1>9. ASSUME NEW h \in Handlers, NEW b \in Bodies, Create(h, b) PROVE PeriodsInv'
  <2>1. Form \in Loads /\ FALSE \in BOOLEAN /\ Insert(h, Form, b, FALSE)
    BY <1>9 DEF Loads, Create
  <2> QED
    BY <2>1, InsertDistinct
<1>10. ASSUME NEW h \in Handlers, NEW b \in Bodies, UploadRow(h, b) PROVE PeriodsInv'
  <2>1. Form \in Loads /\ FALSE \in BOOLEAN /\ Insert(h, Form, b, FALSE)
    BY <1>10 DEF Loads, UploadRow
  <2> QED
    BY <2>1, InsertDistinct
<1>11. ASSUME NEW h \in Handlers, NEW b \in Bodies, Edit(h, b) PROVE PeriodsInv'
  <2>1. job[h].was \in Periods /\ b.period \in Periods
    BY <1>11, BodyAssumption DEF Edit, At, TypeInv, PlacesTyped, Placed
  <2>2. CASE Live(job[h].rec)
    <3>1. Others(h) /\ job'[h].periods = Rebuilds(b.period, job[h].was)
      BY <1>11, <2>2, EditTurns
    <3>2. Distinct(Rebuilds(b.period, job[h].was))
      BY <2>1, TwoPeriods
    <3> QED
      BY <3>1, <3>2 DEF PeriodsInv, Others
  <2>3. CASE ~Live(job[h].rec)
    BY <1>11, <2>3, EditTurns, NoPeriods DEF PeriodsInv, Others, NoTotals
  <2> QED
    BY <2>2, <2>3
<1>12. ASSUME NEW h \in Handlers, NEW b \in Bodies, NEW d \in Docs, Review(h, d, b)
        PROVE  PeriodsInv'
  BY <1>12, ReviewTurns, NoPeriods DEF PeriodsInv, Others, SameTotals, NoTotals
<1>13. ASSUME NEW h \in Handlers, NEW b \in Bodies, NEW m \in Moves, ReceiveLoad(h, m, b)
        PROVE  PeriodsInv'
  BY <1>13, ReceiveLoadTurns, NoPeriods DEF PeriodsInv, Others, SameTotals, NoTotals
<1>14. ASSUME NEW h \in Handlers, NEW r \in DOMAIN recs, NEW step \in {"edit", "delete"},
              Open(h, r, step)
        PROVE  PeriodsInv'
  BY <1>14, OpenTurns, NoPeriods DEF PeriodsInv, Others, SameTotals, NoTotals
<1>15. ASSUME NEW h \in Handlers, NEW p \in Periods, SaveWater(h, p) PROVE PeriodsInv'
  BY <1>15, SaveWaterTurns, OnePeriod DEF PeriodsInv, Others
<1>16. ASSUME NEW h \in Handlers, NEW m \in Moves, Mark(h, m) PROVE PeriodsInv'
  BY <1>16, MarkTurns, NoPeriods DEF PeriodsInv, Others, SameTotals, NoTotals
<1>17. ASSUME NEW h \in Handlers, Upload(h) PROVE PeriodsInv'
  BY <1>17, UploadTurns, NoPeriods DEF PeriodsInv, Others, SameTotals, NoTotals
<1>18. ASSUME NEW h \in Handlers, SyncRead(h) PROVE PeriodsInv'
  BY <1>18, SyncReadTurns, NoPeriods DEF PeriodsInv, Others, SameTotals, NoTotals
<1>19. ASSUME NEW h \in Handlers, MakeActivity(h) PROVE PeriodsInv'
  BY <1>19, MakeActivityTurns, NoPeriods DEF PeriodsInv, Others, SameTotals, NoTotals
<1>20. ASSUME NEW h \in Handlers, LinkActivity(h) PROVE PeriodsInv'
  BY <1>20, LinkActivityTurns, NoPeriods DEF PeriodsInv, Others, SameTotals, NoTotals
<1>21. ASSUME NEW h \in Handlers, UpdateActivity(h) PROVE PeriodsInv'
  BY <1>21, UpdateActivityTurns, NoPeriods DEF PeriodsInv, Others, SameTotals, NoTotals
<1>22. ASSUME NEW h \in Handlers, Calculate(h) PROVE PeriodsInv'
  BY <1>22, CalculateTurns, NoPeriods DEF PeriodsInv, Others, SameTotals, NoTotals
<1>23. ASSUME NEW h \in Handlers, WriteFigure(h) PROVE PeriodsInv'
  BY <1>23, WriteFigureTurns, NoPeriods DEF PeriodsInv, Others, SameTotals, NoTotals
<1>24. ASSUME NEW h \in Handlers, RebuildReads(h) PROVE PeriodsInv'
  BY <1>24, RebuildReadsTurns, NoPeriods DEF PeriodsInv, Others, SameTotals, NoTotals
<1>25. ASSUME NEW h \in Handlers, RebuildClears(h) PROVE PeriodsInv'
  BY <1>25, RebuildClearsTurns, NoPeriods DEF PeriodsInv, Others, SameTotals, NoTotals
<1>26. ASSUME NEW h \in Handlers, RebuildCommits(h) PROVE PeriodsInv'
  <2>1. job[h].periods \in Seq(Periods) /\ job[h].periods # <<>>
    BY <1>26, RebuildCommitsTurns DEF At, TypeInv, PlacesTyped, Placed, RebuildSteps, JobsTyped, Job
  <2>2. Distinct(Tail(job[h].periods))
    BY <2>1, FewerPeriods DEF PeriodsInv
  <2> QED
    BY <1>26, <2>2, RebuildCommitsTurns, NoPeriods DEF PeriodsInv, Others, NoTotals
<1>27. ASSUME NEW h \in Handlers, Halts(h) PROVE PeriodsInv'
  BY <1>27, HaltTurns, NoPeriods DEF PeriodsInv, Others, SameTotals, NoTotals
<1>28. ASSUME NEW h \in Handlers, Accept(h) PROVE PeriodsInv'
  <2>1. CASE Claimed(job[h].load)
    <3> DEFINE sure == job[h].task = "bulk" /\ docs[job[h].load].status = "pending"
    <3>1. /\ job[h].load \in Loads /\ job[h].body \in Bodies /\ sure \in BOOLEAN
          /\ Insert(h, job[h].load, job[h].body, sure)
      BY <1>28, <2>1, AcceptTurns
    <3> QED
      BY <3>1, InsertDistinct
  <2>2. CASE ~Claimed(job[h].load)
    BY <1>28, <2>2, AcceptTurns, NoPeriods DEF PeriodsInv, Others, NoTotals
  <2> QED
    BY <2>1, <2>2
<1>29. ASSUME NEW h \in Handlers, Receive(h) PROVE PeriodsInv'
  <2>1. CASE InTable(moves[job[h].load])
    <3>1. /\ job[h].load \in Loads /\ job[h].body \in Bodies /\ FALSE \in BOOLEAN
          /\ Insert(h, job[h].load, job[h].body, FALSE)
      BY <1>29, <2>1, ReceiveTurns
    <3> QED
      BY <3>1, InsertDistinct
  <2>2. CASE ~InTable(moves[job[h].load])
    BY <1>29, <2>2, ReceiveTurns, NoPeriods DEF PeriodsInv, Others, NoTotals
  <2> QED
    BY <2>1, <2>2
<1>30. ASSUME NEW h \in Handlers, Delete(h) PROVE PeriodsInv'
  <2>1. job[h].was \in Periods
    BY <1>30 DEF Delete, At, TypeInv, PlacesTyped, Placed
  <2> QED
    BY <1>30, <2>1, DeleteTurns, NoPeriods, OnePeriod DEF PeriodsInv, Others, NoTotals
<1>31. ASSUME NEW h \in Handlers, MarkWrites(h) PROVE PeriodsInv'
  BY <1>31, MarkWritesTurns, NoPeriods DEF PeriodsInv, Others, SameTotals, NoTotals
<1>32. ASSUME NEW h \in Handlers, UploadEnds(h) PROVE PeriodsInv'
  BY <1>32, UploadEndsTurns, NoPeriods DEF PeriodsInv, Others, SameTotals, NoTotals
<1>33. ASSUME UNCHANGED vars PROVE PeriodsInv'
  BY <1>33 DEF vars, PeriodsInv
<1>34. ASSUME ByHand PROVE PeriodsInv'
  BY <1>34, ByHandLeaves DEF PeriodsInv
<1> QED
  BY <1>1, <1>2, <1>3, <1>4, <1>5, <1>6, <1>7, <1>8, <1>9, <1>10, <1>11, <1>12, <1>13,
     <1>14, <1>15, <1>16, <1>17, <1>18, <1>19, <1>20, <1>21, <1>22, <1>23, <1>24, <1>25,
     <1>26, <1>27, <1>28, <1>29, <1>30, <1>31, <1>32, <1>33,
     <1>34, HaltsEither
     DEF Next, Note, Bulk, Asks, Saves, Rebuild

LEMMA WeighedSame ==
    ASSUME NEW p, InPeriod(p)' = InPeriod(p),
           \A r \in InPeriod(p) : recs'[r].weight = recs[r].weight
    PROVE  Weighed(p)' = Weighed(p)
<1>1. [r \in InPeriod(p) |-> recs[r].weight]' = [r \in InPeriod(p) |-> recs[r].weight]
  OBVIOUS
<1> QED
  BY <1>1 DEF Weighed

LEMMA WeighedApart ==
    ASSUME NEW p, NEW r0, \A r \in DOMAIN recs' : r # r0 => r \in DOMAIN recs /\ recs'[r] = recs[r],
           DOMAIN recs \subseteq DOMAIN recs',
           r0 \in DOMAIN recs => ~(recs[r0].live /\ recs[r0].period = p),
           r0 \in DOMAIN recs' => ~(recs'[r0].live /\ recs'[r0].period = p)
    PROVE  Weighed(p)' = Weighed(p)
BY WeighedSame DEF InPeriod, LiveRecords, Live

\* What a step of h must do for the totals of the periods it will rebuild, and leave the others.
TotalsOf(h) ==
    \A p \in Periods \ spoiled' :
        IF p \in Busy(h) \/ p \in Busy(h)'
        THEN /\ \A g \in Handlers \ {h} : p \notin Busy(g)
             /\ job'[h].periods # <<>> /\ p = Head(job'[h].periods) => RebuildOf(h, p)'
             /\ p \notin Busy(h)' => Exact(p)'
        ELSE p \notin spoiled /\ Weighed(p)' = Weighed(p) /\ totals'[p] = totals[p]

LEMMA TotalKept ==
    ASSUME TypeInv, TypeInv', TotalInv, NEW h \in Handlers, Others(h), TotalsOf(h)
    PROVE  TotalInv'
<1>1. \A g \in Handlers \ {h} : job'[g] = job[g]
  BY DEF Others
<1>2. \A g \in Handlers \ {h} : Busy(g)' = Busy(g)
  BY <1>1 DEF Busy
<1>3. \A g \in Handlers : job[g].periods # <<>> => Head(job[g].periods) \in Busy(g)
  BY FewerPeriods DEF TypeInv, JobsTyped, Job, Busy
<1>4. job'[h].periods # <<>> => Head(job'[h].periods) \in Busy(h)'
  BY FewerPeriods DEF TypeInv, JobsTyped, Job, Busy
<1>5. SUFFICES ASSUME NEW p \in Periods \ spoiled'
               PROVE  /\ \A g, k \in Handlers : p \in Busy(g)' /\ p \in Busy(k)' => g = k
                      /\ \A g \in Handlers :
                            job'[g].periods # <<>> /\ p = Head(job'[g].periods) => RebuildOf(g, p)'
                      /\ (\A g \in Handlers : p \notin Busy(g)') => Exact(p)'
  BY DEF TotalInv
<1>6. CASE p \in Busy(h) \/ p \in Busy(h)'
  <2>1. \A g \in Handlers \ {h} : p \notin Busy(g) /\ p \notin Busy(g)'
    BY <1>2, <1>6 DEF TotalsOf
  <2>2. \A g \in Handlers \ {h} : ~(job'[g].periods # <<>> /\ p = Head(job'[g].periods))
    BY <1>1, <1>3, <2>1
  <2>3. /\ job'[h].periods # <<>> /\ p = Head(job'[h].periods) => RebuildOf(h, p)'
        /\ p \notin Busy(h)' => Exact(p)'
    BY <1>6 DEF TotalsOf
  <2> QED
    BY <2>1, <2>2, <2>3
<1>7. CASE ~(p \in Busy(h) \/ p \in Busy(h)')
  <2>1. p \notin spoiled /\ Weighed(p)' = Weighed(p) /\ totals'[p] = totals[p]
    BY <1>7 DEF TotalsOf
  <2>2. \A g \in Handlers : p \in Busy(g)' <=> p \in Busy(g)
    BY <1>2, <1>7
  <2>3. \A g, k \in Handlers : p \in Busy(g)' /\ p \in Busy(k)' => g = k
    BY <2>1, <2>2 DEF TotalInv
  <2>4. ASSUME NEW g \in Handlers, job'[g].periods # <<>>, p = Head(job'[g].periods)
        PROVE  RebuildOf(g, p)'
    <3>1. g # h /\ job'[g] = job[g]
      BY <1>1, <1>4, <1>7, <2>4
    <3>2. RebuildOf(g, p)
      BY <2>1, <2>4, <3>1 DEF TotalInv
    <3> QED
      BY <2>1, <3>1, <3>2 DEF RebuildOf, At
  <2>5. Exact(p) => Exact(p)'
    BY <2>1 DEF Exact
  <2> QED
    BY <2>1, <2>2, <2>3, <2>4, <2>5 DEF TotalInv
<1> QED
  BY <1>6, <1>7

\* h goes on with the same periods to rebuild, or none, and does not come to rebuild one.
LEMMA TotalsSame ==
    ASSUME TypeInv, TypeInv', TotalInv, NEW h \in Handlers, Others(h),
           job'[h].periods = job[h].periods, job'[h].pc \notin {"clear", "commit"},
           UNCHANGED <<totals, spoiled>>, \A p \in Periods : Weighed(p)' = Weighed(p)
    PROVE  TotalInv'
<1>1. Busy(h)' = Busy(h)
  BY DEF Busy
<1>2. \A p : RebuildOf(h, p)'
  BY DEF RebuildOf, At
<1>3. ASSUME NEW p \in Periods \ spoiled', p \in Busy(h) \/ p \in Busy(h)'
      PROVE  (\A g \in Handlers \ {h} : p \notin Busy(g)) /\ (p \notin Busy(h)' => Exact(p)')
  BY <1>1, <1>3 DEF TotalInv
<1> QED
  BY <1>1, <1>2, <1>3, TotalKept DEF TotalsOf

\* h stops with periods it had to rebuild, or without.
LEMMA TotalsStop ==
    ASSUME TypeInv, TypeInv', TotalInv, NEW h \in Handlers, Others(h), NoTotals(h),
           spoiled' = spoiled \cup Busy(h), UNCHANGED <<totals, recs>>
    PROVE  TotalInv'
<1>1. Busy(h)' = {}
  BY NoPeriods DEF NoTotals, Busy
<1>2. \A p : Weighed(p)' = Weighed(p)
  BY WeighedSame DEF InPeriod, LiveRecords, Live
<1> QED
  BY <1>1, <1>2, TotalKept DEF TotalsOf

\* h writes to the record r0 and takes on the rebuilds of the periods that change, but for those
\* another request is about and the one it does not know of.
LEMMA TotalsWrite ==
    ASSUME TypeInv, TypeInv', TotalInv, NEW h \in Handlers, NEW r0, NEW P, Others(h),
           UNCHANGED totals, job'[h].pc \notin {"clear", "commit"}, Busy(h) \subseteq Busy(h)',
           spoiled \cup {p \in Busy(h)' : \E g \in Handlers \ {h} : p \in Busy(g)} \cup P
              \subseteq spoiled',
           \A r \in DOMAIN recs' : r # r0 => r \in DOMAIN recs /\ recs'[r] = recs[r],
           DOMAIN recs \subseteq DOMAIN recs',
           r0 \in DOMAIN recs /\ recs[r0].live => recs[r0].period \in P \cup Busy(h)',
           r0 \in DOMAIN recs' /\ recs'[r0].live => recs'[r0].period \in P \cup Busy(h)'
    PROVE  TotalInv'
<1>1. \A p : RebuildOf(h, p)'
  BY DEF RebuildOf, At
<1>2. ASSUME NEW p \in Periods \ spoiled', p \notin Busy(h)'
      PROVE  Weighed(p)' = Weighed(p)
  BY <1>2, WeighedApart
<1> QED
  BY <1>1, <1>2, TotalKept DEF TotalsOf

LEMMA InsertTotals ==
    ASSUME TypeInv, TypeInv', TotalInv, NEW h \in Handlers, NEW b \in Bodies, NEW from \in Loads,
           NEW sure \in BOOLEAN, Insert(h, from, b, sure), UNCHANGED totals
    PROVE  TotalInv'
<1>0. PICK n : n = Len(recs) + 1
  OBVIOUS
<1>1. /\ DOMAIN recs = 1 .. Len(recs) /\ DOMAIN recs' = 1 .. n /\ Len(recs) \in Nat
      /\ recs'[n] = Row(from, sure, b) /\ \A r \in DOMAIN recs : recs'[r] = recs[r]
      /\ spoiled' = spoiled \cup {p \in {b.period} \cup Range(Inserted(h, b).periods) :
                                     \E g \in Handlers \ {h} : p \in Busy(g)}
  BY <1>0, InsertTurns
<1>2. /\ \A r \in DOMAIN recs' : r # n => r \in DOMAIN recs /\ recs'[r] = recs[r]
      /\ DOMAIN recs \subseteq DOMAIN recs' /\ n \notin DOMAIN recs
  BY <1>0, <1>1
<1>3. /\ Others(h) /\ job'[h].pc \notin {"clear", "commit"}
      /\ job'[h].periods = Inserted(h, b).periods
  BY InsertJob
<1>4. Range(Inserted(h, b).periods) = Range(job[h].periods) \cup {b.period}
  BY InsertedIsJob
<1>5. Busy(h)' = Busy(h) \cup {b.period}
  BY <1>3, <1>4 DEF Busy
<1>6. recs'[n].period = b.period
  BY <1>1 DEF Row
<1>7. spoiled' = spoiled \cup {p \in Busy(h)' : \E g \in Handlers \ {h} : p \in Busy(g)}
  BY <1>1, <1>3, <1>4 DEF Busy
<1> QED
  BY <1>2, <1>3, <1>5, <1>6, <1>7, TotalsWrite

LEMMA NoChangeTotals ==
    ASSUME TypeInv, TotalInv, UNCHANGED <<recs, totals, spoiled, job>>
    PROVE  TotalInv'
<1>1. \A p : Weighed(p)' = Weighed(p)
  BY WeighedSame DEF InPeriod, LiveRecords, Live
<1>2. \A p : Exact(p)' = Exact(p) /\ \A h \in Handlers : RebuildOf(h, p)' = RebuildOf(h, p)
  BY <1>1 DEF Exact, RebuildOf, At
<1> QED
  BY <1>1, <1>2 DEF TotalInv, Busy

LEMMA ByHandTotalInv ==
    ASSUME TypeInv, ActsInv, TotalInv, ByHand
    PROVE  TotalInv'
<1>1. HandWrites /\ job' = job /\ totals' = totals /\ spoiled \subseteq spoiled'
  BY ByHandWrites, ByHandLeaves
<1>2. SUFFICES ASSUME NEW p \in Periods \ spoiled'
               PROVE  /\ \A g, h \in Handlers : p \in Busy(g)' /\ p \in Busy(h)' => g = h
                      /\ \A h \in Handlers :
                            job'[h].periods # <<>> /\ p = Head(job'[h].periods) => RebuildOf(h, p)'
                      /\ (\A h \in Handlers : p \notin Busy(h)') => Exact(p)'
  BY DEF TotalInv
<1>3. p \in Periods \ spoiled
  BY <1>1, <1>2
<1>4. \A r \in DOMAIN recs :
         /\ r \in DOMAIN recs' /\ recs'[r].live = recs[r].live
         /\ recs'[r].period = recs[r].period /\ recs'[r].weight = recs[r].weight
  BY <1>1 DEF HandWrites, RecKept
<1>5. \A r \in DOMAIN recs' : recs'[r].period = p => r \in DOMAIN recs
  BY <1>1, <1>2 DEF HandWrites, RecMade
<1>6. InPeriod(p)' = InPeriod(p)
  BY <1>4, <1>5 DEF InPeriod, LiveRecords, Live
<1>7. Weighed(p)' = Weighed(p)
  <2>1. \A r \in InPeriod(p) : recs'[r].weight = recs[r].weight
    BY <1>4 DEF InPeriod, LiveRecords
  <2> QED
    BY <1>6, <2>1, WeighedSame
<1>8. Exact(p)' = Exact(p) /\ \A h \in Handlers : RebuildOf(h, p)' = RebuildOf(h, p)
  BY <1>1, <1>7 DEF Exact, RebuildOf, At
<1> QED
  BY <1>1, <1>3, <1>8 DEF TotalInv, Busy

LEMMA TotalInvStep ==
    ASSUME TypeInv, TypeInv', ActsInv, PeriodsInv, TotalInv, [Next]_vars
    PROVE  TotalInv'
<1> USE DEF tables, inbox, history
<1>1. ASSUME NEW d \in Docs, Submit(d) PROVE TotalInv'
  BY <1>1, NoChangeTotals DEF Submit
<1>2. ASSUME NEW d \in Docs, Decide(d) PROVE TotalInv'
  BY <1>2, NoChangeTotals DEF Decide
<1>3. ASSUME NEW d \in Docs, RemoveNote(d) PROVE TotalInv'
  BY <1>3, NoChangeTotals DEF RemoveNote
<1>4. ASSUME NEW m \in Moves, RemoveMove(m) PROVE TotalInv'
  BY <1>4, NoChangeTotals DEF RemoveMove
<1>5. ASSUME NEW h \in Handlers, BulkFind(h) PROVE TotalInv'
  <2>1. /\ Others(h) /\ job'[h].periods = job[h].periods
        /\ job'[h].pc \notin {"clear", "commit"}
    BY <1>5, BulkFindTurns DEF SameTotals, NoTotals, TypeInv, PlacesTyped, Placed, At, EarlySteps
  <2>2. UNCHANGED <<recs, totals, spoiled>>
    BY <1>5 DEF BulkFind, Begin
  <2>3. \A p : Weighed(p)' = Weighed(p)
    BY <2>2, WeighedSame DEF InPeriod, LiveRecords, Live
  <2> QED
    BY <2>1, <2>2, <2>3, TotalsSame
<1>6. ASSUME NEW h \in Handlers, BulkWaiting(h) PROVE TotalInv'
  <2>1. /\ Others(h) /\ job'[h].periods = job[h].periods
        /\ job'[h].pc \notin {"clear", "commit"}
    BY <1>6, BulkWaitingTurns DEF SameTotals, NoTotals, TypeInv, PlacesTyped, Placed, At, EarlySteps
  <2>2. UNCHANGED <<recs, totals, spoiled>>
    BY <1>6 DEF BulkWaiting, Begin
  <2>3. \A p : Weighed(p)' = Weighed(p)
    BY <2>2, WeighedSame DEF InPeriod, LiveRecords, Live
  <2> QED
    BY <2>1, <2>2, <2>3, TotalsSame
<1>7. ASSUME NEW h \in Handlers, BulkSeen(h) PROVE TotalInv'
  <2>1. /\ Others(h) /\ job'[h].periods = job[h].periods
        /\ job'[h].pc \notin {"clear", "commit"}
    BY <1>7, BulkSeenTurns DEF SameTotals, NoTotals, TypeInv, PlacesTyped, Placed, At, EarlySteps
  <2>2. UNCHANGED <<recs, totals, spoiled>>
    BY <1>7 DEF BulkSeen, Begin
  <2>3. \A p : Weighed(p)' = Weighed(p)
    BY <2>2, WeighedSame DEF InPeriod, LiveRecords, Live
  <2> QED
    BY <2>1, <2>2, <2>3, TotalsSame
<1>8. ASSUME NEW h \in Handlers, BulkPick(h) PROVE TotalInv'
  <2>1. /\ Others(h) /\ job'[h].periods = job[h].periods
        /\ job'[h].pc \notin {"clear", "commit"}
    BY <1>8, BulkPickTurns DEF SameTotals, NoTotals, TypeInv, PlacesTyped, Placed, At, EarlySteps
  <2>2. UNCHANGED <<recs, totals, spoiled>>
    BY <1>8 DEF BulkPick, Begin
  <2>3. \A p : Weighed(p)' = Weighed(p)
    BY <2>2, WeighedSame DEF InPeriod, LiveRecords, Live
  <2> QED
    BY <2>1, <2>2, <2>3, TotalsSame
<1>9. ASSUME NEW h \in Handlers, NEW b \in Bodies, Create(h, b) PROVE TotalInv'
  <2>1. Form \in Loads /\ FALSE \in BOOLEAN /\ Insert(h, Form, b, FALSE) /\ UNCHANGED totals
    BY <1>9 DEF Loads, Create
  <2> QED
    BY <2>1, InsertTotals
<1>10. ASSUME NEW h \in Handlers, NEW b \in Bodies, UploadRow(h, b) PROVE TotalInv'
  <2>1. Form \in Loads /\ FALSE \in BOOLEAN /\ Insert(h, Form, b, FALSE) /\ UNCHANGED totals
    BY <1>10 DEF Loads, UploadRow
  <2> QED
    BY <2>1, InsertTotals
<1>11. ASSUME NEW h \in Handlers, NEW b \in Bodies, Edit(h, b) PROVE TotalInv'
  <2>1. CASE Live(job[h].rec)
    <3>1. PICK s : s = job[h].rec
      OBVIOUS
    <3>2. job[h].was \in Periods /\ b.period \in Periods /\ job[h] \in Job /\ job[h].periods = <<>>
      BY <1>11, BodyAssumption
      DEF Edit, At, TypeInv, PlacesTyped, Placed, EarlySteps, JobsTyped
    <3>3. /\ Others(h) /\ job'[h].pc \notin {"clear", "commit"}
          /\ job'[h].periods = Rebuilds(b.period, job[h].was)
      BY <1>11, <2>1, EditTurns
    <3>4. Range(Rebuilds(b.period, job[h].was)) = {b.period, job[h].was}
      BY <3>2, TwoPeriods
    <3>5. Busy(h) = {} /\ Busy(h)' = {b.period, job[h].was}
      BY <3>2, <3>3, <3>4, NoPeriods DEF Busy
    <3> DEFINE j == [Go(h, "sync") EXCEPT !.was = 0, !.periods = Rebuilds(b.period, job[h].was)]
    <3>6. j.periods = Rebuilds(b.period, job[h].was)
      BY <3>2 DEF Go, Job
    <3>7. spoiled' = spoiled \cup Moved(h) \cup Spoils(h, {recs[s].period, b.period}, j) /\
             UNCHANGED totals
      BY <1>11, <2>1, <3>1 DEF Edit
    <3> HIDE DEF j
    <3>8. spoiled \cup {p \in Busy(h)' : \E g \in Handlers \ {h} : p \in Busy(g)} \cup Moved(h)
             \subseteq spoiled'
      BY <3>4, <3>5, <3>6, <3>7 DEF Spoils
    <3>9. /\ s \in DOMAIN recs /\ DOMAIN recs' = DOMAIN recs
          /\ \A r \in DOMAIN recs \ {s} : recs'[r] = recs[r]
          /\ recs'[s].period = b.period
      BY <1>11, <2>1, <3>1, EditWrites
    <3>10. recs[s].period \in Moved(h) \cup Busy(h)'
      BY <3>1, <3>5 DEF Moved
    <3>11. recs'[s].period \in Busy(h)'
      BY <3>5, <3>9
    <3> QED
      BY <3>3, <3>5, <3>7, <3>8, <3>9, <3>10, <3>11, TotalsWrite
  <2>2. CASE ~Live(job[h].rec)
    <3>1. Others(h) /\ NoTotals(h)
      BY <1>11, <2>2, EditTurns
    <3>2. spoiled' = spoiled \cup Busy(h) /\ UNCHANGED <<totals, recs>>
      BY <1>11, <2>2 DEF Edit, Stop, Live
    <3> QED
      BY <3>1, <3>2, TotalsStop
  <2> QED
    BY <2>1, <2>2
<1>12. ASSUME NEW h \in Handlers, NEW b \in Bodies, NEW d \in Docs, Review(h, d, b)
        PROVE  TotalInv'
  <2>1. /\ Others(h) /\ job'[h].periods = job[h].periods
        /\ job'[h].pc \notin {"clear", "commit"}
    BY <1>12, ReviewTurns DEF SameTotals, NoTotals, TypeInv, PlacesTyped, Placed, At, EarlySteps
  <2>2. UNCHANGED <<recs, totals, spoiled>>
    BY <1>12 DEF Review, Begin
  <2>3. \A p : Weighed(p)' = Weighed(p)
    BY <2>2, WeighedSame DEF InPeriod, LiveRecords, Live
  <2> QED
    BY <2>1, <2>2, <2>3, TotalsSame
<1>13. ASSUME NEW h \in Handlers, NEW b \in Bodies, NEW m \in Moves, ReceiveLoad(h, m, b)
        PROVE  TotalInv'
  <2>1. /\ Others(h) /\ job'[h].periods = job[h].periods
        /\ job'[h].pc \notin {"clear", "commit"}
    BY <1>13, ReceiveLoadTurns DEF SameTotals, NoTotals, TypeInv, PlacesTyped, Placed, At,
       EarlySteps
  <2>2. UNCHANGED <<recs, totals, spoiled>>
    BY <1>13 DEF ReceiveLoad, Begin
  <2>3. \A p : Weighed(p)' = Weighed(p)
    BY <2>2, WeighedSame DEF InPeriod, LiveRecords, Live
  <2> QED
    BY <2>1, <2>2, <2>3, TotalsSame
<1>14. ASSUME NEW h \in Handlers, NEW r \in DOMAIN recs, NEW step \in {"edit", "delete"},
              Open(h, r, step)
        PROVE  TotalInv'
  <2>1. /\ Others(h) /\ job'[h].periods = job[h].periods
        /\ job'[h].pc \notin {"clear", "commit"}
    BY <1>14, OpenTurns DEF SameTotals, NoTotals, TypeInv, PlacesTyped, Placed, At, EarlySteps
  <2>2. UNCHANGED <<recs, totals, spoiled>>
    BY <1>14 DEF Open, Begin
  <2>3. \A p : Weighed(p)' = Weighed(p)
    BY <2>2, WeighedSame DEF InPeriod, LiveRecords, Live
  <2> QED
    BY <2>1, <2>2, <2>3, TotalsSame
<1>15. ASSUME NEW h \in Handlers, NEW p \in Periods, SaveWater(h, p) PROVE TotalInv'
  <2>1. Others(h) /\ job'[h].pc = "read" /\ Busy(h)' = {p} /\ Busy(h) = {}
    BY <1>15, SaveWaterTurns, OnePeriod, NoPeriods
    DEF Busy, TypeInv, PlacesTyped, Placed, At, EarlySteps
  <2>2. spoiled' = spoiled \cup {q \in {p} : \E g \in Handlers \ {h} : q \in Busy(g)}
    BY <1>15, OnePeriod DEF SaveWater, Spoils, Idle
  <2>3. UNCHANGED <<recs, totals>> /\ 0 \notin DOMAIN recs
    BY <1>15, LenProperties DEF SaveWater, TypeInv, RecsTyped
  <2> QED
    BY <2>1, <2>2, <2>3, TotalsWrite
<1>16. ASSUME NEW h \in Handlers, NEW m \in Moves, Mark(h, m) PROVE TotalInv'
  <2>1. /\ Others(h) /\ job'[h].periods = job[h].periods
        /\ job'[h].pc \notin {"clear", "commit"}
    BY <1>16, MarkTurns DEF SameTotals, NoTotals, TypeInv, PlacesTyped, Placed, At, EarlySteps
  <2>2. UNCHANGED <<recs, totals, spoiled>>
    BY <1>16 DEF Mark, Begin
  <2>3. \A p : Weighed(p)' = Weighed(p)
    BY <2>2, WeighedSame DEF InPeriod, LiveRecords, Live
  <2> QED
    BY <2>1, <2>2, <2>3, TotalsSame
<1>17. ASSUME NEW h \in Handlers, Upload(h) PROVE TotalInv'
  <2>1. /\ Others(h) /\ job'[h].periods = job[h].periods
        /\ job'[h].pc \notin {"clear", "commit"}
    BY <1>17, UploadTurns DEF SameTotals, NoTotals, TypeInv, PlacesTyped, Placed, At, EarlySteps
  <2>2. UNCHANGED <<recs, totals, spoiled>>
    BY <1>17 DEF Upload, Begin
  <2>3. \A p : Weighed(p)' = Weighed(p)
    BY <2>2, WeighedSame DEF InPeriod, LiveRecords, Live
  <2> QED
    BY <2>1, <2>2, <2>3, TotalsSame
<1>18. ASSUME NEW h \in Handlers, SyncRead(h) PROVE TotalInv'
  <2>1. CASE Live(job[h].rec)
    <3>1. /\ Others(h) /\ job'[h].periods = job[h].periods
          /\ job'[h].pc \notin {"clear", "commit"}
      BY <1>18, <2>1, SyncReadTurns DEF SameTotals
    <3>2. UNCHANGED <<totals, spoiled>>
      BY <1>18, <2>1 DEF SyncRead, Live
    <3>5. \A p : Weighed(p)' = Weighed(p)
      BY <1>18, WeighedSame DEF SyncRead, InPeriod, LiveRecords, Live
    <3> QED
      BY <3>1, <3>2, <3>5, TotalsSame
  <2>2. CASE ~Live(job[h].rec)
    <3>1. Others(h) /\ NoTotals(h)
      BY <1>18, <2>2, SyncReadTurns
    <3>2. spoiled' = spoiled \cup Busy(h) /\ UNCHANGED <<totals, recs>>
      BY <1>18, <2>2 DEF SyncRead, Stop, Live
    <3> QED
      BY <3>1, <3>2, TotalsStop
  <2> QED
    BY <2>1, <2>2
<1>19. ASSUME NEW h \in Handlers, MakeActivity(h) PROVE TotalInv'
  <2>1. /\ Others(h) /\ job'[h].periods = job[h].periods
        /\ job'[h].pc \notin {"clear", "commit"}
    BY <1>19, MakeActivityTurns DEF SameTotals, NoTotals, TypeInv, PlacesTyped, Placed, At,
       EarlySteps
  <2>2. UNCHANGED <<recs, totals, spoiled>>
    BY <1>19 DEF MakeActivity, Begin
  <2>3. \A p : Weighed(p)' = Weighed(p)
    BY <2>2, WeighedSame DEF InPeriod, LiveRecords, Live
  <2> QED
    BY <2>1, <2>2, <2>3, TotalsSame
<1>20. ASSUME NEW h \in Handlers, LinkActivity(h) PROVE TotalInv'
  <2>1. CASE Live(job[h].rec)
    <3>1. /\ Others(h) /\ job'[h].periods = job[h].periods
          /\ job'[h].pc \notin {"clear", "commit"}
      BY <1>20, <2>1, LinkActivityTurns DEF SameTotals
    <3>2. UNCHANGED <<totals, spoiled>>
      BY <1>20, <2>1 DEF LinkActivity, Live
    <3>3. \A p : InPeriod(p)' = InPeriod(p)
      BY <1>20, <2>1, LinkActivityWrites DEF InPeriod, LiveRecords, Live
    <3>4. \A p : \A r \in InPeriod(p) : recs'[r].weight = recs[r].weight
      BY <1>20, <2>1, LinkActivityWrites DEF InPeriod, LiveRecords, Live
    <3>5. \A p : Weighed(p)' = Weighed(p)
      BY <3>3, <3>4, WeighedSame
    <3> QED
      BY <3>1, <3>2, <3>5, TotalsSame
  <2>2. CASE ~Live(job[h].rec)
    <3>1. Others(h) /\ NoTotals(h)
      BY <1>20, <2>2, LinkActivityTurns
    <3>2. spoiled' = spoiled \cup Busy(h) /\ UNCHANGED <<totals, recs>>
      BY <1>20, <2>2 DEF LinkActivity, Stop, Live
    <3> QED
      BY <3>1, <3>2, TotalsStop
  <2> QED
    BY <2>1, <2>2
<1>21. ASSUME NEW h \in Handlers, UpdateActivity(h) PROVE TotalInv'
  <2>1. /\ Others(h) /\ job'[h].periods = job[h].periods
        /\ job'[h].pc \notin {"clear", "commit"}
    BY <1>21, UpdateActivityTurns DEF SameTotals, NoTotals, TypeInv, PlacesTyped, Placed, At,
       EarlySteps
  <2>2. UNCHANGED <<recs, totals, spoiled>>
    BY <1>21 DEF UpdateActivity, Begin
  <2>3. \A p : Weighed(p)' = Weighed(p)
    BY <2>2, WeighedSame DEF InPeriod, LiveRecords, Live
  <2> QED
    BY <2>1, <2>2, <2>3, TotalsSame
<1>22. ASSUME NEW h \in Handlers, Calculate(h) PROVE TotalInv'
  <2>1. /\ Others(h) /\ job'[h].periods = job[h].periods
        /\ job'[h].pc \notin {"clear", "commit"}
    BY <1>22, CalculateTurns DEF SameTotals, NoTotals, TypeInv, PlacesTyped, Placed, At, EarlySteps
  <2>2. UNCHANGED <<recs, totals, spoiled>>
    BY <1>22 DEF Calculate, Begin
  <2>3. \A p : Weighed(p)' = Weighed(p)
    BY <2>2, WeighedSame DEF InPeriod, LiveRecords, Live
  <2> QED
    BY <2>1, <2>2, <2>3, TotalsSame
<1>23. ASSUME NEW h \in Handlers, WriteFigure(h) PROVE TotalInv'
  <2>1. CASE Live(job[h].rec)
    <3>1. /\ Others(h) /\ job'[h].periods = job[h].periods
          /\ job'[h].pc \notin {"clear", "commit"}
      BY <1>23, <2>1, WriteFigureTurns DEF SameTotals
    <3>2. UNCHANGED <<totals, spoiled>>
      BY <1>23, <2>1 DEF WriteFigure, Live
    <3>3. \A p : InPeriod(p)' = InPeriod(p)
      BY <1>23, <2>1, WriteFigureWrites DEF InPeriod, LiveRecords, Live
    <3>4. \A p : \A r \in InPeriod(p) : recs'[r].weight = recs[r].weight
      BY <1>23, <2>1, WriteFigureWrites DEF InPeriod, LiveRecords, Live
    <3>5. \A p : Weighed(p)' = Weighed(p)
      BY <3>3, <3>4, WeighedSame
    <3> QED
      BY <3>1, <3>2, <3>5, TotalsSame
  <2>2. CASE ~Live(job[h].rec)
    <3>1. Others(h) /\ NoTotals(h)
      BY <1>23, <2>2, WriteFigureTurns
    <3>2. spoiled' = spoiled \cup Busy(h) /\ UNCHANGED <<totals, recs>>
      BY <1>23, <2>2 DEF WriteFigure, Stop, Live
    <3> QED
      BY <3>1, <3>2, TotalsStop
  <2> QED
    BY <2>1, <2>2
<1>24. ASSUME NEW h \in Handlers, RebuildReads(h) PROVE TotalInv'
  <2>1. PICK p0 : p0 = Head(job[h].periods)
    OBVIOUS
  <2>2. /\ job[h].periods \in Seq(Periods) /\ job[h].periods # <<>>
        /\ Others(h) /\ At(h, "read")
    BY <1>24, RebuildReadsTurns DEF TypeInv, JobsTyped, Job, PlacesTyped, Placed, At, RebuildSteps
  <2>3. p0 \in Periods /\ p0 \in Busy(h)
    BY <2>1, <2>2, FewerPeriods DEF Busy
  <2>4. /\ UNCHANGED <<recs, totals>>
        /\ spoiled' = IF \E g \in Handlers \ {h} : p0 \in Busy(g) THEN spoiled ELSE spoiled \ {p0}
    BY <1>24, <2>1 DEF RebuildReads
  <2>5. \A p : Weighed(p)' = Weighed(p)
    BY <2>4, WeighedSame DEF InPeriod, LiveRecords, Live
  <2>6. /\ job'[h].periods = job[h].periods /\ job'[h].pc = "clear"
        /\ job'[h].tally = Weighed(p0) /\ Busy(h)' = Busy(h)
    BY <1>24, <2>1, RebuildReadsTurns DEF Busy
  <2>7. \A p \in Periods \ spoiled', g \in Handlers \ {h} : ~(p \in Busy(h) /\ p \in Busy(g))
    BY <2>3, <2>4 DEF TotalInv
  <2>8. RebuildOf(h, p0)'
    BY <2>5, <2>6 DEF RebuildOf, At
  <2> QED
    BY <2>1, <2>2, <2>3, <2>4, <2>5, <2>6, <2>7, <2>8, TotalKept DEF TotalsOf
<1>25. ASSUME NEW h \in Handlers, RebuildClears(h) PROVE TotalInv'
  <2>1. PICK p0 : p0 = Head(job[h].periods)
    OBVIOUS
  <2>2. /\ job[h].periods \in Seq(Periods) /\ job[h].periods # <<>>
        /\ Others(h) /\ At(h, "clear")
    BY <1>25, RebuildClearsTurns DEF TypeInv, JobsTyped, Job, PlacesTyped, Placed, At, RebuildSteps
  <2>3. p0 \in Periods /\ p0 \in Busy(h)
    BY <2>1, <2>2, FewerPeriods DEF Busy
  <2>4. UNCHANGED <<recs, totals, spoiled>>
    BY <1>25 DEF RebuildClears
  <2>5. \A p : Weighed(p)' = Weighed(p)
    BY <2>4, WeighedSame DEF InPeriod, LiveRecords, Live
  <2>6. /\ job'[h].periods = job[h].periods /\ job'[h].pc = "commit"
        /\ job'[h].tally = job[h].tally /\ Busy(h)' = Busy(h)
        /\ job'[h].rows = {g \in Handlers : totals[p0][g] # 0}
    BY <1>25, <2>1, RebuildClearsTurns DEF Busy
  <2>7. \A p \in Periods \ spoiled', g \in Handlers \ {h} : ~(p \in Busy(h) /\ p \in Busy(g))
    BY <2>4 DEF TotalInv
  <2>8. p0 \notin spoiled => RebuildOf(h, p0)'
    BY <2>1, <2>2, <2>3, <2>4, <2>5, <2>6 DEF RebuildOf, At, TotalInv
  <2> QED
    BY <2>1, <2>2, <2>4, <2>5, <2>6, <2>7, <2>8, TotalKept DEF TotalsOf
<1>26. ASSUME NEW h \in Handlers, RebuildCommits(h) PROVE TotalInv'
  <2>1. PICK p0 : p0 = Head(job[h].periods)
    OBVIOUS
  <2>2. /\ job[h].periods \in Seq(Periods) /\ job[h].periods # <<>>
        /\ Others(h) /\ At(h, "commit")
    BY <1>26, RebuildCommitsTurns DEF TypeInv, JobsTyped, Job, PlacesTyped, Placed, At, RebuildSteps
  <2>3. p0 \in Periods /\ p0 \in Busy(h)
    BY <2>1, <2>2, FewerPeriods DEF Busy
  <2>4. UNCHANGED <<recs, spoiled>>
    BY <1>26 DEF RebuildCommits
  <2>5. \A p : Weighed(p)' = Weighed(p)
    BY <2>4, WeighedSame DEF InPeriod, LiveRecords, Live
  <2>6. /\ totals' = [totals EXCEPT ![p0] =
              [g \in Handlers |-> IF g = h THEN job[h].tally
                                  ELSE IF g \in job[h].rows THEN 0 ELSE totals[p0][g]]]
        /\ totals \in [Periods -> [Handlers -> Sums]]
    BY <1>26, <2>1 DEF RebuildCommits, TypeInv, TotalsTyped
  <2>7. /\ \A p \in Periods \ {p0} : totals'[p] = totals[p]
        /\ totals'[p0][h] = job[h].tally
        /\ \A g \in Handlers \ {h} :
              totals'[p0][g] = IF g \in job[h].rows THEN 0 ELSE totals[p0][g]
    BY <2>3, <2>6
  <2>8. job'[h].pc \notin {"clear", "commit"} /\ job'[h].periods = Tail(job[h].periods)
    <3>1. CASE Tail(job[h].periods) = <<>>
      BY <1>26, <3>1, RebuildCommitsTurns DEF NoTotals
    <3>2. CASE Tail(job[h].periods) # <<>>
      BY <1>26, <3>2, RebuildCommitsTurns
    <3> QED
      BY <3>1, <3>2
  <2>9. Busy(h)' = Busy(h) \ {p0}
    BY <2>1, <2>2, <2>8, FewerPeriods DEF Busy, PeriodsInv
  <2>10. \A p \in Periods \ spoiled', g \in Handlers \ {h} : ~(p \in Busy(h) /\ p \in Busy(g))
    BY <2>4 DEF TotalInv
  <2>11. p0 \notin spoiled => Exact(p0)'
    <3>1. SUFFICES ASSUME p0 \notin spoiled PROVE Exact(p0)'
      OBVIOUS
    <3>2. job[h].tally = Weighed(p0) /\ job[h].rows = {g \in Handlers : totals[p0][g] # 0}
      BY <2>1, <2>2, <2>3, <3>1 DEF TotalInv, RebuildOf
    <3>3. totals'[p0][h] = Weighed(p0) /\ \A g \in Handlers \ {h} : totals'[p0][g] = 0
      BY <2>7, <3>2
    <3>4. {totals'[p0][g] : g \in Handlers} \ {0} = {Weighed(p0)} \ {0}
      BY <3>3
    <3> QED
      BY <2>5, <3>3, <3>4 DEF Exact
  <2>12. \A p : RebuildOf(h, p)'
    BY <2>8 DEF RebuildOf, At
  <2> QED
    BY <2>2, <2>3, <2>4, <2>5, <2>7, <2>9, <2>10, <2>11, <2>12, TotalKept DEF TotalsOf
<1>27. ASSUME NEW h \in Handlers, Halts(h) PROVE TotalInv'
  <2>1. Others(h) /\ NoTotals(h)
    BY <1>27, HaltTurns
  <2>2. spoiled' = spoiled \cup Busy(h) /\ UNCHANGED <<totals, recs>>
    BY <1>27 DEF Halts, Stop
  <2> QED
    BY <2>1, <2>2, TotalsStop
<1>28. ASSUME NEW h \in Handlers, Accept(h) PROVE TotalInv'
  <2>1. CASE Claimed(job[h].load)
    <3> DEFINE sure == job[h].task = "bulk" /\ docs[job[h].load].status = "pending"
    <3>1. /\ job[h].load \in Loads /\ job[h].body \in Bodies /\ sure \in BOOLEAN
          /\ Insert(h, job[h].load, job[h].body, sure)
      BY <1>28, <2>1, AcceptTurns
    <3>2. UNCHANGED totals
      BY <1>28 DEF Accept
    <3> QED
      BY <3>1, <3>2, InsertTotals
  <2>2. CASE ~Claimed(job[h].load)
    <3>1. /\ Others(h) /\ job'[h].periods = job[h].periods
          /\ job'[h].pc \notin {"clear", "commit"} /\ UNCHANGED <<recs, totals, spoiled>>
      BY <1>28, <2>2, AcceptTurns DEF Accept, NoTotals, TypeInv, PlacesTyped, Placed, At, EarlySteps
    <3>2. \A p : Weighed(p)' = Weighed(p)
      BY <3>1, WeighedSame DEF InPeriod, LiveRecords, Live
    <3> QED
      BY <3>1, <3>2, TotalsSame
  <2> QED
    BY <2>1, <2>2
<1>29. ASSUME NEW h \in Handlers, Receive(h) PROVE TotalInv'
  <2>1. CASE InTable(moves[job[h].load])
    <3>1. /\ job[h].load \in Loads /\ job[h].body \in Bodies /\ FALSE \in BOOLEAN
          /\ Insert(h, job[h].load, job[h].body, FALSE)
      BY <1>29, <2>1, ReceiveTurns
    <3>2. UNCHANGED totals
      BY <1>29 DEF Receive
    <3> QED
      BY <3>1, <3>2, InsertTotals
  <2>2. CASE ~InTable(moves[job[h].load])
    <3>1. /\ Others(h) /\ job'[h].periods = job[h].periods
          /\ job'[h].pc \notin {"clear", "commit"} /\ UNCHANGED <<recs, totals, spoiled>>
      BY <1>29, <2>2, ReceiveTurns DEF Receive, NoTotals, TypeInv, PlacesTyped, Placed, At,
         EarlySteps
    <3>2. \A p : Weighed(p)' = Weighed(p)
      BY <3>1, WeighedSame DEF InPeriod, LiveRecords, Live
    <3> QED
      BY <3>1, <3>2, TotalsSame
  <2> QED
    BY <2>1, <2>2
<1>30. ASSUME NEW h \in Handlers, Delete(h) PROVE TotalInv'
  <2>1. CASE Live(job[h].rec)
    <3>1. PICK s : s = job[h].rec
      OBVIOUS
    <3>2. job[h].was \in Periods /\ job[h] \in Job /\ job[h].periods = <<>>
      BY <1>30
      DEF Delete, At, TypeInv, PlacesTyped, Placed, EarlySteps, JobsTyped
    <3>3. /\ Others(h) /\ job'[h].pc \notin {"clear", "commit"}
          /\ job'[h].periods = <<job[h].was>>
      BY <1>30, <2>1, DeleteTurns
    <3>4. Range(<<job[h].was>>) = {job[h].was}
      BY <3>2, OnePeriod
    <3>5. Busy(h) = {} /\ Busy(h)' = {job[h].was}
      BY <3>2, <3>3, <3>4, NoPeriods DEF Busy
    <3> DEFINE j == [Idle EXCEPT !.pc = "read", !.periods = <<job[h].was>>]
    <3>6. j.periods = <<job[h].was>>
      BY <3>2 DEF Idle
    <3>7. spoiled' = spoiled \cup Moved(h) \cup Spoils(h, {recs[s].period}, j) /\ UNCHANGED totals
      BY <1>30, <2>1, <3>1 DEF Delete
    <3> HIDE DEF j
    <3>8. spoiled \cup {p \in Busy(h)' : \E g \in Handlers \ {h} : p \in Busy(g)} \cup Moved(h)
             \subseteq spoiled'
      BY <3>4, <3>5, <3>6, <3>7 DEF Spoils
    <3>9. /\ s \in DOMAIN recs /\ DOMAIN recs' = DOMAIN recs
          /\ \A r \in DOMAIN recs \ {s} : recs'[r] = recs[r]
          /\ ~recs'[s].live
      BY <1>30, <2>1, <3>1, DeleteWrites
    <3>10. recs[s].period \in Moved(h) \cup Busy(h)'
      BY <3>1, <3>5 DEF Moved
    <3>11. Busy(h) \subseteq Busy(h)'
      BY <3>5, <3>9
    <3> QED
      BY <3>3, <3>5, <3>7, <3>8, <3>9, <3>10, <3>11, TotalsWrite
  <2>2. CASE ~Live(job[h].rec)
    <3>1. Others(h) /\ NoTotals(h)
      BY <1>30, <2>2, DeleteTurns
    <3>2. spoiled' = spoiled \cup Busy(h) /\ UNCHANGED <<totals, recs>>
      BY <1>30, <2>2 DEF Delete, Stop, Live
    <3> QED
      BY <3>1, <3>2, TotalsStop
  <2> QED
    BY <2>1, <2>2
<1>31. ASSUME NEW h \in Handlers, MarkWrites(h) PROVE TotalInv'
  <2>1. /\ Others(h) /\ job'[h].periods = job[h].periods
        /\ job'[h].pc \notin {"clear", "commit"}
    BY <1>31, MarkWritesTurns DEF SameTotals, NoTotals, TypeInv, PlacesTyped, Placed, At, EarlySteps
  <2>2. UNCHANGED <<recs, totals, spoiled>>
    BY <1>31 DEF MarkWrites, Begin
  <2>3. \A p : Weighed(p)' = Weighed(p)
    BY <2>2, WeighedSame DEF InPeriod, LiveRecords, Live
  <2> QED
    BY <2>1, <2>2, <2>3, TotalsSame
<1>32. ASSUME NEW h \in Handlers, UploadEnds(h) PROVE TotalInv'
  <2>1. /\ Others(h) /\ job'[h].periods = job[h].periods
        /\ job'[h].pc \notin {"clear", "commit"}
    BY <1>32, UploadEndsTurns DEF SameTotals, NoTotals, TypeInv, PlacesTyped, Placed, At, EarlySteps
  <2>2. UNCHANGED <<recs, totals, spoiled>>
    BY <1>32 DEF UploadEnds, Begin
  <2>3. \A p : Weighed(p)' = Weighed(p)
    BY <2>2, WeighedSame DEF InPeriod, LiveRecords, Live
  <2> QED
    BY <2>1, <2>2, <2>3, TotalsSame
<1>33. ASSUME UNCHANGED vars PROVE TotalInv'
  BY <1>33, NoChangeTotals DEF vars
<1>34. ASSUME ByHand PROVE TotalInv'
  BY <1>34, ByHandTotalInv
<1> QED
  BY <1>1, <1>2, <1>3, <1>4, <1>5, <1>6, <1>7, <1>8, <1>9, <1>10, <1>11, <1>12, <1>13,
     <1>14, <1>15, <1>16, <1>17, <1>18, <1>19, <1>20, <1>21, <1>22, <1>23, <1>24, <1>25,
     <1>26, <1>27, <1>28, <1>29, <1>30, <1>31, <1>32, <1>33,
     <1>34, HaltsEither
     DEF Next, Note, Bulk, Asks, Saves, Rebuild

---------------------------------------------------------------------------
(* The initial states: nothing yet, or one record typed in and saved before. *)

LEMMA SumEmpty ==
    ASSUME NEW f, DOMAIN f = {}
    PROVE  SumFunction(f) = 0
BY DEF SumFunction, SumFunctionOnSet, FoldFunctionOnSet, MapThenFoldSet

LEMMA SumOne ==
    ASSUME NEW k, NEW n \in Int, NEW f, DOMAIN f = {k}, f[k] = n
    PROVE  SumFunction(f) = n
<1> DEFINE Turn(iter) == [s \in SUBSET {k} |->
                              IF s = {} THEN 0
                              ELSE LET x == CHOOSE x \in s : TRUE IN f[x] + iter[s \ {x}]]
           fold == CHOOSE iter : iter = Turn(iter)
           w == [s \in SUBSET {k} |-> IF s = {} THEN 0 ELSE n]
<1>1. w = Turn(w)
  <2>1. \A s \in SUBSET {k} : s = {} \/ s = {k}
    OBVIOUS
  <2>2. (CHOOSE x \in {k} : TRUE) = k
    OBVIOUS
  <2>3. Turn(w)[{}] = 0 /\ Turn(w)[{k}] = n
    BY <2>2
  <2>4. \A s \in SUBSET {k} : w[s] = Turn(w)[s]
    BY <2>1, <2>3
  <2> QED
    BY <2>4
<1>2. fold = Turn(fold)
  BY <1>1
<1>3. {k} \in SUBSET {k} /\ {} \in SUBSET {k}
  OBVIOUS
<1>4. fold[{}] = 0
  BY <1>2, <1>3
<1>5. fold[{k}] = f[k] + fold[{}]
  <2>1. (CHOOSE x \in {k} : TRUE) = k /\ {k} \ {k} = {}
    OBVIOUS
  <2> QED
    BY <1>2, <1>3, <2>1
<1>6. SumFunction(f) = fold[{k}]
  BY DEF SumFunction, SumFunctionOnSet, FoldFunctionOnSet, MapThenFoldSet
<1> QED
  BY <1>4, <1>5, <1>6

LEMMA WeighedNone ==
    ASSUME NEW p, InPeriod(p) = {}
    PROVE  Weighed(p) = 0
<1>1. DOMAIN [r \in InPeriod(p) |-> recs[r].weight] = {}
  OBVIOUS
<1> QED
  BY <1>1, SumEmpty DEF Weighed

LEMMA WeighedOne ==
    ASSUME NEW p, NEW r, InPeriod(p) = {r}, recs[r].weight \in Nat
    PROVE  Weighed(p) = recs[r].weight
<1> DEFINE f == [q \in InPeriod(p) |-> recs[q].weight]
<1>1. DOMAIN f = {r} /\ f[r] = recs[r].weight
  OBVIOUS
<1> HIDE DEF f
<1>2. SumFunction(f) = recs[r].weight
  BY <1>1, SumOne
<1> QED
  BY <1>2 DEF Weighed, f

\* The record saved before.
LEMMA SavedIs ==
    ASSUME NEW b \in Bodies, NEW h \in Handlers, Saved(b, h)
    PROVE  /\ recs \in Seq(Rec) /\ DOMAIN recs = {1}
           /\ acts \in Seq(Act) /\ DOMAIN acts = {1}
           /\ recs[1].live /\ recs[1].from = Form /\ ~recs[1].sure /\ recs[1].weight = b.weight
           /\ recs[1].period = b.period /\ recs[1].link = 1 /\ recs[1].co2e = b.weight
           /\ acts[1].of = 1 /\ acts[1].weight = b.weight /\ acts[1].period = b.period
           /\ acts[1].row /\ acts[1].live /\ acts[1].approved
           /\ b.weight \in Nat /\ b.period \in Periods
<1> DEFINE w == [Row(Form, FALSE, b) EXCEPT !.link = 1, !.co2e = b.weight]
           a == Entry(1, b.weight, b.period, TRUE)
<1>1. b.weight \in Nat /\ b.period \in Periods
  BY BodyAssumption
<1>2. Row(Form, FALSE, b) \in Rec
  BY <1>1 DEF Row, Rec, Loads, Refs, Days
<1>3. /\ w \in Rec /\ w.live /\ w.from = Form /\ ~w.sure /\ w.weight = b.weight
      /\ w.period = b.period /\ w.link = 1 /\ w.co2e = b.weight
  BY <1>1, <1>2 DEF Row, Rec
<1>4. /\ a \in Act /\ a.of = 1 /\ a.weight = b.weight /\ a.period = b.period /\ a.row
      /\ a.live /\ a.approved
  BY <1>1 DEF Act, Days, Entry
<1>5. recs = <<w>> /\ acts = <<a>>
  BY DEF Saved
<1> HIDE DEF w, a
<1>6. /\ recs \in Seq(Rec) /\ DOMAIN recs = {1} /\ recs[1] = w
      /\ acts \in Seq(Act) /\ DOMAIN acts = {1} /\ acts[1] = a
  BY <1>3, <1>4, <1>5
<1> QED
  BY <1>1, <1>3, <1>4, <1>6

LEMMA NothingIs ==
    ASSUME Nothing
    PROVE  recs \in Seq(Rec) /\ DOMAIN recs = {} /\ acts \in Seq(Act) /\ DOMAIN acts = {}
BY DEF Nothing

LEMMA InitJobs ==
    ASSUME Init, NEW h \in Handlers
    PROVE  /\ job[h] = Idle /\ job[h].pc = "idle" /\ job[h].task = "one" /\ job[h].found = {}
           /\ job[h].periods = <<>> /\ Busy(h) = {}
<1>1. job[h] = Idle
  BY DEF Init
<1> QED
  BY <1>1, NoPeriods DEF Idle, Busy

LEMMA InitTypeInv ==
    ASSUME Init
    PROVE  TypeInv
<1>1. InboxTyped
  BY DEF Init, InboxTyped, DocStatuses, MoveStatuses
<1>2. RecsTyped /\ TotalsTyped
  <2>1. CASE Nothing
    <3>1. TotalsTyped
      BY <2>1 DEF Nothing, TotalsTyped, Sums
    <3> QED
      BY <2>1, <3>1, NothingIs DEF RecsTyped
  <2>2. ASSUME NEW b \in Bodies, NEW h \in Handlers, Saved(b, h) PROVE RecsTyped /\ TotalsTyped
    <3>1. b.weight \in Sums /\ 0 \in Sums
      BY BodyAssumption DEF Sums
    <3>2. TotalsTyped
      BY <2>2, <3>1 DEF Saved, TotalsTyped
    <3> QED
      BY <2>2, <3>2, SavedIs DEF RecsTyped, Live
  <2> QED
    BY <2>1, <2>2 DEF Init
<1>3. JobsTyped /\ PlacesTyped
  <2>1. job \in [Handlers -> Job]
    BY IdleIsJob DEF Init
  <2> QED
    BY <2>1, InitJobs, IdleIsPlaced DEF JobsTyped, PlacesTyped
<1> QED
  BY <1>1, <1>2, <1>3 DEF TypeInv

LEMMA InitLoads ==
    ASSUME Init
    PROVE  LoadInv /\ BulkInv /\ ActsInv /\ PeriodsInv
<1>1. \A r \in DOMAIN recs : recs[r].from = Form /\ ~recs[r].sure /\ (recs[r].link # 0 =>
         recs[r].link = 1)
  BY NothingIs, SavedIs DEF Init
<1>2. \/ DOMAIN recs = {} /\ DOMAIN acts = {}
      \/ /\ DOMAIN recs = {1} /\ DOMAIN acts = {1} /\ acts[1].of = 1
         /\ acts[1].live /\ acts[1].approved
  BY NothingIs, SavedIs DEF Init
<1>3. Form \notin Docs \cup Moves
  BY SourceAssumption
<1>4. LoadInv
  BY <1>1, <1>3, InitJobs DEF LoadInv, At
<1>5. BulkInv
  BY <1>1, InitJobs DEF BulkInv, Checked, At, BulkNeverDoubles, LiveRecords
<1>6. ActsInv
  BY <1>1, <1>2, InitJobs DEF ActsInv, At
<1>7. PeriodsInv
  BY InitJobs, NoPeriods DEF PeriodsInv
<1> QED
  BY <1>4, <1>5, <1>6, <1>7

LEMMA InitSaves ==
    ASSUME Init
    PROVE  SaveInv
<1>1. \A h \in Handlers : \A r : ~Saves1(h, r)
  BY InitJobs DEF Saves1, Saving
<1>2. \A r \in LiveRecords : Settled(r)
  BY NothingIs, SavedIs DEF Init, LiveRecords, Settled, Owns, States
<1> QED
  BY <1>1, <1>2 DEF SaveInv

LEMMA InitTotals ==
    ASSUME Init
    PROVE  TotalInv
<1>1. ASSUME NEW p \in Periods PROVE Exact(p)
  <2>1. CASE Nothing
    <3>1. InPeriod(p) = {}
      BY <2>1, NothingIs DEF InPeriod, LiveRecords
    <3>2. \A h \in Handlers : totals[p][h] = 0
      BY <2>1 DEF Nothing
    <3> QED
      BY <3>1, <3>2, WeighedNone DEF Exact
  <2>2. ASSUME NEW b \in Bodies, NEW h \in Handlers, Saved(b, h) PROVE Exact(p)
    <3>1. CASE p = b.period
      <4>1. InPeriod(p) = {1} /\ recs[1].weight = b.weight /\ b.weight \in Nat
        BY <2>2, <3>1, SavedIs DEF InPeriod, LiveRecords, Live
      <4>2. Weighed(p) = b.weight
        BY <4>1, WeighedOne
      <4>3. totals[p][h] = b.weight /\ \A g \in Handlers \ {h} : totals[p][g] = 0
        BY <2>2, <3>1 DEF Saved
      <4> QED
        BY <4>2, <4>3 DEF Exact
    <3>2. CASE p # b.period
      <4>1. InPeriod(p) = {}
        BY <2>2, <3>2, SavedIs DEF InPeriod, LiveRecords
      <4>2. \A g \in Handlers : totals[p][g] = 0
        BY <2>2, <3>2 DEF Saved
      <4> QED
        BY <2>2, <4>1, <4>2, WeighedNone DEF Exact
    <3> QED
      BY <3>1, <3>2
  <2> QED
    BY <2>1, <2>2 DEF Init
<1> QED
  BY <1>1, InitJobs DEF TotalInv

---------------------------------------------------------------------------
(* The theorems. *)

\* What a request is about, what it has read and what of its save and rebuild is done: accept.ts,
\* environmental-metrics.ts.
THEOREM WasteInvariant == Spec => []WasteInv
<1>1. Init => WasteInv
  BY InitTypeInv, InitLoads, InitSaves, InitTotals DEF WasteInv
<1>2. WasteInv /\ [Next]_vars => WasteInv'
  BY TypeInvStep, LoadInvStep, BulkInvStep, ActsInvStep, SaveInvStep, PeriodsInvStep, TotalInvStep
  DEF WasteInv
<1> QED
  BY <1>1, <1>2, PTL DEF Spec

\* acceptTransferNote claims its note in the row: no note gives two waste records, and no load
\* does but one that two requests received at a time.
THEOREM RecordedOnce == Spec => []OneRecordPerLoad
<1>1. WasteInv => OneRecordPerLoad
  <2>1. SUFFICES ASSUME WasteInv, NEW r1 \in DOMAIN recs, NEW r2 \in DOMAIN recs,
                        r1 # r2, recs[r1].from = recs[r2].from
                 PROVE  recs[r1].from \in {Form} \cup raced
    BY DEF OneRecordPerLoad
  <2>2. recs[r1].from \in Loads
    <3>1. recs \in Seq(Rec)
      BY <2>1 DEF WasteInv, TypeInv, RecsTyped
    <3>2. recs[r1] \in Rec
      BY <3>1, ElementOfSeq
    <3> QED
      BY <3>2 DEF Rec
  <2> QED
    BY <2>1, <2>2 DEF WasteInv, LoadInv, Loads
<1> QED
  BY <1>1, WasteInvariant, PTL

\* loadTriage and the check before each acceptance: of notes of one reference that bulk approvals
\* recorded while pending, one makes a waste record that stands.
THEOREM BulkRecordsOne == Spec => []BulkNeverDoubles
<1>1. WasteInv => BulkNeverDoubles
  BY DEF WasteInv, BulkInv
<1> QED
  BY <1>1, WasteInvariant, PTL

\* syncWasteRecordCalculation: a record whose saves neither overlapped nor stopped is in the
\* inventory once when no save is about it, in its period, with its weight unless somebody amended
\* the activity record since, approved unless somebody reviewed it.
THEOREM QuietRecordIsCounted == Spec => []QuietRecordsAgree
<1>1. WasteInv => QuietRecordsAgree
  <2>1. SUFFICES ASSUME WasteInv, NEW r \in LiveRecords \ disturbed,
                        \A h \in Handlers : ~(Saving(h) /\ job[h].rec = r)
                 PROVE  LET a == recs[r].link IN
                           /\ a # 0 /\ acts[a].of = r /\ acts[a].live /\ acts[a].row
                           /\ acts[a].period = recs[r].period
                           /\ acts[a].weight = recs[r].weight \/ acts[a].amended
                           /\ acts[a].approved \/ acts[a].reviewed
                           /\ recs[r].co2e = recs[r].weight
                           /\ \A b \in DOMAIN acts : acts[b].of = r => b = a
    BY DEF QuietRecordsAgree
  <2>2. Settled(r)
    BY <2>1 DEF WasteInv, SaveInv, Saves1
  <2>3. /\ recs[r].link \in DOMAIN acts /\ acts[recs[r].link].of = r /\ acts[recs[r].link].live
        /\ acts[recs[r].link].approved \/ acts[recs[r].link].reviewed
    BY <2>1, <2>2 DEF WasteInv, ActsInv, Settled, LiveRecords
  <2> QED
    BY <2>2, <2>3 DEF Settled, Owns, States
<1> QED
  BY <1>1, WasteInvariant, PTL

\* rebuildEnvironmentalMetricAggregates: a period that no request is about and whose last rebuild
\* was alone shows the weight of its records, in one row.
THEOREM QuietPeriodIsExact == Spec => []QuietTotals
<1>1. WasteInv => QuietTotals
  <2>1. SUFFICES ASSUME WasteInv, NEW p \in Periods \ spoiled,
                        \A h \in Handlers : p \notin Busy(h)
                 PROVE  /\ {totals[p][h] : h \in Handlers} \ {0} = {Weighed(p)} \ {0}
                        /\ Cardinality({h \in Handlers : totals[p][h] # 0}) <= 1
    BY DEF QuietTotals
  <2>2. Exact(p)
    BY <2>1 DEF WasteInv, TotalInv
  <2> DEFINE S == {h \in Handlers : totals[p][h] # 0}
  <2>3. Cardinality(S) <= 1
    <3>1. CASE S = {}
      BY <3>1, FS_EmptySet
    <3>2. CASE S # {}
      <4>1. PICK h : h \in S
        BY <3>2
      <4>2. S = {h}
        BY <2>2, <4>1 DEF Exact
      <4> HIDE DEF S
      <4>3. Cardinality(S) = 1
        BY <4>2, FS_Singleton
      <4> QED
        BY <4>3
    <3> QED
      BY <3>1, <3>2
  <2> QED
    BY <2>2, <2>3 DEF Exact
<1> QED
  BY <1>1, WasteInvariant, PTL
=============================================================================
