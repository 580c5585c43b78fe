---------------------------- MODULE MarketAllocation ----------------------------
(***************************************************************************)
(* Market-based Scope 2: the certificates, tariffs and supplier rates an   *)
(* organisation holds, drawn down over the electricity records of one      *)
(* calculation run. Every chunk of the run loads the instruments and the   *)
(* approved records and allocates from nothing; its pages then write one   *)
(* row per record. Records are approved, withdrawn and edited, and         *)
(* instruments added and deleted, between any two of these steps.          *)
(* Source: lib/calculation/scope2-instruments.ts,                           *)
(* scope2-allocation-loader.ts and the chunk loop of run-worker.ts.         *)
(*                                                                         *)
(* One chunk works at a time: module CalculationRun is about that.          *)
(***************************************************************************)
EXTENDS Integers, FiniteSets, FiniteSetsExt

CONSTANTS
    Electricity,      \* electricity records of the period, by id
    Instruments,      \* ids an EnergyInstrument has or may get, in their order
    RecordKinds,      \* what a record may say
    InstrumentKinds,  \* what an instrument may say
    Batch,            \* BATCH_LOAD_SIZE
    MaxChanges        \* bound: changes by users once the run has begun

Unlimited == -1       \* coveredKwh is null
Anywhere == "any"     \* facilityId is null

ASSUME IdAssumption ==
    /\ Electricity \subseteq Nat /\ IsFiniteSet(Electricity)
    /\ Instruments \subseteq Nat /\ IsFiniteSet(Instruments)
ASSUME KindAssumption ==
    /\ RecordKinds \subseteq [kwh : Nat, date : Nat, facility : STRING,
                              factor : {"fits", "misfits", "none"}]
    /\ InstrumentKinds \subseteq [tier : 1 .. 4, facility : STRING, from : Nat, to : Nat,
                                  covered : Nat \cup {Unlimited}]
ASSUME BatchAssumption == Batch \in Nat \ {0} /\ MaxChanges \in Nat

VARIABLES
    record, approvedRecords, \* ActivityRecord: what each says, and which are approved
    instrument, held, gone,  \* EnergyInstrument: what each says, which exist, which did
    row,                     \* EmissionCalculation of the run, per record
    pc, chunk, wrote,        \* the run, its chunk, and whether the chunk wrote a page
    claims, asked,           \* marketAllocations of the chunk, and the kWh it was made for
    changes,                 \* bound: changes so far
    edited                   \* history: records edited since the run began

tableVars == <<record, approvedRecords, instrument, held, gone>>
chunkVars == <<pc, chunk, wrote, claims, asked>>
marketVars == <<record, approvedRecords, instrument, held, gone, row, pc, chunk, wrote, claims,
                asked, changes, edited>>

\* factor is the kWh a row counts at a factor of the library; claims are its portions.
Nothing == [i \in Instruments |-> 0]
NoRow == [claims |-> Nothing, factor |-> 0, chunk |-> 0]
Calculated(r) == row[r] # NoRow
Waiting == {r \in approvedRecords : ~Calculated(r)}
Total(portions) == SumFunction(portions)

\* A run over no approved record fails before its first chunk.
MarketInit ==
    /\ record \in [Electricity -> RecordKinds]
    /\ approvedRecords \in (SUBSET Electricity) \ {{}}
    /\ instrument \in [Instruments -> InstrumentKinds]
    /\ held \in SUBSET Instruments /\ gone = {}
    /\ row = [r \in Electricity |-> NoRow]
    /\ pc = "new" /\ chunk = 0 /\ wrote = FALSE
    /\ claims = [r \in Electricity |-> Nothing] /\ asked = [r \in Electricity |-> 0]
    /\ changes = 0 /\ edited = {}

---------------------------------------------------------------------------
(* allocateInstruments(records, instruments): a pure function of the two   *)
(* tables it is given, each from the ids in it to what they say. Records by *)
(* date, for each the instruments by preference, from what is left of each. *)

Applies(i, r) == r.date \in i.from .. i.to /\ i.facility \in {Anywhere, r.facility}

Earlier(records, s, r) ==
    \/ records[s].date < records[r].date
    \/ records[s].date = records[r].date /\ s < r

\* The tier, then a facility's own contract, then the older one, then the id.
Rank(instruments, i) ==
    <<instruments[i].tier, IF instruments[i].facility = Anywhere THEN 1 ELSE 0,
      instruments[i].from, i>>
Preferred(instruments, i, j) ==
    LET a == Rank(instruments, i)
        b == Rank(instruments, j)
    IN  \E n \in 1 .. 4 : a[n] < b[n] /\ \A m \in 1 .. n - 1 : a[m] = b[m]

Drawn(took, i) == SumFunction([r \in Electricity |-> took[r][i]])
Room(instruments, took, i) == instruments[i].covered - Drawn(took, i)

---------------------------------------------------------------------------
(* Faulty variants: each is one definition below with a plausible slip, and   *)
(* breaks the property the project lists it for.                             *)

DrawIgnoringWindow(records, instruments, r, took, i) ==
    LET left == records[r].kwh - Total(took[r])
        available == IF instruments[i].covered = Unlimited THEN left
                     ELSE Room(instruments, took, i)
    IN  [took EXCEPT ![r][i] = Min({left, available})]

FactorOnAll(r, portions, kwh) ==
    [claims |-> portions, chunk |-> chunk,
     factor |-> IF record[r].factor = "fits" /\ Total(portions) < kwh THEN record[r].kwh ELSE 0]

---------------------------------------------------------------------------

Draw(records, instruments, r, took, i) ==
    LET left == records[r].kwh - Total(took[r])
        available == IF instruments[i].covered = Unlimited THEN left
                     ELSE Room(instruments, took, i)
    IN  IF Applies(instruments[i], records[r])
          THEN [took EXCEPT ![r][i] = Min({left, available})] ELSE took

\* A loop over a sorted array is a fold that comes to the last one last.
LatestOf(records, R) == CHOOSE r \in R : \A s \in R \ {r} : Earlier(records, s, r)
LastChoice(instruments, H) == CHOOSE i \in H : \A j \in H \ {i} : Preferred(instruments, j, i)

Serve(records, instruments, r, took) ==
    MapThenFoldSet(LAMBDA i, t : Draw(records, instruments, r, t, i), took, LAMBDA i : i,
                   LAMBDA H : LastChoice(instruments, H), DOMAIN instruments)

AllocationOf(records, instruments) ==
    MapThenFoldSet(LAMBDA r, t : Serve(records, instruments, r, t),
                   [r \in Electricity |-> Nothing], LAMBDA r : r,
                   LAMBDA R : LatestOf(records, R), DOMAIN records)

\* loadMarketAllocations: what a chunk begins with.
Loaded == approvedRecords
LoadedRecords == [r \in Loaded |-> record[r]]
HeldInstruments == [i \in held |-> instrument[i]]
Asked == [r \in Electricity |-> IF r \in Loaded THEN record[r].kwh ELSE 0]
Allocation == AllocationOf(LoadedRecords, HeldInstruments)

---------------------------------------------------------------------------
(* The chunk loop of processOneChunk.                                      *)

\* The library factor applies to what the instruments left of the record as it was loaded,
\* but to no more than the record states now; to all of it if it has no allocation.
AtFactor(r, portions, kwh) ==
    IF Total(portions) = 0 THEN record[r].kwh
    ELSE Min({kwh - Total(portions), record[r].kwh})

\* Wholly covered, no factor is looked for. A factor in a unit the record does not convert to
\* voids the row with its portions; no factor at all leaves the portions.
RowOf(r, portions, kwh) ==
    LET covered == Total(portions) > 0 /\ Total(portions) = kwh
        void == ~covered /\ record[r].factor = "misfits"
    IN  [claims |-> IF void THEN Nothing ELSE portions,
         factor |-> IF ~covered /\ record[r].factor = "fits"
                      THEN AtFactor(r, portions, kwh) ELSE 0,
         chunk |-> chunk]

OpenChunk ==
    /\ pc \in {"new", "between"}
    /\ pc' = "open" /\ chunk' = chunk + 1 /\ wrote' = FALSE
    /\ claims' = Allocation /\ asked' = Asked
    /\ UNCHANGED <<tableVars, row, changes, edited>>

\* A page is the first Batch records without a row, by id. The loop over it is cut after any
\* record at the chunk's deadline, which ends the chunk.
WriteRows ==
    /\ pc = "open"
    /\ \E handled \in SUBSET Waiting :
        /\ handled # {} /\ Cardinality(handled) <= Batch
        /\ \A r \in handled, s \in Waiting \ handled : r < s
        /\ row' = [r \in Electricity |->
                      IF r \in handled THEN RowOf(r, claims[r], asked[r]) ELSE row[r]]
        /\ pc' = IF handled = Waiting \/ Cardinality(handled) = Batch THEN "open" ELSE "cut"
    /\ wrote' = TRUE
    /\ UNCHANGED <<tableVars, chunk, claims, asked, changes, edited>>

\* Its time is up, or its invocation is killed: its allocation is lost.
CloseChunk ==
    /\ pc = "cut" \/ (pc = "open" /\ wrote)
    /\ pc' = "between" /\ wrote' = FALSE
    /\ claims' = [r \in Electricity |-> Nothing] /\ asked' = [r \in Electricity |-> 0]
    /\ UNCHANGED <<tableVars, row, chunk, changes, edited>>

Finish ==
    /\ pc = "open" /\ Waiting = {}
    /\ pc' = "done" /\ wrote' = FALSE
    /\ claims' = [r \in Electricity |-> Nothing] /\ asked' = [r \in Electricity |-> 0]
    /\ UNCHANGED <<tableVars, row, chunk, changes, edited>>

Change ==
    /\ pc \in {"open", "cut", "between"} /\ changes < MaxChanges
    /\ changes' = changes + 1
    /\ UNCHANGED <<row, chunkVars>>

\* Neither the review route nor the edit route looks at runs in progress.
Approve(r) ==
    /\ Change
    /\ r \notin approvedRecords /\ approvedRecords' = approvedRecords \cup {r}
    /\ UNCHANGED <<record, instrument, held, gone, edited>>

Withdraw(r) ==
    /\ Change
    /\ r \in approvedRecords /\ approvedRecords' = approvedRecords \ {r}
    /\ UNCHANGED <<record, instrument, held, gone, edited>>

Edit(r) ==
    /\ Change
    /\ \E kind \in RecordKinds \ {record[r]} : record' = [record EXCEPT ![r] = kind]
    /\ edited' = edited \cup {r}
    /\ UNCHANGED <<approvedRecords, instrument, held, gone>>

AddInstrument(i) ==
    /\ Change
    /\ i \notin held \cup gone /\ held' = held \cup {i}
    /\ UNCHANGED <<record, approvedRecords, instrument, gone, edited>>

DeleteInstrument(i) ==
    /\ Change
    /\ i \in held /\ held' = held \ {i} /\ gone' = gone \cup {i}
    /\ UNCHANGED <<record, approvedRecords, instrument, edited>>

MarketNext ==
    \/ OpenChunk \/ WriteRows \/ CloseChunk \/ Finish
    \/ \E r \in Electricity : Approve(r) \/ Withdraw(r) \/ Edit(r)
    \/ \E i \in Instruments : AddInstrument(i) \/ DeleteInstrument(i)

MarketSpec == MarketInit /\ [][MarketNext]_marketVars

---------------------------------------------------------------------------
(* Properties *)

DrawnBy(records, took, r, i) ==
    SumFunctionOnSet([s \in Electricity |-> took[s][i]],
                     {s \in DOMAIN records : s = r \/ Earlier(records, s, r)})
UsedUpBy(records, instruments, took, r, i) ==
    /\ instruments[i].covered # Unlimited
    /\ DrawnBy(records, took, r, i) = instruments[i].covered

\* What an allocation of the instruments to the records has to be.
InOrder(records, instruments, took) ==
    /\ \A r \in Electricity, i \in Instruments : took[r][i] > 0 =>
        r \in DOMAIN records /\ i \in DOMAIN instruments /\ Applies(instruments[i], records[r])
    /\ \A r \in DOMAIN records : Total(took[r]) <= records[r].kwh
    /\ \A i \in DOMAIN instruments :
        instruments[i].covered # Unlimited => Room(instruments, took, i) >= 0
    /\ \A r \in DOMAIN records, i \in DOMAIN instruments :
        /\ Applies(instruments[i], records[r])
        /\ \/ Total(took[r]) < records[r].kwh
           \/ \E j \in DOMAIN instruments : took[r][j] > 0 /\ Preferred(instruments, i, j)
        => UsedUpBy(records, instruments, took, r, i)

\* What scope2-instruments.ts:1-16 promises of the allocation, whatever the tables say: no
\* more is drawn than a record uses or an instrument covers, only where it applies, and a
\* record is left uncovered, or falls to a less preferred instrument, only if every better
\* one that applies was used up by it and the records before it. Allocation is a greedy
\* double loop; this says what it has to find, not how.
DrawnInOrder == InOrder(LoadedRecords, HeldInstruments, Allocation)

\* However the run is cut into chunks and pages, if nobody changes a record or an instrument
\* its rows are those of one allocation over all its records (scope2-allocation-loader.ts:7-12).
OneAllocation ==
    LET took == Allocation
        Same(a, b) == a.claims = b.claims /\ a.factor = b.factor
    IN  changes = 0 =>
            \A r \in Electricity : Calculated(r) => Same(row[r], RowOf(r, took[r], Asked[r]))

Claimed(rs, i) ==
    SumFunctionOnSet([r \in Electricity |-> row[r].claims[i]], {r \in rs : Calculated(r)})

\* Whatever users change meanwhile, the rows of one chunk never claim more of a certificate
\* than it covers: claiming twice takes two loads.
ChunkWithinCertificate ==
    \A c \in 1 .. chunk, i \in Instruments : instrument[i].covered # Unlimited =>
        Claimed({r \in Electricity : row[r].chunk = c}, i) <= instrument[i].covered

\* A record nobody edited is counted for exactly the kWh it states, part by instruments and
\* part at the library factor, though its allocation may be older than the tables.
KwhCountedOnce ==
    \A r \in Electricity \ edited : Calculated(r) /\ record[r].factor = "fits" =>
        Total(row[r].claims) + row[r].factor = record[r].kwh

\* With users changing records and instruments between any two statements, what a chunk claims
\* is covered, and what a record is counted for is what it states.
ClaimsAreSound == ChunkWithinCertificate /\ KwhCountedOnce
=============================================================================
