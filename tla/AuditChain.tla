------------------------------- MODULE AuditChain -------------------------------
(***************************************************************************)
(* One organisation's audit trail: rows that each carry a hash over the    *)
(* row before and their own contents, written one at a time under an        *)
(* advisory lock; the check that walks it; the job that removes personal    *)
(* data from old rows; the deletion of a member's account, which takes its  *)
(* name off every row it wrote; and the anchors that copy the head of the    *)
(* table to storage.                                                       *)
(* Source: writeAuditLog and verifyAuditChain of lib/db/audit.ts,           *)
(* lib/audit/chain.ts, anonymise.ts and anchor.ts, and the member route's    *)
(* DELETE with deleteAccount=true.                                         *)
(*                                                                         *)
(* A hash stands for what it covers: it is the sequence of the entries of   *)
(* all rows up to its own, so two hashes are equal if they cover the same.  *)
(* A row written before version 2 has a hash nobody can recompute, or none, *)
(* and may not follow the row before it: the old writer had no lock.        *)
(***************************************************************************)
EXTENDS Integers, FiniteSets, Sequences

CONSTANTS
    Writers,        \* calls of writeAuditLog, each with an entry of its own
    Anchorers,      \* runs of the anchoring job that may overlap
    OldEntries,     \* contents of rows written before version 2
    Users,          \* accounts that may be deleted
    Author,         \* the user each entry names as its actor, or NoOne
    LegacyChains    \* what the table may hold when version 2 begins: sets of rows

NoHash == <<>>
Redacted == "redacted"
Nobody == "nobody"      \* an entry whose actor_user_id is null where it named a user
NoAnchor == [seq |-> 0, hash |-> NoHash]
Entries == Writers
Hash(previous, e) == Append(previous, e)

\* seq is chainSeq; fixed says whether the contents can be recomputed (hashVersion 2).
LegacyRow ==
    [seq : Nat \ {0}, prev : Seq(OldEntries), hash : Seq(OldEntries), entry : OldEntries,
     fixed : {FALSE}, redacted : {FALSE}]
ASSUME LegacyAssumption == \A chain \in LegacyChains :
    /\ IsFiniteSet(chain) /\ chain \subseteq LegacyRow
    /\ \A r, s \in chain : r.seq = s.seq => r = s
ASSUME EntryAssumption ==
    Writers \cap OldEntries = {} /\ {Redacted, Nobody} \cap (Writers \cup OldEntries) = {}

VARIABLES
    rows,        \* audit_logs of the organisation
    sequence,    \* the last number chain_seq's sequence gave out
    gone,        \* users whose accounts are deleted
    lock,        \* pg_advisory_xact_lock: its holder, or NoOne
    \* calls of writeAuditLog
    apc, previous, number,
    \* one walk of verifyAuditChain
    vpc, after, last, brokenAt,
    \* the anchoring job, and what it stored
    jpc, head, anchored, latest

NoOne == "none"
ASSUME LockAssumption == NoOne \notin Writers
ASSUME AuthorAssumption ==
    NoOne \notin Users /\ Author \in [Writers \cup OldEntries -> Users \cup {NoOne}]
chainVars == <<rows, sequence, gone>>
writeVars == <<lock, apc, previous, number>>
walkVars == <<vpc, after, last, brokenAt>>
anchorVars == <<jpc, head, anchored, latest>>
vars == <<rows, sequence, gone, lock, apc, previous, number, vpc, after, last, brokenAt,
          jpc, head, anchored, latest>>

Newest(r) == \A s \in rows : s.seq <= r.seq
HeadOf(chain) ==
    IF chain = {} THEN NoHash
    ELSE (CHOOSE r \in chain : \A s \in chain : s.seq <= r.seq).hash
HeadHash == HeadOf(rows)
Seqs(chain) == {r.seq : r \in chain}
Highest(S) == IF S = {} THEN 0 ELSE CHOOSE n \in S : \A m \in S : m <= n

Init ==
    /\ rows \in LegacyChains /\ sequence = Highest(Seqs(rows)) /\ gone = {}
    /\ lock = NoOne
    /\ apc = [w \in Writers |-> "idle"] /\ previous = [w \in Writers |-> NoHash]
    /\ number = [w \in Writers |-> 0]
    /\ vpc = "idle" /\ after = 0 /\ last = NoHash /\ brokenAt = 0
    /\ jpc = [j \in Anchorers |-> "idle"] /\ head = [j \in Anchorers |-> NoAnchor]
    /\ anchored = {} /\ latest = NoAnchor

---------------------------------------------------------------------------
(* Faulty variants: each is one definition below with a plausible slip, and   *)
(* breaks the property the project lists it for.                             *)

LockShared(w) ==
    /\ apc[w] = "lock"
    /\ apc' = [apc EXCEPT ![w] = "read"]
    /\ lock' = w
    /\ UNCHANGED <<chainVars, previous, number, walkVars, anchorVars>>

RedactUnmarked(r) == [r EXCEPT !.entry = Redacted]

LatestFirst(j) ==
    /\ jpc[j] = "put"
    /\ jpc' = [jpc EXCEPT ![j] = "latest"]
    /\ latest' = head[j]
    /\ UNCHANGED <<chainVars, writeVars, walkVars, head, anchored>>

CommitUnlocked(w) ==
    /\ apc[w] = "insert"
    /\ sequence' = sequence + 1
    /\ number' = [number EXCEPT ![w] = sequence']
    /\ apc' = [apc EXCEPT ![w] = "commit"]
    /\ lock' = NoOne
    /\ UNCHANGED <<rows, gone, previous, walkVars, anchorVars>>

RollbackKeepingLock(w) ==
    /\ apc[w] \in {"lock", "read", "insert", "commit"}
    /\ apc' = [apc EXCEPT ![w] = "failed"]
    /\ UNCHANGED <<chainVars, lock, previous, number, walkVars, anchorVars>>

---------------------------------------------------------------------------
(* writeAuditLog: one transaction.                                         *)

Goto(w, step) == apc' = [apc EXCEPT ![w] = step]
Held(w) == lock = w

BeginWrite(w) ==
    /\ apc[w] = "idle" /\ Goto(w, "lock")
    /\ UNCHANGED <<chainVars, lock, previous, number, walkVars, anchorVars>>

TakeLock(w) ==
    /\ apc[w] = "lock" /\ lock = NoOne
    /\ Goto(w, "read") /\ lock' = w
    /\ UNCHANGED <<chainVars, previous, number, walkVars, anchorVars>>

ReadPrevious(w) ==
    /\ apc[w] = "read" /\ Goto(w, "insert")
    /\ previous' = [previous EXCEPT ![w] = HeadHash]
    /\ UNCHANGED <<chainVars, lock, number, walkVars, anchorVars>>

\* The row gets its number now, and others see it when the transaction commits. It may not
\* name a user who is no more: then the transaction can only be rolled back.
Insert(w) ==
    /\ apc[w] = "insert" /\ Author[w] \notin gone /\ Goto(w, "commit")
    /\ sequence' = sequence + 1
    /\ number' = [number EXCEPT ![w] = sequence']
    /\ UNCHANGED <<rows, gone, lock, previous, walkVars, anchorVars>>

NewRow(w) == [seq |-> number[w], prev |-> previous[w], hash |-> Hash(previous[w], w),
              entry |-> w, fixed |-> TRUE, redacted |-> FALSE]

\* The transaction is over: the lock is released and what it had read is gone.
EndWrite(w) ==
    /\ lock' = IF Held(w) THEN NoOne ELSE lock
    /\ previous' = [previous EXCEPT ![w] = NoHash]
    /\ number' = [number EXCEPT ![w] = 0]

\* The answer to the commit may be lost: the caller then sees an error.
Commit(w) ==
    /\ apc[w] = "commit"
    /\ \E answer \in {"done", "failed"} : Goto(w, answer)
    /\ rows' = rows \cup {NewRow(w)}
    /\ EndWrite(w)
    /\ UNCHANGED <<sequence, gone, walkVars, anchorVars>>

\* The transaction times out, or its process dies. The number is not given out again.
Rollback(w) ==
    /\ apc[w] \in {"lock", "read", "insert", "commit"} /\ Goto(w, "failed")
    /\ EndWrite(w)
    /\ UNCHANGED <<chainVars, walkVars, anchorVars>>

---------------------------------------------------------------------------
(* verifyAuditChain, a page of one row at a time: larger pages are runs of  *)
(* these steps that nothing comes between.                                 *)

StartWalk ==
    /\ vpc # "walk" /\ vpc' = "walk"
    /\ after' = 0 /\ last' = NoHash /\ brokenAt' = 0
    /\ UNCHANGED <<chainVars, writeVars, anchorVars>>

NextRow(r) == r.seq > after /\ \A s \in rows : s.seq > after => r.seq <= s.seq

\* ChainVerifier.feed. A row of before version 2 only has its broken links counted.
Breaks(r) ==
    \/ (r.redacted \/ r.fixed) /\ (r.hash = NoHash \/ r.prev # last)
    \/ r.fixed /\ ~r.redacted /\ r.hash # Hash(r.prev, r.entry)

Feed(r) ==
    /\ vpc = "walk" /\ NextRow(r)
    /\ IF Breaks(r)
       THEN vpc' = "broken" /\ brokenAt' = r.seq /\ after' = 0 /\ last' = NoHash
       ELSE after' = r.seq /\ last' = r.hash /\ UNCHANGED <<vpc, brokenAt>>
    /\ UNCHANGED <<chainVars, writeVars, anchorVars>>

EndWalk ==
    /\ vpc = "walk" /\ \A r \in rows : r.seq <= after
    /\ vpc' = "intact" /\ after' = 0 /\ last' = NoHash
    /\ UNCHANGED <<chainVars, writeVars, brokenAt, anchorVars>>

---------------------------------------------------------------------------
(* anonymiseExpiredAuditRows, a deleted account, and the anchoring job.     *)

Redact(r) == [r EXCEPT !.entry = Redacted, !.redacted = TRUE]

\* One UPDATE over the oldest rows that are past the retention period.
Anonymise ==
    /\ \E oldest \in {r \in rows : ~r.redacted} :
        rows' = {IF r.seq <= oldest.seq THEN Redact(r) ELSE r : r \in rows}
    /\ UNCHANGED <<sequence, gone, writeVars, walkVars, anchorVars>>

\* A row that names u as its actor loses the name, and its hash and its marks stay.
Unsigned(r, u) ==
    IF ~r.redacted /\ r.entry # Nobody /\ Author[r.entry] = u
    THEN [r EXCEPT !.entry = Nobody] ELSE r

\* The last membership of u is removed with deleteAccount=true: ON DELETE SET NULL clears the
\* actor of all its rows. The deletion waits for inserted rows that name u to be committed.
DeleteAccount(u) ==
    /\ u \notin gone /\ \A w \in Writers : Author[w] = u => apc[w] # "commit"
    /\ rows' = {Unsigned(r, u) : r \in rows}
    /\ gone' = gone \cup {u}
    /\ UNCHANGED <<sequence, writeVars, walkVars, anchorVars>>

JobAt(j, from, to) == jpc[j] = from /\ jpc' = [jpc EXCEPT ![j] = to]

ReadHead(j) ==
    /\ JobAt(j, "idle", "put")
    /\ \E r \in rows :
        /\ Newest(r) /\ r.hash # NoHash
        /\ head' = [head EXCEPT ![j] = [seq |-> r.seq, hash |-> r.hash]]
    /\ UNCHANGED <<chainVars, writeVars, walkVars, anchored, latest>>

PutAnchor(j) ==
    /\ JobAt(j, "put", "latest")
    /\ anchored' = anchored \cup {head[j]}
    /\ UNCHANGED <<chainVars, writeVars, walkVars, head, latest>>

PutLatest(j) ==
    /\ JobAt(j, "latest", "idle")
    /\ latest' = head[j]
    /\ head' = [head EXCEPT ![j] = NoAnchor]
    /\ UNCHANGED <<chainVars, writeVars, walkVars, anchored>>

AnchorFails(j) ==
    /\ jpc[j] # "idle"
    /\ jpc' = [jpc EXCEPT ![j] = "idle"]
    /\ head' = [head EXCEPT ![j] = NoAnchor]
    /\ UNCHANGED <<chainVars, writeVars, walkVars, anchored, latest>>

---------------------------------------------------------------------------

WriteStep(w) == TakeLock(w) \/ ReadPrevious(w) \/ Insert(w) \/ Commit(w) \/ Rollback(w)
Anchoring(j) == ReadHead(j) \/ PutAnchor(j) \/ PutLatest(j) \/ AnchorFails(j)
Walk == StartWalk \/ EndWalk \/ \E r \in rows : Feed(r)

Next ==
    \/ \E w \in Writers : BeginWrite(w) \/ WriteStep(w)
    \/ \E j \in Anchorers : Anchoring(j)
    \/ Walk
    \/ Anonymise
    \/ \E u \in Users : DeleteAccount(u)

Spec == Init /\ [][Next]_vars

\* A call in its transaction goes on or is rolled back: it has a time limit. Calls that wait
\* for the lock are served in turn.
InTransaction(w) == apc[w] \in {"read", "insert", "commit"}
GoOn(w) == InTransaction(w) /\ (ReadPrevious(w) \/ Insert(w) \/ Commit(w) \/ Rollback(w))
Fairness == \A w \in Writers : WF_apc(GoOn(w)) /\ SF_apc(TakeLock(w))
FairSpec == Spec /\ Fairness

---------------------------------------------------------------------------
(* Properties *)

Steps == {"idle", "lock", "read", "insert", "commit", "done", "failed"}

Contents == Writers \cup OldEntries
Row == [seq : Nat \ {0}, prev : Seq(Contents), hash : Seq(Contents),
        entry : Contents \cup {Redacted, Nobody}, fixed : BOOLEAN, redacted : BOOLEAN]

TypeOK ==
    /\ rows \subseteq Row
    /\ \A r \in rows : r.seq <= sequence /\ (r.redacted <=> r.entry = Redacted)
    /\ sequence \in Nat /\ gone \subseteq Users
    /\ lock \in Writers \cup {NoOne}
    /\ apc \in [Writers -> Steps]
    /\ previous \in [Writers -> Seq(Contents)] /\ number \in [Writers -> 0 .. sequence]
    /\ vpc \in {"idle", "walk", "intact", "broken"} /\ after \in 0 .. sequence
    /\ last \in Seq(Contents) /\ brokenAt \in Seqs(rows) \cup {0}
    /\ jpc \in [Anchorers -> {"idle", "put", "latest"}]
    /\ head \in [Anchorers -> [seq : Nat, hash : Seq(Contents)]]

Follows(s, r) == r.seq < s.seq /\ \A q \in rows : ~(r.seq < q.seq /\ q.seq < s.seq)

\* The chain never forks: a row of version 2 carries the hash of the row numbered before it,
\* whoever wrote at the same time and whichever transactions were rolled back in between
\* (lib/db/audit.ts:475). Each row covers its own contents until they are removed, except that
\* a row whose author's account was deleted covers the contents it had with the author's name.
LinkSound(s) ==
    /\ \A r \in rows : Follows(s, r) => s.prev = r.hash
    /\ (\A r \in rows : s.seq <= r.seq) => s.prev = NoHash
Orphaned(s) == \E e \in Contents : s.hash = Hash(s.prev, e) /\ Author[e] \in gone
ChainHolds ==
    \A s \in rows : s.fixed =>
        /\ LinkSound(s)
        /\ ~s.redacted => s.hash = Hash(s.prev, s.entry) \/ (s.entry = Nobody /\ Orphaned(s))

\* A walk that runs while rows are written, anonymised and robbed of their authors reports a
\* break only at a row of one of two kinds: one that was anonymised and was written before
\* version 2 with no hash or a wrong link; one of version 2 whose author's account was deleted.
BreakIsKnown ==
    vpc = "broken" => \E r \in rows :
        /\ r.seq = brokenAt
        /\ \/ r.fixed /\ Orphaned(r)
           \/ ~r.fixed /\ r.redacted /\ (r.hash = NoHash \/ ~LinkSound(r))

\* checkAuditAnchor answers "matches" for whatever anchor is the latest, though runs of the job
\* overlap and die, and every latest anchor is also kept under its own number.
AnchorMatches ==
    /\ \A a \in anchored : \E r \in rows : r.seq = a.seq /\ r.hash = a.hash
    /\ latest # NoAnchor => latest \in anchored

\* Of what the application does to the trail itself, the two ways to check it, the walk and the
\* anchor, take only two things for tampering, both in the walk: a legacy row that was unsound
\* before it was anonymised, and the deletion of an author's account (members/[memberId]/
\* route.ts:141), which rewrites rows the schema calls append-only.
FalseAlarmsAreKnown == BreakIsKnown /\ AnchorMatches

\* A call that has begun ends: nobody keeps the lock.
EveryCallEnds == \A w \in Writers : apc[w] = "lock" ~> apc[w] \in {"done", "failed"}

\* The trail is the append-only log of module AppendOnlyLog: the head's hash covers all of it.
Log == INSTANCE AppendOnlyLog WITH
    log <- HeadHash,
    asked <- {w \in Writers : apc[w] # "idle"},
    told <- {w \in Writers : apc[w] = "done"},
    Beginnings <- {HeadOf(chain) : chain \in LegacyChains}
ImplementsLog == Log!Spec

=============================================================================
