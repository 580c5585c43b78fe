--------------------------- MODULE AuditChain_proofs ---------------------------
(***************************************************************************)
(* Proofs about AuditChain, for every set of writers and anchoring jobs and *)
(* every table version 2 may have begun with.                              *)
(*                                                                         *)
(* The argument: whoever is in its transaction is who holds the lock, so    *)
(* what it read as the head is still the head when it commits, and its      *)
(* number is above every other. The table therefore only grows at its end,  *)
(* and a row's place between its neighbours never changes. What else writes *)
(* the table only removes from what rows say: of the expired ones everything *)
(* personal, of those of a deleted account its name.                        *)
(***************************************************************************)
EXTENDS AuditChain, FiniteSetTheorems, SequenceTheorems, WellFoundedInduction, TLAPS

\* No two rows have a number in common, and a table that is not empty has a newest row.
RowsInv ==
    /\ \A r, s \in rows : r.seq = s.seq => r = s
    /\ rows # {} => \E r \in rows : Newest(r)

\* One transaction at a time: what it read is the head, and its number is above all.
LockInv ==
    /\ \A w \in Writers : InTransaction(w) <=> Held(w)
    /\ \A w \in Writers : apc[w] \in {"insert", "commit"} => previous[w] = HeadHash
    /\ \A w \in Writers : apc[w] = "commit" =>
          number[w] > 0 /\ \A r \in rows : r.seq < number[w]

\* A hash covers entries of before version 2 and of calls that have ended.
CoverInv ==
    \A r \in rows : \A i \in DOMAIN r.hash :
        r.hash[i] \in OldEntries \/ apc[r.hash[i]] \in {"done", "failed"}

ChainInv == ChainHolds /\ \A s \in rows : s.fixed => s.hash # NoHash

\* A walk stands at the start of the table or at one of its rows.
WalkInv ==
    /\ vpc = "walk" => \/ after = 0 /\ last = NoHash
                       \/ \E r \in rows : r.seq = after /\ r.hash = last
    /\ BreakIsKnown

Covered(a) == \E r \in rows : r.seq = a.seq /\ r.hash = a.hash
AnchorInv ==
    /\ \A j \in Anchorers : jpc[j] \in {"put", "latest"} => Covered(head[j])
    /\ \A j \in Anchorers : jpc[j] = "latest" => head[j] \in anchored
    /\ AnchorMatches

TableInv == TypeOK /\ RowsInv /\ LockInv
ChainsInv == TableInv /\ CoverInv /\ ChainInv /\ WalkInv /\ AnchorInv

---------------------------------------------------------------------------
(* What HeadOf and the set of rows are. *)

\* Every non-empty set of natural numbers has a least element.
LEMMA LeastNumber ==
    ASSUME NEW S \in SUBSET Nat, S # {}
    PROVE  \E n \in S : \A m \in S : n <= m
<1>1. PICK n \in S : \A m \in S : <<m, n>> \notin OpToRel(<, Nat)
  BY NatLessThanWellFounded, WFMin
<1>2. \A m \in S : ~(m < n)
  BY <1>1 DEF OpToRel
<1> QED
  BY <1>2

\* A finite table that is not empty has a newest row: a smallest table without one would
\* have a smaller table without one in it.
LEMMA FiniteHasNewest ==
    ASSUME NEW chain, IsFiniteSet(chain), chain # {}, \A r \in chain : r.seq \in Nat
    PROVE  \E r \in chain : \A s \in chain : s.seq <= r.seq
<1> DEFINE Endless(X) == X # {} /\ ~ \E r \in X : \A s \in X : s.seq <= r.seq
           Sizes == {Cardinality(X) : X \in {Y \in SUBSET chain : Endless(Y)}}
<1>1. SUFFICES ASSUME Endless(chain) PROVE FALSE
  OBVIOUS
<1>2. \A X \in SUBSET chain : IsFiniteSet(X) /\ Cardinality(X) \in Nat
  BY FS_Subset, FS_CardinalityType
<1>3. Sizes \in SUBSET Nat /\ Sizes # {}
  BY <1>1, <1>2
<1> HIDE DEF Sizes
<1>4. PICK n \in Sizes : \A m \in Sizes : n <= m
  BY <1>3, LeastNumber
<1>5. PICK X \in SUBSET chain : Endless(X) /\ Cardinality(X) = n
  BY <1>4 DEF Sizes
<1>6. PICK x \in X : TRUE
  BY <1>5
<1>7. Cardinality(X \ {x}) = n - 1
  BY <1>2, <1>5, <1>6, FS_RemoveElement
<1>8. n - 1 \notin Sizes
  BY <1>3, <1>4
<1>9. ~Endless(X \ {x})
  BY <1>7, <1>8 DEF Sizes
<1>10. CASE X \ {x} = {}
  BY <1>10, <1>5, <1>6
<1>11. CASE X \ {x} # {}
  <2>1. PICK k \in X \ {x} : \A m \in X \ {x} : m.seq <= k.seq
    BY <1>11, <1>9
  <2>2. \A m \in X : m.seq \in Nat
    BY <1>5
  <2> QED
    BY <2>1, <2>2, <1>5, <1>6
<1> QED
  BY <1>10, <1>11

\* The head's hash is that of the newest row, and there is one newest row.
LEMMA HeadIsNewest ==
    ASSUME NEW chain, \A q \in chain : q.seq \in Nat,
           \A q, s \in chain : q.seq = s.seq => q = s,
           NEW r \in chain, \A s \in chain : s.seq <= r.seq
    PROVE  HeadOf(chain) = r.hash
<1> DEFINE Last == CHOOSE q \in chain : \A s \in chain : s.seq <= q.seq
<1>1. Last \in chain /\ \A s \in chain : s.seq <= Last.seq
  OBVIOUS
<1>2. HeadOf(chain) = Last.hash
  BY DEF HeadOf
<1> HIDE DEF Last
<1>3. Last.seq = r.seq
  BY <1>1
<1> QED
  BY <1>1, <1>2, <1>3

LEMMA HeadOfNothing == rows = {} => HeadHash = NoHash
BY DEF HeadHash, HeadOf

LEMMA HeadType ==
    ASSUME TypeOK, RowsInv
    PROVE  HeadHash \in Seq(Contents)
<1>1. CASE rows = {}
  BY <1>1, HeadOfNothing, EmptySeq DEF NoHash
<1>2. CASE rows # {}
  <2>1. PICK r \in rows : Newest(r)
    BY <1>2 DEF RowsInv
  <2>2. HeadHash = r.hash
    BY <2>1, HeadIsNewest DEF RowsInv, TypeOK, Row, Newest, HeadHash
  <2> QED
    BY <2>2 DEF TypeOK, Row
<1> QED
  BY <1>1, <1>2

---------------------------------------------------------------------------
(* The two actions that write the table. *)

\* A commit adds one row, numbered above all and chained to the head.
LEMMA CommitExtends ==
    ASSUME TableInv, NEW w \in Writers, Commit(w)
    PROVE  /\ rows' = rows \cup {NewRow(w)}
           /\ NewRow(w) \in Row
           /\ \A r \in rows : r.seq < NewRow(w).seq
           /\ NewRow(w).prev = HeadHash /\ NewRow(w).hash = Append(HeadHash, w)
<1>1. apc[w] = "commit" /\ rows' = rows \cup {NewRow(w)}
  BY DEF Commit
<1>2. previous[w] = HeadHash /\ number[w] \in Nat \ {0} /\ \A r \in rows : r.seq < number[w]
  BY <1>1 DEF TableInv, LockInv, TypeOK
<1>3. HeadHash \in Seq(Contents) /\ w \in Contents
  BY HeadType DEF TableInv, Contents
<1>4. Append(HeadHash, w) \in Seq(Contents)
  BY <1>3, AppendProperties
<1> QED
  BY <1>1, <1>2, <1>3, <1>4 DEF NewRow, Hash, Row

\* The same row, of which personal data or the author's name may have been removed.
SameRow(q, r) ==
    /\ q.seq = r.seq /\ q.prev = r.prev /\ q.hash = r.hash /\ q.fixed = r.fixed
    /\ r.redacted => q.redacted

\* And what it says of its contents: all, nothing, or all but a deleted author's name.
Remains(q, r) ==
    \/ q.redacted
    \/ q.entry = r.entry
    \/ r.entry \in Contents /\ Author[r.entry] \in gone' /\ q.entry = Nobody

Erasure == Anonymise \/ \E u \in Users : DeleteAccount(u)

\* An erasure touches the table and the deleted accounts only.
LEMMA ErasureOfRows ==
    ASSUME Erasure
    PROVE  UNCHANGED <<sequence, writeVars, walkVars, anchorVars>> /\ gone \subseteq gone'
BY DEF Erasure, Anonymise, DeleteAccount

\* An erasure keeps every row, its number, its link and its hash.
LEMMA ErasureKeeps ==
    ASSUME TypeOK, Erasure
    PROVE  /\ \A r \in rows : \E q \in rows' : SameRow(q, r)
           /\ \A q \in rows' : \E r \in rows : SameRow(q, r) /\ Remains(q, r)
           /\ \A q \in rows' : q \in Row /\ (q.redacted <=> q.entry = Redacted)
<1>1. CASE Anonymise
  <2>1. PICK oldest \in rows :
          rows' = {IF r.seq <= oldest.seq THEN Redact(r) ELSE r : r \in rows}
    BY <1>1 DEF Anonymise
  <2>2. \A r \in rows : /\ SameRow(Redact(r), r) /\ Remains(Redact(r), r) /\ Redact(r) \in Row
                         /\ Redact(r).redacted /\ Redact(r).entry = Redacted
    BY DEF TypeOK, Row, Redact, SameRow, Remains
  <2>3. \A r \in rows : SameRow(r, r) /\ Remains(r, r)
    BY DEF SameRow, Remains
  <2> QED
    BY <2>1, <2>2, <2>3 DEF TypeOK
<1>2. ASSUME NEW u \in Users, DeleteAccount(u)
      PROVE  /\ \A r \in rows : \E q \in rows' : SameRow(q, r)
             /\ \A q \in rows' : \E r \in rows : SameRow(q, r) /\ Remains(q, r)
             /\ \A q \in rows' : q \in Row /\ (q.redacted <=> q.entry = Redacted)
  <2>1. rows' = {Unsigned(r, u) : r \in rows} /\ u \in gone'
    BY <1>2 DEF DeleteAccount
  <2>2. ASSUME NEW r \in rows
        PROVE  /\ SameRow(Unsigned(r, u), r) /\ Remains(Unsigned(r, u), r)
               /\ Unsigned(r, u) \in Row
               /\ Unsigned(r, u).redacted <=> Unsigned(r, u).entry = Redacted
    <3>1. r \in Row /\ (r.redacted <=> r.entry = Redacted)
      BY DEF TypeOK
    <3>2. CASE ~r.redacted /\ r.entry # Nobody /\ Author[r.entry] = u
      <4>1. Unsigned(r, u) = [r EXCEPT !.entry = Nobody]
        BY <3>2 DEF Unsigned
      <4>2. r.entry \in Contents
        BY <3>1, <3>2 DEF Row
      <4> QED
        BY <2>1, <3>1, <3>2, <4>1, <4>2 DEF Row, SameRow, Remains, Nobody, Redacted
    <3>3. CASE ~(~r.redacted /\ r.entry # Nobody /\ Author[r.entry] = u)
      <4>1. Unsigned(r, u) = r
        BY <3>3 DEF Unsigned
      <4> QED
        BY <3>1, <4>1 DEF SameRow, Remains
    <3> QED
      BY <3>2, <3>3
  <2> QED
    BY <2>1, <2>2
<1> QED
  BY <1>1, <1>2 DEF Erasure

---------------------------------------------------------------------------
(* Types, numbers and the lock. *)

\* Types are kept by every step.
LEMMA TypeStep ==
    ASSUME TableInv, [Next]_vars
    PROVE  TypeOK'
<1> USE DEF TypeOK, Steps, Goto, NoOne, chainVars, writeVars, walkVars, anchorVars, Seqs
<1> TypeOK /\ RowsInv /\ LockInv
  BY DEF TableInv
<1>1. ASSUME NEW w \in Writers, BeginWrite(w) PROVE TypeOK'
  BY <1>1 DEF BeginWrite
<1>2. ASSUME NEW w \in Writers, TakeLock(w) PROVE TypeOK'
  BY <1>2 DEF TakeLock
<1>3. ASSUME NEW w \in Writers, ReadPrevious(w) PROVE TypeOK'
  BY <1>3, HeadType DEF ReadPrevious
<1>4. ASSUME NEW w \in Writers, Insert(w) PROVE TypeOK'
  <2>1. \A n \in 0 .. sequence : n \in 0 .. sequence'
    BY <1>4 DEF Insert
  <2>2. number' \in [Writers -> 0 .. sequence'] /\ after' \in 0 .. sequence'
    BY <1>4, <2>1 DEF Insert
  <2>3. \A r \in rows : r.seq <= sequence'
    BY <1>4 DEF Insert, Row
  <2> QED
    BY <1>4, <2>2, <2>3 DEF Insert
<1>5. ASSUME NEW w \in Writers, Commit(w) PROVE TypeOK'
  <2>1. NoHash \in Seq(Contents)
    BY EmptySeq DEF NoHash
  <2>2. rows' \subseteq Row
    BY <1>5, CommitExtends
  <2>3. \A r \in rows' : r.seq <= sequence /\ (r.redacted <=> r.entry = Redacted)
    BY <1>5, EntryAssumption DEF Commit, NewRow
  <2> QED
    BY <1>5, <2>1, <2>2, <2>3 DEF Commit, EndWrite
<1>6. ASSUME NEW w \in Writers, Rollback(w) PROVE TypeOK'
  <2>1. NoHash \in Seq(Contents)
    BY EmptySeq DEF NoHash
  <2> QED
    BY <1>6, <2>1 DEF Rollback, EndWrite
<1>7. ASSUME NEW j \in Anchorers, Anchoring(j) PROVE TypeOK'
  <2>1. NoAnchor \in [seq : Nat, hash : Seq(Contents)]
    BY EmptySeq DEF NoAnchor, NoHash
  <2>2. \A r \in rows : [seq |-> r.seq, hash |-> r.hash] \in [seq : Nat, hash : Seq(Contents)]
    BY DEF Row
  <2>3. CASE ReadHead(j)
    BY <2>2, <2>3 DEF ReadHead, JobAt
  <2>4. CASE PutAnchor(j)
    BY <2>4 DEF PutAnchor, JobAt
  <2>5. CASE PutLatest(j)
    BY <2>1, <2>5 DEF PutLatest, JobAt
  <2>6. CASE AnchorFails(j)
    BY <2>1, <2>6 DEF AnchorFails
  <2> QED
    BY <1>7, <2>3, <2>4, <2>5, <2>6 DEF Anchoring
<1>8. ASSUME StartWalk PROVE TypeOK'
  BY <1>8, EmptySeq DEF StartWalk, NoHash
<1>9. ASSUME EndWalk PROVE TypeOK'
  BY <1>9, EmptySeq DEF EndWalk, NoHash
<1>10. ASSUME NEW r \in rows, Feed(r) PROVE TypeOK'
  <2>1. CASE Breaks(r)
    BY <1>10, <2>1, EmptySeq DEF Feed, Row, NoHash
  <2>2. CASE ~Breaks(r)
    BY <1>10, <2>2 DEF Feed, Row
  <2> QED
    BY <2>1, <2>2
<1>11. ASSUME Erasure PROVE TypeOK'
  <2>0. /\ UNCHANGED <<sequence, writeVars, walkVars, anchorVars>> /\ gone' \subseteq Users
    BY <1>11, ErasureOfRows DEF Erasure, Anonymise, DeleteAccount
  <2>1. rows' \subseteq Row /\ \A q \in rows' : q.redacted <=> q.entry = Redacted
    BY <1>11, ErasureKeeps
  <2>2. \A q \in rows' : q.seq <= sequence
    BY <1>11, ErasureKeeps DEF SameRow
  <2>3. \A r \in rows : \E q \in rows' : q.seq = r.seq
    BY <1>11, ErasureKeeps DEF SameRow
  <2>4. brokenAt \in Seqs(rows') \cup {0}
    BY <2>3
  <2> QED
    BY <2>0, <2>1, <2>2, <2>4
<1>12. ASSUME UNCHANGED vars PROVE TypeOK'
  BY <1>12 DEF vars
<1> QED
  BY <1>1, <1>2, <1>3, <1>4, <1>5, <1>6, <1>7, <1>8, <1>9, <1>10, <1>11, <1>12
     DEF Next, WriteStep, Walk, Erasure

\* What a commit makes of the head.
LEMMA CommitMovesHead ==
    ASSUME TableInv, NEW w \in Writers, Commit(w)
    PROVE  RowsInv' /\ HeadHash' = Append(HeadHash, w)
<1>1. /\ rows' = rows \cup {NewRow(w)} /\ NewRow(w) \in Row
      /\ \A r \in rows : r.seq < NewRow(w).seq
      /\ NewRow(w).hash = Append(HeadHash, w)
  BY CommitExtends
<1>2. \A r \in rows' : r.seq \in Nat /\ r.seq <= NewRow(w).seq
  BY <1>1 DEF TableInv, TypeOK, Row
<1>3. \A q, s \in rows' : q.seq = s.seq => q = s
  BY <1>1, <1>2 DEF TableInv, RowsInv, TypeOK, Row
<1>4. HeadOf(rows') = NewRow(w).hash
  BY <1>1, <1>2, <1>3, HeadIsNewest
<1>5. RowsInv'
  BY <1>1, <1>2, <1>3 DEF RowsInv, Newest
<1> QED
  BY <1>1, <1>4, <1>5 DEF HeadHash

\* An erasure keeps the numbers apart.
LEMMA ErasureKeepsNumbers ==
    ASSUME TableInv, Erasure
    PROVE  \A q, s \in rows' : q.seq = s.seq => q = s
<1>1. CASE Anonymise
  <2>1. PICK oldest \in rows :
          rows' = {IF r.seq <= oldest.seq THEN Redact(r) ELSE r : r \in rows}
    BY <1>1 DEF Anonymise
  <2>2. \A r \in rows : (IF r.seq <= oldest.seq THEN Redact(r) ELSE r).seq = r.seq
    BY DEF Redact, TableInv, TypeOK, Row
  <2> QED
    BY <2>1, <2>2 DEF TableInv, RowsInv
<1>2. ASSUME NEW u \in Users, DeleteAccount(u) PROVE \A q, s \in rows' : q.seq = s.seq => q = s
  <2>1. rows' = {Unsigned(r, u) : r \in rows}
    BY <1>2 DEF DeleteAccount
  <2>2. \A r \in rows : Unsigned(r, u).seq = r.seq
    BY DEF Unsigned, TableInv, TypeOK, Row
  <2> QED
    BY <2>1, <2>2 DEF TableInv, RowsInv
<1> QED
  BY <1>1, <1>2 DEF Erasure

\* An erasure does not move the head.
LEMMA ErasureKeepsHead ==
    ASSUME TableInv, Erasure
    PROVE  RowsInv' /\ HeadHash' = HeadHash
<1>1. /\ \A r \in rows : \E q \in rows' : SameRow(q, r)
      /\ \A q \in rows' : \E r \in rows : SameRow(q, r)
  BY ErasureKeeps DEF TableInv
<1>2. \A q \in rows' : q.seq \in Nat
  BY ErasureKeeps DEF TableInv, Row
<1>3. \A q, s \in rows' : q.seq = s.seq => q = s
  BY ErasureKeepsNumbers
<1>4. CASE rows = {}
  <2>1. rows' = {}
    BY <1>1, <1>4
  <2> QED
    BY <1>4, <2>1 DEF RowsInv, HeadHash
<1>5. CASE rows # {}
  <2>1. PICK r \in rows : Newest(r)
    BY <1>5 DEF TableInv, RowsInv
  <2>2. PICK q \in rows' : SameRow(q, r)
    BY <1>1
  <2>3. \A s \in rows' : s.seq <= q.seq
    BY <1>1, <2>1, <2>2 DEF SameRow, Newest
  <2>4. HeadOf(rows') = q.hash
    BY <1>2, <1>3, <2>3, HeadIsNewest
  <2>5. HeadOf(rows) = r.hash
    BY <2>1, HeadIsNewest DEF TableInv, RowsInv, TypeOK, Row, Newest
  <2> QED
    BY <1>3, <2>2, <2>3, <2>4, <2>5 DEF RowsInv, Newest, HeadHash, SameRow
<1> QED
  BY <1>4, <1>5

\* The numbers stay apart, and the table keeps a newest row.
LEMMA RowsStep ==
    ASSUME TableInv, [Next]_vars
    PROVE  RowsInv'
<1>1. ASSUME NEW w \in Writers, Commit(w) PROVE RowsInv'
  BY <1>1, CommitMovesHead
<1>2. ASSUME Erasure PROVE RowsInv'
  BY <1>2, ErasureKeepsHead
<1>3. ASSUME UNCHANGED rows PROVE RowsInv'
  BY <1>3 DEF TableInv, RowsInv, Newest
<1> QED
  BY <1>1, <1>2, <1>3
     DEF Next, Erasure, vars, chainVars, WriteStep, BeginWrite, TakeLock, ReadPrevious, Insert, Rollback,
         Anchoring, ReadHead, PutAnchor, PutLatest, AnchorFails, Walk, StartWalk, Feed, EndWalk

\* The head moves only when the holder of the lock commits, and then nobody has read it.
LEMMA LockStep ==
    ASSUME TableInv, [Next]_vars
    PROVE  LockInv'
<1> USE LockAssumption
      DEF LockInv, InTransaction, Held, Goto, chainVars, writeVars, walkVars, anchorVars
<1> TypeOK /\ RowsInv /\ LockInv
  BY DEF TableInv
<1>0. /\ apc \in [Writers -> Steps] /\ previous \in [Writers -> Seq(Contents)]
      /\ number \in [Writers -> 0 .. sequence] /\ sequence \in Nat
  BY DEF TypeOK
<1>1. ASSUME NEW w \in Writers, BeginWrite(w) PROVE LockInv'
  BY <1>0, <1>1 DEF BeginWrite, HeadHash
<1>2. ASSUME NEW w \in Writers, TakeLock(w) PROVE LockInv'
  BY <1>0, <1>2 DEF TakeLock, HeadHash, NoOne
<1>3. ASSUME NEW w \in Writers, ReadPrevious(w) PROVE LockInv'
  BY <1>0, <1>3 DEF ReadPrevious, HeadHash
<1>4. ASSUME NEW w \in Writers, Insert(w) PROVE LockInv'
  <2>1. \A r \in rows : r.seq < sequence + 1
    BY DEF TypeOK, Row
  <2>2. \A v \in Writers : apc'[v] = "commit" => v = w
    BY <1>0, <1>4 DEF Insert
  <2> QED
    BY <1>0, <1>4, <2>1, <2>2 DEF Insert, HeadHash
<1>5. ASSUME NEW w \in Writers, Commit(w) PROVE LockInv'
  <2>1. \A v \in Writers : ~InTransaction(v)'
    BY <1>0, <1>5 DEF Commit
  <2>2. \A v \in Writers : ~Held(v)'
    BY <1>5 DEF Commit, EndWrite, NoOne
  <2> QED
    BY <2>1, <2>2
<1>6. ASSUME NEW w \in Writers, Rollback(w) PROVE LockInv'
  <2>1. UNCHANGED <<rows, sequence>> /\ HeadHash' = HeadHash
    BY <1>6 DEF Rollback, HeadHash
  <2>2. \A v \in Writers \ {w} : /\ apc'[v] = apc[v] /\ previous'[v] = previous[v]
                                 /\ number'[v] = number[v] /\ (Held(v)' <=> Held(v))
    BY <1>0, <1>6 DEF Rollback, EndWrite, NoOne
  <2>3. apc'[w] = "failed" /\ ~Held(w)'
    BY <1>0, <1>6 DEF Rollback, EndWrite, NoOne
  <2> QED
    BY <2>1, <2>2, <2>3
<1>7. ASSUME Erasure PROVE LockInv'
  <2>1. HeadHash' = HeadHash
    BY <1>7, ErasureKeepsHead DEF TableInv
  <2>2. \A q \in rows' : \E r \in rows : q.seq = r.seq
    BY <1>7, ErasureKeeps DEF SameRow
  <2>3. UNCHANGED writeVars
    BY <1>7, ErasureOfRows
  <2> QED
    BY <2>1, <2>2, <2>3
<1>8. ASSUME UNCHANGED <<chainVars, writeVars>> PROVE LockInv'
  BY <1>8 DEF HeadHash
<1> QED
  BY <1>1, <1>2, <1>3, <1>4, <1>5, <1>6, <1>7, <1>8
     DEF Next, Erasure, vars, WriteStep, Anchoring, ReadHead, PutAnchor, PutLatest, AnchorFails, Walk,
         StartWalk, Feed, EndWalk

LEMMA TableInit == Init => TableInv
<1> SUFFICES ASSUME Init PROVE TableInv
  OBVIOUS
<1>1. /\ IsFiniteSet(rows) /\ rows \subseteq LegacyRow
      /\ \A r, s \in rows : r.seq = s.seq => r = s
  BY LegacyAssumption DEF Init
<1>2. rows # {} => \E r \in rows : Newest(r)
  BY <1>1, FiniteHasNewest DEF LegacyRow, Newest
<1>3. sequence \in Nat /\ \A r \in rows : r.seq <= sequence
  <2>1. CASE rows = {}
    BY <2>1 DEF Init, Highest, Seqs
  <2>2. CASE rows # {}
    <3>1. PICK r \in rows : Newest(r)
      BY <1>2, <2>2
    <3>2. r.seq \in Seqs(rows) /\ \A m \in Seqs(rows) : m <= r.seq
      BY <3>1 DEF Seqs, Newest
    <3>3. /\ Highest(Seqs(rows)) \in Seqs(rows)
          /\ \A m \in Seqs(rows) : m <= Highest(Seqs(rows))
      BY <3>2 DEF Highest
    <3> QED
      BY <1>1, <3>3 DEF Init, Seqs, LegacyRow
  <2> QED
    BY <2>1, <2>2
<1>4. LegacyRow \subseteq Row /\ \A r \in LegacyRow : ~r.redacted /\ r.entry # Redacted
  <2>1. Seq(OldEntries) \subseteq Seq(Contents)
    BY SeqMonotonic DEF Contents
  <2> QED
    BY <2>1, EntryAssumption DEF LegacyRow, Row, Contents
<1>5. NoHash \in Seq(Contents)
  BY EmptySeq DEF NoHash
<1>6. TypeOK
  BY <1>1, <1>3, <1>4, <1>5 DEF Init, TypeOK, Steps, NoAnchor
<1>7. LockInv
  BY LockAssumption DEF Init, LockInv, InTransaction, Held
<1> QED
  BY <1>1, <1>2, <1>6, <1>7 DEF TableInv, RowsInv

LEMMA TableStep == TableInv /\ [Next]_vars => TableInv'
BY TypeStep, RowsStep, LockStep DEF TableInv

\* Numbers, calls, walks and anchors keep their types: a row's number was given out, and a row
\* is marked as redacted exactly if it is.
THEOREM TypeCorrect == Spec => []TypeOK
<1>1. TableInv => TypeOK
  BY DEF TableInv
<1> QED
  BY <1>1, TableInit, TableStep, PTL DEF Spec

---------------------------------------------------------------------------
(* The chain. *)

\* A link depends on a row's neighbours only, which a commit leaves as they are.
LEMMA CommitKeepsLinks ==
    ASSUME TableInv, NEW w \in Writers, Commit(w), NEW s \in rows
    PROVE  LinkSound(s)' <=> LinkSound(s)
<1>1. PICK n \in Row : rows' = rows \cup {n} /\ \A r \in rows : r.seq < n.seq
  BY CommitExtends
<1>2. \A r \in rows' : r.seq \in Nat
  BY <1>1 DEF TableInv, TypeOK, Row
<1>3. \A r \in rows : Follows(s, r)' <=> Follows(s, r)
  BY <1>1, <1>2 DEF Follows
<1>4. ~Follows(s, n)'
  BY <1>1, <1>2 DEF Follows
<1>5. (\A r \in rows' : s.seq <= r.seq) <=> (\A r \in rows : s.seq <= r.seq)
  BY <1>1, <1>2
<1> QED
  BY <1>1, <1>3, <1>4, <1>5 DEF LinkSound

\* So does an erasure.
LEMMA ErasureKeepsLinks ==
    ASSUME TableInv, Erasure, NEW s \in rows, NEW q \in rows', SameRow(q, s)
    PROVE  LinkSound(q)' <=> LinkSound(s)
<1>1. /\ \A r \in rows : \E t \in rows' : SameRow(t, r)
      /\ \A t \in rows' : \E r \in rows : SameRow(t, r)
  BY ErasureKeeps DEF TableInv
<1>2. \A r \in rows, t \in rows' : SameRow(t, r) => (Follows(q, t)' <=> Follows(s, r))
  BY <1>1 DEF Follows, SameRow
<1>3. (\A t \in rows' : q.seq <= t.seq) <=> (\A r \in rows : s.seq <= r.seq)
  BY <1>1 DEF SameRow
<1>4. (\A t \in rows' : Follows(q, t)' => q.prev = t.hash)
        <=> (\A r \in rows : Follows(s, r) => s.prev = r.hash)
  BY <1>1, <1>2 DEF SameRow
<1> QED
  BY <1>3, <1>4 DEF LinkSound, SameRow

\* The row a commit adds follows the newest of the others and carries its hash.
LEMMA CommitLinks ==
    ASSUME TableInv, NEW w \in Writers, Commit(w), NEW n, n = NewRow(w)
    PROVE  LinkSound(n)'
<1>1. /\ rows' = rows \cup {n} /\ n \in Row
      /\ \A r \in rows : r.seq < n.seq
      /\ n.prev = HeadHash
  BY CommitExtends
<1>2. \A r \in rows' : r.seq \in Nat
  BY <1>1 DEF TableInv, TypeOK, Row
<1>3. ASSUME NEW r \in rows', Follows(n, r)' PROVE n.prev = r.hash
  <2>1. r \in rows /\ Newest(r)
    BY <1>1, <1>2, <1>3 DEF Follows, Newest
  <2> QED
    BY <1>1, <2>1, HeadIsNewest DEF TableInv, RowsInv, TypeOK, Row, Newest, HeadHash
<1>4. ASSUME \A r \in rows' : n.seq <= r.seq PROVE n.prev = NoHash
  <2>1. rows = {}
    BY <1>1, <1>2, <1>4
  <2> QED
    BY <1>1, <2>1, HeadOfNothing
<1> QED
  BY <1>3, <1>4 DEF LinkSound

LEMMA ChainStep ==
    ASSUME TableInv, ChainInv, [Next]_vars
    PROVE  ChainInv'
<1> USE DEF ChainInv, ChainHolds
<1>1. ASSUME NEW w \in Writers, Commit(w) PROVE ChainInv'
  <2> PICK n : n = NewRow(w)
    OBVIOUS
  <2>1. /\ rows' = rows \cup {n}
        /\ n.hash = Append(HeadHash, w) /\ n.prev = HeadHash
    BY <1>1, CommitExtends
  <2>2. n.hash # NoHash /\ n.hash = Hash(n.prev, n.entry)
    <3>1. HeadHash \in Seq(Contents) /\ w \in Contents
      BY HeadType DEF TableInv, Contents
    <3> QED
      BY <2>1, <3>1, AppendProperties DEF Hash, NoHash, NewRow
  <2>3. LinkSound(n)' /\ \A s \in rows : LinkSound(s)' <=> LinkSound(s)
    BY <1>1, CommitLinks, CommitKeepsLinks
  <2>4. gone' = gone
    BY <1>1 DEF Commit
  <2> QED
    BY <2>1, <2>2, <2>3, <2>4 DEF Orphaned
<1>2. ASSUME Erasure PROVE ChainInv'
  <2>1. SUFFICES ASSUME NEW q \in rows', q.fixed
                 PROVE  /\ LinkSound(q)' /\ q.hash # NoHash
                        /\ ~q.redacted => \/ q.hash = Hash(q.prev, q.entry)
                                          \/ q.entry = Nobody /\ Orphaned(q)'
    OBVIOUS
  <2>2. PICK r \in rows : SameRow(q, r) /\ Remains(q, r)
    BY <1>2, ErasureKeeps DEF TableInv
  <2>3. LinkSound(q)' <=> LinkSound(r)
    BY <1>2, <2>2, ErasureKeepsLinks
  <2>4. LinkSound(r) /\ r.hash # NoHash
    BY <2>1, <2>2 DEF SameRow
  <2>5. ASSUME ~q.redacted
        PROVE  q.hash = Hash(q.prev, q.entry) \/ (q.entry = Nobody /\ Orphaned(q)')
    <3>1. r.hash = Hash(r.prev, r.entry) \/ (r.entry = Nobody /\ Orphaned(r))
      BY <2>1, <2>2, <2>5 DEF SameRow
    <3>2. gone \subseteq gone'
      BY <1>2, ErasureOfRows
    <3>3. CASE q.entry = r.entry
      BY <2>2, <3>1, <3>2, <3>3 DEF SameRow, Orphaned
    <3>4. CASE r.entry \in Contents /\ Author[r.entry] \in gone' /\ q.entry = Nobody
      BY <2>2, <3>1, <3>2, <3>4 DEF SameRow, Orphaned
    <3> QED
      BY <2>2, <2>5, <3>3, <3>4 DEF Remains
  <2> QED
    BY <2>2, <2>3, <2>4, <2>5 DEF SameRow
<1>3. ASSUME UNCHANGED <<rows, gone>> PROVE ChainInv'
  BY <1>3 DEF LinkSound, Follows, Orphaned
<1> QED
  BY <1>1, <1>2, <1>3
     DEF Next, Erasure, vars, chainVars, WriteStep, BeginWrite, TakeLock, ReadPrevious, Insert, Rollback,
         Anchoring, ReadHead, PutAnchor, PutLatest, AnchorFails, Walk, StartWalk, Feed, EndWalk

\* The chain never forks: however many calls write at once and whichever are rolled back, a row
\* of version 2 carries the hash of the row numbered before it, and its own hash covers what it
\* holds until personal data is removed, or its author's name by the deletion of an account
\* (writeAuditLog, lib/db/audit.ts:475).
THEOREM ChainNeverForks == Spec => []ChainHolds
<1>1. Init => ChainInv
  BY LegacyAssumption DEF Init, ChainInv, ChainHolds, LegacyRow
<1>2. ChainInv => ChainHolds
  BY DEF ChainInv
<1> QED
  BY <1>1, <1>2, TableInit, TableStep, ChainStep, PTL DEF Spec

---------------------------------------------------------------------------
(* The checks of the chain. *)

LEMMA AnchorStep ==
    ASSUME TableInv, AnchorInv, [Next]_vars
    PROVE  AnchorInv'
<1> USE DEF AnchorInv, AnchorMatches, Covered, chainVars, writeVars, walkVars, anchorVars
<1>0. jpc \in [Anchorers -> {"idle", "put", "latest"}]
  BY DEF TableInv, TypeOK
<1>1. ASSUME \A r \in rows : \E q \in rows' : q.seq = r.seq /\ q.hash = r.hash,
             UNCHANGED anchorVars
      PROVE  AnchorInv'
  BY <1>1
<1>2. ASSUME NEW w \in Writers, Commit(w) PROVE AnchorInv'
  <2>1. rows \subseteq rows'
    BY <1>2 DEF Commit
  <2> QED
    BY <1>1, <1>2, <2>1 DEF Commit
<1>3. ASSUME Erasure PROVE AnchorInv'
  <2>1. \A r \in rows : \E q \in rows' : q.seq = r.seq /\ q.hash = r.hash
    BY <1>3, ErasureKeeps DEF TableInv, SameRow
  <2> QED
    BY <1>1, <1>3, <2>1, ErasureOfRows
<1>4. ASSUME NEW j \in Anchorers, ReadHead(j) PROVE AnchorInv'
  <2>1. /\ UNCHANGED <<rows, anchored, latest>>
        /\ jpc' = [jpc EXCEPT ![j] = "put"]
        /\ \E r \in rows : head' = [head EXCEPT ![j] = [seq |-> r.seq, hash |-> r.hash]]
    BY <1>4 DEF ReadHead, JobAt
  <2>2. \A k \in Anchorers \ {j} : jpc'[k] = jpc[k] /\ head'[k] = head[k]
    BY <2>1
  <2>3. jpc'[j] = "put" /\ Covered(head[j])'
    BY <1>0, <2>1 DEF TableInv, TypeOK
  <2> QED
    BY <1>0, <2>1, <2>2, <2>3
<1>5. ASSUME NEW j \in Anchorers, PutAnchor(j) PROVE AnchorInv'
  BY <1>0, <1>5 DEF PutAnchor, JobAt
<1>6. ASSUME NEW j \in Anchorers, PutLatest(j) PROVE AnchorInv'
  BY <1>0, <1>6 DEF PutLatest, JobAt
<1>7. ASSUME NEW j \in Anchorers, AnchorFails(j) PROVE AnchorInv'
  BY <1>0, <1>7 DEF AnchorFails
<1>8. ASSUME UNCHANGED <<rows, anchorVars>> PROVE AnchorInv'
  BY <1>8
<1> QED
  BY <1>2, <1>3, <1>4, <1>5, <1>6, <1>7, <1>8
     DEF Next, Erasure, vars, WriteStep, BeginWrite, TakeLock, ReadPrevious, Insert, Rollback, Anchoring,
         Walk, StartWalk, Feed, EndWalk

\* What a walk has passed stays as it was: a sound link is one to the row the walk stands at.
LEMMA WalkStep ==
    ASSUME TableInv, ChainInv, WalkInv, [Next]_vars
    PROVE  WalkInv'
<1> USE DEF WalkInv, chainVars, writeVars, walkVars, anchorVars
<1>1. ASSUME NEW w \in Writers, Commit(w) PROVE WalkInv'
  <2>1. rows \subseteq rows' /\ UNCHANGED <<gone, walkVars>>
    BY <1>1 DEF Commit
  <2>2. \A s \in rows : LinkSound(s)' <=> LinkSound(s)
    BY <1>1, CommitKeepsLinks
  <2> QED
    BY <2>1, <2>2 DEF BreakIsKnown, Orphaned
<1>2. ASSUME Erasure PROVE WalkInv'
  <2>1. /\ UNCHANGED walkVars /\ gone \subseteq gone'
        /\ \A r \in rows : \E q \in rows' : SameRow(q, r)
    BY <1>2, ErasureKeeps, ErasureOfRows DEF TableInv
  <2>2. \A r \in rows, q \in rows' : SameRow(q, r) => (LinkSound(q)' <=> LinkSound(r))
    BY <1>2, ErasureKeepsLinks
  <2>3. \A r \in rows, q \in rows' : SameRow(q, r) /\ Orphaned(r) => Orphaned(q)'
    BY <2>1 DEF SameRow, Orphaned
  <2> QED
    BY <2>1, <2>2, <2>3 DEF BreakIsKnown, SameRow
<1>3. ASSUME NEW r \in rows, Feed(r) PROVE WalkInv'
  <2>1. LinkSound(r) => r.prev = last
    <3>0. vpc = "walk" /\ NextRow(r) /\ \A s \in rows : s.seq \in Nat \ {0}
      BY <1>3 DEF Feed, TableInv, TypeOK, Row
    <3>1. CASE after = 0 /\ last = NoHash
      <4>1. \A s \in rows : r.seq <= s.seq
        BY <3>0, <3>1 DEF NextRow
      <4> QED
        BY <3>1, <4>1 DEF LinkSound
    <3>2. ASSUME NEW a \in rows, a.seq = after, a.hash = last PROVE LinkSound(r) => r.prev = last
      <4>1. Follows(r, a)
        BY <3>0, <3>2 DEF Follows, NextRow
      <4> QED
        BY <3>2, <4>1 DEF LinkSound
    <3> QED
      BY <3>0, <3>1, <3>2
  <2>2. CASE Breaks(r)
    <3>1. vpc' = "broken" /\ brokenAt' = r.seq /\ rows' = rows
      BY <1>3, <2>2 DEF Feed
    <3>2. \/ r.fixed /\ Orphaned(r)
          \/ ~r.fixed /\ r.redacted /\ (r.hash = NoHash \/ ~LinkSound(r))
      BY <2>1, <2>2 DEF Breaks, ChainInv, ChainHolds
    <3>3. (LinkSound(r)' <=> LinkSound(r)) /\ (Orphaned(r)' <=> Orphaned(r))
      BY <1>3, <3>1 DEF LinkSound, Follows, Orphaned, Feed
    <3> QED
      BY <3>1, <3>2, <3>3 DEF BreakIsKnown
  <2>3. CASE ~Breaks(r)
    BY <1>3, <2>3 DEF Feed, BreakIsKnown
  <2> QED
    BY <2>2, <2>3
<1>4. ASSUME StartWalk PROVE WalkInv'
  BY <1>4 DEF StartWalk, BreakIsKnown
<1>5. ASSUME EndWalk PROVE WalkInv'
  BY <1>5 DEF EndWalk, BreakIsKnown
<1>6. ASSUME UNCHANGED <<rows, gone, walkVars>> PROVE WalkInv'
  BY <1>6 DEF BreakIsKnown, LinkSound, Follows, Orphaned
<1> QED
  BY <1>1, <1>2, <1>3, <1>4, <1>5, <1>6
     DEF Next, Erasure, vars, WriteStep, BeginWrite, TakeLock, ReadPrevious, Insert, Rollback, Anchoring,
         ReadHead, PutAnchor, PutLatest, AnchorFails, Walk

\* What the checks take for tampering though the application did it: a walk amid writes and
\* erasures breaks only at a row of before version 2 that had no hash or a wrong link and was
\* anonymised, or at a row whose author's account was deleted (verifyAuditChain); the latest
\* anchor always matches (checkAuditAnchor).
THEOREM ChecksHold == Spec => []FalseAlarmsAreKnown
<1>1. Init => ChainInv /\ WalkInv /\ AnchorInv
  BY LegacyAssumption
     DEF Init, ChainInv, ChainHolds, LegacyRow, WalkInv, BreakIsKnown, AnchorInv, AnchorMatches
<1>2. TableInv /\ ChainInv /\ WalkInv /\ AnchorInv /\ [Next]_vars
        => ChainInv' /\ WalkInv' /\ AnchorInv'
  BY ChainStep, WalkStep, AnchorStep
<1>3. WalkInv /\ AnchorInv => FalseAlarmsAreKnown
  BY DEF WalkInv, AnchorInv, FalseAlarmsAreKnown
<1> QED
  BY <1>1, <1>2, <1>3, TableInit, TableStep, PTL DEF Spec

---------------------------------------------------------------------------
(* The log. *)

\* What the head covers: entries of before version 2, and of calls that have ended.
LEMMA HeadCovers ==
    ASSUME TableInv, CoverInv
    PROVE  \A i \in DOMAIN HeadHash :
              HeadHash[i] \in OldEntries \/ apc[HeadHash[i]] \in {"done", "failed"}
<1>1. CASE rows = {}
  BY <1>1, HeadOfNothing DEF NoHash
<1>2. CASE rows # {}
  <2>1. PICK r \in rows : Newest(r)
    BY <1>2 DEF TableInv, RowsInv
  <2>2. HeadHash = r.hash
    BY <2>1, HeadIsNewest DEF TableInv, RowsInv, TypeOK, Row, Newest, HeadHash
  <2> QED
    BY <2>2 DEF CoverInv
<1> QED
  BY <1>1, <1>2

LEMMA CoverStep ==
    ASSUME TableInv, CoverInv, [Next]_vars
    PROVE  CoverInv'
<1> USE DEF CoverInv
<1>0. /\ apc \in [Writers -> Steps]
      /\ \A r \in rows : \A i \in DOMAIN r.hash : r.hash[i] \in Writers \cup OldEntries
  BY LenProperties, ElementOfSeq DEF TableInv, TypeOK, Row, Contents
<1>1. ASSUME \A v \in Writers : apc[v] \in {"done", "failed"} => apc'[v] = apc[v],
             \A q \in rows' : \E r \in rows : q.hash = r.hash
      PROVE  CoverInv'
  BY <1>0, <1>1
<1>2. ASSUME NEW w \in Writers, Commit(w) PROVE CoverInv'
  <2>1. PICK n : rows' = rows \cup {n} /\ n.hash = Append(HeadHash, w)
    BY <1>2, CommitExtends
  <2>2. HeadHash \in Seq(Contents) /\ w \in Contents
    BY HeadType DEF TableInv, Contents
  <2>3. apc'[w] \in {"done", "failed"} /\ \A v \in Writers \ {w} : apc'[v] = apc[v]
    BY <1>0, <1>2 DEF Commit, Goto
  <2>4. \A i \in DOMAIN n.hash : n.hash[i] \in OldEntries \/ apc'[n.hash[i]] \in {"done", "failed"}
    <3>1. SUFFICES ASSUME NEW i \in DOMAIN n.hash
                   PROVE  n.hash[i] \in OldEntries \/ apc'[n.hash[i]] \in {"done", "failed"}
      OBVIOUS
    <3>2. i = Len(HeadHash) + 1 \/ i \in 1 .. Len(HeadHash)
      BY <2>1, <2>2, <3>1, AppendProperties, LenProperties
    <3>3. CASE i = Len(HeadHash) + 1
      BY <2>1, <2>2, <2>3, <3>3, AppendProperties
    <3>4. CASE i \in 1 .. Len(HeadHash)
      <4>1. n.hash[i] = HeadHash[i] /\ i \in DOMAIN HeadHash /\ HeadHash[i] \in Contents
        BY <2>1, <2>2, <3>4, AppendProperties, LenProperties, ElementOfSeq
      <4> QED
        BY <2>3, <4>1, HeadCovers DEF Contents
    <3> QED
      BY <3>2, <3>3, <3>4
  <2>5. \A r \in rows : \A i \in DOMAIN r.hash :
            r.hash[i] \in OldEntries \/ apc'[r.hash[i]] \in {"done", "failed"}
    BY <1>0, <2>3
  <2> QED
    BY <2>1, <2>4, <2>5
<1>3. ASSUME Erasure PROVE CoverInv'
  <2>1. apc' = apc
    BY <1>3, ErasureOfRows DEF writeVars
  <2>2. \A q \in rows' : \E r \in rows : q.hash = r.hash
    BY <1>3, ErasureKeeps DEF TableInv, SameRow
  <2> QED
    BY <1>1, <2>1, <2>2
<1>4. ASSUME NEW w \in Writers, BeginWrite(w) PROVE CoverInv'
  BY <1>0, <1>1, <1>4 DEF BeginWrite, Goto, chainVars
<1>5. ASSUME NEW w \in Writers, TakeLock(w) PROVE CoverInv'
  BY <1>0, <1>1, <1>5 DEF TakeLock, Goto, chainVars
<1>6. ASSUME NEW w \in Writers, ReadPrevious(w) PROVE CoverInv'
  BY <1>0, <1>1, <1>6 DEF ReadPrevious, Goto, chainVars
<1>7. ASSUME NEW w \in Writers, Insert(w) PROVE CoverInv'
  BY <1>0, <1>1, <1>7 DEF Insert, Goto
<1>8. ASSUME NEW w \in Writers, Rollback(w) PROVE CoverInv'
  BY <1>0, <1>1, <1>8 DEF Rollback, Goto, chainVars
<1>9. ASSUME UNCHANGED <<rows, apc>> PROVE CoverInv'
  BY <1>9
<1> QED
  BY <1>2, <1>3, <1>4, <1>5, <1>6, <1>7, <1>8, <1>9
     DEF Next, Erasure, vars, chainVars, writeVars, WriteStep, Anchoring, ReadHead, PutAnchor, PutLatest,
         AnchorFails, Walk, StartWalk, Feed, EndWalk

\* Every step is a step of the log or leaves it alone: beginning a call asks, a commit writes.
LEMMA LogStep ==
    ASSUME TableInv, CoverInv, [Next]_vars
    PROVE  [Log!Next]_Log!logVars
<1> DEFINE Asked == {w \in Writers : apc[w] # "idle"}
           Told == {w \in Writers : apc[w] = "done"}
<1>0. apc \in [Writers -> Steps]
  BY DEF TableInv, TypeOK
<1>1. ASSUME NEW w \in Writers, BeginWrite(w) PROVE Log!Ask(w)
  <2>1. HeadHash' = HeadHash
    BY <1>1 DEF BeginWrite, HeadHash, chainVars
  <2>2. Asked' = Asked \cup {w} /\ Told' = Told /\ w \notin Asked
    BY <1>0, <1>1 DEF BeginWrite, Goto
  <2> QED
    BY <2>1, <2>2 DEF Log!Ask
<1>2. ASSUME NEW w \in Writers, Commit(w) PROVE Log!Write(w)
  <2>1. HeadHash' = Append(HeadHash, w)
    BY <1>2, CommitMovesHead
  <2>2. Asked' = Asked /\ Told' \in {Told, Told \cup {w}} /\ w \in Asked
    BY <1>0, <1>2 DEF Commit, Goto
  <2>3. \A i \in DOMAIN HeadHash : HeadHash[i] # w
    BY <1>2, HeadCovers, EntryAssumption DEF Commit
  <2> QED
    BY <2>1, <2>2, <2>3 DEF Log!Write
<1>3. ASSUME Erasure PROVE UNCHANGED Log!logVars
  BY <1>3, ErasureKeepsHead, ErasureOfRows DEF Log!logVars, writeVars
<1>4. ASSUME NEW w \in Writers, TakeLock(w) \/ ReadPrevious(w) \/ Insert(w) \/ Rollback(w)
      PROVE  UNCHANGED Log!logVars
  <2>1. HeadHash' = HeadHash
    BY <1>4 DEF TakeLock, ReadPrevious, Insert, Rollback, HeadHash, chainVars
  <2>2. Asked' = Asked /\ Told' = Told
    BY <1>0, <1>4 DEF TakeLock, ReadPrevious, Insert, Rollback, Goto
  <2> QED
    BY <2>1, <2>2 DEF Log!logVars
<1>5. ASSUME UNCHANGED <<rows, apc>> PROVE UNCHANGED Log!logVars
  BY <1>5 DEF Log!logVars, HeadHash
<1> QED
  BY <1>1, <1>2, <1>3, <1>4, <1>5
     DEF Next, Erasure, vars, chainVars, writeVars, WriteStep, Anchoring, ReadHead, PutAnchor, PutLatest,
         AnchorFails, Walk, StartWalk, Feed, EndWalk, Log!Next, Entries

\* The trail is an append-only log: entries are added at its end, once each and never removed,
\* and a caller who is told of success finds its entry covered by every later head.
THEOREM ImplementsAppendOnlyLog == Spec => ImplementsLog
<1>1. Init => CoverInv
  <2>1. \A seq \in Seq(OldEntries) : \A i \in DOMAIN seq : seq[i] \in OldEntries
    BY LenProperties, ElementOfSeq
  <2> QED
    BY <2>1, LegacyAssumption DEF Init, CoverInv, LegacyRow
<1>2. Init => Log!Init
  BY DEF Init, Log!Init, HeadHash
<1>3. TableInv /\ CoverInv /\ [Next]_vars => CoverInv' /\ [Log!Next]_Log!logVars
  BY CoverStep, LogStep
<1> QED
  BY <1>1, <1>2, <1>3, TableInit, TableStep, PTL DEF Spec, ImplementsLog, Log!Spec
=============================================================================
