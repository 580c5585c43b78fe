---------------------------- MODULE DraftSync_proofs ----------------------------
(***************************************************************************)
(* Proofs about DraftSync and the FieldSubmission it is composed with, for  *)
(* any captures, forms, requests and reviewers.                            *)
(*                                                                         *)
(* The argument: a step leaves every row's decision alone, or takes one     *)
(* undecided row and makes its record (Rewritten, Approved), or adds a row  *)
(* under a key nobody has (Added). Of the phone: a draft is being sent      *)
(* exactly when a client waits, that client's request is about the draft,   *)
(* and what it is answered is still true when the answer is read.           *)
(***************************************************************************)
EXTENDS DraftSync, FiniteSetTheorems, SequenceTheorems, TLAPS

\* The requests and the phone agree on what is under way.
TalkInv ==
    /\ \A p, q \in awaited : p = q
    /\ \A q \in awaited : spc[q] # "idle" /\ draft[sent[q].key].status = "syncing"
                          /\ draft[sent[q].key].from = sent[q].from
    /\ \A k \in Keys : draft[k].status = "syncing" => \E q \in awaited : sent[q].key = k
    /\ \A q \in Senders : spc[q] \in Replies => q \in awaited
    /\ \A q \in Senders : spc[q] # "idle" => sent[q] \in Body /\ sent[q].from <= Len(rows)
    /\ \A k \in Keys : draft[k].from <= Len(rows)
    /\ \A k \in Keys : draft[k].status \in {"pending", "syncing"} => draft[k].attempts < MaxAttempts

\* An answer that makes the phone forget a new capture is given when the server has it.
LandInv ==
    /\ \A q \in Senders : spc[q] \in {"link", "ok"} => Taken(sent[q].key)
    /\ \A q \in Senders : spc[q] = "conflict" => sent[q].from # 0
    /\ CapturesLand /\ OneRowPerKey

\* Records are of approved rows, one of each, and of forms that were checked.
Recorded(i) == \E n \in DOMAIN records : records[n].row = i
ReviewInv ==
    /\ \A r \in Reviewers : rpc[r] = "approve" => \A job \in todo[r] : job.form \in Approvable
    /\ RecordsPassedTheCheck
    /\ \A i \in DOMAIN rows : rows[i].status = "approved" <=> Recorded(i)
    /\ \A m, n \in DOMAIN records : records[m].row = records[n].row => m = n

SyncInv == TypeOK /\ TalkInv /\ LandInv /\ ReviewInv


---------------------------------------------------------------------------
(* What a step does to the rows and the records. *)

Same(i) == rows'[i].key = rows[i].key /\ rows'[i].from = rows[i].from
Rewritten ==   \* forms, files and undecided states change
    /\ rows' \in Seq(Row) /\ DOMAIN rows' = DOMAIN rows /\ UNCHANGED records
    /\ \A i \in DOMAIN rows :
          /\ Same(i)
          /\ Decided(i) => rows'[i].status = rows[i].status
          /\ rows'[i].status = "approved" => rows[i].status = "approved"
Added(q) ==    \* a row is created
    /\ spc[q] = "create" /\ ~Taken(sent[q].key) /\ UNCHANGED records
    /\ rows' = Append(rows, NewRow(sent[q])) /\ rows' \in Seq(Row)
    /\ Len(rows') = Len(rows) + 1 /\ \A i \in 1 .. Len(rows) : rows'[i] = rows[i]
    /\ rows'[Len(rows) + 1] = NewRow(sent[q])
Approved(i) == \* a row is approved, and its record is made
    /\ ~Decided(i) /\ rows' \in Seq(Row) /\ DOMAIN rows' = DOMAIN rows
    /\ rows'[i].status = "approved"
    /\ \A j \in DOMAIN rows : Same(j) /\ (j # i => rows'[j].status = rows[j].status)
    /\ \E form \in Approvable : records' = Append(records, [row |-> i, form |-> form])

LEMMA RowSet ==
    ASSUME rows \in Seq(Row), NEW i \in DOMAIN rows, NEW row \in Row,
           rows' = [rows EXCEPT ![i] = row]
    PROVE  /\ rows' \in Seq(Row) /\ DOMAIN rows' = DOMAIN rows /\ rows'[i] = row
           /\ \A j \in DOMAIN rows : j # i => rows'[j] = rows[j]
<1>1. DOMAIN rows = 1 .. Len(rows)
  BY LenProperties
<1>2. rows' \in Seq(Row)
  BY <1>1, ExceptSeq
<1> QED
  BY <1>1, <1>2

LEMMA RowsMapped ==
    ASSUME rows \in Seq(Row), rows' \in [DOMAIN rows -> Row]
    PROVE  rows' \in Seq(Row) /\ DOMAIN rows' = DOMAIN rows
<1>1. Len(rows) \in Nat /\ DOMAIN rows = 1 .. Len(rows)
  BY LenProperties
<1>2. rows' \in [1 .. Len(rows) -> Row]
  BY <1>1
<1> QED
  BY <1>1, <1>2

LEMMA CapturedFormType == \A k \in Keys : CapturedForm(k) \in Forms
BY CapturedAssumption DEF CapturedForm, Keys

LEMMA AddedTyped ==
    ASSUME TypeOK, TalkInv, NEW q \in Senders, CreateRow(q), rows' # rows
    PROVE  Added(q)
<1>1. /\ spc[q] = "create" /\ ~Taken(sent[q].key) /\ UNCHANGED records
      /\ rows' = Append(rows, NewRow(sent[q]))
  BY DEF CreateRow
<1>2. sent[q] \in Body
  BY <1>1 DEF TalkInv
<1>3. NewRow(sent[q]) \in Row
  BY <1>2, CapturedFormType DEF NewRow, Row, Body, Statuses
<1>4. rows \in Seq(Row)
  BY DEF TypeOK, ServerTypeOK
<1> HIDE DEF NewRow
<1> QED
  BY <1>1, <1>3, <1>4, AppendProperties DEF Added

LEMMA RowSteps ==
    ASSUME TypeOK, TalkInv, ReviewInv, [Next]_vars
    PROVE  \/ Rewritten
           \/ \E q \in Senders : Added(q)
           \/ \E i \in DOMAIN rows : Approved(i)
<1> DEFINE Goal == \/ Rewritten
                   \/ \E q \in Senders : Added(q)
                   \/ \E i \in DOMAIN rows : Approved(i)
<1>1. rows \in Seq(Row) /\ \A i \in DOMAIN rows : rows[i] \in Row
  BY LenProperties, ElementOfSeq DEF TypeOK, ServerTypeOK
<1>2. \A r \in Reviewers : \A job \in todo[r] :
         job.row \in DOMAIN rows /\ (job.write /\ rpc[r] = "approve" => job.form \in Forms)
  BY FormAssumption DEF TypeOK, ServerTypeOK, ReviewInv
<1>3. UNCHANGED <<rows, records>> => Rewritten
  BY <1>1 DEF Rewritten, Same
<1>4. ASSUME NEW q \in Senders, CreateRow(q) PROVE Goal
  <2>1. CASE rows' = rows
    BY <1>3, <1>4, <2>1 DEF CreateRow
  <2>2. CASE rows' # rows
    BY <1>4, <2>2, AddedTyped
  <2> QED
    BY <2>1, <2>2
<1>5. ASSUME NEW q \in Senders, LinkFiles(q) PROVE Rewritten
  <2>1. /\ UNCHANGED records /\ rows' \in [DOMAIN rows -> Row]
        /\ \A i \in DOMAIN rows : Same(i) /\ rows'[i].status = rows[i].status
    BY <1>1, <1>5 DEF LinkFiles, Row, Same
  <2> QED
    BY <1>1, <2>1, RowsMapped DEF Rewritten
<1>6. ASSUME NEW r \in Reviewers, ApproveSubmission(r) PROVE Goal
  <2>1. CASE UNCHANGED <<rows, records>>
    BY <1>3, <2>1
  <2>2. CASE ~UNCHANGED <<rows, records>>
    <3>1. PICK job \in todo[r] :
             /\ ~Decided(job.row)
             /\ rows' = [rows EXCEPT ![job.row].status = "approved",
                                     ![job.row].form = IF job.write THEN job.form ELSE @]
             /\ records' = Append(records, [row |-> job.row, form |-> job.form])
      BY <1>6, <2>2 DEF ApproveSubmission
    <3>2. job.form \in Approvable /\ job.form \in Forms /\ job.row \in DOMAIN rows
      BY <1>2, <1>6, FormAssumption DEF ApproveSubmission, ReviewInv
    <3> DEFINE row == [rows[job.row] EXCEPT !.status = "approved",
                                            !.form = IF job.write THEN job.form ELSE @]
    <3>3. rows' = [rows EXCEPT ![job.row] = row]
      BY <1>1, <3>1, <3>2
    <3>4. row \in Row /\ row.status = "approved" /\ row.key = rows[job.row].key
          /\ row.from = rows[job.row].from
      BY <1>1, <3>2 DEF Row, Statuses
    <3> HIDE DEF row
    <3>5. /\ rows' \in Seq(Row) /\ DOMAIN rows' = DOMAIN rows /\ rows'[job.row] = row
          /\ \A j \in DOMAIN rows : j # job.row => rows'[j] = rows[j]
      BY <1>1, <3>2, <3>3, <3>4, RowSet
    <3>6. Approved(job.row)
      BY <3>1, <3>2, <3>4, <3>5 DEF Approved, Same
    <3> QED
      BY <3>2, <3>6
  <2> QED
    BY <2>1, <2>2
<1>7. ASSUME NEW r \in Reviewers, Decide(r) PROVE Rewritten
  <2>1. PICK i \in {job.row : job \in todo[r]}, outcome \in {"rejected", "needs_info"},
             form \in Forms :
          rows' = IF Decided(i) THEN rows
                  ELSE [rows EXCEPT ![i].status = outcome, ![i].form = form]
    BY <1>7 DEF Decide
  <2>2. i \in DOMAIN rows /\ UNCHANGED records
    BY <1>2, <1>7 DEF Decide
  <2>3. CASE Decided(i)
    BY <1>3, <2>1, <2>2, <2>3
  <2>4. CASE ~Decided(i)
    <3> DEFINE row == [rows[i] EXCEPT !.status = outcome, !.form = form]
    <3>1. rows' = [rows EXCEPT ![i] = row]
      BY <1>1, <2>1, <2>2, <2>4
    <3>2. row \in Row /\ row.status # "approved" /\ row.key = rows[i].key
          /\ row.from = rows[i].from
      BY <1>1, <2>2 DEF Row, Statuses
    <3> HIDE DEF row
    <3>3. /\ rows' \in Seq(Row) /\ DOMAIN rows' = DOMAIN rows /\ rows'[i] = row
          /\ \A j \in DOMAIN rows : j # i => rows'[j] = rows[j]
      BY <1>1, <2>2, <3>1, <3>2, RowSet
    <3> QED
      BY <2>2, <2>4, <3>2, <3>3 DEF Rewritten, Same
  <2> QED
    BY <2>3, <2>4
<1>8. ASSUME NEW r \in Reviewers, RejectAll(r) PROVE Rewritten
  <2>1. /\ UNCHANGED records /\ rows' \in [DOMAIN rows -> Row]
        /\ \A i \in DOMAIN rows :
              /\ Same(i)
              /\ Decided(i) => rows'[i].status = rows[i].status
              /\ rows'[i].status = "approved" => rows[i].status = "approved"
    BY <1>1, <1>8 DEF RejectAll, Row, Same, Statuses
  <2> QED
    BY <1>1, <2>1, RowsMapped DEF Rewritten
<1>9. ASSUME NEW r \in Reviewers, EditRow(r) PROVE Rewritten
  <2>1. PICK i \in {job.row : job \in todo[r]}, form \in Forms :
          rows' = [rows EXCEPT ![i].form = form]
    BY <1>9 DEF EditRow
  <2>2. i \in DOMAIN rows /\ UNCHANGED records
    BY <1>2, <1>9 DEF EditRow
  <2> DEFINE row == [rows[i] EXCEPT !.form = form]
  <2>3. rows' = [rows EXCEPT ![i] = row]
    BY <1>1, <2>1, <2>2
  <2>4. row \in Row /\ row.status = rows[i].status /\ row.key = rows[i].key
        /\ row.from = rows[i].from
    BY <1>1, <2>2 DEF Row
  <2> HIDE DEF row
  <2>5. /\ rows' \in Seq(Row) /\ DOMAIN rows' = DOMAIN rows /\ rows'[i] = row
        /\ \A j \in DOMAIN rows : j # i => rows'[j] = rows[j]
    BY <1>1, <2>2, <2>3, <2>4, RowSet
  <2> QED
    BY <2>2, <2>4, <2>5 DEF Rewritten, Same
<1>10. ASSUME NEW q \in Senders, Serve(q), ~CreateRow(q), ~LinkFiles(q)
       PROVE  UNCHANGED <<rows, records>>
  BY <1>10 DEF Serve, LookUp, TurnDown, FailRequest
<1>11. ASSUME NEW r \in Reviewers, Review(r), ~ApproveSubmission(r), ~Decide(r), ~RejectAll(r),
              ~EditRow(r)
       PROVE  UNCHANGED <<rows, records>>
  BY <1>11 DEF Review, OpenApproval, OpenBulkApproval, OpenDecision, OpenBulkRejection, OpenEdit,
         Open, EndReview
<1>12. ASSUME NEW k \in Keys, Phone(k) PROVE UNCHANGED <<rows, records>>
  BY <1>12 DEF Phone, Capture, LoseConnection, RetryDraft, StartDraft, ReadReply, Request,
         EndRequest, Abandon, serverVars
<1>13. RestartApp => UNCHANGED <<rows, records>>
  BY DEF RestartApp, Abandon
<1>14. UNCHANGED vars => UNCHANGED <<rows, records>>
  BY DEF vars
<1> QED
  BY <1>3, <1>4, <1>5, <1>6, <1>7, <1>8, <1>9, <1>10, <1>11, <1>12, <1>13, <1>14
     DEF Next, ServerNext

---------------------------------------------------------------------------
(* What a step does to the requests. *)

TakenNext(key) == \E i \in DOMAIN rows' : rows'[i].key = key

LEMMA SameInterval ==
    ASSUME NEW a \in Nat, NEW b \in Nat, 1 .. a = 1 .. b
    PROVE  a <= b
<1>1. CASE a = 0
  BY <1>1
<1>2. CASE a # 0
  <2>1. a \in 1 .. b
    BY <1>2
  <2> QED
    BY <2>1
<1> QED
  BY <1>1, <1>2

LEMMA RowsKept ==
    ASSUME TypeOK, TalkInv, ReviewInv, [Next]_vars
    PROVE  /\ rows' \in Seq(Row) /\ Len(rows) \in Nat /\ Len(rows') \in Nat
           /\ Len(rows) <= Len(rows') /\ DOMAIN rows \subseteq DOMAIN rows'
           /\ DOMAIN rows = 1 .. Len(rows) /\ DOMAIN rows' = 1 .. Len(rows')
           /\ \A i \in DOMAIN rows : Same(i) /\ (Decided(i) => rows'[i].status = rows[i].status)
           /\ \A key : Taken(key) => TakenNext(key)
<1>1. Rewritten \/ (\E q \in Senders : Added(q)) \/ (\E i \in DOMAIN rows : Approved(i))
  BY RowSteps
<1>2. rows \in Seq(Row) /\ rows' \in Seq(Row)
  BY <1>1 DEF TypeOK, ServerTypeOK, Rewritten, Added, Approved
<1>3. /\ Len(rows) \in Nat /\ DOMAIN rows = 1 .. Len(rows)
      /\ Len(rows') \in Nat /\ DOMAIN rows' = 1 .. Len(rows')
  BY <1>2, LenProperties
<1>4. Len(rows) <= Len(rows')
  <2>1. ASSUME DOMAIN rows' = DOMAIN rows PROVE Len(rows) <= Len(rows')
    BY <1>3, <2>1, SameInterval
  <2>2. ASSUME Len(rows') = Len(rows) + 1 PROVE Len(rows) <= Len(rows')
    BY <1>3, <2>2
  <2> QED
    BY <1>1, <2>1, <2>2 DEF Rewritten, Added, Approved
<1>5. DOMAIN rows \subseteq DOMAIN rows'
  BY <1>3, <1>4
<1>6. \A i \in DOMAIN rows : Same(i) /\ (Decided(i) => rows'[i].status = rows[i].status)
  BY <1>1, <1>3 DEF Rewritten, Added, Approved, Same, Decided
<1>7. \A key : Taken(key) => TakenNext(key)
  BY <1>5, <1>6 DEF Taken, TakenNext, Same
<1> QED
  BY <1>2, <1>3, <1>4, <1>5, <1>6, <1>7

\* A request in the server's hands goes on, or is answered; what the answer says is so.
Continued(q) ==
    \E step \in {"create", "link"} :
        /\ Goto(q, step) /\ UNCHANGED sent
        /\ step = "link" => TakenNext(sent[q].key)
Answered(q) ==
    \E reply \in Replies :
        /\ Answer(q, reply)
        /\ reply = "ok" => TakenNext(sent[q].key)
        /\ reply = "conflict" => sent[q].from # 0

LEMMA ServeSteps ==
    ASSUME SyncInv, NEW q \in Senders, Serve(q), UNCHANGED draft
    PROVE  /\ spc[q] \in {"lookup", "create", "link"} /\ UNCHANGED awaited
           /\ Continued(q) \/ Answered(q)
<1>1. [Next]_vars
  BY DEF Next, ServerNext
<1>2. \A key : Taken(key) => TakenNext(key)
  BY <1>1, RowsKept DEF SyncInv
<1>3. ASSUME LookUp(q) PROVE Continued(q) \/ Answered(q)
  <2>1. CASE sent[q].from \notin {0} \cup Correctable
    BY <1>3, <2>1 DEF LookUp, Answered, Replies
  <2>2. CASE sent[q].from \in {0} \cup Correctable /\ Taken(sent[q].key)
    BY <1>2, <1>3, <2>2 DEF LookUp, Answered, Replies
  <2>3. CASE sent[q].from \in {0} \cup Correctable /\ ~Taken(sent[q].key)
    BY <1>3, <2>3 DEF LookUp, Continued
  <2> QED
    BY <2>1, <2>2, <2>3
<1>4. ASSUME TurnDown(q) PROVE Answered(q)
  BY <1>4 DEF TurnDown, Answered, Replies
<1>5. ASSUME CreateRow(q) PROVE Continued(q) \/ Answered(q)
  <2>1. CASE Taken(sent[q].key)
    BY <1>2, <1>5, <2>1 DEF CreateRow, Answered, Replies
  <2>2. CASE ~Taken(sent[q].key)
    <3>1. Added(q)
      <4>1. rows' # rows
        BY <1>5, <2>2, AppendProperties DEF CreateRow, SyncInv, TypeOK, ServerTypeOK
      <4> QED
        BY <1>5, <4>1, AddedTyped DEF SyncInv
    <3>2. TakenNext(sent[q].key)
      <4>1. rows' \in Seq(Row) /\ Len(rows) \in Nat /\ Len(rows') = Len(rows) + 1
            /\ rows'[Len(rows) + 1] = NewRow(sent[q])
        BY <3>1, LenProperties DEF Added, SyncInv, TypeOK, ServerTypeOK
      <4>2. Len(rows) + 1 \in DOMAIN rows'
        BY <4>1, LenProperties
      <4> QED
        BY <4>1, <4>2 DEF TakenNext, NewRow
    <3>3. CASE sent[q].from = 0
      BY <1>5, <2>2, <3>2, <3>3 DEF CreateRow, Continued
    <3>4. CASE sent[q].from # 0
      BY <1>5, <2>2, <3>2, <3>4 DEF CreateRow, Answered, Replies
    <3> QED
      BY <3>3, <3>4
  <2> QED
    BY <2>1, <2>2
<1>6. ASSUME LinkFiles(q) PROVE Answered(q)
  <2>1. TakenNext(sent[q].key)
    BY <1>2, <1>6 DEF LinkFiles, SyncInv, LandInv
  <2> QED
    BY <1>6, <2>1 DEF LinkFiles, Answered, Replies
<1>7. ASSUME FailRequest(q) PROVE Answered(q)
  BY <1>7 DEF FailRequest, Answered, Replies
<1> QED
  BY <1>3, <1>4, <1>5, <1>6, <1>7 DEF Serve, LookUp, TurnDown, CreateRow, LinkFiles, FailRequest

LEMMA TalkStep ==
    ASSUME SyncInv, [Next]_vars
    PROVE  TalkInv'
<1>1. /\ spc \in [Senders -> {"idle", "lookup", "create", "link"} \cup Replies]
      /\ sent \in [Senders -> Body \cup {NoBody}] /\ awaited \subseteq Senders
      /\ draft \in [Keys -> [status : {"none", "pending", "syncing", "submitted", "failed"},
                             attempts : 0 .. MaxAttempts, from : Nat, reason : BOOLEAN]]
  BY DEF SyncInv, TypeOK, ServerTypeOK
<1>2. Len(rows) \in Nat /\ Len(rows') \in Nat /\ Len(rows) <= Len(rows')
      /\ DOMAIN rows = 1 .. Len(rows)
  BY RowsKept DEF SyncInv
<1>3. /\ \A p, q \in awaited : p = q
      /\ \A q \in awaited : spc[q] # "idle" /\ draft[sent[q].key].status = "syncing"
                            /\ draft[sent[q].key].from = sent[q].from
      /\ \A k \in Keys : draft[k].status = "syncing" => \E q \in awaited : sent[q].key = k
      /\ \A q \in Senders : spc[q] \in Replies => q \in awaited
      /\ \A q \in Senders : spc[q] # "idle" => sent[q] \in Body /\ sent[q].from <= Len(rows)
      /\ \A k \in Keys : draft[k].from <= Len(rows)
      /\ \A k \in Keys : draft[k].status \in {"pending", "syncing"} =>
            draft[k].attempts < MaxAttempts
  BY DEF SyncInv, TalkInv
<1>4. /\ MaxAttempts \in Nat \ {0}
      /\ \A q \in Senders : sent[q] \in Body => sent[q].key \in Keys /\ sent[q].from \in Nat
  BY PhoneAssumption DEF Body
<1>5. ASSUME NEW q \in Senders, Serve(q), UNCHANGED draft PROVE TalkInv'
  <2>1. /\ spc[q] \in {"lookup", "create", "link"} /\ UNCHANGED awaited
        /\ Continued(q) \/ Answered(q)
    BY <1>5, ServeSteps
  <2>2. CASE Continued(q)
    BY <1>1, <1>2, <1>3, <1>4, <1>5, <2>1, <2>2 DEF TalkInv, Continued, Goto, Replies
  <2>3. CASE Answered(q) /\ q \in awaited
    <3>1. PICK reply \in Replies : spc' = [spc EXCEPT ![q] = reply] /\ UNCHANGED sent
      BY <2>3 DEF Answered, Answer, Goto
    <3> QED
      BY <1>1, <1>2, <1>3, <1>4, <1>5, <2>1, <2>3, <3>1 DEF TalkInv, Replies
  <2>4. CASE Answered(q) /\ q \notin awaited
    <3>1. spc' = [spc EXCEPT ![q] = "idle"] /\ sent' = [sent EXCEPT ![q] = NoBody]
      BY <2>4 DEF Answered, Answer, Goto
    <3> QED
      BY <1>1, <1>2, <1>3, <1>4, <1>5, <2>1, <2>4, <3>1 DEF TalkInv, Replies
  <2> QED
    BY <2>1, <2>2, <2>3, <2>4
<1>6. ASSUME UNCHANGED <<spc, sent, awaited, draft>> PROVE TalkInv'
  BY <1>1, <1>2, <1>3, <1>4, <1>6 DEF TalkInv
<1>7. ASSUME NEW r \in Reviewers, Review(r) PROVE UNCHANGED <<spc, sent, awaited>>
  BY <1>7 DEF Review, OpenApproval, OpenBulkApproval, OpenDecision, OpenBulkRejection, OpenEdit,
         Open, ApproveSubmission, Decide, RejectAll, EditRow, EndReview
<1>8. ASSUME NEW k \in Keys, Capture(k) PROVE TalkInv'
  <2>1. PICK from \in {0} \cup Correctable :
           draft' = [draft EXCEPT ![k] = [NoDraft EXCEPT !.status = "pending", !.from = from]]
    BY <1>8 DEF Capture, Write
  <2>2. from \in Nat /\ from <= Len(rows) /\ draft[k].status = "none"
    BY <1>2, <1>8, <2>1 DEF Correctable, Capture
  <2> QED
    BY <1>1, <1>2, <1>3, <1>4, <1>8, <2>1, <2>2 DEF Capture, serverVars, NoDraft, TalkInv
<1>9. ASSUME NEW k \in Keys, NEW q \in Senders, StartDraft(k, q) PROVE TalkInv'
  <2>1. PICK photo \in BOOLEAN :
          sent' = [sent EXCEPT ![q] = [key |-> k, from |-> draft[k].from, photo |-> photo]]
    BY <1>9, PhoneAssumption DEF StartDraft, Request
  <2>2. /\ \A j \in Keys : draft[j].status # "syncing"
        /\ draft[k].status = "pending" /\ draft' = [draft EXCEPT ![k].status = "syncing"]
        /\ spc[q] = "idle" /\ spc' = [spc EXCEPT ![q] = "lookup"] /\ awaited' = {q}
    BY <1>1, <1>9 DEF StartDraft, Request, Write, Goto, Syncing
  <2>3. sent'[q] \in Body /\ sent'[q].key = k /\ sent'[q].from = draft[k].from
    BY <1>1, <2>1 DEF Body
  <2>4. \A p \in Senders : p # q => sent'[p] = sent[p] /\ spc'[p] = spc[p]
    BY <1>1, <2>1, <2>2
  <2>5. awaited = {}
    BY <1>1, <1>3, <1>4, <2>2
  <2>6. \A p \in Senders : p # q => spc[p] \notin Replies
    BY <1>3, <2>5
  <2> QED
    BY <1>1, <1>2, <1>3, <1>4, <1>9, <2>2, <2>3, <2>4, <2>6 DEF TalkInv, Replies
<1>10. ASSUME NEW k \in Keys, NEW q \in Senders, ReadReply(k, q) PROVE TalkInv'
  <2>1. /\ q \in awaited /\ spc[q] \in Replies /\ draft[k].status = "syncing"
        /\ awaited' = {} /\ spc' = [spc EXCEPT ![q] = "idle"] /\ sent' = [sent EXCEPT ![q] = NoBody]
    BY <1>3, <1>10 DEF ReadReply, EndRequest, Goto
  <2>2. sent[q].key = k /\ \A j \in Keys : j # k => draft[j].status # "syncing"
    BY <1>3, <2>1
  <2>3. /\ draft'[k].status \in {"submitted", "failed", "pending"} /\ draft'[k].from = draft[k].from
        /\ draft'[k].status = "pending" => draft'[k].attempts < MaxAttempts
        /\ \A j \in Keys : j # k => draft'[j] = draft[j]
    BY <1>1, <1>3, <1>4, <1>10 DEF ReadReply, Write, Outcome, Retry, Replies
  <2>4. \A p \in Senders : p # q => sent'[p] = sent[p] /\ spc'[p] = spc[p]
    BY <1>1, <2>1
  <2>5. \A p \in Senders : p # q => spc[p] \notin Replies
    BY <1>3, <2>1
  <2>6. spc'[q] = "idle"
    BY <1>1, <2>1
  <2>7. \A j \in Keys : draft'[j].status # "syncing" /\ draft'[j].from = draft[j].from
    BY <2>2, <2>3
  <2>8. \A j \in Keys : draft'[j].status = "pending" => draft'[j].attempts < MaxAttempts
    BY <1>3, <2>3
  <2>9. \A p \in Senders : /\ spc'[p] \notin Replies
                           /\ spc'[p] # "idle" => sent'[p] \in Body /\ sent'[p].from <= Len(rows)
    BY <1>3, <2>4, <2>5, <2>6 DEF Replies
  <2> QED
    BY <1>1, <1>2, <1>3, <1>4, <2>1, <2>7, <2>8, <2>9 DEF TalkInv
<1>11. ASSUME Abandon,
              \A k \in Keys : /\ draft'[k].status # "syncing" /\ draft'[k].from = draft[k].from
                              /\ draft'[k].status = "pending" =>
                                    draft'[k].attempts < MaxAttempts
       PROVE  TalkInv'
  <2>1. /\ awaited' = {}
        /\ \A p \in Senders : IF spc[p] \in Replies THEN spc'[p] = "idle"
                              ELSE spc'[p] = spc[p] /\ sent'[p] = sent[p]
    BY <1>11 DEF Abandon
  <2> QED
    BY <1>1, <1>2, <1>3, <1>4, <1>11, <2>1 DEF TalkInv, Replies
<1>12. ASSUME NEW k \in Keys, LoseConnection(k) PROVE TalkInv'
  <2>1. \A j \in Keys : j # k => draft'[j] = draft[j] /\ draft[j].status # "syncing"
    BY <1>1, <1>3, <1>4, <1>12 DEF LoseConnection, Write
  <2>2. /\ draft'[k].status \in {"failed", "pending"} /\ draft'[k].from = draft[k].from
        /\ draft'[k].status = "pending" => draft'[k].attempts < MaxAttempts
    BY <1>1, <1>3, <1>4, <1>12 DEF LoseConnection, Write, Retry
  <2> QED
    BY <1>3, <1>11, <1>12, <2>1, <2>2 DEF LoseConnection
<1>13. ASSUME RestartApp PROVE TalkInv'
  <2>1. \A j \in Keys : /\ draft'[j].status # "syncing" /\ draft'[j].from = draft[j].from
                        /\ draft'[j].status = "pending" => draft'[j].attempts < MaxAttempts
    BY <1>1, <1>3, <1>13 DEF RestartApp, Syncing
  <2> QED
    BY <1>11, <1>13, <2>1 DEF RestartApp
<1>14. ASSUME NEW k \in Keys, RetryDraft(k) PROVE TalkInv'
  <2>1. /\ draft[k].status = "failed" /\ draft'[k].status = "pending"
        /\ draft'[k].from = draft[k].from /\ draft'[k].attempts = 0
        /\ \A j \in Keys : j # k => draft'[j] = draft[j]
        /\ UNCHANGED <<spc, sent, awaited, rows>>
    BY <1>1, <1>14 DEF RetryDraft, Write, serverVars
  <2>2. \A q \in awaited : sent[q].key \in Keys /\ sent[q].key # k
    BY <1>1, <1>3, <1>4, <2>1
  <2>3. \A j \in Keys : /\ draft'[j].from <= Len(rows)
                        /\ draft'[j].status \in {"pending", "syncing"} =>
                              draft'[j].attempts < MaxAttempts
    BY <1>3, <1>4, <2>1
  <2>4. \A j \in Keys : draft'[j].status = "syncing" => \E q \in awaited : sent[q].key = j
    BY <1>3, <2>1
  <2>5. \A q \in awaited : spc[q] # "idle" /\ draft'[sent[q].key].status = "syncing"
                           /\ draft'[sent[q].key].from = sent[q].from
    BY <1>3, <2>1, <2>2
  <2> QED
    BY <1>3, <2>1, <2>3, <2>4, <2>5 DEF TalkInv
<1>15. UNCHANGED vars => UNCHANGED <<spc, sent, awaited, draft>>
  BY DEF vars
<1> QED
  BY <1>5, <1>6, <1>7, <1>8, <1>9, <1>10, <1>12, <1>13, <1>14, <1>15
     DEF Next, ServerNext, Phone

LEMMA OneRowStep ==
    ASSUME SyncInv, [Next]_vars
    PROVE  OneRowPerKey'
<1>1. Rewritten \/ (\E q \in Senders : Added(q)) \/ (\E i \in DOMAIN rows : Approved(i))
  BY RowSteps DEF SyncInv
<1>2. \A i, j \in DOMAIN rows : rows[i].key = rows[j].key => i = j
  BY DEF SyncInv, LandInv, OneRowPerKey
<1>3. CASE DOMAIN rows' = DOMAIN rows /\ \A i \in DOMAIN rows : Same(i)
  BY <1>2, <1>3 DEF OneRowPerKey, Same
<1>4. ASSUME NEW q \in Senders, Added(q) PROVE OneRowPerKey'
  <2>1. /\ DOMAIN rows = 1 .. Len(rows) /\ DOMAIN rows' = 1 .. Len(rows) + 1 /\ Len(rows) \in Nat
        /\ \A i \in 1 .. Len(rows) : rows'[i] = rows[i]
        /\ rows'[Len(rows) + 1].key = sent[q].key
    BY <1>4, RowsKept DEF SyncInv, Added, NewRow
  <2>2. \A i \in DOMAIN rows : rows[i].key # sent[q].key
    BY <1>4 DEF Added, Taken
  <2>3. \A i \in DOMAIN rows' : i \in DOMAIN rows \/ i = Len(rows) + 1
    BY <2>1
  <2> QED
    BY <1>2, <2>1, <2>2, <2>3 DEF OneRowPerKey
<1> QED
  BY <1>1, <1>3, <1>4 DEF Rewritten, Approved

LEMMA LandStep ==
    ASSUME SyncInv, [Next]_vars
    PROVE  LandInv'
<1>1. /\ spc \in [Senders -> {"idle", "lookup", "create", "link"} \cup Replies]
      /\ sent \in [Senders -> Body \cup {NoBody}] /\ awaited \subseteq Senders
      /\ draft \in [Keys -> [status : {"none", "pending", "syncing", "submitted", "failed"},
                             attempts : 0 .. MaxAttempts, from : Nat, reason : BOOLEAN]]
  BY DEF SyncInv, TypeOK, ServerTypeOK
<1>2. \A key : Taken(key) => TakenNext(key)
  BY RowsKept DEF SyncInv
<1>3. /\ \A q \in Senders : spc[q] \in {"link", "ok"} => TakenNext(sent[q].key)
      /\ \A q \in Senders : spc[q] = "conflict" => sent[q].from # 0
      /\ \A k \in Keys : draft[k].status = "submitted" /\ draft[k].from = 0 => TakenNext(k)
  BY <1>2 DEF SyncInv, LandInv, CapturesLand
<1>4. OneRowPerKey'
  BY OneRowStep
<1> DEFINE Answers == /\ \A q \in Senders : spc'[q] \in {"link", "ok"} => TakenNext(sent'[q].key)
                      /\ \A q \in Senders : spc'[q] = "conflict" => sent'[q].from # 0
           Landed == \A k \in Keys : draft'[k].status = "submitted" /\ draft'[k].from = 0 =>
                        TakenNext(k)
<1>5. Answers /\ Landed => LandInv'
  BY <1>4 DEF LandInv, CapturesLand, Taken, TakenNext
<1>6. UNCHANGED draft => Landed
  BY <1>3
<1>7. UNCHANGED <<spc, sent>> => Answers
  BY <1>3
<1>8. ASSUME NEW q \in Senders, Serve(q), UNCHANGED draft PROVE Answers
  <2>1. Continued(q) \/ Answered(q)
    BY <1>8, ServeSteps
  <2>2. CASE Continued(q)
    BY <1>1, <1>3, <2>2 DEF Continued, Goto
  <2>3. CASE Answered(q) /\ q \in awaited
    <3>1. PICK reply \in Replies :
            /\ spc' = [spc EXCEPT ![q] = reply] /\ UNCHANGED sent
            /\ reply = "ok" => TakenNext(sent[q].key)
            /\ reply = "conflict" => sent[q].from # 0
      BY <2>3 DEF Answered, Answer, Goto
    <3> QED
      BY <1>1, <1>3, <3>1 DEF Replies
  <2>4. CASE Answered(q) /\ q \notin awaited
    <3>1. spc' = [spc EXCEPT ![q] = "idle"] /\ sent' = [sent EXCEPT ![q] = NoBody]
      BY <2>4 DEF Answered, Answer, Goto
    <3> QED
      BY <1>1, <1>3, <3>1
  <2> QED
    BY <2>1, <2>2, <2>3, <2>4
<1>9. ASSUME NEW r \in Reviewers, Review(r) PROVE UNCHANGED <<spc, sent>>
  BY <1>9 DEF Review, OpenApproval, OpenBulkApproval, OpenDecision, OpenBulkRejection, OpenEdit,
         Open, ApproveSubmission, Decide, RejectAll, EditRow, EndReview
<1>10. ASSUME Abandon PROVE Answers
  BY <1>1, <1>3, <1>10 DEF Abandon, Replies
<1>11. ASSUME NEW k \in Keys, Capture(k) PROVE Answers /\ Landed
  BY <1>1, <1>3, <1>11 DEF Capture, Write, NoDraft, serverVars
<1>12. ASSUME NEW k \in Keys, LoseConnection(k) PROVE Answers /\ Landed
  BY <1>1, <1>3, <1>10, <1>12 DEF LoseConnection, Write, Retry
<1>13. ASSUME NEW k \in Keys, RetryDraft(k) PROVE Answers /\ Landed
  BY <1>1, <1>3, <1>13 DEF RetryDraft, Write, serverVars
<1>14. ASSUME NEW k \in Keys, NEW q \in Senders, StartDraft(k, q) PROVE Answers /\ Landed
  <2>1. /\ \A p \in Senders : p # q => sent'[p] = sent[p] /\ spc'[p] = spc[p]
        /\ spc'[q] = "lookup" /\ draft' = [draft EXCEPT ![k].status = "syncing"]
    BY <1>1, <1>14 DEF StartDraft, Request, Write, Goto
  <2> QED
    BY <1>1, <1>3, <2>1
<1>15. ASSUME NEW k \in Keys, NEW q \in Senders, ReadReply(k, q) PROVE Answers /\ Landed
  <2>1. /\ \A p \in Senders : p # q => sent'[p] = sent[p] /\ spc'[p] = spc[p]
        /\ spc'[q] = "idle" /\ spc[q] \in Replies /\ draft[k].status = "syncing"
    BY <1>1, <1>15 DEF ReadReply, EndRequest, Goto
  <2>2. sent[q].key = k /\ sent[q].from = draft[k].from
    BY <2>1 DEF SyncInv, TalkInv
  <2>3. /\ \A j \in Keys : j # k => draft'[j] = draft[j]
        /\ draft'[k].from = draft[k].from
        /\ draft'[k].status = "submitted" => spc[q] \in {"ok", "conflict"}
    BY <1>1, <1>15, <2>1 DEF ReadReply, Write, Outcome, Retry, Replies
  <2>4. Answers
    BY <1>3, <2>1
  <2>5. Landed
    BY <1>3, <2>1, <2>2, <2>3
  <2> QED
    BY <2>4, <2>5
<1>16. RestartApp => Answers /\ Landed
  BY <1>1, <1>3, <1>10 DEF RestartApp
<1>17. UNCHANGED vars => UNCHANGED <<spc, sent, draft>>
  BY DEF vars
<1> HIDE DEF Answers, Landed
<1> QED
  BY <1>5, <1>6, <1>7, <1>8, <1>9, <1>11, <1>12, <1>13, <1>14, <1>15, <1>16, <1>17
     DEF Next, ServerNext, Phone

---------------------------------------------------------------------------
(* What a step does to the reviews. *)

Jobs == [row : DOMAIN rows, form : Forms \cup {NoForm}, write : BOOLEAN]
Reviewed(r) ==
    \E step \in {"idle", "approve", "decide", "reject", "edit"}, jobs \in SUBSET Jobs :
        /\ rpc' = [rpc EXCEPT ![r] = step] /\ todo' = [todo EXCEPT ![r] = jobs]
        /\ step = "approve" => \A job \in jobs : job.form \in Approvable

LEMMA ReviewSteps ==
    ASSUME TypeOK, ReviewInv, NEW r \in Reviewers, Review(r)
    PROVE  Reviewed(r) /\ UNCHANGED <<spc, sent, awaited>>
<1>1. /\ rpc \in [Reviewers -> {"idle", "approve", "decide", "reject", "edit"}]
      /\ todo \in [Reviewers -> SUBSET [row : Nat, form : Forms \cup {NoForm}, write : BOOLEAN]]
      /\ \A job \in todo[r] : job.row \in DOMAIN rows
      /\ \A i \in DOMAIN rows : rows[i] \in Row
      /\ rpc[r] = "approve" => \A job \in todo[r] : job.form \in Approvable
  BY LenProperties, ElementOfSeq DEF TypeOK, ServerTypeOK, ReviewInv
<1>2. todo[r] \in SUBSET Jobs /\ {} \in SUBSET Jobs
  BY <1>1 DEF Jobs
<1>3. ASSUME NEW step \in {"approve", "decide", "reject", "edit"}, NEW jobs \in SUBSET Jobs,
             Open(r, step, jobs),
             step = "approve" => \A job \in jobs : job.form \in Approvable
      PROVE  Reviewed(r)
  BY <1>3 DEF Open, Reviewed
<1>4. ASSUME NEW i \in DOMAIN rows, NEW form \in Forms \cup {NoForm}, NEW write \in BOOLEAN
      PROVE  Job(i, form, write) \in Jobs /\ Job(i, form, write).form = form
  BY <1>4 DEF Job, Jobs
<1>5. Close(r) => Reviewed(r)
  BY <1>2 DEF Close, Reviewed
<1>6. ASSUME OpenApproval(r) PROVE Reviewed(r)
  <2>1. PICK i \in DOMAIN rows, form \in Approvable, write \in BOOLEAN :
          Open(r, "approve", {Job(i, form, write)})
    BY <1>6 DEF OpenApproval, Undecided
  <2>2. Job(i, form, write) \in Jobs /\ Job(i, form, write).form = form
    BY <1>4, FormAssumption
  <2> QED
    BY <1>3, <2>1, <2>2
<1>7. ASSUME OpenBulkApproval(r) PROVE Reviewed(r)
  <2>1. PICK ids \in SUBSET BulkRows :
          Open(r, "approve",
               {Job(i, rows[i].form, FALSE) : i \in {j \in ids : rows[j].form \in Approvable}})
    BY <1>7 DEF OpenBulkApproval
  <2> DEFINE jobs == {Job(i, rows[i].form, FALSE) : i \in {j \in ids : rows[j].form \in Approvable}}
  <2>2. \A i \in ids : i \in DOMAIN rows /\ rows[i].form \in Forms
    BY <1>1 DEF BulkRows, Row
  <2>3. ASSUME NEW job \in jobs PROVE job \in Jobs /\ job.form \in Approvable
    <3>1. PICK i \in ids : rows[i].form \in Approvable /\ job = Job(i, rows[i].form, FALSE)
      OBVIOUS
    <3> QED
      BY <1>4, <2>2, <3>1
  <2> HIDE DEF jobs
  <2>4. jobs \in SUBSET Jobs
    BY <2>3
  <2>5. Open(r, "approve", jobs)
    BY <2>1 DEF jobs
  <2> QED
    BY <1>3, <2>3, <2>4, <2>5
<1>8. ASSUME OpenDecision(r) \/ OpenEdit(r) PROVE Reviewed(r)
  <2>1. PICK i \in DOMAIN rows, step \in {"decide", "edit"} :
          Open(r, step, {Job(i, NoForm, FALSE)})
    BY <1>8 DEF OpenDecision, OpenEdit, Undecided
  <2>2. {Job(i, NoForm, FALSE)} \in SUBSET Jobs
    BY <1>4
  <2>3. step \in {"approve", "decide", "reject", "edit"} /\ step # "approve"
    OBVIOUS
  <2> HIDE DEF Job
  <2> QED
    BY <1>3, <2>1, <2>2, <2>3
<1>9. ASSUME OpenBulkRejection(r) PROVE Reviewed(r)
  <2>1. PICK ids \in SUBSET BulkRows : Open(r, "reject", {Job(i, NoForm, FALSE) : i \in ids})
    BY <1>9 DEF OpenBulkRejection
  <2> DEFINE jobs == {Job(i, NoForm, FALSE) : i \in ids}
  <2>2. \A job \in jobs : job \in Jobs
    BY <1>4 DEF BulkRows
  <2> HIDE DEF jobs
  <2>3. jobs \in SUBSET Jobs
    BY <2>2
  <2>4. Open(r, "reject", jobs)
    BY <2>1 DEF jobs
  <2> QED
    BY <1>3, <2>3, <2>4
<1>10. ASSUME ApproveSubmission(r) PROVE Reviewed(r)
  <2>1. PICK job \in todo[r] : Done(r, job)
    BY <1>10 DEF ApproveSubmission
  <2>2. CASE todo[r] = {job}
    BY <1>5, <2>1, <2>2 DEF Done
  <2>3. CASE todo[r] # {job}
    <3>1. /\ rpc' = [rpc EXCEPT ![r] = "approve"]
          /\ todo' = [todo EXCEPT ![r] = todo[r] \ {job}]
      BY <1>1, <1>10, <2>1, <2>3 DEF Done, ApproveSubmission
    <3>2. todo[r] \ {job} \in SUBSET Jobs
      BY <1>2
    <3>3. \A other \in todo[r] \ {job} : other.form \in Approvable
      BY <1>1, <1>10 DEF ApproveSubmission
    <3> QED
      BY <3>1, <3>2, <3>3 DEF Reviewed
  <2> QED
    BY <2>2, <2>3
<1>11. ASSUME Decide(r) \/ RejectAll(r) \/ EditRow(r) \/ EndReview(r) PROVE Reviewed(r)
  BY <1>5, <1>11 DEF Decide, RejectAll, EditRow, EndReview
<1>12. UNCHANGED <<spc, sent, awaited>>
  BY DEF Review, OpenApproval, OpenBulkApproval, OpenDecision, OpenBulkRejection, OpenEdit,
         Open, ApproveSubmission, Decide, RejectAll, EditRow, EndReview
<1> QED
  BY <1>6, <1>7, <1>8, <1>9, <1>10, <1>11, <1>12 DEF Review

LEMMA ReviewersSteps ==
    ASSUME TypeOK, ReviewInv, [Next]_vars
    PROVE  UNCHANGED <<rpc, todo>> \/ \E r \in Reviewers : Reviewed(r)
<1>1. ASSUME NEW q \in Senders, Serve(q) PROVE UNCHANGED <<rpc, todo>>
  BY <1>1 DEF Serve, LookUp, TurnDown, CreateRow, LinkFiles, FailRequest, reviewVars
<1>2. ASSUME NEW k \in Keys, Phone(k) PROVE UNCHANGED <<rpc, todo>>
  BY <1>2 DEF Phone, Capture, LoseConnection, RetryDraft, StartDraft, ReadReply, Request,
         EndRequest, Abandon, serverVars, reviewVars
<1>3. RestartApp => UNCHANGED <<rpc, todo>>
  BY DEF RestartApp, Abandon, reviewVars
<1>4. UNCHANGED vars => UNCHANGED <<rpc, todo>>
  BY DEF vars
<1> QED
  BY <1>1, <1>2, <1>3, <1>4, ReviewSteps DEF Next, ServerNext

LEMMA RecordAdded ==
    ASSUME TypeOK, NEW i \in DOMAIN rows, Approved(i)
    PROVE  /\ DOMAIN records = 1 .. Len(records) /\ Len(records) \in Nat
           /\ DOMAIN records' = 1 .. Len(records) + 1
           /\ \A n \in 1 .. Len(records) : records'[n] = records[n]
           /\ records'[Len(records) + 1].row = i
           /\ records'[Len(records) + 1].form \in Approvable
           /\ records' \in Seq([row : Nat, form : Forms])
<1>1. PICK form \in Approvable : records' = Append(records, [row |-> i, form |-> form])
  BY DEF Approved
<1> DEFINE rec == [row |-> i, form |-> form]
<1>2. rec \in [row : Nat, form : Forms]
  BY FormAssumption, LenProperties DEF TypeOK, ServerTypeOK
<1>3. rec.row = i /\ rec.form \in Approvable /\ records' = Append(records, rec)
  BY <1>1
<1>4. records \in Seq([row : Nat, form : Forms])
  BY DEF TypeOK, ServerTypeOK
<1> HIDE DEF rec
<1>5. /\ records' \in Seq([row : Nat, form : Forms]) /\ Len(records') = Len(records) + 1
      /\ \A n \in 1 .. Len(records) : records'[n] = records[n]
      /\ records'[Len(records) + 1] = rec
  BY <1>2, <1>3, <1>4, AppendProperties
<1>6. /\ DOMAIN records = 1 .. Len(records) /\ Len(records) \in Nat
      /\ DOMAIN records' = 1 .. Len(records')
  BY <1>4, <1>5, LenProperties
<1> QED
  BY <1>3, <1>5, <1>6

LEMMA ReviewStep ==
    ASSUME SyncInv, [Next]_vars
    PROVE  ReviewInv'
<1>1. \A r \in Reviewers : rpc'[r] = "approve" => \A job \in todo'[r] : job.form \in Approvable
  <2>1. /\ \A r \in Reviewers : rpc[r] = "approve" => \A job \in todo[r] : job.form \in Approvable
        /\ rpc \in [Reviewers -> {"idle", "approve", "decide", "reject", "edit"}]
        /\ DOMAIN todo = Reviewers
    BY DEF SyncInv, ReviewInv, TypeOK, ServerTypeOK
  <2>2. CASE UNCHANGED <<rpc, todo>>
    BY <2>1, <2>2
  <2>3. ASSUME NEW r \in Reviewers, Reviewed(r)
        PROVE  \A s \in Reviewers : rpc'[s] = "approve" =>
                  \A job \in todo'[s] : job.form \in Approvable
    BY <2>1, <2>3 DEF Reviewed
  <2> QED
    BY <2>2, <2>3, ReviewersSteps DEF SyncInv
<1>2. Rewritten \/ (\E q \in Senders : Added(q)) \/ (\E i \in DOMAIN rows : Approved(i))
  BY RowSteps DEF SyncInv
<1>3. /\ \A n \in DOMAIN records : records[n].form \in Approvable /\ records[n].row \in DOMAIN rows
      /\ \A i \in DOMAIN rows : rows[i].status = "approved" <=> Recorded(i)
      /\ \A m, n \in DOMAIN records : records[m].row = records[n].row => m = n
  BY DEF SyncInv, TypeOK, ServerTypeOK, ReviewInv, RecordsPassedTheCheck
<1> DEFINE Rest == /\ \A n \in DOMAIN records' : records'[n].form \in Approvable
                   /\ \A i \in DOMAIN rows' : rows'[i].status = "approved" <=>
                         \E n \in DOMAIN records' : records'[n].row = i
                   /\ \A m, n \in DOMAIN records' : records'[m].row = records'[n].row => m = n
<1>4. Rest => ReviewInv'
  BY <1>1 DEF ReviewInv, RecordsPassedTheCheck, Recorded
<1>5. CASE Rewritten
  <2>1. \A i \in DOMAIN rows : rows'[i].status = "approved" <=> rows[i].status = "approved"
    BY <1>5 DEF Rewritten, Decided
  <2> QED
    BY <1>3, <1>4, <1>5, <2>1 DEF Rewritten, Recorded
<1>6. ASSUME NEW q \in Senders, Added(q) PROVE Rest
  <2>1. /\ DOMAIN rows = 1 .. Len(rows) /\ DOMAIN rows' = 1 .. Len(rows) + 1 /\ Len(rows) \in Nat
        /\ \A i \in 1 .. Len(rows) : rows'[i] = rows[i] /\ UNCHANGED records
        /\ rows'[Len(rows) + 1].status = "submitted"
    BY <1>6, RowsKept DEF SyncInv, Added, NewRow
  <2>2. UNCHANGED records
    BY <1>6 DEF Added
  <2>3. \A i \in DOMAIN rows' : i \in DOMAIN rows \/ i = Len(rows) + 1
    BY <2>1
  <2>4. Len(rows) + 1 \notin DOMAIN rows
    BY <2>1
  <2> QED
    BY <1>3, <2>1, <2>2, <2>3, <2>4 DEF Recorded
<1>7. ASSUME NEW i \in DOMAIN rows, Approved(i) PROVE Rest
  <2>1. /\ DOMAIN records = 1 .. Len(records) /\ Len(records) \in Nat
        /\ DOMAIN records' = 1 .. Len(records) + 1
        /\ \A n \in 1 .. Len(records) : records'[n] = records[n]
        /\ records'[Len(records) + 1].row = i
        /\ records'[Len(records) + 1].form \in Approvable
    BY <1>7, RecordAdded DEF SyncInv
  <2>2. \A n \in DOMAIN records : records[n].row # i
    BY <1>3, <1>7 DEF Approved, Decided, Recorded
  <2>3. \A n \in DOMAIN records' : n \in DOMAIN records \/ n = Len(records) + 1
    BY <2>1
  <2>4. \A n \in DOMAIN records : n \in DOMAIN records' /\ records'[n] = records[n]
    BY <2>1
  <2>5. Len(records) + 1 \in DOMAIN records'
    BY <2>1
  <2>6. /\ DOMAIN rows' = DOMAIN rows /\ rows'[i].status = "approved"
        /\ \A j \in DOMAIN rows : j # i => rows'[j].status = rows[j].status
    BY <1>7 DEF Approved
  <2>7. \A j \in DOMAIN rows' : rows'[j].status = "approved" <=>
           \E n \in DOMAIN records' : records'[n].row = j
    BY <1>3, <2>1, <2>3, <2>4, <2>5, <2>6 DEF Recorded
  <2>8. \A m, n \in DOMAIN records' : records'[m].row = records'[n].row => m = n
    BY <1>3, <2>1, <2>2, <2>3, <2>4
  <2> QED
    BY <1>3, <2>1, <2>3, <2>4, <2>7, <2>8
<1> HIDE DEF Rest
<1> QED
  BY <1>2, <1>4, <1>5, <1>6, <1>7

---------------------------------------------------------------------------
(* Type correctness, and the invariant. *)

AtMostOne(S) == \A x, y \in S : x = y

LEMMA CardinalityOfOne ==
    ASSUME NEW S, AtMostOne(S)
    PROVE  IsFiniteSet(S) /\ Cardinality(S) <= 1
<1>1. CASE S = {}
  BY <1>1, FS_EmptySet
<1>2. CASE S # {}
  <2>1. PICK x : x \in S
    BY <1>2
  <2>2. S = {x}
    BY <2>1 DEF AtMostOne
  <2>3. IsFiniteSet({x}) /\ Cardinality({x}) = 1
    BY FS_Singleton
  <2>4. IsFiniteSet(S) /\ Cardinality(S) = 1
    BY <2>2, <2>3, Zenon
  <2> QED
    BY <2>4
<1> QED
  BY <1>1, <1>2

LEMMA RowsTyped ==
    ASSUME SyncInv, [Next]_vars
    PROVE  rows' \in Seq(Row) /\ \A i \in DOMAIN rows' : rows'[i].from < i
<1>1. \A i \in DOMAIN rows : rows[i].from < i
  BY DEF SyncInv, TypeOK, ServerTypeOK
<1>2. /\ rows' \in Seq(Row) /\ Len(rows) \in Nat
      /\ DOMAIN rows = 1 .. Len(rows) /\ DOMAIN rows' = 1 .. Len(rows')
      /\ \A i \in DOMAIN rows : rows'[i].from = rows[i].from
  BY RowsKept DEF SyncInv, Same
<1>3. CASE DOMAIN rows' = DOMAIN rows
  BY <1>1, <1>2, <1>3
<1>4. ASSUME NEW q \in Senders, Added(q) PROVE \A i \in DOMAIN rows' : rows'[i].from < i
  <2>1. /\ Len(rows') = Len(rows) + 1 /\ rows'[Len(rows) + 1].from = sent[q].from
        /\ spc[q] # "idle"
    BY <1>4 DEF Added, NewRow
  <2>2. sent[q].from <= Len(rows) /\ sent[q].from \in Nat
    BY <2>1 DEF SyncInv, TalkInv, Body
  <2>3. \A i \in DOMAIN rows' : i \in DOMAIN rows \/ i = Len(rows) + 1
    BY <1>2, <2>1
  <2> QED
    BY <1>1, <1>2, <2>1, <2>2, <2>3
<1> QED
  BY <1>2, <1>3, <1>4, RowSteps DEF SyncInv, Rewritten, Approved

LEMMA RecordsTyped ==
    ASSUME SyncInv, [Next]_vars
    PROVE  /\ records' \in Seq([row : Nat, form : Forms])
           /\ \A n \in DOMAIN records' : records'[n].row \in DOMAIN rows'
<1>1. /\ records \in Seq([row : Nat, form : Forms])
      /\ \A n \in DOMAIN records : records[n].row \in DOMAIN rows
  BY DEF SyncInv, TypeOK, ServerTypeOK
<1>2. DOMAIN rows \subseteq DOMAIN rows'
  BY RowsKept DEF SyncInv
<1>3. CASE UNCHANGED records
  BY <1>1, <1>2, <1>3
<1>4. ASSUME NEW i \in DOMAIN rows, Approved(i)
      PROVE  /\ records' \in Seq([row : Nat, form : Forms])
             /\ \A n \in DOMAIN records' : records'[n].row \in DOMAIN rows'
  <2>1. /\ records' \in Seq([row : Nat, form : Forms])
        /\ DOMAIN records = 1 .. Len(records) /\ Len(records) \in Nat
        /\ DOMAIN records' = 1 .. Len(records) + 1
        /\ \A n \in 1 .. Len(records) : records'[n] = records[n]
        /\ records'[Len(records) + 1].row = i
    BY <1>4, RecordAdded DEF SyncInv
  <2>2. \A n \in DOMAIN records' : n \in DOMAIN records \/ n = Len(records) + 1
    BY <2>1
  <2> QED
    BY <1>1, <1>2, <2>1, <2>2
<1> QED
  BY <1>3, <1>4, RowSteps DEF SyncInv, Rewritten, Added

LEMMA RequestsTyped ==
    ASSUME SyncInv, [Next]_vars
    PROVE  /\ spc' \in [Senders -> {"idle", "lookup", "create", "link"} \cup Replies]
           /\ sent' \in [Senders -> Body \cup {NoBody}]
           /\ awaited' \subseteq Senders
<1>1. /\ spc \in [Senders -> {"idle", "lookup", "create", "link"} \cup Replies]
      /\ sent \in [Senders -> Body \cup {NoBody}] /\ awaited \subseteq Senders
      /\ \A k \in Keys : draft[k].from \in Nat
  BY DEF SyncInv, TypeOK, ServerTypeOK
<1> DEFINE Typed == /\ spc' \in [Senders -> {"idle", "lookup", "create", "link"} \cup Replies]
                    /\ sent' \in [Senders -> Body \cup {NoBody}]
                    /\ awaited' \subseteq Senders
<1>2. UNCHANGED <<spc, sent, awaited>> => Typed
  BY <1>1
<1>3. ASSUME NEW q \in Senders, Serve(q), UNCHANGED draft PROVE Typed
  <2>1. UNCHANGED awaited /\ (Continued(q) \/ Answered(q))
    BY <1>3, ServeSteps
  <2>2. CASE Continued(q)
    BY <1>1, <2>1, <2>2 DEF Continued, Goto
  <2>3. CASE Answered(q)
    BY <1>1, <2>1, <2>3 DEF Answered, Answer, Goto
  <2> QED
    BY <2>1, <2>2, <2>3
<1>4. ASSUME NEW r \in Reviewers, Review(r) PROVE UNCHANGED <<spc, sent, awaited>>
  BY <1>4, ReviewSteps DEF SyncInv
<1>5. Abandon => Typed
  BY <1>1 DEF Abandon
<1>6. ASSUME NEW k \in Keys, Capture(k) \/ RetryDraft(k) PROVE UNCHANGED <<spc, sent, awaited>>
  BY <1>6 DEF Capture, RetryDraft, serverVars
<1>7. ASSUME NEW k \in Keys, NEW q \in Senders, StartDraft(k, q) PROVE Typed
  <2>1. PICK photo \in BOOLEAN : Request(q, [key |-> k, from |-> draft[k].from, photo |-> photo])
    BY <1>7, PhoneAssumption DEF StartDraft
  <2>2. [key |-> k, from |-> draft[k].from, photo |-> photo] \in Body
    BY <1>1 DEF Body
  <2> QED
    BY <1>1, <2>1, <2>2 DEF Request, Goto
<1>8. ASSUME NEW k \in Keys, NEW q \in Senders, ReadReply(k, q) PROVE Typed
  BY <1>1, <1>8 DEF ReadReply, EndRequest, Goto
<1>9. UNCHANGED vars => UNCHANGED <<spc, sent, awaited>>
  BY DEF vars
<1> HIDE DEF Typed
<1>10. Typed
  BY <1>2, <1>3, <1>4, <1>5, <1>6, <1>7, <1>8, <1>9
     DEF Next, ServerNext, Phone, LoseConnection, RestartApp
<1> QED
  BY <1>10 DEF Typed

LEMMA ReviewersTyped ==
    ASSUME SyncInv, [Next]_vars
    PROVE  /\ rpc' \in [Reviewers -> {"idle", "approve", "decide", "reject", "edit"}]
           /\ todo' \in [Reviewers ->
                           SUBSET [row : Nat, form : Forms \cup {NoForm}, write : BOOLEAN]]
           /\ \A r \in Reviewers : \A job \in todo'[r] : job.row \in DOMAIN rows'
<1> DEFINE AnyJob == [row : Nat, form : Forms \cup {NoForm}, write : BOOLEAN]
<1>1. /\ rpc \in [Reviewers -> {"idle", "approve", "decide", "reject", "edit"}]
      /\ todo \in [Reviewers -> SUBSET AnyJob]
      /\ \A r \in Reviewers : \A job \in todo[r] : job.row \in DOMAIN rows
  BY DEF SyncInv, TypeOK, ServerTypeOK
<1>2. DOMAIN rows \subseteq DOMAIN rows' /\ DOMAIN rows \subseteq Nat
  BY RowsKept DEF SyncInv
<1>3. CASE UNCHANGED <<rpc, todo>>
  BY <1>1, <1>2, <1>3
<1>4. ASSUME NEW r \in Reviewers, Reviewed(r)
      PROVE  /\ rpc' \in [Reviewers -> {"idle", "approve", "decide", "reject", "edit"}]
             /\ todo' \in [Reviewers -> SUBSET AnyJob]
             /\ \A s \in Reviewers : \A job \in todo'[s] : job.row \in DOMAIN rows'
  <2>1. PICK step \in {"idle", "approve", "decide", "reject", "edit"}, jobs \in SUBSET Jobs :
          rpc' = [rpc EXCEPT ![r] = step] /\ todo' = [todo EXCEPT ![r] = jobs]
    BY <1>4 DEF Reviewed
  <2>2. jobs \subseteq AnyJob /\ \A job \in jobs : job.row \in DOMAIN rows
    BY <1>2 DEF Jobs
  <2> HIDE DEF AnyJob
  <2> QED
    BY <1>1, <1>2, <2>1, <2>2
<1> QED
  BY <1>3, <1>4, ReviewersSteps DEF SyncInv

LEMMA DraftsTyped ==
    ASSUME SyncInv, [Next]_vars
    PROVE  draft' \in [Keys -> [status : {"none", "pending", "syncing", "submitted", "failed"},
                                attempts : 0 .. MaxAttempts, from : Nat, reason : BOOLEAN]]
<1> DEFINE Draft == [status : {"none", "pending", "syncing", "submitted", "failed"},
                     attempts : 0 .. MaxAttempts, from : Nat, reason : BOOLEAN]
<1>1. draft \in [Keys -> Draft]
  BY DEF SyncInv, TypeOK
<1>2. \A k \in Keys : draft[k].status \in {"pending", "syncing"} => draft[k].attempts < MaxAttempts
  BY DEF SyncInv, TalkInv
<1>3. /\ MaxAttempts \in Nat /\ 0 \in 0 .. MaxAttempts /\ Correctable \subseteq Nat
      /\ \A n \in 0 .. MaxAttempts : n < MaxAttempts => n + 1 \in 0 .. MaxAttempts
  BY PhoneAssumption, RowsKept DEF SyncInv, Correctable
<1>4. ASSUME NEW k \in Keys, NEW row \in Draft, Write(k, row) PROVE draft' \in [Keys -> Draft]
  BY <1>1, <1>4 DEF Write
<1>5. ASSUME NEW k \in Keys, Capture(k) PROVE draft' \in [Keys -> Draft]
  <2>1. PICK from \in Nat : Write(k, [NoDraft EXCEPT !.status = "pending", !.from = from])
    BY <1>3, <1>5 DEF Capture
  <2>2. [NoDraft EXCEPT !.status = "pending", !.from = from] \in Draft
    BY <1>3 DEF NoDraft
  <2> QED
    BY <1>4, <2>1, <2>2
<1>6. ASSUME NEW k \in Keys, draft[k].status = "syncing" PROVE Retry(k) \in Draft
  BY <1>1, <1>2, <1>3, <1>6 DEF Retry
<1>7. ASSUME NEW k \in Keys, LoseConnection(k) PROVE draft' \in [Keys -> Draft]
  BY <1>4, <1>6, <1>7 DEF LoseConnection
<1>8. ASSUME NEW k \in Keys, RetryDraft(k) PROVE draft' \in [Keys -> Draft]
  BY <1>1, <1>3, <1>8 DEF RetryDraft, Write
<1>9. ASSUME NEW k \in Keys, NEW q \in Senders, StartDraft(k, q) PROVE draft' \in [Keys -> Draft]
  BY <1>1, <1>9 DEF StartDraft, Write
<1>10. ASSUME NEW k \in Keys, NEW q \in Senders, ReadReply(k, q) PROVE draft' \in [Keys -> Draft]
  <2>1. draft[k].status = "syncing" /\ spc[q] \in Replies
    BY <1>10 DEF ReadReply
  <2>2. Outcome(k, spc[q]) \in Draft
    BY <1>1, <1>2, <1>3, <1>6, <2>1 DEF Outcome, Replies
  <2> DEFINE reason == spc[q] = "ok" /\ ~sent[q].photo
  <2>3. [Outcome(k, spc[q]) EXCEPT !.reason = reason] \in Draft
    BY <2>2
  <2> QED
    BY <1>4, <1>10, <2>3 DEF ReadReply
<1>11. RestartApp => draft' \in [Keys -> Draft]
  BY <1>1 DEF RestartApp, Syncing
<1>12. UNCHANGED draft => draft' \in [Keys -> Draft]
  BY <1>1
<1> HIDE DEF Draft
<1>13. draft' \in [Keys -> Draft]
  BY <1>5, <1>7, <1>8, <1>9, <1>10, <1>11, <1>12 DEF Next, Phone, vars
<1> QED
  BY <1>13 DEF Draft

LEMMA TypeStep ==
    ASSUME SyncInv, [Next]_vars
    PROVE  TypeOK'
<1>1. TalkInv'
  BY TalkStep
<1>2. /\ spc' \in [Senders -> {"idle", "lookup", "create", "link"} \cup Replies]
      /\ sent' \in [Senders -> Body \cup {NoBody}] /\ awaited' \subseteq Senders
  BY RequestsTyped
<1>3. /\ \A p, q \in awaited' : p = q
      /\ \A q \in awaited' : spc'[q] # "idle" /\ draft'[sent'[q].key].status = "syncing"
      /\ \A k \in Keys : draft'[k].status = "syncing" => \E q \in awaited' : sent'[q].key = k
      /\ \A q \in Senders : spc'[q] # "idle" => sent'[q] \in Body
  BY <1>1 DEF TalkInv
<1>4. \A q \in awaited' : sent'[q].key \in Keys
  BY <1>2, <1>3 DEF Body
<1> DEFINE S == {k \in Keys : draft'[k].status = "syncing"}
<1>5. S = {sent'[q].key : q \in awaited'}
  BY <1>3, <1>4
<1>6. AtMostOne(S) /\ AtMostOne(awaited')
  BY <1>3, <1>5 DEF AtMostOne
<1> HIDE DEF S
<1>7. Cardinality(S) <= 1 /\ Cardinality(awaited') <= 1
  BY <1>6, CardinalityOfOne
<1>8. Cardinality(Syncing') <= 1 /\ Syncing' = {sent'[q].key : q \in awaited'}
  BY <1>5, <1>7 DEF S, Syncing
<1>9. ServerTypeOK'
  BY <1>2, <1>7, RowsTyped, RecordsTyped, ReviewersTyped DEF ServerTypeOK
<1> QED
  BY <1>8, <1>9, DraftsTyped DEF TypeOK

LEMMA SyncInit == Init => SyncInv
<1> SUFFICES ASSUME Init PROVE SyncInv
  OBVIOUS
<1> USE DEF Init, ServerInit
<1>1. rows = <<>> /\ records = <<>> /\ DOMAIN rows = {} /\ DOMAIN records = {} /\ Len(rows) = 0
  OBVIOUS
<1>2. \A k \in Keys : draft[k] = NoDraft
  OBVIOUS
<1>3. Syncing = {} /\ awaited = {}
  BY <1>2 DEF Syncing, NoDraft
<1>4. ServerTypeOK
  BY <1>1, FS_EmptySet DEF ServerTypeOK
<1>5. TypeOK
  <2>1. draft \in [Keys -> [status : {"none", "pending", "syncing", "submitted", "failed"},
                            attempts : 0 .. MaxAttempts, from : Nat, reason : BOOLEAN]]
    BY PhoneAssumption DEF NoDraft
  <2>2. Cardinality(Syncing) <= 1
    BY <1>3, FS_EmptySet
  <2>3. Syncing = {sent[q].key : q \in awaited}
    BY <1>3
  <2> QED
    BY <1>4, <2>1, <2>2, <2>3 DEF TypeOK
<1>6. TalkInv
  BY <1>1, <1>2, <1>3 DEF TalkInv, NoDraft, Replies
<1>7. LandInv
  BY <1>1, <1>2 DEF LandInv, CapturesLand, OneRowPerKey, NoDraft
<1>8. ReviewInv
  BY <1>1 DEF ReviewInv, RecordsPassedTheCheck, Recorded
<1> QED
  BY <1>5, <1>6, <1>7, <1>8 DEF SyncInv

LEMMA SyncStep == SyncInv /\ [Next]_vars => SyncInv'
BY TypeStep, TalkStep, LandStep, ReviewStep DEF SyncInv

LEMMA SyncAlways == Spec => []SyncInv
BY SyncInit, SyncStep, PTL DEF Spec

---------------------------------------------------------------------------
(* The theorems. *)

\* The server's rows, records and requests and the phone's drafts keep their shape; the one
\* draft under way is the one whose request a client waits for, and no draft is retried more
\* often than _maxAttempts.
THEOREM TypeCorrect == Spec => []TypeOK
<1>1. SyncInv => TypeOK
  BY DEF SyncInv
<1> QED
  BY <1>1, SyncAlways, PTL

\* One record per approved submission, from a form that approvalBlocker has seen and passed,
\* for any number of single and bulk reviews and edits that read the row before any decided.
THEOREM ApprovalsHold == Spec => []ApprovalsAreSound
<1>1. ASSUME SyncInv PROVE ApprovedHasOneRecord
  <2> SUFFICES ASSUME NEW i \in DOMAIN rows
               PROVE  Cardinality({n \in DOMAIN records : records[n].row = i})
                        = IF rows[i].status = "approved" THEN 1 ELSE 0
    BY DEF ApprovedHasOneRecord
  <2>1. /\ rows[i].status = "approved" <=> \E n \in DOMAIN records : records[n].row = i
        /\ \A m, n \in DOMAIN records : records[m].row = records[n].row => m = n
    BY <1>1 DEF SyncInv, ReviewInv, Recorded
  <2>2. CASE rows[i].status = "approved"
    <3>1. PICK n \in DOMAIN records : records[n].row = i
      BY <2>1, <2>2
    <3>2. {m \in DOMAIN records : records[m].row = i} = {n}
      BY <2>1, <3>1
    <3>3. Cardinality({n}) = 1
      BY FS_Singleton
    <3> QED
      BY <2>2, <3>2, <3>3
  <2>3. CASE rows[i].status # "approved"
    <3>1. {m \in DOMAIN records : records[m].row = i} = {}
      BY <2>1, <2>3
    <3> QED
      BY <2>3, <3>1, FS_EmptySet
  <2> QED
    BY <2>2, <2>3
<1>2. SyncInv => ApprovalsAreSound
  BY <1>1 DEF ApprovalsAreSound, SyncInv, ReviewInv
<1> QED
  BY <1>2, SyncAlways, PTL

\* What the phone no longer holds of its new captures the server has, under one row each,
\* whichever answers are lost and however many retries of one draft are under way.
THEOREM CapturesHold == Spec => []CapturesLandOnce
<1>1. SyncInv => CapturesLandOnce
  BY DEF SyncInv, LandInv, CapturesLandOnce
<1> QED
  BY <1>1, SyncAlways, PTL

\* No step changes an approval or a rejection, whatever review was opened before it.
THEOREM DecisionsHold == Spec => DecisionsStand
<1> DEFINE Stands == \A i \in DOMAIN rows : Decided(i) => rows'[i].status = rows[i].status
<1>1. SyncInv /\ [Next]_vars => [Stands]_serverVars
  BY RowsKept DEF SyncInv
<1> QED
  BY <1>1, SyncAlways, PTL DEF Spec, DecisionsStand
=============================================================================
