--------------------------- MODULE FieldSubmission ---------------------------
(***************************************************************************)
(* The server side of field submissions: the submit and resubmit routes,   *)
(* the reviewer's edits, and single and bulk review, each request a small  *)
(* program of database statements.                                         *)
(* Source: app/api/orgs/[orgId]/field-submissions, lib/field-submissions.  *)
(*                                                                         *)
(* A row of field_submissions is its index in `rows`. What an approval     *)
(* creates (an activity, water, waste, fuel or safety record, with its     *)
(* links) is one element of `records`; a form is what approvalBlocker and  *)
(* the record look at: form data, OCR data, category, facility, distance.  *)
(***************************************************************************)
EXTENDS Integers, FiniteSets, Sequences

CONSTANTS
    Captures,     \* idempotency keys, one per capture, numbered as they are made
    Senders,      \* submit and resubmit requests that may be live at once
    Reviewers,    \* review and edit requests that may be live at once
    Forms,        \* what a form may say
    Approvable,   \* forms to which approvalBlocker has no objection
    Incomplete,   \* captures whose form it objects to until somebody edits it
    NoForm,
    MaxBusy       \* bound: requests of either kind that are live at once

ASSUME FormAssumption == Approvable \subseteq Forms /\ NoForm \notin Forms
ASSUME KeyAssumption == Captures \in Nat /\ Incomplete \subseteq 1 .. Captures /\ MaxBusy \in Nat

\* A capture says something, whether approvalBlocker objects to it or not.
ASSUME CapturedAssumption ==
    \A key \in 1 .. Captures : \E form \in Forms : form \in Approvable <=> key \notin Incomplete

VARIABLES
    rows,      \* field_submissions, in the order they were created
    records,   \* what approvals created
    spc, sent, \* per submit request: its next statement, and its body
    awaited,   \* submit requests whose client still waits for the answer
    rpc, todo  \* per review request: its next statement, and the rows it read

serverVars == <<rows, records, spc, sent, awaited, rpc, todo>>
reviewVars == <<rpc, todo>>

Keys == 1 .. Captures
Statuses == {"submitted", "needs_info", "approved", "rejected"}
Decided(i) == rows[i].status \in {"approved", "rejected"}
Undecided == {i \in DOMAIN rows : ~Decided(i)}
Correctable == {i \in DOMAIN rows : rows[i].status \in {"rejected", "needs_info"}}
Taken(key) == \E i \in DOMAIN rows : rows[i].key = key

\* from is the row a resubmission corrects, 0 for a first submission.
NoBody == [key |-> 0, from |-> 0, photo |-> FALSE]
Replies == {"ok", "conflict", "refused", "error"}

ServerInit ==
    /\ rows = <<>> /\ records = <<>>
    /\ spc = [q \in Senders |-> "idle"] /\ sent = [q \in Senders |-> NoBody]
    /\ awaited = {}
    /\ rpc = [r \in Reviewers |-> "idle"] /\ todo = [r \in Reviewers |-> {}]

CapturedForm(key) == CHOOSE form \in Forms : form \in Approvable <=> key \notin Incomplete

\* A resubmission brings its files along.
NewRow(body) ==
    [key |-> body.key, from |-> body.from, status |-> "submitted", form |-> CapturedForm(body.key),
     photo |-> body.photo /\ body.from # 0]

Busy == {q \in Senders : spc[q] # "idle"} \cup {r \in Reviewers : rpc[r] # "idle"}
Goto(q, step) == spc' = [spc EXCEPT ![q] = step]
\* The request ends: nobody reads the answer if its client has given up.
Answer(q, reply) ==
    IF q \in awaited THEN Goto(q, reply) /\ UNCHANGED sent
    ELSE Goto(q, "idle") /\ sent' = [sent EXCEPT ![q] = NoBody]

Close(r) == rpc' = [rpc EXCEPT ![r] = "idle"] /\ todo' = [todo EXCEPT ![r] = {}]
Done(r, job) ==
    IF todo[r] = {job} THEN Close(r)
    ELSE todo' = [todo EXCEPT ![r] = @ \ {job}] /\ UNCHANGED rpc

---------------------------------------------------------------------------
(* Faulty variants: each is one definition below with a plausible slip, and   *)
(* breaks the property the project lists it for.                             *)

ApproveUnclaimed(r) ==
    /\ rpc[r] = "approve"
    /\ \E job \in todo[r] :
         /\ Done(r, job)
         /\ rows' = [rows EXCEPT ![job.row].status = "approved",
                                 ![job.row].form = IF job.write THEN job.form ELSE @]
         /\ records' = Append(records, [row |-> job.row, form |-> job.form])
    /\ UNCHANGED <<spc, sent, awaited>>

DecideUnguarded(r) ==
    /\ rpc[r] = "decide"
    /\ \E i \in {job.row : job \in todo[r]}, outcome \in {"rejected", "needs_info"} :
         rows' = [rows EXCEPT ![i].status = outcome]
    /\ Close(r)
    /\ UNCHANGED <<records, spc, sent, awaited>>

---------------------------------------------------------------------------
(* Submit and resubmit *)

Request(q, body) ==
    /\ spc[q] = "idle" /\ Cardinality(Busy) < MaxBusy
    /\ sent' = [sent EXCEPT ![q] = body]
    /\ awaited' = {q}
    /\ Goto(q, "lookup")
    /\ UNCHANGED <<rows, records, reviewVars>>

\* A resubmission looks at the row it corrects before it looks for its key.
LookUp(q) ==
    /\ spc[q] = "lookup"
    /\ IF sent[q].from \notin {0} \cup Correctable THEN Answer(q, "conflict")
       ELSE IF Taken(sent[q].key) THEN Answer(q, "ok")
       ELSE Goto(q, "create") /\ UNCHANGED sent
    /\ UNCHANGED <<rows, records, awaited, reviewVars>>

\* Site, evidence, facility, period; once the key is known to be new, also the form,
\* billing and the usage limit.
TurnDown(q) ==
    /\ spc[q] \in {"lookup", "create"}
    /\ Answer(q, "refused")
    /\ UNCHANGED <<rows, records, awaited, reviewVars>>

\* The unique index decides between concurrent retries. A first submission then returns
\* the row that won; a resubmission fails.
CreateRow(q) ==
    /\ spc[q] = "create"
    /\ IF Taken(sent[q].key)
         THEN Answer(q, IF sent[q].from = 0 THEN "ok" ELSE "error") /\ UNCHANGED rows
         ELSE /\ rows' = Append(rows, NewRow(sent[q]))
              /\ IF sent[q].from = 0 THEN Goto(q, "link") /\ UNCHANGED sent ELSE Answer(q, "ok")
    /\ UNCHANGED <<records, awaited, reviewVars>>

\* A first submission links its files in a statement of their own.
LinkFiles(q) ==
    /\ spc[q] = "link"
    /\ rows' = [i \in DOMAIN rows |->
                  IF rows[i].key = sent[q].key /\ sent[q].photo THEN [rows[i] EXCEPT !.photo = TRUE]
                  ELSE rows[i]]
    /\ Answer(q, "ok")
    /\ UNCHANGED <<records, awaited, reviewVars>>

\* The request throws or is killed.
FailRequest(q) ==
    /\ spc[q] \in {"lookup", "create", "link"}
    /\ Answer(q, "error")
    /\ UNCHANGED <<rows, records, awaited, reviewVars>>

\* The client reads the answer.
EndRequest(q) ==
    /\ spc[q] \in Replies
    /\ Goto(q, "idle")
    /\ sent' = [sent EXCEPT ![q] = NoBody]
    /\ awaited' = {}
    /\ UNCHANGED <<rows, records, reviewVars>>

\* The client gives up; what the server still does for it, it does not learn.
Abandon ==
    /\ awaited' = {}
    /\ spc' = [q \in Senders |-> IF spc[q] \in Replies THEN "idle" ELSE spc[q]]
    /\ sent' = [q \in Senders |-> IF spc[q] \in Replies THEN NoBody ELSE sent[q]]
    /\ UNCHANGED <<rows, records, reviewVars>>

Serve(q) ==
    \/ LookUp(q) \/ TurnDown(q) \/ CreateRow(q) \/ LinkFiles(q) \/ FailRequest(q)

---------------------------------------------------------------------------
(* Review: rows are read first, checked in memory, and written later *)

Job(i, form, write) == [row |-> i, form |-> form, write |-> write]

Open(r, step, jobs) ==
    /\ rpc[r] = "idle" /\ Cardinality(Busy) < MaxBusy
    /\ jobs # {}
    /\ rpc' = [rpc EXCEPT ![r] = step]
    /\ todo' = [todo EXCEPT ![r] = jobs]
    /\ UNCHANGED <<rows, records, spc, sent, awaited>>

\* approvalBlocker sees the row with the reviewer's edits, if there are any.
OpenApproval(r) ==
    \E i \in Undecided :
        \/ rows[i].form \in Approvable /\ Open(r, "approve", {Job(i, rows[i].form, FALSE)})
        \/ \E form \in Approvable \ {rows[i].form} : Open(r, "approve", {Job(i, form, TRUE)})

BulkRows == {i \in DOMAIN rows : rows[i].status = "submitted"}

OpenBulkApproval(r) ==
    \E ids \in SUBSET BulkRows :
        Open(r, "approve", {Job(i, rows[i].form, FALSE) : i \in {j \in ids : rows[j].form \in Approvable}})

OpenDecision(r) == \E i \in Undecided : Open(r, "decide", {Job(i, NoForm, FALSE)})
OpenBulkRejection(r) ==
    \E ids \in SUBSET BulkRows : Open(r, "reject", {Job(i, NoForm, FALSE) : i \in ids})
OpenEdit(r) == \E i \in Undecided : Open(r, "edit", {Job(i, NoForm, FALSE)})

\* One transaction per row: the conditional claim of the row, then the record, from the
\* form that was checked. A row decided meanwhile rolls it back, and so does an error.
ApproveSubmission(r) ==
    /\ rpc[r] = "approve"
    /\ \E job \in todo[r] :
         /\ Done(r, job)
         /\ \/ UNCHANGED <<rows, records>>
            \/ /\ ~Decided(job.row)
               /\ rows' = [rows EXCEPT ![job.row].status = "approved",
                                       ![job.row].form = IF job.write THEN job.form ELSE @]
               /\ records' = Append(records, [row |-> job.row, form |-> job.form])
    /\ UNCHANGED <<spc, sent, awaited>>

\* A rejection or a request for information, guarded like the approval. It may save edits.
Decide(r) ==
    /\ rpc[r] = "decide"
    /\ \E i \in {job.row : job \in todo[r]}, outcome \in {"rejected", "needs_info"},
          form \in Forms :
         rows' = IF Decided(i) THEN rows ELSE [rows EXCEPT ![i].status = outcome, ![i].form = form]
    /\ Close(r)
    /\ UNCHANGED <<records, spc, sent, awaited>>

\* One transaction of guarded updates.
RejectAll(r) ==
    /\ rpc[r] = "reject"
    /\ rows' = [i \in DOMAIN rows |->
                  IF i \in {job.row : job \in todo[r]} /\ ~Decided(i)
                    THEN [rows[i] EXCEPT !.status = "rejected"] ELSE rows[i]]
    /\ Close(r)
    /\ UNCHANGED <<records, spc, sent, awaited>>

\* Distances are looked up between the read and this update, which has no condition.
EditRow(r) ==
    /\ rpc[r] = "edit"
    /\ \E i \in {job.row : job \in todo[r]}, form \in Forms :
         rows' = [rows EXCEPT ![i].form = form]
    /\ Close(r)
    /\ UNCHANGED <<records, spc, sent, awaited>>

\* Nothing is left to do, a statement fails, or the request is killed.
EndReview(r) ==
    /\ rpc[r] # "idle"
    /\ Close(r)
    /\ UNCHANGED <<rows, records, spc, sent, awaited>>

Review(r) ==
    \/ OpenApproval(r) \/ OpenBulkApproval(r) \/ OpenDecision(r) \/ OpenBulkRejection(r)
    \/ OpenEdit(r)
    \/ ApproveSubmission(r) \/ Decide(r) \/ RejectAll(r) \/ EditRow(r) \/ EndReview(r)

ServerNext ==
    \/ \E q \in Senders : Serve(q)
    \/ \E r \in Reviewers : Review(r)

---------------------------------------------------------------------------
(* Properties *)

Row == [key : Keys, from : Nat, status : Statuses, form : Forms, photo : BOOLEAN]
Body == [key : Keys, from : Nat, photo : BOOLEAN]

ServerTypeOK ==
    /\ rows \in Seq(Row) /\ \A i \in DOMAIN rows : rows[i].from < i
    /\ records \in Seq([row : Nat, form : Forms]) /\ \A n \in DOMAIN records : records[n].row \in DOMAIN rows
    /\ spc \in [Senders -> {"idle", "lookup", "create", "link"} \cup Replies]
    /\ sent \in [Senders -> Body \cup {NoBody}]
    /\ awaited \subseteq Senders /\ Cardinality(awaited) <= 1
    /\ rpc \in [Reviewers -> {"idle", "approve", "decide", "reject", "edit"}]
    /\ todo \in [Reviewers -> SUBSET [row : Nat, form : Forms \cup {NoForm}, write : BOOLEAN]]
    /\ \A r \in Reviewers : \A job \in todo[r] : job.row \in DOMAIN rows

\* A submission has a record exactly when it is approved, and never two, however many
\* single and bulk reviews read it before the first of them decided.
ApprovedHasOneRecord ==
    \A i \in DOMAIN rows :
        Cardinality({n \in DOMAIN records : records[n].row = i}) = IF rows[i].status = "approved" THEN 1 ELSE 0

\* What enters the inventory passed approvalBlocker, even if the row was edited between
\* the check and the approval.
RecordsPassedTheCheck == \A n \in DOMAIN records : records[n].form \in Approvable

\* Each approval makes one record, of a form that passed the check, however single and bulk
\* reviews and edits of one submission interleave.
ApprovalsAreSound == ApprovedHasOneRecord /\ RecordsPassedTheCheck

\* "a concurrent approval must not be overwritten by this reject", nor the reverse.
DecisionsStand ==
    [][\A i \in DOMAIN rows : Decided(i) => rows'[i].status = rows[i].status]_serverVars

\* One capture is one submission, whatever is retried and however the retries overlap.
OneRowPerKey ==
    \A i, j \in DOMAIN rows : rows[i].key = rows[j].key => i = j
=============================================================================
