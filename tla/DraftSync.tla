------------------------------ MODULE DraftSync ------------------------------
(***************************************************************************)
(* The field worker's phone: captures are stored as drafts and drained to  *)
(* the server, one at a time, over a connection that loses answers, by an  *)
(* app that may be killed. Composed with the server, FieldSubmission.      *)
(* Source: mobile/lib/features/sync/sync_service.dart and                  *)
(* mobile/lib/core/storage/app_database.dart.                              *)
(***************************************************************************)
EXTENDS FieldSubmission

CONSTANTS
    MaxAttempts,    \* _maxAttempts
    Uploads         \* whether the storage takes a photo, as far as it varies
ASSUME PhoneAssumption == MaxAttempts \in Nat \ {0} /\ Uploads \subseteq BOOLEAN

VARIABLE draft    \* per key, the row of draft_submissions

vars == <<rows, records, spc, sent, awaited, rpc, todo, draft>>

NoDraft == [status |-> "none", attempts |-> 0, from |-> 0, reason |-> FALSE]

Init == ServerInit /\ draft = [k \in Keys |-> NoDraft]

Syncing == {k \in Keys : draft[k].status = "syncing"}
Write(k, fields) == draft' = [draft EXCEPT ![k] = fields]

---------------------------------------------------------------------------
(* Faulty variants *)

FailOneLater(k) ==
    LET attempts == draft[k].attempts + 1 IN
    [draft[k] EXCEPT !.status = IF attempts > MaxAttempts THEN "failed" ELSE "pending",
                     !.attempts = attempts]

AcceptRefusal(k, reply) ==
    IF reply # "error" THEN [draft[k] EXCEPT !.status = "submitted"]
    ELSE [draft[k] EXCEPT !.status = "pending"]

---------------------------------------------------------------------------

\* A correction starts from a submission the worker saw rejected or sent back.
Capture(k) ==
    /\ draft[k].status = "none" /\ \A j \in 1 .. k - 1 : draft[j].status # "none"
    /\ \E from \in {0} \cup Correctable :
         Write(k, [NoDraft EXCEPT !.status = "pending", !.from = from])
    /\ UNCHANGED serverVars

\* _draining: one draft at a time. The photo was uploaded, or the server will never take
\* it and the draft goes without. A request that does not arrive is one that fails at once.
StartDraft(k, q) ==
    /\ Syncing = {}
    /\ draft[k].status = "pending"
    /\ Write(k, [draft[k] EXCEPT !.status = "syncing"])
    /\ \E photo \in Uploads : Request(q, [key |-> k, from |-> draft[k].from, photo |-> photo])

\* _recordFailure for a transient error: the draft is retried, up to a limit.
Retry(k) ==
    LET attempts == draft[k].attempts + 1 IN
    [draft[k] EXCEPT !.status = IF attempts >= MaxAttempts THEN "failed" ELSE "pending",
                     !.attempts = attempts]

\* An answer 409 is taken for a submission that has landed before.
Outcome(k, reply) ==
    CASE reply \in {"ok", "conflict"} -> [draft[k] EXCEPT !.status = "submitted"]
      [] reply = "refused" -> [draft[k] EXCEPT !.status = "failed", !.attempts = @ + 1]
      [] reply = "error" -> Retry(k)

\* Only a success keeps the reason why the photo was left out.
ReadReply(k, q) ==
    /\ draft[k].status = "syncing" /\ spc[q] \in Replies
    /\ Write(k, [Outcome(k, spc[q]) EXCEPT !.reason = spc[q] = "ok" /\ ~sent[q].photo])
    /\ EndRequest(q)

\* No connection, a timeout, or a photo upload that fails; the server goes on by itself.
LoseConnection(k) ==
    /\ draft[k].status = "syncing"
    /\ Write(k, Retry(k))
    /\ Abandon

\* The app is killed and started again: stuck drafts are put back.
RestartApp ==
    /\ Syncing # {}
    /\ draft' = [k \in Keys |-> IF k \in Syncing THEN [draft[k] EXCEPT !.status = "pending"] ELSE draft[k]]
    /\ Abandon

\* Offered for failed drafts, as is deleting them, which changes nothing here.
RetryDraft(k) ==
    /\ draft[k].status = "failed"
    /\ Write(k, [draft[k] EXCEPT !.status = "pending", !.attempts = 0, !.reason = FALSE])
    /\ UNCHANGED serverVars

Phone(k) ==
    \/ Capture(k) \/ LoseConnection(k) \/ RetryDraft(k)
    \/ \E q \in Senders : StartDraft(k, q) \/ ReadReply(k, q)

Next ==
    \/ \E k \in Keys : Phone(k)
    \/ RestartApp
    \/ ServerNext /\ UNCHANGED draft

Spec == Init /\ [][Next]_vars

---------------------------------------------------------------------------
(* Properties *)

TypeOK ==
    /\ ServerTypeOK
    /\ draft \in [Keys -> [status : {"none", "pending", "syncing", "submitted", "failed"},
                           attempts : 0 .. MaxAttempts, from : Nat, reason : BOOLEAN]]
    /\ Cardinality(Syncing) <= 1
    /\ Syncing = {sent[q].key : q \in awaited}

\* A new capture that the phone calls submitted is on the server.
CapturesLand == \A k \in Keys : draft[k].status = "submitted" /\ draft[k].from = 0 => Taken(k)

\* What was captured offline is in the review queue once: answers that are lost and retries
\* that overlap neither lose nor double it.
CapturesLandOnce == CapturesLand /\ OneRowPerKey
=============================================================================
