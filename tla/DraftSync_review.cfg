\* Two captures synced over lost connections and app restarts, while two reviewers edit,
\* approve, reject and send back, one by one and in bulk.
SPECIFICATION Spec
CONSTANTS
    Captures = 2
    Senders = {q1, q2}
    Reviewers = {r1, r2}
    Forms = {"good", "bad"}
    Approvable = {"good"}
    Incomplete = {1}
    Uploads = {FALSE}
    NoForm = "none"
    MaxBusy = 3
    MaxAttempts = 1
SYMMETRY Symmetry
INVARIANTS
    TypeOK
    ApprovalsAreSound
    CapturesLandOnce
PROPERTY DecisionsStand
CHECK_DEADLOCK FALSE
