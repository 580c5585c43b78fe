----------------------------- MODULE SoleWorker -----------------------------
(***************************************************************************)
(* What CalculationRun promises the rest of the system: a run is processed *)
(* by one worker, who works and rests, counts records, shows all it has    *)
(* counted at once, and stops for good when it has succeeded. There are no *)
(* invocations here, no claims, no time and no deaths.                     *)
(***************************************************************************)
CONSTANT Records

VARIABLES
    status,    \* of the run
    working,   \* the worker is at it
    counted,   \* records with a calculation
    shown,     \* records behind the dashboard
    due        \* records the run must show if it succeeds

vars == <<status, working, counted, shown, due>>

Init ==
    /\ status = "queued" /\ working = FALSE
    /\ counted = {} /\ shown = {} /\ due = {}

Begin ==
    /\ ~working /\ status \in {"queued", "running"}
    /\ working' = TRUE
    /\ UNCHANGED <<status, counted, shown, due>>

Rest ==
    /\ working
    /\ working' = FALSE
    /\ UNCHANGED <<status, counted, shown, due>>

\* What is due is settled before anything is counted.
Size ==
    /\ working /\ counted = {}
    /\ due' \in SUBSET Records
    /\ UNCHANGED <<status, working, counted, shown>>

Run ==
    /\ working /\ counted = {}
    /\ status' = "running"
    /\ UNCHANGED <<working, counted, shown, due>>

Count ==
    /\ working
    /\ counted \subseteq counted' /\ counted' \subseteq Records
    /\ UNCHANGED <<status, working, shown, due>>

Show ==
    /\ working
    /\ shown' = counted
    /\ UNCHANGED <<status, working, counted, due>>

Succeed ==
    /\ working
    /\ shown = counted /\ due \subseteq shown
    /\ status' = "succeeded" /\ working' = FALSE
    /\ UNCHANGED <<counted, shown, due>>

Fail ==
    /\ working
    /\ status' = "failed" /\ working' = FALSE
    /\ UNCHANGED <<counted, shown, due>>

\* An administrator cancels the run, or a caller gives up on it; the worker is not told.
Cancel ==
    /\ status' = "failed"
    /\ UNCHANGED <<working, counted, shown, due>>

\* An approval is withdrawn: its record is no longer due.
Withdraw ==
    /\ due' \subseteq due
    /\ UNCHANGED <<status, working, counted, shown>>

Next ==
    \/ Begin \/ Rest \/ Size \/ Run \/ Count \/ Show \/ Succeed \/ Fail
    \/ Cancel \/ Withdraw

Spec == Init /\ [][Next]_vars

---------------------------------------------------------------------------

\* A run that has succeeded shows what it counted, all of what was due, and nobody is at it.
Complete ==
    status = "succeeded" => ~working /\ shown = counted /\ due \subseteq shown

\* The figures of a run that has succeeded are final.
FiguresAreFinal == [][status = "succeeded" => UNCHANGED <<counted, shown>>]_vars
=============================================================================
