----------------------------- MODULE AppendOnlyLog -----------------------------
(***************************************************************************)
(* What an audit trail promises its callers: one log to which entries are  *)
(* added at the end and never removed; a caller that is told its entry was *)
(* written finds it there, once. A caller that is told nothing cannot      *)
(* know.                                                                   *)
(* The comments of lib/audit/chain.ts and lib/db/audit.ts state it.         *)
(***************************************************************************)
EXTENDS Sequences

CONSTANTS Entries, Beginnings

VARIABLES log, asked, told

logVars == <<log, asked, told>>

Init == log \in Beginnings /\ asked = {} /\ told = {}

Ask(e) ==
    /\ e \notin asked
    /\ asked' = asked \cup {e}
    /\ UNCHANGED <<log, told>>

Write(e) ==
    /\ e \in asked /\ \A i \in DOMAIN log : log[i] # e
    /\ log' = Append(log, e)
    /\ told' \in {told, told \cup {e}}
    /\ UNCHANGED asked

Next == \E e \in Entries : Ask(e) \/ Write(e)

Spec == Init /\ [][Next]_logVars
=============================================================================
