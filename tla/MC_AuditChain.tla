---------------------------- MODULE MC_AuditChain ----------------------------
(* Instances of AuditChain for TLC: what the table holds before version 2. *)
EXTENDS AuditChain

Legacy(seq, prev, hash) ==
    [seq |-> seq, prev |-> prev, hash |-> hash, entry |-> "old", fixed |-> FALSE,
     redacted |-> FALSE]

\* Nothing; a row from before there were hashes; two rows that both follow none, the first of
\* them sound.
SomeChains ==
    {{}, {Legacy(1, NoHash, NoHash)},
     {Legacy(1, NoHash, <<"a">>), Legacy(2, NoHash, <<"b">>)}}

CONSTANTS u1, w1

\* One user whose account may be deleted wrote one of the new entries and the old ones.
SomeAuthors == [e \in Writers \cup OldEntries |-> IF e \in {w1, "old"} THEN u1 ELSE NoOne]

=============================================================================
