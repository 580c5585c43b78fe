\* Two runs swap the figures of the period while two publishers copy them.
SPECIFICATION Spec
CONSTANTS
    Runs = {u1, u2}
    Requests = {q1}
    Records = {a}
    Publishers = {p1, p2}
    Ways = {"manual"}
    MaxMinute = 1
    MaxSnapshots = 2
SYMMETRY Symmetry
CHECK_DEADLOCK FALSE
INVARIANTS
    TypeOK
    RunCoversItsApprovals
    SnapshotsAreSound
PROPERTIES
    SwapsAreSound
