SPECIFICATION Spec
CONSTANTS
    Cmds = {c1, c2}
    Daemons = {d1}
    Absent = Absent
    Empty = Empty
    Overlap = TRUE
INVARIANTS
    StoppedIsDead
PROPERTIES
    StopReturns
