SPECIFICATION Spec
CONSTANTS
    Cmds = {c1, c2, c3}
    Daemons = {d1, d2}
    Absent = Absent
    Empty = Empty
    Overlap = FALSE
INVARIANTS
    AtMostOneDaemon
    DaemonTracked
    QuietAfterStop
    TerminateCleans
SYMMETRY Symmetric
