SPECIFICATION Spec
CONSTANTS
    Procs = {p1, p2}
    MaxDeletes = 1
INVARIANT OneWriter
