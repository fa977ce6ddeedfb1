SPECIFICATION Spec
CONSTANTS
    Procs = {p1, p2, p3}
    MaxDeletes = 2
INVARIANT TypeOK
INVARIANT OneWriterUnlessRaced
INVARIANT HandlesReachable
PROPERTY CallsNeverBlock
