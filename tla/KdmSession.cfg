SPECIFICATION FairSpec
CONSTANTS
    Kinds = {"local", "foreign", "xdmcp"}
    MaxTerm = 2
INVARIANTS
    TypeOK
    ClientFirst
    ResetRuns
PROPERTIES
    SessionEnds
