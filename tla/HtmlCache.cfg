SPECIFICATION Spec
CONSTANTS
    View = {v1, v2}
    Url = {u1, u2}
    Job = {j1, j2, j3}
    NoJob = NoJob
    MaxJobs = 1
    MaxTodo = 2
    MaxWait = 1
SYMMETRY Symmetry
INVARIANTS
    TypeOK
    LoadedOnce
    ListsAgree
PROPERTIES
    WaiterKept
CHECK_DEADLOCK FALSE
