SPECIFICATION Spec
CONSTANTS
    View = {v1, v2}
    Url = {u1, u2}
    Job = {j1, j2, j3}
    NoJob = NoJob
    MaxJobs = 2
    MaxTodo = 1
    MaxWait = 1
PROPERTIES
    SharedJobKept
CHECK_DEADLOCK FALSE
