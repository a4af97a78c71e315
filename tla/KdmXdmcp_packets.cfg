SPECIFICATION Spec
CONSTANTS
    Terminal = {t1}
    MaxPort = 2
    MaxId = 3
    MaxNet = 2
    Queries = {"query"}
    Env = {"reboot", "decline", "age", "forkFails", "openFails", "crash"}
INVARIANTS TypeOK IdsManagedOnce OneSession
PROPERTIES SessionInUseKept
CHECK_DEADLOCK FALSE
