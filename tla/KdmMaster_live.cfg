SPECIFICATION FairSpec
CONSTANTS
    NoPid = NoPid
    NoName = NoName
    Console = {c1}
    Remote = {}
    Pid = {p1, p2, p3}
    StartAttempts = 2
    ServerAttempts = 2
    TerminateServer = FALSE
    AutoRescan = FALSE
    ExitCode = {"OBEYSESS", "UNMANAGE", "RESERVER", "OPENFAILED"}
    TermAt = {"loop", "wait", "preselect", "select", "selected", "waitchild", "suspend", "reap", "check", "startServer", "pause", "sleep", "fork"}
    Env = {"crash", "early", "startup"}
PROPERTIES
    TermExits
    DisplaySettles
    DeadChildReaped
CHECK_DEADLOCK FALSE
