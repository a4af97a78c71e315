SPECIFICATION Spec
CONSTANTS
    NoPid = NoPid
    NoName = NoName
    Console = {c1}
    Remote = {r1}
    Pid = {p1, p2, p3}
    StartAttempts = 2
    ServerAttempts = 2
    TerminateServer = FALSE
    AutoRescan = FALSE
    ExitCode = {"OBEYSESS"}
    TermAt = {"preselect", "select", "selected", "loop", "suspend", "reap"}
    Env = {"xdmcp", "startup", "hup", "edit"}
SYMMETRY PidSymmetry
INVARIANTS
    LostOnlyInPause
    TransientHasSession
CHECK_DEADLOCK FALSE
