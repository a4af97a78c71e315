SPECIFICATION Spec
CONSTANTS
    NoPid = NoPid
    NoName = NoName
    Console = {c1}
    Remote = {}
    Pid = {p1, p2, p3}
    StartAttempts = 2
    ServerAttempts = 2
    TerminateServer = TRUE
    AutoRescan = TRUE
    ExitCode = {"OBEYSESS", "REMANAGE", "UNMANAGE", "RESERVER", "OPENFAILED", "SIGTERM", "other"}
    TermAt = {"preselect", "select", "selected", "loop", "suspend", "reap"}
    Env = {"hup", "edit", "crash", "forkfail"}
SYMMETRY PidSymmetry
INVARIANTS
    TypeOK
    NoOrphanServer
    NoOrphanSession
    StatusMatchesPid
    WaitedServerTold
    NoSessionOnDoomedServer
PROPERTIES
    DisabledOnlyForCause
    LifeSpec
