SPECIFICATION Spec
CONSTANTS
    Job = {d1, q1, v1, v2, v3}
    Quiet = {q1}
    Viewed = {v1, v2, v3}
    Later = {v2, v3}
    Slave = {s1, s2}
    NoSlave = NoSlave
    MaxFiles = 2
    Env = {"silent", "redirect", "cancel", "die", "execfail", "timer"}
INVARIANTS
    TypeOK
    Exclusive
    OwnAnswers
    EndsOnce
    SlaveComing
CHECK_DEADLOCK FALSE
