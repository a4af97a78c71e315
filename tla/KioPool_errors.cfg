SPECIFICATION FairSpec
CONSTANTS
    Job = {d1, q1, v1, v2}
    Quiet = {q1}
    Viewed = {v1, v2}
    Later = {v2}
    Slave = {s1, s2}
    NoSlave = NoSlave
    MaxFiles = 1
    Env = {"error", "silent", "dismiss", "redirect", "cancel", "die", "timer"}
INVARIANTS
    Exclusive
    EndsOnce

    
CHECK_DEADLOCK FALSE
