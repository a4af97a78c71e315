SPECIFICATION FairSpec
CONSTANTS
    Terminal = {t1}
    MaxPort = 1
    MaxId = 2
    MaxNet = 2
    Queries = {"query", "indirect"}
    Env = {"lose", "giveUp", "decline", "openFails", "crash"}
PROPERTIES ManageAnswered DeadSessionNoticed
CHECK_DEADLOCK FALSE
