SPECIFICATION ServiceSpec
CONSTANTS
    s1 = s1
    s2 = s2
    task1 = task1
    task2 = task2
    Sessions = {s1, s2}
    Procs = {task1, task2}
    ProcOf <- TwoTasks
    NoOne = NoOne
    Ttl = 5
    Interval = 1
    Delay = 1
    Handling = 1
    Timely = TRUE
    Frames <- ShortCall
    MaxFrames = 3
    SingleSender = FALSE
    KeyMayExpire = FALSE
    CommitMayLag = TRUE
INVARIANTS
    SenderHoldsLease
PROPERTIES
    ServesOneSender
CHECK_DEADLOCK FALSE
