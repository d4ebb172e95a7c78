SPECIFICATION OwnerFairSpec
CONSTANTS
    s1 = s1
    s2 = s2
    s3 = s3
    task1 = task1
    task2 = task2
    Sessions = {s1, s2, s3}
    Procs = {task1, task2}
    ProcOf <- TwoTasks
    NoOne = NoOne
    Ttl = 4
    Interval = 2
    Delay = 1
    Handling = 1
    Timely = FALSE
INVARIANTS
    OwnerTypeOK
PROPERTIES
    LeaseEndsProperly
    OvertakenSenderStops
    DeadLeaseEnds
CHECK_DEADLOCK FALSE
