SPECIFICATION FairDeliverySpec
CONSTANTS
    s1 = s1
    s2 = s2
    task1 = task1
    task2 = task2
    Sessions = {s1, s2}
    Procs = {task1, task2}
    ProcOf <- TwoTasks
    Frames <- Call
    MaxFrames = 7
    MaxFaults = 4
    SingleSender = TRUE
    KeyMayExpire = FALSE
    CommitMayLag = FALSE
INVARIANTS
    StoredNeverRefused
    NoSendAfterAck
    FailedSendIsRetryable
PROPERTIES
    ExpectedNeverRegresses
    CallIsDelivered
CHECK_DEADLOCK FALSE
