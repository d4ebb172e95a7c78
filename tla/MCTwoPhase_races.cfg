SPECIFICATION Spec
CONSTANTS
    s1 = s1
    s2 = s2
    task1 = task1
    task2 = task2
    Sessions = {s1, s2}
    Procs = {task1, task2}
    ProcOf <- TwoTasks
    Frames <- CallFrames
    MaxFrames = 4
    SingleSender = FALSE
    KeyMayExpire = TRUE
    CommitMayLag = TRUE
INVARIANTS
    TypeOK
    AckedIsStored
    RedisBehindKafka
    TopicInOrder
    FinalTtlOnlyAfterComplete
    EolAckMeansEolStored
PROPERTIES
    KeepsPromise
CHECK_DEADLOCK FALSE
