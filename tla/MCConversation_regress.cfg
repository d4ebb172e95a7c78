SPECIFICATION ServiceSpec
CONSTANTS
    s1 = s1
    s2 = s2
    task1 = task1
    task2 = task2
    Sessions = {s1, s2}
    Procs = {task1, task2}
    ProcOf <- TwoTasks
    NoOne = NoOne
    Ttl = 2
    Interval = 1
    Delay = 0
    Handling = 0
    Timely = FALSE
    Frames <- TwoTranscripts
    MaxFrames = 3
    SingleSender = FALSE
    KeyMayExpire = FALSE
    CommitMayLag = FALSE
PROPERTIES
    SequenceAdvances
CHECK_DEADLOCK FALSE
