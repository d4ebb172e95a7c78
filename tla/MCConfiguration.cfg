SPECIFICATION FairSpec
CONSTANTS
    Operators = {o1, o2}
    Working <- WorkingLayers
    Edits <- OneEdit
    FullEnv <- DeveloperEnv
    MaxEdits = 1
    MaxFaults = 1
INVARIANTS
    SyncedSecretBoots
    PublishedIsEffective
    RunningIsWired
PROPERTIES
    SyncConverges
CHECK_DEADLOCK FALSE
