SPECIFICATION Spec
CONSTANTS
    NotJson = NotJson
    NotObject = NotObject
    MaxFaults = 3
    Inputs <- NearFrames
INVARIANTS
    AcceptedIffReadsAsContract
    KnownFaultIsNamed
CHECK_DEADLOCK FALSE
