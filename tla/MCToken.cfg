SPECIFICATION Spec
CONSTANTS
    Threads = {t1, t2, t3}
    Free = Free
    Life = 4
    Margin = 2
    Patience = 2
    MaxTime = 9
INVARIANT
    TokenFreshWhenReturned
PROPERTY
    NoRepeatedSigning
CHECK_DEADLOCK FALSE
