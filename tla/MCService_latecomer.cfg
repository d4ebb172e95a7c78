SPECIFICATION Spec
CONSTANTS
    c1 = c1
    c2 = c2
    c3 = c3
    callA = callA
    callB = callB
    Conns = {c1, c2, c3}
    Conversations = {callA, callB}
    CidOf <- ThreeConns
    NoCid = NoCid
    MaxConnections = 0
INVARIANTS
    NoneOpenedBehindSweep
CHECK_DEADLOCK FALSE
