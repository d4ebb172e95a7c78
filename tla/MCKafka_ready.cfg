SPECIFICATION Spec
CONSTANTS
    Senders = {s1, s2}
    Probes = {p1}
    Clients = {c1, c2, c3}
    None = None
INVARIANT ReadyMeansReachable
CHECK_DEADLOCK FALSE
