SPECIFICATION FairSpec
CONSTANTS
    Senders = {s1, s2}
    Probes = {p1}
    Clients = {c1, c2, c3}
    None = None
INVARIANTS
    SendsReachStartedClient
    NoClientLeaked
PROPERTIES
    ProducerNeverReplaced
    StartupEnds
CHECK_DEADLOCK FALSE
