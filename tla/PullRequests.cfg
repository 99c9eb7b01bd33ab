SPECIFICATION Spec
CONSTANTS
    PRs = {p1, p2}
    Branches = {trunk, topic}
    Default = trunk
    MaxCommit = 4
    MaxPushed = 3
    MaxSyncs = 2
    Procs = {s1, s2}
    Ops = {"push", "create", "merge", "state", "base", "update", "delete", "rewrite"}
    FaultKinds = {"hook", "enqueue", "refresh", "commit", "lost"}
    MaxFaults = 1
    MaxRequests = 2
    None = None
    Start <- Ahead
    Rules <- Protected
    trunk = trunk
    fix = fix
    p1 = p1
    p2 = p2
    topic = topic
    s1 = s1
    s2 = s2
SYMMETRY Symmetric
VIEW View
CONSTRAINT Relevant

INVARIANTS LandsOnce MergedTruthful OneOpenPerPair HeadFresh DefaultFresh
PROPERTY NothingOverwritten
CHECK_DEADLOCK FALSE
