SPECIFICATION Spec
CONSTANTS
    PRs = {p1}
    Branches = {trunk, topic}
    Default = trunk
    MaxCommit = 4
    MaxPushed = 3
    MaxSyncs = 2
    Procs = {s1, s2}
    Ops = {"push", "create", "merge", "delete"}
    FaultKinds = {}
    MaxFaults = 0
    MaxRequests = 2
    None = None
    Start <- Ahead
    Rules <- Protected
    trunk = trunk
    fix = fix
    p1 = p1
    p2 = p2
    topic = topic
    s1 = s1
    s2 = s2
PROPERTY MovedHeadKept
CHECK_DEADLOCK FALSE
