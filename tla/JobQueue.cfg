\* Handlers and their marks finish inside the lease.
SPECIFICATION FairSpec
CONSTANTS
    p1 = p1
    p2 = p2
    s1 = s1
    s2 = s2
    k1 = k1
    k2 = k2
    j1 = j1
    j2 = j2
    NULL = NULL
    Procs = {p1, p2}
    Slots = {s1}
    Jobs = {j1, j2}
    Kinds = {k1}
    KindOf <- OneKind
    MaxAttempts = 2
    StaleWindow = 1
    JobTimeout = 1
    Overrun = 0
    BaseDelay = 1
    MaxDelay = 1
    MaxOverdue = 0
    MaxFaults = 1
    FaultKinds = {"crash", "shutdown", "dberror"}
INVARIANTS
    OneOutcome
    HolderHasLease
    AttemptBudget
PROPERTIES
    ImplementsQueue
    FinishedIsFinal
    EveryJobFinishes
