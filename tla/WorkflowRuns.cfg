SPECIFICATION Spec
CONSTANTS
  Runs = {1}
  Jobs = {1, 2}
  Runners = {r1, r2}
  Sessions = {s1, s2, s3}
  Triggers = {s1, s2, s3}
  None = None
  RunOf <- Together
  Needs <- Join
  Gated = {1}
  Grouped = {}
  CancelInProgress = {}
  Capacity = 1
  RepoCap = 2
  Outcomes = {"success", "failure"}
  Requests = {"cancelRun", "cancelJob", "approve", "reject", "steps", "quota", "drain", "revoke"}
  MaxTries = 2
  FaultKinds = {}
  MaxFaults = 0
INVARIANTS ApprovalSettled NeverRunsUnapproved OneAgentPerJob ConclusionAgrees CancelClosesSteps CheckTruthful NeedsMet
CHECK_DEADLOCK FALSE
SYMMETRY Symmetric
CONSTRAINT OneAdministered
