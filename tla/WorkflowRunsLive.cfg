SPECIFICATION FairSpec
CONSTANTS
  Runs = {1, 2}
  Jobs = {1, 2, 3}
  Runners = {r1}
  Sessions = {s1, s2}
  Triggers = {s1, s2}
  None = None
  RunOf <- Pair
  Needs <- NoNeeds
  Gated = {}
  Grouped = {1, 2}
  CancelInProgress = {2}
  Capacity = 1
  RepoCap = 2
  Outcomes = {"success"}
  Requests = {}
  MaxTries = 1
  FaultKinds = {"lost", "abort", "sync", "recover"}
  MaxFaults = 1
INVARIANT CapacityHeld
PROPERTY JobsEnd
