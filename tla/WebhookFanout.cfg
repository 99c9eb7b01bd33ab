SPECIFICATION Spec
CONSTANTS
  h1 = h1
  h2 = h2
  f1 = f1
  f2 = f2
  w1 = w1
  w2 = w2
  k1 = k1
  None = None
  Events = {1, 2}
  Kinds = {k1}
  KindOf <- OneKind
  Hooks = {h1, h2}
  OldHooks = {h1, h2}
  OrgHooks = {h2}
  Filters = {{k1}}
  Fanouts = {f1, f2}
  Senders = {}
  MaxDeliveries = 4
  FanoutBatch = 2
  EventAttempts = 2
  PingAttempts = 1
  Threshold = 1
  ManageOps = {"delete"}
  FaultKinds = {"crash", "db", "enqueue"}
  MaxFaults = 1
INVARIANTS NoneSkipped DuplicatesAccounted
SYMMETRY Symmetric
CHECK_DEADLOCK FALSE
