SPECIFICATION FairSpec
CONSTANTS
  h1 = h1
  h2 = h2
  f1 = f1
  f2 = f2
  w1 = w1
  w2 = w2
  k1 = k1
  None = None
  Events = {}
  Kinds = {k1}
  KindOf <- OneKind
  Hooks = {h1}
  OldHooks = {}
  OrgHooks = {}
  Filters = {{k1}}
  Fanouts = {}
  Senders = {w1}
  MaxDeliveries = 2
  FanoutBatch = 1
  EventAttempts = 2
  PingAttempts = 2
  Threshold = 2
  ManageOps = {}
  FaultKinds = {}
  MaxFaults = 0
PROPERTY RetriesHappen
CHECK_DEADLOCK FALSE
