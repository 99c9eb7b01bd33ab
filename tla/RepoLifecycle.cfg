SPECIFICATION Spec
CONSTANTS
  o1 = o1
  o2 = o2
  n1 = n1
  n2 = n2
  s1 = s1
  s2 = s2
  None = None
  Repos = {1, 2}
  Owners = {o1, o2}
  Names = {n1, n2}
  Transfers = {1}
  Sessions = {s1, s2}
  Grace = 1
  RenameMax = 1
  Ops = {"create", "softDelete", "restore", "hardDelete", "force", "rename", "transfer"}
  FaultKinds = {"crash", "fs", "seed", "commit"}
  MaxFaults = 1
INVARIANTS OwnDataOnly DataKept
SYMMETRY Symmetric
CONSTRAINT Relevant
