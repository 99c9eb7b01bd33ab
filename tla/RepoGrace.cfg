SPECIFICATION Spec
CONSTANTS
  o1 = o1
  o2 = o2
  n1 = n1
  n2 = n2
  s1 = s1
  s2 = s2
  None = None
  Repos = {1, 2}
  Owners = {o1}
  Names = {n1}
  Transfers = {}
  Sessions = {s1, s2}
  Grace = 1
  RenameMax = 1
  Ops = {"create", "softDelete", "restore", "hardDelete"}
  FaultKinds = {}
  MaxFaults = 0
PROPERTY GraceRespected
