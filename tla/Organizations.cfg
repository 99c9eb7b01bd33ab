SPECIFICATION Spec
CONSTANTS
  None = None
  u1 = u1
  u2 = u2
  o1 = o1
  a = a
  b = b
  m1 = m1
  m2 = m2
  s1 = s1
  s2 = s2
  Users = {u1, u2}
  Orgs = {o1}
  Slugs = {a, b}
  Addresses = {m1, m2}
  OwnerOf <- Second
  MaxInvites = 2
  Letters <- ThreeLetters
  Procs = {s1, s2}
  Ops = {"rename", "account", "delete", "restore", "add", "change", "invite", "answer", "expire"}
INVARIANTS OwnerStays NamesResolve
CONSTRAINT Apart
SYMMETRY Symmetric
CHECK_DEADLOCK FALSE
