CONSTANTS
  o = o
  a = a
  b = b
  c = c
  d = d
  e = e
  x = x
  s1 = s1
  s2 = s2
  Users <- People
  NoOne = NoOne
  Owners = {o}
  Deciders = {x}
  InitRoster <- SmallRoster
  Replacements = {}
  GroupChoices = {}
  Approvers <- People
  Refusers = {}
  Results = {"verified"}
  Outcomes = {"clear", "incomplete"}
  Sessions = {s1, s2}
  Ops = {"callback", "release", "void", "upload"}
  MaxSow = 2
  MaxGm = 1
  MaxPkg = 2
  MaxUpload = 2
  MaxMail = 2
SPECIFICATION Spec
SYMMETRY Symmetry
INVARIANTS
  ReleaseHasRecord
  ContractsShareVersion
PROPERTIES
  SignedSurvivesChange
CHECK_DEADLOCK FALSE
