CONSTANTS
  o = o
  a = a
  b = b
  c = c
  d = d
  e = e
  x = x
  s1 = s1
  s2 = s2
  Users <- People
  NoOne = NoOne
  Owners = {o}
  Deciders = {x}
  InitRoster <- SmallRoster
  Replacements = {}
  GroupChoices = {}
  Approvers <- People
  Refusers = {}
  Results = {}
  Outcomes = {"below"}
  Sessions = {s1, s2}
  Ops = {"ceo", "void"}
  MaxSow = 1
  MaxGm = 1
  MaxPkg = 1
  MaxUpload = 0
  MaxMail = 0
SPECIFICATION Spec
SYMMETRY Symmetry
PROPERTIES
  VoidedIsTerminal
CHECK_DEADLOCK FALSE
