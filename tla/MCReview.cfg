CONSTANTS
  o = o
  a = a
  b = b
  c = c
  d = d
  e = e
  x = x
  s1 = s1
  s2 = s2
  Users <- People
  NoOne = NoOne
  Owners = {o}
  Deciders = {x}
  InitRoster <- SmallRoster
  Replacements <- Repairs
  GroupChoices <- Choices
  Approvers <- People
  Refusers = {c, e}
  Results = {}
  Outcomes = {"clear", "below"}
  Sessions = {s1, s2}
  Ops = {"ceo", "void", "route", "repair"}
  MaxSow = 1
  MaxGm = 1
  MaxPkg = 1
  MaxUpload = 0
  MaxMail = 0
SPECIFICATION Spec
INVARIANTS
  TypeOK
  SignableFullyApproved
  FourEyes
  CeoGate
  RefusalIsFinal
  StagesInOrder
PROPERTIES
  ImplementsGate
  TaskLostOnlyWhenOvertaken
CHECK_DEADLOCK FALSE
SYMMETRY Symmetry
