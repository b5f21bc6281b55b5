CONSTANTS
  o = o
  a = a
  b = b
  c = c
  d = d
  e = e
  x = x
  s1 = s1
  s2 = s2
  Users <- People
  NoOne = NoOne
  Owners = {o}
  Deciders = {x}
  InitRoster <- SmallRoster
  Replacements = {}
  GroupChoices = {}
  Approvers = {a}
  Refusers = {b}
  Results = {}
  Outcomes = {"clear"}
  Sessions = {s1, s2}
  Ops = {"revise", "discard", "delete"}
  MaxSow = 2
  MaxGm = 2
  MaxPkg = 2
  MaxUpload = 0
  MaxMail = 0
SPECIFICATION Spec
SYMMETRY Symmetry
INVARIANTS
  PinnedVersionKept
  CurrentReviewPricesCurrent
CHECK_DEADLOCK FALSE
