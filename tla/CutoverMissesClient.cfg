CONSTANTS
  c1 = c1
  c2 = c2
  w1 = w1
  w2 = w2
  Clients = {c1, c2}
  Mirrored = {c2}
  Newcomers = {c2}
  Hinted = {c1}
  Kinds = {"MSA"}
  Runners = {w1, w2}
  Chunk = 1
  MaxBatches = 2
  MaxWrites = 1
  MaxKills = 1
SPECIFICATION Spec
INVARIANT CutoverStampsAll
CHECK_DEADLOCK FALSE
