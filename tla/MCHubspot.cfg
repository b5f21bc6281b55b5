CONSTANTS
  d1 = d1
  d2 = d2
  o1 = o1
  o2 = o2
  h1 = h1
  h2 = h2
  r1 = r1
  r2 = r2
  Deals = {d1}
  Owners = {o1}
  Pages = 2
  PageOf <- OnePerPage
  Handlers = {h1}
  Runs = {r1, r2}
  None = None
  MaxChanges = 2
  MaxRefusals = 1
  MaxIncidents = 1
SPECIFICATION FairSpec
INVARIANTS
  TypeOK
PROPERTIES
  MirrorMovesForward
  ScanArchivesDeleted
  CleanScanFresh
  Converges
CHECK_DEADLOCK FALSE
