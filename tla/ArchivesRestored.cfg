CONSTANTS
  d1 = d1
  d2 = d2
  o1 = o1
  o2 = o2
  h1 = h1
  h2 = h2
  r1 = r1
  r2 = r2
  Deals = {d1}
  Owners = {o1, o2}
  Pages = 2
  PageOf <- OnePerPage
  Handlers = {h1}
  Runs = {r1}
  None = None
  MaxChanges = 2
  MaxRefusals = 1
  MaxIncidents = 1
SPECIFICATION Spec
INVARIANTS
  ArchivedWasDeleted
CHECK_DEADLOCK FALSE
