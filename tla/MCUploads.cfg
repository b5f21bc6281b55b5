CONSTANTS
  f1 = f1
  f2 = f2
  Files = {f1}
  Ways = {"matched", "bound"}
  MaxRequests = 6
  MaxOpen = 3
  MaxSows = 3
SPECIFICATION Spec
INVARIANTS
  UploadedOnce
CHECK_DEADLOCK FALSE
