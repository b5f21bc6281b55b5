CONSTANTS
  f1 = f1
  f2 = f2
  Files = {f1}
  Ways = {"matched"}
  MaxRequests = 2
  MaxOpen = 1
  MaxSows = 1
SPECIFICATION Spec
INVARIANT DuplicatesAreLive
CHECK_DEADLOCK FALSE
