SPECIFICATION Spec
CONSTANTS
  fixed = fixed
  free = free
  f1 = f1
  f2 = f2
  Leases = {fixed, free}
  Fixed = {fixed}
  Files = {f1, f2}
  MaxChanges = 1
  MaxPasses = 2
  MaxVersion = 2
  MaxFaults = 1
INVARIANTS LeasedIsWatched
CHECK_DEADLOCK FALSE
SYMMETRY FileSymmetry
