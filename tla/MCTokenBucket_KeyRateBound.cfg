CONSTANTS
  Keys = {k1}
  Procs = {p1, p2}
  BucketIds <- MCBucketIds
  NoBucket = NoBucket
  RPM = 60
  Burst = 1
  CleanupTTL = 1
  MaxTime = 3
  Ns = {1}
SPECIFICATION Spec
INVARIANT KeyRateBound
SYMMETRY MCSymmetry
