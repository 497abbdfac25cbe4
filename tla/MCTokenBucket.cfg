CONSTANTS
  Keys = {k1}
  Procs = {p1, p2}
  BucketIds <- MCBucketIds
  NoBucket = NoBucket
  RPM = 60
  Burst = 2
  CleanupTTL = 2
  MaxTime = 4
  Ns = {1, 2}
SPECIFICATION Spec
INVARIANTS TypeOK InstanceRateBound
SYMMETRY MCSymmetry
