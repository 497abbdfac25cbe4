\* Liveness of cleanup: one caller, one key, the ticker firing twice.
\* No symmetry: it is unsound with liveness checking.
CONSTANTS
  Keys = {k1}
  Procs = {p1}
  NoBucket = NoBucket
  RPM = 60
  Burst = 1
  CleanupTTL = 1
  MaxTime = 4
  Ns = {1}
  BucketIds <- MCBucketIds
SPECIFICATION FairSpec
PROPERTY IdleBucketReclaimed
