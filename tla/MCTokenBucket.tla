--------------------------- MODULE MCTokenBucket ---------------------------
(* Model-checking instance of TokenBucket.  Every key can be reclaimed at *)
(* most once per tick, so each key needs 1 + MaxTime \div CleanupTTL     *)
(* allocations and BucketIds never runs out.                             *)
EXTENDS TokenBucket, FiniteSets, TLC

MCBucketIds == 1..(Cardinality(Keys) * (1 + MaxTime \div CleanupTTL))

MCSymmetry == Permutations(Procs)
=============================================================================
