---------------------------- MODULE TokenBucket ----------------------------
(***************************************************************************)
(* The gateway's token-bucket rate limiter, src/gateway/ratelimit.go.     *)
(*                                                                         *)
(* Goroutines in Procs call AllowN, GetRemaining and GetResetTime.  Each  *)
(* call first runs getBucket (sync.Map LoadOrStore, action Request) and   *)
(* then its body under the bucket's mutex (actions AllowN, GetRemaining, *)
(* GetResetTime).  A body holds b.mu for its whole run and touches only  *)
(* the fields of its bucket, so it is one atomic step; between getBucket *)
(* and the lock the goroutine holds a bare *bucket pointer.               *)
(*                                                                         *)
(* The cleanup goroutine wakes on a ticker every cleanupTTL, takes now,  *)
(* and ranges over the map: for each key it reads lastCheck under the    *)
(* lock (CleanupRead), unlocks, and then deletes the key if the bucket   *)
(* has been idle for more than cleanupTTL (CleanupDecide).               *)
(*                                                                         *)
(* Time is in whole seconds.  Tokens are kept scaled by 60, so that the  *)
(* float64 rate rpm/60 tokens per second becomes rpm scaled tokens per   *)
(* second and the refill is exact integer arithmetic.                     *)
(***************************************************************************)
EXTENDS Integers

CONSTANTS
  Keys,        \* rate-limit keys (IPs or wallets)
  Procs,       \* goroutines calling the limiter
  BucketIds,   \* identities of *bucket allocations
  NoBucket,    \* the absence of a key in the sync.Map
  RPM,         \* rpm argument of NewTokenBucket
  Burst,       \* burst argument of NewTokenBucket
  CleanupTTL,  \* cleanupTTL, in seconds
  MaxTime,     \* last second the model reaches
  Ns           \* values of n passed to AllowN

ASSUME TokenBucketAssumption ==
  /\ RPM \in Int
  /\ Burst \in Int
  /\ CleanupTTL \in Nat \ {0}
  /\ MaxTime \in Nat
  /\ Ns \subseteq Nat \ {0}
  /\ Keys # {}
  /\ NoBucket \notin BucketIds

VARIABLES
  now,        \* time.Now(), in seconds
  nextTick,   \* when the cleanup ticker fires next
  bmap,       \* tb.buckets: key -> bucket or NoBucket
  used,       \* bucket identities allocated so far
  tokens,     \* b.tokens * 60
  lastCheck,  \* b.lastCheck
  pc,         \* per goroutine: "idle" or "got" (holds a bucket pointer)
  op,         \* per goroutine: the call in progress and its bucket
  cpc,        \* cleanup goroutine: "idle", "visit" or "decide"
  ckeys,      \* keys the current Range has still to visit
  ckey,       \* key being visited
  clast,      \* lastCheck read for ckey
  snow,       \* now taken when the tick was received
  since,      \* history: per bucket, admissions at or after each second
  ksince      \* history: per key, admissions at or after each second

vars == <<now, nextTick, bmap, used, tokens, lastCheck, pc, op,
          cpc, ckeys, ckey, clast, snow, since, ksince>>

(* NewTokenBucket clamps non-positive rpm and burst to 1. *)
Rate == IF RPM <= 0 THEN 1 ELSE RPM
Cap  == IF Burst <= 0 THEN 1 ELSE Burst

Stamps == 0..MaxTime
Scaled == 0..(Cap * 60)

Kinds == {"allow", "remaining", "reset"}

NoOp == [kind |-> "allow", key |-> CHOOSE k \in Keys : TRUE, n |-> 1, b |-> NoBucket]

TypeOK ==
  /\ now \in Stamps
  /\ nextTick \in Nat
  /\ bmap \in [Keys -> BucketIds \cup {NoBucket}]
  /\ used \subseteq BucketIds
  /\ tokens \in [BucketIds -> Scaled]
  /\ lastCheck \in [BucketIds -> Stamps]
  /\ pc \in [Procs -> {"idle", "got"}]
  /\ op \in [Procs -> [kind : Kinds, key : Keys, n : Ns \cup {1},
                       b : BucketIds \cup {NoBucket}]]
  /\ cpc \in {"idle", "visit", "decide"}
  /\ ckeys \subseteq Keys
  /\ ckey \in Keys
  /\ clast \in Stamps
  /\ snow \in Stamps
  /\ since \in [BucketIds -> [Stamps -> Nat]]
  /\ ksince \in [Keys -> [Stamps -> Nat]]

Init ==
  /\ now = 0
  /\ nextTick = CleanupTTL
  /\ bmap = [k \in Keys |-> NoBucket]
  /\ used = {}
  /\ tokens = [b \in BucketIds |-> 0]
  /\ lastCheck = [b \in BucketIds |-> 0]
  /\ pc = [p \in Procs |-> "idle"]
  /\ op = [p \in Procs |-> NoOp]
  /\ cpc = "idle"
  /\ ckeys = {}
  /\ ckey = CHOOSE k \in Keys : TRUE
  /\ clast = 0
  /\ snow = 0
  /\ since = [b \in BucketIds |-> [t \in Stamps |-> 0]]
  /\ ksince = [k \in Keys |-> [t \in Stamps |-> 0]]

(* Mutant: the refill is not capped at the burst. *)
RefilledUncapped(b) == tokens[b] + (now - lastCheck[b]) * Rate

(* The refill shared by AllowN, GetRemaining and GetResetTime:           *)
(* min(burst, tokens + elapsed * rate), scaled.                          *)
Refilled(b) ==
  LET t == tokens[b] + (now - lastCheck[b]) * Rate
  IN IF t < Cap * 60 THEN t ELSE Cap * 60

(* Records one admission at the current second in a history function.  *)
Count(h) == [t \in Stamps |-> IF t <= now THEN h[t] + 1 ELSE h[t]]

CleanupVars == <<nextTick, cpc, ckeys, ckey, clast, snow>>

(***************************************************************************)
(* A call begins: getBucket(key) stores a full bucket stamped now under  *)
(* key unless one is there (LoadOrStore), and returns the stored one.    *)
(***************************************************************************)
Request(p) ==
  /\ pc[p] = "idle"
  /\ \E k \in Keys, kind \in Kinds, n \in Ns :
       /\ \/ /\ bmap[k] # NoBucket
             /\ op' = [op EXCEPT ![p] = [kind |-> kind, key |-> k, n |-> n, b |-> bmap[k]]]
             /\ UNCHANGED <<bmap, used, tokens, lastCheck>>
          \/ /\ bmap[k] = NoBucket
             /\ \E b \in BucketIds \ used :
                  /\ bmap' = [bmap EXCEPT ![k] = b]
                  /\ used' = used \cup {b}
                  /\ tokens' = [tokens EXCEPT ![b] = Cap * 60]
                  /\ lastCheck' = [lastCheck EXCEPT ![b] = now]
                  /\ op' = [op EXCEPT ![p] = [kind |-> kind, key |-> k, n |-> n, b |-> b]]
       /\ pc' = [pc EXCEPT ![p] = "got"]
  /\ UNCHANGED <<now, since, ksince>>
  /\ UNCHANGED CleanupVars

(* Mutant: the refill does not stamp b.lastCheck = now, so the same     *)
(* elapsed time is credited again by the next call.                      *)
AllowNNoStamp(p) ==
  /\ pc[p] = "got"
  /\ op[p].kind = "allow"
  /\ LET b == op[p].b
         t == Refilled(b)
         need == op[p].n * 60
     IN IF t >= need
        THEN /\ tokens' = [tokens EXCEPT ![b] = t - need]
             /\ since' = [since EXCEPT ![b] = Count(@)]
             /\ ksince' = [ksince EXCEPT ![op[p].key] = Count(@)]
        ELSE /\ tokens' = [tokens EXCEPT ![b] = t]
             /\ UNCHANGED <<since, ksince>>
  /\ pc' = [pc EXCEPT ![p] = "idle"]
  /\ op' = [op EXCEPT ![p] = NoOp]
  /\ UNCHANGED <<now, bmap, used, lastCheck>>
  /\ UNCHANGED CleanupVars

(***************************************************************************)
(* AllowN under b.mu: refill, stamp lastCheck, take n tokens if there    *)
(* are n.  The bucket may no longer be in the map.                       *)
(***************************************************************************)
AllowN(p) ==
  /\ pc[p] = "got"
  /\ op[p].kind = "allow"
  /\ LET b == op[p].b
         t == Refilled(b)
         need == op[p].n * 60
     IN /\ lastCheck' = [lastCheck EXCEPT ![b] = now]
        /\ IF t >= need
           THEN /\ tokens' = [tokens EXCEPT ![b] = t - need]
                /\ since' = [since EXCEPT ![b] = Count(@)]
                /\ ksince' = [ksince EXCEPT ![op[p].key] = Count(@)]
           ELSE /\ tokens' = [tokens EXCEPT ![b] = t]
                /\ UNCHANGED <<since, ksince>>
  /\ pc' = [pc EXCEPT ![p] = "idle"]
  /\ op' = [op EXCEPT ![p] = NoOp]
  /\ UNCHANGED <<now, bmap, used>>
  /\ UNCHANGED CleanupVars

(* GetRemaining under b.mu: computes floor(refilled tokens) and changes  *)
(* nothing in the bucket.                                                 *)
GetRemaining(p) ==
  /\ pc[p] = "got"
  /\ op[p].kind = "remaining"
  /\ pc' = [pc EXCEPT ![p] = "idle"]
  /\ op' = [op EXCEPT ![p] = NoOp]
  /\ UNCHANGED <<now, bmap, used, tokens, lastCheck, since, ksince>>
  /\ UNCHANGED CleanupVars

(* GetResetTime under b.mu: computes when the bucket is full and changes *)
(* nothing in the bucket.                                                 *)
GetResetTime(p) ==
  /\ pc[p] = "got"
  /\ op[p].kind = "reset"
  /\ pc' = [pc EXCEPT ![p] = "idle"]
  /\ op' = [op EXCEPT ![p] = NoOp]
  /\ UNCHANGED <<now, bmap, used, tokens, lastCheck, since, ksince>>
  /\ UNCHANGED CleanupVars

(***************************************************************************)
(* cleanup: the ticker fires; now is taken once for the whole Range.  A  *)
(* tick that fell during the previous Range is buffered, later ones are  *)
(* dropped.                                                               *)
(***************************************************************************)
CleanupTick ==
  /\ cpc = "idle"
  /\ now >= nextTick
  /\ nextTick' = (now \div CleanupTTL + 1) * CleanupTTL
  /\ snow' = now
  /\ ckeys' = Keys
  /\ cpc' = "visit"
  /\ UNCHANGED <<now, bmap, used, tokens, lastCheck, pc, op, ckey, clast, since, ksince>>

(* Range reaches a key: if it is still stored, read its lastCheck under *)
(* the lock; a key with no bucket is passed over.                        *)
CleanupRead ==
  /\ cpc = "visit"
  /\ \E k \in ckeys :
       IF bmap[k] # NoBucket
       THEN /\ ckey' = k
            /\ clast' = lastCheck[bmap[k]]
            /\ cpc' = "decide"
            /\ UNCHANGED ckeys
       ELSE /\ ckeys' = ckeys \ {k}
            /\ cpc' = IF ckeys' = {} THEN "idle" ELSE "visit"
            /\ UNCHANGED <<ckey, clast>>
  /\ UNCHANGED <<now, nextTick, snow, bmap, used, tokens, lastCheck, pc, op, since, ksince>>

(* Mutant: the idle time is computed as lastCheck.Sub(now), the wrong    *)
(* way round, so no bucket is ever old enough to be deleted.             *)
CleanupDecideReversed ==
  /\ cpc = "decide"
  /\ bmap' = IF clast - snow > CleanupTTL
             THEN [bmap EXCEPT ![ckey] = NoBucket]
             ELSE bmap
  /\ ckeys' = ckeys \ {ckey}
  /\ cpc' = IF ckeys' = {} THEN "idle" ELSE "visit"
  /\ clast' = 0
  /\ UNCHANGED <<now, nextTick, snow, ckey, used, tokens, lastCheck, pc, op, since, ksince>>

(* After the unlock: Delete(key) if now - lastCheck > cleanupTTL. *)
CleanupDecide ==
  /\ cpc = "decide"
  /\ bmap' = IF snow - clast > CleanupTTL
             THEN [bmap EXCEPT ![ckey] = NoBucket]
             ELSE bmap
  /\ ckeys' = ckeys \ {ckey}
  /\ cpc' = IF ckeys' = {} THEN "idle" ELSE "visit"
  /\ clast' = 0
  /\ UNCHANGED <<now, nextTick, snow, ckey, used, tokens, lastCheck, pc, op, since, ksince>>

(* Time passes. *)
Tick ==
  /\ now < MaxTime
  /\ now' = now + 1
  /\ UNCHANGED <<nextTick, bmap, used, tokens, lastCheck, pc, op, since, ksince>>
  /\ UNCHANGED <<cpc, ckeys, ckey, clast, snow>>

Next ==
  \/ \E p \in Procs : Request(p) \/ AllowN(p) \/ GetRemaining(p) \/ GetResetTime(p)
  \/ CleanupTick \/ CleanupRead \/ CleanupDecide
  \/ Tick

Spec == Init /\ [][Next]_vars

(***************************************************************************)
(* The cleanup goroutine is always runnable: once its ticker is due it    *)
(* gets to receive the tick, and it runs its Range to the end (a bucket    *)
(* mutex is held only for a short AllowN body).  Callers are not assumed  *)
(* to make progress: requests may stop at any time.                       *)
(***************************************************************************)
CleanupFairness ==
  /\ WF_vars(CleanupTick)
  /\ WF_vars(CleanupRead)
  /\ WF_vars(CleanupDecide)

FairSpec == Spec /\ CleanupFairness

-----------------------------------------------------------------------------
(***************************************************************************)
(* Properties.                                                            *)
(***************************************************************************)

(* Token conservation of one bucket (refill formula, min(burst, ...),    *)
(* lastCheck update, mutual exclusion of b.mu): in every window of time  *)
(* [t, now], the admissions charged to one bucket are at most burst plus *)
(* what the rate refills in the window.                                  *)
InstanceRateBound ==
  \A b \in used : \A t \in 0..now :
    since[b][t] * 60 <= Cap * 60 + Rate * (now - t)

(* The same bound per key, across the buckets the key is given over     *)
(* time: what the spec promises a caller (4.3, 8), given that cleanup   *)
(* only reclaims a bucket that has been idle long enough to be full.    *)
KeyRateBound ==
  \A k \in Keys : \A t \in 0..now :
    ksince[k][t] * 60 <= Cap * 60 + Rate * (now - t)

(* Idle buckets are reclaimed (cleanup's purpose, "prevents memory      *)
(* leaks from inactive users"): once the ticker is due and a stored       *)
(* bucket has been idle for more than cleanupTTL, the key eventually no   *)
(* longer maps to that bucket, unless the bucket is used again first.     *)
IdleBucketReclaimed ==
  \A k \in Keys, b \in BucketIds :
    (/\ bmap[k] = b /\ cpc = "idle" /\ now >= nextTick
     /\ now - lastCheck[b] > CleanupTTL)
      ~> (bmap[k] # b \/ now - lastCheck[b] <= CleanupTTL)

=============================================================================
