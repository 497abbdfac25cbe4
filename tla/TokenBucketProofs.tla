------------------------- MODULE TokenBucketProofs -------------------------
(***************************************************************************)
(* Proofs about the token-bucket rate limiter (TokenBucket), for every    *)
(* rpm, burst, cleanup interval and number of keys and goroutines: type   *)
(* correctness, and token conservation of each bucket.                    *)
(***************************************************************************)
EXTENDS TokenBucket, TLAPS

USE TokenBucketAssumption

(***************************************************************************)
(* TypeOK needs two facts to be inductive: lastCheck is never ahead of   *)
(* the clock (so the refill is never negative), and a goroutine between  *)
(* getBucket and the lock holds a bucket that was allocated.             *)
(***************************************************************************)
ClockAhead == \A b \in BucketIds : lastCheck[b] <= now

HeldAllocated == \A p \in Procs : pc[p] = "got" => op[p].b \in used

StoredAllocated == \A k \in Keys : bmap[k] # NoBucket => bmap[k] \in used

TypeInv == TypeOK /\ ClockAhead /\ HeldAllocated /\ StoredAllocated

(***************************************************************************)
(* Token conservation, stated on lastCheck rather than now so that it is *)
(* kept by the passing of time: for every bucket and second t up to its  *)
(* lastCheck, the tokens it holds plus the admissions since t are at most *)
(* burst plus the refill over [t, lastCheck]; after lastCheck there has  *)
(* been no admission, because an admission stamps lastCheck.             *)
(***************************************************************************)
Conservation ==
  \A b \in BucketIds : \A t \in Stamps :
    IF t <= lastCheck[b]
    THEN since[b][t] * 60 + tokens[b] <= Cap * 60 + Rate * (lastCheck[b] - t)
    ELSE since[b][t] = 0

(* A bucket that was never allocated has no admissions. *)
FreshBuckets == \A b \in BucketIds \ used : \A t \in Stamps : since[b][t] = 0

RateInv == TypeInv /\ Conservation /\ FreshBuckets

-----------------------------------------------------------------------------
(* NewTokenBucket's clamp makes the rate and the burst positive. *)
LEMMA RateCapPositive == Rate \in Nat \ {0} /\ Cap \in Nat \ {0}
BY DEF Rate, Cap

(* The refill lies between 0 and burst and never exceeds the uncapped sum. *)
LEMMA RefilledBounds ==
  ASSUME TypeInv, NEW b \in BucketIds
  PROVE  /\ Refilled(b) \in Scaled
         /\ Refilled(b) <= tokens[b] + (now - lastCheck[b]) * Rate
<1>1. /\ tokens[b] \in Scaled
      /\ lastCheck[b] \in Stamps
      /\ lastCheck[b] <= now
      /\ now \in Stamps
  BY DEF TypeInv, TypeOK, ClockAhead
<1>2. (now - lastCheck[b]) * Rate \in Nat
  BY <1>1, RateCapPositive DEF Stamps
<1>. QED
  BY <1>1, <1>2, RateCapPositive DEF Refilled, Scaled

(* AllowN's n is a positive count of tokens. *)
LEMMA AmountType ==
  ASSUME NEW x \in Ns \cup {1}
  PROVE  x \in Nat /\ x * 60 \in Nat /\ x * 60 >= 60
OBVIOUS

(* The cleanup ticker's next firing time is a natural number. *)
LEMMA NextTickType ==
  ASSUME NEW x \in Nat
  PROVE  (x \div CleanupTTL + 1) * CleanupTTL \in Nat
<1>1. x \div CleanupTTL + 1 \in Nat
  OBVIOUS
<1>. QED
  BY <1>1

(* Recording an admission keeps a history a function to Nat. *)
LEMMA CountType ==
  ASSUME NEW h \in [Stamps -> Nat]
  PROVE  Count(h) \in [Stamps -> Nat]
BY DEF Count

LEMMA NoOpType ==
  NoOp \in [kind : Kinds, key : Keys, n : Ns \cup {1}, b : BucketIds \cup {NoBucket}]
BY DEF NoOp, Kinds

LEMMA InitTypeInv == Init => TypeInv
<1>. SUFFICES ASSUME Init PROVE TypeInv
  OBVIOUS
<1>1. (CHOOSE k \in Keys : TRUE) \in Keys
  OBVIOUS
<1>2. 0 \in Scaled /\ 0 \in Stamps
  BY RateCapPositive DEF Scaled, Stamps
<1>3. TypeOK
  BY <1>1, <1>2, NoOpType DEF Init, TypeOK
<1>. QED
  BY <1>3 DEF Init, TypeInv, ClockAhead, HeldAllocated, StoredAllocated

(* getBucket: either the stored bucket, or a fresh full one stamped now. *)
LEMMA RequestTypeInv ==
  ASSUME TypeInv, NEW p \in Procs, Request(p)
  PROVE  TypeInv'
<1>. DEFINE Call(k, kind, n, b) == [kind |-> kind, key |-> k, n |-> n, b |-> b]
<1>1. PICK k \in Keys, kind \in Kinds, n \in Ns :
        /\ \/ /\ bmap[k] # NoBucket
              /\ op' = [op EXCEPT ![p] = Call(k, kind, n, bmap[k])]
              /\ UNCHANGED <<bmap, used, tokens, lastCheck>>
           \/ /\ bmap[k] = NoBucket
              /\ \E b \in BucketIds \ used :
                   /\ bmap' = [bmap EXCEPT ![k] = b]
                   /\ used' = used \cup {b}
                   /\ tokens' = [tokens EXCEPT ![b] = Cap * 60]
                   /\ lastCheck' = [lastCheck EXCEPT ![b] = now]
                   /\ op' = [op EXCEPT ![p] = Call(k, kind, n, b)]
        /\ pc' = [pc EXCEPT ![p] = "got"]
  BY DEF Request
<1>2. UNCHANGED <<now, since, ksince, nextTick, cpc, ckeys, ckey, clast, snow>>
  BY DEF Request, CleanupVars
<1>3. pc' \in [Procs -> {"idle", "got"}]
  BY <1>1 DEF TypeInv, TypeOK
<1>4. CASE /\ bmap[k] # NoBucket
           /\ op' = [op EXCEPT ![p] = Call(k, kind, n, bmap[k])]
           /\ UNCHANGED <<bmap, used, tokens, lastCheck>>
  <2>1. bmap[k] \in used
    BY <1>4 DEF TypeInv, StoredAllocated
  <2>2. TypeOK'
    BY <1>1, <1>2, <1>3, <1>4, <2>1 DEF TypeInv, TypeOK
  <2>3. (ClockAhead /\ StoredAllocated)'
    BY <1>2, <1>4 DEF TypeInv, ClockAhead, StoredAllocated
  <2>4. HeldAllocated'
    BY <1>1, <1>4, <2>1 DEF TypeInv, TypeOK, HeldAllocated
  <2>. QED
    BY <2>2, <2>3, <2>4 DEF TypeInv
<1>5. CASE /\ bmap[k] = NoBucket
           /\ \E b \in BucketIds \ used :
                /\ bmap' = [bmap EXCEPT ![k] = b]
                /\ used' = used \cup {b}
                /\ tokens' = [tokens EXCEPT ![b] = Cap * 60]
                /\ lastCheck' = [lastCheck EXCEPT ![b] = now]
                /\ op' = [op EXCEPT ![p] = Call(k, kind, n, b)]
  <2>1. PICK b \in BucketIds \ used :
          /\ bmap' = [bmap EXCEPT ![k] = b]
          /\ used' = used \cup {b}
          /\ tokens' = [tokens EXCEPT ![b] = Cap * 60]
          /\ lastCheck' = [lastCheck EXCEPT ![b] = now]
          /\ op' = [op EXCEPT ![p] = Call(k, kind, n, b)]
    BY <1>5
  <2>2. Cap * 60 \in Scaled
    BY RateCapPositive DEF Scaled
  <2>3. TypeOK'
    BY <1>1, <1>2, <1>3, <2>1, <2>2 DEF TypeInv, TypeOK
  <2>4. ClockAhead'
    BY <1>2, <2>1 DEF TypeInv, TypeOK, ClockAhead, Stamps
  <2>5. HeldAllocated'
    BY <1>1, <2>1 DEF TypeInv, TypeOK, HeldAllocated
  <2>6. StoredAllocated'
    BY <2>1 DEF TypeInv, TypeOK, StoredAllocated
  <2>. QED
    BY <2>3, <2>4, <2>5, <2>6 DEF TypeInv
<1>. QED
  BY <1>1, <1>4, <1>5

(* A call under b.mu ends: the goroutine drops its bucket pointer. *)
LEMMA FinishTypeInv ==
  ASSUME TypeInv, NEW p \in Procs,
         pc' = [pc EXCEPT ![p] = "idle"], op' = [op EXCEPT ![p] = NoOp]
  PROVE  /\ pc' \in [Procs -> {"idle", "got"}]
         /\ op' \in [Procs -> [kind : Kinds, key : Keys, n : Ns \cup {1},
                               b : BucketIds \cup {NoBucket}]]
         /\ used' = used => HeldAllocated'
BY NoOpType DEF TypeInv, TypeOK, HeldAllocated

(* AllowN: refill, stamp lastCheck, and take n tokens if there are n. *)
LEMMA AllowNTypeInv ==
  ASSUME TypeInv, NEW p \in Procs, AllowN(p)
  PROVE  TypeInv'
<1>. DEFINE b == op[p].b
            t == Refilled(b)
            need == op[p].n * 60
<1>0. pc[p] = "got"
  BY DEF AllowN
<1>1. b \in used /\ b \in BucketIds /\ op[p].key \in Keys /\ need \in Nat
  <2>1. op[p] \in [kind : Kinds, key : Keys, n : Ns \cup {1}, b : BucketIds \cup {NoBucket}]
    BY DEF TypeInv, TypeOK
  <2>2. b \in used /\ used \subseteq BucketIds
    BY <1>0 DEF TypeInv, TypeOK, HeldAllocated
  <2>3. op[p].n \in Ns \cup {1}
    BY <2>1
  <2>4. op[p].n \in Nat
    BY <2>3, AmountType
  <2>. QED
    BY <2>1, <2>2, <2>4
<1>2. t \in Scaled
  BY <1>1, RefilledBounds
<1>3. /\ lastCheck' = [lastCheck EXCEPT ![b] = now]
      /\ UNCHANGED <<now, bmap, used, nextTick, cpc, ckeys, ckey, clast, snow>>
  BY DEF AllowN, CleanupVars
<1>4. /\ pc' \in [Procs -> {"idle", "got"}]
      /\ op' \in [Procs -> [kind : Kinds, key : Keys, n : Ns \cup {1},
                            b : BucketIds \cup {NoBucket}]]
      /\ HeldAllocated'
  BY <1>3, FinishTypeInv DEF AllowN
<1>5. /\ lastCheck' \in [BucketIds -> Stamps]
      /\ ClockAhead'
      /\ StoredAllocated'
  <2>1. lastCheck' \in [BucketIds -> Stamps]
    BY <1>1, <1>3 DEF TypeInv, TypeOK
  <2>2. ClockAhead'
    BY <1>1, <1>3, <2>1 DEF TypeInv, TypeOK, ClockAhead, Stamps
  <2>3. StoredAllocated'
    BY <1>3 DEF TypeInv, StoredAllocated
  <2>. QED
    BY <2>1, <2>2, <2>3
<1>6. /\ tokens' \in [BucketIds -> Scaled]
      /\ since' \in [BucketIds -> [Stamps -> Nat]]
      /\ ksince' \in [Keys -> [Stamps -> Nat]]
  <2>1. CASE t >= need
    <3>2. /\ tokens' = [tokens EXCEPT ![b] = t - need]
          /\ since' = [since EXCEPT ![b] = Count(@)]
          /\ ksince' = [ksince EXCEPT ![op[p].key] = Count(@)]
      BY <2>1 DEF AllowN
    <3>3. t - need \in Scaled
      BY <1>1, <1>2, <2>1, RateCapPositive DEF Scaled
    <3>4. Count(since[b]) \in [Stamps -> Nat] /\ Count(ksince[op[p].key]) \in [Stamps -> Nat]
      BY <1>1, CountType DEF TypeInv, TypeOK
    <3>. QED
      BY <3>2, <3>3, <3>4, <1>1 DEF TypeInv, TypeOK
  <2>5. CASE ~(t >= need)
    <3>6. tokens' = [tokens EXCEPT ![b] = t] /\ UNCHANGED <<since, ksince>>
      BY <2>5 DEF AllowN
    <3>. QED
      BY <3>6, <1>2 DEF TypeInv, TypeOK
  <2>. QED
    BY <2>1, <2>5
<1>. QED
  BY <1>3, <1>4, <1>5, <1>6 DEF TypeInv, TypeOK

(* GetRemaining and GetResetTime leave the bucket as it is. *)
LEMMA ReadOnlyTypeInv ==
  ASSUME TypeInv, NEW p \in Procs, GetRemaining(p) \/ GetResetTime(p)
  PROVE  TypeInv'
<1>1. /\ pc' = [pc EXCEPT ![p] = "idle"] /\ op' = [op EXCEPT ![p] = NoOp]
      /\ UNCHANGED <<now, bmap, used, tokens, lastCheck, since, ksince>>
      /\ UNCHANGED <<nextTick, cpc, ckeys, ckey, clast, snow>>
  BY DEF GetRemaining, GetResetTime, CleanupVars
<1>2. /\ pc' \in [Procs -> {"idle", "got"}]
      /\ op' \in [Procs -> [kind : Kinds, key : Keys, n : Ns \cup {1},
                            b : BucketIds \cup {NoBucket}]]
      /\ HeldAllocated'
  BY <1>1, FinishTypeInv
<1>. QED
  BY <1>1, <1>2 DEF TypeInv, TypeOK, ClockAhead, StoredAllocated

(* The cleanup goroutine: tick, read lastCheck under the lock, decide. *)
LEMMA CleanupTickTypeInv ==
  ASSUME TypeInv, CleanupTick
  PROVE  TypeInv'
<1>0. now \in Nat
  BY DEF TypeInv, TypeOK, Stamps
<1>1. (now \div CleanupTTL + 1) * CleanupTTL \in Nat
  BY <1>0, NextTickType, Zenon
<1>. QED
  BY <1>1 DEF CleanupTick, TypeInv, TypeOK, ClockAhead, HeldAllocated, StoredAllocated

LEMMA CleanupReadTypeInv ==
  ASSUME TypeInv, CleanupRead
  PROVE  TypeInv'
<1>1. PICK k \in ckeys :
        IF bmap[k] # NoBucket
        THEN /\ ckey' = k
             /\ clast' = lastCheck[bmap[k]]
             /\ cpc' = "decide"
             /\ UNCHANGED ckeys
        ELSE /\ ckeys' = ckeys \ {k}
             /\ cpc' = IF ckeys' = {} THEN "idle" ELSE "visit"
             /\ UNCHANGED <<ckey, clast>>
  BY DEF CleanupRead
<1>2. UNCHANGED <<now, nextTick, snow, bmap, used, tokens, lastCheck, pc, op, since, ksince>>
  BY DEF CleanupRead
<1>3. k \in Keys
  BY DEF TypeInv, TypeOK
<1>4. CASE bmap[k] # NoBucket
  <2>1. bmap[k] \in BucketIds
    BY <1>3, <1>4 DEF TypeInv, StoredAllocated, TypeOK
  <2>. QED
    BY <1>1, <1>2, <1>3, <1>4, <2>1
       DEF TypeInv, TypeOK, ClockAhead, HeldAllocated, StoredAllocated
<1>5. CASE bmap[k] = NoBucket
  BY <1>1, <1>2, <1>5 DEF TypeInv, TypeOK, ClockAhead, HeldAllocated, StoredAllocated
<1>. QED
  BY <1>4, <1>5

LEMMA CleanupDecideTypeInv ==
  ASSUME TypeInv, CleanupDecide
  PROVE  TypeInv'
<1>1. bmap' \in [Keys -> BucketIds \cup {NoBucket}] /\ StoredAllocated'
  BY DEF CleanupDecide, TypeInv, TypeOK, StoredAllocated
<1>2. 0 \in Stamps
  BY DEF Stamps
<1>. QED
  BY <1>1, <1>2 DEF CleanupDecide, TypeInv, TypeOK, ClockAhead, HeldAllocated

LEMMA TickTypeInv ==
  ASSUME TypeInv, Tick
  PROVE  TypeInv'
BY DEF Tick, TypeInv, TypeOK, ClockAhead, HeldAllocated, StoredAllocated, Stamps

LEMMA NextTypeInv ==
  ASSUME TypeInv, [Next]_vars
  PROVE  TypeInv'
<1>1. CASE \E p \in Procs : Request(p) \/ AllowN(p) \/ GetRemaining(p) \/ GetResetTime(p)
  BY <1>1, RequestTypeInv, AllowNTypeInv, ReadOnlyTypeInv
<1>2. CASE UNCHANGED vars
  BY <1>2 DEF vars, TypeInv, TypeOK, ClockAhead, HeldAllocated, StoredAllocated
<1>. QED
  BY <1>1, <1>2, CleanupTickTypeInv, CleanupReadTypeInv, CleanupDecideTypeInv,
     TickTypeInv DEF Next

(* The limiter's state keeps its types: in particular a bucket's token  *)
(* count stays in [0, burst], so AllowN's refill never goes negative and *)
(* never exceeds the burst (ratelimit.go, AllowN and the min in it).     *)
THEOREM TypeCorrect == Spec => []TypeOK
<1>1. Init => TypeInv
  BY InitTypeInv
<1>2. TypeInv /\ [Next]_vars => TypeInv'
  BY NextTypeInv
<1>3. TypeInv => TypeOK
  BY DEF TypeInv
<1>. QED
  BY <1>1, <1>2, <1>3, PTL DEF Spec

-----------------------------------------------------------------------------
(***************************************************************************)
(* Token conservation.  The arithmetic of the refill is nonlinear (rate  *)
(* times elapsed time), so it is proved once, over plain integers.       *)
(***************************************************************************)

(* A refill over a non-negative interval is non-negative. *)
LEMMA RefillNonneg ==
  ASSUME NEW R \in Nat, NEW x \in Nat
  PROVE  R * x \in Nat
OBVIOUS

(* The inequality at lastCheck implies the bound at any later now. *)
LEMMA ConservationWeaken ==
  ASSUME NEW C \in Nat, NEW R \in Nat, NEW lc \in Int, NEW nw \in Int,
         NEW s \in Int, NEW sc \in Int, NEW tok \in Nat,
         lc <= nw, sc + tok <= C + R * (lc - s)
  PROVE  sc <= C + R * (nw - s)
<1>1. R * (nw - s) = R * (lc - s) + R * (nw - lc)
  OBVIOUS
<1>2. R * (nw - lc) \in Nat
  BY RefillNonneg
<1>. QED
  BY <1>1, <1>2

LEMMA InitRateInv == Init => RateInv
<1>. SUFFICES ASSUME Init PROVE RateInv
  OBVIOUS
<1>1. TypeInv
  BY InitTypeInv
<1>2. Conservation
  <2>. SUFFICES ASSUME NEW b \in BucketIds, NEW t \in Stamps
                PROVE  IF t <= lastCheck[b]
                       THEN since[b][t] * 60 + tokens[b] <= Cap * 60 + Rate * (lastCheck[b] - t)
                       ELSE since[b][t] = 0
    BY DEF Conservation
  <2>1. lastCheck[b] = 0 /\ tokens[b] = 0 /\ since[b][t] = 0
    BY DEF Init
  <2>2. t <= 0 => Rate * (lastCheck[b] - t) = 0
    BY <2>1, RateCapPositive DEF Stamps
  <2>. QED
    BY <2>1, <2>2, RateCapPositive
<1>. QED
  BY <1>1, <1>2 DEF Init, RateInv, FreshBuckets

(* Any step that leaves the buckets alone keeps conservation: it does   *)
(* not mention the clock.                                                *)
LEMMA UntouchedConservation ==
  ASSUME Conservation, FreshBuckets, UNCHANGED <<used, tokens, lastCheck, since>>
  PROVE  (Conservation /\ FreshBuckets)'
BY DEF Conservation, FreshBuckets

(* getBucket storing a new bucket: it is full, stamped now, and has no *)
(* admissions yet.                                                      *)
LEMMA FreshBucketConservation ==
  ASSUME RateInv, NEW b \in BucketIds \ used,
         used' = used \cup {b},
         tokens' = [tokens EXCEPT ![b] = Cap * 60],
         lastCheck' = [lastCheck EXCEPT ![b] = now],
         UNCHANGED since
  PROVE  (Conservation /\ FreshBuckets)'
<1>1. Conservation'
  <2>. SUFFICES ASSUME NEW c \in BucketIds, NEW t \in Stamps
                PROVE  (IF t <= lastCheck[c]
                        THEN since[c][t] * 60 + tokens[c] <= Cap * 60 + Rate * (lastCheck[c] - t)
                        ELSE since[c][t] = 0)'
    BY DEF Conservation
  <2>1. CASE c = b
    <3>2. since[b][t] = 0
      BY DEF RateInv, FreshBuckets
    <3>3. t <= now => Rate * (now - t) \in Nat
      BY RateCapPositive, RefillNonneg DEF RateInv, TypeInv, TypeOK, Stamps
    <3>. QED
      BY <2>1, <3>2, <3>3, RateCapPositive DEF RateInv, TypeInv, TypeOK
  <2>4. CASE c # b
    BY <2>4 DEF RateInv, TypeInv, TypeOK, Conservation
  <2>. QED
    BY <2>1, <2>4
<1>2. FreshBuckets'
  BY DEF RateInv, FreshBuckets
<1>. QED
  BY <1>1, <1>2

(* AllowN charges its bucket only, and by at most what the refill and   *)
(* the tokens left before it allow.                                      *)
LEMMA AllowNConservation ==
  ASSUME RateInv, NEW p \in Procs, AllowN(p)
  PROVE  (Conservation /\ FreshBuckets)'
<1>. DEFINE b == op[p].b
            t0 == Refilled(b)
            need == op[p].n * 60
            Charged(i) == [s \in Stamps |-> IF s <= now THEN since[b][s] + i ELSE since[b][s]]
<1>1. /\ b \in used /\ b \in BucketIds
      /\ need \in Nat /\ need >= 60
  <2>1. pc[p] = "got"
    BY DEF AllowN
  <2>2. op[p].n \in Ns \cup {1}
    BY DEF RateInv, TypeInv, TypeOK
  <2>3. b \in used /\ used \subseteq BucketIds
    BY <2>1 DEF RateInv, TypeInv, TypeOK, HeldAllocated
  <2>4. need \in Nat /\ need >= 60
    BY <2>2, AmountType
  <2>. QED
    BY <2>3, <2>4
<1>2. /\ t0 \in Scaled
      /\ t0 <= tokens[b] + (now - lastCheck[b]) * Rate
  BY <1>1, RefilledBounds DEF RateInv
<1>3. /\ lastCheck' = [lastCheck EXCEPT ![b] = now]
      /\ UNCHANGED used
  BY DEF AllowN
<1>4. \E i \in {0, 1}, nt \in Nat :
        /\ tokens' = [tokens EXCEPT ![b] = nt]
        /\ nt + i * 60 <= t0
        /\ since' = [since EXCEPT ![b] = Charged(i)]
  <2>1. since[b] = Charged(0)
    BY <1>1 DEF RateInv, TypeInv, TypeOK
  <2>2. CASE t0 >= need
    <3>1. tokens' = [tokens EXCEPT ![b] = t0 - need] /\ since' = [since EXCEPT ![b] = Count(@)]
      BY <2>2 DEF AllowN
    <3>2. Count(since[b]) = Charged(1)
      BY DEF Count
    <3>3. t0 - need \in Nat /\ (t0 - need) + 1 * 60 <= t0
      BY <1>1, <1>2, <2>2, RateCapPositive DEF Scaled
    <3>. QED
      BY <3>1, <3>2, <3>3
  <2>3. CASE ~(t0 >= need)
    <3>1. tokens' = [tokens EXCEPT ![b] = t0] /\ since' = since
      BY <2>3 DEF AllowN
    <3>2. since = [since EXCEPT ![b] = Charged(0)]
      BY <2>1 DEF RateInv, TypeInv, TypeOK
    <3>3. t0 \in Nat /\ t0 + 0 * 60 <= t0
      BY <1>2, RateCapPositive DEF Scaled
    <3>. QED
      BY <3>1, <3>2, <3>3
  <2>. QED
    BY <2>2, <2>3
<1>5. PICK i \in {0, 1}, nt \in Nat :
        /\ tokens' = [tokens EXCEPT ![b] = nt]
        /\ nt + i * 60 <= t0
        /\ since' = [since EXCEPT ![b] = Charged(i)]
  BY <1>4
<1>6. Conservation'
  <2>. SUFFICES ASSUME NEW c \in BucketIds, NEW s \in Stamps
                PROVE  (IF s <= lastCheck[c]
                        THEN since[c][s] * 60 + tokens[c] <= Cap * 60 + Rate * (lastCheck[c] - s)
                        ELSE since[c][s] = 0)'
    BY DEF Conservation
  <2>1. CASE c # b
    BY <2>1, <1>3, <1>5 DEF RateInv, TypeInv, TypeOK, Conservation
  <2>2. CASE c = b
    <3>. DEFINE lc == lastCheck[b]
                sc == since[b][s] * 60
    <3>1. /\ lc \in Stamps /\ lc <= now /\ now \in Stamps
          /\ tokens[b] \in Nat /\ since[b][s] \in Nat
      BY <1>1, RateCapPositive DEF RateInv, TypeInv, TypeOK, ClockAhead, Scaled
    <3>2. /\ s <= lc => sc + tokens[b] <= Cap * 60 + Rate * (lc - s)
          /\ ~(s <= lc) => since[b][s] = 0
      BY <1>1 DEF RateInv, Conservation
    <3>3. lastCheck'[b] = now /\ tokens'[b] = nt /\ since'[b][s] = Charged(i)[s]
      BY <1>1, <1>3, <1>5 DEF RateInv, TypeInv, TypeOK
    <3>4. CASE s <= now
      <4>1. sc + i * 60 + nt <= Cap * 60 + Rate * (now - s)
        <5>1. CASE s <= lc
          <6>1. Rate * (lc - s) + (now - lc) * Rate = Rate * (now - s)
            BY <3>1, RateCapPositive DEF Stamps
          <6>2. sc + i * 60 + nt <= sc + t0
            BY <3>1, <1>2, <1>5, RateCapPositive DEF Scaled
          <6>3. sc + tokens[b] <= Cap * 60 + Rate * (lc - s)
            BY <3>2, <5>1
          <6>. QED
            BY <6>2, <6>3, <1>2, <6>1, <3>1, RateCapPositive DEF Stamps, Scaled
        <5>2. CASE ~(s <= lc)
          <6>1. Rate * (now - s) \in Nat
            BY <3>1, <3>4, RateCapPositive DEF Stamps
          <6>. QED
            BY <3>2, <1>2, <1>5, <5>2, <6>1, RateCapPositive DEF Scaled
        <5>. QED
          BY <5>1, <5>2
      <4>2. since'[b][s] = since[b][s] + i
        BY <3>3, <3>4
      <4>. QED
        BY <2>2, <3>1, <3>3, <3>4, <4>1, <4>2
    <3>5. CASE ~(s <= now)
      BY <2>2, <3>1, <3>2, <3>3, <3>5 DEF Stamps
    <3>. QED
      BY <3>4, <3>5
  <2>. QED
    BY <2>1, <2>2
<1>7. FreshBuckets'
  BY <1>1, <1>3, <1>5 DEF RateInv, TypeInv, TypeOK, FreshBuckets
<1>. QED
  BY <1>6, <1>7

LEMMA NextRateInv ==
  ASSUME RateInv, [Next]_vars
  PROVE  RateInv'
<1>1. TypeInv'
  BY NextTypeInv DEF RateInv
<1>2. (Conservation /\ FreshBuckets)'
  <2>1. CASE UNCHANGED <<used, tokens, lastCheck, since>>
    BY <2>1, UntouchedConservation DEF RateInv
  <2>2. ASSUME NEW p \in Procs, Request(p)
        PROVE  (Conservation /\ FreshBuckets)'
    <3>1. PICK k \in Keys, kind \in Kinds, n \in Ns :
            \/ UNCHANGED <<used, tokens, lastCheck>>
            \/ \E b \in BucketIds \ used :
                 /\ used' = used \cup {b}
                 /\ tokens' = [tokens EXCEPT ![b] = Cap * 60]
                 /\ lastCheck' = [lastCheck EXCEPT ![b] = now]
      BY <2>2 DEF Request
    <3>2. UNCHANGED since
      BY <2>2 DEF Request
    <3>. QED
      BY <3>1, <3>2, UntouchedConservation, FreshBucketConservation DEF RateInv
  <2>3. ASSUME NEW p \in Procs, AllowN(p)
        PROVE  (Conservation /\ FreshBuckets)'
    BY <2>3, AllowNConservation
  <2>. QED
    BY <2>1, <2>2, <2>3
       DEF Next, vars, GetRemaining, GetResetTime, CleanupTick, CleanupRead,
           CleanupDecide, Tick
<1>. QED
  BY <1>1, <1>2 DEF RateInv

(* The invariant gives the bound at the current second: the tokens a    *)
(* bucket holds are never negative, and lastCheck is not ahead of now.  *)
LEMMA RateInvBound == RateInv => InstanceRateBound
<1>. SUFFICES ASSUME RateInv, NEW b \in used, NEW t \in 0..now
              PROVE  since[b][t] * 60 <= Cap * 60 + Rate * (now - t)
  BY DEF InstanceRateBound
<1>1. /\ b \in BucketIds /\ t \in Stamps /\ now \in Stamps
      /\ lastCheck[b] \in Stamps /\ lastCheck[b] <= now
      /\ tokens[b] \in Nat /\ since[b][t] \in Nat
  BY RateCapPositive DEF RateInv, TypeInv, TypeOK, ClockAhead, Stamps, Scaled
<1>2. Rate * (now - t) \in Nat
  BY <1>1, RateCapPositive DEF Stamps
<1>3. CASE t <= lastCheck[b]
  <2>1. since[b][t] * 60 + tokens[b] <= Cap * 60 + Rate * (lastCheck[b] - t)
    BY <1>1, <1>3 DEF RateInv, Conservation
  <2>. QED
    BY <1>1, <2>1, RateCapPositive, ConservationWeaken DEF Stamps
<1>4. CASE ~(t <= lastCheck[b])
  BY <1>1, <1>2, <1>4, RateCapPositive DEF RateInv, Conservation
<1>. QED
  BY <1>3, <1>4

(* Token conservation of one bucket (ratelimit.go AllowN: the refill    *)
(* min(burst, tokens + elapsed * rate), the lastCheck stamp and the      *)
(* mutual exclusion of b.mu): for every rpm, burst and cleanup interval, *)
(* the admissions one bucket grants in any window [t, now] are at most   *)
(* burst plus the refill over the window.                                *)
THEOREM BucketRateBound == Spec => []InstanceRateBound
<1>1. Init => RateInv
  BY InitRateInv
<1>2. RateInv /\ [Next]_vars => RateInv'
  BY NextRateInv
<1>3. RateInv => InstanceRateBound
  BY RateInvBound
<1>. QED
  BY <1>1, <1>2, <1>3, PTL DEF Spec


=============================================================================
