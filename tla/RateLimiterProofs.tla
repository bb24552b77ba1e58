-------------------------- MODULE RateLimiterProofs --------------------------
(***************************************************************************)
(* Theorems about RateLimiter, for any keys, calls, limit and time.        *)
(***************************************************************************)
EXTENDS RateLimiter, FiniteSetTheorems, TLAPS

USE LimitAssumption, CleanupAssumption, WindowAssumption

----------------------------------------------------------------------------
(* The critical section of incrementLocal *)

(* cleanupLocal only drops buckets, none of the current minute, and all of *)
(* the earlier ones when the map has reached its size.                     *)
LEMMA CleanedBuckets ==
  ASSUME TypeOK
  PROVE  /\ DOMAIN Cleaned \subseteq DOMAIN local
         /\ \A k \in DOMAIN Cleaned : Cleaned[k] = local[k]
         /\ \A k \in DOMAIN local : local[k].window >= now => k \in DOMAIN Cleaned
         /\ \/ Cardinality(DOMAIN local) < CleanupAt /\ Cleaned = local
            \/ ~(Cardinality(DOMAIN local) < CleanupAt)
                 /\ \A k \in DOMAIN Cleaned : local[k].window >= now
BY DEF Cleaned

(* The bucket a call is counted in, and what becomes of the others. *)
LEMMA LocalStep ==
  ASSUME TypeOK, NEW c \in Calls, IncrementLocal(c)
  PROVE  \E n \in Nat \ {0} :
            /\ Decide(c, n, "local", now)
            /\ DOMAIN local' = DOMAIN Cleaned \cup {call[c].key}
            /\ local'[call[c].key] = [window |-> now, count |-> n]
            /\ \A k \in DOMAIN local' : k # call[c].key => local'[k] = local[k]
            /\ n = IF call[c].key \in DOMAIN local /\ local[call[c].key].window = now
                   THEN local[call[c].key].count + 1 ELSE 1
<1> DEFINE k == call[c].key
           n == CountIn(Cleaned, k, now)
<1>1. \A q \in DOMAIN local : local[q] \in [window : Windows, count : Nat]
  BY DEF TypeOK, Bucket
<1>2. now \in Nat
  BY DEF TypeOK, Windows
<1>3. n = IF k \in DOMAIN local /\ local[k].window = now THEN local[k].count + 1 ELSE 1
  <2>1. CASE k \in DOMAIN local /\ local[k].window = now
    BY <1>2, <2>1, CleanedBuckets DEF CountIn
  <2>2. CASE ~(k \in DOMAIN local /\ local[k].window = now)
    BY <2>2, CleanedBuckets DEF CountIn
  <2> QED
    BY <2>1, <2>2
<1>4. n \in Nat \ {0}
  BY <1>1, <1>3
<1>5. local' = WithBucket(Cleaned, k, [window |-> now, count |-> n])
        /\ Decide(c, n, "local", now)
  BY DEF IncrementLocal
<1>6. /\ DOMAIN local' = DOMAIN Cleaned \cup {k}
      /\ local'[k] = [window |-> now, count |-> n]
      /\ \A q \in DOMAIN local' : q # k => local'[q] = local[q]
  <2> HIDE DEF n
  <2> QED
    BY <1>5, CleanedBuckets DEF WithBucket
<1> HIDE DEF n
<1> QED
  BY <1>3, <1>4, <1>5, <1>6

----------------------------------------------------------------------------
(* Type correctness *)

LEMMA TypeInit == Init => TypeOK
BY DEF Init, TypeOK, Windows, NoCounter, NoBuckets, Bucket

(* Deciding a call moves that call only, and to a verdict. *)
LEMMA DecideTypes ==
  ASSUME TypeOK, NEW c \in Calls, NEW n \in Nat, NEW counter \in {"redis", "local"},
         NEW w \in Windows, Decide(c, n, counter, w)
  PROVE  /\ pc' \in [Calls -> {"waiting", "sent", "failed", "admitted", "rejected"}]
         /\ call' \in [Calls -> [key : Keys, arrived : Windows,
                                 by : {"nobody", "redis", "local"}, window : Windows]]
BY DEF TypeOK, Decide, Verdict

LEMMA TypeNext == TypeOK /\ [Next]_vars => TypeOK'
<1> SUFFICES ASSUME TypeOK, [Next]_vars
             PROVE  TypeOK'
  OBVIOUS
<1>1. CASE Tick
  <2>1. now' \in Windows
    BY <1>1 DEF Tick, TypeOK, Windows
  <2> QED
    BY <1>1, <2>1 DEF Tick, TypeOK, Bucket
<1>2. ASSUME NEW k \in Keys, NEW w \in Windows, Expire(k, w)
      PROVE  TypeOK'
  <2>1. NoCounter \in [count : Nat, touched : Windows]
    BY DEF NoCounter, Windows
  <2> QED
    BY <1>2, <2>1 DEF Expire, TypeOK, Bucket
<1>3. ASSUME NEW c \in Calls, Arrive(c)
      PROVE  TypeOK'
  BY <1>3 DEF Arrive, TypeOK, Bucket
<1>4. ASSUME NEW k \in Keys, NEW w \in Windows
      PROVE  Incremented(k, w) \in [Keys -> [Windows -> [count : Nat, touched : Windows]]]
  <2>1. [count |-> redis[k][w].count + 1, touched |-> now] \in [count : Nat, touched : Windows]
    BY DEF TypeOK
  <2> QED
    BY <2>1 DEF Incremented, TypeOK
<1>5. ASSUME NEW c \in Calls, Exec(c)
      PROVE  TypeOK'
  <2>1. call[c].key \in Keys /\ call[c].arrived \in Windows
    BY DEF TypeOK
  <2>2. redis[call[c].key][call[c].arrived].count + 1 \in Nat
    BY <2>1 DEF TypeOK
  <2>3. redis' \in [Keys -> [Windows -> [count : Nat, touched : Windows]]]
    BY <1>4, <1>5, <2>1 DEF Exec
  <2> QED
    BY <1>5, <2>1, <2>2, <2>3, DecideTypes DEF Exec, TypeOK, Bucket
<1>6. ASSUME NEW c \in Calls, ExecFails(c)
      PROVE  TypeOK'
  <2>1. call[c].key \in Keys /\ call[c].arrived \in Windows
    BY DEF TypeOK
  <2>2. redis' \in [Keys -> [Windows -> [count : Nat, touched : Windows]]]
    <3>1. CASE redis' = redis
      BY <3>1 DEF TypeOK
    <3>2. CASE redis' = Incremented(call[c].key, call[c].arrived)
      BY <1>4, <2>1, <3>2
    <3> QED
      BY <1>6, <3>1, <3>2 DEF ExecFails
  <2> QED
    BY <1>6, <2>2 DEF ExecFails, TypeOK, Bucket
<1>7. ASSUME NEW c \in Calls, IncrementLocal(c)
      PROVE  TypeOK'
  <2>1. PICK n \in Nat \ {0} :
            /\ Decide(c, n, "local", now)
            /\ DOMAIN local' = DOMAIN Cleaned \cup {call[c].key}
            /\ local'[call[c].key] = [window |-> now, count |-> n]
            /\ \A k \in DOMAIN local' : k # call[c].key => local'[k] = local[k]
    BY <1>7, LocalStep
  <2>2. now \in Windows /\ call[c].key \in Keys
    BY DEF TypeOK
  <2>3. DOMAIN local' \subseteq Keys
    BY <2>1, <2>2, CleanedBuckets DEF TypeOK
  <2>4. \A k \in DOMAIN local' : local'[k] \in Bucket
    BY <2>1, <2>2, CleanedBuckets DEF TypeOK, Bucket
  <2> QED
    BY <1>7, <2>1, <2>2, <2>3, <2>4, DecideTypes DEF IncrementLocal, TypeOK
<1>8. CASE Idle \/ UNCHANGED vars
  BY <1>8 DEF Idle, vars, TypeOK, Bucket
<1> QED
  BY <1>1, <1>2, <1>3, <1>5, <1>6, <1>7, <1>8 DEF Next

(* Counters, buckets and calls stay what their names say (ratelimit.go). *)
THEOREM TypeCorrect == Spec => []TypeOK
<1>1. Init => TypeOK
  BY TypeInit
<1>2. TypeOK /\ [Next]_vars => TypeOK'
  BY TypeNext
<1> QED
  BY <1>1, <1>2, PTL DEF Spec

----------------------------------------------------------------------------
(* The map of buckets *)

BucketsInv ==
    /\ IsFiniteSet(DOMAIN local)
    /\ \A k \in DOMAIN local : local[k].window <= now
    /\ StaleBucketsBounded

LEMMA BucketsNext ==
  ASSUME TypeOK, BucketsInv, [Next]_vars
  PROVE  BucketsInv'
<1>1. now \in Nat /\ \A k \in DOMAIN local : local[k].window \in Nat
  BY DEF TypeOK, Bucket, Windows
<1>2. CASE Tick
  <2>1. \A k \in DOMAIN local : local[k].window <= now'
    BY <1>1, <1>2 DEF Tick, BucketsInv
  <2> QED
    BY <1>2, <2>1 DEF Tick, BucketsInv, StaleBucketsBounded
<1>3. CASE UNCHANGED <<now, local>>
  BY <1>3 DEF BucketsInv, StaleBucketsBounded
<1>4. ASSUME NEW c \in Calls, IncrementLocal(c)
      PROVE  BucketsInv'
  <2> DEFINE k == call[c].key
  <2>1. PICK n \in Nat \ {0} :
            /\ DOMAIN local' = DOMAIN Cleaned \cup {k}
            /\ local'[k] = [window |-> now, count |-> n]
            /\ \A q \in DOMAIN local' : q # k => local'[q] = local[q]
    BY <1>4, LocalStep
  <2>2. now' = now
    BY <1>4 DEF IncrementLocal
  <2>3. IsFiniteSet(DOMAIN Cleaned)
    BY CleanedBuckets, FS_Subset DEF BucketsInv
  <2>4. IsFiniteSet(DOMAIN local')
    BY <2>1, <2>3, FS_AddElement
  <2>5. \A q \in DOMAIN local' : local'[q].window <= now'
    BY <1>1, <2>1, <2>2, CleanedBuckets DEF BucketsInv
  <2>6. CASE Cardinality(DOMAIN local) < CleanupAt
    <3>1. DOMAIN Cleaned = DOMAIN local
      BY <2>6, CleanedBuckets
    <3>2. Cardinality(DOMAIN local') <= Cardinality(DOMAIN local) + 1
      <4>1. Cardinality(DOMAIN local \cup {k}) =
              IF k \in DOMAIN local THEN Cardinality(DOMAIN local)
              ELSE Cardinality(DOMAIN local) + 1
        BY FS_AddElement DEF BucketsInv
      <4>2. Cardinality(DOMAIN local) \in Nat
        BY FS_CardinalityType DEF BucketsInv
      <4>3. DOMAIN local' = DOMAIN local \cup {k}
        BY <2>1, <3>1
      <4> QED
        BY <4>1, <4>2, <4>3
    <3>3. Cardinality(DOMAIN local) \in Nat /\ Cardinality(DOMAIN local') \in Nat
      BY <2>4, FS_CardinalityType DEF BucketsInv
    <3>4. ~(Cardinality(DOMAIN local') > CleanupAt)
      BY <2>6, <3>2, <3>3
    <3> QED
      BY <2>4, <2>5, <3>4 DEF BucketsInv, StaleBucketsBounded
  <2>7. CASE ~(Cardinality(DOMAIN local) < CleanupAt)
    <3>1. \A q \in DOMAIN Cleaned : local[q].window = now
      BY <1>1, <2>7, CleanedBuckets DEF BucketsInv
    <3>2. \A q \in DOMAIN local' : local'[q].window = now
      BY <2>1, <3>1
    <3> QED
      BY <2>4, <2>5, <3>2 DEF BucketsInv, StaleBucketsBounded
  <2> QED
    BY <2>6, <2>7
<1> QED
  BY <1>2, <1>3, <1>4 DEF Next, Expire, Arrive, Exec, ExecFails, Idle, vars

(***************************************************************************)
(* The map outgrows the size at which it is cleaned only with keys of one  *)
(* single minute, for any size and any number of keys (cleanupLocal).      *)
(***************************************************************************)
THEOREM OldBucketsAreDropped == Spec => []StaleBucketsBounded
<1>1. Init => BucketsInv
  BY FS_EmptySet DEF Init, NoBuckets, BucketsInv, StaleBucketsBounded
<1>2. TypeOK /\ BucketsInv /\ [Next]_vars => BucketsInv'
  BY BucketsNext
<1>3. BucketsInv => StaleBucketsBounded
  BY DEF BucketsInv
<1> QED
  BY <1>1, <1>2, <1>3, TypeCorrect, PTL DEF Spec

----------------------------------------------------------------------------
(* Admissions *)

Counters == {"redis", "local"}

LEMMA AdmittedFinite ==
  ASSUME NEW k, NEW w, NEW b
  PROVE  /\ IsFiniteSet(Admitted(k, w, b))
         /\ Cardinality(Admitted(k, w, b)) \in Nat
BY CallsAssumption, FS_Subset, FS_CardinalityType DEF Admitted

(* A decided call joins the calls its counter has admitted, or none. *)
LEMMA DecideAdmits ==
  ASSUME TypeOK, NEW c \in Calls, NEW n \in Nat, NEW b \in Counters, NEW w \in Windows,
         pc[c] # "admitted", Decide(c, n, b, w),
         NEW k \in Keys, NEW v \in Windows, NEW a \in Counters
  PROVE  IF n <= Limit /\ k = call[c].key /\ v = w /\ a = b
         THEN /\ Admitted(k, v, a)' = Admitted(k, v, a) \cup {c}
              /\ Cardinality(Admitted(k, v, a)') = Cardinality(Admitted(k, v, a)) + 1
         ELSE Admitted(k, v, a)' = Admitted(k, v, a)
<1>1. \A d \in Calls : d # c => pc'[d] = pc[d] /\ call'[d] = call[d]
  BY DEF TypeOK, Decide
<1>2. /\ pc'[c] = IF n > Limit THEN "rejected" ELSE "admitted"
      /\ call'[c].key = call[c].key /\ call'[c].by = b /\ call'[c].window = w
  BY DEF TypeOK, Decide, Verdict
<1>3. CASE n <= Limit /\ k = call[c].key /\ v = w /\ a = b
  <2>1. pc'[c] = "admitted"
    BY <1>2, <1>3
  <2>2. Admitted(k, v, a)' = Admitted(k, v, a) \cup {c}
    BY <1>1, <1>2, <1>3, <2>1 DEF Admitted
  <2>3. c \notin Admitted(k, v, a)
    BY DEF Admitted
  <2>4. Cardinality(Admitted(k, v, a) \cup {c}) = Cardinality(Admitted(k, v, a)) + 1
    BY <2>3, AdmittedFinite, FS_AddElement
  <2>5. Cardinality(Admitted(k, v, a)') = Cardinality(Admitted(k, v, a)) + 1
    BY <2>2, <2>4
  <2> QED
    BY <1>3, <2>2, <2>5
<1>4. CASE ~(n <= Limit /\ k = call[c].key /\ v = w /\ a = b)
  <2>1. ~(pc'[c] = "admitted" /\ call'[c].key = k /\ call'[c].by = a /\ call'[c].window = v)
    BY <1>2, <1>4
  <2> QED
    BY <1>1, <1>4, <2>1 DEF Admitted
<1> QED
  BY <1>3, <1>4

(* Steps that decide no call leave the admitted calls alone. *)
LEMMA OthersAdmitNone ==
  ASSUME TypeOK, NEW c \in Calls, Arrive(c) \/ ExecFails(c),
         NEW k \in Keys, NEW v \in Windows, NEW a \in Counters
  PROVE  Admitted(k, v, a)' = Admitted(k, v, a)
<1>1. \A d \in Calls : d # c => pc'[d] = pc[d] /\ call'[d] = call[d]
  BY DEF TypeOK, Arrive, ExecFails
<1>2. pc[c] # "admitted" /\ pc'[c] # "admitted"
  BY DEF TypeOK, Arrive, ExecFails
<1> QED
  BY <1>1, <1>2 DEF Admitted

(***************************************************************************)
(* What each counter knows of the calls it has admitted.  Redis: as long   *)
(* as the counter may still be used, it has counted them all; a call is    *)
(* executed at most a minute after its own, and the counter lives longer.  *)
(***************************************************************************)
RedisInv ==
    \A k \in Keys, w \in Windows :
        /\ Cardinality(Admitted(k, w, "redis")) <= Limit
        /\ now <= w + 1 => Cardinality(Admitted(k, w, "redis")) <= redis[k][w].count
        /\ redis[k][w].count > 0 => w <= redis[k][w].touched

LocalInv ==
    \A k \in Keys, w \in Windows :
        /\ Cardinality(Admitted(k, w, "local")) <= Limit
        /\ w > now => Admitted(k, w, "local") = {}
        /\ w = now => IF k \in DOMAIN local /\ local[k].window = now
                      THEN Cardinality(Admitted(k, w, "local")) <= local[k].count
                      ELSE Admitted(k, w, "local") = {}

Arrived == \A c \in Calls : call[c].arrived <= now

LEMMA ArrivedNext ==
  ASSUME TypeOK, Arrived, [Next]_vars
  PROVE  Arrived'
<1> USE DEF Arrived
<1>1. now \in Nat /\ \A c \in Calls : call[c].arrived \in Nat
  BY DEF TypeOK, Windows
<1>2. CASE Tick
  BY <1>1, <1>2 DEF Tick
<1>3. ASSUME NEW c \in Calls, Arrive(c)
      PROVE  Arrived'
  <2>1. \A d \in Calls : call'[d].arrived = IF d = c THEN now ELSE call[d].arrived
    BY <1>3 DEF Arrive, TypeOK
  <2> QED
    BY <1>1, <1>3, <2>1 DEF Arrive
<1>4. ASSUME NEW c \in Calls, NEW n, NEW b, NEW w, Decide(c, n, b, w), now' = now
      PROVE  Arrived'
  <2>1. \A d \in Calls : call'[d].arrived = call[d].arrived
    BY <1>4 DEF Decide, TypeOK
  <2> QED
    BY <1>4, <2>1
<1>5. ASSUME NEW c \in Calls, Exec(c) \/ IncrementLocal(c)
      PROVE  Arrived'
  BY <1>4, <1>5 DEF Exec, IncrementLocal
<1>6. CASE UNCHANGED <<now, call>>
  BY <1>6
<1> QED
  BY <1>2, <1>3, <1>5, <1>6 DEF Next, Expire, ExecFails, Idle, vars

(* An INCR raises one counter by one and marks it used now. *)
LEMMA IncrementedCounter ==
  ASSUME TypeOK, NEW q \in Keys, NEW v \in Windows, redis' = Incremented(q, v),
         NEW k \in Keys, NEW w \in Windows
  PROVE  IF k = q /\ w = v
         THEN redis'[k][w] = [count |-> redis[k][w].count + 1, touched |-> now]
         ELSE redis'[k][w] = redis[k][w]
BY DEF TypeOK, Incremented

LEMMA RedisNext ==
  ASSUME TypeOK, Arrived, RedisInv, Patience <= 1, [Next]_vars
  PROVE  RedisInv'
<1> SUFFICES ASSUME NEW k \in Keys, NEW w \in Windows
             PROVE  /\ Cardinality(Admitted(k, w, "redis")') <= Limit
                    /\ now' <= w + 1 =>
                         Cardinality(Admitted(k, w, "redis")') <= redis'[k][w].count
                    /\ redis'[k][w].count > 0 => w <= redis'[k][w].touched
  BY DEF RedisInv
<1> DEFINE A == Admitted(k, w, "redis")
<1>1. /\ now \in Nat /\ w \in Nat
      /\ redis[k][w].count \in Nat /\ redis[k][w].touched \in Nat
  <2>1. now \in Windows /\ w \in Windows
        /\ redis[k][w].count \in Nat /\ redis[k][w].touched \in Windows
    BY DEF TypeOK
  <2> QED
    BY <2>1 DEF Windows
<1>2. Cardinality(A) \in Nat
  BY AdmittedFinite
<1>3. /\ Cardinality(A) <= Limit
      /\ now <= w + 1 => Cardinality(A) <= redis[k][w].count
      /\ redis[k][w].count > 0 => w <= redis[k][w].touched
  BY DEF RedisInv
<1>4. CASE Tick
  <2>1. A' = A
    BY <1>4 DEF Tick, Admitted
  <2>2. redis' = redis /\ now' = now + 1
    BY <1>4 DEF Tick
  <2> QED
    BY <1>1, <1>2, <1>3, <2>1, <2>2
<1>5. ASSUME NEW q \in Keys, NEW v \in Windows, Expire(q, v)
      PROVE  /\ Cardinality(A') <= Limit
             /\ now' <= w + 1 => Cardinality(A') <= redis'[k][w].count
             /\ redis'[k][w].count > 0 => w <= redis'[k][w].touched
  <2>1. A' = A /\ now' = now
    BY <1>5 DEF Expire, Admitted
  <2> HIDE DEF A
  <2>2. CASE k = q /\ w = v
    <3>1. redis'[k][w].count = 0
      BY <1>5, <2>2 DEF Expire, TypeOK, NoCounter
    <3>2. now >= w + 2
      BY <1>1, <1>3, <1>5, <2>2 DEF Expire, Lapsed
    <3> QED
      BY <1>1, <1>2, <1>3, <2>1, <3>1, <3>2
  <2>3. CASE ~(k = q /\ w = v)
    <3>1. redis'[k][w] = redis[k][w]
      BY <1>5, <2>3 DEF Expire, TypeOK
    <3> QED
      BY <1>3, <2>1, <3>1
  <2> QED
    BY <2>2, <2>3
<1>6. ASSUME NEW c \in Calls, Exec(c)
      PROVE  /\ Cardinality(A') <= Limit
             /\ now' <= w + 1 => Cardinality(A') <= redis'[k][w].count
             /\ redis'[k][w].count > 0 => w <= redis'[k][w].touched
  <2> DEFINE q == call[c].key
             v == call[c].arrived
             n == redis[q][v].count + 1
  <2>1. q \in Keys /\ v \in Windows /\ v <= now
    BY DEF TypeOK, Arrived
  <2>2. /\ now' = now /\ now <= v + Patience /\ pc[c] # "admitted"
        /\ redis' = Incremented(q, v) /\ Decide(c, n, "redis", v)
    BY <1>6 DEF Exec, InTime
  <2>3. n \in Nat
    BY <2>1 DEF TypeOK
  <2>4. IF n <= Limit /\ k = q /\ w = v
        THEN Cardinality(A') = Cardinality(A) + 1
        ELSE A' = A
    BY <2>1, <2>2, <2>3, DecideAdmits DEF Counters
  <2>5. IF k = q /\ w = v
        THEN redis'[k][w] = [count |-> redis[k][w].count + 1, touched |-> now]
        ELSE redis'[k][w] = redis[k][w]
    BY <2>1, <2>2, IncrementedCounter
  <2> HIDE DEF A
  <2>6. CASE k = q /\ w = v
    <3>1. /\ redis'[k][w].count = redis[k][w].count + 1
          /\ redis'[k][w].touched = now
      BY <2>5, <2>6
    <3>2. n = redis[k][w].count + 1 /\ now <= w + 1 /\ w <= now
      BY <1>1, <2>1, <2>2, <2>6
    <3> HIDE DEF n
    <3>3. Cardinality(A') <= Limit /\ Cardinality(A') <= redis[k][w].count + 1
      BY <1>1, <1>2, <1>3, <2>4, <2>6, <3>2
    <3> QED
      BY <3>1, <3>2, <3>3
  <2>7. CASE ~(k = q /\ w = v)
    BY <1>3, <2>2, <2>4, <2>5, <2>7
  <2> QED
    BY <2>6, <2>7
<1>7. ASSUME NEW c \in Calls, ExecFails(c)
      PROVE  /\ Cardinality(A') <= Limit
             /\ now' <= w + 1 => Cardinality(A') <= redis'[k][w].count
             /\ redis'[k][w].count > 0 => w <= redis'[k][w].touched
  <2> DEFINE q == call[c].key
             v == call[c].arrived
  <2>1. q \in Keys /\ v \in Windows /\ v <= now
    BY DEF TypeOK, Arrived
  <2>2. A' = A /\ now' = now
    BY <1>7, OthersAdmitNone DEF ExecFails, Counters
  <2>3. \/ redis'[k][w] = redis[k][w]
        \/ /\ w = v
           /\ redis'[k][w] = [count |-> redis[k][w].count + 1, touched |-> now]
    BY <1>7, <2>1, IncrementedCounter DEF ExecFails
  <2> HIDE DEF A
  <2> QED
    BY <1>1, <1>2, <1>3, <2>1, <2>2, <2>3
<1>8. ASSUME NEW c \in Calls, Arrive(c)
      PROVE  /\ Cardinality(A') <= Limit
             /\ now' <= w + 1 => Cardinality(A') <= redis'[k][w].count
             /\ redis'[k][w].count > 0 => w <= redis'[k][w].touched
  BY <1>3, <1>8, OthersAdmitNone DEF Arrive, Counters
<1>9. ASSUME NEW c \in Calls, IncrementLocal(c)
      PROVE  /\ Cardinality(A') <= Limit
             /\ now' <= w + 1 => Cardinality(A') <= redis'[k][w].count
             /\ redis'[k][w].count > 0 => w <= redis'[k][w].touched
  <2>1. PICK n \in Nat \ {0} : Decide(c, n, "local", now)
    BY <1>9, LocalStep
  <2>2. now \in Windows /\ pc[c] # "admitted"
    BY <1>9 DEF TypeOK, IncrementLocal
  <2>3. A' = A
    BY <2>1, <2>2, DecideAdmits DEF Counters
  <2> QED
    BY <1>3, <1>9, <2>3 DEF IncrementLocal
<1>10. CASE Idle \/ UNCHANGED vars
  BY <1>3, <1>10 DEF Idle, vars, Admitted
<1> QED
  BY <1>4, <1>5, <1>6, <1>7, <1>8, <1>9, <1>10 DEF Next

LEMMA LocalNext ==
  ASSUME TypeOK, LocalInv, [Next]_vars
  PROVE  LocalInv'
<1> SUFFICES ASSUME NEW k \in Keys, NEW w \in Windows
             PROVE  /\ Cardinality(Admitted(k, w, "local")') <= Limit
                    /\ w > now' => Admitted(k, w, "local")' = {}
                    /\ w = now' => IF k \in DOMAIN local' /\ local'[k].window = now'
                                   THEN Cardinality(Admitted(k, w, "local")') <= local'[k].count
                                   ELSE Admitted(k, w, "local")' = {}
  BY DEF LocalInv
<1> DEFINE A == Admitted(k, w, "local")
<1>1. now \in Nat /\ w \in Nat
  BY DEF TypeOK, Windows
<1>2. Cardinality(A) \in Nat
  BY AdmittedFinite
<1>3. /\ Cardinality(A) <= Limit
      /\ w > now => A = {}
      /\ w = now => IF k \in DOMAIN local /\ local[k].window = now
                    THEN Cardinality(A) <= local[k].count
                    ELSE A = {}
  BY DEF LocalInv
<1>4. CASE Tick
  <2>1. A' = A /\ now' = now + 1 /\ local' = local
    BY <1>4 DEF Tick, Admitted
  <2>2. k \in DOMAIN local => local[k].count \in Nat
    BY DEF TypeOK, Bucket
  <2> QED
    BY <1>1, <1>2, <1>3, <2>1, <2>2, FS_EmptySet
<1>5. ASSUME A' = A, now' = now, local' = local
      PROVE  /\ Cardinality(A') <= Limit
             /\ w > now' => A' = {}
             /\ w = now' => IF k \in DOMAIN local' /\ local'[k].window = now'
                            THEN Cardinality(A') <= local'[k].count
                            ELSE A' = {}
  BY <1>3, <1>5
<1>6. ASSUME NEW c \in Calls, Arrive(c) \/ ExecFails(c)
      PROVE  A' = A /\ now' = now /\ local' = local
  BY <1>6, OthersAdmitNone DEF Arrive, ExecFails, Counters
<1>7. ASSUME NEW c \in Calls, Exec(c)
      PROVE  A' = A /\ now' = now /\ local' = local
  <2>1. /\ call[c].key \in Keys /\ call[c].arrived \in Windows
        /\ redis[call[c].key][call[c].arrived].count + 1 \in Nat
    BY DEF TypeOK
  <2> QED
    BY <1>7, <2>1, DecideAdmits DEF Exec, Counters
<1>8. ASSUME NEW c \in Calls, IncrementLocal(c)
      PROVE  /\ Cardinality(A') <= Limit
             /\ w > now' => A' = {}
             /\ w = now' => IF k \in DOMAIN local' /\ local'[k].window = now'
                            THEN Cardinality(A') <= local'[k].count
                            ELSE A' = {}
  <2> DEFINE q == call[c].key
  <2>1. PICK n \in Nat \ {0} :
            /\ Decide(c, n, "local", now)
            /\ DOMAIN local' = DOMAIN Cleaned \cup {q}
            /\ local'[q] = [window |-> now, count |-> n]
            /\ \A p \in DOMAIN local' : p # q => local'[p] = local[p]
            /\ n = IF q \in DOMAIN local /\ local[q].window = now
                   THEN local[q].count + 1 ELSE 1
    BY <1>8, LocalStep
  <2>2. now' = now /\ now \in Windows /\ pc[c] # "admitted"
    BY <1>8 DEF IncrementLocal, TypeOK
  <2>3. IF n <= Limit /\ k = q /\ w = now
        THEN Cardinality(A') = Cardinality(A) + 1
        ELSE A' = A
    BY <2>1, <2>2, DecideAdmits DEF Counters
  <2>4. \A p \in DOMAIN local : local[p].count \in Nat /\ local[p].window \in Nat
    <3>1. \A p \in DOMAIN local : local[p].count \in Nat /\ local[p].window \in Windows
      BY DEF TypeOK, Bucket
    <3> QED
      BY <3>1 DEF Windows
  <2> HIDE DEF A
  <2>5. CASE w # now
    BY <1>1, <1>3, <2>2, <2>3, <2>5
  <2>6. CASE w = now /\ k = q
    <3>1. Cardinality(A) <= n - 1
      BY <1>2, <1>3, <2>1, <2>4, <2>6, FS_EmptySet
    <3>2. Cardinality(A') <= n /\ Cardinality(A') <= Limit
      BY <1>2, <1>3, <2>3, <2>6, <3>1
    <3>3. k \in DOMAIN local' /\ local'[k].window = now' /\ local'[k].count = n
      BY <2>1, <2>2, <2>6
    <3> QED
      BY <1>1, <2>2, <2>6, <3>2, <3>3
  <2>7. CASE w = now /\ k # q
    <3>1. A' = A
      BY <2>3, <2>7
    <3>2. \/ k \in DOMAIN local' /\ k \in DOMAIN local /\ local'[k] = local[k]
          \/ k \notin DOMAIN local' /\ ~(k \in DOMAIN local /\ local[k].window = now)
      BY <1>1, <2>1, <2>4, <2>7, CleanedBuckets
    <3> QED
      BY <1>1, <1>3, <2>2, <2>7, <3>1, <3>2
  <2> QED
    BY <2>5, <2>6, <2>7
<1>9. CASE (\E q \in Keys, v \in Windows : Expire(q, v)) \/ Idle \/ UNCHANGED vars
  <2>1. A' = A /\ now' = now /\ local' = local
    BY <1>9 DEF Expire, Idle, vars, Admitted
  <2> QED
    BY <1>5, <2>1
<1> QED
  BY <1>4, <1>5, <1>6, <1>7, <1>8, <1>9 DEF Next

(***************************************************************************)
(* Each of the two counters admits at most Limit calls of a key per minute *)
(* if a call of Redis outlives its own minute by at most one: a counter    *)
(* kept for two minutes is then never used after it has expired.           *)
(***************************************************************************)
THEOREM LimitsHold == ASSUME Patience <= 1 PROVE Spec => []AdmittedWithinLimit
<1> DEFINE Inv == Arrived /\ RedisInv /\ LocalInv
<1>1. Init => Inv
  <2> SUFFICES ASSUME Init
               PROVE  Inv
    OBVIOUS
  <2>1. \A k, w, b : Admitted(k, w, b) = {}
    BY DEF Init, Admitted
  <2>2. Arrived
    BY DEF Init, Arrived
  <2>3. \A k, w, b : Cardinality(Admitted(k, w, b)) = 0
    BY <2>1, FS_EmptySet
  <2>4. RedisInv
    <3>1. \A k \in Keys, w \in Windows : redis[k][w].count = 0
      BY DEF Init, NoCounter
    <3> QED
      BY <2>3, <3>1 DEF RedisInv
  <2>5. LocalInv
    <3>1. DOMAIN local = {}
      BY DEF Init, NoBuckets
    <3> QED
      BY <2>1, <2>3, <3>1 DEF LocalInv
  <2> QED
    BY <2>2, <2>4, <2>5
<1>2. TypeOK /\ Inv /\ [Next]_vars => Inv'
  BY ArrivedNext, RedisNext, LocalNext
<1>3. Inv => AdmittedWithinLimit
  BY DEF RedisInv, LocalInv, AdmittedWithinLimit
<1> QED
  BY <1>1, <1>2, <1>3, TypeCorrect, PTL DEF Spec

----------------------------------------------------------------------------
(* Rejections *)

(* The calls Redis may have counted, and those a local bucket has. *)
Counted(k, w) ==
    {c \in Calls : /\ pc[c] \notin {"waiting", "sent"}
                   /\ call[c].key = k /\ call[c].arrived = w}

CountedHere(k, w) ==
    {c \in Calls : /\ pc[c] \in {"admitted", "rejected"} /\ call[c].key = k
                   /\ call[c].by = "local" /\ call[c].window = w}

CountsInv ==
    /\ \A c \in Calls : pc[c] \notin {"admitted", "rejected"} => call[c].by = "nobody"
    /\ \A k \in Keys, w \in Windows : redis[k][w].count <= Cardinality(Counted(k, w))
    /\ \A k \in Keys, w \in Windows :
          k \in DOMAIN local /\ local[k].window = w =>
              local[k].count <= Cardinality(CountedHere(k, w))

LEMMA CountedFinite ==
  ASSUME NEW k, NEW w
  PROVE  /\ IsFiniteSet(Counted(k, w)) /\ Cardinality(Counted(k, w)) \in Nat
         /\ IsFiniteSet(CountedHere(k, w)) /\ Cardinality(CountedHere(k, w)) \in Nat
         /\ IsFiniteSet(Made(k, w))
<1>1. Counted(k, w) \subseteq Calls /\ CountedHere(k, w) \subseteq Calls
        /\ Made(k, w) \subseteq Calls
  BY DEF Counted, CountedHere, Made
<1> QED
  BY <1>1, CallsAssumption, FS_Subset, FS_CardinalityType

(* A step moves one call, and a decided call never moves again. *)
LEMMA OneMoves ==
  ASSUME TypeOK, [Next]_vars
  PROVE  \/ UNCHANGED <<pc, call>>
         \/ \E c \in Calls :
               /\ pc[c] \notin {"admitted", "rejected"}
               /\ \A d \in Calls : d # c => pc'[d] = pc[d] /\ call'[d] = call[d]
               /\ call'[c].key = call[c].key
               /\ pc'[c] # "waiting"
               /\ pc[c] # "waiting" => call'[c].arrived = call[c].arrived
               /\ \/ pc'[c] \in {"sent", "failed"} /\ call'[c].by = call[c].by
                  \/ pc'[c] \in {"admitted", "rejected"}
<1>1. ASSUME NEW c \in Calls, Arrive(c)
      PROVE  /\ pc[c] = "waiting" /\ pc'[c] = "sent"
             /\ \A d \in Calls : d # c => pc'[d] = pc[d] /\ call'[d] = call[d]
             /\ call'[c].key = call[c].key /\ call'[c].by = call[c].by
  BY <1>1 DEF Arrive, TypeOK
<1>2. ASSUME NEW c \in Calls, ExecFails(c)
      PROVE  /\ pc[c] = "sent" /\ pc'[c] = "failed" /\ call' = call
             /\ \A d \in Calls : d # c => pc'[d] = pc[d]
  BY <1>2 DEF ExecFails, TypeOK
<1>3. ASSUME NEW c \in Calls, NEW n, NEW b, NEW w, Decide(c, n, b, w)
      PROVE  /\ pc'[c] \in {"admitted", "rejected"}
             /\ \A d \in Calls : d # c => pc'[d] = pc[d] /\ call'[d] = call[d]
             /\ call'[c].key = call[c].key /\ call'[c].arrived = call[c].arrived
  BY <1>3 DEF Decide, Verdict, TypeOK
<1>4. ASSUME NEW c \in Calls, Exec(c) \/ IncrementLocal(c)
      PROVE  /\ pc[c] \in {"sent", "failed"} /\ pc'[c] \in {"admitted", "rejected"}
             /\ \A d \in Calls : d # c => pc'[d] = pc[d] /\ call'[d] = call[d]
             /\ call'[c].key = call[c].key /\ call'[c].arrived = call[c].arrived
  BY <1>3, <1>4 DEF Exec, IncrementLocal
<1>5. CASE Tick \/ (\E k \in Keys, w \in Windows : Expire(k, w)) \/ Idle \/ UNCHANGED vars
  BY <1>5 DEF Tick, Expire, Idle, vars
<1> QED
  BY <1>1, <1>2, <1>4, <1>5 DEF Next

(* Calls once made in a minute, or counted in it, remain so. *)
LEMMA MadeGrows ==
  ASSUME TypeOK, CountsInv, [Next]_vars, NEW k \in Keys, NEW w \in Windows
  PROVE  Made(k, w) \subseteq Made(k, w)'
<1>1. CASE UNCHANGED <<pc, call>>
  BY <1>1 DEF Made
<1>2. ASSUME NEW c \in Calls,
             /\ pc[c] \notin {"admitted", "rejected"}
             /\ \A d \in Calls : d # c => pc'[d] = pc[d] /\ call'[d] = call[d]
             /\ call'[c].key = call[c].key
             /\ pc'[c] # "waiting"
             /\ pc[c] # "waiting" => call'[c].arrived = call[c].arrived
      PROVE  Made(k, w) \subseteq Made(k, w)'
  <2>1. call[c].by = "nobody"
    BY <1>2 DEF CountsInv
  <2> SUFFICES ASSUME NEW d \in Made(k, w)
               PROVE  d \in Made(k, w)'
    OBVIOUS
  <2> QED
    BY <1>2, <2>1 DEF Made
<1> QED
  BY <1>1, <1>2, OneMoves

(* What the three decisive steps do to the counted calls. *)
LEMMA CountedSteps ==
  ASSUME TypeOK, CountsInv, NEW c \in Calls, NEW k \in Keys, NEW w \in Windows
  PROVE  /\ Exec(c) \/ ExecFails(c) =>
              /\ Counted(k, w)' = IF k = call[c].key /\ w = call[c].arrived
                                  THEN Counted(k, w) \cup {c} ELSE Counted(k, w)
              /\ CountedHere(k, w)' = CountedHere(k, w)
              /\ c \notin Counted(k, w)
         /\ IncrementLocal(c) =>
              /\ Counted(k, w)' = Counted(k, w)
              /\ CountedHere(k, w)' = IF k = call[c].key /\ w = now
                                      THEN CountedHere(k, w) \cup {c} ELSE CountedHere(k, w)
              /\ c \notin CountedHere(k, w)
         /\ Arrive(c) =>
              Counted(k, w)' = Counted(k, w) /\ CountedHere(k, w)' = CountedHere(k, w)
<1>1. ASSUME NEW n, NEW b, NEW v, Decide(c, n, b, v)
      PROVE  /\ pc'[c] \in {"admitted", "rejected"}
             /\ \A d \in Calls : d # c => pc'[d] = pc[d] /\ call'[d] = call[d]
             /\ call'[c].key = call[c].key /\ call'[c].arrived = call[c].arrived
             /\ call'[c].by = b /\ call'[c].window = v
  BY <1>1 DEF Decide, Verdict, TypeOK
<1>2. ASSUME Exec(c)
      PROVE  /\ Counted(k, w)' = IF k = call[c].key /\ w = call[c].arrived
                                 THEN Counted(k, w) \cup {c} ELSE Counted(k, w)
             /\ CountedHere(k, w)' = CountedHere(k, w)
             /\ c \notin Counted(k, w)
  <2>1. /\ pc[c] = "sent" /\ pc'[c] \in {"admitted", "rejected"}
        /\ \A d \in Calls : d # c => pc'[d] = pc[d] /\ call'[d] = call[d]
        /\ call'[c].key = call[c].key /\ call'[c].arrived = call[c].arrived
        /\ call'[c].by = "redis"
    BY <1>1, <1>2 DEF Exec
  <2>2. Counted(k, w)' = IF k = call[c].key /\ w = call[c].arrived
                         THEN Counted(k, w) \cup {c} ELSE Counted(k, w)
    BY <2>1 DEF Counted
  <2>3. CountedHere(k, w)' = CountedHere(k, w)
    BY <2>1 DEF CountedHere
  <2>4. c \notin Counted(k, w)
    BY <2>1 DEF Counted
  <2> QED
    BY <2>2, <2>3, <2>4
<1>3. ASSUME ExecFails(c)
      PROVE  /\ Counted(k, w)' = IF k = call[c].key /\ w = call[c].arrived
                                 THEN Counted(k, w) \cup {c} ELSE Counted(k, w)
             /\ CountedHere(k, w)' = CountedHere(k, w)
             /\ c \notin Counted(k, w)
  <2>1. /\ pc[c] = "sent" /\ pc'[c] = "failed" /\ call' = call
        /\ \A d \in Calls : d # c => pc'[d] = pc[d]
    BY <1>3 DEF ExecFails, TypeOK
  <2>2. Counted(k, w)' = IF k = call[c].key /\ w = call[c].arrived
                         THEN Counted(k, w) \cup {c} ELSE Counted(k, w)
    BY <2>1 DEF Counted
  <2>3. CountedHere(k, w)' = CountedHere(k, w)
    BY <2>1 DEF CountedHere
  <2>4. c \notin Counted(k, w)
    BY <2>1 DEF Counted
  <2> QED
    BY <2>2, <2>3, <2>4
<1>4. ASSUME IncrementLocal(c)
      PROVE  /\ Counted(k, w)' = Counted(k, w)
             /\ CountedHere(k, w)' = IF k = call[c].key /\ w = now
                                     THEN CountedHere(k, w) \cup {c} ELSE CountedHere(k, w)
             /\ c \notin CountedHere(k, w)
  <2>1. /\ pc[c] = "failed" /\ pc'[c] \in {"admitted", "rejected"}
        /\ \A d \in Calls : d # c => pc'[d] = pc[d] /\ call'[d] = call[d]
        /\ call'[c].key = call[c].key /\ call'[c].arrived = call[c].arrived
        /\ call'[c].by = "local" /\ call'[c].window = now
    BY <1>1, <1>4 DEF IncrementLocal
  <2>2. Counted(k, w)' = Counted(k, w)
    BY <2>1 DEF Counted
  <2>3. CountedHere(k, w)' = IF k = call[c].key /\ w = now
                             THEN CountedHere(k, w) \cup {c} ELSE CountedHere(k, w)
    BY <2>1 DEF CountedHere
  <2>4. c \notin CountedHere(k, w)
    BY <2>1 DEF CountedHere
  <2> QED
    BY <2>2, <2>3, <2>4
<1>5. ASSUME Arrive(c)
      PROVE  Counted(k, w)' = Counted(k, w) /\ CountedHere(k, w)' = CountedHere(k, w)
  <2>1. /\ pc[c] = "waiting" /\ pc'[c] = "sent"
        /\ \A d \in Calls : d # c => pc'[d] = pc[d] /\ call'[d] = call[d]
    BY <1>5 DEF Arrive, TypeOK
  <2> QED
    BY <2>1 DEF Counted, CountedHere
<1> QED
  BY <1>2, <1>3, <1>4, <1>5

LEMMA CountsNext ==
  ASSUME TypeOK, CountsInv, [Next]_vars
  PROVE  CountsInv'
<1>1. \A c \in Calls : pc'[c] \notin {"admitted", "rejected"} => call'[c].by = "nobody"
  BY OneMoves DEF CountsInv
<1>2. ASSUME NEW k \in Keys, NEW w \in Windows
      PROVE  /\ redis'[k][w].count <= Cardinality(Counted(k, w)')
             /\ k \in DOMAIN local' /\ local'[k].window = w =>
                    local'[k].count <= Cardinality(CountedHere(k, w)')
  <2> DEFINE Goal == /\ redis'[k][w].count <= Cardinality(Counted(k, w)')
                     /\ k \in DOMAIN local' /\ local'[k].window = w =>
                            local'[k].count <= Cardinality(CountedHere(k, w)')
  <2>1. /\ redis[k][w].count \in Nat
        /\ \A q \in DOMAIN local : local[q].count \in Nat
    BY DEF TypeOK, Bucket
  <2>2. /\ redis[k][w].count <= Cardinality(Counted(k, w))
        /\ k \in DOMAIN local /\ local[k].window = w =>
              local[k].count <= Cardinality(CountedHere(k, w))
    BY DEF CountsInv
  <2>3. /\ Cardinality(Counted(k, w)) \in Nat
        /\ Cardinality(CountedHere(k, w)) \in Nat
        /\ \A c : c \notin Counted(k, w) =>
              Cardinality(Counted(k, w) \cup {c}) = Cardinality(Counted(k, w)) + 1
        /\ \A c : c \notin CountedHere(k, w) =>
              Cardinality(CountedHere(k, w) \cup {c}) = Cardinality(CountedHere(k, w)) + 1
    BY CountedFinite, FS_AddElement
  <2>4. CASE Tick \/ Idle \/ UNCHANGED vars
    <3>1. Counted(k, w)' = Counted(k, w) /\ CountedHere(k, w)' = CountedHere(k, w)
      BY <2>4 DEF Tick, Idle, vars, Counted, CountedHere
    <3> QED
      BY <2>2, <2>4, <3>1 DEF Tick, Idle, vars
  <2>5. ASSUME NEW q \in Keys, NEW v \in Windows, Expire(q, v)
        PROVE  Goal
    <3>1. Counted(k, w)' = Counted(k, w) /\ CountedHere(k, w)' = CountedHere(k, w)
            /\ local' = local
      BY <2>5 DEF Expire, Counted, CountedHere
    <3>2. redis'[k][w] = redis[k][w] \/ redis'[k][w].count = 0
      BY <2>5 DEF Expire, TypeOK, NoCounter
    <3> QED
      BY <2>1, <2>2, <2>3, <3>1, <3>2
  <2>6. ASSUME NEW c \in Calls, Arrive(c)
        PROVE  Goal
    <3>1. redis' = redis /\ local' = local
      BY <2>6 DEF Arrive
    <3> QED
      BY <2>2, <2>6, <3>1, CountedSteps
  <2>7. ASSUME NEW c \in Calls, Exec(c) \/ ExecFails(c)
        PROVE  Goal
    <3>1. call[c].key \in Keys /\ call[c].arrived \in Windows
      BY DEF TypeOK
    <3>2. local' = local /\ CountedHere(k, w)' = CountedHere(k, w)
      BY <2>7, CountedSteps DEF Exec, ExecFails
    <3>3. \/ redis'[k][w] = redis[k][w]
          \/ /\ k = call[c].key /\ w = call[c].arrived
             /\ redis'[k][w] = [count |-> redis[k][w].count + 1, touched |-> now]
      <4>1. redis' = redis \/ redis' = Incremented(call[c].key, call[c].arrived)
        BY <2>7 DEF Exec, ExecFails
      <4>2. \A q \in Keys, v \in Windows : redis' = Incremented(q, v) =>
               IF k = q /\ w = v
               THEN redis'[k][w] = [count |-> redis[k][w].count + 1, touched |-> now]
               ELSE redis'[k][w] = redis[k][w]
        BY IncrementedCounter
      <4> QED
        BY <3>1, <4>1, <4>2
    <3>4. CASE k = call[c].key /\ w = call[c].arrived
      <4>1. Cardinality(Counted(k, w)') = Cardinality(Counted(k, w)) + 1
        BY <2>3, <2>7, <3>4, CountedSteps
      <4>2. redis'[k][w].count \in {redis[k][w].count, redis[k][w].count + 1}
        BY <3>3
      <4> QED
        BY <2>1, <2>2, <2>3, <3>2, <4>1, <4>2
    <3>5. CASE ~(k = call[c].key /\ w = call[c].arrived)
      <4>1. Counted(k, w)' = Counted(k, w)
        BY <2>7, <3>5, CountedSteps
      <4>2. redis'[k][w] = redis[k][w]
        BY <3>3, <3>5
      <4> QED
        BY <2>2, <3>2, <4>1, <4>2
    <3> QED
      BY <3>4, <3>5
  <2>8. ASSUME NEW c \in Calls, IncrementLocal(c)
        PROVE  Goal
    <3> DEFINE q == call[c].key
    <3>1. PICK n \in Nat \ {0} :
              /\ DOMAIN local' = DOMAIN Cleaned \cup {q}
              /\ local'[q] = [window |-> now, count |-> n]
              /\ \A p \in DOMAIN local' : p # q => local'[p] = local[p]
              /\ n = IF q \in DOMAIN local /\ local[q].window = now
                     THEN local[q].count + 1 ELSE 1
      BY <2>8, LocalStep
    <3>2. redis' = redis /\ Counted(k, w)' = Counted(k, w)
      BY <2>8, CountedSteps DEF IncrementLocal
    <3>3. ASSUME k \in DOMAIN local', local'[k].window = w
          PROVE  local'[k].count <= Cardinality(CountedHere(k, w)')
      <4>1. CASE k = q
        <5>1. w = now /\ local'[k].count = n
          BY <3>1, <3>3, <4>1
        <5>2. Cardinality(CountedHere(k, w)') = Cardinality(CountedHere(k, w)) + 1
          BY <2>3, <2>8, <4>1, <5>1, CountedSteps
        <5>3. n <= Cardinality(CountedHere(k, w)) + 1
          BY <2>1, <2>2, <2>3, <3>1, <4>1, <5>1
        <5> QED
          BY <5>1, <5>2, <5>3
      <4>2. CASE k # q
        <5>1. k \in DOMAIN local /\ local'[k] = local[k]
          BY <3>1, <3>3, <4>2, CleanedBuckets
        <5>2. CountedHere(k, w)' = CountedHere(k, w)
          BY <2>8, <4>2, CountedSteps
        <5> QED
          BY <2>2, <3>3, <5>1, <5>2
      <4> QED
        BY <4>1, <4>2
    <3> QED
      BY <2>2, <3>2, <3>3
  <2> QED
    BY <2>4, <2>5, <2>6, <2>7, <2>8 DEF Next
<1> QED
  BY <1>1, <1>2 DEF CountsInv

(* A rejected call has Limit others before it, those its counter knew of. *)
LEMMA RejectedNext ==
  ASSUME TypeOK, CountsInv, RejectedOnlyOverLimit, [Next]_vars
  PROVE  RejectedOnlyOverLimit'
<1> SUFFICES ASSUME NEW c \in Calls, pc'[c] = "rejected"
             PROVE  Limit <= Cardinality((Made(call[c].key, call[c].window) \ {c})')
  BY DEF RejectedOnlyOverLimit
<1>1. ASSUME NEW k \in Keys, NEW w \in Windows, NEW S,
             S \subseteq Made(k, w)', c \notin S, Limit <= Cardinality(S),
             call'[c].key = k, call'[c].window = w
      PROVE  Limit <= Cardinality((Made(call[c].key, call[c].window) \ {c})')
  <2>1. S \subseteq Made(k, w)' \ {c}
    BY <1>1
  <2>2. IsFiniteSet(Made(k, w)' \ {c})
    <3>1. Made(k, w)' \ {c} \subseteq Calls
      BY DEF Made
    <3> QED
      BY <3>1, CallsAssumption, FS_Subset
  <2>3. /\ Cardinality(S) <= Cardinality(Made(k, w)' \ {c})
        /\ Cardinality(S) \in Nat /\ Cardinality(Made(k, w)' \ {c}) \in Nat
    BY <2>1, <2>2, FS_Subset, FS_CardinalityType
  <2>4. (Made(call[c].key, call[c].window) \ {c})' = Made(k, w)' \ {c}
    BY <1>1 DEF Made
  <2> QED
    BY <1>1, <2>3, <2>4
<1>2. CASE pc[c] = "rejected"
  <2>1. call'[c] = call[c]
    BY <1>2, OneMoves
  <2>2. call[c].key \in Keys /\ call[c].window \in Windows
    BY DEF TypeOK
  <2>3. Limit <= Cardinality(Made(call[c].key, call[c].window) \ {c})
    BY <1>2 DEF RejectedOnlyOverLimit
  <2> QED
    BY <1>1, <2>1, <2>2, <2>3, MadeGrows
<1>3. ASSUME Exec(c)
      PROVE  Limit <= Cardinality((Made(call[c].key, call[c].window) \ {c})')
  <2> DEFINE k == call[c].key
             w == call[c].arrived
  <2>1. k \in Keys /\ w \in Windows /\ redis[k][w].count \in Nat
    BY DEF TypeOK
  <2>2. call'[c].key = k /\ call'[c].window = w /\ pc'[c] = Verdict(redis[k][w].count + 1)
    BY <1>3 DEF Exec, Decide, TypeOK
  <2>3. redis[k][w].count + 1 > Limit
    BY <2>2 DEF Verdict
  <2>4. Limit <= Cardinality(Counted(k, w))
    BY <2>1, <2>3, CountedFinite DEF CountsInv
  <2>5. c \notin Counted(k, w)
    BY <1>3, <2>1, CountedSteps
  <2>6. Counted(k, w) \subseteq Made(k, w)
    BY DEF Counted, Made
  <2> QED
    BY <1>1, <2>1, <2>2, <2>4, <2>5, <2>6, MadeGrows
<1>4. ASSUME IncrementLocal(c)
      PROVE  Limit <= Cardinality((Made(call[c].key, call[c].window) \ {c})')
  <2> DEFINE k == call[c].key
  <2>1. k \in Keys /\ now \in Windows
    BY DEF TypeOK
  <2>2. PICK n \in Nat \ {0} :
            /\ Decide(c, n, "local", now)
            /\ n = IF k \in DOMAIN local /\ local[k].window = now
                   THEN local[k].count + 1 ELSE 1
    BY <1>4, LocalStep
  <2>3. call'[c].key = k /\ call'[c].window = now /\ pc'[c] = Verdict(n)
    BY <2>2 DEF Decide, TypeOK
  <2>4. n > Limit
    BY <2>3 DEF Verdict
  <2>5. k \in DOMAIN local /\ local[k].window = now /\ n = local[k].count + 1
    BY <2>2, <2>4
  <2>6. local[k].count \in Nat /\ local[k].count <= Cardinality(CountedHere(k, now))
    BY <2>1, <2>5 DEF CountsInv, TypeOK, Bucket
  <2>7. Limit <= Cardinality(CountedHere(k, now))
    BY <2>4, <2>5, <2>6, CountedFinite
  <2>8. c \notin CountedHere(k, now)
    BY <1>4, <2>1, CountedSteps
  <2>9. CountedHere(k, now) \subseteq Made(k, now)
    BY DEF CountedHere, Made
  <2> QED
    BY <1>1, <2>1, <2>3, <2>7, <2>8, <2>9, MadeGrows
<1>5. pc[c] = "rejected" \/ Exec(c) \/ IncrementLocal(c)
  <2>1. ASSUME NEW d \in Calls, d # c, Exec(d) \/ IncrementLocal(d)
        PROVE  pc[c] = "rejected"
    BY <2>1 DEF Exec, IncrementLocal, Decide, TypeOK
  <2>2. ASSUME NEW d \in Calls, Arrive(d) \/ ExecFails(d)
        PROVE  pc[c] = "rejected"
    BY <2>2 DEF Arrive, ExecFails, TypeOK
  <2>3. CASE Tick \/ (\E k \in Keys, w \in Windows : Expire(k, w)) \/ Idle \/ UNCHANGED vars
    BY <2>3 DEF Tick, Expire, Idle, vars
  <2> QED
    BY <2>1, <2>2, <2>3 DEF Next
<1> QED
  BY <1>2, <1>3, <1>4, <1>5

(***************************************************************************)
(* Nobody is turned away who is not preceded by Limit other calls of his   *)
(* key in the same minute, however often Redis fails (Middleware).         *)
(***************************************************************************)
THEOREM NobodyRejectedEarly == Spec => []RejectedOnlyOverLimit
<1>1. Init => CountsInv /\ RejectedOnlyOverLimit
  <2> SUFFICES ASSUME Init
               PROVE  CountsInv /\ RejectedOnlyOverLimit
    OBVIOUS
  <2>1. \A c \in Calls : call[c].by = "nobody" /\ pc[c] = "waiting"
    BY DEF Init
  <2>2. \A k \in Keys, w \in Windows : redis[k][w].count <= Cardinality(Counted(k, w))
    <3>1. \A k \in Keys, w \in Windows : redis[k][w].count = 0
      BY DEF Init, NoCounter
    <3> QED
      BY <3>1, CountedFinite
  <2>3. DOMAIN local = {}
    BY DEF Init, NoBuckets
  <2> QED
    BY <2>1, <2>2, <2>3 DEF CountsInv, RejectedOnlyOverLimit
<1>2. TypeOK /\ CountsInv /\ RejectedOnlyOverLimit /\ [Next]_vars
         => (CountsInv /\ RejectedOnlyOverLimit)'
  BY CountsNext, RejectedNext
<1> QED
  BY <1>1, <1>2, TypeCorrect, PTL DEF Spec
----------------------------------------------------------------------------
(* Both counters together *)

(* The calls of a key that were served on the account of a minute. *)
Served(k, w) ==
    {c \in Calls : pc[c] = "admitted" /\ call[c].key = k /\ call[c].window = w}

TwiceTheLimit == \A k \in Keys, w \in Windows : Cardinality(Served(k, w)) <= 2 * Limit

(* Nobody is served uncounted. *)
Charged == \A c \in Calls : pc[c] = "admitted" => call[c].by \in {"redis", "local"}

LEMMA ChargedNext ==
  ASSUME TypeOK, Charged, [Next]_vars
  PROVE  Charged'
<1>1. /\ pc \in [Calls -> {"waiting", "sent", "failed", "admitted", "rejected"}]
      /\ \A c \in Calls : {"by", "window"} \subseteq DOMAIN call[c]
      /\ DOMAIN call = Calls
  BY DEF TypeOK
<1>2. CASE UNCHANGED <<pc, call>>
  BY <1>2 DEF Charged
<1>3. ASSUME NEW c \in Calls, Arrive(c) \/ ExecFails(c)
      PROVE  Charged'
  BY <1>1, <1>3 DEF Arrive, ExecFails, Charged
<1>4. ASSUME NEW c \in Calls, NEW n, NEW counter \in {"redis", "local"}, NEW w,
             Decide(c, n, counter, w)
      PROVE  Charged'
  <2>1. call'[c].by = counter /\ \A d \in Calls \ {c} : call'[d] = call[d] /\ pc'[d] = pc[d]
    BY <1>1, <1>4 DEF Decide
  <2> QED
    BY <2>1 DEF Charged
<1>5. ASSUME NEW c \in Calls, Exec(c)
      PROVE  Charged'
  BY <1>4, <1>5 DEF Exec
<1>6. ASSUME NEW c \in Calls, IncrementLocal(c)
      PROVE  Charged'
  BY <1>4, <1>6 DEF IncrementLocal
<1>7. CASE Tick \/ Idle \/ UNCHANGED vars \/ \E k \in Keys, w \in Windows : Expire(k, w)
  BY <1>2, <1>7 DEF Tick, Idle, Expire, vars
<1> QED
  BY <1>3, <1>5, <1>6, <1>7 DEF Next

(***************************************************************************)
(* However often Redis fails and comes back within a minute, a key is       *)
(* served at most twice its limit on account of that minute: by Redis and   *)
(* by the process, up to the limit each (Middleware, incrementLocal).       *)
(***************************************************************************)
THEOREM ServedAtMostTwice == ASSUME Patience <= 1 PROVE Spec => []TwiceTheLimit
<1>1. Init => Charged
  BY DEF Init, Charged
<1>2. TypeOK /\ Charged /\ [Next]_vars => Charged'
  BY ChargedNext
<1>3. Charged /\ AdmittedWithinLimit => TwiceTheLimit
  <2> SUFFICES ASSUME Charged, AdmittedWithinLimit, NEW k \in Keys, NEW w \in Windows
               PROVE  Cardinality(Served(k, w)) <= 2 * Limit
    BY DEF TwiceTheLimit
  <2> DEFINE shared == Admitted(k, w, "redis")
             here   == Admitted(k, w, "local")
  <2>1. Served(k, w) = shared \cup here
    BY DEF Served, Admitted, Charged
  <2>2. IsFiniteSet(shared) /\ IsFiniteSet(here)
    BY CallsAssumption, FS_Subset DEF Admitted
  <2>3. Cardinality(shared) <= Limit /\ Cardinality(here) <= Limit
    BY DEF AdmittedWithinLimit
  <2> HIDE DEF shared, here
  <2>4. /\ Cardinality(shared) \in Nat /\ Cardinality(here) \in Nat
        /\ Cardinality(shared \cap here) \in Nat
    BY <2>2, FS_CardinalityType, FS_Intersection
  <2>5. Cardinality(shared \cup here)
           = Cardinality(shared) + Cardinality(here) - Cardinality(shared \cap here)
    BY <2>2, FS_Union
  <2> QED
    BY <2>1, <2>3, <2>4, <2>5, LimitAssumption
<1> QED
  BY <1>1, <1>2, <1>3, TypeCorrect, LimitsHold, PTL DEF Spec
=============================================================================
