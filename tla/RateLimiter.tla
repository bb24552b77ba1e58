----------------------------- MODULE RateLimiter -----------------------------
(***************************************************************************)
(* The rate limiter of middleware/ratelimit.go: a call is counted by Redis  *)
(* under a key that names the minute it arrived in, or, when Redis does not *)
(* answer, in a map of this process under a mutex, in a bucket of the       *)
(* minute in which the mutex was taken.  Calls overlap, minutes pass while  *)
(* they wait, and Redis may fail with or without having counted.            *)
(***************************************************************************)
EXTENDS Naturals, FiniteSets

CONSTANTS
    Keys,        \* client address and route
    Calls,       \* the requests that reach the limiter
    Limit,       \* calls a key may make per minute (cfg.RequestLimit)
    CleanupAt,   \* size from which the map is cleaned (512 in the code)
    LastWindow,  \* bound on time, in minutes
    Patience     \* minutes a Redis call may outlive the one it was made in

ASSUME LimitAssumption     == Limit \in Nat \ {0}
ASSUME CleanupAssumption   == CleanupAt \in Nat \ {0}
ASSUME WindowAssumption    == LastWindow \in Nat /\ Patience \in Nat
ASSUME CallsAssumption     == IsFiniteSet(Calls)

VARIABLES
    now,    \* the current minute
    redis,  \* the counter of each key and minute, and the minute of its last INCR
    local,  \* the map of buckets
    pc,     \* where each call stands
    call    \* its key, the minute it arrived in, and who counted it, in which minute

vars == <<now, redis, local, pc, call>>

Windows == 0 .. LastWindow

NoCounter == [count |-> 0, touched |-> 0]
NoBuckets == [k \in {} |-> [window |-> 0, count |-> 0]]

Init ==
    /\ now   = 0
    /\ redis = [k \in Keys |-> [w \in Windows |-> NoCounter]]
    /\ local = NoBuckets
    /\ pc    = [c \in Calls |-> "waiting"]
    /\ \E key \in [Calls -> Keys] :
          call = [c \in Calls |-> [key |-> key[c], arrived |-> 0,
                                   by |-> "nobody", window |-> 0]]

----------------------------------------------------------------------------
(* Time *)

Tick ==
    /\ now < LastWindow
    /\ now' = now + 1
    /\ UNCHANGED <<redis, local, pc, call>>

(* EXPIRE two minutes after the last INCR. *)
Lapsed(counter) == counter.count > 0 /\ now >= counter.touched + 2

Expire(k, w) ==
    /\ Lapsed(redis[k][w])
    /\ redis' = [redis EXCEPT ![k][w] = NoCounter]
    /\ UNCHANGED <<now, local, pc, call>>

----------------------------------------------------------------------------
(* The verdict on a call once it is counted *)

(* Mutant: the limit itself is refused. *)
VerdictAtLimit(count) == IF count >= Limit THEN "rejected" ELSE "admitted"

Verdict(count) == IF count > Limit THEN "rejected" ELSE "admitted"

Decide(c, count, counter, window) ==
    /\ pc'   = [pc EXCEPT ![c] = Verdict(count)]
    /\ call' = [call EXCEPT ![c].by = counter, ![c].window = window]

----------------------------------------------------------------------------
(* Redis *)

(* The key of the counter is fixed when the call arrives. *)
Arrive(c) ==
    /\ pc[c] = "waiting"
    /\ pc'   = [pc EXCEPT ![c] = "sent"]
    /\ call' = [call EXCEPT ![c].arrived = now]
    /\ UNCHANGED <<now, redis, local>>

Incremented(k, w) ==
    [redis EXCEPT ![k][w] = [count |-> @.count + 1, touched |-> now]]

InTime(c) == now <= call[c].arrived + Patience

Exec(c) ==
    /\ pc[c] = "sent" /\ InTime(c)
    /\ LET k == call[c].key
           w == call[c].arrived
       IN  /\ redis' = Incremented(k, w)
           /\ Decide(c, redis[k][w].count + 1, "redis", w)
    /\ UNCHANGED <<now, local>>

(* No Redis, or none that answers: INCR may have been executed all the same. *)
ExecFails(c) ==
    /\ pc[c] = "sent"
    /\ \/ redis' = redis
       \/ InTime(c) /\ redis' = Incremented(call[c].key, call[c].arrived)
    /\ pc' = [pc EXCEPT ![c] = "failed"]
    /\ UNCHANGED <<now, local, call>>

----------------------------------------------------------------------------
(* The map of this process: one critical section per call *)

(* Mutant: the map is cleaned one entry late. *)
CleanedLate ==
    IF Cardinality(DOMAIN local) <= CleanupAt THEN local
    ELSE [k \in {k \in DOMAIN local : local[k].window >= now} |-> local[k]]

Cleaned ==
    IF Cardinality(DOMAIN local) < CleanupAt THEN local
    ELSE [k \in {k \in DOMAIN local : local[k].window >= now} |-> local[k]]

CountIn(buckets, k, w) ==
    IF k \in DOMAIN buckets /\ buckets[k].window = w THEN buckets[k].count + 1 ELSE 1

WithBucket(buckets, k, bucket) ==
    [q \in DOMAIN buckets \cup {k} |-> IF q = k THEN bucket ELSE buckets[q]]

(* Mutant: the minute is read before the mutex is taken. *)
IncrementLocalStale(c) ==
    /\ pc[c] = "failed"
    /\ LET k == call[c].key
           n == CountIn(Cleaned, k, call[c].arrived)
       IN  /\ local' = WithBucket(Cleaned, k, [window |-> call[c].arrived, count |-> n])
           /\ Decide(c, n, "local", call[c].arrived)
    /\ UNCHANGED <<now, redis>>

IncrementLocal(c) ==
    /\ pc[c] = "failed"
    /\ LET k == call[c].key
           n == CountIn(Cleaned, k, now)
       IN  /\ local' = WithBucket(Cleaned, k, [window |-> now, count |-> n])
           /\ Decide(c, n, "local", now)
    /\ UNCHANGED <<now, redis>>

----------------------------------------------------------------------------
(* Every call is decided and time is up. *)
Idle ==
    /\ now = LastWindow
    /\ \A c \in Calls : pc[c] \in {"admitted", "rejected"}
    /\ UNCHANGED vars

Next ==
    \/ Tick
    \/ \E k \in Keys, w \in Windows : Expire(k, w)
    \/ \E c \in Calls : Arrive(c) \/ Exec(c) \/ ExecFails(c) \/ IncrementLocal(c)
    \/ Idle

Spec == Init /\ [][Next]_vars

----------------------------------------------------------------------------
(* Counters, buckets and calls are what their names say. *)
Bucket == [window : Windows, count : Nat]

TypeOK ==
    /\ now \in Windows
    /\ redis \in [Keys -> [Windows -> [count : Nat, touched : Windows]]]
    /\ DOMAIN local \subseteq Keys /\ \A k \in DOMAIN local : local[k] \in Bucket
    /\ pc \in [Calls -> {"waiting", "sent", "failed", "admitted", "rejected"}]
    /\ call \in [Calls -> [key : Keys, arrived : Windows,
                           by : {"nobody", "redis", "local"}, window : Windows]]

----------------------------------------------------------------------------
Admitted(k, w, counter) ==
    {c \in Calls : /\ pc[c] = "admitted" /\ call[c].key = k
                   /\ call[c].by = counter /\ call[c].window = w}

(***************************************************************************)
(* Each of the two counters admits at most Limit calls of a key per minute, *)
(* although calls are counted after their minute is over, buckets are       *)
(* cleaned and counters expire (Middleware, incrementLocal, cleanupLocal).  *)
(* A key is therefore served at most twice its limit when Redis fails in    *)
(* the middle of a minute.                                                  *)
(***************************************************************************)
AdmittedWithinLimit ==
    \A k \in Keys, w \in Windows, counter \in {"redis", "local"} :
        Cardinality(Admitted(k, w, counter)) <= Limit

(* The calls of a key made or counted in a minute. *)
Made(k, w) ==
    {c \in Calls : /\ pc[c] # "waiting" /\ call[c].key = k
                   /\ \/ call[c].arrived = w
                      \/ call[c].by # "nobody" /\ call[c].window = w}

(***************************************************************************)
(* A call is rejected only when Limit other calls of its key were made in  *)
(* the same minute, counting those Redis counted without answering.        *)
(***************************************************************************)
RejectedOnlyOverLimit ==
    \A c \in Calls :
        pc[c] = "rejected" =>
            Limit <= Cardinality(Made(call[c].key, call[c].window) \ {c})

(***************************************************************************)
(* The map outgrows the size from which it is cleaned only with keys of one *)
(* single minute: whatever is older has been dropped (cleanupLocal).        *)
(***************************************************************************)
StaleBucketsBounded ==
    Cardinality(DOMAIN local) > CleanupAt =>
        \A k, q \in DOMAIN local : local[k].window = local[q].window
=============================================================================
