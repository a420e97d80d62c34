---------------------------- MODULE LeakyBucket ----------------------------
(***************************************************************************)
(* The rate limiter: RateLimiterMiddleware.use and                         *)
(* RedisService.leakyBucket (src/src/redis), for one client address.       *)
(*                                                                         *)
(* A replica stamps a request with Date.now() and sends the script; Redis  *)
(* runs scripts one at a time, those of one replica in the order they were *)
(* sent (one connection) and those of different replicas in any order, and *)
(* later than they were stamped: the client queues them while its          *)
(* connection is down, and the code bounds the wait by nothing.            *)
(*                                                                         *)
(* Time is counted in ticks, TicksPerSecond to the second, and the level   *)
(* in units of which one request is TicksPerSecond, so that LEAK_RATE      *)
(* requests per second are LeakRate units per tick: the arithmetic of the  *)
(* script is exact on these.                                               *)
(***************************************************************************)
EXTENDS Integers, Sequences

CONSTANTS
    Replicas,        \* processes of the API
    Capacity,        \* CAPACITY
    LeakRate,        \* LEAK_RATE
    TicksPerSecond,  \* the resolution of the clock
    MaxClock,        \* bound on the clock
    MaxPending,      \* bound on a replica's requests in flight
    MaxDelay,        \* bound of the model on a script's wait, in ticks
    NoKey            \* the bucket's key does not exist

ASSUME LimitsAssumption ==
    /\ Capacity \in Nat \ {0} /\ LeakRate \in Nat \ {0}
    /\ TicksPerSecond \in Nat \ {0}
ASSUME BoundAssumption ==
    MaxClock \in Nat /\ MaxPending \in Nat \ {0} /\ MaxDelay \in Nat
ASSUME AbsentAssumption == NoKey \notin [level : Nat, last : Nat, expires : Nat]

\* math.ceil(capacity / leak_rate) + 1 seconds, in ticks
Request == TicksPerSecond
Full == Capacity * Request
OneSecond == TicksPerSecond       \* slip: a constant time to live
TimeToLive ==
    (((Capacity + LeakRate - 1) \div LeakRate) + 1) * TicksPerSecond

VARIABLES
    clock,     \* the time, the same for Redis and every replica
    bucket,    \* the hash level, last_time with its expiry, or NoKey
    pending,   \* the stamps of each replica's requests in flight
    mark,      \* when an observer starts to count (chosen at the start)
    counted    \* requests stamped since mark that were let through (history)

vars == <<clock, bucket, pending, mark, counted>>

Buckets == [level : Nat, last : Nat, expires : Nat]
WithCredit(n) == n                \* slip: an idle client saves up
NotBelowZero(n) == IF n < 0 THEN 0 ELSE n

-----------------------------------------------------------------------------
(* The script, on a bucket b and the stamp now. *)

\* An expired key reads as absent.
Live == bucket # NoKey /\ clock < bucket.expires
Level == IF Live THEN bucket.level ELSE 0
Last(now) == IF Live THEN bucket.last ELSE now

\* level - elapsed * leak_rate, not below zero; elapsed can be negative
Leaked(level, last, now) == NotBelowZero(level - (now - last) * LeakRate)

OneTooMany(level) == level <= Full   \* slip: room is not asked for
Fits(level) == level + Request <= Full
After(level) == IF Fits(level) THEN level + Request ELSE level

-----------------------------------------------------------------------------
Init ==
    /\ clock = 0
    /\ bucket = NoKey
    /\ pending = [c \in Replicas |-> <<>>]
    /\ mark \in 0..MaxClock
    /\ counted = 0

\* Time passes; no script waits longer than MaxDelay, which no code enforces.
Tick ==
    /\ clock < MaxClock
    /\ \A c \in Replicas :
         pending[c] # <<>> => clock - Head(pending[c]) < MaxDelay
    /\ clock' = clock + 1
    /\ UNCHANGED <<bucket, pending, mark, counted>>

\* A request arrives: Date.now() is read and the script is sent.
Arrive(c) ==
    /\ Len(pending[c]) < MaxPending
    /\ pending' = [pending EXCEPT ![c] = Append(@, clock)]
    /\ UNCHANGED <<clock, bucket, mark, counted>>

\* Redis runs the script: next() is called, or 429 is answered.
Execute(c) ==
    /\ pending[c] # <<>>
    /\ LET now == Head(pending[c])
           level == Leaked(Level, Last(now), now)
       IN  /\ bucket' = [level |-> After(level), last |-> now,
                         expires |-> clock + TimeToLive]
           /\ counted' = IF Fits(level) /\ now >= mark
                         THEN counted + 1 ELSE counted
    /\ pending' = [pending EXCEPT ![c] = Tail(@)]
    /\ UNCHANGED <<clock, mark>>

Next ==
    \/ Tick
    \/ \E c \in Replicas : Arrive(c) \/ Execute(c)

Spec == Init /\ [][Next]_vars

-----------------------------------------------------------------------------
(* Properties. *)

\* Every variable holds values of its kind; the stored level is never
\* negative.
TypeOK ==
    /\ clock \in 0..MaxClock
    /\ bucket \in Buckets \union {NoKey}
    /\ pending \in [Replicas -> Seq(0..MaxClock)]
    /\ mark \in 0..MaxClock
    /\ counted \in Nat

\* From any moment on, the client gets through at most the capacity and what
\* leaks in the meantime, whatever the order in which scripts of different
\* replicas run and whenever the key expires.  It takes that scripts are run
\* within the second that the time to live has to spare.
AdmissionBound ==
    counted > 0 => counted * Request <= Full + LeakRate * (clock - mark)

\* A script that runs behind a later stamp adds to the level instead of taking
\* from it, and the level rises above the capacity; but however many of them
\* come late, never by more than what leaks while one script waits.
OverfillBounded ==
    bucket # NoKey => bucket.level <= Full + LeakRate * MaxDelay

\* A bucket that expired had leaked empty: a request that was under way when
\* the key went away is judged as if the key were still there, when it was
\* stamped within the last second.
ExpiryHarmless ==
    bucket # NoKey /\ ~Live =>
        \A c \in Replicas, i \in 1..MaxPending :
            i \in DOMAIN pending[c] /\ clock - pending[c][i] <= TicksPerSecond
                => Leaked(bucket.level, bucket.last, pending[c][i]) = 0
=============================================================================
