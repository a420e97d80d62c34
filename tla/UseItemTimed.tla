---------------------------- MODULE UseItemTimed ----------------------------
(***************************************************************************)
(* UseItem with time: the TTL of the lock against the back-off of useItem  *)
(* (src/src/product/product.controller.ts).  The lock expires when its TTL *)
(* is over and not before, and an attempt is made when its back-off is     *)
(* over or later; every other step takes any time at all.  A tick is the   *)
(* first back-off, LOCK_RETRY_MS.  Resets are left out, as they do not     *)
(* look at the lock.                                                       *)
(***************************************************************************)
EXTENDS UseItem

CONSTANT LockTTL       \* LOCK_TTL_MS, in ticks

ASSUME TTLAssumption == LockTTL \in Nat \ {0}

VARIABLES
    ttl,       \* what is left of the lock's TTL; 0 without a lock
    sleep,     \* what is left of each handler's back-off
    fresh,     \* the lock was taken since the handler last found it taken
    blockers   \* how many times the lock was taken by those in its way

timing == <<ttl, sleep, fresh, blockers>>
timedVars == <<vars, timing>>

SameDelay(n) == 1                \* slip: a constant back-off
\* LOCK_RETRY_MS * 2 ** (attempt - 1)
Delay(n) == 2^(n - 1)

-----------------------------------------------------------------------------
TimedInit ==
    /\ Init
    /\ ttl = 0
    /\ sleep = [r \in Requests |-> 0]
    /\ fresh = [r \in Requests |-> TRUE]
    /\ blockers = [r \in Requests |-> 0]

\* Does the step take the lock?
Taken == lock = NoToken /\ lock' # NoToken

\* PX: a TTL begins with the lock, and an attempt that fails leaves it alone.
TTLAfter == IF lock' = NoToken THEN 0 ELSE IF Taken THEN LockTTL ELSE ttl

\* What is known of a handler's attempts goes when it is past them.
Trying(r) == pc'[r] \in {"acquire", "backoff", "contended"}
Known(f, default) ==
    [r \in Requests |-> IF Trying(r) THEN f[r] ELSE default]

\* A step that is not a failed attempt at the lock.
Untimed(A) ==
    /\ A
    /\ ttl' = TTLAfter
    /\ sleep' = Known(sleep, 0)
    /\ fresh' = Known([r \in Requests |-> Taken \/ fresh[r]], TRUE)
    /\ blockers' = Known(blockers, 0)

\* acquireLock: a handler that finds the lock taken sets its timer.
Blocked(r) ==
    /\ AcquireLock(r) /\ ~LockFree
    /\ ttl' = TTLAfter
    /\ sleep' = [sleep EXCEPT ![r] = Delay(attempt[r])]
    /\ fresh' = [fresh EXCEPT ![r] = FALSE]
    /\ blockers' = [blockers EXCEPT ![r] = @ + IF fresh[r] THEN 1 ELSE 0]

\* The timer fires.
Wake(r) ==
    /\ sleep[r] = 0
    /\ RetryLock(r) \/ GiveUpLock(r)
    /\ UNCHANGED timing

TimedHandler(r) ==
    \/ Blocked(r)
    \/ Wake(r)
    \/ Untimed((AcquireLock(r) /\ LockFree)
               \/ Decrement(r) \/ Release(r) \/ Unwind(r)
               \/ Emit(r) \/ EmitFails(r) \/ Rollback(r))

NeverDue == FALSE                \* slip: SET without PX
Due == lock # NoToken /\ ttl = 0
TimedExpiry ==
    /\ Due
    /\ LockExpires
    /\ UNCHANGED timing

TimedFailure(r) == Untimed(Failure(r))

Less(n) == IF n = 0 THEN 0 ELSE n - 1
Tick ==
    /\ ~Due
    /\ ttl' = Less(ttl)
    /\ sleep' = [r \in Requests |-> Less(sleep[r])]
    /\ UNCHANGED <<vars, fresh, blockers>>

TimedNext ==
    \/ \E r \in Requests : TimedHandler(r) \/ TimedFailure(r)
    \/ TimedExpiry
    \/ Tick

TimedSpec == TimedInit /\ [][TimedNext]_timedVars

\* Node runs the continuation of every settled call and every timer, each call
\* settles (the clients time out), Redis expires keys by itself, and time goes
\* by. Nothing obliges a failure to occur.
TimedFairSpec ==
    /\ TimedSpec
    /\ \A r \in Requests : WF_timedVars(TimedHandler(r))
    /\ WF_timedVars(TimedExpiry)
    /\ WF_timedVars(Tick)

-----------------------------------------------------------------------------
(* Properties. *)

\* A request is answered "lock contention" only when the lock was taken three
\* times in its way: the back-off outlasts a lock whose owner died, and even
\* two of them in a row.
ContendedByMany ==
    \A r \in Requests : pc[r] = "contended" => blockers[r] >= 3
=============================================================================
