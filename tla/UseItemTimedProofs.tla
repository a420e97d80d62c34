-------------------------- MODULE UseItemTimedProofs --------------------------
(***************************************************************************)
(* Theorems about UseItem with time: it is still UseItem, so that every    *)
(* safety theorem of UseItemProofs holds of it, and its back-off outlasts  *)
(* the TTL of the lock.                                                    *)
(***************************************************************************)
EXTENDS UseItemTimed, UseItemProofs

-----------------------------------------------------------------------------
(* With time the handlers do what they do without it.                        *)

\* A step of the clock changes nothing that UseItem has, and every other step
\* is one of UseItem.
LEMMA TimedStep == [TimedNext]_timedVars => [Next]_vars
  BY DEF TimedNext, TimedHandler, TimedFailure, TimedExpiry, Tick, Untimed,
         Blocked, Wake, Next, Handler, timedVars

\* The timed handlers implement the untimed ones: the TTL and the back-off only
\* take interleavings away.
THEOREM TimedImplementsUseItem == TimedSpec => Spec
  <1>1. TimedInit => Init
    BY DEF TimedInit
  <1> QED BY <1>1, TimedStep, PTL DEF TimedSpec, Spec

-----------------------------------------------------------------------------
(* The clock.                                                                *)

\* The back-offs of the first four attempts.
LEMMA Delays == Delay(1) = 1 /\ Delay(2) = 2 /\ Delay(3) = 4 /\ Delay(4) = 8
  BY DEF Delay

ClockType ==
    /\ ttl \in 0..LockTTL
    /\ DOMAIN sleep = Requests
    /\ fresh \in [Requests -> BOOLEAN]
    /\ blockers \in [Requests -> Nat]

\* How many times the handler has found the lock taken.
Tries(r) == IF pc[r] = "backoff" THEN attempt[r] ELSE attempt[r] - 1

\* The lock in its way is the one that it found there the last time.
SameLock(r) == lock # NoToken /\ ~fresh[r]

\* What is left of that lock's TTL against the handler's sleep.  The back-offs
\* of three attempts at the same lock, 1 + 2 + 4 ticks, are longer than a TTL
\* of 6, and so is that of the fourth alone.
Outlasting(r) ==
    /\ Tries(r) = 1 => ttl <= 5 + sleep[r]
    /\ Tries(r) = 2 /\ blockers[r] <= 1 => ttl <= 3 + sleep[r]
    /\ Tries(r) = 3 /\ blockers[r] <= 1 => ttl < sleep[r]
    /\ Tries(r) = 4 /\ blockers[r] <= 2 => ttl < sleep[r]

\* How many locks a handler has met after so many attempts.
Met(r) ==
    /\ fresh[r] \/ blockers[r] >= 1
    /\ Tries(r) >= 1 => blockers[r] >= 1
    /\ Tries(r) >= 4 => blockers[r] >= 2
    /\ Tries(r) >= 5 => blockers[r] >= 3

BackoffOf(r) ==
    /\ pc[r] = "acquire" => sleep[r] = 0
    /\ Tries(r) <= 4 => sleep[r] \in Nat
    /\ Met(r)
    /\ SameLock(r) => Outlasting(r)

TimedInv ==
    /\ TypeOK
    /\ ClockType
    /\ \A r \in Requests : pc[r] \in {"acquire", "backoff"} => BackoffOf(r)
    /\ ContendedByMany

\* What the clock does in a step that is not a failed attempt at the lock.
UntimedClock ==
    /\ ttl' = TTLAfter
    /\ sleep' = Known(sleep, 0)
    /\ fresh' = Known([r \in Requests |-> Taken \/ fresh[r]], TRUE)
    /\ blockers' = Known(blockers, 0)

\* The clock's variables keep their kinds.
LEMMA ClockTypeStep ==
  ASSUME ClockType, [TimedNext]_timedVars
  PROVE  ClockType'
  <1> USE TTLAssumption DEF ClockType
  <1>1. CASE UntimedClock
    <2>1. ttl' \in 0..LockTTL
      BY <1>1 DEF UntimedClock, TTLAfter
    <2>2. DOMAIN sleep' = Requests /\ blockers' \in [Requests -> Nat]
      BY <1>1 DEF UntimedClock, Known
    <2>3. \A r \in Requests : (Taken \/ fresh[r]) \in BOOLEAN
      BY DEF Taken
    <2>4. fresh' \in [Requests -> BOOLEAN]
      BY <1>1, <2>3, Zenon DEF UntimedClock, Known
    <2> QED BY <2>1, <2>2, <2>4
  <1>2. ASSUME NEW r \in Requests, Blocked(r) PROVE ClockType'
    <2>1. ttl' \in 0..LockTTL
      BY <1>2 DEF Blocked, TTLAfter
    <2>2. DOMAIN sleep' = Requests /\ blockers' \in [Requests -> Nat]
      BY <1>2 DEF Blocked
    <2>3. fresh' \in [Requests -> BOOLEAN]
      BY <1>2, Zenon DEF Blocked
    <2> QED BY <2>1, <2>2, <2>3
  <1>3. CASE Tick
    BY <1>3 DEF Tick, Less
  <1>4. CASE UNCHANGED timing
    BY <1>4 DEF timing
  <1> QED
    BY <1>1, <1>2, <1>3, <1>4
    DEF TimedNext, TimedHandler, TimedFailure, TimedExpiry, Wake, timedVars,
        Untimed, UntimedClock

\* Nothing that the handler knows of its attempts changes.
Stays(s) == pc'[s] = pc[s] /\ attempt'[s] = attempt[s]

\* A handler that is trying is still at the attempt that it was at after any
\* step but those of its own acquireLock and its own timer.
LEMMA UntimedStays ==
  ASSUME TypeOK, NEW r \in Requests, NEW s \in Requests,
         \/ AcquireLock(r) /\ LockFree
         \/ Decrement(r) \/ Release(r) \/ Unwind(r)
         \/ Emit(r) \/ EmitFails(r) \/ Rollback(r)
         \/ Failure(r),
         pc'[s] \in {"acquire", "backoff", "contended"}
  PROVE  Stays(s)
  <1>1. CASE r # s
    BY <1>1 DEF TypeOK, Stays, Go, AcquireLock, Decrement, Release, Unwind,
                Emit, EmitFails, Rollback, Failure, RedisCallFails, ReplyLost,
                Crash
  <1>2. CASE r = s
    BY <1>2 DEF TypeOK, Stays, Go, AcquireLock, Decrement, Release, Unwind,
                Emit, EmitFails, Rollback, Failure, RedisCallFails, ReplyLost,
                Crash, AfterRelease
  <1> QED BY <1>1, <1>2

\* What a step can be to a handler that tries, or has given up, after it.
LEMMA StepOfOne ==
  ASSUME TypeOK, TimedNext, NEW s \in Requests,
         pc'[s] \in {"acquire", "backoff", "contended"}
  PROVE  \/ Stays(s) /\ UntimedClock
         \/ Stays(s) /\ Tick
         \/ Stays(s) /\ TimedExpiry
         \/ Stays(s) /\ UNCHANGED <<timing, lock>>
         \/ Stays(s) /\ \E r \in Requests \ {s} : Blocked(r)
         \/ Blocked(s)
         \/ Wake(s)
  <1>1. CASE \E r \in Requests :
               \/ TimedFailure(r)
               \/ Untimed((AcquireLock(r) /\ LockFree)
                          \/ Decrement(r) \/ Release(r) \/ Unwind(r)
                          \/ Emit(r) \/ EmitFails(r) \/ Rollback(r))
    BY <1>1, UntimedStays DEF TimedFailure, Untimed, UntimedClock
  <1>2. ASSUME NEW r \in Requests, r # s, Blocked(r) PROVE Stays(s)
    BY <1>2 DEF Blocked, AcquireLock, Go, Stays, TypeOK
  <1>3. ASSUME NEW r \in Requests, r # s, Wake(r)
        PROVE  Stays(s) /\ UNCHANGED <<timing, lock>>
    BY <1>3 DEF Wake, RetryLock, GiveUpLock, Go, Stays, TypeOK, keys
  <1>4. CASE Tick
    BY <1>4 DEF Tick, Stays, vars
  <1>5. CASE TimedExpiry
    BY <1>5 DEF TimedExpiry, LockExpires, Stays
  <1> QED BY <1>1, <1>2, <1>3, <1>4, <1>5 DEF TimedNext, TimedHandler

\* A lock that is there after a step in which none was taken was there before,
\* with the same TTL.
LEMMA SameTTL ==
  ASSUME lock' # NoToken, ~Taken, ttl' = TTLAfter
  PROVE  lock # NoToken /\ ttl' = ttl
  BY DEF Taken, TTLAfter

\* The handler finds the lock taken once more.
LEMMA BlockedStep ==
  ASSUME TimedInv, LockTTL <= 6, NEW s \in Requests, Blocked(s)
  PROVE  BackoffOf(s)'
  <1>1. /\ pc[s] = "acquire" /\ pc'[s] = "backoff"
        /\ attempt' = attempt /\ attempt[s] \in Nat \ {0}
        /\ lock # NoToken /\ ttl' = ttl
        /\ sleep'[s] = Delay(attempt[s])
        /\ fresh'[s] = FALSE
        /\ blockers'[s] = blockers[s] + IF fresh[s] THEN 1 ELSE 0
        /\ blockers[s] \in Nat /\ ttl \in 0..6
    BY TTLAssumption, RetryAssumption
    DEF Blocked, AcquireLock, Go, LockFree, LockAfterAcquire, TTLAfter, Taken,
        TimedInv, TypeOK, ClockType
  <1>2. Tries(s) = attempt[s] - 1 /\ Tries(s)' = attempt[s]
    BY <1>1 DEF Tries
  <1>3. BackoffOf(s) /\ sleep[s] = 0
    BY <1>1 DEF TimedInv, BackoffOf
  <1>4. Met(s)'
    <2>1. attempt[s] = 5 /\ blockers[s] <= 2 => fresh[s]
      <3>1. attempt[s] = 5 /\ blockers[s] <= 2 /\ ~fresh[s] => FALSE
        BY <1>1, <1>2, <1>3 DEF BackoffOf, SameLock, Outlasting
      <3> QED BY <3>1 DEF TimedInv, ClockType
    <2>2. attempt[s] = 4 /\ blockers[s] <= 1 => fresh[s]
      <3>1. attempt[s] = 4 /\ blockers[s] <= 1 /\ ~fresh[s] => FALSE
        BY <1>1, <1>2, <1>3 DEF BackoffOf, SameLock, Outlasting
      <3> QED BY <3>1 DEF TimedInv, ClockType
    <2>3. /\ fresh[s] \/ blockers[s] >= 1
          /\ attempt[s] >= 5 => blockers[s] >= 2
          /\ attempt[s] >= 6 => blockers[s] >= 3
      BY <1>1, <1>2, <1>3 DEF BackoffOf, Met
    <2>4. /\ blockers'[s] >= 1
          /\ attempt[s] >= 4 => blockers'[s] >= 2
          /\ attempt[s] >= 5 => blockers'[s] >= 3
      <3>1. CASE fresh[s]
        <4>1. attempt[s] >= 4 => blockers[s] >= 1
          BY <1>1, <1>2, <1>3 DEF BackoffOf, Met
        <4> QED BY <1>1, <2>3, <3>1, <4>1
      <3>2. CASE ~fresh[s]
        <4>1. attempt[s] >= 5 => blockers[s] >= 2
          BY <1>1, <1>2, <1>3 DEF BackoffOf, Met
        <4> QED BY <1>1, <2>1, <2>2, <2>3, <3>2, <4>1
      <3> QED BY <3>1, <3>2
    <2> QED BY <1>2, <2>4 DEF Met
  <1>5. Outlasting(s)'
    <2>1. CASE fresh[s]
      <3>1. blockers'[s] = blockers[s] + 1
        BY <1>1, <2>1
      <3>2. attempt[s] \in 2..4 => blockers[s] >= 1
        BY <1>1, <1>2, <1>3 DEF BackoffOf, Met
      <3> QED BY <1>1, <1>2, <3>1, <3>2, Delays DEF Outlasting
    <2>2. CASE ~fresh[s]
      <3>1. SameLock(s)
        BY <1>1, <2>2 DEF SameLock
      <3>2. blockers'[s] = blockers[s]
        BY <1>1, <2>2
      <3> QED BY <1>1, <1>2, <1>3, <3>1, <3>2, Delays DEF BackoffOf, Outlasting
    <2> QED BY <2>1, <2>2
  <1>6. Tries(s)' <= 4 => sleep'[s] \in Nat
    BY <1>1, <1>2, Delays
  <1> QED BY <1>1, <1>4, <1>5, <1>6 DEF BackoffOf

\* What a handler knows of its attempts, after each kind of step.
LEMMA BackoffStep ==
  ASSUME TimedInv, LockTTL <= 6, TimedNext, NEW s \in Requests,
         pc'[s] \in {"acquire", "backoff"}
  PROVE  BackoffOf(s)'
  <1>1. ASSUME Stays(s), UNCHANGED <<sleep[s], fresh[s], blockers[s]>>,
               SameLock(s)' => SameLock(s) /\ ttl' = ttl
        PROVE  BackoffOf(s)'
    <2>1. BackoffOf(s) /\ Tries(s)' = Tries(s) /\ pc'[s] = pc[s]
      BY <1>1 DEF TimedInv, Stays, Tries
    <2> QED BY <1>1, <2>1 DEF BackoffOf, Met, Outlasting
  <1>2. CASE Stays(s) /\ UntimedClock
    <2>1. sleep'[s] = sleep[s] /\ blockers'[s] = blockers[s]
      BY <1>2 DEF UntimedClock, Known, Trying
    <2>2. fresh'[s] = (Taken \/ fresh[s])
      BY <1>2, Zenon DEF UntimedClock, Known, Trying
    <2>3. CASE Taken
      <3>1. BackoffOf(s) /\ Tries(s)' = Tries(s) /\ pc'[s] = pc[s]
        BY <1>2 DEF TimedInv, Stays, Tries
      <3>2. fresh'[s]
        BY <2>2, <2>3
      <3> QED BY <2>1, <3>1, <3>2 DEF BackoffOf, Met, SameLock
    <2>4. CASE ~Taken
      <3>1. fresh'[s] = fresh[s]
        BY <2>2, <2>4, Zenon DEF TimedInv, ClockType
      <3>2. SameLock(s)' => SameLock(s) /\ ttl' = ttl
        BY <1>2, <2>4, <3>1, SameTTL DEF SameLock, UntimedClock
      <3> QED BY <1>1, <1>2, <2>1, <3>1, <3>2
    <2> QED BY <2>3, <2>4
  <1>3. CASE Stays(s) /\ Tick
    <2>1. /\ BackoffOf(s) /\ Tries(s)' = Tries(s) /\ pc'[s] = pc[s]
          /\ UNCHANGED <<lock, fresh, blockers>>
          /\ lock # NoToken => ttl # 0
          /\ ttl' = Less(ttl) /\ sleep'[s] = Less(sleep[s]) /\ ttl \in Nat
      BY <1>3, TTLAssumption
      DEF TimedInv, Stays, Tries, Tick, Due, vars, ClockType
    <2>2. SameLock(s)' => SameLock(s) /\ ttl' = ttl - 1
      BY <2>1 DEF SameLock, Less
    <2>3. SameLock(s)' => Outlasting(s)'
      BY <2>1, <2>2 DEF BackoffOf, Outlasting, Less
    <2>4. /\ pc'[s] = "acquire" => sleep'[s] = 0
          /\ Tries(s)' <= 4 => sleep'[s] \in Nat
      BY <2>1 DEF BackoffOf, Less
    <2>5. Met(s)'
      BY <2>1 DEF BackoffOf, Met
    <2> QED BY <2>3, <2>4, <2>5 DEF BackoffOf
  <1>4. CASE Stays(s) /\ TimedExpiry
    BY <1>1, <1>4 DEF TimedExpiry, LockExpires, timing, SameLock
  <1>5. CASE Stays(s) /\ UNCHANGED <<timing, lock>>
    BY <1>1, <1>5 DEF timing, SameLock
  <1>6. CASE Stays(s) /\ \E r \in Requests \ {s} : Blocked(r)
    <2>1. PICK r \in Requests \ {s} : Blocked(r)
      BY <1>6
    <2>2. UNCHANGED <<lock, ttl>>
      BY <2>1 DEF Blocked, AcquireLock, LockFree, LockAfterAcquire, TTLAfter,
                  Taken
    <2>3. UNCHANGED <<sleep[s], blockers[s]>>
      BY <2>1 DEF Blocked, TimedInv, ClockType
    <2>4. UNCHANGED fresh[s]
      BY <2>1, Zenon DEF Blocked, TimedInv, ClockType
    <2> QED BY <1>1, <1>6, <2>2, <2>3, <2>4 DEF SameLock
  <1>7. CASE Blocked(s)
    BY <1>7, BlockedStep
  <1>8. CASE Wake(s)
    <2>1. /\ pc[s] = "backoff" /\ pc'[s] = "acquire" /\ sleep[s] = 0
          /\ attempt[s] \in Nat /\ attempt'[s] = attempt[s] + 1
          /\ UNCHANGED <<timing, lock>>
      BY <1>8, RetryAssumption
      DEF Wake, RetryLock, GiveUpLock, Go, TimedInv, TypeOK, keys
    <2>2. BackoffOf(s) /\ Tries(s)' = Tries(s)
      BY <2>1 DEF TimedInv, Tries
    <2> QED BY <2>1, <2>2
            DEF BackoffOf, Met, Outlasting, SameLock, timing
  <1> QED
    BY <1>2, <1>3, <1>4, <1>5, <1>6, <1>7, <1>8, StepOfOne DEF TimedInv

\* A handler that gives up has made at least five attempts.
LEMMA ContendedStep ==
  ASSUME TimedInv, LockRetryCount >= 5, TimedNext
  PROVE  ContendedByMany'
  <1> SUFFICES ASSUME NEW s \in Requests, pc'[s] = "contended"
               PROVE  blockers'[s] >= 3
    BY DEF ContendedByMany
  <1>1. ASSUME Stays(s), blockers'[s] = blockers[s] PROVE blockers'[s] >= 3
    BY <1>1 DEF Stays, TimedInv, ContendedByMany
  <1>2. CASE Stays(s) /\ UntimedClock
    BY <1>1, <1>2 DEF UntimedClock, Known, Trying
  <1>3. CASE Stays(s) /\ (Tick \/ TimedExpiry \/ UNCHANGED <<timing, lock>>)
    BY <1>1, <1>3 DEF Tick, TimedExpiry, timing
  <1>4. CASE Stays(s) /\ \E r \in Requests \ {s} : Blocked(r)
    BY <1>1, <1>4 DEF Blocked, TimedInv, ClockType
  <1>5. ~Blocked(s)
    BY DEF Blocked, AcquireLock, LockFree, Go, TimedInv, TypeOK
  <1>6. CASE Wake(s)
    <2>1. /\ pc[s] = "backoff" /\ attempt[s] = LockRetryCount
          /\ blockers' = blockers
      BY <1>6
      DEF Wake, RetryLock, GiveUpLock, OutOfAttempts, Go, timing, TimedInv,
          TypeOK
    <2>2. BackoffOf(s) /\ Tries(s) >= 5
      BY <2>1, RetryAssumption DEF TimedInv, Tries
    <2> QED BY <2>1, <2>2 DEF BackoffOf, Met
  <1> QED
    BY <1>2, <1>3, <1>4, <1>5, <1>6, StepOfOne DEF TimedInv

\* With the attempts and the TTL of product.controller.ts, 5 attempts and a TTL
\* of 300 ms against a first back-off of 50 ms, a request that is answered
\* "lock contention" had three locks in its way, one after the other, whatever
\* crashed or was sent twice: an owner that died, or two, cost it time only.
THEOREM ContendedByManyHolds ==
  ASSUME LockRetryCount >= 5, LockTTL <= 6
  PROVE  TimedSpec => []ContendedByMany
  <1>1. TimedInit => TimedInv
    <2> SUFFICES ASSUME TimedInit PROVE TimedInv
      OBVIOUS
    <2>1. TypeOK
      BY StockAssumption, RetryAssumption, BoundAssumption
      DEF TimedInit, Init, TypeOK, States, RedisCalls, Ended, Answers
    <2>2. ClockType
      BY TTLAssumption DEF TimedInit, ClockType
    <2>3. \A r \in Requests : BackoffOf(r)
      BY DEF TimedInit, Init, BackoffOf, Met, Tries, SameLock
    <2>4. ContendedByMany
      BY DEF TimedInit, Init, ContendedByMany
    <2> QED BY <2>1, <2>2, <2>3, <2>4 DEF TimedInv
  <1>2. TimedInv /\ [TimedNext]_timedVars => TimedInv'
    <2> SUFFICES ASSUME TimedInv, [TimedNext]_timedVars PROVE TimedInv'
      OBVIOUS
    <2>1. TypeOK' /\ ClockType'
      BY TimedStep, TypeStep, ClockTypeStep DEF TimedInv
    <2>2. CASE TimedNext
      BY <2>1, <2>2, BackoffStep, ContendedStep DEF TimedInv
    <2>3. CASE UNCHANGED timedVars
      <3>1. UNCHANGED <<pc, attempt, lock, ttl, sleep, fresh, blockers>>
        BY <2>3 DEF timedVars, vars, timing
      <3> QED BY <2>1, <3>1
              DEF TimedInv, ContendedByMany, BackoffOf, Met, Tries, SameLock,
                  Outlasting
    <2> QED BY <2>2, <2>3
  <1>3. TimedInv => ContendedByMany
    BY DEF TimedInv
  <1> QED BY <1>1, <1>2, <1>3, PTL DEF TimedSpec
=============================================================================
