------------------------- MODULE LeakyBucketProofs -------------------------
(***************************************************************************)
(* Theorems about LeakyBucket, for any capacity, leak rate, clock          *)
(* resolution and number of replicas: what a client gets through the rate  *)
(* limiter, and how far reordered scripts can push the level.  Only the    *)
(* first of them asks how long scripts may wait.                           *)
(***************************************************************************)
EXTENDS LeakyBucket, TLAPS

\* What leaks in n ticks.
Leak(n) == LeakRate * n

\* The requests in flight were stamped in the order in which they wait, none
\* of them in the future and none longer ago than a script may wait.
Stamps ==
    \A c \in Replicas : \A i \in DOMAIN pending[c] :
        /\ pending[c][i] <= clock /\ clock - pending[c][i] <= MaxDelay
        /\ pending[c][1] <= pending[c][i]
        /\ \A j \in i..Len(pending[c]) : pending[c][i] <= pending[c][j]

\* The stored level is within the capacity and what leaks between the stamp
\* stored with it and the time it was stored, TimeToLive before it expires.
Written(b) == b.expires - TimeToLive
LevelInv ==
    bucket # NoKey =>
        /\ bucket.last <= Written(bucket) /\ Written(bucket) <= clock
        /\ Written(bucket) - bucket.last <= MaxDelay
        /\ bucket.level <= Full + Leak(Written(bucket) - bucket.last)

\* Every counted request is still in the level, or has leaked since mark; and
\* when the last of them was let through, they were within the bound.  That
\* is so when scripts are run within the time to live's spare second.
Prompt == MaxDelay <= TicksPerSecond
CountInv ==
    counted > 0 =>
        /\ bucket # NoKey
        /\ counted * Request <= bucket.level + Leak(bucket.last - mark)
        /\ counted * Request <= Full + Leak(clock - mark)

Inv == TypeOK /\ Stamps /\ LevelInv /\ (Prompt => CountInv)

-----------------------------------------------------------------------------
(* Arithmetic. *)

\* What leaks in a stretch of time is a whole amount.
LEMMA LeakInt ==
  ASSUME NEW a \in Int
  PROVE  Leak(a) \in Int
  BY LimitsAssumption DEF Leak

\* No less leaks in a longer stretch of time.
LEMMA LeakMonotone ==
  ASSUME NEW a \in Int, NEW b \in Int, a <= b
  PROVE  Leak(a) <= Leak(b)
  BY LimitsAssumption DEF Leak

\* A full bucket leaks empty in the time to live, but for one second.
LEMMA EmptyInTime ==
  /\ TimeToLive \in Nat /\ Full \in Nat /\ Request \in Nat \ {0}
  /\ Full <= Leak(TimeToLive - TicksPerSecond)
  <1> USE LimitsAssumption
  <1> DEFINE q == (Capacity + LeakRate - 1) \div LeakRate
  <1>1. q \in Nat /\ Capacity <= LeakRate * q
    OBVIOUS
  <1>2. TimeToLive = q * TicksPerSecond + TicksPerSecond
    BY <1>1 DEF TimeToLive
  <1> HIDE DEF q
  <1>3. q * TicksPerSecond \in Nat
    BY <1>1
  <1>4. Capacity * TicksPerSecond <= (LeakRate * q) * TicksPerSecond
    BY <1>1
  <1>5. Leak(TimeToLive - TicksPerSecond) = (LeakRate * q) * TicksPerSecond
    BY <1>1, <1>2, <1>3 DEF Leak
  <1> QED BY <1>2, <1>3, <1>4, <1>5 DEF Full, Request

-----------------------------------------------------------------------------
\* A bucket that expired had leaked empty, for a stamp that is not older than
\* a second.
LEMMA ExpiredEmpty ==
  ASSUME TypeOK, LevelInv, bucket # NoKey, ~Live,
         NEW now \in Int, clock - now <= TicksPerSecond
  PROVE  bucket.level + Leak(bucket.last) <= Leak(now)
  <1> USE LimitsAssumption, BoundAssumption
  <1> DEFINE w == Written(bucket)
  <1>1. /\ bucket.level \in Nat /\ bucket.last \in Nat /\ bucket.expires \in Nat
        /\ clock \in Nat
    BY DEF TypeOK, Buckets
  <1>2. w \in Int /\ w + TimeToLive <= clock
    BY <1>1, EmptyInTime DEF Live, Written
  <1> HIDE DEF w
  <1>3. bucket.level <= Full + (Leak(w) - Leak(bucket.last))
    <2>1. bucket.level <= Full + Leak(w - bucket.last)
      BY DEF LevelInv, w
    <2>2. Leak(w - bucket.last) = Leak(w) - Leak(bucket.last)
      BY <1>1, <1>2 DEF Leak
    <2> QED BY <2>1, <2>2
  <1>4. Leak(w + (TimeToLive - TicksPerSecond)) <= Leak(now)
    BY <1>1, <1>2, EmptyInTime, LeakMonotone
  <1>5. /\ Leak(w + (TimeToLive - TicksPerSecond))
             = Leak(w) + Leak(TimeToLive - TicksPerSecond)
        /\ Leak(w) \in Int /\ Leak(TimeToLive - TicksPerSecond) \in Int
        /\ Leak(bucket.last) \in Int /\ Leak(now) \in Int
    BY <1>1, <1>2, EmptyInTime DEF Leak
  <1> QED BY <1>1, <1>3, <1>4, <1>5, EmptyInTime

\* The invariant holds at first.
LEMMA InitInv == Init => Inv
  BY LimitsAssumption, BoundAssumption, AbsentAssumption
  DEF Init, Inv, TypeOK, Stamps, LevelInv, CountInv

\* Time passes only while no stamp gets too old.
LEMMA TickKeeps == Inv /\ Tick => Inv'
  <1> SUFFICES ASSUME Inv, Tick PROVE Inv'
    OBVIOUS
  <1> USE LimitsAssumption, BoundAssumption DEF Inv, Tick
  <1>1. TypeOK'
    BY DEF TypeOK
  <1>2. Stamps'
    <2>0. /\ pending' = pending /\ clock' = clock + 1
      OBVIOUS
    <2> SUFFICES ASSUME NEW c \in Replicas, NEW i \in DOMAIN pending[c]
                 PROVE  /\ pending[c][i] <= clock + 1
                        /\ (clock + 1) - pending[c][i] <= MaxDelay
      BY <2>0 DEF Stamps
    <2>1. pending[c] \in Seq(0..MaxClock) /\ i \in 1..Len(pending[c])
      BY DEF TypeOK
    <2>2. /\ pending[c] # <<>> /\ Head(pending[c]) = pending[c][1]
          /\ 1 \in DOMAIN pending[c]
          /\ pending[c][i] \in Int /\ pending[c][1] \in Int
      BY <2>1
    <2>3. clock - pending[c][1] < MaxDelay /\ pending[c][1] <= pending[c][i]
          /\ pending[c][i] <= clock
      BY <2>2 DEF Stamps
    <2> QED BY <2>2, <2>3 DEF TypeOK
  <1>3. LevelInv'
    BY EmptyInTime DEF LevelInv, Written, Leak, TypeOK, Buckets
  <1>4. (Prompt => CountInv)'
    <2>1. clock \in Int /\ mark \in Int
      BY DEF TypeOK
    <2>2. Leak(clock - mark) <= Leak(clock' - mark)
          /\ Leak(clock - mark) \in Int /\ Leak(clock' - mark) \in Int
      BY <2>1, LeakMonotone, LeakInt DEF TypeOK
    <2> QED BY <2>2, EmptyInTime DEF CountInv, Leak, TypeOK, Prompt
  <1> QED BY <1>1, <1>2, <1>3, <1>4

\* A request is stamped with the clock, behind those that wait.
LEMMA ArriveKeeps ==
  ASSUME Inv, NEW c \in Replicas, Arrive(c)
  PROVE  Inv'
  <1> USE LimitsAssumption, BoundAssumption DEF Inv, Arrive
  <1>1. TypeOK'
    BY DEF TypeOK
  <1>2. Stamps'
    <2> SUFFICES ASSUME NEW d \in Replicas, NEW i \in DOMAIN pending'[d]
                 PROVE  /\ pending'[d][i] <= clock
                        /\ clock - pending'[d][i] <= MaxDelay
                        /\ pending'[d][1] <= pending'[d][i]
                        /\ \A j \in i..Len(pending'[d]) :
                             pending'[d][i] <= pending'[d][j]
      BY DEF Stamps
    <2>1. CASE d # c
      BY <2>1 DEF Stamps, TypeOK
    <2>2. CASE d = c
      <3> DEFINE s == pending[c]
      <3>1. s \in Seq(0..MaxClock) /\ clock \in 0..MaxClock
        BY DEF TypeOK
      <3>2. pending'[d] = Append(s, clock)
        BY <2>2 DEF TypeOK
      <3>3. \A k \in 1..Len(s) :
              /\ s[k] <= clock /\ clock - s[k] <= MaxDelay /\ s[1] <= s[k]
              /\ \A j \in k..Len(s) : s[k] <= s[j]
        BY <3>1 DEF Stamps
      <3> HIDE DEF s
      <3>4. /\ Len(Append(s, clock)) = Len(s) + 1
            /\ Append(s, clock)[Len(s) + 1] = clock
            /\ \A k \in 1..Len(s) : Append(s, clock)[k] = s[k]
            /\ DOMAIN Append(s, clock) = 1..(Len(s) + 1)
            /\ Len(s) \in Nat /\ \A m \in 1..Len(s) : s[m] \in 0..MaxClock
        <4>1. Len(s) \in Nat /\ \A m \in 1..Len(s) : s[m] \in 0..MaxClock
          BY <3>1
        <4>2. /\ Len(Append(s, clock)) = Len(s) + 1
              /\ DOMAIN Append(s, clock) = 1..(Len(s) + 1)
          BY <3>1, <4>1
        <4>3. Append(s, clock)[Len(s) + 1] = clock
          BY <3>1, <4>1
        <4>4. \A k \in 1..Len(s) : Append(s, clock)[k] = s[k]
          BY <3>1, <4>1
        <4> QED BY <4>1, <4>2, <4>3, <4>4
      <3>5. i \in 1..(Len(s) + 1)
        BY <3>2, <3>4
      <3>6. CASE i = Len(s) + 1
        <4>1. Append(s, clock)[1] <= clock
          BY <3>1, <3>3, <3>4
        <4>2. \A j \in i..(Len(s) + 1) : j = i
          BY <3>4, <3>6
        <4>3. /\ pending'[d][i] = clock /\ pending'[d][1] <= clock
              /\ \A j \in i..Len(pending'[d]) : pending'[d][j] = clock
          BY <3>2, <3>4, <3>6, <4>1, <4>2
        <4>4. clock <= clock /\ clock - clock <= MaxDelay
          BY <3>1
        <4> QED BY <4>3, <4>4
      <3>7. CASE i \in 1..Len(s)
        <4>1. Append(s, clock)[1] = s[1] /\ Append(s, clock)[i] = s[i]
          BY <3>4, <3>7
        <4>2. \A j \in i..(Len(s) + 1) : s[i] <= Append(s, clock)[j]
          BY <3>3, <3>4, <3>7
        <4> QED BY <3>2, <3>3, <3>4, <3>7, <4>1, <4>2
      <3> QED BY <3>4, <3>5, <3>6, <3>7
    <2> QED BY <2>1, <2>2
  <1>3. LevelInv' /\ (Prompt => CountInv)'
    BY DEF LevelInv, CountInv, Written, Leak, Prompt
  <1> QED BY <1>1, <1>2, <1>3

-----------------------------------------------------------------------------
(* The script. *)

\* What the script reads: without a bucket, an empty one of this moment.
\* It reads no less than what was stored, leaked since.
LEMMA LevelRead ==
  ASSUME Inv, NEW now \in Int, now <= clock, clock - now <= MaxDelay
  PROVE  LET level == Leaked(Level, Last(now), now)
         IN  /\ level \in Nat
             /\ level <= Full + Leak(clock - now)
             /\ bucket # NoKey /\ Prompt =>
                  bucket.level + Leak(bucket.last) <= level + Leak(now)
  <1> USE LimitsAssumption, BoundAssumption
  <1> DEFINE level == Leaked(Level, Last(now), now)
  <1>1. clock \in Int /\ Full \in Nat
    BY EmptyInTime DEF Inv, TypeOK
  <1>2. /\ Leak(clock - now) \in Nat
        /\ Leak(now) \in Int /\ Leak(clock) \in Int
        /\ Leak(clock - now) = Leak(clock) - Leak(now)
    <2>1. Leak(clock - now) >= 0
      BY <1>1 DEF Leak
    <2>2. Leak(clock - now) = Leak(clock) - Leak(now)
      BY <1>1 DEF Leak
    <2> QED BY <1>1, <2>1, <2>2, LeakInt
  <1>3. CASE Live
    <2> DEFINE b == bucket
    <2>1. /\ b.level \in Nat /\ b.last \in Nat /\ b.expires \in Nat
          /\ b # NoKey
      BY <1>3 DEF Live, Inv, TypeOK, Buckets
    <2>2. level = NotBelowZero(b.level - (Leak(now) - Leak(b.last)))
      <3>1. level = NotBelowZero(b.level - (now - b.last) * LeakRate)
        BY <1>3 DEF Leaked, Level, Last
      <3>2. (now - b.last) * LeakRate = Leak(now) - Leak(b.last)
        BY <2>1 DEF Leak
      <3> QED BY <3>1, <3>2
    <2>3. b.level <= Full + (Leak(clock) - Leak(b.last))
      <3>1. Written(b) \in Int /\ Written(b) <= clock
            /\ b.level <= Full + Leak(Written(b) - b.last)
        BY <2>1, EmptyInTime DEF Inv, LevelInv, Written
      <3>2. Leak(Written(b)) <= Leak(clock)
            /\ Leak(Written(b)) \in Int /\ Leak(b.last) \in Int
        BY <1>1, <2>1, <3>1, LeakMonotone, LeakInt
      <3>3. Leak(Written(b) - b.last) = Leak(Written(b)) - Leak(b.last)
        BY <2>1, <3>1 DEF Leak
      <3> QED BY <1>1, <1>2, <2>1, <3>1, <3>2, <3>3
    <2>4. Leak(b.last) \in Int
      BY <2>1, LeakInt
    <2> HIDE DEF b, level
    <2>5. level \in Nat /\ level <= Full + (Leak(clock) - Leak(now))
          /\ b.level + Leak(b.last) <= level + Leak(now)
      BY <1>1, <1>2, <2>1, <2>2, <2>3, <2>4 DEF NotBelowZero
    <2> QED BY <1>2, <2>5 DEF b, level
  <1>4. CASE ~Live
    <2>1. level = 0
      BY <1>4 DEF Leaked, Level, Last, NotBelowZero
    <2>2. bucket # NoKey /\ Prompt =>
            bucket.level + Leak(bucket.last) <= Leak(now)
      <3> SUFFICES ASSUME bucket # NoKey, Prompt
                   PROVE  bucket.level + Leak(bucket.last) <= Leak(now)
        OBVIOUS
      <3>1. clock - now <= TicksPerSecond
        BY <1>1 DEF Prompt
      <3> QED BY <1>4, <3>1, ExpiredEmpty DEF Inv
    <2> QED BY <1>1, <1>2, <2>1, <2>2
  <1> QED BY <1>3, <1>4

\* An execution of the script keeps the invariant.
LEMMA ExecuteKeeps ==
  ASSUME Inv, NEW c \in Replicas, Execute(c)
  PROVE  Inv'
  <1> USE LimitsAssumption, BoundAssumption
  <1> DEFINE now == Head(pending[c])
             level == Leaked(Level, Last(now), now)
             s == pending[c]
  <1>1. /\ s \in Seq(0..MaxClock) /\ s # <<>> /\ now = s[1] /\ now \in 0..MaxClock
        /\ 1 \in DOMAIN s
    BY DEF Inv, TypeOK, Execute
  <1>2. now \in Int /\ now <= clock /\ clock - now <= MaxDelay
    BY <1>1 DEF Inv, Stamps
  <1>3. /\ level \in Nat /\ level <= Full + Leak(clock - now)
        /\ bucket # NoKey /\ Prompt =>
             bucket.level + Leak(bucket.last) <= level + Leak(now)
    BY <1>2, LevelRead
  <1>4. /\ bucket' = [level |-> After(level), last |-> now,
                      expires |-> clock + TimeToLive]
        /\ counted' = IF Fits(level) /\ now >= mark THEN counted + 1 ELSE counted
        /\ pending' = [pending EXCEPT ![c] = Tail(@)]
        /\ UNCHANGED <<clock, mark>>
    BY DEF Execute
  <1> HIDE DEF now, level
  <1>5. /\ clock \in Nat /\ mark \in Nat /\ counted \in Nat /\ now \in Nat
        /\ Full \in Nat /\ TimeToLive \in Nat /\ Request \in Nat \ {0}
    BY <1>1, EmptyInTime DEF Inv, TypeOK
  <1>6. /\ bucket' # NoKey /\ bucket' \in Buckets
        /\ bucket'.level = After(level) /\ bucket'.last = now
        /\ Written(bucket') = clock
    BY <1>3, <1>4, <1>5, AbsentAssumption DEF Buckets, After, Written
  <1>7. /\ Leak(clock - now) \in Nat
        /\ Leak(now) \in Int /\ Leak(mark) \in Int /\ Leak(clock) \in Int
        /\ Leak(clock - now) = Leak(clock) - Leak(now)
        /\ Leak(now - mark) = Leak(now) - Leak(mark)
        /\ Leak(clock - mark) = Leak(clock) - Leak(mark)
    <2>1. Leak(clock - now) >= 0
      BY <1>2, <1>5 DEF Leak
    <2>2. /\ Leak(clock - now) = Leak(clock) - Leak(now)
          /\ Leak(now - mark) = Leak(now) - Leak(mark)
          /\ Leak(clock - mark) = Leak(clock) - Leak(mark)
      BY <1>5 DEF Leak
    <2> QED BY <1>5, <2>1, <2>2, LeakInt
  <1>8. TypeOK'
    BY <1>1, <1>4, <1>5, <1>6 DEF Inv, TypeOK
  <1>9. Stamps'
    <2>1. ASSUME NEW d \in Replicas, d # c PROVE pending'[d] = pending[d]
      BY <1>4, <2>1 DEF Inv, TypeOK
    <2>2. pending'[c] = Tail(s)
      BY <1>4 DEF Inv, TypeOK
    <2>3. \A i \in 1..Len(s) :
            /\ s[i] <= clock /\ clock - s[i] <= MaxDelay
            /\ \A j \in i..Len(s) : s[i] <= s[j]
      BY <1>1 DEF Inv, Stamps
    <2> HIDE DEF s
    <2>4. /\ Len(s) \in Nat \ {0} /\ Len(Tail(s)) = Len(s) - 1
          /\ DOMAIN Tail(s) = 1..(Len(s) - 1)
          /\ \A i \in 1..(Len(s) - 1) : Tail(s)[i] = s[i + 1]
      BY <1>1
    <2>5. \A i \in 1..(Len(s) - 1) :
            /\ Tail(s)[i] <= clock /\ clock - Tail(s)[i] <= MaxDelay
            /\ Tail(s)[1] <= Tail(s)[i]
            /\ \A j \in i..(Len(s) - 1) : Tail(s)[i] <= Tail(s)[j]
      BY <2>3, <2>4
    <2>6. ASSUME NEW d \in Replicas, NEW i \in DOMAIN pending'[d]
          PROVE  /\ pending'[d][i] <= clock /\ clock - pending'[d][i] <= MaxDelay
                 /\ pending'[d][1] <= pending'[d][i]
                 /\ \A j \in i..Len(pending'[d]) : pending'[d][i] <= pending'[d][j]
      <3>1. CASE d = c
        BY <2>2, <2>4, <2>5, <2>6, <3>1
      <3>2. CASE d # c
        BY <2>1, <2>6, <3>2 DEF Inv, Stamps
      <3> QED BY <3>1, <3>2
    <2> QED BY <1>4, <2>6 DEF Stamps
  <1>10. LevelInv'
    <2>1. After(level) <= Full + Leak(clock - now)
      BY <1>3, <1>5, <1>7 DEF After, Fits
    <2> QED BY <1>2, <1>4, <1>5, <1>6, <2>1 DEF LevelInv, Leak
  <1>11. ASSUME Prompt PROVE CountInv'
    <2>1. counted > 0 => /\ counted * Request <= level + Leak(now) - Leak(mark)
                         /\ counted * Request <= Full + Leak(clock - mark)
      <3> SUFFICES ASSUME counted > 0
                   PROVE  /\ counted * Request <= level + Leak(now) - Leak(mark)
                          /\ counted * Request <= Full + Leak(clock - mark)
        OBVIOUS
      <3>1. /\ bucket # NoKey
            /\ counted * Request <= bucket.level + Leak(bucket.last - mark)
            /\ counted * Request <= Full + Leak(clock - mark)
        BY <1>11 DEF Inv, CountInv
      <3>2. bucket.level \in Nat /\ bucket.last \in Nat
        BY <3>1 DEF Inv, TypeOK, Buckets
      <3>3. Leak(bucket.last - mark) = Leak(bucket.last) - Leak(mark)
            /\ Leak(bucket.last) \in Int
        BY <1>5, <3>2 DEF Leak
      <3>4. counted * Request \in Int
        BY <1>5
      <3> QED BY <1>3, <1>7, <1>11, <3>1, <3>2, <3>3, <3>4
    <2>2. CASE Fits(level) /\ now >= mark
      <3>1. (counted + 1) * Request = counted * Request + Request
            /\ counted * Request \in Nat
        BY <1>5
      <3>2. After(level) = level + Request /\ level + Request <= Full
        BY <2>2 DEF After, Fits
      <3>3. Leak(mark) <= Leak(now) /\ Leak(now) <= Leak(clock)
        BY <1>2, <1>5, <2>2, LeakMonotone
      <3>4. counted * Request <= level + Leak(now) - Leak(mark)
        <4>1. CASE counted = 0
          BY <1>3, <1>5, <1>7, <3>3, <4>1
        <4>2. CASE counted > 0
          BY <2>1, <4>2
        <4> QED BY <1>5, <4>1, <4>2
      <3>5. /\ (counted + 1) * Request <= After(level) + Leak(now - mark)
            /\ (counted + 1) * Request <= Full + Leak(clock - mark)
        BY <1>3, <1>5, <1>7, <3>1, <3>2, <3>3, <3>4
      <3>6. counted' = counted + 1
        BY <1>4, <2>2
      <3> QED BY <1>4, <1>6, <3>5, <3>6 DEF CountInv, Leak, Full, Request
    <2>3. CASE ~(Fits(level) /\ now >= mark)
      <3>1. counted' = counted /\ After(level) >= level
        BY <1>3, <1>4, <1>5, <2>3 DEF After
      <3>2. After(level) \in Int /\ counted * Request \in Int
        BY <1>3, <1>5 DEF After
      <3>3. counted > 0 => counted * Request <= After(level) + Leak(now - mark)
        BY <1>3, <1>7, <2>1, <3>1, <3>2
      <3> QED BY <1>4, <1>6, <2>1, <3>1, <3>3 DEF CountInv, Leak, Full, Request
    <2> QED BY <2>2, <2>3
  <1>12. (Prompt => CountInv)'
    BY <1>11 DEF Prompt
  <1> QED BY <1>8, <1>9, <1>10, <1>12 DEF Inv

\* Every step keeps the invariant.
LEMMA NextInv == Inv /\ [Next]_vars => Inv'
  <1>1. Inv /\ UNCHANGED vars => Inv'
    BY DEF vars, Inv, TypeOK, Stamps, LevelInv, CountInv, Written, Leak, Prompt
  <1> QED BY <1>1, TickKeeps, ArriveKeeps, ExecuteKeeps DEF Next

\* So it holds in every behaviour.
LEMMA Invariance == Spec => []Inv
  BY InitInv, NextInv, PTL DEF Spec

-----------------------------------------------------------------------------
\* Every variable keeps its type; the level is never negative.
THEOREM TypeCorrect == Spec => []TypeOK
  BY Invariance, PTL DEF Inv

\* While no script waits for more than a second, a client gets through the
\* capacity and what leaks, and not one request more, from whatever moment on
\* it is watched.
THEOREM AdmissionBoundHolds ==
  ASSUME MaxDelay <= TicksPerSecond
  PROVE  Spec => []AdmissionBound
  <1>1. Inv => AdmissionBound
    BY DEF Inv, Prompt, CountInv, AdmissionBound, Leak
  <1> QED BY <1>1, Invariance, PTL

\* Late scripts cannot fill the bucket by more than what leaks in MaxDelay.
THEOREM OverfillBoundedHolds == Spec => []OverfillBounded
  <1>1. ASSUME Inv, bucket # NoKey
        PROVE  bucket.level <= Full + LeakRate * MaxDelay
    <2> DEFINE late == Written(bucket) - bucket.last
    <2>1. /\ late \in Int /\ late <= MaxDelay /\ bucket.level \in Int
          /\ bucket.level <= Full + Leak(late)
      BY <1>1, EmptyInTime DEF Inv, TypeOK, Buckets, LevelInv, Written
    <2>2. Leak(late) <= Leak(MaxDelay) /\ Leak(late) \in Int
          /\ Leak(MaxDelay) \in Int
      BY <2>1, BoundAssumption, LeakMonotone, LeakInt
    <2> QED BY <2>1, <2>2, EmptyInTime DEF Leak
  <1>2. Inv => OverfillBounded
    BY <1>1 DEF OverfillBounded
  <1> QED BY <1>2, Invariance, PTL

\* However long other scripts wait, the expiry of the key changes no decision
\* on a request that was stamped within the last second.
THEOREM ExpiryHarmlessHolds == Spec => []ExpiryHarmless
  <1>1. ASSUME Inv, bucket # NoKey, ~Live, NEW c \in Replicas,
               NEW i \in DOMAIN pending[c],
               clock - pending[c][i] <= TicksPerSecond
        PROVE  Leaked(bucket.level, bucket.last, pending[c][i]) = 0
    <2> DEFINE now == pending[c][i]
    <2>1. now \in Int /\ clock - now <= TicksPerSecond
      <3>1. pending[c] \in Seq(0..MaxClock) /\ i \in 1..Len(pending[c])
        BY <1>1 DEF Inv, TypeOK
      <3>2. pending[c][i] \in Int
        BY <3>1, BoundAssumption
      <3> QED BY <1>1, <3>2
    <2>2. bucket.level \in Nat /\ bucket.last \in Nat
      BY <1>1 DEF Inv, TypeOK, Buckets
    <2>3. bucket.level + Leak(bucket.last) <= Leak(now)
      BY <1>1, <2>1, ExpiredEmpty DEF Inv
    <2>4. (now - bucket.last) * LeakRate = Leak(now) - Leak(bucket.last)
          /\ Leak(now) \in Int /\ Leak(bucket.last) \in Int
      BY <2>1, <2>2, LimitsAssumption DEF Leak
    <2> HIDE DEF now
    <2>5. Leaked(bucket.level, bucket.last, now) = 0
      BY <2>2, <2>3, <2>4 DEF Leaked, NotBelowZero
    <2> QED BY <2>5 DEF now
  <1>2. Inv => ExpiryHarmless
    BY <1>1 DEF ExpiryHarmless
  <1> QED BY <1>2, Invariance, PTL
=============================================================================
