------------------------------ MODULE UseItem ------------------------------
(***************************************************************************)
(* POST /product/use-item and DELETE /product/inventory                    *)
(* (src/src/product/product.controller.ts) over the Redis commands of      *)
(* src/src/redis/redis.service.ts and the Kafka producer of                *)
(* src/src/kafka/kafka-producer.service.ts.                                *)
(*                                                                         *)
(* Each request is one execution of the handler, on any replica.  A step   *)
(* is one awaited call: the Redis command or script, which is atomic in    *)
(* the server, and everything the handler does after its reply until the   *)
(* next await.  A call whose reply is lost is executed and then executed   *)
(* again (ioredis resends unfulfilled commands, kafkajs retries a send).   *)
(***************************************************************************)
EXTENDS Integers, FiniteSets

CONSTANTS
    Requests,        \* executions of the handler
    InitialStock,    \* INITIAL_STOCK
    LockRetryCount,  \* LOCK_RETRY_COUNT
    MaxResets,       \* bound on the resets of the inventory
    MaxRepeats,      \* bound on the replies that are lost
    Faults,          \* the failures that can occur
    LossyCalls,      \* the calls whose reply can be lost
    NoKey,           \* the inventory key does not exist
    NoToken          \* the lock key does not exist

FaultKinds == {"redisError", "kafkaError", "crash"}
RedisCalls == {"acquire", "decrement", "release", "unwind", "rollback"}
Tokens == Requests \X (1..LockRetryCount)

ASSUME RequestsAssumption == IsFiniteSet(Requests)
ASSUME StockAssumption == InitialStock \in Nat
ASSUME RetryAssumption == LockRetryCount \in Nat \ {0}
ASSUME BoundAssumption == MaxResets \in Nat /\ MaxRepeats \in Nat
ASSUME FaultAssumption ==
    /\ Faults \subseteq FaultKinds
    /\ LossyCalls \subseteq RedisCalls \union {"emit"}
ASSUME AbsentAssumption == NoKey \notin Int /\ NoToken \notin Tokens

VARIABLES
    inventory,   \* the Redis key 'inventory'
    lock,        \* the Redis key 'lock:inventory'
    pc,          \* the call each handler is about to make, or its outcome
    attempt,     \* the handler's loop counter, which names its current token
    remaining,   \* what checkAndDecrement returned to the handler
    published,   \* copies of the request's event in the Kafka topic
    lapsed,      \* the tokens whose lock expired (history)
    resets,      \* number of resets so far
    repeats      \* number of lost replies so far

keys == <<inventory, lock, lapsed>>
counters == <<resets, repeats>>
vars == <<inventory, lock, pc, attempt, remaining, published, lapsed,
          resets, repeats>>

-----------------------------------------------------------------------------
(* The vocabulary of the handler's states. *)

\* The outcomes: HTTP 200 (used, outOfStock), 503 (contended, rolledBack),
\* 500 (failed), no answer at all (crashed).
Answers == {"used", "outOfStock", "contended", "rolledBack", "failed"}
Ended == Answers \union {"crashed"}
States == RedisCalls \union {"backoff", "emit"} \union Ended

\* acquireLock draws a fresh random token at every attempt.
Token(r) == <<r, attempt[r]>>

\* What GET /product/inventory answers: an absent key reads as full.
StockOf(value) == IF value = NoKey THEN InitialStock ELSE value

\* The requests whose unit left the stock and did not come back.
Holders == {r \in Requests : remaining[r] >= 0 /\ pc[r] # "rolledBack"}

Published == {r \in Requests : published[r] > 0}

AllEnded == \A r \in Requests : pc[r] \in Ended

-----------------------------------------------------------------------------
(* The Redis commands: what each one does to its key and replies. *)

\* SET lock token PX ttl NX
LockFree == lock = NoToken
SetWithoutNX(r) == Token(r)      \* slip: overwrites the lock
LockAfterAcquire(r) == IF LockFree THEN Token(r) ELSE lock

\* RELEASE_LOCK_SCRIPT
OwnsLock(r) == lock = Token(r)
DelUnchecked(r) == NoToken       \* slip: deletes whoever's lock it is
LockAfterRelease(r) == IF OwnsLock(r) THEN NoToken ELSE lock

\* CHECK_AND_DECREMENT_SCRIPT
CanTake == StockOf(inventory) > 0
StockAfterDecrement ==
    IF CanTake THEN StockOf(inventory) - 1 ELSE StockOf(inventory)
ReplyWithStock == StockAfterDecrement              \* slip: 0, not -1, when empty
ReplyFalsy ==                                      \* slip: the last unit as -1
    IF StockAfterDecrement > 0 THEN StockAfterDecrement ELSE -1
DecrementReply == IF CanTake THEN StockAfterDecrement ELSE -1

\* INCR, which reads an absent key as 0
SetToInitial == InitialStock                       \* slip: a reset instead
StockAfterIncrement == (IF inventory = NoKey THEN 0 ELSE inventory) + 1

-----------------------------------------------------------------------------
Init ==
    /\ inventory = NoKey
    /\ lock = NoToken
    /\ pc = [r \in Requests |-> "acquire"]
    /\ attempt = [r \in Requests |-> 1]
    /\ remaining = [r \in Requests |-> -1]
    /\ published = [r \in Requests |-> 0]
    /\ lapsed = {}
    /\ resets = 0
    /\ repeats = 0

Go(r, state) == pc' = [pc EXCEPT ![r] = state]

\* acquireLock replied: the token was stored, or another token is there.
AcquireLock(r) ==
    /\ pc[r] = "acquire"
    /\ lock' = LockAfterAcquire(r)
    /\ Go(r, IF LockFree THEN "decrement" ELSE "backoff")
    /\ UNCHANGED <<inventory, attempt, remaining, published, lapsed, counters>>

\* The back-off timer fired and the loop has attempts left.
RetryLock(r) ==
    /\ pc[r] = "backoff"
    /\ attempt[r] < LockRetryCount
    /\ attempt' = [attempt EXCEPT ![r] = @ + 1]
    /\ Go(r, "acquire")
    /\ UNCHANGED <<keys, remaining, published, counters>>

OutOfAttempts(r) == attempt[r] = LockRetryCount

\* The last back-off timer fired: 503, lock contention.
GiveUpLock(r) ==
    /\ pc[r] = "backoff"
    /\ OutOfAttempts(r)
    /\ Go(r, "contended")
    /\ UNCHANGED <<keys, attempt, remaining, published, counters>>

\* checkAndDecrement replied; the finally block is next.
Decrement(r) ==
    /\ pc[r] = "decrement"
    /\ inventory' = StockAfterDecrement
    /\ remaining' = [remaining EXCEPT ![r] = DecrementReply]
    /\ Go(r, "release")
    /\ UNCHANGED <<lock, attempt, published, lapsed, counters>>

EmitUnchecked(r) == "emit"       \* slip: no out-of-stock answer
ZeroIsEmpty(r) == IF remaining[r] <= 0 THEN "outOfStock" ELSE "emit"  \* slip

\* What the handler does with the count it got.
AfterRelease(r) == IF remaining[r] < 0 THEN "outOfStock" ELSE "emit"

\* releaseLock replied in the finally block of a decrement that succeeded.
Release(r) ==
    /\ pc[r] = "release"
    /\ lock' = LockAfterRelease(r)
    /\ Go(r, AfterRelease(r))
    /\ UNCHANGED <<inventory, attempt, remaining, published, lapsed, counters>>

\* releaseLock replied in the finally block of a decrement that threw.
Unwind(r) ==
    /\ pc[r] = "unwind"
    /\ lock' = LockAfterRelease(r)
    /\ Go(r, "failed")
    /\ UNCHANGED <<inventory, attempt, remaining, published, lapsed, counters>>

\* The broker acknowledged the event: 200.
Emit(r) ==
    /\ pc[r] = "emit"
    /\ published' = [published EXCEPT ![r] = @ + 1]
    /\ Go(r, "used")
    /\ UNCHANGED <<keys, attempt, remaining, counters>>

\* emit rejected: the catch block undoes the decrement.
EmitFails(r) ==
    /\ "kafkaError" \in Faults
    /\ pc[r] = "emit"
    /\ Go(r, "rollback")
    /\ UNCHANGED <<keys, attempt, remaining, published, counters>>

\* increment replied: 503, event delivery failed.
Rollback(r) ==
    /\ pc[r] = "rollback"
    /\ inventory' = StockAfterIncrement
    /\ Go(r, "rolledBack")
    /\ UNCHANGED <<lock, attempt, remaining, published, lapsed, counters>>

-----------------------------------------------------------------------------
(* Failures. *)

\* A Redis call rejected without having been executed.  Only the decrement
\* stands in a try block; what else throws leaves the handler with a 500.
RedisCallFails(r) ==
    /\ "redisError" \in Faults
    /\ pc[r] \in RedisCalls
    /\ Go(r, IF pc[r] = "decrement" THEN "unwind" ELSE "failed")
    /\ UNCHANGED <<keys, attempt, remaining, published, counters>>

\* The server executed the call and its reply was lost: the client library
\* is going to execute it again, with the same arguments.
ReplyLost(r) ==
    /\ pc[r] \in LossyCalls
    /\ repeats < MaxRepeats
    /\ repeats' = repeats + 1
    /\ \/ /\ pc[r] = "acquire"
          /\ lock' = LockAfterAcquire(r)
          /\ UNCHANGED <<inventory, published>>
       \/ /\ pc[r] = "decrement"
          /\ inventory' = StockAfterDecrement
          /\ UNCHANGED <<lock, published>>
       \/ /\ pc[r] \in {"release", "unwind"}
          /\ lock' = LockAfterRelease(r)
          /\ UNCHANGED <<inventory, published>>
       \/ /\ pc[r] = "rollback"
          /\ inventory' = StockAfterIncrement
          /\ UNCHANGED <<lock, published>>
       \/ /\ pc[r] = "emit"
          /\ published' = [published EXCEPT ![r] = @ + 1]
          /\ UNCHANGED <<inventory, lock>>
    /\ UNCHANGED <<pc, attempt, remaining, lapsed, resets>>

\* The replica that runs the handler dies; Redis keeps what was stored.
Crash(r) ==
    /\ "crash" \in Faults
    /\ pc[r] \notin Ended
    /\ Go(r, "crashed")
    /\ UNCHANGED <<keys, attempt, remaining, published, counters>>

\* The lock's TTL ran out in Redis, whatever its holder is doing.
LockExpires ==
    /\ lock # NoToken
    /\ lock' = NoToken
    /\ lapsed' = lapsed \union {lock}
    /\ UNCHANGED <<inventory, pc, attempt, remaining, published, counters>>

StockAfterReset == InitialStock

\* DELETE /product/inventory: a plain SET, outside the lock.
ResetInventory ==
    /\ resets < MaxResets
    /\ resets' = resets + 1
    /\ inventory' = StockAfterReset
    /\ UNCHANGED <<lock, pc, attempt, remaining, published, lapsed, repeats>>

-----------------------------------------------------------------------------
Handler(r) ==
    \/ AcquireLock(r) \/ RetryLock(r) \/ GiveUpLock(r)
    \/ Decrement(r) \/ Release(r) \/ Unwind(r)
    \/ Emit(r) \/ EmitFails(r) \/ Rollback(r)

Failure(r) == RedisCallFails(r) \/ ReplyLost(r) \/ Crash(r)

\* Every request was answered or lost: the model has nothing left to do.
Finished == AllEnded /\ UNCHANGED vars

Next ==
    \/ \E r \in Requests : Handler(r) \/ Failure(r)
    \/ LockExpires
    \/ ResetInventory
    \/ Finished

Spec == Init /\ [][Next]_vars

-----------------------------------------------------------------------------
(* Properties. *)

\* Every variable holds values of its kind; the stock that Redis stores is
\* never negative (CHECK_AND_DECREMENT_SCRIPT tests before it decrements).
TypeOK ==
    /\ inventory \in Nat \union {NoKey}
    /\ lock \in Tokens \union {NoToken}
    /\ pc \in [Requests -> States]
    /\ attempt \in [Requests -> 1..LockRetryCount]
    /\ remaining \in [Requests -> Nat \union {-1}]
    /\ published \in [Requests -> Nat]
    /\ lapsed \subseteq Tokens
    /\ resets \in 0..MaxResets
    /\ repeats \in 0..MaxRepeats

\* A handler about to decrement has the lock, unless its lock expired.
LeaseHeld ==
    \A r \in Requests :
        pc[r] = "decrement" /\ Token(r) \notin lapsed => lock = Token(r)

\* What a handler knows of the count at each point of its code.
CountKnown ==
    \A r \in Requests :
        /\ pc[r] \in {"acquire", "backoff", "contended", "decrement", "unwind"}
             => remaining[r] = -1
        /\ pc[r] \in {"emit", "rollback", "used", "rolledBack"}
             => remaining[r] >= 0

\* The inductive invariant: who has the lock, and who has a unit, is decided
\* by what each handler has already heard from Redis.
IndInv == TypeOK /\ LeaseHeld /\ CountKnown

\* Two handlers are about to decrement at the same time only when the lock
\* of one of them expired first: late releases, resent commands and retries
\* never let a second handler past the lock.
LeaseExclusion ==
    \A r, s \in Requests :
        r # s /\ pc[r] = "decrement" /\ pc[s] = "decrement"
            => Token(r) \in lapsed \/ Token(s) \in lapsed

\* The units there ever were: the first stock, and as many again at a reset.
Supply == (resets + 1) * InitialStock

\* The units in Redis and the units that requests own never add up to more
\* than what resets brought in: no rollback brings back a unit that another
\* request has, no lost reply makes one.
UnitsBounded == StockOf(inventory) + Cardinality(Holders) <= Supply

\* Nor is a unit lost, until a reset, but by a decrement that was executed
\* twice: what expires, fails or crashes leaves it in Redis or with a request.
UnitsConserved ==
    resets = 0 =>
        InitialStock <= StockOf(inventory) + Cardinality(Holders) + repeats

\* Never more requests are told that they used an item than there are items.
NoOversell == Cardinality({r \in Requests : pc[r] = "used"}) <= Supply

\* The requests that broke off between their decrement and the end of their
\* rollback: a 500, or no answer, for a unit without an event.
BrokenOff ==
    {r \in Holders \ Published : pc[r] \in {"failed", "crashed"}}

UnitsOut == InitialStock - StockOf(inventory)

\* Once every request ended, and nothing was reset, the units that left Redis
\* and the events in Kafka differ by no more than what went wrong: one unit
\* without an event for each request that broke off and each decrement executed
\* twice, one event without a unit for each acknowledgement lost before a
\* rollback.
RedisKafkaGap ==
    AllEnded /\ resets = 0 =>
        /\ UnitsOut - Cardinality(Published) <= Cardinality(BrokenOff) + repeats
        /\ Cardinality(Published) - UnitsOut <= repeats

\* What README.md:69 promises of the rollback: whatever became of the emits,
\* each unit that left Redis has its event in Kafka, and each event its unit.
RedisKafkaConsistent == AllEnded => Cardinality(Published) = UnitsOut

\* As long as nothing was rolled back or reset, no two requests are given the
\* same unit: the counts they return differ.
DistinctUnits ==
    resets = 0 /\ (\A r \in Requests : pc[r] # "rolledBack") =>
        \A r, s \in Requests :
            r # s /\ remaining[r] >= 0 => remaining[r] # remaining[s]

\* The stock is never above what a reset restores.
StockWithinInitial == StockOf(inventory) <= InitialStock

\* A lock is never taken over, and it goes away only when it expires or when
\* its owner is in the finally block: a slow handler never removes the lock
\* of the handler that came after it.
OnlyOwnerReleases ==
    [][lock # NoToken /\ lock' # lock =>
          /\ lock' = NoToken
          /\ \/ lock \in lapsed'
             \/ \E r \in Requests :
                   pc[r] \in {"release", "unwind"} /\ lock = Token(r)]_vars

\* A lock never stays, even when its owner crashed, failed to release it or
\* never learnt that it had it.
LockAlwaysFreed == (lock # NoToken) ~> (lock = NoToken)

\* The stock ledger, which the handler implements with resets and with every
\* failure but one: an increment that is executed twice.
Ledger == INSTANCE Inventory WITH stock <- StockOf(inventory), held <- Holders
LedgerSpec == Ledger!Spec
=============================================================================
