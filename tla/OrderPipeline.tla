--------------------------- MODULE OrderPipeline ---------------------------
(***************************************************************************)
(* From the stock to the orders table: the product API (UseItem) and the   *)
(* order consumers (OrderConsumer) with the topic inventory.item-used      *)
(* between them.  An event is appended to the topic by the emit of the     *)
(* request it stands for (src/src/kafka/kafka-producer.service.ts, and     *)
(* InventoryEventDto, whose content is the request's), once for every time *)
(* the send is executed.  The producer gives no key: any partition.        *)
(***************************************************************************)
EXTENDS Integers, Sequences, FiniteSets

CONSTANTS
    Requests, InitialStock, LockRetryCount, MaxResets, MaxRepeats,
    ApiFaults, LossyCalls, NoKey, NoToken,
    Consumers, Partitions, BatchSize, MaxRetries, UniqueConstraint,
    EverCommitted, MaxEvents, ConsumerFaults, MaxFaults, NoOwner

VARIABLES
    inventory, lock, pc, attempt, remaining, published, lapsed, resets, repeats,
    log, committed, owner, next, joined, rows, up, buffer, stage, flushAttempt,
    inserted, delivered, faults,
    origin,    \* the requests of the events of each partition, by offset
    before     \* who was answered before each request began (history)

Api == INSTANCE UseItem WITH Faults <- ApiFaults
Orders == INSTANCE OrderConsumer WITH
              Faults <- ConsumerFaults, attempt <- flushAttempt

ASSUME ApiAssumption ==
    /\ IsFiniteSet(Requests) /\ InitialStock \in Nat
    /\ LockRetryCount \in Nat \ {0}
    /\ MaxResets \in Nat /\ MaxRepeats \in Nat
    /\ ApiFaults \subseteq Api!FaultKinds
    /\ LossyCalls \subseteq Api!RedisCalls \union {"emit"}
    /\ NoKey \notin Int /\ NoToken \notin Api!Tokens
ASSUME OrdersAssumption ==
    /\ IsFiniteSet(Consumers) /\ IsFiniteSet(Partitions)
    /\ NoOwner \notin Consumers
    /\ BatchSize \in Nat \ {0} /\ MaxRetries \in Nat \ {0}
    /\ MaxEvents \in Nat /\ MaxFaults \in Nat
    /\ UniqueConstraint \in BOOLEAN /\ EverCommitted \in BOOLEAN
    /\ ConsumerFaults \subseteq Orders!FaultKinds

api == <<inventory, lock, pc, attempt, remaining, published, lapsed, resets,
         repeats>>
orders == <<log, committed, owner, next, joined, rows, up, buffer, stage,
            flushAttempt, inserted, delivered, faults>>
pipelineVars == <<api, orders, origin, before>>

-----------------------------------------------------------------------------
Used == {r \in Requests : pc[r] = "used"}

PipelineInit ==
    /\ Api!Init
    /\ Orders!Init
    /\ origin = [p \in Partitions |-> <<>>]
    /\ before = [r \in Requests |-> {}]

\* A request has not begun until the first answer to its acquireLock.
NotBegun(r) == pc[r] = "acquire" /\ attempt[r] = 1
Remember ==
    before' = [r \in Requests |-> IF NotBegun(r)' THEN Used' ELSE before[r]]

\* A step of the API that sends nothing.
ApiStep(r) ==
    /\ Api!Handler(r) \/ Api!Failure(r)
    /\ published' = published
    /\ Remember
    /\ UNCHANGED <<orders, origin>>

\* KafkaProducerService.emit: the broker appends the event, and the answer
\* arrives or is lost.
Publish(r, p) ==
    /\ pc[r] = "emit"
    /\ Api!Emit(r) \/ Api!ReplyLost(r)
    /\ Orders!Produce(p)
    /\ origin' = [origin EXCEPT ![p] = Append(@, r)]
    /\ Remember

ConsumerStep(c) ==
    /\ \/ \E p \in Partitions : Orders!Deliver(c, p)
       \/ Orders!Process(c)
    /\ UNCHANGED <<api, origin, before>>

GroupStep ==
    /\ Orders!Rebalance
    /\ UNCHANGED <<api, origin, before>>

Settled ==
    /\ Api!AllEnded
    /\ up = Consumers /\ joined = up
    /\ \A p \in Partitions : next[p] = log[p]
    /\ \A c \in Consumers : stage[c] = "idle"

\* Every request ended and every event was delivered.
PipelineFinished == Settled /\ UNCHANGED pipelineVars

PipelineNext ==
    \/ \E r \in Requests : ApiStep(r)
    \/ \E r \in Requests, p \in Partitions : Publish(r, p)
    \/ \E c \in Consumers : ConsumerStep(c)
    \/ GroupStep
    \/ PipelineFinished

PipelineSpec == PipelineInit /\ [][PipelineNext]_pipelineVars

-----------------------------------------------------------------------------
(* Properties. *)

Positions == Orders!Positions
Holders == Api!Holders

\* The request an event stands for; origin[p] has an entry for every offset.
OriginOf(e) == origin[e[1]][e[2] + 1]

RowsOf(r) == {e \in Positions : rows[e] > 0 /\ OriginOf(e) = r}
Ordered == {r \in Requests : RowsOf(r) # {}}

\* An order is saved for a request that keeps its unit, however late it is
\* saved; only the loss of the broker's answer, after which an emit can be
\* taken for failed and its item be given back, leaves an order without one.
OrdersBacked == Cardinality(Ordered \ Holders) <= repeats

\* There are never more orders than units that left the stock, but for the
\* events that were sent again, or given up for lost, because the broker's
\* answer was lost.
OrdersWithinStock ==
    Cardinality(UNION {RowsOf(r) : r \in Requests})
        <= InitialStock - Api!StockOf(inventory) + repeats

RolledBack == {r \in Requests : pc[r] = "rolledBack"}

\* The emit runs after the lock is released, so events of requests that
\* overlap may change places; those of requests that do not overlap never do.
\* Who began after another was answered comes later in the partition, and
\* with a smaller count as long as nothing is rolled back.
AnswersOrdered ==
    \A s \in Requests : \A r \in before[s] :
        /\ remaining[s] >= 0 /\ RolledBack = {} => remaining[s] < remaining[r]
        /\ \A p \in Partitions : \A i, j \in DOMAIN origin[p] :
              origin[p][i] = r /\ origin[p][j] = s => i < j

\* The consumers' own promises, with events that come from the API.
NothingLost == Orders!NothingLost
CommittedNeverBack ==
    [][\A p \in Partitions : committed'[p] >= committed[p]]_pipelineVars
=============================================================================
