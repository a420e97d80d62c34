--------------------------- MODULE OrderConsumer ---------------------------
(***************************************************************************)
(* The order consumers: OrderConsumer.handleItemUsed and OrderService      *)
(* (src/order-consumer/src/orders) between the Kafka topic                 *)
(* inventory.item-used and the Postgres table orders.                      *)
(*                                                                         *)
(* kafkajs hands a member one message at a time and awaits the handler, so *)
(* a flush blocks its consumer.  A step is one awaited call (repo.save, a  *)
(* commit of offsets, a back-off timer) with what the code does after it.  *)
(* The broker's side, group membership, assignment and fetch positions, is *)
(* external and modelled from the options of src/order-consumer/src/main.ts*)
(* (one group, no automatic commit, no fromBeginning).                     *)
(***************************************************************************)
EXTENDS Integers, Sequences, FiniteSets

CONSTANTS
    Consumers,      \* processes of the consumer group
    Partitions,     \* partitions of the topic
    BatchSize,      \* BATCH_SIZE
    MaxRetries,     \* MAX_RETRIES
    UniqueConstraint,  \* the table has the constraint of order.entity.ts
    EverCommitted,  \* the group has committed offsets before
    MaxEvents,      \* bound on the events of a partition
    Faults,         \* the failures that can occur
    MaxFaults,      \* bound on their number
    NoOwner         \* no member is assigned to the partition

NoOffset == -1      \* the broker's answer for a partition never committed
Offsets == 0..(MaxEvents - 1)
Positions == Partitions \X Offsets
FaultKinds == {"dbDown", "replyLost", "commitFails", "crash", "crashUnsaved",
               "rebalance"}

ASSUME SetsAssumption ==
    IsFiniteSet(Consumers) /\ IsFiniteSet(Partitions) /\ NoOwner \notin Consumers
ASSUME BatchAssumption ==
    BatchSize \in Nat \ {0} /\ MaxRetries \in Nat \ {0}
ASSUME BoundAssumption ==
    /\ MaxEvents \in Nat /\ MaxFaults \in Nat
    /\ UniqueConstraint \in BOOLEAN /\ EverCommitted \in BOOLEAN
    /\ Faults \subseteq FaultKinds

VARIABLES
    log,        \* events published to each partition
    committed,  \* the group's committed offset of each partition
    owner,      \* the member each partition is assigned to
    next,       \* the offset its owner fetches next
    joined,     \* the members of the current generation of the group
    rows,       \* rows of the orders table, by (kafkaPartition, kafkaOffset)
    up,         \* the consumer processes that run
    buffer,     \* OrderService.buffer of each process
    stage,      \* where its flush is; "idle" is flushing = false
    attempt,    \* the flush's loop counter
    inserted,   \* the batch's entities were given ids by an INSERT
    delivered,  \* the events a handler was called with (history)
    faults      \* number of failures so far

broker == <<log, committed, owner, next, joined>>
process == <<up, buffer, stage, attempt, inserted>>
vars == <<log, committed, owner, next, joined, rows, up, buffer, stage,
          attempt, inserted, delivered, faults>>

Stages == {"idle", "saving", "committing", "waiting"}

-----------------------------------------------------------------------------
(* The batch of a flush. *)

\* this.buffer.slice(0, BATCH_SIZE)
Batch(c) == SubSeq(buffer[c], 1, BatchSize)
BatchEvents(c) == {Batch(c)[i] : i \in DOMAIN Batch(c)}
Buffered(c) == {buffer[c][i] : i \in DOMAIN buffer[c]}

\* The buffer without the batch: this.buffer.splice(0, batch.length)
Spliced(c) == SubSeq(buffer[c], BatchSize + 1, Len(buffer[c]))

\* How often the batch holds an event.
Copies(c, e) == Cardinality({i \in DOMAIN Batch(c) : Batch(c)[i] = e})

\* Postgres takes the whole batch or nothing of it.  With @Unique it takes no
\* second row for a (partition, offset); but it is TypeORM's synchronize that
\* creates the constraint, and that is off in production.  Entities that have
\* their id are rows already there: saving them again changes nothing.
Insertable(c) ==
    \/ inserted[c]
    \/ UniqueConstraint => \A e \in BatchEvents(c) : rows[e] + Copies(c, e) = 1
InsertedAgain(c) ==              \* slip: new entities at every attempt
    [e \in Positions |-> rows[e] + Copies(c, e)]
RowsAfterSave(c) ==
    IF inserted[c] THEN rows
    ELSE [e \in Positions |-> rows[e] + Copies(c, e)]

\* The offset to commit for a partition: the highest in the batch, plus one.
OffsetsIn(c, p) == {o \in Offsets : <<p, o>> \in BatchEvents(c)}
FirstIn(c, p) ==                 \* slip: < for >
    CHOOSE o \in OffsetsIn(c, p) : \A x \in OffsetsIn(c, p) : o <= x
LastIn(c, p) == CHOOSE o \in OffsetsIn(c, p) : \A x \in OffsetsIn(c, p) : x <= o
OneTooFar(c) ==                  \* slip: the position after the next event
    [p \in Partitions |->
        IF OffsetsIn(c, p) = {} THEN committed[p] ELSE LastIn(c, p) + 2]
OthersToZero(c) ==               \* slip: a partition not in the batch
    [p \in Partitions |->
        IF OffsetsIn(c, p) = {} THEN 0 ELSE LastIn(c, p) + 1]
CommitOffsets(c) ==
    [p \in Partitions |->
        IF OffsetsIn(c, p) = {} THEN committed[p] ELSE LastIn(c, p) + 1]

AlwaysLatest(p) == log[p]        \* slip: committed offsets not looked at

\* Where a newly assigned partition is fetched from: the committed offset,
\* or the end of the log when there is none (no fromBeginning).
FetchPosition(p) == IF committed[p] = NoOffset THEN log[p] ELSE committed[p]

-----------------------------------------------------------------------------
\* A consumer group that has caught up with an empty topic.
Init ==
    /\ log = [p \in Partitions |-> 0]
    /\ committed = [p \in Partitions |-> IF EverCommitted THEN 0 ELSE NoOffset]
    /\ owner = [p \in Partitions |-> NoOwner]
    /\ next = [p \in Partitions |-> 0]
    /\ joined = {}
    /\ rows = [e \in Positions |-> 0]
    /\ up = Consumers
    /\ buffer = [c \in Consumers |-> <<>>]
    /\ stage = [c \in Consumers |-> "idle"]
    /\ attempt = [c \in Consumers |-> 1]
    /\ inserted = [c \in Consumers |-> FALSE]
    /\ delivered = {}
    /\ faults = 0

Enter(c, s) == stage' = [stage EXCEPT ![c] = s]

Fault(kind) ==
    /\ kind \in Faults
    /\ faults < MaxFaults
    /\ faults' = faults + 1

\* The product API publishes an event.
Produce(p) ==
    /\ log[p] < MaxEvents
    /\ log' = [log EXCEPT ![p] = @ + 1]
    /\ UNCHANGED <<committed, owner, next, joined, rows, process, delivered,
                   faults>>

OverfillsBatch(c) == Len(buffer[c]) + 1 > BatchSize   \* slip: > for >=
FillsBatch(c) == Len(buffer[c]) + 1 >= BatchSize
StartsFlush(c) == FillsBatch(c) /\ stage[c] = "idle"

\* handleItemUsed, createFromEvent: the event is buffered, and the event
\* that fills a batch starts a flush, which the handler awaits.
Deliver(c, p) ==
    /\ c \in up /\ stage[c] = "idle"
    /\ owner[p] = c
    /\ next[p] < log[p]
    /\ next' = [next EXCEPT ![p] = @ + 1]
    /\ buffer' = [buffer EXCEPT ![c] = Append(@, <<p, next[p]>>)]
    /\ delivered' = delivered \union {<<p, next[p]>>}
    /\ IF StartsFlush(c)
       THEN /\ Enter(c, "saving")
            /\ attempt' = [attempt EXCEPT ![c] = 1]
            /\ inserted' = [inserted EXCEPT ![c] = FALSE]
       ELSE UNCHANGED <<stage, attempt, inserted>>
    /\ UNCHANGED <<log, committed, owner, joined, rows, up, faults>>

\* repo.save resolved.
Save(c) ==
    /\ stage[c] = "saving"
    /\ Insertable(c)
    /\ rows' = RowsAfterSave(c)
    /\ inserted' = [inserted EXCEPT ![c] = TRUE]
    /\ Enter(c, "committing")
    /\ UNCHANGED <<broker, up, buffer, attempt, delivered, faults>>

ErrorIgnored == "committing"      \* slip: commits although the save failed
AfterError == "waiting"

\* repo.save rejected: a row of the batch violates the unique constraint.
SaveRejected(c) ==
    /\ stage[c] = "saving"
    /\ ~Insertable(c)
    /\ Enter(c, AfterError)
    /\ UNCHANGED <<broker, rows, up, buffer, attempt, inserted, delivered,
                   faults>>

\* repo.save rejected: the database could not be reached.
SaveFails(c) ==
    /\ stage[c] = "saving"
    /\ Fault("dbDown")
    /\ Enter(c, AfterError)
    /\ UNCHANGED <<broker, rows, up, buffer, attempt, inserted, delivered>>

\* repo.save rejected although the transaction was committed.
SaveReplyLost(c) ==
    /\ stage[c] = "saving"
    /\ Insertable(c)
    /\ Fault("replyLost")
    /\ rows' = RowsAfterSave(c)
    /\ inserted' = [inserted EXCEPT ![c] = TRUE]
    /\ Enter(c, "waiting")
    /\ UNCHANGED <<broker, up, buffer, attempt, delivered>>

\* commitOffsets resolved: the batch leaves the buffer.  The broker takes
\* the offset of any partition from a member of the generation.
Commit(c) ==
    /\ stage[c] = "committing"
    /\ c \in joined
    /\ committed' = CommitOffsets(c)
    /\ buffer' = [buffer EXCEPT ![c] = Spliced(c)]
    /\ Enter(c, "idle")
    /\ UNCHANGED <<log, owner, next, joined, rows, up, attempt, inserted,
                   delivered, faults>>

\* commitOffsets rejected: by chance, or because the group has moved on.
CommitFails(c) ==
    /\ stage[c] = "committing"
    /\ IF c \in joined THEN Fault("commitFails") ELSE UNCHANGED faults
    /\ Enter(c, "waiting")
    /\ UNCHANGED <<broker, rows, up, buffer, attempt, inserted, delivered>>

\* commitOffsets rejected although the broker stored the offsets.
CommitReplyLost(c) ==
    /\ stage[c] = "committing"
    /\ c \in joined
    /\ Fault("commitFails")
    /\ committed' = CommitOffsets(c)
    /\ Enter(c, "waiting")
    /\ UNCHANGED <<log, owner, next, joined, rows, up, buffer, attempt,
                   inserted, delivered>>

SameAttempt(c) == attempt[c]      \* slip: the counter stands still
NextAttempt(c) == attempt[c] + 1
NoRetry(c) == TRUE                \* slip: gives up on the first error
OutOfAttempts(c) == attempt[c] = MaxRetries

\* The back-off timer fired and the loop has attempts left.
Retry(c) ==
    /\ stage[c] = "waiting"
    /\ attempt[c] < MaxRetries
    /\ attempt' = [attempt EXCEPT ![c] = NextAttempt(c)]
    /\ Enter(c, "saving")
    /\ UNCHANGED <<broker, rows, up, buffer, inserted, delivered, faults>>

\* The last back-off timer fired: the batch leaves the buffer, uncommitted.
GiveUp(c) ==
    /\ stage[c] = "waiting"
    /\ OutOfAttempts(c)
    /\ buffer' = [buffer EXCEPT ![c] = Spliced(c)]
    /\ Enter(c, "idle")
    /\ UNCHANGED <<broker, rows, up, attempt, inserted, delivered, faults>>

-----------------------------------------------------------------------------
(* Processes and the group. *)

\* The process dies, or is stopped: main.ts enables no shutdown hook, so
\* onModuleDestroy does not run and the buffer is gone either way.  A crash of
\* the kind "crashUnsaved" comes before the save of anything in the buffer.
Crash(c) ==
    /\ c \in up
    /\ \/ Fault("crash")
       \/ Fault("crashUnsaved") /\ \A e \in Buffered(c) : rows[e] = 0
    /\ up' = up \ {c}
    /\ buffer' = [buffer EXCEPT ![c] = <<>>]
    /\ Enter(c, "idle")
    /\ joined' = joined \ {c}
    /\ owner' = [p \in Partitions |-> IF owner[p] = c THEN NoOwner ELSE owner[p]]
    /\ UNCHANGED <<log, committed, next, rows, attempt, inserted, delivered>>

\* The orchestrator starts the process again.
Restart(c) ==
    /\ c \notin up
    /\ up' = up \union {c}
    /\ UNCHANGED <<broker, rows, buffer, stage, attempt, inserted, delivered,
                   faults>>

\* Who can join a new generation: a member between two messages, and one in a
\* flush whose commit was rejected, which makes kafkajs join again meanwhile.
Idle == {c \in up : stage[c] = "idle"}
Joinable == {c \in up : stage[c] = "idle" \/ inserted[c]}

\* A new generation: the partitions go to its members, and every one of them
\* fetches from FetchPosition.  The buffers stay as they are.
NewGeneration(members) ==
    /\ members # {}
    /\ joined' = members
    /\ owner' \in [Partitions -> members]
    /\ next' = [p \in Partitions |-> FetchPosition(p)]
    /\ UNCHANGED <<log, committed, rows, process, delivered>>

\* The members changed, or partitions were left without one; the coordinator
\* waits for those that are in a flush.
Rebalance ==
    /\ joined # up \/ \E p \in Partitions : owner[p] = NoOwner
    /\ Joinable = up
    /\ NewGeneration(up)
    /\ UNCHANGED faults

\* The same without a change of processes: a missed heartbeat, or a flush
\* that outlasts the session timeout and loses its membership.
SpontaneousRebalance ==
    /\ joined # {}
    /\ Fault("rebalance")
    /\ \E members \in SUBSET Joinable :
          Idle \subseteq members /\ NewGeneration(members)

-----------------------------------------------------------------------------
Flush(c) ==
    \/ Save(c) \/ SaveRejected(c)
    \/ Commit(c) \/ CommitFails(c)
    \/ Retry(c) \/ GiveUp(c)

Failure(c) ==
    \/ SaveFails(c) \/ SaveReplyLost(c) \/ CommitReplyLost(c) \/ Crash(c)

\* What a process does between two messages.
Process(c) == Flush(c) \/ Failure(c) \/ Restart(c)

CaughtUp ==
    /\ up = Consumers /\ joined = up
    /\ \A p \in Partitions : log[p] = MaxEvents /\ next[p] = MaxEvents
    /\ \A c \in Consumers : stage[c] = "idle"

\* Everything was delivered and no flush runs: nothing is left to do.
Finished == CaughtUp /\ UNCHANGED vars

Next ==
    \/ \E p \in Partitions : Produce(p)
    \/ \E c \in Consumers, p \in Partitions : Deliver(c, p)
    \/ \E c \in Consumers : Process(c)
    \/ Rebalance
    \/ SpontaneousRebalance
    \/ Finished

Spec == Init /\ [][Next]_vars

\* The event loop runs every settled promise and timer, the broker hands out
\* what is published and completes rebalances, and processes are restarted
\* (docker-compose.yml: restart on-failure).
Fairness ==
    /\ \A c \in Consumers :
         /\ WF_vars(Flush(c))
         /\ WF_vars(Restart(c))
         /\ WF_vars(\E p \in Partitions : Deliver(c, p))
    /\ WF_vars(Rebalance)

FairSpec == Spec /\ Fairness

-----------------------------------------------------------------------------
(* Properties. *)

\* Every variable holds values of its kind, and a buffer never outgrows a
\* batch: no event is handed over while a flush of the process runs.
TypeOK ==
    /\ log \in [Partitions -> 0..MaxEvents]
    /\ committed \in [Partitions -> (0..MaxEvents) \union {NoOffset}]
    /\ owner \in [Partitions -> Consumers \union {NoOwner}]
    /\ next \in [Partitions -> 0..MaxEvents]
    /\ joined \subseteq up /\ up \subseteq Consumers
    /\ rows \in [Positions -> Nat]
    /\ buffer \in [Consumers -> Seq(Positions)]
    /\ \A c \in Consumers : Len(buffer[c]) <= BatchSize
    /\ stage \in [Consumers -> Stages]
    /\ attempt \in [Consumers -> 1..MaxRetries]
    /\ inserted \in [Consumers -> BOOLEAN]
    /\ delivered \subseteq Positions
    /\ faults \in 0..MaxFaults

\* The offsets that a flush is about to commit for the events of its batch are
\* those of events that are in the table, also when the save was an earlier
\* attempt's.
CommitsSaved ==
    \A c \in Consumers, p \in Partitions :
        stage[c] = "committing" =>
            \A o \in OffsetsIn(c, p) : rows[<<p, o>>] > 0

\* The orders table never has two rows for one event, whatever is replayed.
NoDuplicateOrders == \A e \in Positions : rows[e] <= 1

\* The group never commits past an event that is not in the table.
CommittedIsSaved ==
    \A p \in Partitions, o \in Offsets : o < committed[p] => rows[<<p, o>>] > 0

\* An event in the table is committed, or its flush still runs and has it:
\* what is replayed after a restart is what is not in the table.
SavedIsCommitted ==
    \A e \in Positions :
        rows[e] > 0 =>
            e[2] < committed[e[1]] \/ \E c \in up : e \in Buffered(c)

\* An event that a handler was called with is in the table or in the buffer
\* of a running process, or it is going to be delivered again.
NothingLost ==
    \A e \in delivered :
        \/ rows[e] > 0
        \/ \E c \in up : e \in Buffered(c)
        \/ owner[e[1]] = NoOwner
        \/ next[e[1]] <= e[2]

\* Committed offsets never go back.
CommittedNeverBack ==
    [][\A p \in Partitions : committed'[p] >= committed[p]]_vars

\* A flush comes to an end: its process never stays deaf to new events.
FlushEnds ==
    \A c \in Consumers : (stage[c] # "idle") ~> (stage[c] = "idle")

\* Once everything is published, what stays unsaved for good is less than a
\* batch: no timer flushes the rest of a buffer.
Unsaved == {e \in Positions : e[2] < log[e[1]] /\ rows[e] = 0}
OnlyTailUnsaved == <>[](Cardinality(Unsaved) < BatchSize)
=============================================================================
