------------------------- MODULE OrderPipelineProofs -------------------------
(***************************************************************************)
(* Theorems about OrderPipeline: it runs UseItem and OrderConsumer as they *)
(* are, so that it keeps the promises of both, and what the orders table   *)
(* and the topic hold agrees with what the product API answered.           *)
(***************************************************************************)
EXTENDS OrderPipeline, FiniteSetTheorems, TLAPS

ApiP == INSTANCE UseItemProofs WITH Faults <- ApiFaults
OrdersP == INSTANCE OrderConsumerProofs WITH
               Faults <- ConsumerFaults, attempt <- flushAttempt

-----------------------------------------------------------------------------
(* The components, under the names of the modules of their proofs.           *)

\* Finite sets are the same thing there, and so is their cardinality.
LEMMA SetWords ==
  \A S : /\ ApiP!IsFiniteSet(S) <=> IsFiniteSet(S)
         /\ OrdersP!IsFiniteSet(S) <=> IsFiniteSet(S)
         /\ ApiP!Cardinality(S) = Cardinality(S)
         /\ OrdersP!Cardinality(S) = Orders!Cardinality(S)
  BY DEF IsFiniteSet, ApiP!IsFiniteSet, OrdersP!IsFiniteSet, Cardinality,
         ApiP!Cardinality, Orders!Cardinality, OrdersP!Cardinality

\* The constants of the product API are as its module assumes.
LEMMA ApiAssumptions ==
  /\ ApiP!RequestsAssumption /\ ApiP!StockAssumption /\ ApiP!RetryAssumption
  /\ ApiP!BoundAssumption /\ ApiP!FaultAssumption /\ ApiP!AbsentAssumption
  <1>1. ApiP!RequestsAssumption
    BY ApiAssumption, SetWords DEF ApiP!RequestsAssumption
  <1>2. /\ ApiP!StockAssumption /\ ApiP!RetryAssumption
        /\ ApiP!BoundAssumption
    BY ApiAssumption
    DEF ApiP!StockAssumption, ApiP!RetryAssumption, ApiP!BoundAssumption
  <1>3. ApiP!FaultAssumption /\ ApiP!AbsentAssumption
    BY ApiAssumption
    DEF ApiP!FaultAssumption, ApiP!AbsentAssumption, Api!FaultKinds,
        ApiP!FaultKinds, Api!RedisCalls, ApiP!RedisCalls, Api!Tokens,
        ApiP!Tokens
  <1> QED BY <1>1, <1>2, <1>3

\* The constants of the consumers are as their module assumes.
LEMMA OrdersAssumptions ==
  /\ OrdersP!SetsAssumption /\ OrdersP!BatchAssumption
  /\ OrdersP!BoundAssumption
  <1>1. OrdersP!SetsAssumption
    BY OrdersAssumption, SetWords DEF OrdersP!SetsAssumption
  <1>2. OrdersP!BatchAssumption /\ OrdersP!BoundAssumption
    BY OrdersAssumption
    DEF OrdersP!BatchAssumption, OrdersP!BoundAssumption, Orders!FaultKinds,
        OrdersP!FaultKinds
  <1> QED BY <1>1, <1>2

\* A handler's steps are the same ones.
LEMMA SameHandler ==
  ASSUME NEW r \in Requests, Api!Handler(r)
  PROVE  ApiP!Handler(r)
  <1>1. CASE Api!AcquireLock(r) \/ Api!RetryLock(r) \/ Api!GiveUpLock(r)
    BY <1>1
    DEF Api!AcquireLock, Api!RetryLock, Api!GiveUpLock, Api!Handler, Api!Token,
        Api!LockFree, Api!LockAfterAcquire, Api!OutOfAttempts, Api!Go,
        Api!keys, Api!counters, ApiP!AcquireLock, ApiP!RetryLock,
        ApiP!GiveUpLock, ApiP!Handler, ApiP!Token, ApiP!LockFree,
        ApiP!LockAfterAcquire, ApiP!OutOfAttempts, ApiP!Go, ApiP!keys,
        ApiP!counters
  <1>2. CASE Api!Decrement(r) \/ Api!Rollback(r)
    BY <1>2
    DEF Api!Decrement, Api!Rollback, Api!Handler, Api!StockOf, Api!CanTake,
        Api!StockAfterDecrement, Api!DecrementReply, Api!StockAfterIncrement,
        Api!Go, Api!counters, ApiP!Decrement, ApiP!Rollback, ApiP!Handler,
        ApiP!StockOf, ApiP!CanTake, ApiP!StockAfterDecrement,
        ApiP!DecrementReply, ApiP!StockAfterIncrement, ApiP!Go, ApiP!counters
  <1>3. CASE Api!Release(r) \/ Api!Unwind(r)
    BY <1>3
    DEF Api!Release, Api!Unwind, Api!Handler, Api!Token, Api!OwnsLock,
        Api!LockAfterRelease, Api!AfterRelease, Api!Go, Api!counters,
        ApiP!Release, ApiP!Unwind, ApiP!Handler, ApiP!Token, ApiP!OwnsLock,
        ApiP!LockAfterRelease, ApiP!AfterRelease, ApiP!Go, ApiP!counters
  <1>4. CASE Api!Emit(r) \/ Api!EmitFails(r)
    BY <1>4
    DEF Api!Emit, Api!EmitFails, Api!Handler, Api!Go, Api!keys, Api!counters,
        ApiP!Emit, ApiP!EmitFails, ApiP!Handler, ApiP!Go, ApiP!keys,
        ApiP!counters
  <1> QED BY <1>1, <1>2, <1>3, <1>4 DEF Api!Handler

\* So are the failures.
LEMMA SameFailure ==
  ASSUME NEW r \in Requests, Api!Failure(r)
  PROVE  ApiP!Failure(r)
  <1>1. CASE Api!RedisCallFails(r) \/ Api!Crash(r)
    BY <1>1
    DEF Api!RedisCallFails, Api!Crash, Api!Failure, Api!RedisCalls, Api!Ended,
        Api!Answers, Api!Go, Api!keys, Api!counters, ApiP!RedisCallFails,
        ApiP!Crash, ApiP!Failure, ApiP!RedisCalls, ApiP!Ended, ApiP!Answers,
        ApiP!Go, ApiP!keys, ApiP!counters
  <1>2. CASE Api!ReplyLost(r)
    BY <1>2
    DEF Api!ReplyLost, Api!Failure, Api!Token, Api!LockFree,
        Api!LockAfterAcquire, Api!OwnsLock, Api!LockAfterRelease, Api!StockOf,
        Api!CanTake, Api!StockAfterDecrement, Api!StockAfterIncrement,
        ApiP!ReplyLost, ApiP!Failure, ApiP!Token, ApiP!LockFree,
        ApiP!LockAfterAcquire, ApiP!OwnsLock, ApiP!LockAfterRelease,
        ApiP!StockOf, ApiP!CanTake, ApiP!StockAfterDecrement,
        ApiP!StockAfterIncrement
  <1> QED BY <1>1, <1>2 DEF Api!Failure

\* What a member of the group and its broker do is the same there.
LEMMA SameDeliver ==
  ASSUME NEW c \in Consumers, NEW p \in Partitions, Orders!Deliver(c, p)
  PROVE  OrdersP!Deliver(c, p)
  BY DEF Orders!Deliver, Orders!StartsFlush, Orders!FillsBatch, Orders!Enter,
         OrdersP!Deliver, OrdersP!StartsFlush, OrdersP!FillsBatch,
         OrdersP!Enter

\* So are its flush, its retries, its crash and its restart.
LEMMA SameProcess ==
  ASSUME NEW c \in Consumers, Orders!Process(c)
  PROVE  OrdersP!Process(c)
  <1>0. \A e : OrdersP!Copies(c, e) = Orders!Copies(c, e)
    BY SetWords
    DEF OrdersP!Copies, OrdersP!Batch, Orders!Copies, Orders!Batch
  <1>1. CASE \/ Orders!Save(c) \/ Orders!SaveRejected(c)
             \/ Orders!SaveReplyLost(c)
    BY <1>0, <1>1
    DEF Orders!Save, Orders!SaveRejected, Orders!SaveReplyLost, Orders!Process,
        Orders!Flush, Orders!Failure, Orders!Insertable, Orders!RowsAfterSave,
        Orders!Batch, Orders!BatchEvents, Orders!Positions, Orders!Offsets,
        Orders!AfterError, Orders!Fault, Orders!Enter,
        Orders!broker, OrdersP!Save, OrdersP!SaveRejected,
        OrdersP!SaveReplyLost, OrdersP!Process, OrdersP!Flush, OrdersP!Failure,
        OrdersP!Insertable, OrdersP!RowsAfterSave, OrdersP!Batch,
        OrdersP!BatchEvents, OrdersP!Positions, OrdersP!Offsets,
        OrdersP!AfterError, OrdersP!Fault, OrdersP!Enter,
        OrdersP!broker
  <1>2. CASE Orders!Commit(c) \/ Orders!CommitReplyLost(c)
    BY <1>2
    DEF Orders!Commit, Orders!CommitReplyLost, Orders!Process, Orders!Flush,
        Orders!Failure, Orders!CommitOffsets, Orders!OffsetsIn, Orders!LastIn,
        Orders!Offsets, Orders!Batch, Orders!BatchEvents, Orders!Spliced,
        Orders!Fault, Orders!Enter, OrdersP!Commit, OrdersP!CommitReplyLost,
        OrdersP!Process, OrdersP!Flush, OrdersP!Failure, OrdersP!CommitOffsets,
        OrdersP!OffsetsIn, OrdersP!LastIn, OrdersP!Offsets, OrdersP!Batch,
        OrdersP!BatchEvents, OrdersP!Spliced, OrdersP!Fault, OrdersP!Enter
  <1>3. CASE \/ Orders!SaveFails(c) \/ Orders!CommitFails(c)
             \/ Orders!Retry(c) \/ Orders!GiveUp(c)
    BY <1>3
    DEF Orders!SaveFails, Orders!CommitFails, Orders!Retry, Orders!GiveUp,
        Orders!Process, Orders!Flush, Orders!Failure, Orders!AfterError,
        Orders!NextAttempt, Orders!OutOfAttempts, Orders!Spliced, Orders!Fault,
        Orders!Enter, Orders!broker, OrdersP!SaveFails, OrdersP!CommitFails,
        OrdersP!Retry, OrdersP!GiveUp, OrdersP!Process, OrdersP!Flush,
        OrdersP!Failure, OrdersP!AfterError, OrdersP!NextAttempt,
        OrdersP!OutOfAttempts, OrdersP!Spliced, OrdersP!Fault, OrdersP!Enter,
        OrdersP!broker
  <1>4. CASE Orders!Crash(c) \/ Orders!Restart(c)
    BY <1>4
    DEF Orders!Crash, Orders!Restart, Orders!Process, Orders!Flush,
        Orders!Failure, Orders!Fault, Orders!Enter, Orders!broker,
        Orders!Buffered, OrdersP!Buffered,
        OrdersP!Crash, OrdersP!Restart, OrdersP!Process, OrdersP!Flush,
        OrdersP!Failure, OrdersP!Fault, OrdersP!Enter, OrdersP!broker
  <1> QED
    BY <1>1, <1>2, <1>3, <1>4
    DEF Orders!Process, Orders!Flush, Orders!Failure

\* So is a rebalance of the group.
LEMMA SameRebalance ==
  ASSUME Orders!Rebalance
  PROVE  OrdersP!Rebalance
  BY DEF Orders!Rebalance, Orders!NewGeneration, Orders!Joinable,
         Orders!FetchPosition, Orders!NoOffset, Orders!process,
         OrdersP!Rebalance, OrdersP!NewGeneration, OrdersP!Joinable,
         OrdersP!FetchPosition, OrdersP!NoOffset, OrdersP!process

-----------------------------------------------------------------------------
(* The pipeline runs both components. *)

\* Every step of the pipeline is a step of the product API, or none of it.
LEMMA ApiPart == [PipelineNext]_pipelineVars => [Api!Next]_(Api!vars)
  BY DEF PipelineNext, ApiStep, Publish, ConsumerStep, GroupStep,
         PipelineFinished, pipelineVars, api, Api!Next, Api!Handler,
         Api!Failure, Api!vars

\* It is a step of the consumers and their topic, or none of theirs.
LEMMA OrdersPart == [PipelineNext]_pipelineVars => [Orders!Next]_(Orders!vars)
  BY DEF PipelineNext, ApiStep, Publish, ConsumerStep, GroupStep,
         PipelineFinished, pipelineVars, orders, Orders!Next, Orders!vars

\* An emit and the record it appends to the topic are one step, and everything
\* else the two programs do apart: the pipeline implements useItem as UseItem
\* has it, with all that is proved of UseItem.
THEOREM PipelineImplementsApi == PipelineSpec => Api!Spec
  <1>1. PipelineInit => Api!Init
    BY DEF PipelineInit
  <1> QED BY <1>1, ApiPart, PTL DEF PipelineSpec, Api!Spec

\* It implements the consumers as OrderConsumer has them.
THEOREM PipelineImplementsOrders == PipelineSpec => Orders!Spec
  <1>1. PipelineInit => Orders!Init
    BY DEF PipelineInit
  <1> QED BY <1>1, OrdersPart, PTL DEF PipelineSpec, Orders!Spec

\* The same under the other names.
LEMMA ApiPartStep == [PipelineNext]_pipelineVars => [ApiP!Next]_(ApiP!vars)
  <1> SUFFICES ASSUME [PipelineNext]_pipelineVars
               PROVE  [ApiP!Next]_(ApiP!vars)
    OBVIOUS
  <1>1. CASE \E r \in Requests : Api!Handler(r) \/ Api!Failure(r)
    BY <1>1, SameHandler, SameFailure DEF ApiP!Next
  <1>2. CASE UNCHANGED api
    BY <1>2 DEF api, ApiP!vars
  <1> QED
    BY <1>1, <1>2
    DEF PipelineNext, ApiStep, Publish, ConsumerStep, GroupStep,
        PipelineFinished, pipelineVars, Api!Handler, Api!Failure

\* So a behaviour of the pipeline is one of the API.
LEMMA ApiRuns == PipelineSpec => ApiP!Spec
  <1>1. PipelineInit => ApiP!Init
    BY DEF PipelineInit, Api!Init, ApiP!Init
  <1> QED BY <1>1, ApiPartStep, PTL DEF PipelineSpec, ApiP!Spec

\* It is one of the consumers as well.
LEMMA OrdersRun == PipelineSpec => OrdersP!Spec
  <1>1. PipelineInit => OrdersP!Init
    BY DEF PipelineInit, Orders!Init, OrdersP!Init, Orders!Positions,
           OrdersP!Positions, Orders!Offsets, OrdersP!Offsets,
           Orders!NoOffset, OrdersP!NoOffset
  <1>2. [PipelineNext]_pipelineVars => [OrdersP!Next]_(OrdersP!vars)
    <2> SUFFICES ASSUME [PipelineNext]_pipelineVars
                 PROVE  [OrdersP!Next]_(OrdersP!vars)
      OBVIOUS
    <2>1. CASE \E p \in Partitions : Orders!Produce(p)
      BY <2>1 DEF OrdersP!Next, Orders!Produce, OrdersP!Produce,
                  Orders!process, OrdersP!process
    <2>2. CASE \E c \in Consumers, p \in Partitions : Orders!Deliver(c, p)
      BY <2>2, SameDeliver DEF OrdersP!Next
    <2>3. CASE \E c \in Consumers : Orders!Process(c)
      BY <2>3, SameProcess DEF OrdersP!Next
    <2>4. CASE Orders!Rebalance
      BY <2>4, SameRebalance DEF OrdersP!Next
    <2>5. CASE UNCHANGED orders
      BY <2>5 DEF orders, OrdersP!vars
    <2> QED
      BY <2>1, <2>2, <2>3, <2>4, <2>5
      DEF PipelineNext, ApiStep, Publish, ConsumerStep, GroupStep,
          PipelineFinished, pipelineVars
  <1> QED BY <1>1, <1>2, PTL DEF PipelineSpec, OrdersP!Spec

\* So the invariants of both hold.
LEMMA ComponentInvariance ==
  PipelineSpec => []( /\ ApiP!IndInv /\ ApiP!EventsInv
                      /\ OrdersP!Inv /\ OrdersP!PublishedOnly )
  <1>1. ApiP!Spec => []ApiP!IndInv
    BY ApiAssumptions, ApiP!Invariance, PTL
  <1>2. ApiP!Spec => []ApiP!EventsInv
    BY ApiAssumptions, ApiP!EventsInvariance, PTL
  <1>3. OrdersP!Spec => []OrdersP!Inv
    BY OrdersAssumptions, OrdersP!Invariance, PTL
  <1>4. OrdersP!Spec => []OrdersP!PublishedOnly
    BY OrdersAssumptions, OrdersP!PublishedOnlyHolds, PTL
  <1> QED BY <1>1, <1>2, <1>3, <1>4, ApiRuns, OrdersRun, PTL

-----------------------------------------------------------------------------
(* The consumers' promises, with events that come from the API. *)

\* One consumer, with fewer failures than a flush has attempts and no crash
\* between the save of a batch and its commit, loses no event that the API
\* published.
THEOREM NothingLostHolds ==
  ASSUME NEW k \in Consumers, Consumers = {k}, MaxFaults < MaxRetries,
         "rebalance" \notin ConsumerFaults, OrdersP!UnsplitFlushes
  PROVE  PipelineSpec => []NothingLost
  <1>1. OrdersP!LoneConsumer(k)
    BY DEF OrdersP!LoneConsumer
  <1>2. OrdersP!Spec => []OrdersP!NothingLost
    BY <1>1, OrdersAssumptions, OrdersP!NothingLostUnsplit, PTL
  <1>3. OrdersP!NothingLost => NothingLost
    BY DEF NothingLost, Orders!NothingLost, OrdersP!NothingLost,
           Orders!Buffered, OrdersP!Buffered
  <1> QED BY <1>2, <1>3, OrdersRun, PTL

\* Nor does it ever take a commit back.
THEOREM CommittedNeverBackHolds ==
  ASSUME NEW k \in Consumers, Consumers = {k}, MaxFaults < MaxRetries,
         "rebalance" \notin ConsumerFaults, OrdersP!UnsplitFlushes
  PROVE  PipelineSpec => CommittedNeverBack
  <1>1. OrdersP!LoneConsumer(k)
    BY DEF OrdersP!LoneConsumer
  <1>2. OrdersP!Spec => OrdersP!CommittedNeverBack
    BY <1>1, OrdersAssumptions, OrdersP!CommittedNeverBackUnsplit, PTL
  <1>3. (OrdersP!Inv
           /\ [\A p \in Partitions :
                   committed'[p] >= committed[p]]_(OrdersP!vars))
        => [\A p \in Partitions : committed'[p] >= committed[p]]_pipelineVars
    <2> SUFFICES ASSUME OrdersP!Inv, UNCHANGED OrdersP!vars
                 PROVE  \A p \in Partitions : committed'[p] >= committed[p]
      OBVIOUS
    <2>1. committed' = committed
      BY DEF OrdersP!vars
    <2>2. committed \in [Partitions -> (0..MaxEvents) \union {-1}]
      BY DEF OrdersP!Inv, OrdersP!TypeOK, OrdersP!NoOffset
    <2>3. \A p \in Partitions : committed[p] \in Int
      BY <2>2
    <2> QED BY <2>1, <2>3
  <1> QED
    BY <1>2, <1>3, OrdersRun, ComponentInvariance, PTL
    DEF CommittedNeverBack, OrdersP!CommittedNeverBack

-----------------------------------------------------------------------------
(* The topic: an entry of origin for every event, and a request that sent it.*)

OriginsKnown ==
    /\ origin \in [Partitions -> Seq(Requests)]
    /\ \A p \in Partitions : Len(origin[p]) = log[p]
    /\ \A p \in Partitions : \A i \in DOMAIN origin[p] :
          published[origin[p][i]] > 0

\* Only an emit adds to the topic, for a request that is at its emit.
LEMMA TopicStep ==
  ASSUME [PipelineNext]_pipelineVars
  PROVE  \/ \E r \in Requests, p \in Partitions : Publish(r, p)
         \/ UNCHANGED <<log, origin, published>>
  <1>1. ASSUME NEW c \in Consumers, ConsumerStep(c)
        PROVE  UNCHANGED <<log, origin, published>>
    BY <1>1
    DEF ConsumerStep, api, Orders!Deliver, Orders!Process, Orders!Flush,
        Orders!Failure, Orders!Save, Orders!SaveRejected, Orders!Commit,
        Orders!CommitFails, Orders!Retry, Orders!GiveUp, Orders!SaveFails,
        Orders!SaveReplyLost, Orders!CommitReplyLost, Orders!Crash,
        Orders!Restart, Orders!broker
  <1>2. CASE GroupStep
    BY <1>2 DEF GroupStep, api, Orders!Rebalance, Orders!NewGeneration
  <1>3. ASSUME NEW r \in Requests, ApiStep(r)
        PROVE  UNCHANGED <<log, origin, published>>
    BY <1>3 DEF ApiStep, orders
  <1>4. CASE UNCHANGED pipelineVars
    BY <1>4 DEF pipelineVars, api, orders
  <1> QED BY <1>1, <1>2, <1>3, <1>4 DEF PipelineNext, PipelineFinished

\* What an emit does to the topic and to what is known of its request.
LEMMA PublishStep ==
  ASSUME ApiP!TypeOK, NEW r \in Requests, NEW p \in Partitions, Publish(r, p)
  PROVE  /\ log[p] < MaxEvents
         /\ log' = [log EXCEPT ![p] = @ + 1]
         /\ origin' = [origin EXCEPT ![p] = Append(@, r)]
         /\ published' = [published EXCEPT ![r] = @ + 1]
         /\ pc[r] = "emit"
         /\ \/ pc' = [pc EXCEPT ![r] = "used"] /\ repeats' = repeats
            \/ pc' = pc /\ repeats' = repeats + 1
  <1>1. pc[r] = "emit"
    BY DEF Publish
  <1>2. CASE Api!Emit(r)
    BY <1>1, <1>2
    DEF Publish, Orders!Produce, Api!Emit, Api!Go, Api!counters
  <1>3. CASE Api!ReplyLost(r)
    BY <1>1, <1>3 DEF Publish, Orders!Produce, Api!ReplyLost
  <1> QED BY <1>2, <1>3 DEF Publish

\* Every step keeps an entry for every event, of a request that sent it.
LEMMA OriginsKnownStep ==
  ASSUME ApiP!TypeOK, OrdersP!TypeOK, OriginsKnown,
         [PipelineNext]_pipelineVars
  PROVE  OriginsKnown'
  <1>1. ASSUME NEW r \in Requests, NEW p \in Partitions, Publish(r, p)
        PROVE  OriginsKnown'
    <2>1. /\ log' = [log EXCEPT ![p] = log[p] + 1]
          /\ origin' = [origin EXCEPT ![p] = Append(origin[p], r)]
          /\ published' = [published EXCEPT ![r] = published[r] + 1]
      BY <1>1, PublishStep
    <2>2. /\ log \in [Partitions -> 0..MaxEvents]
          /\ published \in [Requests -> Nat]
          /\ origin \in [Partitions -> Seq(Requests)]
      BY DEF ApiP!TypeOK, OrdersP!TypeOK, OriginsKnown
    <2>3. \A q \in Requests : published[q] > 0 => published'[q] > 0
      BY <2>1, <2>2
    <2>4. published'[r] > 0
      BY <2>1, <2>2
    <2>5. origin' \in [Partitions -> Seq(Requests)]
      BY <2>1, <2>2
    <2>6. \A q \in Partitions : Len(origin'[q]) = log'[q]
      BY <2>1, <2>2 DEF OriginsKnown
    <2>7. ASSUME NEW q \in Partitions, NEW i \in DOMAIN origin'[q]
          PROVE  published'[origin'[q][i]] > 0
      <3>1. origin[q] \in Seq(Requests)
        BY <2>2
      <3>2. \/ i \in DOMAIN origin[q] /\ origin'[q][i] = origin[q][i]
            \/ origin'[q][i] = r
        BY <2>1, <2>2, <2>7, <3>1
      <3>3. \A j \in DOMAIN origin[q] : origin[q][j] \in Requests
        BY <3>1
      <3> QED BY <2>3, <2>4, <3>2, <3>3 DEF OriginsKnown
    <2> QED BY <2>5, <2>6, <2>7 DEF OriginsKnown
  <1>2. CASE UNCHANGED <<log, origin, published>>
    BY <1>2 DEF OriginsKnown
  <1> QED BY <1>1, <1>2, TopicStep

\* The events of the topic were all sent by requests, in every behaviour.
LEMMA OriginsInvariance == PipelineSpec => []OriginsKnown
  <1>1. PipelineInit => OriginsKnown
    BY DEF PipelineInit, Orders!Init, OriginsKnown
  <1>2. (ApiP!IndInv /\ OrdersP!Inv /\ OriginsKnown
           /\ [PipelineNext]_pipelineVars) => OriginsKnown'
    BY OriginsKnownStep DEF ApiP!IndInv, OrdersP!Inv
  <1> QED BY <1>1, <1>2, ComponentInvariance, PTL DEF PipelineSpec

\* An order's event is in the topic, and its request published it.
LEMMA OrderOrigin ==
  ASSUME OriginsKnown, OrdersP!Inv, OrdersP!PublishedOnly,
         NEW e \in Positions, rows[e] > 0
  PROVE  /\ e[1] \in Partitions /\ e[2] \in Nat /\ e[2] < log[e[1]]
         /\ OriginOf(e) \in Requests
         /\ published[OriginOf(e)] > 0
  <1>1. /\ e[1] \in Partitions /\ e[2] \in Nat
        /\ e \in OrdersP!Positions
    BY OrdersAssumption DEF Positions, Orders!Positions, OrdersP!Positions,
                            Orders!Offsets, OrdersP!Offsets
  <1>2. e[2] < log[e[1]]
    BY <1>1 DEF OrdersP!PublishedOnly
  <1>3. /\ origin[e[1]] \in Seq(Requests)
        /\ Len(origin[e[1]]) = log[e[1]]
    BY <1>1 DEF OriginsKnown
  <1>4. e[2] + 1 \in DOMAIN origin[e[1]]
    BY <1>1, <1>2, <1>3
  <1> QED BY <1>1, <1>2, <1>3, <1>4 DEF OriginOf, OriginsKnown

-----------------------------------------------------------------------------
(* Orders and units. *)

\* A request without a unit has an order only when the broker's answer to its
\* emit was lost, so that it gave the unit back: at most one for every answer
\* that was lost, whatever else fails, expires, crashes or is reset.
THEOREM OrdersBackedHolds == PipelineSpec => []OrdersBacked
  <1>1. ASSUME ApiP!IndInv, ApiP!EventsInv, OrdersP!Inv,
               OrdersP!PublishedOnly, OriginsKnown
        PROVE  OrdersBacked
    <2>1. Ordered \ Holders \subseteq ApiP!Unconfirmed
      <3> SUFFICES ASSUME NEW r \in Requests, r \in Ordered, r \notin Holders
                   PROVE  published[r] > 0 /\ pc[r] # "used"
        BY DEF Ordered, ApiP!Unconfirmed
      <3>1. PICK e \in Positions : rows[e] > 0 /\ OriginOf(e) = r
        BY DEF Ordered, RowsOf
      <3>2. published[r] > 0
        BY <1>1, <3>1, OrderOrigin
      <3>3. remaining[r] >= 0
        BY <1>1, <3>2 DEF ApiP!EventsInv, ApiP!EventsKnown
      <3> QED BY <3>2, <3>3 DEF Holders, Api!Holders
    <2>2. IsFiniteSet(ApiP!Unconfirmed)
      BY ApiAssumption, FS_Subset DEF ApiP!Unconfirmed
    <2>3. /\ Cardinality(Ordered \ Holders) <= Cardinality(ApiP!Unconfirmed)
          /\ Cardinality(Ordered \ Holders) \in Nat
          /\ Cardinality(ApiP!Unconfirmed) \in Nat
      BY <2>1, <2>2, FS_Subset, FS_CardinalityType
    <2>4. Cardinality(ApiP!Unconfirmed) <= repeats
      BY <1>1, SetWords DEF ApiP!EventsInv, ApiP!UnconfirmedCounted
    <2>5. repeats \in Nat
      BY <1>1, ApiAssumption DEF ApiP!IndInv, ApiP!TypeOK
    <2> QED BY <2>3, <2>4, <2>5 DEF OrdersBacked
  <1> QED BY <1>1, ComponentInvariance, OriginsInvariance, PTL

\* The events of the topic, by position.
Events == {e \in Positions : e[2] < log[e[1]]}

\* Every event is that of a request that was told "used", or one whose answer
\* was lost.
EventsCounted ==
    /\ IsFiniteSet(Events)
    /\ Cardinality(Events) <= Cardinality(Used) + repeats

\* Who was told "used" stays so.
LEMMA UsedGrows ==
  ASSUME ApiP!TypeOK, [PipelineNext]_pipelineVars
  PROVE  \A r \in Used : r \in Used' /\ remaining'[r] = remaining[r]
  BY ApiPartStep, ApiAssumptions, ApiP!UsedStays DEF Used

\* An event is added by an acknowledged emit or by one more lost answer.
LEMMA EventsCountedStep ==
  ASSUME ApiP!TypeOK, ApiP!TypeOK', OrdersP!TypeOK, EventsCounted,
         [PipelineNext]_pipelineVars
  PROVE  EventsCounted'
  <1>1. /\ IsFiniteSet(Used) /\ IsFiniteSet(Used')
        /\ Cardinality(Used) \in Nat /\ Cardinality(Used') \in Nat
        /\ Cardinality(Used) <= Cardinality(Used')
    <2>1. Used \subseteq Used' /\ Used' \subseteq Requests
      BY UsedGrows DEF Used
    <2> QED BY <2>1, ApiAssumption, FS_Subset, FS_CardinalityType
  <1>2. /\ repeats \in Nat /\ repeats' \in Nat
        /\ Cardinality(Events) \in Nat
    BY ApiAssumption, FS_CardinalityType DEF ApiP!TypeOK, EventsCounted
  <1>3. ASSUME NEW r \in Requests, NEW p \in Partitions, Publish(r, p)
        PROVE  EventsCounted'
    <2> DEFINE e == <<p, log[p]>>
    <2>1. /\ log \in [Partitions -> 0..MaxEvents] /\ log[p] < MaxEvents
          /\ log' = [log EXCEPT ![p] = log[p] + 1]
      BY <1>3, PublishStep DEF OrdersP!TypeOK
    <2>2. e \in Positions /\ e \notin Events
      BY <2>1, OrdersAssumption
      DEF Positions, Orders!Positions, Orders!Offsets, Events
    <2>3. Events' = Events \union {e}
      <3>1. \A x \in Positions :
               x[2] < log'[x[1]] <=> x[2] < log[x[1]] \/ x = e
        <4> SUFFICES ASSUME NEW q \in Partitions, NEW o \in Nat
                     PROVE  o < log'[q] <=> o < log[q] \/ <<q, o>> = e
          BY OrdersAssumption
          DEF Positions, Orders!Positions, Orders!Offsets
        <4> QED BY <2>1
      <3>2. Events' = {x \in Positions : x[2] < log'[x[1]]}
        BY DEF Events, Positions, Orders!Positions, Orders!Offsets
      <3> QED BY <2>2, <3>1, <3>2 DEF Events
    <2>4. /\ IsFiniteSet(Events')
          /\ Cardinality(Events') = Cardinality(Events) + 1
      BY <2>2, <2>3, FS_AddElement DEF EventsCounted
    <2>5. CASE pc' = [pc EXCEPT ![r] = "used"] /\ repeats' = repeats
      <3>1. Used' = Used \union {r} /\ r \notin Used
        BY <1>3, <2>5, PublishStep DEF Used, ApiP!TypeOK
      <3>2. Cardinality(Used') = Cardinality(Used) + 1
        BY <1>1, <3>1, FS_AddElement
      <3> QED BY <1>1, <1>2, <2>4, <2>5, <3>2 DEF EventsCounted
    <2>6. CASE pc' = pc /\ repeats' = repeats + 1
      BY <1>1, <1>2, <2>4, <2>6 DEF EventsCounted
    <2> QED BY <1>3, <2>5, <2>6, PublishStep
  <1>4. CASE UNCHANGED <<log, origin, published>>
    <2>1. Events' = Events
      BY <1>4 DEF Events, Positions, Orders!Positions, Orders!Offsets
    <2>2. repeats' >= repeats
      <3>1. ASSUME NEW r \in Requests, Api!Handler(r) \/ Api!Failure(r)
            PROVE  repeats' >= repeats
        BY <1>2, <3>1
        DEF Api!Handler, Api!Failure, Api!AcquireLock, Api!RetryLock,
            Api!GiveUpLock, Api!Decrement, Api!Release, Api!Unwind, Api!Emit,
            Api!EmitFails, Api!Rollback, Api!RedisCallFails, Api!ReplyLost,
            Api!Crash, Api!counters
      <3>2. CASE UNCHANGED api
        BY <1>2, <3>2 DEF api
      <3> QED
        BY <3>1, <3>2
        DEF PipelineNext, ApiStep, Publish, ConsumerStep, GroupStep,
            PipelineFinished, pipelineVars, Api!Handler, Api!Failure
    <2> QED BY <1>1, <1>2, <2>1, <2>2 DEF EventsCounted
  <1> QED BY <1>3, <1>4, TopicStep

\* So the events are counted in every behaviour.
LEMMA EventsCountedInvariance == PipelineSpec => []EventsCounted
  <1>1. PipelineInit => EventsCounted
    <2> SUFFICES ASSUME PipelineInit PROVE EventsCounted
      OBVIOUS
    <2>1. Events = {} /\ Used = {} /\ repeats = 0
      BY OrdersAssumption
      DEF PipelineInit, Orders!Init, Api!Init, Events, Used, Positions,
          Orders!Positions, Orders!Offsets
    <2> QED BY <2>1, FS_EmptySet DEF EventsCounted
  <1>2. (ApiP!IndInv /\ ApiP!IndInv' /\ OrdersP!Inv /\ EventsCounted
           /\ [PipelineNext]_pipelineVars) => EventsCounted'
    BY EventsCountedStep DEF ApiP!IndInv, OrdersP!Inv
  <1> QED BY <1>1, <1>2, ComponentInvariance, PTL DEF PipelineSpec

\* There are never more orders than units that left the stock, but for the
\* events whose acknowledgement was lost, as long as nothing is reset and no
\* increment is executed twice; however many consumers there are, and whatever
\* they replay.
THEOREM OrdersWithinStockHolds ==
  ASSUME MaxResets = 0, "rollback" \notin LossyCalls
  PROVE  PipelineSpec => []OrdersWithinStock
  <1>1. ASSUME ApiP!IndInv, ApiP!UnitsBounded, OrdersP!Inv,
               OrdersP!PublishedOnly, OriginsKnown, EventsCounted
        PROVE  OrdersWithinStock
    <2> DEFINE Saved == UNION {RowsOf(r) : r \in Requests}
    <2>1. Saved \subseteq Events
      <3> SUFFICES ASSUME NEW e \in Positions, rows[e] > 0
                   PROVE  e[2] < log[e[1]]
        BY DEF RowsOf, Events
      <3> QED BY <1>1, OrderOrigin
    <2>2. /\ Cardinality(Saved) <= Cardinality(Events)
          /\ Cardinality(Saved) \in Nat /\ Cardinality(Events) \in Nat
      BY <1>1, <2>1, FS_Subset, FS_CardinalityType DEF EventsCounted
    <2>3. /\ Used \subseteq ApiP!Holders /\ IsFiniteSet(ApiP!Holders)
          /\ IsFiniteSet(Used)
      BY <1>1, ApiAssumption, FS_Subset
      DEF ApiP!IndInv, ApiP!CountKnown, Used, ApiP!Holders
    <2>4. /\ Cardinality(Used) <= Cardinality(ApiP!Holders)
          /\ Cardinality(Used) \in Nat /\ Cardinality(ApiP!Holders) \in Nat
      BY <2>3, FS_Subset, FS_CardinalityType
    <2>5. ApiP!StockOf(inventory) + Cardinality(ApiP!Holders) <= InitialStock
      <3>1. resets = 0
        BY <1>1 DEF ApiP!IndInv, ApiP!TypeOK
      <3>2. ApiP!Supply = InitialStock
        BY <3>1, ApiAssumption DEF ApiP!Supply
      <3> QED BY <1>1, <3>2, SetWords DEF ApiP!UnitsBounded
    <2>6. /\ ApiP!StockOf(inventory) \in Nat /\ InitialStock \in Nat
          /\ repeats \in Nat
      BY <1>1, ApiAssumption, ApiAssumptions, ApiP!StockType
      DEF ApiP!IndInv, ApiP!TypeOK
    <2>7. Api!StockOf(inventory) = ApiP!StockOf(inventory)
      BY DEF Api!StockOf, ApiP!StockOf
    <2>8. Cardinality(Events) <= Cardinality(Used) + repeats
      BY <1>1 DEF EventsCounted
    <2> HIDE DEF Saved
    <2>9. Cardinality(Saved) <= InitialStock - Api!StockOf(inventory) + repeats
      BY <2>2, <2>4, <2>5, <2>6, <2>7, <2>8
    <2> QED BY <2>9 DEF OrdersWithinStock, Saved
  <1>2. ApiP!Spec => []ApiP!UnitsBounded
    BY ApiAssumptions, ApiP!UnitsBoundedHolds, PTL
  <1> QED
    BY <1>1, <1>2, ApiRuns, ComponentInvariance, OriginsInvariance,
       EventsCountedInvariance, PTL

-----------------------------------------------------------------------------
(* The order of the answers. *)

\* Whom a request remembers was told "used", and will stay so.
BeforeUsed == \A s \in Requests : before[s] \subseteq Used

OrderInv == BeforeUsed /\ AnswersOrdered

\* A request remembers what it remembered, unless it has not begun yet: then
\* it remembers everyone who was told "used" so far.
LEMMA BeforeStep ==
  ASSUME [PipelineNext]_pipelineVars, NEW s \in Requests
  PROVE  \/ before'[s] = before[s]
         \/ /\ NotBegun(s)'
            /\ before'[s] = Used'
  <1>1. CASE Remember
    BY <1>1 DEF Remember, NotBegun, Used
  <1>2. CASE before' = before
    BY <1>2
  <1> QED
    BY <1>1, <1>2
    DEF PipelineNext, ApiStep, Publish, ConsumerStep, GroupStep,
        PipelineFinished, pipelineVars

\* Who is remembered stays "used".
LEMMA BeforeUsedStep ==
  ASSUME ApiP!TypeOK, BeforeUsed, [PipelineNext]_pipelineVars
  PROVE  BeforeUsed'
  BY BeforeStep, UsedGrows DEF BeforeUsed

\* Events of s come after those of r while r has nothing to send any more.
LEMMA TopicOrderStep ==
  ASSUME ApiP!TypeOK, OriginsKnown, [PipelineNext]_pipelineVars,
         NEW r \in Requests, NEW s \in Requests, pc[r] = "used",
         \A p \in Partitions : \A i, j \in DOMAIN origin[p] :
            origin[p][i] = r /\ origin[p][j] = s => i < j
  PROVE  \A p \in Partitions : \A i, j \in DOMAIN origin'[p] :
            origin'[p][i] = r /\ origin'[p][j] = s => i < j
  <1>1. ASSUME NEW q \in Requests, NEW t \in Partitions, Publish(q, t),
               NEW p \in Partitions,
               NEW i \in DOMAIN origin'[p], NEW j \in DOMAIN origin'[p],
               origin'[p][i] = r, origin'[p][j] = s
        PROVE  i < j
    <2>1. /\ origin' = [origin EXCEPT ![t] = Append(origin[t], q)]
          /\ q # r
      BY <1>1, PublishStep
    <2>2. /\ origin \in [Partitions -> Seq(Requests)]
          /\ origin[p] \in Seq(Requests)
      BY DEF OriginsKnown
    <2>3. CASE origin'[p] = origin[p]
      BY <1>1, <2>3
    <2>4. CASE origin'[p] = Append(origin[p], q)
      <3>1. /\ i \in 1..(Len(origin[p]) + 1)
            /\ j \in 1..(Len(origin[p]) + 1)
            /\ DOMAIN origin[p] = 1..Len(origin[p])
            /\ Len(origin[p]) \in Nat
        BY <1>1, <2>2, <2>4
      <3>2. i \in DOMAIN origin[p] /\ origin[p][i] = r
        BY <1>1, <2>1, <2>2, <2>4, <3>1
      <3>3. CASE j = Len(origin[p]) + 1
        BY <3>1, <3>2, <3>3
      <3>4. CASE j \in DOMAIN origin[p]
        <4>1. origin[p][j] = s
          BY <1>1, <2>2, <2>4, <3>4
        <4> QED BY <3>2, <3>4, <4>1
      <3> QED BY <3>1, <3>3, <3>4
    <2> QED BY <2>1, <2>2, <2>3, <2>4
  <1>2. CASE UNCHANGED <<log, origin, published>>
    BY <1>2
  <1> QED BY <1>1, <1>2, TopicStep

\* The count of s is below that of r, who was told "used" before s began, as
\* long as nothing is put back.
LEMMA CountOrderStep ==
  ASSUME MaxResets = 0, "rollback" \notin LossyCalls,
         ApiP!IndInv, ApiP!CountInv, [PipelineNext]_pipelineVars,
         NEW r \in Requests, NEW s \in Requests, pc[r] = "used",
         remaining[s] >= 0 /\ RolledBack = {} => remaining[s] < remaining[r]
  PROVE  remaining'[s] >= 0 /\ RolledBack' = {}
            => remaining'[s] < remaining'[r]
  <1> SUFFICES ASSUME remaining'[s] >= 0, RolledBack' = {}
               PROVE  remaining'[s] < remaining'[r]
    OBVIOUS
  <1>1. [ApiP!Next]_(ApiP!vars)
    BY ApiPartStep
  <1>2. resets' = 0
    <2>1. resets = 0
      BY DEF ApiP!IndInv, ApiP!TypeOK
    <2> QED BY <1>1, <2>1, ApiAssumptions, ApiP!SupplyStep
            DEF ApiP!ResetInventory
  <1>3. ApiP!OnlyDown'
    BY <1>2 DEF RolledBack, ApiP!OnlyDown
  <1>4. ApiP!OnlyDown
    BY <1>3, <1>1, ApiAssumptions, ApiP!StockFalls
  <1>5. RolledBack = {}
    BY <1>4 DEF RolledBack, ApiP!OnlyDown
  <1>6. remaining'[r] = remaining[r]
    BY UsedGrows DEF Used, ApiP!IndInv
  <1>7. remaining[r] >= 0
    BY DEF ApiP!IndInv, ApiP!CountKnown
  <1>8. CASE remaining'[s] = remaining[s]
    BY <1>5, <1>6, <1>8
  <1>9. CASE remaining'[s] # remaining[s]
    BY <1>3, <1>1, <1>6, <1>7, <1>9, ApiAssumptions, ApiP!NewCountIsLess
  <1> QED BY <1>8, <1>9

\* The order is kept: a request that has not begun has neither a count nor
\* an event yet, and one that has begun remembers what it did.
LEMMA AnswersOrderedStep ==
  ASSUME MaxResets = 0, "rollback" \notin LossyCalls,
         ApiP!IndInv, ApiP!CountInv, OriginsKnown, OrderInv,
         ApiP!IndInv', ApiP!EventsInv', OriginsKnown',
         [PipelineNext]_pipelineVars
  PROVE  AnswersOrdered'
  <1>1. SUFFICES ASSUME NEW s \in Requests, NEW r \in before'[s]
                 PROVE  /\ remaining'[s] >= 0 /\ RolledBack' = {}
                             => remaining'[s] < remaining'[r]
                        /\ \A p \in Partitions : \A i, j \in DOMAIN origin'[p] :
                              origin'[p][i] = r /\ origin'[p][j] = s => i < j
    BY DEF AnswersOrdered, RolledBack
  <1>2. CASE NotBegun(s)'
    <2>1. pc'[s] = "acquire"
      BY <1>2 DEF NotBegun
    <2>2. remaining'[s] = -1
      BY <2>1 DEF ApiP!IndInv, ApiP!CountKnown
    <2>3. ~(published'[s] > 0)
      BY <2>1 DEF ApiP!EventsInv, ApiP!EventsKnown
    <2>4. \A p \in Partitions : \A j \in DOMAIN origin'[p] : origin'[p][j] # s
      BY <2>3 DEF OriginsKnown
    <2> QED BY <2>2, <2>4
  <1>3. CASE before'[s] = before[s]
    <2>1. r \in Requests /\ pc[r] = "used"
      BY <1>1, <1>3 DEF OrderInv, BeforeUsed, Used
    <2>2. /\ remaining[s] >= 0 /\ RolledBack = {}
               => remaining[s] < remaining[r]
          /\ \A p \in Partitions : \A i, j \in DOMAIN origin[p] :
                origin[p][i] = r /\ origin[p][j] = s => i < j
      BY <1>1, <1>3 DEF OrderInv, AnswersOrdered
    <2>3. ApiP!TypeOK
      BY DEF ApiP!IndInv
    <2> QED BY <2>1, <2>2, <2>3, CountOrderStep, TopicOrderStep
  <1> QED BY <1>2, <1>3, BeforeStep

\* Who began after another was answered has its events later in every
\* partition, and a smaller count while nothing is rolled back; the counts
\* need that nothing is reset and that no increment is executed twice.
THEOREM AnswersOrderedHolds ==
  ASSUME MaxResets = 0, "rollback" \notin LossyCalls
  PROVE  PipelineSpec => []AnswersOrdered
  <1>1. PipelineInit => OrderInv
    BY DEF PipelineInit, OrderInv, BeforeUsed, AnswersOrdered
  <1>2. ( /\ ApiP!IndInv /\ ApiP!CountInv /\ OriginsKnown /\ OrderInv
          /\ ApiP!IndInv' /\ ApiP!EventsInv' /\ OriginsKnown'
          /\ [PipelineNext]_pipelineVars ) => OrderInv'
    BY AnswersOrderedStep, BeforeUsedStep DEF OrderInv, ApiP!IndInv
  <1>3. ApiP!Spec => []ApiP!CountInv
    BY ApiAssumptions, ApiP!CountInvariance, PTL
  <1>4. PipelineSpec => []OrderInv
    BY <1>1, <1>2, <1>3, ApiRuns, ComponentInvariance, OriginsInvariance, PTL
    DEF PipelineSpec
  <1>5. OrderInv => AnswersOrdered
    BY DEF OrderInv
  <1> QED BY <1>4, <1>5, PTL
=============================================================================
