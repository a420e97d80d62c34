------------------------- MODULE OrderConsumerProofs -------------------------
(***************************************************************************)
(* Theorems about OrderConsumer, for any processes, partitions, batch      *)
(* size, number of attempts and failures, and with rebalances at any time. *)
(***************************************************************************)
EXTENDS OrderConsumer, FiniteSetTheorems, FunctionTheorems,
        WellFoundedInduction, SequenceTheorems, TLAPS

\* A nonempty set of numbers up to n has a largest one.
LEMMA Largest ==
  ASSUME NEW n \in Nat, NEW S, S \subseteq 0..n, S # {}
  PROVE  \E m \in S : \A x \in S : x <= m
  <1> DEFINE T == {n - x : x \in S}
  <1>1. T \subseteq Nat
    <2>1. \A x \in S : n - x \in Nat
      OBVIOUS
    <2> QED BY <2>1
  <1>2. \A x \in S : n - x \in T
    OBVIOUS
  <1>0. T # {}
    BY <1>2
  <1>3. \A t \in T : \E m \in S : t = n - m
    OBVIOUS
  <1> HIDE DEF T
  <1> DEFINE R == OpToRel(<, Nat)
  <1>4. IsWellFoundedOn(R, Nat)
    BY NatLessThanWellFounded
  <1> HIDE DEF R
  <1>5. PICK t \in T : \A y \in T : ~(<<y, t>> \in R)
    BY <1>0, <1>1, <1>4, WFMin
  <1>6. \A y \in T : ~(y < t)
    BY <1>1, <1>5 DEF R, OpToRel
  <1>7. PICK m \in S : t = n - m
    BY <1>3
  <1>8. \A x \in S : x <= m
    BY <1>2, <1>6, <1>7
  <1> QED BY <1>8

-----------------------------------------------------------------------------
(* The invariant. *)

\* A flush has a full batch, and a process without one has room for an event.
BatchFull ==
    \A c \in Consumers :
        IF stage[c] = "idle" THEN Len(buffer[c]) < BatchSize
                             ELSE Len(buffer[c]) = BatchSize

\* Entities have ids only when their rows are in the table, and nothing is
\* committed before.
IdsAreRows ==
    \A c \in Consumers : stage[c] # "idle" =>
        /\ stage[c] = "committing" => inserted[c]
        /\ inserted[c] => \A e \in Buffered(c) : rows[e] > 0

Inv == TypeOK /\ BatchFull /\ IdsAreRows

-----------------------------------------------------------------------------
(* Batches. *)

\* A full buffer is the batch, and nothing is left when it is taken off.
LEMMA FullBatch ==
  ASSUME TypeOK, NEW c \in Consumers, Len(buffer[c]) = BatchSize
  PROVE  /\ Batch(c) = buffer[c]
         /\ BatchEvents(c) = Buffered(c)
         /\ Buffered(c) \subseteq Positions
         /\ Spliced(c) = <<>>
  <1>1. buffer[c] \in Seq(Positions) /\ BatchSize \in Nat
    BY BatchAssumption DEF TypeOK
  <1>2. Batch(c) = buffer[c]
    BY <1>1, SubSeqFull DEF Batch
  <1>3. Spliced(c) = <<>>
    BY <1>1, SubSeqEmpty DEF Spliced
  <1>4. BatchEvents(c) = Buffered(c)
    BY <1>2 DEF BatchEvents, Buffered
  <1>5. Buffered(c) \subseteq Positions
    BY <1>1 DEF Buffered
  <1> QED BY <1>2, <1>3, <1>4, <1>5

\* What a commit sends is the offset after an event of the batch, or what the
\* broker has.
LEMMA OffsetsToCommit ==
  ASSUME TypeOK, NEW c \in Consumers
  PROVE  CommitOffsets(c) \in [Partitions -> (0..MaxEvents) \union {NoOffset}]
  <1> SUFFICES ASSUME NEW p \in Partitions, OffsetsIn(c, p) # {}
               PROVE  LastIn(c, p) + 1 \in 0..MaxEvents
    BY DEF CommitOffsets, TypeOK
  <1>1. OffsetsIn(c, p) \subseteq 0..MaxEvents /\ MaxEvents \notin OffsetsIn(c, p)
    BY BoundAssumption DEF OffsetsIn, Offsets
  <1>2. \E m \in OffsetsIn(c, p) : \A x \in OffsetsIn(c, p) : x <= m
    BY <1>1, BoundAssumption, Largest
  <1>3. LastIn(c, p) \in OffsetsIn(c, p)
    BY <1>2 DEF LastIn
  <1> QED BY <1>1, <1>3, BoundAssumption

\* A full batch holds an event a number of times, and at most once when no two
\* of its entries are the same.
LEMMA CopiesCounted ==
  ASSUME TypeOK, NEW c \in Consumers, Len(buffer[c]) = BatchSize
  PROVE  /\ \A e \in Positions : /\ Copies(c, e) \in Nat
                                 /\ Copies(c, e) > 0 <=> e \in Buffered(c)
         /\ (\A i, j \in 1..Len(buffer[c]) :
                buffer[c][i] = buffer[c][j] => i = j)
              => \A e \in Positions : Copies(c, e) <= 1
  <1> DEFINE At(e) == {i \in 1..Len(buffer[c]) : buffer[c][i] = e}
  <1>1. Len(buffer[c]) \in Nat /\ DOMAIN buffer[c] = 1..Len(buffer[c])
    BY DEF TypeOK
  <1>2. Batch(c) = buffer[c]
    BY FullBatch
  <1>3. \A e : Copies(c, e) = Cardinality(At(e))
    BY <1>1, <1>2 DEF Copies
  <1>4. ASSUME NEW e PROVE IsFiniteSet(At(e))
    <2>1. IsFiniteSet(1..Len(buffer[c]))
      BY <1>1, FS_Interval
    <2>2. At(e) \subseteq 1..Len(buffer[c])
      OBVIOUS
    <2> QED BY <2>1, <2>2, FS_Subset
  <1>5. \A e : e \in Buffered(c) <=> At(e) # {}
    BY <1>1 DEF Buffered
  <1>6. ASSUME NEW e \in Positions
        PROVE  /\ Copies(c, e) \in Nat
               /\ Copies(c, e) > 0 <=> e \in Buffered(c)
    <2>1. /\ Cardinality(At(e)) \in Nat
          /\ Cardinality(At(e)) = 0 <=> At(e) = {}
      BY <1>4, FS_CardinalityType, FS_EmptySet
    <2>2. /\ Copies(c, e) = Cardinality(At(e))
          /\ e \in Buffered(c) <=> At(e) # {}
      BY <1>3, <1>5
    <2> HIDE DEF At
    <2> QED BY <2>1, <2>2
  <1>7. ASSUME \A i, j \in 1..Len(buffer[c]) :
                  buffer[c][i] = buffer[c][j] => i = j,
               NEW e \in Positions
        PROVE  Copies(c, e) <= 1
    <2>1. CASE At(e) = {}
      BY <1>3, <2>1, FS_EmptySet
    <2>2. CASE At(e) # {}
      <3>1. PICK i \in At(e) : TRUE
        BY <2>2
      <3>2. At(e) = {i}
        BY <1>7, <3>1
      <3> HIDE DEF At
      <3>3. Copies(c, e) = 1
        BY <1>3, <3>2, FS_Singleton
      <3> QED BY <3>3
    <2> QED BY <2>1, <2>2
  <1> QED BY <1>6, <1>7

\* repo.save takes no row away, and leaves one for each event of the batch.
LEMMA RowsSaved ==
  ASSUME Inv, NEW c \in Consumers, stage[c] = "saving"
  PROVE  /\ RowsAfterSave(c) \in [Positions -> Nat]
         /\ \A e \in Positions : rows[e] <= RowsAfterSave(c)[e]
         /\ \A e \in Buffered(c) : RowsAfterSave(c)[e] > 0
         /\ \A e \in Positions \ Buffered(c) : RowsAfterSave(c)[e] = rows[e]
  <1>1. rows \in [Positions -> Nat]
    BY DEF Inv, TypeOK
  <1>2. Buffered(c) \subseteq Positions /\ Len(buffer[c]) = BatchSize
    BY FullBatch DEF Inv, BatchFull
  <1>3. CASE inserted[c]
    BY <1>1, <1>2, <1>3 DEF RowsAfterSave, Inv, IdsAreRows
  <1>4. CASE ~inserted[c]
    <2>1. \A e \in Positions : /\ Copies(c, e) \in Nat /\ rows[e] \in Nat
                               /\ Copies(c, e) > 0 <=> e \in Buffered(c)
      BY <1>1, <1>2, CopiesCounted DEF Inv
    <2>2. RowsAfterSave(c) = [e \in Positions |-> rows[e] + Copies(c, e)]
      BY <1>4 DEF RowsAfterSave
    <2>3. \A e \in Positions : RowsAfterSave(c)[e] = rows[e] + Copies(c, e)
      BY <2>2
    <2>4. RowsAfterSave(c) \in [Positions -> Nat]
      BY <2>1, <2>2
    <2> QED BY <1>2, <2>1, <2>3, <2>4
  <1> QED BY <1>3, <1>4

-----------------------------------------------------------------------------
(* The steps. *)

\* A group that has caught up with an empty topic.
LEMMA InitInv == Init => Inv
  BY SetsAssumption, BatchAssumption, BoundAssumption
  DEF Init, Inv, TypeOK, BatchFull, IdsAreRows, Stages, NoOffset

\* A step that moves no buffer and no row, and changes a flush from one busy
\* stage to another, if any.
LEMMA StageKeeps ==
  ASSUME Inv, NEW c \in Consumers, stage[c] # "idle",
         NEW s \in Stages \ {"idle"}, Enter(c, s),
         s = "committing" => inserted[c],
         UNCHANGED <<rows, buffer, inserted>>
  PROVE  BatchFull' /\ IdsAreRows'
  <1> USE DEF Inv, TypeOK, Enter
  <1>1. BatchFull'
    BY DEF BatchFull
  <1>2. IdsAreRows'
    BY DEF IdsAreRows, Buffered
  <1> QED BY <1>1, <1>2

\* The end of a flush, after which the buffer is empty.
LEMMA EndKeeps ==
  ASSUME Inv, NEW c \in Consumers, stage[c] # "idle", Enter(c, "idle"),
         buffer' = [buffer EXCEPT ![c] = Spliced(c)],
         UNCHANGED <<rows, inserted>>
  PROVE  /\ BatchFull' /\ IdsAreRows'
         /\ buffer' \in [Consumers -> Seq(Positions)]
         /\ \A d \in Consumers : Len(buffer'[d]) <= BatchSize
  <1> USE DEF Inv, TypeOK, Enter
  <1>1. Spliced(c) = <<>>
    BY FullBatch DEF BatchFull
  <1>2. BatchFull'
    BY <1>1, BatchAssumption DEF BatchFull
  <1>3. IdsAreRows'
    BY <1>1 DEF IdsAreRows, Buffered
  <1>5. /\ buffer' \in [Consumers -> Seq(Positions)]
        /\ \A d \in Consumers : Len(buffer'[d]) <= BatchSize
    BY <1>1, BatchAssumption
  <1> QED BY <1>2, <1>3, <1>5

\* An event is buffered, and the last of a batch starts a flush.
LEMMA DeliverKeeps ==
  ASSUME Inv, NEW c \in Consumers, NEW p \in Partitions, Deliver(c, p)
  PROVE  Inv'
  <1> USE BatchAssumption, BoundAssumption DEF Inv, Deliver
  <1> DEFINE e == <<p, next[p]>>
  <1>1. e \in Positions
    BY DEF TypeOK, Positions, Offsets
  <1>2. buffer[c] \in Seq(Positions) /\ Len(buffer[c]) < BatchSize
    BY DEF TypeOK, BatchFull
  <1>3. /\ Append(buffer[c], e) \in Seq(Positions)
        /\ Len(Append(buffer[c], e)) = Len(buffer[c]) + 1
    BY <1>1, <1>2
  <1>4. /\ buffer' = [buffer EXCEPT ![c] = Append(buffer[c], e)]
        /\ delivered' = delivered \union {e}
        /\ next' = [next EXCEPT ![p] = next[p] + 1]
    OBVIOUS
  <1> HIDE DEF e
  <1>5. /\ next' \in [Partitions -> 0..MaxEvents]
        /\ delivered' \subseteq Positions
    BY <1>1, <1>4 DEF TypeOK
  <1>6. /\ buffer' \in [Consumers -> Seq(Positions)]
        /\ \A d \in Consumers : Len(buffer'[d]) <= BatchSize
    BY <1>2, <1>3, <1>4 DEF TypeOK
  <1>7. /\ stage' \in [Consumers -> Stages]
        /\ attempt' \in [Consumers -> 1..MaxRetries]
        /\ inserted' \in [Consumers -> BOOLEAN]
    <2>0. /\ stage \in [Consumers -> Stages]
          /\ attempt \in [Consumers -> 1..MaxRetries]
          /\ inserted \in [Consumers -> BOOLEAN]
          /\ 1 \in 1..MaxRetries /\ "saving" \in Stages
      BY DEF TypeOK, Stages
    <2>1. CASE StartsFlush(c)
      <3>1. /\ stage' = [stage EXCEPT ![c] = "saving"]
            /\ attempt' = [attempt EXCEPT ![c] = 1]
            /\ inserted' = [inserted EXCEPT ![c] = FALSE]
        BY <2>1 DEF Enter
      <3>2. inserted' \in [Consumers -> BOOLEAN]
        BY <2>0, <3>1, Zenon
      <3> QED BY <2>0, <3>1, <3>2
    <2>2. CASE ~StartsFlush(c)
      BY <2>0, <2>2
    <2> QED BY <2>1, <2>2
  <1>8. TypeOK'
    <2>1. UNCHANGED <<log, committed, owner, joined, rows, up, faults>>
      OBVIOUS
    <2> QED BY <1>5, <1>6, <1>7, <2>1 DEF TypeOK
  <1>9. BatchFull'
    <2>1. ASSUME NEW d \in Consumers, d # c
          PROVE  buffer'[d] = buffer[d] /\ stage'[d] = stage[d]
      BY <1>4, <2>1 DEF TypeOK, Enter
    <2>2. Len(buffer'[c]) = Len(buffer[c]) + 1
      BY <1>3, <1>4 DEF TypeOK
    <2>3. Len(buffer[c]) \in Nat
      BY <1>2
    <2>4. /\ stage'[c] = "idle" => Len(buffer'[c]) < BatchSize
          /\ stage'[c] # "idle" => Len(buffer'[c]) = BatchSize
      <3>1. stage[c] = "idle"
        OBVIOUS
      <3>2. CASE StartsFlush(c)
        BY <1>2, <2>2, <2>3, <3>2 DEF StartsFlush, FillsBatch, Enter, TypeOK
      <3>3. CASE ~StartsFlush(c)
        BY <1>2, <2>2, <2>3, <3>1, <3>3 DEF StartsFlush, FillsBatch
      <3> QED BY <3>2, <3>3
    <2> QED BY <2>1, <2>4 DEF BatchFull
  <1>10. IdsAreRows'
    BY <1>2, <1>4 DEF TypeOK, IdsAreRows, Buffered, StartsFlush, Enter
  <1> QED BY <1>8, <1>9, <1>10

\* The rows of a batch are saved, whether or not the process learns of it.
LEMMA SaveKeeps ==
  ASSUME Inv, NEW c \in Consumers, Save(c) \/ SaveReplyLost(c)
  PROVE  Inv'
  <1>1. /\ stage[c] = "saving" /\ Insertable(c)
        /\ rows' = RowsAfterSave(c)
        /\ inserted' = [inserted EXCEPT ![c] = TRUE]
        /\ Enter(c, "committing") \/ Enter(c, "waiting")
        /\ UNCHANGED <<broker, up, buffer, attempt, delivered>>
        /\ faults' = faults \/ (faults < MaxFaults /\ faults' = faults + 1)
    BY DEF Save, SaveReplyLost, Fault
  <1>2. /\ rows' \in [Positions -> Nat]
        /\ \A e \in Positions : rows[e] <= rows'[e]
        /\ \A e \in Buffered(c) : rows'[e] > 0
    BY <1>1, RowsSaved
  <1>3. TypeOK'
    <2>1. stage' \in [Consumers -> Stages]
      BY <1>1 DEF Inv, TypeOK, Enter, Stages
    <2>2. inserted' \in [Consumers -> BOOLEAN]
      BY <1>1, Zenon DEF Inv, TypeOK
    <2>3. faults' \in 0..MaxFaults
      BY <1>1, BoundAssumption DEF Inv, TypeOK
    <2>4. UNCHANGED <<log, committed, owner, next, joined, up, buffer, attempt,
                      delivered>>
      BY <1>1 DEF broker
    <2> QED BY <1>2, <2>1, <2>2, <2>3, <2>4 DEF Inv, TypeOK
  <1>4. BatchFull'
    BY <1>1 DEF Inv, TypeOK, BatchFull, Enter
  <1>5. IdsAreRows'
    <2> SUFFICES ASSUME NEW d \in Consumers, stage'[d] # "idle"
                 PROVE  /\ stage'[d] = "committing" => inserted'[d]
                        /\ inserted'[d] => \A e \in Buffered(d)' : rows'[e] > 0
      BY DEF IdsAreRows
    <2>1. Buffered(d)' = Buffered(d)
      BY <1>1 DEF Buffered
    <2>2. CASE d = c
      BY <1>1, <1>2, <2>1, <2>2 DEF Inv, TypeOK
    <2>3. CASE d # c
      <3>1. stage'[d] = stage[d] /\ inserted'[d] = inserted[d]
        BY <1>1, <2>3 DEF Inv, TypeOK, Enter
      <3>2. Buffered(d) \subseteq Positions
        BY <3>1, FullBatch DEF Inv, BatchFull
      <3>3. \A e \in Positions : rows[e] \in Nat /\ rows'[e] \in Nat
        BY <1>2 DEF Inv, TypeOK
      <3> QED BY <1>2, <2>1, <3>1, <3>2, <3>3 DEF Inv, IdsAreRows
    <2> QED BY <2>2, <2>3
  <1> QED BY <1>3, <1>4, <1>5 DEF Inv

\* A flush learns of a failure, tries again, or loses the reply of its commit.
LEMMA BusyKeeps ==
  ASSUME Inv, NEW c \in Consumers,
         \/ SaveRejected(c) \/ SaveFails(c)
         \/ CommitFails(c) \/ CommitReplyLost(c) \/ Retry(c)
  PROVE  Inv'
  <1> DEFINE MoreFaults == faults' = faults \/ (faults < MaxFaults /\ faults' = faults + 1)
  <1>1. /\ stage[c] # "idle"
        /\ Enter(c, "waiting") \/ Enter(c, "saving")
        /\ UNCHANGED <<log, owner, next, joined, rows, up, buffer, inserted,
                       delivered>>
        /\ MoreFaults
        /\ committed' = committed \/ committed' = CommitOffsets(c)
    BY DEF SaveRejected, SaveFails, CommitFails, CommitReplyLost, Retry, Fault,
           AfterError, broker
  <1>2. attempt' \in [Consumers -> 1..MaxRetries]
    <2>1. attempt \in [Consumers -> 1..MaxRetries] /\ MaxRetries \in Nat
      BY BatchAssumption DEF Inv, TypeOK
    <2>2. \/ attempt' = attempt
          \/ /\ attempt[c] < MaxRetries
             /\ attempt' = [attempt EXCEPT ![c] = attempt[c] + 1]
      BY DEF SaveRejected, SaveFails, CommitFails, CommitReplyLost, Retry,
             NextAttempt
    <2> QED BY <2>1, <2>2
  <1>3. committed' \in [Partitions -> (0..MaxEvents) \union {NoOffset}]
    BY <1>1, OffsetsToCommit DEF Inv, TypeOK
  <1>4. stage' \in [Consumers -> Stages]
    BY <1>1 DEF Inv, TypeOK, Enter, Stages
  <1>5. faults' \in 0..MaxFaults
    BY <1>1, BoundAssumption DEF Inv, TypeOK
  <1> HIDE DEF MoreFaults
  <1>6. TypeOK'
    BY <1>1, <1>2, <1>3, <1>4, <1>5 DEF Inv, TypeOK
  <1>7. BatchFull' /\ IdsAreRows'
    <2>1. "waiting" \in Stages \ {"idle"} /\ "saving" \in Stages \ {"idle"}
      BY DEF Stages
    <2>2. CASE Enter(c, "waiting")
      BY <1>1, <2>1, <2>2, StageKeeps
    <2>3. CASE Enter(c, "saving")
      BY <1>1, <2>1, <2>3, StageKeeps
    <2> QED BY <1>1, <2>2, <2>3
  <1> QED BY <1>6, <1>7 DEF Inv

\* The batch leaves the buffer, with its offsets committed or given up.
LEMMA DoneKeeps ==
  ASSUME Inv, NEW c \in Consumers, Commit(c) \/ GiveUp(c)
  PROVE  Inv'
  <1>1. /\ stage[c] # "idle"
        /\ Enter(c, "idle")
        /\ buffer' = [buffer EXCEPT ![c] = Spliced(c)]
        /\ UNCHANGED <<log, owner, next, joined, rows, up, attempt, inserted,
                       delivered, faults>>
        /\ committed' = committed \/ committed' = CommitOffsets(c)
    BY DEF Commit, GiveUp, broker
  <1>2. /\ BatchFull' /\ IdsAreRows'
        /\ buffer' \in [Consumers -> Seq(Positions)]
        /\ \A d \in Consumers : Len(buffer'[d]) <= BatchSize
    BY <1>1, EndKeeps
  <1>3. committed' \in [Partitions -> (0..MaxEvents) \union {NoOffset}]
    BY <1>1, OffsetsToCommit DEF Inv, TypeOK
  <1>4. stage' \in [Consumers -> Stages]
    BY <1>1 DEF Inv, TypeOK, Enter, Stages
  <1>5. TypeOK'
    BY <1>1, <1>2, <1>3, <1>4 DEF Inv, TypeOK
  <1> QED BY <1>2, <1>5 DEF Inv

\* A process dies with its buffer, or is started again with an empty one.
LEMMA CrashKeeps ==
  ASSUME Inv, NEW c \in Consumers, Crash(c)
  PROVE  Inv'
  <1> USE DEF Inv, TypeOK, Crash, Enter
  <1>1. /\ buffer' \in [Consumers -> Seq(Positions)]
        /\ \A d \in Consumers : Len(buffer'[d]) <= BatchSize
    BY BatchAssumption
  <1>2. /\ stage' \in [Consumers -> Stages]
        /\ faults' \in 0..MaxFaults
    BY BoundAssumption DEF Stages, Fault
  <1>3. /\ owner' \in [Partitions -> Consumers \union {NoOwner}]
        /\ joined' \subseteq up' /\ up' \subseteq Consumers
    OBVIOUS
  <1>4. UNCHANGED <<log, committed, next, rows, attempt, inserted, delivered>>
    OBVIOUS
  <1>5. TypeOK'
    BY <1>1, <1>2, <1>3, <1>4
  <1>6. BatchFull'
    BY BatchAssumption DEF BatchFull
  <1>7. IdsAreRows'
    BY DEF IdsAreRows, Buffered
  <1> QED BY <1>5, <1>6, <1>7

\* What the group, the broker and a new process do leaves buffers, flushes and
\* rows alone.
LEMMA ElsewhereKeeps ==
  ASSUME Inv, UNCHANGED <<rows, buffer, stage, inserted>>
  PROVE  BatchFull' /\ IdsAreRows'
  BY DEF Inv, BatchFull, IdsAreRows, Buffered

\* An event is published.
LEMMA ProduceKeeps ==
  ASSUME Inv, NEW p \in Partitions, Produce(p)
  PROVE  Inv'
  <1>1. log' \in [Partitions -> 0..MaxEvents]
    BY BoundAssumption DEF Inv, TypeOK, Produce
  <1>2. UNCHANGED <<committed, owner, next, joined, rows, up, buffer, stage,
                    attempt, inserted, delivered, faults>>
    BY DEF Produce, process
  <1>3. TypeOK'
    BY <1>1, <1>2 DEF Inv, TypeOK
  <1> QED BY <1>2, <1>3, ElsewhereKeeps DEF Inv

\* A process comes up, with an empty buffer.
LEMMA RestartKeeps ==
  ASSUME Inv, NEW c \in Consumers, Restart(c)
  PROVE  Inv'
  <1>1. /\ up' = up \union {c}
        /\ UNCHANGED <<log, committed, owner, next, joined, rows, buffer,
                       stage, attempt, inserted, delivered, faults>>
    BY DEF Restart, broker
  <1>2. TypeOK'
    BY <1>1 DEF Inv, TypeOK
  <1> QED BY <1>1, <1>2, ElsewhereKeeps DEF Inv

\* The partitions move between members, whose buffers stay as they are.
LEMMA RebalanceKeeps ==
  ASSUME Inv, Rebalance \/ SpontaneousRebalance
  PROVE  Inv'
  <1>1. PICK members \in SUBSET up :
              /\ joined' = members
              /\ owner' \in [Partitions -> members]
              /\ next' = [p \in Partitions |-> FetchPosition(p)]
    BY DEF Rebalance, SpontaneousRebalance, NewGeneration, Joinable
  <1>6. UNCHANGED <<log, committed, rows, up, buffer, stage, attempt,
                    inserted, delivered>>
    BY DEF Rebalance, SpontaneousRebalance, NewGeneration, process
  <1>2. faults' \in 0..MaxFaults
    BY BoundAssumption
    DEF Inv, TypeOK, Rebalance, SpontaneousRebalance, Fault
  <1>3. next' \in [Partitions -> 0..MaxEvents]
    BY <1>1 DEF Inv, TypeOK, FetchPosition, NoOffset
  <1>4. /\ owner' \in [Partitions -> Consumers \union {NoOwner}]
        /\ joined' \subseteq up
    BY <1>1 DEF Inv, TypeOK
  <1>5. TypeOK'
    BY <1>2, <1>3, <1>4, <1>6 DEF Inv, TypeOK
  <1> QED BY <1>5, <1>6, ElsewhereKeeps DEF Inv

-----------------------------------------------------------------------------
(* The theorems. *)

\* Every step keeps the invariant.
LEMMA NextInv == Inv /\ [Next]_vars => Inv'
  <1> SUFFICES ASSUME Inv, [Next]_vars PROVE Inv'
    OBVIOUS
  <1>1. ASSUME NEW p \in Partitions, Produce(p) PROVE Inv'
    BY <1>1, ProduceKeeps
  <1>2. ASSUME NEW c \in Consumers, NEW p \in Partitions, Deliver(c, p)
        PROVE  Inv'
    BY <1>2, DeliverKeeps
  <1>3. ASSUME NEW c \in Consumers, Flush(c) PROVE Inv'
    BY <1>3, SaveKeeps, BusyKeeps, DoneKeeps DEF Flush
  <1>4. ASSUME NEW c \in Consumers, Failure(c) PROVE Inv'
    BY <1>4, SaveKeeps, BusyKeeps, CrashKeeps DEF Failure
  <1>5. ASSUME NEW c \in Consumers, Restart(c) PROVE Inv'
    BY <1>5, RestartKeeps
  <1>6. CASE Rebalance \/ SpontaneousRebalance
    BY <1>6, RebalanceKeeps
  <1>7. CASE UNCHANGED vars
    BY <1>7 DEF vars, Inv, TypeOK, BatchFull, IdsAreRows, Buffered
  <1> QED
    BY <1>1, <1>2, <1>3, <1>4, <1>5, <1>6, <1>7 DEF Next, Process, Finished

\* The invariant holds at all times.
LEMMA Invariance == Spec => []Inv
  BY InitInv, NextInv, PTL DEF Spec

\* Every variable holds values of its kind, and a buffer never outgrows a
\* batch: createFromEvent never appends while a flush of its process runs.
THEOREM TypeCorrect == Spec => []TypeOK
  <1>1. Inv => TypeOK
    BY DEF Inv
  <1> QED BY <1>1, Invariance, PTL

\* A flush commits an offset only after the rows of every event of its
\* batch are in the table, also when the save was an earlier attempt's.
THEOREM CommitsSavedHolds == Spec => []CommitsSaved
  <1>1. Inv => CommitsSaved
    <2> SUFFICES ASSUME Inv, NEW c \in Consumers, NEW p \in Partitions,
                        stage[c] = "committing", NEW o \in OffsetsIn(c, p)
                 PROVE  rows[<<p, o>>] > 0
      BY DEF CommitsSaved
    <2>1. <<p, o>> \in BatchEvents(c)
      BY DEF OffsetsIn
    <2>2. BatchEvents(c) = Buffered(c)
      BY FullBatch DEF Inv, BatchFull
    <2> QED BY <2>1, <2>2 DEF Inv, IdsAreRows
  <1> QED BY <1>1, Invariance, PTL

-----------------------------------------------------------------------------
(* One consumer, whose membership is changed by nothing but a crash, and fewer *)
(* failures than a flush has attempts.                                       *)

LoneConsumer(k) ==
    /\ Consumers = {k}
    /\ "rebalance" \notin Faults
    /\ MaxFaults < MaxRetries

\* It has all partitions or none, and none only with nothing buffered.
GroupOfOne(k) ==
    /\ \A p \in Partitions : owner[p] = k <=> k \in joined
    /\ k \notin joined => buffer[k] = <<>> /\ stage[k] = "idle"

\* Every attempt of the flush before the one that runs met a failure.
EachTryFailed(k) ==
    /\ stage[k] \in {"saving", "committing"} => attempt[k] - 1 <= faults
    /\ stage[k] = "waiting" => attempt[k] <= faults

\* What a new generation is when there is one consumer: it had nothing.
LEMMA RebalanceOfOne ==
  ASSUME NEW k, LoneConsumer(k), Inv, GroupOfOne(k),
         Rebalance \/ SpontaneousRebalance
  PROVE  /\ k \notin joined /\ buffer[k] = <<>> /\ stage[k] = "idle"
         /\ joined' = {k}
         /\ owner' \in [Partitions -> {k}]
         /\ next' = [p \in Partitions |-> FetchPosition(p)]
         /\ UNCHANGED <<log, committed, rows, up, buffer, stage, attempt,
                        inserted, delivered, faults>>
  <1>1. Rebalance
    BY DEF SpontaneousRebalance, Fault, LoneConsumer
  <1>2. up = {k}
    BY <1>1 DEF Rebalance, NewGeneration, LoneConsumer, Inv, TypeOK
  <1>3. k \notin joined
    <2>1. k # NoOwner
      BY SetsAssumption DEF LoneConsumer
    <2> QED BY <1>1, <1>2, <2>1
            DEF Rebalance, LoneConsumer, Inv, TypeOK, GroupOfOne
  <1> QED BY <1>1, <1>2, <1>3 DEF Rebalance, NewGeneration, process, GroupOfOne

\* The group stays as it is, or has lost its only member.
LEMMA GroupOfOneStep ==
  ASSUME NEW k, LoneConsumer(k), Inv, GroupOfOne(k), [Next]_vars
  PROVE  GroupOfOne(k)'
  <1> USE DEF Inv, TypeOK, GroupOfOne, LoneConsumer, Enter, broker, process
  <1>1. CASE \E p \in Partitions : Produce(p)
    BY <1>1 DEF Produce
  <1>2. ASSUME NEW c \in Consumers, NEW p \in Partitions, Deliver(c, p)
        PROVE  GroupOfOne(k)'
    BY <1>2 DEF Deliver
  <1>3. ASSUME NEW c \in Consumers, Flush(c) PROVE GroupOfOne(k)'
    BY <1>3 DEF Flush, Save, SaveRejected, Commit, CommitFails, Retry, GiveUp
  <1>4. ASSUME NEW c \in Consumers, Failure(c) PROVE GroupOfOne(k)'
    <2>1. CASE Crash(c)
      BY <2>1, SetsAssumption DEF Crash
    <2>2. CASE ~Crash(c)
      BY <1>4, <2>2 DEF Failure, SaveFails, SaveReplyLost, CommitReplyLost
    <2> QED BY <2>1, <2>2
  <1>5. CASE \E c \in Consumers : Restart(c)
    BY <1>5 DEF Restart
  <1>6. CASE Rebalance \/ SpontaneousRebalance
    BY <1>6, RebalanceOfOne
  <1>7. CASE UNCHANGED vars
    BY <1>7 DEF vars
  <1> QED
    BY <1>1, <1>2, <1>3, <1>4, <1>5, <1>6, <1>7 DEF Next, Process, Finished

-----------------------------------------------------------------------------
(* One consumer of any partitions, which no crash hits between the save of a *)
(* batch and its commit: while it lives, or when it crashes before the save. *)

UnsplitFlushes ==
    /\ "crash" \notin Faults
    /\ EverCommitted \/ "crashUnsaved" \notin Faults

\* What was delivered is saved, held or going to be fetched again; what is
\* saved is committed or in the batch of the flush.
Accounted(k) ==
    /\ \A e \in delivered :
          rows[e] > 0 \/ e \in Buffered(k) \/ k \notin joined
            \/ next[e[1]] <= e[2]
    /\ \A e \in Positions :
          rows[e] > 0 => e[2] < committed[e[1]] \/ e \in Buffered(k)

\* Before its batch is saved none of its rows is there, and every attempt of
\* the flush before the last one met a failure.
BatchUnsaved(k) ==
    /\ stage[k] = "idle" \/ ~inserted[k] => \A e \in Buffered(k) : rows[e] = 0
    /\ EachTryFailed(k)

\* The offsets of a partition come in order and once: the last one in the
\* buffer is the one before the fetch position, and nothing beyond it was
\* saved or committed.
InOrder(k) ==
    /\ \A i, j \in 1..Len(buffer[k]) : buffer[k][i] = buffer[k][j] => i = j
    /\ \A e \in Positions :
          rows[e] > 0 \/ e \in Buffered(k) => e[2] < next[e[1]]
    /\ \A p \in Partitions :
          (\E e \in Buffered(k) : e[1] = p) => <<p, next[p] - 1>> \in Buffered(k)
    /\ \A p \in Partitions : committed[p] <= next[p]

\* A group that began with a committed offset has all that was fetched since
\* the last commit in its buffer, and all before it in the table; one that did
\* not begins at the end of the topic, once.
Gapless(k) ==
    IF EverCommitted
    THEN /\ CommittedIsSaved
         /\ \A p \in Partitions : committed[p] # NoOffset
         /\ k \in joined =>
              \A p \in Partitions, o \in Offsets :
                 committed[p] <= o /\ o < next[p] => <<p, o>> \in Buffered(k)
    ELSE k \notin joined => delivered = {}

Held(k) == Accounted(k) /\ BatchUnsaved(k) /\ InOrder(k) /\ Gapless(k)

Steady(k) == GroupOfOne(k) /\ NoDuplicateOrders /\ Held(k)

\* Offsets and rows are numbers.
LEMMA Numbers ==
  ASSUME Inv
  PROVE  /\ \A p \in Partitions : /\ next[p] \in Nat /\ log[p] \in Nat
                                  /\ committed[p] \in Int
         /\ \A e \in Positions : /\ rows[e] \in Nat
                                 /\ e[1] \in Partitions /\ e[2] \in Nat
                                 /\ e[2] \in Offsets /\ e = <<e[1], e[2]>>
         /\ \A o \in Offsets : o \in Nat
  BY BoundAssumption DEF Inv, TypeOK, NoOffset, Positions, Offsets

\* A sequence without repetitions holds each event once, so that a fresh batch
\* is taken by the table.
LEMMA FreshInsertable ==
  ASSUME Inv, NEW k \in Consumers, stage[k] # "idle",
         \A i, j \in 1..Len(buffer[k]) : buffer[k][i] = buffer[k][j] => i = j,
         \A e \in Buffered(k) : rows[e] = 0
  PROVE  Insertable(k)
  <1>1. TypeOK /\ Len(buffer[k]) = BatchSize
    BY DEF Inv, BatchFull
  <1>2. BatchEvents(k) = Buffered(k) /\ Buffered(k) \subseteq Positions
    BY <1>1, FullBatch
  <1>3. ASSUME NEW e \in Buffered(k) PROVE rows[e] + Copies(k, e) = 1
    <2>1. Copies(k, e) \in Nat /\ Copies(k, e) > 0 /\ Copies(k, e) <= 1
      BY <1>1, <1>2, CopiesCounted
    <2> QED BY <2>1
  <1> QED BY <1>2, <1>3 DEF Insertable

\* An event is handed over.
LEMMA DeliverSteady ==
  ASSUME NEW k \in Consumers, Inv, Steady(k),
         NEW p \in Partitions, Deliver(k, p)
  PROVE  NoDuplicateOrders' /\ Held(k)'
  <1> DEFINE e == <<p, next[p]>>
  <1>0. /\ k \in joined /\ stage[k] = "idle" /\ next[p] < log[p]
        /\ log[p] <= MaxEvents
    BY DEF Deliver, Steady, GroupOfOne, Inv, TypeOK
  <1>1. /\ e \in Positions /\ e[1] = p /\ e[2] = next[p]
    <2>1. next[p] \in Offsets
      BY <1>0, Numbers, BoundAssumption DEF Offsets
    <2> QED BY <2>1 DEF Positions
  <1>2. buffer[k] \in Seq(Positions) /\ buffer \in [Consumers -> Seq(Positions)]
    BY DEF Inv, TypeOK
  <1>3. /\ buffer'[k] = Append(buffer[k], e)
        /\ delivered' = delivered \union {e}
        /\ next' = [next EXCEPT ![p] = next[p] + 1]
        /\ UNCHANGED <<rows, joined, committed, faults>>
        /\ IF StartsFlush(k) THEN stage'[k] = "saving" /\ attempt'[k] = 1
                                  /\ inserted'[k] = FALSE
                             ELSE stage'[k] = "idle"
    BY <1>0, <1>2 DEF Deliver, Enter, Inv, TypeOK
  <1> HIDE DEF e
  <1>4. Buffered(k)' = Buffered(k) \union {e}
    <2>1. /\ Len(buffer'[k]) = Len(buffer[k]) + 1
          /\ \A i \in 1..Len(buffer[k]) : buffer'[k][i] = buffer[k][i]
          /\ buffer'[k][Len(buffer[k]) + 1] = e
          /\ DOMAIN buffer[k] = 1..Len(buffer[k])
          /\ DOMAIN buffer'[k] = 1..(Len(buffer[k]) + 1)
          /\ Len(buffer[k]) \in Nat
      BY <1>1, <1>2, <1>3
    <2>2. 1..(Len(buffer[k]) + 1) = 1..Len(buffer[k]) \union {Len(buffer[k]) + 1}
      BY <2>1
    <2> QED BY <2>1, <2>2 DEF Buffered
  <1>5. rows[e] = 0 /\ e \notin Buffered(k)
    <2>1. ~(e[2] < next[e[1]])
      BY <1>1, Numbers
    <2> QED BY <1>1, <2>1, Numbers DEF Steady, Held, InOrder
  <1>6. /\ next'[p] = next[p] + 1
        /\ \A q \in Partitions \ {p} : next'[q] = next[q]
    BY <1>3 DEF Inv, TypeOK
  <1>7. Accounted(k)'
    <2>1. ASSUME NEW x \in delivered'
          PROVE  rows[x] > 0 \/ x \in Buffered(k)' \/ next'[x[1]] <= x[2]
      <3>1. CASE x = e
        BY <1>4, <3>1
      <3>2. CASE x \in delivered /\ x # e
        <4>1. x \in Positions
          BY <3>2 DEF Inv, TypeOK
        <4>2. CASE x[1] # p
          BY <1>0, <1>4, <1>6, <3>2, <4>1, <4>2, Numbers
          DEF Steady, Held, Accounted
        <4>3. CASE x[1] = p
          <5>1. x[2] # next[p]
            BY <3>2, <4>1, <4>3, Numbers DEF e
          <5>2. rows[x] > 0 \/ x \in Buffered(k) \/ next[p] <= x[2]
            BY <1>0, <3>2, <4>3 DEF Steady, Held, Accounted
          <5> QED BY <1>4, <1>6, <4>1, <4>3, <5>1, <5>2, Numbers
        <4> QED BY <4>2, <4>3
      <3> QED BY <1>3, <2>1, <3>1, <3>2
    <2>2. \A x \in Positions :
             rows[x] > 0 => x[2] < committed[x[1]] \/ x \in Buffered(k)'
      BY <1>4 DEF Steady, Held, Accounted
    <2> QED BY <1>3, <2>1, <2>2 DEF Accounted
  <1>8. BatchUnsaved(k)'
    <2>1. \A x \in Buffered(k)' : rows'[x] = 0
      BY <1>0, <1>3, <1>4, <1>5 DEF Steady, Held, BatchUnsaved
    <2>2. EachTryFailed(k)'
      BY <1>3, BoundAssumption DEF EachTryFailed, Inv, TypeOK
    <2> QED BY <2>1, <2>2 DEF BatchUnsaved
  <1>9. InOrder(k)'
    <2>1. \A i, j \in 1..Len(buffer'[k]) : buffer'[k][i] = buffer'[k][j] => i = j
      <3>1. /\ Len(buffer'[k]) = Len(buffer[k]) + 1
            /\ \A i \in 1..Len(buffer[k]) : buffer'[k][i] = buffer[k][i]
            /\ buffer'[k][Len(buffer[k]) + 1] = e
            /\ Len(buffer[k]) \in Nat
        BY <1>1, <1>2, <1>3
      <3>2. \A i \in 1..Len(buffer[k]) : buffer[k][i] # e
        BY <1>2, <1>5 DEF Buffered
      <3>3. \A i, j \in 1..Len(buffer[k]) : buffer[k][i] = buffer[k][j] => i = j
        BY DEF Steady, Held, InOrder
      <3>4. \A i \in 1..Len(buffer[k]) + 1 :
               i \in 1..Len(buffer[k]) \/ i = Len(buffer[k]) + 1
        BY <3>1
      <3> HIDE DEF e
      <3> QED BY <3>1, <3>2, <3>3, <3>4
    <2>2. ASSUME NEW x \in Positions, rows'[x] > 0 \/ x \in Buffered(k)'
          PROVE  x[2] < next'[x[1]]
      <3>1. CASE x = e
        BY <1>1, <1>6, <3>1, Numbers
      <3>2. CASE x # e
        <4>1. x[2] < next[x[1]]
          BY <1>3, <1>4, <2>2, <3>2 DEF Steady, Held, InOrder
        <4> QED BY <1>6, <4>1, Numbers
      <3> QED BY <3>1, <3>2
    <2>3. ASSUME NEW q \in Partitions, NEW x \in Buffered(k)', x[1] = q
          PROVE  <<q, next'[q] - 1>> \in Buffered(k)'
      <3>1. CASE q = p
        <4>1. next'[q] - 1 = next[p]
          BY <1>6, <3>1, Numbers
        <4> QED BY <1>4, <3>1, <4>1 DEF e
      <3>2. CASE q # p
        <4>1. x \in Buffered(k)
          BY <1>1, <1>4, <2>3, <3>2
        <4> QED BY <1>4, <1>6, <2>3, <3>2, <4>1 DEF Steady, Held, InOrder
      <3> QED BY <3>1, <3>2
    <2>4. \A q \in Partitions : committed'[q] <= next'[q]
      BY <1>3, <1>6, Numbers DEF Steady, Held, InOrder
    <2> QED BY <2>1, <2>2, <2>3, <2>4 DEF InOrder
  <1>10. Gapless(k)'
    <2>1. ASSUME EverCommitted, NEW q \in Partitions, NEW o \in Offsets,
                 committed[q] <= o, o < next'[q]
          PROVE  <<q, o>> \in Buffered(k)'
      <3>1. CASE q = p /\ o = next[p]
        BY <1>4, <3>1 DEF e
      <3>2. CASE ~(q = p /\ o = next[p])
        <4>1. o < next[q]
          BY <1>6, <2>1, <3>2, Numbers
        <4> QED BY <1>0, <1>4, <2>1, <4>1 DEF Steady, Held, Gapless
      <3> QED BY <3>1, <3>2
    <2>2. CommittedIsSaved' <=> CommittedIsSaved
      BY <1>3 DEF CommittedIsSaved
    <2> QED BY <1>0, <1>3, <2>1, <2>2 DEF Steady, Held, Gapless
  <1>11. NoDuplicateOrders'
    BY <1>3 DEF Steady, NoDuplicateOrders
  <1> QED BY <1>7, <1>8, <1>9, <1>10, <1>11 DEF Held

\* The batch is saved, whether or not the process learns of it.
LEMMA SaveSteady ==
  ASSUME NEW k \in Consumers, Inv, Steady(k), Save(k) \/ SaveReplyLost(k)
  PROVE  NoDuplicateOrders' /\ Held(k)'
  <1>1. /\ stage[k] = "saving"
        /\ rows' = RowsAfterSave(k)
        /\ inserted' = [inserted EXCEPT ![k] = TRUE]
        /\ \/ Enter(k, "committing") /\ faults' = faults
           \/ Enter(k, "waiting") /\ faults' = faults + 1
        /\ UNCHANGED <<log, committed, owner, next, joined, up, buffer, attempt,
                       delivered>>
    BY DEF Save, SaveReplyLost, Fault, broker
  <1>2. /\ \A e \in Positions : rows[e] <= rows'[e]
        /\ \A e \in Buffered(k) : rows'[e] > 0
        /\ \A e \in Positions \ Buffered(k) : rows'[e] = rows[e]
        /\ rows' \in [Positions -> Nat]
    BY <1>1, RowsSaved
  <1>3. Buffered(k)' = Buffered(k)
    BY <1>1 DEF Buffered
  <1>4. \A e \in Positions : rows'[e] \in Nat /\ (rows[e] > 0 => rows'[e] > 0)
    BY <1>2, Numbers
  <1>5. delivered \subseteq Positions
    BY DEF Inv, TypeOK
  <1>6. Accounted(k)'
    BY <1>1, <1>2, <1>3, <1>4, <1>5 DEF Steady, Held, Accounted
  <1>7. BatchUnsaved(k)'
    <2>1. inserted'[k] /\ stage'[k] # "idle"
      BY <1>1 DEF Enter, Inv, TypeOK
    <2>2. attempt[k] \in Int /\ faults \in Int /\ attempt[k] - 1 <= faults
      BY <1>1 DEF Steady, Held, BatchUnsaved, EachTryFailed, Inv, TypeOK
    <2>3. EachTryFailed(k)'
      BY <1>1, <2>2 DEF EachTryFailed, Enter, Inv, TypeOK
    <2> QED BY <2>1, <2>3 DEF BatchUnsaved
  <1>8. InOrder(k)'
    BY <1>1, <1>2, <1>3 DEF Steady, Held, InOrder
  <1>9. Gapless(k)'
    <2>1. CommittedIsSaved => CommittedIsSaved'
      BY <1>1, <1>4 DEF CommittedIsSaved, Positions
    <2> QED BY <1>1, <1>3, <2>1 DEF Steady, Held, Gapless
  <1>10. NoDuplicateOrders'
    <2>1. CASE inserted[k]
      BY <1>1, <2>1 DEF RowsAfterSave, Steady, NoDuplicateOrders
    <2>2. CASE ~inserted[k]
      <3>1. \A e \in Buffered(k) : rows[e] = 0
        BY <2>2 DEF Steady, Held, BatchUnsaved
      <3>2. \A e \in Positions : Copies(k, e) \in Nat /\ Copies(k, e) <= 1
        BY <1>1, CopiesCounted DEF Inv, BatchFull, Steady, Held, InOrder
      <3>3. \A e \in Positions : rows'[e] = rows[e] + Copies(k, e)
        BY <1>1, <2>2 DEF RowsAfterSave
      <3>4. ASSUME NEW e \in Positions PROVE rows'[e] <= 1
        <4>1. CASE e \in Buffered(k)
          BY <3>1, <3>2, <3>3, <4>1
        <4>2. CASE e \notin Buffered(k)
          BY <1>2, <4>2 DEF Steady, NoDuplicateOrders
        <4> QED BY <4>1, <4>2
      <3> QED BY <3>4 DEF NoDuplicateOrders
    <2> QED BY <2>1, <2>2
  <1> QED BY <1>6, <1>7, <1>8, <1>9, <1>10 DEF Held

\* The offsets to commit are the fetch positions of the batch's partitions.
LEMMA CommitsFetched ==
  ASSUME NEW k \in Consumers, Inv, InOrder(k), stage[k] # "idle"
  PROVE  \A p \in Partitions :
            /\ OffsetsIn(k, p) # {} => CommitOffsets(k)[p] = next[p]
            /\ OffsetsIn(k, p) = {} => CommitOffsets(k)[p] = committed[p]
            /\ committed[p] <= CommitOffsets(k)[p]
            /\ CommitOffsets(k)[p] <= next[p]
  <1> SUFFICES ASSUME NEW p \in Partitions
               PROVE  /\ OffsetsIn(k, p) # {} => CommitOffsets(k)[p] = next[p]
                      /\ OffsetsIn(k, p) = {} => CommitOffsets(k)[p] = committed[p]
                      /\ committed[p] <= CommitOffsets(k)[p]
                      /\ CommitOffsets(k)[p] <= next[p]
    OBVIOUS
  <1>1. BatchEvents(k) = Buffered(k) /\ Buffered(k) \subseteq Positions
    BY FullBatch DEF Inv, BatchFull
  <1>2. /\ committed[p] \in Int /\ next[p] \in Int
        /\ committed[p] <= next[p]
    BY Numbers DEF InOrder
  <1>3. CASE OffsetsIn(k, p) = {}
    BY <1>2, <1>3 DEF CommitOffsets
  <1>4. CASE OffsetsIn(k, p) # {}
    <2>1. <<p, next[p] - 1>> \in Buffered(k)
      <3>1. PICK o \in Offsets : <<p, o>> \in Buffered(k)
        BY <1>1, <1>4 DEF OffsetsIn
      <3> DEFINE e == <<p, o>>
      <3>2. e \in Buffered(k) /\ e[1] = p
        BY <3>1
      <3> QED BY <3>2 DEF InOrder
    <2>2. next[p] - 1 \in OffsetsIn(k, p)
      BY <1>1, <2>1 DEF OffsetsIn, Positions
    <2>3. ASSUME NEW x \in OffsetsIn(k, p)
          PROVE  x \in Int /\ x <= next[p] - 1
      <3> DEFINE e == <<p, x>>
      <3>1. e \in Buffered(k) /\ e[1] = p /\ e[2] = x /\ x \in Int
        BY <1>1, Numbers DEF OffsetsIn
      <3>2. e \in Positions
        BY <1>1, <3>1
      <3>3. x < next[p]
        BY <3>1, <3>2 DEF InOrder
      <3> QED BY <1>2, <3>1, <3>3
    <2>4. LastIn(k, p) = next[p] - 1
      BY <1>2, <2>2, <2>3 DEF LastIn
    <2> QED BY <1>2, <1>4, <2>4 DEF CommitOffsets
  <1> QED BY <1>3, <1>4

\* The offsets are committed, whether or not the process learns of it: all
\* that was fetched of the partitions in the batch, which is in the table.
LEMMA OffsetsCommitted ==
  ASSUME NEW k \in Consumers, Inv, Held(k), stage[k] = "committing",
         k \in joined, committed' = CommitOffsets(k), UNCHANGED <<next, rows>>
  PROVE  /\ \A p \in Partitions : committed[p] <= committed'[p]
         /\ \A p \in Partitions : committed'[p] <= next[p]
         /\ \A e \in Positions : rows[e] > 0 => e[2] < committed'[e[1]]
         /\ EverCommitted => /\ CommittedIsSaved'
                             /\ \A p \in Partitions : committed'[p] = next[p]
  <1>1. \A p \in Partitions :
           /\ committed'[p] \in Int /\ committed[p] \in Int /\ next[p] \in Nat
           /\ committed[p] <= committed'[p] /\ committed'[p] <= next[p]
           /\ OffsetsIn(k, p) # {} => committed'[p] = next[p]
           /\ OffsetsIn(k, p) = {} => committed'[p] = committed[p]
    <2>1. \A p \in Partitions : CommitOffsets(k)[p] \in Int
      BY OffsetsToCommit DEF Inv, NoOffset
    <2> QED BY <2>1, CommitsFetched, Numbers DEF Held
  <1>2. /\ BatchEvents(k) = Buffered(k) /\ Buffered(k) \subseteq Positions
        /\ \A e \in Buffered(k) : rows[e] > 0
    BY FullBatch DEF Inv, BatchFull, IdsAreRows
  <1>3. ASSUME NEW e \in Positions, rows[e] > 0
        PROVE  e[2] < committed'[e[1]]
    <2>1. e[1] \in Partitions /\ e[2] \in Offsets /\ e = <<e[1], e[2]>>
      BY Numbers
    <2>2. e[2] \in Nat /\ e[2] < next[e[1]]
      BY <1>3, Numbers DEF Held, InOrder
    <2>3. CASE e[2] < committed[e[1]]
      BY <1>1, <2>1, <2>2, <2>3
    <2>4. CASE e \in Buffered(k)
      <3>1. e[2] \in OffsetsIn(k, e[1])
        BY <1>2, <2>1, <2>4 DEF OffsetsIn
      <3> QED BY <1>1, <2>1, <2>2, <3>1
    <2> QED BY <1>3, <2>3, <2>4 DEF Held, Accounted
  <1>4. ASSUME EverCommitted, NEW p \in Partitions
        PROVE  committed'[p] = next[p]
    <2> SUFFICES ASSUME OffsetsIn(k, p) = {}, committed[p] < next[p]
                 PROVE  FALSE
      BY <1>1
    <2>1. committed[p] \in Offsets
      BY <1>4, BoundAssumption
      DEF Held, Gapless, Inv, TypeOK, NoOffset, Offsets
    <2>2. <<p, committed[p]>> \in Buffered(k)
      BY <1>1, <1>4, <2>1 DEF Held, Gapless
    <2> QED BY <1>2, <2>1, <2>2 DEF OffsetsIn
  <1>5. ASSUME EverCommitted, NEW p \in Partitions, NEW o \in Offsets,
               o < committed'[p]
        PROVE  rows[<<p, o>>] > 0
    <2>1. o < next[p] /\ o \in Nat
      BY <1>4, <1>5, Numbers
    <2>2. CASE o < committed[p]
      BY <1>5, <2>2 DEF Held, Gapless, CommittedIsSaved
    <2>3. CASE ~(o < committed[p])
      <3>1. committed[p] <= o
        BY <1>1, <2>1, <2>3
      <3> QED BY <1>2, <1>5, <2>1, <3>1 DEF Held, Gapless
    <2> QED BY <2>2, <2>3
  <1> QED BY <1>1, <1>3, <1>4, <1>5 DEF CommittedIsSaved

\* A flush meets a failure, goes on after one, or has committed unawares.
LEMMA BusySteady ==
  ASSUME NEW k \in Consumers, Inv, Steady(k),
         \/ SaveRejected(k) \/ SaveFails(k)
         \/ CommitFails(k) \/ CommitReplyLost(k) \/ Retry(k)
  PROVE  NoDuplicateOrders' /\ Held(k)'
  <1>1. /\ stage[k] # "idle" /\ stage'[k] # "idle"
        /\ UNCHANGED <<next, joined, rows, buffer, inserted, delivered>>
    BY DEF SaveRejected, SaveFails, CommitFails, CommitReplyLost, Retry, Enter,
           AfterError, broker, Inv, TypeOK
  <1>2. Buffered(k)' = Buffered(k)
    BY <1>1 DEF Buffered
  <1>3. k \in joined
    BY <1>1 DEF Steady, GroupOfOne
  <1>4. EachTryFailed(k)'
    <2>1. attempt[k] \in Int /\ faults \in Int /\ EachTryFailed(k)
      BY DEF Inv, TypeOK, Steady, Held, BatchUnsaved
    <2>2. ~SaveRejected(k)
      <3>1. CASE inserted[k]
        BY <3>1 DEF SaveRejected, Insertable
      <3>2. CASE ~inserted[k]
        <4>1. \A e \in Buffered(k) : rows[e] = 0
          BY <3>2 DEF Steady, Held, BatchUnsaved
        <4> QED BY <1>1, <4>1, FreshInsertable
                DEF SaveRejected, Steady, Held, InOrder
      <3> QED BY <3>1, <3>2
    <2>3. CASE SaveFails(k)
      BY <2>1, <2>3
      DEF SaveFails, Fault, Enter, AfterError, EachTryFailed, Inv, TypeOK
    <2>4. CASE Retry(k)
      BY <2>1, <2>4
      DEF Retry, NextAttempt, Enter, EachTryFailed, Inv, TypeOK
    <2>5. CASE CommitFails(k) \/ CommitReplyLost(k)
      <3>1. /\ stage[k] = "committing" /\ stage'[k] = "waiting"
            /\ attempt' = attempt /\ faults' = faults + 1
        BY <1>3, <2>5
        DEF CommitFails, CommitReplyLost, Fault, Enter, Inv, TypeOK
      <3> QED BY <2>1, <3>1 DEF EachTryFailed
    <2> QED BY <2>2, <2>3, <2>4, <2>5
  <1>5. BatchUnsaved(k)'
    BY <1>1, <1>2, <1>4 DEF Steady, Held, BatchUnsaved
  <1>6. NoDuplicateOrders'
    BY <1>1 DEF Steady, NoDuplicateOrders
  <1>7. CASE committed' = committed
    <2>1. Accounted(k)' /\ InOrder(k)'
      BY <1>1, <1>2, <1>7 DEF Steady, Held, Accounted, InOrder
    <2>2. CommittedIsSaved' <=> CommittedIsSaved
      BY <1>1, <1>7 DEF CommittedIsSaved
    <2>3. Gapless(k)'
      BY <1>1, <1>2, <1>7, <2>2 DEF Steady, Held, Gapless
    <2> QED BY <1>5, <1>6, <2>1, <2>3 DEF Held
  <1>8. CASE CommitReplyLost(k)
    <2>1. stage[k] = "committing" /\ committed' = CommitOffsets(k)
      BY <1>8 DEF CommitReplyLost
    <2>2. /\ \A p \in Partitions : committed'[p] <= next[p]
          /\ \A e \in Positions : rows[e] > 0 => e[2] < committed'[e[1]]
          /\ EverCommitted => /\ CommittedIsSaved'
                              /\ \A p \in Partitions : committed'[p] = next[p]
      BY <1>1, <1>3, <2>1, OffsetsCommitted DEF Steady
    <2>3. Accounted(k)'
      BY <1>1, <1>2, <2>2 DEF Steady, Held, Accounted
    <2>4. InOrder(k)'
      BY <1>1, <1>2, <2>2 DEF Steady, Held, InOrder
    <2>5. Gapless(k)'
      <3>1. \A p \in Partitions, o \in Offsets :
               next[p] \in Nat /\ o \in Nat /\ (next[p] <= o => ~(o < next[p]))
        BY Numbers
      <3>2. \A p \in Partitions : next[p] # NoOffset
        BY Numbers DEF NoOffset
      <3> QED BY <1>1, <1>3, <2>2, <3>1, <3>2 DEF Gapless
    <2> QED BY <1>5, <1>6, <2>3, <2>4, <2>5 DEF Held
  <1>9. committed' = committed \/ CommitReplyLost(k)
    BY DEF SaveRejected, SaveFails, CommitFails, Retry, broker
  <1> QED BY <1>7, <1>8, <1>9

\* The batch leaves the buffer, committed: the attempts of a flush do not run
\* out, as each of them takes a failure.
LEMMA DoneSteady ==
  ASSUME NEW k \in Consumers, LoneConsumer(k), Inv, Steady(k),
         Commit(k) \/ GiveUp(k)
  PROVE  NoDuplicateOrders' /\ Held(k)'
  <1>1. ~GiveUp(k)
    <2> SUFFICES ASSUME attempt[k] = MaxRetries, stage[k] = "waiting"
                 PROVE  FALSE
      BY DEF GiveUp, OutOfAttempts
    <2>1. attempt[k] <= faults /\ faults <= MaxFaults /\ faults \in Int
      BY BoundAssumption
      DEF Steady, Held, BatchUnsaved, EachTryFailed, Inv, TypeOK
    <2> QED BY <2>1, BatchAssumption, BoundAssumption DEF LoneConsumer
  <1>2. /\ stage[k] = "committing" /\ k \in joined
        /\ committed' = CommitOffsets(k)
        /\ Enter(k, "idle")
        /\ buffer' = [buffer EXCEPT ![k] = Spliced(k)]
        /\ UNCHANGED <<next, joined, rows, delivered>>
    BY <1>1 DEF Commit
  <1>3. buffer'[k] = <<>> /\ Buffered(k)' = {} /\ stage'[k] = "idle"
    <2>1. Spliced(k) = <<>>
      BY <1>2, FullBatch DEF Inv, BatchFull
    <2>2. buffer'[k] = <<>> /\ stage'[k] = "idle"
      BY <1>2, <2>1 DEF Enter, Inv, TypeOK
    <2> QED BY <2>2 DEF Buffered
  <1>4. /\ \A p \in Partitions : committed'[p] <= next[p]
        /\ \A e \in Positions : rows[e] > 0 => e[2] < committed'[e[1]]
        /\ EverCommitted => /\ CommittedIsSaved'
                            /\ \A p \in Partitions : committed'[p] = next[p]
    BY <1>2, OffsetsCommitted DEF Steady
  <1>5. \A e \in Buffered(k) : rows[e] > 0
    BY <1>2 DEF Inv, IdsAreRows
  <1>6. Accounted(k)'
    BY <1>2, <1>4, <1>5 DEF Steady, Held, Accounted
  <1>7. BatchUnsaved(k)'
    BY <1>3 DEF BatchUnsaved, EachTryFailed
  <1>8. InOrder(k)'
    <2>1. \A i, j \in 1..Len(buffer'[k]) : buffer'[k][i] = buffer'[k][j] => i = j
      BY <1>3
    <2> QED BY <1>2, <1>3, <1>4, <2>1 DEF Steady, Held, InOrder
  <1>9. Gapless(k)'
    <2>1. \A p \in Partitions, o \in Offsets :
             next[p] \in Nat /\ o \in Nat /\ (next[p] <= o => ~(o < next[p]))
      BY Numbers
    <2>2. \A p \in Partitions : next[p] # NoOffset
      BY Numbers DEF NoOffset
    <2> QED BY <1>2, <1>4, <2>1, <2>2 DEF Gapless
  <1>10. NoDuplicateOrders'
    BY <1>2 DEF Steady, NoDuplicateOrders
  <1> QED BY <1>6, <1>7, <1>8, <1>9, <1>10 DEF Held

\* A process dies before it has saved its batch: what it held is fetched again.
LEMMA CrashSteady ==
  ASSUME NEW k \in Consumers, LoneConsumer(k), UnsplitFlushes, Inv, Steady(k),
         Crash(k)
  PROVE  NoDuplicateOrders' /\ Held(k)'
  <1>1. /\ \A e \in Buffered(k) : rows[e] = 0
        /\ EverCommitted
        /\ k \notin joined' /\ buffer'[k] = <<>> /\ stage'[k] = "idle"
        /\ UNCHANGED <<committed, next, rows, delivered>>
    BY DEF Crash, Fault, Enter, UnsplitFlushes, Inv, TypeOK
  <1>2. Buffered(k)' = {}
    BY <1>1 DEF Buffered
  <1>3. \A e \in Positions : rows[e] > 0 => e \notin Buffered(k)
    BY <1>1, Numbers
  <1>4. Accounted(k)'
    BY <1>1, <1>3 DEF Steady, Held, Accounted
  <1>5. BatchUnsaved(k)'
    BY <1>1, <1>2 DEF BatchUnsaved, EachTryFailed
  <1>6. InOrder(k)'
    <2>1. \A i, j \in 1..Len(buffer'[k]) : buffer'[k][i] = buffer'[k][j] => i = j
      BY <1>1
    <2> QED BY <1>1, <1>2, <2>1 DEF Steady, Held, InOrder
  <1>7. Gapless(k)'
    <2>1. CommittedIsSaved' <=> CommittedIsSaved
      BY <1>1 DEF CommittedIsSaved
    <2> QED BY <1>1, <2>1 DEF Steady, Held, Gapless
  <1>8. NoDuplicateOrders'
    BY <1>1 DEF Steady, NoDuplicateOrders
  <1> QED BY <1>4, <1>5, <1>6, <1>7, <1>8 DEF Held

\* The group begins, or begins again after a crash: it fetches from the
\* committed offsets, before which everything is saved.
LEMMA RebalanceSteady ==
  ASSUME NEW k \in Consumers, LoneConsumer(k), Inv, Steady(k),
         Rebalance \/ SpontaneousRebalance
  PROVE  NoDuplicateOrders' /\ Held(k)'
  <1>1. /\ k \notin joined /\ k \in joined'
        /\ buffer'[k] = <<>> /\ stage'[k] = "idle"
        /\ next' = [p \in Partitions |-> FetchPosition(p)]
        /\ UNCHANGED <<log, committed, rows, buffer, delivered>>
    BY RebalanceOfOne DEF Steady
  <1>2. Buffered(k) = {} /\ Buffered(k)' = {}
    BY <1>1 DEF Buffered
  <1>3. \A p \in Partitions :
           /\ committed[p] <= next'[p]
           /\ committed[p] # NoOffset => next'[p] = committed[p]
           /\ next'[p] \in Nat
    BY <1>1, Numbers DEF FetchPosition, NoOffset, Inv, TypeOK
  <1>4. \A e \in Positions : rows[e] > 0 => e[2] < committed[e[1]]
    BY <1>2 DEF Steady, Held, Accounted
  <1>5. ASSUME NEW e \in delivered
        PROVE  rows[e] > 0 \/ next'[e[1]] <= e[2]
    <2>1. EverCommitted
      BY <1>1 DEF Steady, Held, Gapless
    <2>2. e \in Positions
      BY DEF Inv, TypeOK
    <2>3. next'[e[1]] = committed[e[1]]
      BY <1>3, <2>1, <2>2, Numbers DEF Steady, Held, Gapless
    <2>4. e[2] < committed[e[1]] => rows[e] > 0
      BY <2>1, <2>2, Numbers DEF Steady, Held, Gapless, CommittedIsSaved
    <2> QED BY <2>2, <2>3, <2>4, Numbers
  <1>6. Accounted(k)'
    BY <1>1, <1>4, <1>5 DEF Accounted
  <1>7. BatchUnsaved(k)'
    BY <1>1, <1>2 DEF BatchUnsaved, EachTryFailed
  <1>8. InOrder(k)'
    <2>1. \A i, j \in 1..Len(buffer'[k]) : buffer'[k][i] = buffer'[k][j] => i = j
      BY <1>1
    <2>2. ASSUME NEW e \in Positions, rows[e] > 0 PROVE e[2] < next'[e[1]]
      BY <1>3, <1>4, <2>2, Numbers
    <2> QED BY <1>1, <1>2, <1>3, <2>1, <2>2 DEF InOrder
  <1>9. Gapless(k)'
    <2>1. CommittedIsSaved' <=> CommittedIsSaved
      BY <1>1 DEF CommittedIsSaved
    <2>2. EverCommitted =>
            /\ CommittedIsSaved
            /\ \A p \in Partitions : committed[p] # NoOffset
      BY DEF Steady, Held, Gapless
    <2>3. ASSUME EverCommitted, NEW p \in Partitions, NEW o \in Offsets
          PROVE  ~(committed[p] <= o /\ o < next'[p])
      BY <1>3, <2>2, <2>3, Numbers
    <2> QED BY <1>1, <2>1, <2>2, <2>3 DEF Gapless
  <1>10. NoDuplicateOrders'
    BY <1>1 DEF Steady, NoDuplicateOrders
  <1> QED BY <1>6, <1>7, <1>8, <1>9, <1>10 DEF Held

\* What happens elsewhere changes nothing.
LEMMA ElsewhereSteady ==
  ASSUME NEW k \in Consumers, Inv, Steady(k),
         \/ \E p \in Partitions : Produce(p)
         \/ Restart(k)
         \/ UNCHANGED vars
  PROVE  NoDuplicateOrders' /\ Held(k)'
  <1>1. UNCHANGED <<committed, next, joined, rows, buffer, stage, attempt,
                    inserted, delivered, faults>>
    BY DEF Produce, Restart, vars, process, broker
  <1>2. Buffered(k)' = Buffered(k) /\ (CommittedIsSaved' <=> CommittedIsSaved)
    BY <1>1 DEF Buffered, CommittedIsSaved
  <1>3. Accounted(k)' /\ BatchUnsaved(k)' /\ InOrder(k)'
    BY <1>1, <1>2
    DEF Steady, Held, Accounted, BatchUnsaved, EachTryFailed, InOrder
  <1>4. Gapless(k)'
    BY <1>1, <1>2 DEF Steady, Held, Gapless
  <1>5. NoDuplicateOrders'
    BY <1>1 DEF Steady, NoDuplicateOrders
  <1> QED BY <1>3, <1>4, <1>5 DEF Held

\* Every step keeps Steady.
LEMMA SteadyStep ==
  ASSUME NEW k \in Consumers, LoneConsumer(k), UnsplitFlushes, Inv, Steady(k),
         [Next]_vars
  PROVE  Steady(k)'
  <1>1. GroupOfOne(k)'
    BY GroupOfOneStep DEF Steady
  <1>2. \A c \in Consumers : c = k
    BY DEF LoneConsumer
  <1>3. ASSUME Process(k) PROVE NoDuplicateOrders' /\ Held(k)'
    BY <1>3, SaveSteady, BusySteady, DoneSteady, CrashSteady, ElsewhereSteady
    DEF Process, Flush, Failure
  <1>4. NoDuplicateOrders' /\ Held(k)'
    BY <1>2, <1>3, DeliverSteady, RebalanceSteady, ElsewhereSteady
    DEF Next, Finished
  <1> QED BY <1>1, <1>4 DEF Steady

\* Nothing is delivered and nothing buffered at first.
LEMMA InitSteady ==
  ASSUME NEW k \in Consumers
  PROVE  Init => Steady(k)
  <1> SUFFICES ASSUME Init PROVE Steady(k)
    OBVIOUS
  <1>1. /\ buffer[k] = <<>> /\ Buffered(k) = {} /\ delivered = {} /\ joined = {}
        /\ stage[k] = "idle" /\ \A e \in Positions : rows[e] = 0
    BY DEF Init, Buffered
  <1>2. \A p \in Partitions : /\ next[p] = 0 /\ owner[p] = NoOwner
                              /\ committed[p] = IF EverCommitted THEN 0 ELSE -1
    BY DEF Init, NoOffset
  <1>3. GroupOfOne(k) /\ NoDuplicateOrders
    BY <1>1, <1>2, SetsAssumption DEF GroupOfOne, NoDuplicateOrders
  <1>4. Accounted(k) /\ BatchUnsaved(k) /\ InOrder(k)
    BY <1>1, <1>2 DEF Accounted, BatchUnsaved, EachTryFailed, InOrder
  <1>5. Gapless(k)
    BY <1>1, <1>2, BoundAssumption
    DEF Gapless, CommittedIsSaved, NoOffset, Offsets
  <1> QED BY <1>3, <1>4, <1>5 DEF Steady, Held

\* Such a consumer is steady for the whole of every behaviour.
LEMMA SteadyInvariance ==
  ASSUME NEW k \in Consumers, LoneConsumer(k), UnsplitFlushes
  PROVE  Spec => [](Inv /\ Steady(k))
  <1>1. Init => Steady(k)
    BY InitSteady
  <1>2. Inv /\ Steady(k) /\ [Next]_vars => Steady(k)'
    BY SteadyStep
  <1> QED BY <1>1, <1>2, Invariance, PTL DEF Spec

\* Nothing is lost or saved twice, and what is saved is committed.
LEMMA SteadyKeepsAll ==
  ASSUME NEW k \in Consumers, LoneConsumer(k), Inv, Steady(k)
  PROVE  /\ NothingLost /\ SavedIsCommitted /\ NoDuplicateOrders
         /\ EverCommitted => CommittedIsSaved
         /\ [Next]_vars => \A p \in Partitions : committed'[p] >= committed[p]
  <1>1. k \in joined => k \in up
    BY DEF Inv, TypeOK
  <1>2. k \notin joined =>
           /\ Buffered(k) = {}
           /\ \A p \in Partitions : owner[p] = NoOwner
    BY DEF Steady, GroupOfOne, Buffered, LoneConsumer, Inv, TypeOK
  <1>3. NothingLost
    <2>1. \A e \in delivered : e[1] \in Partitions
      BY Numbers DEF Inv, TypeOK
    <2> QED BY <1>1, <1>2, <2>1 DEF NothingLost, Steady, Held, Accounted
  <1>4. SavedIsCommitted
    BY <1>1, <1>2 DEF SavedIsCommitted, Steady, Held, Accounted
  <1>5. NoDuplicateOrders /\ (EverCommitted => CommittedIsSaved)
    BY DEF Steady, Held, Gapless
  <1>6. ASSUME [Next]_vars
        PROVE  \A p \in Partitions : committed'[p] >= committed[p]
    <2>1. \A p \in Partitions : committed[p] \in Int
      BY Numbers
    <2>2. CASE committed' = committed
      BY <2>1, <2>2
    <2>3. CASE Commit(k) \/ CommitReplyLost(k)
      <3>1. /\ committed' = CommitOffsets(k) /\ k \in joined
            /\ stage[k] = "committing" /\ UNCHANGED <<next, rows>>
        BY <2>3 DEF Commit, CommitReplyLost
      <3>2. \A p \in Partitions : committed[p] <= CommitOffsets(k)[p]
        BY <3>1, CommitsFetched DEF Steady, Held
      <3>3. \A p \in Partitions : CommitOffsets(k)[p] \in Int
        BY OffsetsToCommit DEF Inv, NoOffset
      <3> QED BY <2>1, <3>1, <3>2, <3>3
    <2>4. committed' = committed \/ Commit(k) \/ CommitReplyLost(k)
      BY <1>6 DEF LoneConsumer, Next, Process, Flush, Failure, Finished, vars,
          Produce, Deliver, Save, SaveRejected, CommitFails, Retry, GiveUp,
          SaveFails, SaveReplyLost, Crash, Restart, Rebalance,
          SpontaneousRebalance, NewGeneration, broker
    <2> QED BY <2>2, <2>3, <2>4
  <1> QED BY <1>3, <1>4, <1>5, <1>6

\* With one consumer, whose failures are fewer than a flush has attempts and
\* which no crash hits between the save of a batch and its commit, every event
\* that was handed over is in the table or in the buffer, or comes again,
\* however the batches mix the partitions.
THEOREM NothingLostUnsplit ==
  ASSUME NEW k \in Consumers, LoneConsumer(k), UnsplitFlushes
  PROVE  Spec => []NothingLost
  <1>1. Inv /\ Steady(k) => NothingLost
    BY SteadyKeepsAll
  <1> QED BY <1>1, SteadyInvariance, PTL

\* Such a consumer writes no event twice, also where the table has no unique
\* constraint: an attempt after a lost reply saves entities that have their
\* ids, and what is replayed is what was not saved.
THEOREM NoDuplicateOrdersUnsplit ==
  ASSUME NEW k \in Consumers, LoneConsumer(k), UnsplitFlushes
  PROVE  Spec => []NoDuplicateOrders
  <1>1. Inv /\ Steady(k) => NoDuplicateOrders
    BY SteadyKeepsAll
  <1> QED BY <1>1, SteadyInvariance, PTL

\* What such a consumer saved is committed, or in the batch it is committing.
THEOREM SavedIsCommittedUnsplit ==
  ASSUME NEW k \in Consumers, LoneConsumer(k), UnsplitFlushes
  PROVE  Spec => []SavedIsCommitted
  <1>1. Inv /\ Steady(k) => SavedIsCommitted
    BY SteadyKeepsAll
  <1> QED BY <1>1, SteadyInvariance, PTL

\* Such a consumer never commits an offset below one that it committed: a
\* commit that is repeated after a lost reply carries the same offsets.
THEOREM CommittedNeverBackUnsplit ==
  ASSUME NEW k \in Consumers, LoneConsumer(k), UnsplitFlushes
  PROVE  Spec => CommittedNeverBack
  <1>1. Inv /\ Steady(k) /\ [Next]_vars
          => [\A p \in Partitions : committed'[p] >= committed[p]]_vars
    BY SteadyKeepsAll
  <1> QED BY <1>1, SteadyInvariance, PTL DEF Spec, CommittedNeverBack

\* Such a consumer commits past saved events only, when the group has
\* committed offsets from the start of the topic on.
THEOREM CommittedIsSavedUnsplit ==
  ASSUME NEW k \in Consumers, LoneConsumer(k), UnsplitFlushes, EverCommitted
  PROVE  Spec => []CommittedIsSaved
  <1>1. Inv /\ Steady(k) => CommittedIsSaved
    BY SteadyKeepsAll
  <1> QED BY <1>1, SteadyInvariance, PTL

-----------------------------------------------------------------------------
(* One consumer of one partition, which may crash at any time.  Its batches  *)
(* always cover the same offsets, so a batch that is replayed after a crash  *)
(* is either in the table as a whole or not at all.  With more partitions the*)
(* batches mix them anew and overlap the saved ones.                         *)

Multiples == {BatchSize * n : n \in Nat}

\* The offset of the first event in the buffer, or of the next one.
First(k, t) == next[t] - Len(buffer[k])

SavedUpTo(t, s) == \A o \in Offsets : rows[<<t, o>>] > 0 <=> o < s

\* The batch that is being collected or flushed comes after those that are
\* committed, and is one of the saved ones or the first that is not.
AtBatch(k, t, s) ==
    /\ First(k, t) \in Multiples /\ First(k, t) <= s
    /\ \A i \in 1..Len(buffer[k]) : buffer[k][i] = <<t, First(k, t) + i - 1>>
    /\ \/ committed[t] <= First(k, t)
       \/ stage[k] # "idle" /\ committed[t] = First(k, t) + BatchSize
    /\ stage[k] # "idle" /\ First(k, t) = s => ~inserted[k] /\ EachTryFailed(k)

InLine(k, t, s) ==
    /\ s \in Multiples
    /\ SavedUpTo(t, s)
    /\ committed[t] \in Multiples /\ committed[t] <= s
    /\ k \in joined => AtBatch(k, t, s)

BatchByBatch(k, t) == GroupOfOne(k) /\ \E s \in Multiples : InLine(k, t, s)

\* The boundaries between batches are a batch apart.
LEMMA BatchBoundaries ==
  /\ Multiples \subseteq Nat
  /\ 0 \in Multiples
  /\ \A x \in Multiples : x + BatchSize \in Multiples
  /\ \A x, y \in Multiples : x < y => x + BatchSize <= y
  <1> USE BatchAssumption DEF Multiples
  <1>1. Multiples \subseteq Nat
    <2> SUFFICES ASSUME NEW n \in Nat PROVE BatchSize * n \in Nat
      OBVIOUS
    <2> QED OBVIOUS
  <1>2. 0 \in Multiples
    <2>1. BatchSize * 0 = 0
      OBVIOUS
    <2> QED BY <2>1
  <1>3. ASSUME NEW n \in Nat PROVE BatchSize * n + BatchSize = BatchSize * (n + 1)
    OBVIOUS
  <1>4. ASSUME NEW x \in Multiples PROVE x + BatchSize \in Multiples
    <2>1. PICK n \in Nat : x = BatchSize * n
      OBVIOUS
    <2>2. n + 1 \in Nat /\ x + BatchSize = BatchSize * (n + 1)
      BY <2>1, <1>3
    <2> QED BY <2>2
  <1>5. ASSUME NEW m \in Nat, NEW n \in Nat, BatchSize * m < BatchSize * n
        PROVE  BatchSize * m + BatchSize <= BatchSize * n
    <2>1. m < n
      BY <1>5
    <2>2. BatchSize * n = BatchSize * m + BatchSize * (n - m)
      OBVIOUS
    <2>3. BatchSize * (n - m) >= BatchSize
      BY <2>1
    <2>4. BatchSize * m \in Nat /\ BatchSize * (n - m) \in Nat
      BY <2>1
    <2> QED BY <2>2, <2>3, <2>4
  <1>6. ASSUME NEW x \in Multiples, NEW y \in Multiples, x < y
        PROVE  x + BatchSize <= y
    <2>1. PICK m \in Nat : x = BatchSize * m
      OBVIOUS
    <2>2. PICK n \in Nat : y = BatchSize * n
      OBVIOUS
    <2> QED BY <1>5, <1>6, <2>1, <2>2
  <1> QED BY <1>1, <1>2, <1>4, <1>6

\* A full batch is a run of offsets, and the last of them is committed.
LEMMA BatchOfLine ==
  ASSUME NEW k \in Consumers, NEW t \in Partitions, Partitions = {t}, Inv,
         stage[k] # "idle", NEW s \in Nat, AtBatch(k, t, s)
  PROVE  /\ First(k, t) \in Nat /\ First(k, t) + BatchSize = next[t]
         /\ BatchEvents(k) = Buffered(k)
         /\ \A o \in Offsets : <<t, o>> \in Buffered(k)
                <=> First(k, t) <= o /\ o < First(k, t) + BatchSize
         /\ \A i, j \in 1..Len(buffer[k]) : buffer[k][i] = buffer[k][j] => i = j
         /\ \A e \in Buffered(k) : \E o \in Offsets : e = <<t, o>>
         /\ CommitOffsets(k)[t] = First(k, t) + BatchSize
  <1> DEFINE f == First(k, t)
  <1>1. /\ buffer[k] \in Seq(Positions) /\ Len(buffer[k]) = BatchSize
        /\ next[t] \in 0..MaxEvents
        /\ BatchSize \in Nat \ {0} /\ MaxEvents \in Nat
    BY BatchAssumption, BoundAssumption DEF Inv, TypeOK, BatchFull
  <1>2. f \in Nat /\ f + BatchSize = next[t]
    <2>1. f \in Multiples
      BY DEF AtBatch
    <2>2. f \in Nat
      BY <2>1, BatchBoundaries
    <2>3. f = next[t] - BatchSize
      BY <1>1 DEF First
    <2> QED BY <1>1, <2>2, <2>3
  <1>3. \A i \in 1..BatchSize : buffer[k][i] = <<t, f + i - 1>>
    BY <1>1 DEF AtBatch
  <1>4. BatchEvents(k) = Buffered(k)
    BY <1>1, FullBatch DEF Inv
  <1> HIDE DEF f
  <1>5. Buffered(k) = {<<t, f + i - 1>> : i \in 1..BatchSize}
    <2>1. DOMAIN buffer[k] = 1..BatchSize
      BY <1>1
    <2>2. Buffered(k) = {buffer[k][i] : i \in 1..BatchSize}
      BY <2>1 DEF Buffered
    <2> QED BY <1>3, <2>2
  <1>6. \A o \in Offsets : <<t, o>> \in Buffered(k) <=> f <= o /\ o < f + BatchSize
    <2> SUFFICES ASSUME NEW o \in Offsets
                 PROVE  <<t, o>> \in Buffered(k) <=> f <= o /\ o < f + BatchSize
      OBVIOUS
    <2>1. o \in Nat
      BY <1>1 DEF Offsets
    <2>2. <<t, o>> \in Buffered(k) => f <= o /\ o < f + BatchSize
      BY <1>1, <1>2, <1>5, <2>1
    <2>3. ASSUME f <= o, o < f + BatchSize PROVE <<t, o>> \in Buffered(k)
      <3>1. o - f + 1 \in 1..BatchSize /\ f + (o - f + 1) - 1 = o
        BY <1>1, <1>2, <2>1, <2>3
      <3> QED BY <1>5, <3>1
    <2> QED BY <2>2, <2>3
  <1>7. \A i, j \in 1..Len(buffer[k]) : buffer[k][i] = buffer[k][j] => i = j
    BY <1>1, <1>2, <1>3
  <1>8. \A e \in Buffered(k) : \E o \in Offsets : e = <<t, o>>
    BY <1>1, <1>2, <1>5 DEF Offsets
  <1>9. OffsetsIn(k, t) = {o \in Offsets : f <= o /\ o < f + BatchSize}
    BY <1>4, <1>6 DEF OffsetsIn
  <1>10. LastIn(k, t) = f + BatchSize - 1 /\ OffsetsIn(k, t) # {}
    <2>1. f + BatchSize - 1 \in OffsetsIn(k, t)
      BY <1>1, <1>2, <1>9 DEF Offsets
    <2>2. \A x \in OffsetsIn(k, t) : x \in Nat /\ x <= f + BatchSize - 1
      BY <1>1, <1>2, <1>9 DEF Offsets
    <2> QED BY <1>1, <1>2, <2>1, <2>2 DEF LastIn
  <1>11. CommitOffsets(k)[t] = f + BatchSize
    BY <1>1, <1>2, <1>10 DEF CommitOffsets
  <1> QED BY <1>2, <1>4, <1>6, <1>7, <1>8, <1>11 DEF f

\* The first batch that is not saved is taken by the table.
LEMMA NewBatchInsertable ==
  ASSUME NEW k \in Consumers, NEW t \in Partitions, Partitions = {t}, Inv,
         stage[k] # "idle", NEW s \in Nat, AtBatch(k, t, s), SavedUpTo(t, s),
         First(k, t) = s
  PROVE  Insertable(k)
  <1>1. \A e \in Buffered(k) : rows[e] = 0
    <2> SUFFICES ASSUME NEW o \in Offsets, <<t, o>> \in Buffered(k)
                 PROVE  rows[<<t, o>>] = 0
      BY BatchOfLine
    <2>1. o \in Nat /\ s <= o
      BY BatchOfLine, BoundAssumption DEF Offsets
    <2>2. ~(rows[<<t, o>>] > 0)
      BY <2>1 DEF SavedUpTo
    <2>3. rows[<<t, o>>] \in Nat
      BY DEF Inv, TypeOK, Positions
    <2> QED BY <2>2, <2>3
  <1>2. \A i, j \in 1..Len(buffer[k]) : buffer[k][i] = buffer[k][j] => i = j
    BY BatchOfLine
  <1> QED BY <1>1, <1>2, FreshInsertable

\* An event of the line joins the batch that is being collected.
LEMMA DeliverInLine ==
  ASSUME NEW k \in Consumers, NEW t \in Partitions, Partitions = {t}, Inv,
         GroupOfOne(k), NEW s \in Multiples, InLine(k, t, s), Deliver(k, t)
  PROVE  InLine(k, t, s)'
  <1>1. k \in joined /\ stage[k] = "idle"
    BY DEF Deliver, GroupOfOne
  <1>2. /\ buffer[k] \in Seq(Positions) /\ Len(buffer[k]) \in Nat
        /\ next[t] \in Nat
    BY BoundAssumption DEF Inv, TypeOK
  <1>3. /\ buffer'[k] = Append(buffer[k], <<t, next[t]>>)
        /\ next'[t] = next[t] + 1
        /\ UNCHANGED <<rows, joined, committed, faults>>
        /\ \/ stage'[k] = "idle"
           \/ stage'[k] = "saving" /\ attempt'[k] = 1 /\ inserted'[k] = FALSE
    BY <1>1 DEF Deliver, Enter, Inv, TypeOK
  <1>4. /\ Len(buffer'[k]) = Len(buffer[k]) + 1
        /\ \A i \in 1..Len(buffer[k]) : buffer'[k][i] = buffer[k][i]
        /\ buffer'[k][Len(buffer[k]) + 1] = <<t, next[t]>>
    BY <1>2, <1>3
  <1>5. First(k, t)' = First(k, t)
    <2>1. next'[t] = next[t] + 1 /\ Len(buffer'[k]) = Len(buffer[k]) + 1
      BY <1>3, <1>4
    <2> QED BY <1>2, <2>1 DEF First
  <1>6. AtBatch(k, t, s)
    BY <1>1 DEF InLine
  <1>7. \A i \in 1..Len(buffer'[k]) : buffer'[k][i] = <<t, First(k, t) + i - 1>>
    <2> SUFFICES ASSUME NEW i \in 1..Len(buffer'[k])
                 PROVE  buffer'[k][i] = <<t, First(k, t) + i - 1>>
      OBVIOUS
    <2>1. CASE i <= Len(buffer[k])
      BY <1>2, <1>4, <1>6, <2>1 DEF AtBatch
    <2>2. CASE i = Len(buffer[k]) + 1
      <3>1. First(k, t) + i - 1 = next[t]
        BY <1>2, <2>2 DEF First
      <3> QED BY <1>4, <2>2, <3>1
    <2> QED BY <1>2, <1>4, <2>1, <2>2
  <1>8. stage'[k] # "idle" => ~inserted'[k] /\ EachTryFailed(k)'
    BY <1>3, BoundAssumption DEF EachTryFailed, Inv, TypeOK
  <1>9. committed[t] <= First(k, t)
    BY <1>1, <1>6 DEF AtBatch
  <1>10. AtBatch(k, t, s)'
    BY <1>3, <1>5, <1>6, <1>7, <1>8, <1>9 DEF AtBatch
  <1> QED BY <1>3, <1>10 DEF InLine, SavedUpTo

\* The batch is saved: a new one moves the end of the table by a batch, an old
\* one that is taken moves nothing.
LEMMA SaveInLine ==
  ASSUME NEW k \in Consumers, NEW t \in Partitions, Partitions = {t}, Inv,
         GroupOfOne(k), NEW s \in Multiples, InLine(k, t, s),
         Save(k) \/ SaveReplyLost(k)
  PROVE  \E z \in Multiples : InLine(k, t, z)'
  <1>1. /\ stage[k] = "saving" /\ Insertable(k)
        /\ rows' = RowsAfterSave(k)
        /\ inserted' = [inserted EXCEPT ![k] = TRUE]
        /\ Enter(k, "committing") \/ Enter(k, "waiting")
        /\ UNCHANGED <<log, committed, owner, next, joined, up, buffer, attempt,
                       delivered>>
    BY DEF Save, SaveReplyLost, broker
  <1> DEFINE f == First(k, t)
  <1>2. k \in joined /\ AtBatch(k, t, s)
    BY <1>1 DEF GroupOfOne, InLine
  <1>3. s \in Nat /\ BatchSize \in Nat \ {0}
    BY BatchBoundaries, BatchAssumption
  <1>4. /\ f \in Nat /\ f \in Multiples /\ f <= s
        /\ BatchEvents(k) = Buffered(k)
        /\ \A o \in Offsets : <<t, o>> \in Buffered(k)
               <=> f <= o /\ o < f + BatchSize
    BY <1>1, <1>2, <1>3, BatchOfLine DEF AtBatch
  <1>5. f' = f /\ stage'[k] # "idle"
    BY <1>1 DEF First, Enter, Inv, TypeOK
  <1>6. /\ committed[t] \in Int
        /\ \/ committed[t] <= f
           \/ stage'[k] # "idle" /\ committed[t] = f + BatchSize
    BY <1>2, <1>5 DEF AtBatch, Inv, TypeOK, NoOffset
  <1>7. \A o \in Offsets : <<t, o>> \in Positions /\ o \in Nat
                           /\ rows[<<t, o>>] \in Nat
    <2>1. \A o \in Offsets : <<t, o>> \in Positions /\ o \in Nat
      BY BoundAssumption DEF Offsets, Positions
    <2>2. \A e \in Positions : rows[e] \in Nat
      BY DEF Inv, TypeOK
    <2> QED BY <2>1, <2>2
  <1>8. ASSUME NEW z \in Multiples, f < z, s <= z, SavedUpTo(t, z)'
        PROVE  InLine(k, t, z)'
    <2>1. z \in Nat /\ committed[t] <= z
      <3>1. z \in Nat
        BY BatchBoundaries
      <3>2. committed[t] <= s
        BY DEF InLine
      <3> QED BY <1>3, <1>6, <1>8, <3>1, <3>2
    <2>2. AtBatch(k, t, z)'
      BY <1>1, <1>2, <1>3, <1>4, <1>5, <1>6, <1>8, <2>1 DEF AtBatch
    <2> QED BY <1>1, <1>8, <2>1, <2>2 DEF InLine
  <1> HIDE DEF f
  <1>9. ASSUME NEW o \in Offsets
        PROVE  rows'[<<t, o>>] > 0
                  <=> (f <= o /\ o < f + BatchSize) \/ rows[<<t, o>>] > 0
    <2>1. CASE <<t, o>> \in Buffered(k)
      BY <1>1, <1>4, <2>1, RowsSaved
    <2>2. CASE <<t, o>> \notin Buffered(k)
      BY <1>1, <1>4, <1>7, <2>2, RowsSaved
    <2> QED BY <2>1, <2>2
  <1>10. \A o \in Offsets : rows[<<t, o>>] > 0 <=> o < s
    BY DEF InLine, SavedUpTo
  <1>11. CASE f = s
    <2>1. PICK z \in Multiples : z = f + BatchSize
      BY <1>4, BatchBoundaries
    <2>2. \A o \in Offsets : rows'[<<t, o>>] > 0 <=> o < z
      BY <1>3, <1>4, <1>7, <1>9, <1>10, <1>11, <2>1
    <2>3. SavedUpTo(t, z)'
      BY <2>2 DEF SavedUpTo
    <2> QED BY <1>3, <1>4, <1>8, <1>11, <2>1, <2>3
  <1>12. CASE f < s
    <2>1. f + BatchSize <= s
      BY <1>4, <1>12, BatchBoundaries
    <2>2. \A o \in Offsets : rows'[<<t, o>>] > 0 <=> o < s
      BY <1>3, <1>4, <1>7, <1>9, <1>10, <2>1
    <2>3. SavedUpTo(t, s)'
      BY <2>2 DEF SavedUpTo
    <2> QED BY <1>3, <1>8, <1>12, <2>3
  <1> QED BY <1>3, <1>4, <1>11, <1>12

\* A flush meets a failure, goes on after one, or has committed unawares.
LEMMA BusyInLine ==
  ASSUME NEW k \in Consumers, NEW t \in Partitions, Partitions = {t}, Inv,
         GroupOfOne(k), NEW s \in Multiples, InLine(k, t, s),
         \/ SaveRejected(k) \/ SaveFails(k)
         \/ CommitFails(k) \/ CommitReplyLost(k) \/ Retry(k)
  PROVE  InLine(k, t, s)'
  <1>1. /\ stage[k] # "idle" /\ stage'[k] # "idle"
        /\ UNCHANGED <<next, joined, rows, buffer, inserted, delivered>>
    BY DEF SaveRejected, SaveFails, CommitFails, CommitReplyLost, Retry, Enter,
           AfterError, broker, Inv, TypeOK
  <1>2. k \in joined /\ AtBatch(k, t, s) /\ s \in Nat /\ BatchSize \in Nat
    BY <1>1, BatchBoundaries, BatchAssumption DEF GroupOfOne, InLine
  <1>3. First(k, t)' = First(k, t) /\ First(k, t) \in Nat
    BY <1>1, <1>2, BatchOfLine DEF First
  <1>4. CASE First(k, t) = s
    <2>1. ~inserted[k] /\ EachTryFailed(k)
      BY <1>1, <1>2, <1>4 DEF AtBatch
    <2>2. ~SaveRejected(k)
      BY <1>1, <1>2, <1>4, NewBatchInsertable DEF SaveRejected, InLine
    <2>3. stage[k] # "committing"
      BY <2>1 DEF Inv, IdsAreRows
    <2>4. attempt[k] \in Int /\ faults \in Int
      BY DEF Inv, TypeOK
    <2>5. EachTryFailed(k)' /\ committed' = committed
      <3>1. CASE SaveFails(k)
        BY <2>1, <2>4, <3>1
        DEF SaveFails, Fault, Enter, AfterError, EachTryFailed, Inv, TypeOK,
            broker
      <3>2. CASE Retry(k)
        BY <2>1, <2>4, <3>2
        DEF Retry, NextAttempt, Enter, EachTryFailed, Inv, TypeOK, broker
      <3> QED BY <2>2, <2>3, <3>1, <3>2 DEF CommitFails, CommitReplyLost
    <2>6. AtBatch(k, t, s)'
      BY <1>1, <1>2, <1>3, <2>1, <2>5 DEF AtBatch
    <2> QED BY <1>1, <2>5, <2>6 DEF InLine, SavedUpTo
  <1>5. CASE First(k, t) < s
    <2>1. \/ committed' = committed
          \/ committed'[t] = First(k, t) + BatchSize
      <3>1. committed' = committed \/ committed' = CommitOffsets(k)
        BY DEF SaveRejected, SaveFails, CommitFails, CommitReplyLost, Retry,
               broker
      <3> QED BY <1>1, <1>2, <3>1, BatchOfLine
    <2>2. /\ First(k, t) + BatchSize \in Multiples
          /\ First(k, t) + BatchSize <= s
      BY <1>2, <1>5, BatchBoundaries DEF AtBatch
    <2>3. committed'[t] \in Multiples /\ committed'[t] <= s
      BY <2>1, <2>2 DEF InLine
    <2>4. AtBatch(k, t, s)'
      BY <1>1, <1>2, <1>3, <1>5, <2>1 DEF AtBatch
    <2> QED BY <1>1, <2>3, <2>4 DEF InLine, SavedUpTo
  <1> QED BY <1>2, <1>3, <1>4, <1>5 DEF AtBatch

\* The batch leaves the buffer, and is one of the saved ones: the attempts do
\* not run out on a new one, and none is committed before it is saved.
LEMMA DoneInLine ==
  ASSUME NEW k \in Consumers, NEW t \in Partitions, Partitions = {t}, Inv,
         LoneConsumer(k), GroupOfOne(k), NEW s \in Multiples, InLine(k, t, s),
         Commit(k) \/ GiveUp(k)
  PROVE  InLine(k, t, s)'
  <1>1. /\ stage[k] # "idle"
        /\ Enter(k, "idle")
        /\ buffer' = [buffer EXCEPT ![k] = Spliced(k)]
        /\ UNCHANGED <<next, joined, rows, inserted, delivered>>
        /\ committed' = committed \/ committed' = CommitOffsets(k)
    BY DEF Commit, GiveUp, broker
  <1>2. k \in joined /\ AtBatch(k, t, s) /\ s \in Nat /\ BatchSize \in Nat
    BY <1>1, BatchBoundaries, BatchAssumption DEF GroupOfOne, InLine
  <1>3. /\ First(k, t) \in Nat /\ First(k, t) + BatchSize = next[t]
        /\ CommitOffsets(k)[t] = First(k, t) + BatchSize
    BY <1>1, <1>2, BatchOfLine
  <1>4. First(k, t) # s
    <2> SUFFICES ASSUME First(k, t) = s PROVE FALSE
      OBVIOUS
    <2>1. EachTryFailed(k) /\ ~inserted[k]
      BY <1>1, <1>2 DEF AtBatch
    <2>2. stage[k] = "waiting" /\ attempt[k] = MaxRetries
      BY <2>1 DEF Commit, GiveUp, OutOfAttempts, Inv, IdsAreRows
    <2>3. ~(attempt[k] <= faults)
      BY <2>2, BatchAssumption, BoundAssumption DEF Inv, TypeOK, LoneConsumer
    <2> QED BY <2>1, <2>2, <2>3 DEF EachTryFailed
  <1>5. First(k, t) + BatchSize \in Multiples /\ First(k, t) + BatchSize <= s
    <2>1. First(k, t) \in Multiples /\ First(k, t) < s
      BY <1>2, <1>3, <1>4 DEF AtBatch
    <2> QED BY <2>1, BatchBoundaries
  <1>6. buffer'[k] = <<>> /\ stage'[k] = "idle"
    <2>1. Spliced(k) = <<>>
      BY <1>1, FullBatch DEF Inv, BatchFull
    <2> QED BY <1>1, <2>1 DEF Enter, Inv, TypeOK
  <1>7. First(k, t)' = First(k, t) + BatchSize
    <2>1. First(k, t)' = next'[t] - 0
      BY <1>6 DEF First
    <2> QED BY <1>1, <1>2, <1>3, <2>1
  <1>8. /\ committed'[t] \in Multiples /\ committed'[t] <= s
        /\ committed'[t] <= First(k, t) + BatchSize
    <2>1. CASE committed' = committed
      <3>1. committed[t] \in Nat
        BY BatchBoundaries DEF InLine
      <3> QED BY <1>2, <1>3, <2>1, <3>1 DEF AtBatch, InLine
    <2>2. CASE committed' = CommitOffsets(k)
      BY <1>2, <1>3, <1>5, <2>2
    <2> QED BY <1>1, <2>1, <2>2
  <1>9. AtBatch(k, t, s)'
    BY <1>5, <1>6, <1>7, <1>8 DEF AtBatch
  <1> QED BY <1>1, <1>8, <1>9 DEF InLine, SavedUpTo

\* A crash empties the buffer, and the group that a restarted consumer forms
\* goes on from the committed offset; whatever happens elsewhere changes
\* nothing.
LEMMA ElsewhereInLine ==
  ASSUME NEW k \in Consumers, NEW t \in Partitions, Partitions = {t}, Inv,
         LoneConsumer(k), GroupOfOne(k), NEW s \in Multiples, InLine(k, t, s),
         \/ Produce(t) \/ Crash(k) \/ Restart(k)
         \/ Rebalance \/ SpontaneousRebalance \/ UNCHANGED vars
  PROVE  InLine(k, t, s)'
  <1>1. UNCHANGED <<committed, rows>>
    BY DEF Produce, Crash, Restart, Rebalance, SpontaneousRebalance,
           NewGeneration, vars, broker
  <1>2. ASSUME k \in joined' => AtBatch(k, t, s)' PROVE InLine(k, t, s)'
    BY <1>1, <1>2 DEF InLine, SavedUpTo
  <1>3. CASE Rebalance \/ SpontaneousRebalance
    <2>1. /\ stage'[k] = "idle" /\ buffer'[k] = <<>>
          /\ next'[t] = FetchPosition(t)
      BY <1>3, RebalanceOfOne
    <2>2. committed[t] \in Nat /\ committed[t] \in Multiples
      BY BatchBoundaries DEF InLine
    <2>3. next'[t] = committed[t]
      BY <2>1, <2>2 DEF FetchPosition, NoOffset
    <2>4. First(k, t)' = committed'[t]
      <3>1. First(k, t)' = next'[t] - 0
        BY <2>1 DEF First
      <3> QED BY <1>1, <2>2, <2>3, <3>1
    <2>5. AtBatch(k, t, s)'
      BY <1>1, <2>1, <2>2, <2>4 DEF AtBatch, InLine
    <2> QED BY <1>2, <2>5
  <1>4. CASE Crash(k)
    <2>1. k \notin joined'
      BY <1>4 DEF Crash
    <2> QED BY <1>2, <2>1
  <1>5. CASE Produce(t) \/ Restart(k) \/ UNCHANGED vars
    <2>1. UNCHANGED <<next, joined, buffer, stage, attempt, inserted, faults>>
      BY <1>5 DEF Produce, Restart, vars, broker, process
    <2>2. AtBatch(k, t, s)' = AtBatch(k, t, s)
      BY <1>1, <2>1 DEF AtBatch, First, EachTryFailed
    <2> QED BY <1>2, <2>1, <2>2 DEF InLine
  <1> QED BY <1>3, <1>4, <1>5

\* BatchByBatch is inductive.
LEMMA BatchByBatchStep ==
  ASSUME NEW k \in Consumers, NEW t \in Partitions, Partitions = {t},
         LoneConsumer(k), Inv, BatchByBatch(k, t), [Next]_vars
  PROVE  BatchByBatch(k, t)'
  <1>1. GroupOfOne(k)'
    BY GroupOfOneStep DEF BatchByBatch
  <1>2. PICK s \in Multiples : InLine(k, t, s)
    BY DEF BatchByBatch
  <1>3. GroupOfOne(k) /\ \A c \in Consumers : c = k
    BY DEF BatchByBatch, LoneConsumer
  <1>4. CASE \E p \in Partitions : Deliver(k, p)
    BY <1>1, <1>2, <1>3, <1>4, DeliverInLine DEF BatchByBatch, Multiples
  <1>5. CASE Save(k) \/ SaveReplyLost(k)
    BY <1>1, <1>2, <1>3, <1>5, SaveInLine DEF BatchByBatch, Multiples
  <1>6. CASE \/ SaveRejected(k) \/ SaveFails(k)
             \/ CommitFails(k) \/ CommitReplyLost(k) \/ Retry(k)
    BY <1>1, <1>2, <1>3, <1>6, BusyInLine DEF BatchByBatch, Multiples
  <1>7. CASE Commit(k) \/ GiveUp(k)
    BY <1>1, <1>2, <1>3, <1>7, DoneInLine DEF BatchByBatch, Multiples
  <1>8. CASE \/ Produce(t) \/ Crash(k) \/ Restart(k)
             \/ Rebalance \/ SpontaneousRebalance \/ UNCHANGED vars
    BY <1>1, <1>2, <1>3, <1>8, ElsewhereInLine DEF BatchByBatch, Multiples
  <1> QED
    BY <1>3, <1>4, <1>5, <1>6, <1>7, <1>8
    DEF Next, Process, Flush, Failure, Finished

\* At first nothing is saved, and the committed offset is the first one.
LEMMA InitBatchByBatch ==
  ASSUME NEW k \in Consumers, NEW t \in Partitions, EverCommitted, Init
  PROVE  BatchByBatch(k, t)
  <1>1. 0 \in Multiples
    BY BatchBoundaries
  <1>2. k \notin joined /\ committed[t] = 0
    BY DEF Init
  <1>3. GroupOfOne(k)
    BY SetsAssumption DEF Init, GroupOfOne
  <1>4. SavedUpTo(t, 0)
    BY BoundAssumption DEF Init, SavedUpTo, Positions, Offsets
  <1> QED BY <1>1, <1>2, <1>3, <1>4 DEF BatchByBatch, InLine

\* Every behaviour of one consumer of one partition goes batch by batch.
LEMMA BatchByBatchInvariance ==
  ASSUME NEW k \in Consumers, NEW t \in Partitions, Partitions = {t},
         LoneConsumer(k), EverCommitted
  PROVE  Spec => [](Inv /\ BatchByBatch(k, t))
  <1>1. Init => BatchByBatch(k, t)
    BY InitBatchByBatch
  <1>2. Inv /\ BatchByBatch(k, t) /\ [Next]_vars => BatchByBatch(k, t)'
    BY BatchByBatchStep
  <1> QED BY <1>1, <1>2, Invariance, PTL DEF Spec

\* What the table, the buffer and the fetch position hold of one line.
LEMMA LineKeepsAll ==
  ASSUME NEW k \in Consumers, NEW t \in Partitions, Partitions = {t},
         LoneConsumer(k), Inv, BatchByBatch(k, t)
  PROVE  /\ NothingLost
         /\ CommittedIsSaved
         /\ [Next]_vars => \A p \in Partitions : committed'[p] >= committed[p]
  <1>1. PICK s \in Multiples : InLine(k, t, s)
    BY DEF BatchByBatch
  <1>2. /\ s \in Nat /\ committed[t] \in Nat /\ committed[t] <= s
        /\ BatchSize \in Nat
    BY <1>1, BatchBoundaries, BatchAssumption DEF InLine
  <1>3. \A o \in Offsets : o \in Nat
    BY BoundAssumption DEF Offsets
  <1>4. NothingLost
    <2> SUFFICES ASSUME NEW o \in Offsets, ~(rows[<<t, o>>] > 0),
                        owner[t] # NoOwner, next[t] > o
                 PROVE  \E c \in up : <<t, o>> \in Buffered(c)
      <3>1. \A e \in delivered : \E o \in Offsets : e = <<t, o>>
        BY DEF Inv, TypeOK, Positions
      <3>2. \A o \in Offsets : <<t, o>>[1] = t /\ <<t, o>>[2] = o
        OBVIOUS
      <3>3. next[t] \in Nat
        BY BoundAssumption DEF Inv, TypeOK
      <3>4. ASSUME NEW o \in Offsets
            PROVE  \/ rows[<<t, o>>] > 0
                   \/ \E c \in up : <<t, o>> \in Buffered(c)
                   \/ owner[t] = NoOwner
                   \/ next[t] <= o
        BY <1>3, <3>3
      <3> QED BY <3>1, <3>2, <3>4 DEF NothingLost
    <2>1. k \in joined /\ k \in up
      BY DEF BatchByBatch, GroupOfOne, LoneConsumer, Inv, TypeOK
    <2>2. AtBatch(k, t, s)
      BY <1>1, <2>1 DEF InLine
    <2>3. First(k, t) \in Nat /\ First(k, t) <= o
      <3>1. First(k, t) \in Multiples /\ First(k, t) <= s
        BY <2>2 DEF AtBatch
      <3>2. First(k, t) \in Nat
        BY <3>1, BatchBoundaries
      <3>3. s <= o
        BY <1>1, <1>2, <1>3 DEF InLine, SavedUpTo
      <3> QED BY <1>2, <1>3, <3>1, <3>2, <3>3
    <2>4. /\ buffer[k] \in Seq(Positions) /\ Len(buffer[k]) \in Nat
          /\ next[t] \in Nat /\ next[t] = First(k, t) + Len(buffer[k])
      BY BoundAssumption DEF Inv, TypeOK, First
    <2> DEFINE i == o - First(k, t) + 1
    <2>5. i \in 1..Len(buffer[k]) /\ First(k, t) + i - 1 = o
      BY <1>3, <2>3, <2>4
    <2>6. buffer[k][i] = <<t, o>>
      BY <2>2, <2>5 DEF AtBatch
    <2>7. <<t, o>> \in Buffered(k)
      BY <2>4, <2>5, <2>6 DEF Buffered
    <2> QED BY <2>1, <2>7
  <1>5. CommittedIsSaved
    <2> SUFFICES ASSUME NEW o \in Offsets, o < committed[t]
                 PROVE  rows[<<t, o>>] > 0
      BY DEF CommittedIsSaved
    <2>1. o < s
      BY <1>2, <1>3
    <2> QED BY <1>1, <2>1 DEF InLine, SavedUpTo
  <1>6. ASSUME [Next]_vars
        PROVE  \A p \in Partitions : committed'[p] >= committed[p]
    <2>1. CASE committed' = committed
      BY <1>2, <2>1
    <2>2. CASE Commit(k) \/ CommitReplyLost(k)
      <3>1. /\ committed' = CommitOffsets(k) /\ stage[k] # "idle"
            /\ k \in joined
        BY <2>2 DEF Commit, CommitReplyLost
      <3>2. AtBatch(k, t, s)
        BY <1>1, <3>1 DEF InLine
      <3>3. /\ First(k, t) \in Nat
            /\ CommitOffsets(k)[t] = First(k, t) + BatchSize
        BY <1>2, <3>1, <3>2, BatchOfLine
      <3>4. committed[t] <= First(k, t) \/ committed[t] = First(k, t) + BatchSize
        BY <3>2 DEF AtBatch
      <3> QED BY <1>2, <3>1, <3>3, <3>4
    <2>3. committed' = committed \/ Commit(k) \/ CommitReplyLost(k)
      BY <1>6 DEF LoneConsumer, Next, Process, Flush, Failure, Finished, vars,
          Produce, Deliver, Save, SaveRejected, CommitFails, Retry, GiveUp,
          SaveFails, SaveReplyLost, Crash, Restart, Rebalance,
          SpontaneousRebalance, NewGeneration, broker
    <2> QED BY <2>1, <2>2, <2>3
  <1> QED BY <1>4, <1>5, <1>6

\* With one consumer of one partition whose offsets are committed from the
\* start, and fewer failures than a flush has attempts, crashes between any
\* two awaits of flushBuffer among them, every event that was handed over is
\* in the table, in the buffer, or fetched again.
THEOREM NothingLostOnePartition ==
  ASSUME NEW k \in Consumers, NEW t \in Partitions, Partitions = {t},
         LoneConsumer(k), EverCommitted
  PROVE  Spec => []NothingLost
  <1>1. Inv /\ BatchByBatch(k, t) => NothingLost
    BY LineKeepsAll
  <1> QED BY <1>1, BatchByBatchInvariance, PTL

\* Such a consumer commits past saved events only, whatever it replays.
THEOREM CommittedIsSavedOnePartition ==
  ASSUME NEW k \in Consumers, NEW t \in Partitions, Partitions = {t},
         LoneConsumer(k), EverCommitted
  PROVE  Spec => []CommittedIsSaved
  <1>1. Inv /\ BatchByBatch(k, t) => CommittedIsSaved
    BY LineKeepsAll
  <1> QED BY <1>1, BatchByBatchInvariance, PTL

\* Such a consumer never takes a commit back: what it flushes again after a
\* crash comes after what is committed.
THEOREM CommittedNeverBackOnePartition ==
  ASSUME NEW k \in Consumers, NEW t \in Partitions, Partitions = {t},
         LoneConsumer(k), EverCommitted
  PROVE  Spec => CommittedNeverBack
  <1>1. Inv /\ BatchByBatch(k, t) /\ [Next]_vars
          => [\A p \in Partitions : committed'[p] >= committed[p]]_vars
    BY LineKeepsAll
  <1> QED BY <1>1, BatchByBatchInvariance, PTL DEF Spec, CommittedNeverBack

-----------------------------------------------------------------------------
(* Any consumers and any failures: nothing is made of events that are not in *)
(* the topic.                                                                *)

PublishedOnly ==
    /\ \A p \in Partitions : next[p] <= log[p] /\ committed[p] <= log[p]
    /\ \A c \in Consumers : \A e \in Buffered(c) : e[2] < log[e[1]]
    /\ \A e \in Positions : rows[e] > 0 => e[2] < log[e[1]]

\* The offsets to commit are those after events of the batch.
LEMMA CommitsPublished ==
  ASSUME Inv, PublishedOnly, NEW c \in Consumers, stage[c] # "idle",
         NEW p \in Partitions
  PROVE  CommitOffsets(c)[p] <= log[p]
  <1>1. BatchEvents(c) = Buffered(c)
    BY FullBatch DEF Inv, BatchFull
  <1>2. CASE OffsetsIn(c, p) = {}
    BY <1>2 DEF CommitOffsets, PublishedOnly
  <1>3. CASE OffsetsIn(c, p) # {}
    <2>1. OffsetsIn(c, p) \subseteq 0..MaxEvents
      BY BoundAssumption DEF OffsetsIn, Offsets
    <2>2. \E m \in OffsetsIn(c, p) : \A x \in OffsetsIn(c, p) : x <= m
      BY <1>3, <2>1, BoundAssumption, Largest
    <2>3. LastIn(c, p) \in OffsetsIn(c, p)
      BY <2>2 DEF LastIn
    <2> DEFINE e == <<p, LastIn(c, p)>>
    <2>4. e \in Buffered(c) /\ e[1] = p /\ e[2] = LastIn(c, p)
      BY <1>1, <2>3 DEF OffsetsIn
    <2>5. LastIn(c, p) < log[p]
      BY <2>4 DEF PublishedOnly
    <2>6. LastIn(c, p) \in Int /\ log[p] \in Int
      BY <2>1, <2>3 DEF Inv, TypeOK
    <2> QED BY <1>3, <2>5, <2>6 DEF CommitOffsets
  <1> QED BY <1>2, <1>3

\* PublishedOnly is inductive.
LEMMA PublishedOnlyStep ==
  ASSUME Inv, PublishedOnly, [Next]_vars
  PROVE  PublishedOnly'
  <1> USE DEF broker, process
  <1>0. /\ \A p \in Partitions : /\ log[p] \in Int /\ next[p] \in Int
                                 /\ committed[p] \in Int
        /\ \A e \in Positions : e[1] \in Partitions /\ e[2] \in Int
    BY BoundAssumption DEF Inv, TypeOK, NoOffset, Positions, Offsets
  <1>1. ASSUME NEW p \in Partitions, Produce(p) PROVE PublishedOnly'
    <2>1. /\ UNCHANGED <<next, committed, buffer, rows>>
          /\ \A q \in Partitions : log[q] <= log'[q] /\ log'[q] \in Int
      BY <1>0, <1>1 DEF Produce, Inv, TypeOK
    <2>2. \A q \in Partitions : next'[q] <= log'[q] /\ committed'[q] <= log'[q]
      BY <1>0, <2>1 DEF PublishedOnly
    <2>3. \A e \in Positions : e[2] < log[e[1]] => e[2] < log'[e[1]]
      BY <1>0, <2>1
    <2>4. \A c \in Consumers : \A e \in Buffered(c) : e \in Positions
      BY DEF Inv, TypeOK, Buffered
    <2>5. \A c \in Consumers : Buffered(c)' = Buffered(c)
      BY <2>1 DEF Buffered
    <2> QED BY <2>1, <2>2, <2>3, <2>4, <2>5 DEF PublishedOnly
  <1>2. ASSUME NEW c \in Consumers, NEW p \in Partitions, Deliver(c, p)
        PROVE  PublishedOnly'
    <2> DEFINE e == <<p, next[p]>>
    <2>1. /\ UNCHANGED <<log, committed, rows>>
          /\ next[p] < log[p]
          /\ next' = [next EXCEPT ![p] = next[p] + 1]
          /\ buffer' = [buffer EXCEPT ![c] = Append(buffer[c], e)]
      BY <1>2 DEF Deliver
    <2>2. \A q \in Partitions : next'[q] <= log[q]
      BY <1>0, <2>1 DEF PublishedOnly, Inv, TypeOK
    <2>3. e[1] = p /\ e[2] = next[p]
      OBVIOUS
    <2> HIDE DEF e
    <2>4. ASSUME NEW d \in Consumers, NEW x \in Buffered(d)'
          PROVE  x \in Buffered(d) \/ x = e
      <3>1. buffer[d] \in Seq(Positions) /\ buffer[c] \in Seq(Positions)
        BY DEF Inv, TypeOK
      <3>2. \/ buffer'[d] = buffer[d]
            \/ buffer'[d] = Append(buffer[d], e)
        BY <2>1 DEF Inv, TypeOK
      <3>3. PICK i \in DOMAIN buffer'[d] : x = buffer'[d][i]
        BY <2>4 DEF Buffered
      <3> QED BY <3>1, <3>2, <3>3 DEF Buffered
    <2>5. \A d \in Consumers : \A x \in Buffered(d)' : x[2] < log[x[1]]
      BY <2>1, <2>3, <2>4 DEF PublishedOnly
    <2> QED BY <2>1, <2>2, <2>5 DEF PublishedOnly
  <1>3. ASSUME NEW c \in Consumers, Save(c) \/ SaveReplyLost(c)
        PROVE  PublishedOnly'
    <2>1. /\ stage[c] = "saving" /\ rows' = RowsAfterSave(c)
          /\ UNCHANGED <<log, next, committed, buffer>>
      BY <1>3 DEF Save, SaveReplyLost
    <2>2. ASSUME NEW e \in Positions, rows'[e] > 0 PROVE e[2] < log[e[1]]
      <3>1. CASE e \in Buffered(c)
        BY <3>1 DEF PublishedOnly
      <3>2. CASE e \notin Buffered(c)
        <4>1. rows'[e] = rows[e]
          BY <2>1, <3>2, RowsSaved
        <4> QED BY <2>2, <4>1 DEF PublishedOnly
      <3> QED BY <3>1, <3>2
    <2>3. \A d \in Consumers : Buffered(d)' = Buffered(d)
      BY <2>1 DEF Buffered
    <2> QED BY <2>1, <2>2, <2>3 DEF PublishedOnly
  <1>4. ASSUME NEW c \in Consumers,
               \/ SaveRejected(c) \/ SaveFails(c)
               \/ CommitFails(c) \/ CommitReplyLost(c) \/ Retry(c)
               \/ Commit(c) \/ GiveUp(c) \/ Crash(c) \/ Restart(c)
        PROVE  PublishedOnly'
    <2>1. UNCHANGED <<log, next, rows>>
      BY <1>4
      DEF SaveRejected, SaveFails, CommitFails, CommitReplyLost, Retry, Commit,
          GiveUp, Crash, Restart
    <2>2. \A p \in Partitions : committed'[p] <= log[p]
      <3>1. \/ committed' = committed
            \/ stage[c] # "idle" /\ committed' = CommitOffsets(c)
        BY <1>4
        DEF SaveRejected, SaveFails, CommitFails, CommitReplyLost, Retry,
            Commit, GiveUp, Crash, Restart
      <3> QED BY <3>1, CommitsPublished DEF PublishedOnly
    <2>3. \A d \in Consumers : Buffered(d)' \subseteq Buffered(d)
      <3>1. buffer' = buffer \/ buffer' = [buffer EXCEPT ![c] = <<>>]
        <4>1. CASE Commit(c) \/ GiveUp(c)
          <5>1. Spliced(c) = <<>>
            BY <4>1, FullBatch DEF Commit, GiveUp, Inv, BatchFull
          <5> QED BY <4>1, <5>1 DEF Commit, GiveUp
        <4>2. CASE Crash(c)
          BY <4>2 DEF Crash
        <4>3. CASE ~(Commit(c) \/ GiveUp(c) \/ Crash(c))
          BY <1>4, <4>3
          DEF SaveRejected, SaveFails, CommitFails, CommitReplyLost, Retry,
              Restart
        <4> QED BY <4>1, <4>2, <4>3
      <3>2. \A d \in Consumers : buffer'[d] = buffer[d] \/ buffer'[d] = <<>>
        BY <3>1 DEF Inv, TypeOK
      <3> QED BY <3>2 DEF Buffered
    <2> QED BY <2>1, <2>2, <2>3 DEF PublishedOnly
  <1>5. CASE Rebalance \/ SpontaneousRebalance
    <2>1. /\ next' = [p \in Partitions |-> FetchPosition(p)]
          /\ UNCHANGED <<log, committed, rows, buffer>>
      BY <1>5 DEF Rebalance, SpontaneousRebalance, NewGeneration
    <2>2. \A p \in Partitions : next'[p] <= log[p]
      BY <1>0, <2>1 DEF FetchPosition, PublishedOnly
    <2>3. \A d \in Consumers : Buffered(d)' = Buffered(d)
      BY <2>1 DEF Buffered
    <2> QED BY <2>1, <2>2, <2>3 DEF PublishedOnly
  <1>6. CASE UNCHANGED vars
    BY <1>6 DEF vars, PublishedOnly, Buffered
  <1> QED
    BY <1>1, <1>2, <1>3, <1>4, <1>5, <1>6
    DEF Next, Process, Flush, Failure, Finished

\* No order is saved and no offset committed for an event that was not
\* published, whichever process buffered it and whatever was lost or replayed.
THEOREM PublishedOnlyHolds == Spec => []PublishedOnly
  <1>1. Init => PublishedOnly
    BY DEF Init, PublishedOnly, NoOffset, Buffered
  <1>2. Inv /\ PublishedOnly /\ [Next]_vars => PublishedOnly'
    BY PublishedOnlyStep
  <1> QED BY <1>1, <1>2, Invariance, PTL DEF Spec
=============================================================================
