--------------------------- MODULE UseItemProofs ---------------------------
(***************************************************************************)
(* Theorems about UseItem, for any number of requests, any stock and any   *)
(* bound on attempts, resets and lost replies.                             *)
(***************************************************************************)
EXTENDS UseItem, FiniteSetTheorems, TLAPS

\* The token of a handler's current attempt is a token, hence not "absent".
LEMMA TokenType ==
  ASSUME TypeOK, NEW r \in Requests
  PROVE  Token(r) \in Tokens /\ Token(r) # NoToken
  BY AbsentAssumption DEF TypeOK, Token, Tokens

\* The stock read from the key is a natural number.
LEMMA StockType ==
  ASSUME TypeOK
  PROVE  StockOf(inventory) \in Nat
  BY StockAssumption DEF TypeOK, StockOf

\* What the scripts leave in the keys, and reply, is of the right kind.
LEMMA ScriptTypes ==
  ASSUME TypeOK
  PROVE  /\ StockAfterDecrement \in Nat
         /\ StockAfterIncrement \in Nat
         /\ DecrementReply \in Nat \union {-1}
         /\ \A r \in Requests :
              /\ LockAfterAcquire(r) \in Tokens \union {NoToken}
              /\ LockAfterRelease(r) \in Tokens \union {NoToken}
  <1>1. StockAfterDecrement \in Nat /\ DecrementReply \in Nat \union {-1}
    BY StockType DEF StockAfterDecrement, DecrementReply, CanTake
  <1>2. StockAfterIncrement \in Nat
    BY DEF TypeOK, StockAfterIncrement
  <1>3. ASSUME NEW r \in Requests
        PROVE  /\ LockAfterAcquire(r) \in Tokens \union {NoToken}
               /\ LockAfterRelease(r) \in Tokens \union {NoToken}
    BY TokenType DEF TypeOK, LockAfterAcquire, LockAfterRelease
  <1> QED BY <1>1, <1>2, <1>3

-----------------------------------------------------------------------------
\* A handler's own steps keep every variable in its type.
LEMMA HandlerTypeOK ==
  ASSUME TypeOK, NEW r \in Requests, Handler(r)
  PROVE  TypeOK'
  <1> USE DEF TypeOK, States, Ended, Answers, RedisCalls, Go, keys, counters
  <1>1. CASE AcquireLock(r)
    BY <1>1, ScriptTypes DEF AcquireLock
  <1>2. CASE RetryLock(r)
    BY <1>2, RetryAssumption DEF RetryLock
  <1>3. CASE GiveUpLock(r)
    BY <1>3 DEF GiveUpLock
  <1>4. CASE Decrement(r)
    BY <1>4, ScriptTypes DEF Decrement
  <1>5. CASE Release(r)
    BY <1>5, ScriptTypes DEF Release, AfterRelease
  <1>6. CASE Unwind(r)
    BY <1>6, ScriptTypes DEF Unwind
  <1>7. CASE Emit(r)
    BY <1>7 DEF Emit
  <1>8. CASE EmitFails(r)
    BY <1>8 DEF EmitFails
  <1>9. CASE Rollback(r)
    BY <1>9, ScriptTypes DEF Rollback
  <1> QED
    BY <1>1, <1>2, <1>3, <1>4, <1>5, <1>6, <1>7, <1>8, <1>9 DEF Handler

\* Failures, expiry and resets keep every variable in its type.
LEMMA EnvironmentTypeOK ==
  ASSUME TypeOK,
         \/ \E r \in Requests : Failure(r)
         \/ LockExpires
         \/ ResetInventory
  PROVE  TypeOK'
  <1> USE DEF TypeOK, keys, counters
  <1>1. ASSUME NEW r \in Requests, RedisCallFails(r) PROVE TypeOK'
    BY <1>1 DEF RedisCallFails, Go, States, Ended, Answers, RedisCalls
  <1>2. ASSUME NEW r \in Requests, ReplyLost(r) PROVE TypeOK'
    BY <1>2, ScriptTypes, BoundAssumption DEF ReplyLost
  <1>3. ASSUME NEW r \in Requests, Crash(r) PROVE TypeOK'
    BY <1>3 DEF Crash, Go, States, Ended
  <1>4. CASE LockExpires
    BY <1>4 DEF LockExpires
  <1>5. CASE ResetInventory
    BY <1>5, StockAssumption, BoundAssumption
    DEF ResetInventory, StockAfterReset
  <1> QED BY <1>1, <1>2, <1>3, <1>4, <1>5 DEF Failure

\* TypeOK is inductive.
LEMMA TypeStep == TypeOK /\ [Next]_vars => TypeOK'
  <1>1. ASSUME TypeOK, UNCHANGED vars PROVE TypeOK'
    BY <1>1 DEF TypeOK, vars
  <1> QED
    BY <1>1, HandlerTypeOK, EnvironmentTypeOK DEF Next, Finished

\* The stock Redis stores is never negative, and every variable keeps its
\* kind, for the whole of every behaviour.
THEOREM TypeCorrect == Spec => []TypeOK
  <1>1. Init => TypeOK
    BY RetryAssumption, BoundAssumption
    DEF Init, TypeOK, States, RedisCalls
  <1> QED BY <1>1, TypeStep, PTL DEF Spec
-----------------------------------------------------------------------------
(* The lock. *)

\* Two handlers never have the same token.
LEMMA TokensDiffer ==
  ASSUME NEW r \in Requests, NEW s \in Requests, Token(r) = Token(s)
  PROVE  r = s
  BY DEF Token

\* A step of one handler leaves the lock of the others where it is, and a
\* handler comes to its decrement with the lock set to its token.
LEMMA LeaseHeldStep ==
  ASSUME TypeOK, LeaseHeld, [Next]_vars
  PROVE  LeaseHeld'
  <1> SUFFICES ASSUME NEW s \in Requests,
                      pc'[s] = "decrement", Token(s)' \notin lapsed'
               PROVE  lock' = Token(s)'
    BY DEF LeaseHeld
  <1> USE DEF Go, keys, counters
  <1>1. ASSUME NEW r \in Requests, AcquireLock(r) PROVE lock' = Token(s)'
    <2>1. CASE r = s
      BY <1>1, <2>1
      DEF AcquireLock, TypeOK, LockAfterAcquire, LockFree, Token
    <2>2. CASE r # s
      <3>1. lock = Token(s) /\ Token(s)' = Token(s)
        BY <1>1, <2>2 DEF AcquireLock, TypeOK, LeaseHeld, Token
      <3>2. lock # NoToken
        BY <3>1, TokenType
      <3> QED BY <1>1, <3>1, <3>2 DEF AcquireLock, LockAfterAcquire, LockFree
    <2> QED BY <2>1, <2>2
  <1>2. ASSUME NEW r \in Requests,
               RetryLock(r) \/ GiveUpLock(r) \/ Emit(r) \/ EmitFails(r)
                 \/ RedisCallFails(r) \/ Crash(r)
        PROVE  lock' = Token(s)'
    BY <1>2 DEF RetryLock, GiveUpLock, Emit, EmitFails, RedisCallFails, Crash,
                TypeOK, LeaseHeld, Token
  <1>3. ASSUME NEW r \in Requests, Decrement(r) \/ Rollback(r)
        PROVE  lock' = Token(s)'
    BY <1>3 DEF Decrement, Rollback, TypeOK, LeaseHeld, Token
  <1>4. ASSUME NEW r \in Requests, Release(r) \/ Unwind(r)
        PROVE  lock' = Token(s)'
    <2>1. r # s /\ lock = Token(s) /\ Token(s)' = Token(s)
      BY <1>4 DEF Release, Unwind, AfterRelease, TypeOK, LeaseHeld, Token
    <2>2. lock # Token(r)
      BY <2>1, TokensDiffer
    <2> QED BY <1>4, <2>1, <2>2 DEF Release, Unwind, LockAfterRelease, OwnsLock
  <1>5. ASSUME NEW r \in Requests, ReplyLost(r) PROVE lock' = Token(s)'
    <2>1. lock = Token(s) /\ Token(s)' = Token(s) /\ pc[s] = "decrement"
      BY <1>5 DEF ReplyLost, TypeOK, LeaseHeld, Token
    <2>2. lock # NoToken
      BY <2>1, TokenType
    <2>3. pc[r] \in {"release", "unwind"} => lock # Token(r)
      BY <2>1, TokensDiffer
    <2> QED
      BY <1>5, <2>1, <2>2, <2>3
      DEF ReplyLost, LockAfterAcquire, LockAfterRelease, LockFree, OwnsLock
  <1>6. ASSUME LockExpires PROVE lock' = Token(s)'
    BY <1>6 DEF LockExpires, LeaseHeld, Token
  <1>7. ASSUME ResetInventory \/ UNCHANGED vars PROVE lock' = Token(s)'
    BY <1>7 DEF ResetInventory, LeaseHeld, Token, vars
  <1> QED
    BY <1>1, <1>2, <1>3, <1>4, <1>5, <1>6, <1>7
    DEF Next, Handler, Failure, Finished

\* What a handler knows of the count changes only in its own steps.
LEMMA CountKnownStep ==
  ASSUME TypeOK, CountKnown, [Next]_vars
  PROVE  CountKnown'
  <1> SUFFICES ASSUME NEW s \in Requests
               PROVE  /\ pc'[s] \in {"acquire", "backoff", "contended",
                                     "decrement", "unwind"}
                           => remaining'[s] = -1
                      /\ pc'[s] \in {"emit", "rollback", "used", "rolledBack"}
                           => remaining'[s] >= 0
    BY DEF CountKnown
  <1> USE DEF CountKnown, TypeOK, Go, keys, counters
  <1>1. CASE \E r \in Requests : Handler(r)
    BY <1>1
    DEF Handler, AcquireLock, RetryLock, GiveUpLock, Decrement, Release,
        AfterRelease, Unwind, Emit, EmitFails, Rollback
  <1>2. CASE \E r \in Requests : Failure(r)
    BY <1>2 DEF Failure, RedisCallFails, ReplyLost, Crash, RedisCalls
  <1>3. CASE LockExpires \/ ResetInventory \/ UNCHANGED vars
    BY <1>3 DEF LockExpires, ResetInventory, vars
  <1> QED BY <1>1, <1>2, <1>3 DEF Next, Finished

\* The inductive invariant holds in every reachable state.
THEOREM Invariance == Spec => []IndInv
  <1>1. Init => IndInv
    <2>1. Init => TypeOK
      BY RetryAssumption, BoundAssumption DEF Init, TypeOK, States, RedisCalls
    <2>2. Init => LeaseHeld /\ CountKnown
      BY DEF Init, LeaseHeld, CountKnown
    <2> QED BY <2>1, <2>2 DEF IndInv
  <1>2. IndInv /\ [Next]_vars => IndInv'
    BY TypeStep, LeaseHeldStep, CountKnownStep DEF IndInv
  <1> QED BY <1>1, <1>2, PTL DEF Spec

\* Two handlers are at the decrement together only after one lock expired.
THEOREM LeaseExclusionHolds == Spec => []LeaseExclusion
  <1>1. IndInv => LeaseExclusion
    BY TokensDiffer DEF IndInv, LeaseHeld, LeaseExclusion
  <1> QED BY <1>1, Invariance, PTL

\* The lock is taken away by its owner or by its TTL, never by anyone else.
THEOREM OnlyOwnerReleasesHolds == Spec => OnlyOwnerReleases
  <1> DEFINE Step ==
        lock # NoToken /\ lock' # lock =>
          /\ lock' = NoToken
          /\ \/ lock \in lapsed'
             \/ \E r \in Requests :
                   pc[r] \in {"release", "unwind"} /\ lock = Token(r)
  <1>1. [Next]_vars => [Step]_vars
    <2> USE DEF keys, counters
    <2>1. ASSUME NEW r \in Requests, Handler(r) PROVE Step
      BY <2>1
      DEF Handler, AcquireLock, RetryLock, GiveUpLock, Decrement, Release,
          Unwind, Emit, EmitFails, Rollback, LockAfterAcquire,
          LockAfterRelease, LockFree, OwnsLock
    <2>2. ASSUME NEW r \in Requests, Failure(r) PROVE Step
      BY <2>2
      DEF Failure, RedisCallFails, ReplyLost, Crash, LockAfterAcquire,
          LockAfterRelease, LockFree, OwnsLock
    <2>3. CASE LockExpires \/ ResetInventory \/ Finished
      BY <2>3 DEF LockExpires, ResetInventory, Finished, vars
    <2> QED BY <2>1, <2>2, <2>3 DEF Next
  <1> QED BY <1>1, PTL DEF Spec, OnlyOwnerReleases

-----------------------------------------------------------------------------
(* The units of stock. *)

\* The requests that hold a unit are finitely many.
LEMMA HoldersFinite == IsFiniteSet(Holders)
  BY RequestsAssumption, FS_Subset DEF Holders

\* How one step moves units.  A stutter includes every step of the lock, of
\* the loop and of the emit.
Takes(r) == /\ StockOf(inventory) > 0
            /\ r \notin Holders
            /\ StockOf(inventory)' = StockOf(inventory) - 1
            /\ Holders' = Holders \union {r}
Returns(r) == /\ r \in Holders
              /\ inventory' = StockAfterIncrement
              /\ Holders' = Holders \ {r}
Loses == /\ StockOf(inventory) > 0
         /\ StockOf(inventory)' = StockOf(inventory) - 1
         /\ Holders' = Holders
Restocks == /\ resets' = resets + 1
            /\ StockOf(inventory)' = InitialStock
            /\ Holders' = Holders
Keeps == /\ StockOf(inventory)' = StockOf(inventory)
         /\ Holders' = Holders

\* The script takes one unit when there is one, and none when there is not.
LEMMA DecrementMoves ==
  ASSUME IndInv, inventory' = StockAfterDecrement
  PROVE  /\ CanTake => /\ StockOf(inventory) > 0
                       /\ StockOf(inventory)' = StockOf(inventory) - 1
                       /\ DecrementReply \in Nat
         /\ ~CanTake => /\ StockOf(inventory)' = StockOf(inventory)
                        /\ DecrementReply = -1
  <1>1. StockAfterDecrement \in Nat
    BY ScriptTypes DEF IndInv
  <1>2. StockOf(inventory)' = StockAfterDecrement
    BY <1>1, AbsentAssumption DEF StockOf
  <1> QED
    BY <1>2, StockType DEF IndInv, StockAfterDecrement, DecrementReply, CanTake

\* A step that keeps the counts and enters or leaves no rollback keeps the
\* holders.
LEMMA HoldersKept ==
  ASSUME TypeOK, NEW r \in Requests, NEW state,
         Go(r, state), state # "rolledBack", pc[r] # "rolledBack",
         remaining' = remaining
  PROVE  Holders' = Holders
  BY DEF Holders, TypeOK, Go

\* Every step of the handler moves at most one unit, its own.
LEMMA HandlerMoves ==
  ASSUME IndInv, NEW r \in Requests, Handler(r)
  PROVE  Takes(r) \/ Returns(r) \/ Keeps
  <1> USE DEF keys, counters
  <1>1. TypeOK
    BY DEF IndInv
  <1>2. CASE AcquireLock(r) \/ RetryLock(r) \/ GiveUpLock(r) \/ Release(r)
               \/ Unwind(r) \/ Emit(r) \/ EmitFails(r)
    <2>1. Holders' = Holders
      BY <1>1, <1>2, HoldersKept
      DEF AcquireLock, RetryLock, GiveUpLock, Release, AfterRelease, Unwind,
          Emit, EmitFails
    <2>2. inventory' = inventory
      BY <1>2 DEF AcquireLock, RetryLock, GiveUpLock, Release, Unwind, Emit,
                  EmitFails
    <2> QED BY <2>1, <2>2 DEF Keeps, StockOf
  <1>3. CASE Decrement(r)
    <2>1. remaining[r] = -1 /\ r \notin Holders
      BY <1>3 DEF Decrement, IndInv, CountKnown, Holders
    <2>2. CASE CanTake
      <3>1. Holders' = Holders \union {r}
        BY <1>1, <1>3, <2>2, DecrementMoves DEF Decrement, Holders, TypeOK, Go
      <3> QED BY <1>3, <2>1, <2>2, <3>1, DecrementMoves DEF Takes, Decrement
    <2>3. CASE ~CanTake
      <3>1. DecrementReply = -1 /\ StockOf(inventory)' = StockOf(inventory)
        BY <1>3, <2>3, DecrementMoves DEF Decrement
      <3>2. remaining' = remaining
        BY <1>1, <1>3, <2>1, <3>1 DEF Decrement, TypeOK
      <3>3. Holders' = Holders
        BY <1>1, <1>3, <3>2, HoldersKept DEF Decrement
      <3> QED BY <3>1, <3>3 DEF Keeps
    <2> QED BY <2>2, <2>3
  <1>4. CASE Rollback(r)
    <2>1. r \in Holders
      BY <1>4 DEF Rollback, IndInv, CountKnown, Holders
    <2>2. Holders' = Holders \ {r}
      BY <1>1, <1>4 DEF Rollback, Holders, TypeOK, Go
    <2> QED BY <1>4, <2>1, <2>2 DEF Rollback, Returns
  <1> QED BY <1>2, <1>3, <1>4 DEF Handler

\* When no increment is executed twice, a failure can only lose a unit.
LEMMA FailureMoves ==
  ASSUME "rollback" \notin LossyCalls, IndInv,
         NEW r \in Requests, Failure(r)
  PROVE  Loses \/ Keeps
  <1> USE DEF keys, counters
  <1>1. TypeOK
    BY DEF IndInv
  <1>2. CASE RedisCallFails(r) \/ Crash(r)
    <2>1. Holders' = Holders
      BY <1>1, <1>2, HoldersKept
      DEF RedisCallFails, Crash, RedisCalls, Ended, Answers
    <2>2. inventory' = inventory
      BY <1>2 DEF RedisCallFails, Crash
    <2> QED BY <2>1, <2>2 DEF Keeps, StockOf
  <1>3. CASE ReplyLost(r)
    <2>1. Holders' = Holders
      BY <1>3 DEF ReplyLost, Holders
    <2>2. inventory' = inventory \/ inventory' = StockAfterDecrement
      BY <1>3 DEF ReplyLost
    <2> QED BY <2>1, <2>2, DecrementMoves DEF Loses, Keeps, StockOf
  <1> QED BY <1>2, <1>3 DEF Failure

\* The five kinds of step, as far as units go.
LEMMA StepMoves ==
  ASSUME "rollback" \notin LossyCalls, IndInv, [Next]_vars
  PROVE  \/ \E r \in Requests : Takes(r) \/ Returns(r)
         \/ Loses \/ Restocks \/ Keeps
  <1>1. CASE LockExpires \/ UNCHANGED vars
    BY <1>1 DEF LockExpires, Keeps, Holders, StockOf, vars, counters
  <1>2. CASE ResetInventory
    BY <1>2, StockAssumption, AbsentAssumption
    DEF ResetInventory, StockAfterReset, Restocks, Holders, StockOf
  <1> QED BY <1>1, <1>2, HandlerMoves, FailureMoves DEF Next, Finished

\* A stock key that was decremented exists, so that INCR adds one to it: a
\* request holds a unit only when the key is there.
KeyThere == Holders # {} => inventory # NoKey

\* So a return adds a unit to the stock.
LEMMA ReturnMoves ==
  ASSUME IndInv, KeyThere, NEW r \in Requests, Returns(r)
  PROVE  StockOf(inventory)' = StockOf(inventory) + 1
  <1>1. inventory \in Nat /\ inventory # NoKey
    BY DEF Returns, KeyThere, IndInv, TypeOK
  <1> QED BY <1>1, AbsentAssumption DEF Returns, StockAfterIncrement, StockOf

\* Once the key exists it stays, and the first decrement creates it.
LEMMA KeyThereStep ==
  ASSUME IndInv, KeyThere, [Next]_vars
  PROVE  KeyThere'
  <1> USE DEF keys, counters
  <1>1. TypeOK
    BY DEF IndInv
  <1>2. inventory # NoKey => inventory' # NoKey
    BY <1>1, ScriptTypes, StockAssumption, AbsentAssumption
    DEF Next, Handler, Failure, Finished, vars, AcquireLock, RetryLock,
        GiveUpLock, Decrement, Release, Unwind, Emit, EmitFails, Rollback,
        RedisCallFails, ReplyLost, Crash, LockExpires, ResetInventory,
        StockAfterReset
  <1>3. ASSUME NEW r \in Requests, Decrement(r) PROVE inventory' # NoKey
    BY <1>1, <1>3, ScriptTypes, AbsentAssumption DEF Decrement
  <1>4. CASE \E r \in Requests : Decrement(r)
    BY <1>3, <1>4 DEF KeyThere
  <1>5. CASE ~\E r \in Requests : Decrement(r)
    <2>1. Holders' \subseteq Holders
      BY <1>1, <1>5
      DEF Next, Handler, Failure, Finished, vars, AcquireLock, RetryLock,
          GiveUpLock, Release, AfterRelease, Unwind, Emit, EmitFails,
          Rollback, RedisCallFails, ReplyLost, Crash, LockExpires,
          ResetInventory, Holders, Go, TypeOK, RedisCalls, Ended, Answers
    <2> QED BY <1>2, <2>1 DEF KeyThere
  <1> QED BY <1>4, <1>5
\* Nobody holds a unit at first.
LEMMA InitHolders == Init => Holders = {} /\ StockOf(inventory) = InitialStock
  BY DEF Init, Holders, StockOf

\* The invariant the theorems below rest on.
LEMMA StockInvariance == Spec => [](IndInv /\ KeyThere)
  <1>1. Init => KeyThere
    BY InitHolders DEF KeyThere
  <1>2. IndInv /\ KeyThere /\ [Next]_vars => KeyThere'
    BY KeyThereStep
  <1> QED BY <1>1, <1>2, Invariance, PTL DEF Spec

-----------------------------------------------------------------------------
\* The handler, its lock, its retries, its failures and the resets implement
\* the ledger of Inventory, unless an increment can be executed twice.
THEOREM ImplementsInventory ==
  ASSUME "rollback" \notin LossyCalls
  PROVE  Spec => LedgerSpec
  <1>1. Init => Ledger!Init
    BY InitHolders DEF Ledger!Init
  <1>2. IndInv /\ KeyThere /\ [Next]_vars => [Ledger!Next]_(Ledger!ledger)
    <2> SUFFICES ASSUME IndInv, KeyThere, [Next]_vars
                 PROVE  [Ledger!Next]_(Ledger!ledger)
      OBVIOUS
    <2>1. ASSUME NEW r \in Requests, Takes(r) PROVE Ledger!Next
      BY <2>1 DEF Takes, Ledger!Next, Ledger!Take
    <2>2. ASSUME NEW r \in Requests, Returns(r) PROVE Ledger!Next
      BY <2>2, ReturnMoves DEF Returns, Ledger!Next, Ledger!Return
    <2>3. CASE Loses
      BY <2>3 DEF Loses, Ledger!Next, Ledger!Lose
    <2>4. CASE Restocks
      BY <2>4 DEF Restocks, Ledger!Next, Ledger!Restock
    <2>5. CASE Keeps
      BY <2>5 DEF Keeps, Ledger!ledger
    <2> QED BY <2>1, <2>2, <2>3, <2>4, <2>5, StepMoves
  <1> QED BY <1>1, <1>2, StockInvariance, PTL DEF Spec, LedgerSpec, Ledger!Spec

\* A reset brings in as many units as the first stock had, and nothing else
\* changes the supply.
LEMMA SupplyStep ==
  ASSUME IndInv, [Next]_vars
  PROVE  /\ Supply \in Nat /\ Supply' \in Nat
         /\ resets' # resets => /\ ResetInventory
                                /\ Supply' = Supply + InitialStock
  <1> USE DEF counters
  <1>1. resets \in Nat /\ InitialStock \in Nat
    BY StockAssumption, BoundAssumption DEF IndInv, TypeOK
  <1>2. CASE ResetInventory
    <2>1. resets' = resets + 1
      BY <1>2 DEF ResetInventory
    <2>2. Supply \in Nat /\ Supply' = Supply + InitialStock
      BY <1>1, <2>1 DEF Supply
    <2> QED BY <1>1, <1>2, <2>2
  <1>3. CASE ~ResetInventory
    <2>1. resets' = resets
      BY <1>3 DEF Next, Handler, Failure, Finished, vars, AcquireLock,
                  RetryLock, GiveUpLock, Decrement, Release, Unwind, Emit,
                  EmitFails, Rollback, RedisCallFails, ReplyLost, Crash,
                  LockExpires
    <2> QED BY <1>1, <2>1 DEF Supply
  <1> QED BY <1>2, <1>3

\* One step cannot make units out of nothing.
LEMMA UnitsBoundedStep ==
  ASSUME "rollback" \notin LossyCalls,
         IndInv, KeyThere, UnitsBounded, [Next]_vars
  PROVE  UnitsBounded'
  <1>1. /\ IsFiniteSet(Holders) /\ Cardinality(Holders) \in Nat
        /\ StockOf(inventory) \in Nat /\ InitialStock \in Nat
    BY HoldersFinite, FS_CardinalityType, StockType, StockAssumption DEF IndInv
  <1>2. /\ Supply \in Nat /\ Supply' \in Nat
        /\ Supply' >= Supply
    BY <1>1, SupplyStep DEF Supply
  <1>3. ASSUME NEW r \in Requests, Takes(r) PROVE UnitsBounded'
    <2>1. Cardinality(Holders') = Cardinality(Holders) + 1
      BY <1>1, <1>3, FS_AddElement DEF Takes
    <2> QED BY <1>1, <1>2, <1>3, <2>1 DEF Takes, UnitsBounded
  <1>4. ASSUME NEW r \in Requests, Returns(r) PROVE UnitsBounded'
    <2>1. Cardinality(Holders') = Cardinality(Holders) - 1
      BY <1>1, <1>4, FS_RemoveElement DEF Returns
    <2> QED BY <1>1, <1>2, <1>4, <2>1, ReturnMoves DEF UnitsBounded
  <1>5. CASE Loses
    BY <1>1, <1>2, <1>5 DEF Loses, UnitsBounded
  <1>6. CASE Keeps
    BY <1>1, <1>2, <1>6 DEF Keeps, UnitsBounded
  <1>7. CASE Restocks
    <2>1. Supply' = Supply + InitialStock
      BY <1>7, SupplyStep DEF Restocks, IndInv, TypeOK
    <2> QED BY <1>1, <1>2, <1>7, <2>1 DEF Restocks, UnitsBounded
  <1> QED BY <1>3, <1>4, <1>5, <1>6, <1>7, StepMoves

\* Units in Redis and units held never exceed what the first stock and the
\* resets brought in, whatever expires, crashes, fails or is resent, as long
\* as no increment is executed twice.
THEOREM UnitsBoundedHolds ==
  ASSUME "rollback" \notin LossyCalls
  PROVE  Spec => []UnitsBounded
  <1>1. Init => UnitsBounded
    BY InitHolders, FS_EmptySet, StockAssumption DEF Init, UnitsBounded, Supply
  <1>2. IndInv /\ KeyThere /\ UnitsBounded /\ [Next]_vars => UnitsBounded'
    BY UnitsBoundedStep
  <1> QED BY <1>1, <1>2, StockInvariance, PTL DEF Spec

\* No more requests are answered "used" than there ever were units.
THEOREM NoOversellHolds ==
  ASSUME "rollback" \notin LossyCalls
  PROVE  Spec => []NoOversell
  <1>1. IndInv /\ UnitsBounded => NoOversell
    <2> SUFFICES ASSUME IndInv, UnitsBounded PROVE NoOversell
      OBVIOUS
    <2> DEFINE Used == {r \in Requests : pc[r] = "used"}
    <2>1. Used \subseteq Holders
      BY DEF IndInv, CountKnown, Holders
    <2>2. /\ Cardinality(Used) <= Cardinality(Holders)
          /\ Cardinality(Used) \in Nat /\ Cardinality(Holders) \in Nat
      BY <2>1, HoldersFinite, FS_Subset, FS_CardinalityType
    <2>3. StockOf(inventory) \in Nat
      BY StockType DEF IndInv
    <2>4. Supply \in Nat
      BY StockAssumption, BoundAssumption DEF Supply, IndInv, TypeOK
    <2> QED BY <2>2, <2>3, <2>4 DEF UnitsBounded, NoOversell
  <1> QED BY <1>1, Invariance, UnitsBoundedHolds, PTL

-----------------------------------------------------------------------------
(* The counts that the decrements return. *)

\* Nothing was put back yet: neither by a reset nor by a rollback.
OnlyDown == resets = 0 /\ \A r \in Requests : pc[r] # "rolledBack"

\* Every count that a handler got is one that the stock has come down to, so
\* that the next one will be smaller.
CountsAboveStock ==
    \A r \in Requests : remaining[r] >= 0 => StockOf(inventory) <= remaining[r]

CountInv == OnlyDown => CountsAboveStock /\ DistinctUnits

\* As long as nothing is put back or reset, the stock goes down.
LEMMA StockFalls ==
  ASSUME "rollback" \notin LossyCalls, IndInv, OnlyDown', [Next]_vars
  PROVE  /\ OnlyDown
         /\ StockOf(inventory)' \in Nat
         /\ StockOf(inventory)' <= StockOf(inventory)
  <1> USE DEF keys, counters
  <1>1. TypeOK
    BY DEF IndInv
  <1>3. resets = 0 /\ ~ResetInventory
    <2>1. resets \in Nat /\ resets' = 0
      BY <1>1, BoundAssumption DEF OnlyDown, TypeOK
    <2> QED BY <2>1, SupplyStep DEF ResetInventory
  <1>2. OnlyDown /\ ~(\E r \in Requests : Rollback(r))
    BY <1>3, <1>1 DEF OnlyDown, TypeOK, Next, Handler, Failure, Finished, vars,
        AcquireLock, RetryLock, GiveUpLock, Decrement, Release, Unwind, Emit,
        EmitFails, Rollback, RedisCallFails, ReplyLost, Crash, LockExpires,
        ResetInventory, Go, RedisCalls, Ended, Answers
  <1>4. inventory' = inventory \/ inventory' = StockAfterDecrement
    BY <1>3, <1>2
    DEF Next, Handler, Failure, Finished, vars, AcquireLock, RetryLock,
        GiveUpLock, Decrement, Release, Unwind, Emit, EmitFails,
        RedisCallFails, ReplyLost, Crash, LockExpires
  <1>5. StockOf(inventory) \in Nat
    BY <1>1, StockType
  <1>6. CASE inventory' = StockAfterDecrement
    BY <1>2, <1>5, <1>6, DecrementMoves
  <1>7. CASE inventory' = inventory
    BY <1>2, <1>5, <1>7 DEF StockOf
  <1> QED BY <1>2, <1>4, <1>6, <1>7

\* The count that a decrement returns is below all that were returned.
LEMMA CountStep ==
  ASSUME "rollback" \notin LossyCalls, IndInv, CountInv, [Next]_vars
  PROVE  CountInv'
  <1> SUFFICES ASSUME OnlyDown' PROVE CountsAboveStock' /\ DistinctUnits'
    BY DEF CountInv
  <1>1. /\ CountsAboveStock
        /\ \A r, s \in Requests :
              r # s /\ remaining[r] >= 0 => remaining[r] # remaining[s]
    BY StockFalls DEF CountInv, OnlyDown, DistinctUnits
  <1>2. /\ StockOf(inventory) \in Nat /\ StockOf(inventory)' \in Nat
        /\ StockOf(inventory)' <= StockOf(inventory)
        /\ remaining \in [Requests -> Nat \union {-1}]
    BY StockFalls, StockType DEF IndInv, TypeOK
  <1>3. CASE remaining' = remaining
    BY <1>1, <1>2, <1>3 DEF CountsAboveStock, DistinctUnits
  <1>4. ASSUME NEW r \in Requests, Decrement(r)
        PROVE  CountsAboveStock' /\ DistinctUnits'
    <2>1. CASE CanTake
      <3>1. /\ DecrementReply = StockOf(inventory)'
            /\ StockOf(inventory)' < StockOf(inventory)
        BY <1>4, <2>1, DecrementMoves, StockType, ScriptTypes, AbsentAssumption
        DEF Decrement, DecrementReply, StockAfterDecrement, IndInv, StockOf
      <3>2. remaining' = [remaining EXCEPT ![r] = StockOf(inventory)']
        BY <1>4, <3>1 DEF Decrement
      <3>3. \A s \in Requests \ {r} :
               remaining[s] >= 0 => StockOf(inventory)' < remaining[s]
        BY <1>1, <1>2, <3>1 DEF CountsAboveStock
      <3>4. CountsAboveStock'
        BY <1>2, <3>2, <3>3 DEF CountsAboveStock
      <3>5. DistinctUnits'
        BY <1>1, <1>2, <3>2, <3>3 DEF DistinctUnits
      <3> QED BY <3>4, <3>5
    <2>2. CASE ~CanTake
      <3>1. remaining' = remaining
        BY <1>2, <1>4, <2>2, DecrementMoves DEF Decrement, IndInv, CountKnown
      <3> QED BY <1>3, <3>1
    <2> QED BY <2>1, <2>2
  <1>5. (\E r \in Requests : Decrement(r)) \/ remaining' = remaining
    BY DEF Next, Handler, Failure, Finished, vars, AcquireLock, RetryLock,
           GiveUpLock, Release, Unwind, Emit, EmitFails, Rollback,
           RedisCallFails, ReplyLost, Crash, LockExpires, ResetInventory
  <1> QED BY <1>3, <1>4, <1>5

\* The counts stay in order for the whole of every behaviour.
LEMMA CountInvariance ==
  ASSUME "rollback" \notin LossyCalls
  PROVE  Spec => []CountInv
  <1>1. Init => CountInv
    BY DEF Init, CountInv, CountsAboveStock, DistinctUnits
  <1>2. IndInv /\ CountInv /\ [Next]_vars => CountInv'
    BY CountStep
  <1> QED BY <1>1, <1>2, Invariance, PTL DEF Spec

\* No two requests are given the same unit, although the decrement runs
\* outside of the lock once that expired, and although a lost reply repeats
\* it: checkAndDecrement counts down, until a rollback or a reset counts up.
THEOREM DistinctUnitsHolds ==
  ASSUME "rollback" \notin LossyCalls
  PROVE  Spec => []DistinctUnits
  <1>1. CountInv => DistinctUnits
    BY DEF CountInv, OnlyDown, DistinctUnits
  <1> QED BY <1>1, CountInvariance, PTL

-----------------------------------------------------------------------------
(* The events of a request. *)

\* An event was sent for a request that got a unit, and that has come at least
\* to its emit.
EventsKnown ==
    \A r \in Requests : published[r] > 0 =>
        /\ remaining[r] >= 0
        /\ pc[r] \in {"emit", "rollback", "used", "rolledBack", "failed",
                      "crashed"}

\* The requests whose event is in Kafka without their having been told: each
\* of them has lost an acknowledgement.
Unconfirmed == {r \in Requests : published[r] > 0 /\ pc[r] # "used"}
UnconfirmedCounted == Cardinality(Unconfirmed) <= repeats

EventsInv == EventsKnown /\ UnconfirmedCounted

\* A request that was told "used" has its count and its events for good.
LEMMA UsedStays ==
  ASSUME TypeOK, [Next]_vars, NEW r \in Requests, pc[r] = "used"
  PROVE  pc'[r] = "used" /\ remaining'[r] = remaining[r]
  <1>1. ASSUME NEW s \in Requests, Handler(s) \/ Failure(s)
        PROVE  pc'[r] = "used" /\ remaining'[r] = remaining[r]
    BY <1>1
    DEF TypeOK, Go, Handler, Failure, AcquireLock, RetryLock, GiveUpLock,
        Decrement, Release, Unwind, Emit, EmitFails, Rollback, RedisCallFails,
        ReplyLost, Crash, RedisCalls, Ended, Answers
  <1>2. CASE LockExpires \/ ResetInventory \/ UNCHANGED vars
    BY <1>2 DEF LockExpires, ResetInventory, vars
  <1> QED BY <1>1, <1>2 DEF Next, Finished

\* An emit whose acknowledgement is lost makes one request more unconfirmed at
\* most, and nothing else does.
LEMMA UnconfirmedStep ==
  ASSUME TypeOK, UnconfirmedCounted, [Next]_vars
  PROVE  UnconfirmedCounted'
  <1> USE DEF TypeOK, Go, counters, keys
  <1>1. /\ IsFiniteSet(Unconfirmed)
        /\ Cardinality(Unconfirmed) \in Nat /\ repeats \in Nat
    BY RequestsAssumption, BoundAssumption, FS_Subset, FS_CardinalityType
    DEF Unconfirmed
  <1>2. ASSUME Unconfirmed' \subseteq Unconfirmed, repeats' \in {repeats, repeats + 1}
        PROVE  UnconfirmedCounted'
    <2>1. /\ Cardinality(Unconfirmed') <= Cardinality(Unconfirmed)
          /\ Cardinality(Unconfirmed') \in Nat
      BY <1>1, <1>2, FS_Subset, FS_CardinalityType
    <2> QED BY <1>1, <1>2, <2>1 DEF UnconfirmedCounted
  <1>3. ASSUME NEW r \in Requests, ReplyLost(r) PROVE UnconfirmedCounted'
    <2>1. Unconfirmed' \subseteq Unconfirmed \union {r} /\ repeats' = repeats + 1
      BY <1>3 DEF ReplyLost, Unconfirmed
    <2>2. CASE Unconfirmed' \subseteq Unconfirmed
      BY <1>2, <2>1, <2>2
    <2>3. CASE ~(Unconfirmed' \subseteq Unconfirmed)
      <3>1. /\ IsFiniteSet(Unconfirmed \union {r})
            /\ Cardinality(Unconfirmed \union {r}) = Cardinality(Unconfirmed) + 1
        BY <1>1, <2>1, <2>3, FS_AddElement
      <3>2. /\ Cardinality(Unconfirmed') <= Cardinality(Unconfirmed) + 1
            /\ Cardinality(Unconfirmed') \in Nat
        BY <2>1, <3>1, FS_Subset, FS_CardinalityType
      <3> QED BY <1>1, <2>1, <3>2 DEF UnconfirmedCounted
    <2> QED BY <2>2, <2>3
  <1>4. ASSUME NEW r \in Requests,
               Handler(r) \/ RedisCallFails(r) \/ Crash(r)
        PROVE  UnconfirmedCounted'
    <2>1. repeats' = repeats
      BY <1>4
      DEF Handler, AcquireLock, RetryLock, GiveUpLock, Decrement, Release,
          Unwind, Emit, EmitFails, Rollback, RedisCallFails, Crash
    <2>2. CASE Emit(r)
      <3>1. Unconfirmed' \subseteq Unconfirmed
        BY <2>2 DEF Emit, Unconfirmed
      <3> QED BY <1>2, <2>1, <3>1
    <2>3. CASE ~Emit(r)
      <3>1. published' = published
        BY <1>4, <2>3
        DEF Handler, AcquireLock, RetryLock, GiveUpLock, Decrement, Release,
            Unwind, EmitFails, Rollback, RedisCallFails, Crash
      <3>2. \A s \in Requests : pc[s] = "used" => pc'[s] = "used"
        BY <1>4, UsedStays DEF Next, Failure
      <3>3. Unconfirmed' \subseteq Unconfirmed
        BY <3>1, <3>2 DEF Unconfirmed
      <3> QED BY <1>2, <2>1, <3>3
    <2> QED BY <2>2, <2>3
  <1>5. CASE LockExpires \/ ResetInventory \/ UNCHANGED vars
    <2>1. Unconfirmed' = Unconfirmed /\ repeats' = repeats
      BY <1>5 DEF LockExpires, ResetInventory, vars, Unconfirmed
    <2> QED BY <1>2, <2>1
  <1> QED BY <1>3, <1>4, <1>5 DEF Next, Failure, Finished

\* Events are sent at the emit only, which comes after the decrement.
LEMMA EventsKnownStep ==
  ASSUME IndInv, EventsKnown, [Next]_vars
  PROVE  EventsKnown'
  <1> USE DEF IndInv, TypeOK, EventsKnown, Go, keys, counters
  <1>1. ASSUME NEW r \in Requests, Emit(r) \/ ReplyLost(r)
        PROVE  EventsKnown'
    BY <1>1 DEF Emit, ReplyLost, CountKnown
  <1>2. ASSUME NEW r \in Requests, Decrement(r) PROVE EventsKnown'
    BY <1>2 DEF Decrement
  <1>3. ASSUME NEW r \in Requests,
               \/ AcquireLock(r) \/ RetryLock(r) \/ GiveUpLock(r)
               \/ Release(r) \/ Unwind(r) \/ EmitFails(r) \/ Rollback(r)
               \/ RedisCallFails(r) \/ Crash(r)
        PROVE  EventsKnown'
    BY <1>3
    DEF AcquireLock, RetryLock, GiveUpLock, Release, Unwind, EmitFails,
        Rollback, RedisCallFails, Crash, RedisCalls
  <1>4. CASE LockExpires \/ ResetInventory \/ UNCHANGED vars
    BY <1>4 DEF LockExpires, ResetInventory, vars
  <1> QED BY <1>1, <1>2, <1>3, <1>4 DEF Next, Handler, Failure, Finished

\* Both hold for the whole of every behaviour.
LEMMA EventsInvariance == Spec => []EventsInv
  <1>1. Init => EventsInv
    <2> SUFFICES ASSUME Init PROVE EventsInv
      OBVIOUS
    <2>1. Unconfirmed = {}
      BY DEF Init, Unconfirmed
    <2> QED BY <2>1, FS_EmptySet
            DEF Init, EventsInv, EventsKnown, UnconfirmedCounted
  <1>2. IndInv /\ EventsInv /\ [Next]_vars => EventsInv'
    BY EventsKnownStep, UnconfirmedStep DEF EventsInv, IndInv
  <1> QED BY <1>1, <1>2, Invariance, PTL DEF Spec

\* A count that a handler gets is below every one that was given before, as
\* long as nothing is put back or reset.
LEMMA NewCountIsLess ==
  ASSUME "rollback" \notin LossyCalls,
         IndInv, CountInv, OnlyDown', [Next]_vars,
         NEW r \in Requests, NEW s \in Requests,
         remaining'[s] # remaining[s], remaining[r] >= 0
  PROVE  remaining'[s] < remaining[r]
  <1>1. CountsAboveStock
    BY StockFalls DEF CountInv
  <1>2. Decrement(s)
    BY DEF Next, Handler, Failure, Finished, vars, AcquireLock, RetryLock,
           GiveUpLock, Decrement, Release, Unwind, Emit, EmitFails, Rollback,
           RedisCallFails, ReplyLost, Crash, LockExpires, ResetInventory,
           IndInv, TypeOK, counters
  <1>3. /\ StockOf(inventory) \in Nat
        /\ remaining \in [Requests -> Nat \union {-1}]
        /\ remaining'[s] = DecrementReply
    BY <1>2, StockType DEF Decrement, IndInv, TypeOK
  <1>4. DecrementReply = StockOf(inventory) - 1 \/ DecrementReply = -1
    BY <1>3 DEF DecrementReply, StockAfterDecrement
  <1> QED BY <1>1, <1>3, <1>4 DEF CountsAboveStock

-----------------------------------------------------------------------------
(* The stock in Redis and the events in Kafka. *)

\* Who was told "used" has its event in Kafka, and who was told that the stock
\* is out was given nothing.
OutcomesKnown ==
    \A r \in Requests :
        /\ pc[r] = "used" => published[r] > 0
        /\ pc[r] = "outOfStock" => remaining[r] = -1

\* The answers say what is so for the whole of every behaviour.
LEMMA OutcomesInvariance == Spec => []OutcomesKnown
  <1>1. Init => OutcomesKnown
    BY DEF Init, OutcomesKnown
  <1>2. TypeOK /\ OutcomesKnown /\ [Next]_vars => OutcomesKnown'
    <2> SUFFICES ASSUME TypeOK, OutcomesKnown, [Next]_vars PROVE OutcomesKnown'
      OBVIOUS
    <2> USE DEF OutcomesKnown, TypeOK, Go, keys, counters
    <2>1. CASE \E r \in Requests : Handler(r)
      <3> SUFFICES ASSUME NEW r \in Requests, Handler(r) PROVE OutcomesKnown'
        BY <2>1
      <3>1. CASE AcquireLock(r) \/ RetryLock(r) \/ GiveUpLock(r) \/ Unwind(r)
                   \/ EmitFails(r) \/ Rollback(r)
        BY <3>1 DEF AcquireLock, RetryLock, GiveUpLock, Unwind, EmitFails,
                    Rollback
      <3>2. CASE Decrement(r)
        BY <3>2 DEF Decrement
      <3>3. CASE Release(r)
        BY <3>3 DEF Release, AfterRelease
      <3>4. CASE Emit(r)
        BY <3>4 DEF Emit
      <3> QED BY <3>1, <3>2, <3>3, <3>4 DEF Handler
    <2>2. CASE \E r \in Requests : Failure(r)
      BY <2>2 DEF Failure, RedisCallFails, ReplyLost, Crash, RedisCalls,
                  Ended, Answers
    <2>3. CASE LockExpires \/ ResetInventory \/ UNCHANGED vars
      BY <2>3 DEF LockExpires, ResetInventory, vars
    <2> QED BY <2>1, <2>2, <2>3 DEF Next, Finished
  <1> QED BY <1>1, <1>2, TypeCorrect, PTL DEF Spec

\* Only a step that loses a reply loses a unit, and it loses one.
LEMMA LossesStep ==
  ASSUME "rollback" \notin LossyCalls,
         IndInv, KeyThere, UnitsConserved, [Next]_vars
  PROVE  UnitsConserved'
  <1> SUFFICES ASSUME resets' = 0 PROVE UnitsConserved'
    BY DEF UnitsConserved
  <1>0. resets = 0 /\ ~ResetInventory
    <2>1. resets \in Nat
      BY BoundAssumption DEF IndInv, TypeOK
    <2> QED BY <2>1, SupplyStep DEF ResetInventory
  <1>1. /\ IsFiniteSet(Holders) /\ Cardinality(Holders) \in Nat
        /\ StockOf(inventory) \in Nat /\ InitialStock \in Nat
        /\ repeats \in Nat
    BY HoldersFinite, FS_CardinalityType, StockType, StockAssumption,
       BoundAssumption
    DEF IndInv, TypeOK
  <1>2. repeats' = repeats \/ repeats' = repeats + 1
    BY DEF Next, Handler, Failure, Finished, vars, AcquireLock, RetryLock,
           GiveUpLock, Decrement, Release, Unwind, Emit, EmitFails, Rollback,
           RedisCallFails, ReplyLost, Crash, LockExpires, ResetInventory,
           counters
  <1>3. ASSUME NEW r \in Requests, Takes(r) PROVE UnitsConserved'
    <2>1. Cardinality(Holders') = Cardinality(Holders) + 1
      BY <1>1, <1>3, FS_AddElement DEF Takes
    <2> QED BY <1>0, <1>1, <1>2, <1>3, <2>1 DEF Takes, UnitsConserved
  <1>4. ASSUME NEW r \in Requests, Returns(r) PROVE UnitsConserved'
    <2>1. Cardinality(Holders') = Cardinality(Holders) - 1
      BY <1>1, <1>4, FS_RemoveElement DEF Returns
    <2> QED BY <1>0, <1>1, <1>2, <1>4, <2>1, ReturnMoves DEF UnitsConserved
  <1>5. CASE Loses
    <2>1. repeats' = repeats + 1
      <3>1. ASSUME NEW r \in Requests, ReplyLost(r) PROVE repeats' = repeats + 1
        BY <3>1 DEF ReplyLost
      <3>2. ASSUME NEW r \in Requests, Handler(r) PROVE FALSE
        <4>1. Takes(r) \/ Returns(r) \/ Keeps
          BY <3>2, HandlerMoves
        <4>2. ~Keeps
          BY <1>1, <1>5 DEF Loses, Keeps
        <4>3. ~Takes(r) /\ ~Returns(r)
          BY <1>5 DEF Loses, Takes, Returns
        <4> QED BY <4>1, <4>2, <4>3
      <3>3. inventory' # inventory
        BY <1>1, <1>5 DEF Loses, StockOf
      <3> QED BY <1>0, <3>1, <3>2, <3>3
              DEF Next, Failure, Finished, vars, RedisCallFails, Crash,
                  LockExpires, keys
    <2> QED BY <1>0, <1>1, <1>5, <2>1 DEF Loses, UnitsConserved
  <1>6. CASE Keeps
    BY <1>0, <1>1, <1>2, <1>6 DEF Keeps, UnitsConserved
  <1>7. ~Restocks
    BY <1>0 DEF Restocks
  <1> QED BY <1>3, <1>4, <1>5, <1>6, <1>7, StepMoves

\* No unit is lost, whatever expires, crashes or fails, but by a reset, or by a
\* decrement that is executed twice; an increment executed twice would make one.
THEOREM UnitsConservedHolds ==
  ASSUME "rollback" \notin LossyCalls
  PROVE  Spec => []UnitsConserved
  <1>1. Init => UnitsConserved
    <2> SUFFICES ASSUME Init PROVE UnitsConserved
      OBVIOUS
    <2>1. Holders = {} /\ StockOf(inventory) = InitialStock /\ repeats = 0
      BY InitHolders DEF Init
    <2>2. Cardinality(Holders) = 0
      BY <2>1, FS_EmptySet
    <2> QED BY <2>1, <2>2, StockAssumption DEF UnitsConserved
  <1>2. IndInv /\ KeyThere /\ UnitsConserved /\ [Next]_vars => UnitsConserved'
    BY LossesStep
  <1> QED BY <1>1, <1>2, StockInvariance, PTL DEF Spec

\* Once every request ended, a unit that left Redis without an event is one of
\* a request that broke off, or of a decrement executed twice.
LEMMA HoldersAccountedFor ==
  ASSUME IndInv, OutcomesKnown, AllEnded
  PROVE  /\ IsFiniteSet(Published) /\ IsFiniteSet(BrokenOff)
         /\ Cardinality(Holders)
              <= Cardinality(Published) + Cardinality(BrokenOff)
  <1>1. IsFiniteSet(Published) /\ IsFiniteSet(BrokenOff)
    BY HoldersFinite, RequestsAssumption, FS_Subset DEF Published, BrokenOff
  <1>2. Holders \subseteq Published \union BrokenOff
    <2>1. \A r \in Holders : pc[r] \in {"used", "failed", "crashed"}
      BY DEF IndInv, TypeOK, CountKnown, OutcomesKnown, Holders, AllEnded,
             Ended, Answers
    <2>2. \A r \in Holders : pc[r] = "used" => r \in Published
      BY DEF OutcomesKnown, Published, Holders
    <2> QED BY <2>1, <2>2 DEF BrokenOff
  <1>3. /\ IsFiniteSet(Published \union BrokenOff)
        /\ Cardinality(Published \union BrokenOff)
             = Cardinality(Published) + Cardinality(BrokenOff)
                 - Cardinality(Published \cap BrokenOff)
    BY <1>1, FS_Union
  <1>4. Cardinality(Published \cap BrokenOff) = 0
    <2>1. Published \cap BrokenOff = {}
      BY DEF BrokenOff
    <2> QED BY <2>1, FS_EmptySet
  <1>5. Cardinality(Holders) <= Cardinality(Published \union BrokenOff)
    BY <1>2, <1>3, FS_Subset
  <1>6. Cardinality(Published) \in Nat /\ Cardinality(BrokenOff) \in Nat
    BY <1>1, FS_CardinalityType
  <1> QED BY <1>1, <1>3, <1>4, <1>5, <1>6

\* An event whose request has no unit is one of a lost acknowledgement.
LEMMA EventsAccountedFor ==
  ASSUME IndInv, EventsInv
  PROVE  Cardinality(Published) <= Cardinality(Holders) + repeats
  <1>1. Published \subseteq Holders \union Unconfirmed
    BY DEF EventsInv, EventsKnown, Published, Holders, Unconfirmed
  <1>2. IsFiniteSet(Holders) /\ IsFiniteSet(Unconfirmed)
    BY HoldersFinite, RequestsAssumption, FS_Subset DEF Unconfirmed
  <1>3. /\ IsFiniteSet(Holders \union Unconfirmed)
        /\ Cardinality(Holders \union Unconfirmed)
             = Cardinality(Holders) + Cardinality(Unconfirmed)
                 - Cardinality(Holders \cap Unconfirmed)
    BY <1>2, FS_Union
  <1>4. /\ Cardinality(Published) <= Cardinality(Holders \union Unconfirmed)
        /\ Cardinality(Published) \in Nat
    BY <1>1, <1>3, FS_Subset, FS_CardinalityType
  <1>5. Cardinality(Holders \cap Unconfirmed) \in Nat
    BY <1>2, FS_Subset, FS_CardinalityType
  <1>6. Cardinality(Holders) \in Nat /\ Cardinality(Unconfirmed) \in Nat
    BY <1>2, FS_CardinalityType
  <1>7. Cardinality(Unconfirmed) <= repeats /\ repeats \in Nat
    BY BoundAssumption
    DEF EventsInv, UnconfirmedCounted, IndInv, TypeOK
  <1> QED BY <1>3, <1>4, <1>5, <1>6, <1>7

\* Redis and Kafka differ by what broke off and by the lost replies, at most,
\* in either direction, when no increment is executed twice.
THEOREM RedisKafkaGapHolds ==
  ASSUME "rollback" \notin LossyCalls
  PROVE  Spec => []RedisKafkaGap
  <1>1. IndInv /\ EventsInv /\ OutcomesKnown /\ UnitsConserved /\ UnitsBounded
          => RedisKafkaGap
    <2> SUFFICES ASSUME IndInv, EventsInv, OutcomesKnown, UnitsConserved,
                        UnitsBounded, AllEnded, resets = 0
                 PROVE  /\ UnitsOut - Cardinality(Published)
                             <= Cardinality(BrokenOff) + repeats
                        /\ Cardinality(Published) - UnitsOut <= repeats
      BY DEF RedisKafkaGap
    <2>1. /\ Cardinality(Holders)
               <= Cardinality(Published) + Cardinality(BrokenOff)
          /\ Cardinality(Published) <= Cardinality(Holders) + repeats
      BY HoldersAccountedFor, EventsAccountedFor
    <2>2. /\ Cardinality(Holders) \in Nat /\ Cardinality(Published) \in Nat
          /\ Cardinality(BrokenOff) \in Nat
      BY HoldersAccountedFor, HoldersFinite, FS_CardinalityType
    <2>3. /\ StockOf(inventory) \in Nat /\ InitialStock \in Nat
          /\ repeats \in Nat
      BY StockType, StockAssumption, BoundAssumption DEF IndInv, TypeOK
    <2>4. StockOf(inventory) + Cardinality(Holders) <= InitialStock
      BY <2>3 DEF UnitsBounded, Supply
    <2> QED BY <2>1, <2>2, <2>3, <2>4 DEF UnitsOut, UnitsConserved
  <1> QED BY <1>1, Invariance, EventsInvariance, OutcomesInvariance,
          UnitsConservedHolds, UnitsBoundedHolds, PTL
=============================================================================
