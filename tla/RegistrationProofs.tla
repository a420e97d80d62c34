------------------------- MODULE RegistrationProofs -------------------------
(***************************************************************************)
(* Theorems about Registration, for any requests, names, hashes, sizes of  *)
(* the filter and failures.                                                *)
(***************************************************************************)
EXTENDS Registration, TLAPS

\* What a handler's place in its code says about Keycloak: past the POST, it
\* is the request that created its user, and only such a request adds bits.
Creators ==
    /\ \A r \in Requests :
          pc[r] \in {"getRole", "assign", "add", "registered"} => r \in created
    /\ adding \subseteq created
    /\ \A r \in created : NameOf[r] \in users

\* Keycloak took every name once.
CreatedOnce ==
    \A r, s \in created : NameOf[r] = NameOf[s] => r = s

\* Everything the handlers' steps have to agree on.
FilterInv == TypeOK /\ Creators /\ CreatedOnce /\ FilterBehindKeycloak

-----------------------------------------------------------------------------
\* The invariant of the filter holds at first.
LEMMA InitFilter == Init => FilterInv
  BY NamesAssumption
  DEF Init, FilterInv, TypeOK, Creators, CreatedOnce, FilterBehindKeycloak,
      Bits, States, Calls, KeycloakCalls, Ended

\* Storing a user keeps every part: the name was free, so that its creator
\* is the first.
LEMMA StoreKeeps ==
  ASSUME FilterInv, NEW r \in Requests, NEW state \in {"getRole", "failed"},
         Free(r), Store(r), Go(r, state),
         UNCHANGED <<bits, readers, adding>>
  PROVE  FilterInv'
  <1> USE NamesAssumption DEF FilterInv, Store, Free, Go
  <1>1. TypeOK'
    BY DEF TypeOK, States, Calls, KeycloakCalls, Ended
  <1>2. Creators'
    BY DEF TypeOK, Creators
  <1>3. CreatedOnce'
    <2>1. \A s \in created : NameOf[s] # NameOf[r]
      BY DEF Creators
    <2> QED BY <2>1 DEF CreatedOnce
  <1>4. FilterBehindKeycloak'
    BY DEF FilterBehindKeycloak
  <1> QED BY <1>1, <1>2, <1>3, <1>4

\* A step that only moves its handler on, and possibly makes its user a
\* reader, keeps every part when the handler does not pass the POST by it.
LEMMA MoveKeeps ==
  ASSUME FilterInv, NEW r \in Requests, NEW state \in States, Go(r, state),
         state \in {"getRole", "assign", "add", "registered"} => r \in created,
         \/ readers' = readers
         \/ r \in created /\ readers' = readers \union {NameOf[r]},
         \/ adding' = adding
         \/ r \in created /\ adding' = adding \union {r},
         UNCHANGED <<bits, users, emails, created>>
  PROVE  FilterInv'
  <1> USE DEF FilterInv, Go
  <1>1. TypeOK'
    BY DEF TypeOK, Creators
  <1>2. Creators'
    BY DEF TypeOK, Creators
  <1>3. CreatedOnce' /\ FilterBehindKeycloak'
    BY DEF CreatedOnce, FilterBehindKeycloak
  <1> QED BY <1>1, <1>2, <1>3

\* A SETBIT sets a bit of a name whose user exists.
LEMMA SetBitKeeps ==
  ASSUME FilterInv, NEW r \in Requests, SetBit(r)
  PROVE  FilterInv'
  <1> USE DEF FilterInv, SetBit, keycloak
  <1>1. NameOf[r] \in users /\ NameOf[r] \in Names
    BY DEF Creators, TypeOK
  <1>2. TypeOK'
    BY <1>1 DEF TypeOK, Bits
  <1>3. Creators' /\ CreatedOnce'
    BY DEF Creators, CreatedOnce
  <1>4. FilterBehindKeycloak'
    BY <1>1 DEF FilterBehindKeycloak
  <1> QED BY <1>2, <1>3, <1>4

\* Every step keeps it.
LEMMA NextFilter ==
  ASSUME FilterInv, [Next]_vars
  PROVE  FilterInv'
  <1> USE DEF keycloak, States, Calls, KeycloakCalls, Ended
  <1>1. ASSUME NEW r \in Requests, Handler(r) PROVE FilterInv'
    <2>1. CASE Lookup(r)
      BY <2>1, MoveKeeps DEF Lookup
    <2>2. CASE GetToken(r)
      BY <2>2, MoveKeeps DEF GetToken
    <2>3. CASE CreateUser(r)
      <3>1. CASE Free(r)
        BY <2>3, <3>1, StoreKeeps DEF CreateUser
      <3>2. CASE ~Free(r)
        BY <2>3, <3>2, MoveKeeps DEF CreateUser, AfterConflict
      <3> QED BY <3>1, <3>2
    <2>4. CASE GetRole(r)
      BY <2>4, MoveKeeps DEF GetRole, FilterInv, Creators
    <2>5. CASE AssignRole(r)
      BY <2>5, MoveKeeps DEF AssignRole, FilterInv, Creators
    <2>6. CASE SetBit(r)
      BY <2>6, SetBitKeeps
    <2>7. CASE Added(r)
      BY <2>7, MoveKeeps DEF Added, FilterInv, Creators
    <2> QED BY <1>1, <2>1, <2>2, <2>3, <2>4, <2>5, <2>6, <2>7 DEF Handler
  <1>2. ASSUME NEW r \in Requests, Failure(r) PROVE FilterInv'
    <2>1. CASE RedisFails(r) \/ KeycloakFails(r) \/ Crash(r)
      BY <2>1, MoveKeeps DEF RedisFails, KeycloakFails, AfterRefusal, Crash
    <2>2. CASE KeycloakReplyLost(r)
      <3>1. CASE pc[r] = "create"
        BY <2>2, <3>1, StoreKeeps DEF KeycloakReplyLost
      <3>2. CASE pc[r] = "assign"
        BY <2>2, <3>2, MoveKeeps DEF KeycloakReplyLost, FilterInv, Creators
      <3> QED BY <2>2, <3>1, <3>2 DEF KeycloakReplyLost
    <2> QED BY <1>2, <2>1, <2>2 DEF Failure
  <1>3. CASE UNCHANGED vars
    BY <1>3 DEF vars, FilterInv, TypeOK, Creators, CreatedOnce,
                FilterBehindKeycloak
  <1> QED BY <1>1, <1>2, <1>3 DEF Next, Finished

\* The inductive invariant.
LEMMA FilterInvariance == Spec => []FilterInv
  BY InitFilter, NextFilter, PTL DEF Spec

-----------------------------------------------------------------------------
\* Every variable keeps its type; only users of Keycloak become readers.
THEOREM RegistrationTypeCorrect == Spec => []TypeOK
  BY FilterInvariance, PTL DEF FilterInv

\* Two requests for one name are never both told that they registered,
\* however they pass the filter together and wherever others broke off.
THEOREM RegisteredOnceHolds == Spec => []RegisteredOnce
  <1>1. FilterInv => RegisteredOnce
    BY DEF FilterInv, Creators, CreatedOnce, RegisteredOnce
  <1> QED BY <1>1, FilterInvariance, PTL

\* No bit is set on behalf of a name that is still free.
THEOREM FilterBehindKeycloakHolds == Spec => []FilterBehindKeycloak
  BY FilterInvariance, PTL DEF FilterInv

\* A look-up that finds every bit set finds bits of users.
LEMMA FilteredStep ==
  ASSUME FilterInv, FilteredExplained, [Next]_vars
  PROVE  FilteredExplained'
  <1>1. users \subseteq users'
    BY DEF Next, Handler, Failure, Finished, vars, Lookup, GetToken,
           CreateUser, GetRole, AssignRole, SetBit, Added, RedisFails,
           KeycloakFails, KeycloakReplyLost, Crash, Store, keycloak
  <1>2. ASSUME NEW r \in Requests, pc'[r] = "filtered", pc[r] # "filtered"
        PROVE  Lookup(r) /\ Positions[NameOf[r]] \subseteq bits
    <2>1. Lookup(r)
      BY <1>2 DEF FilterInv, TypeOK, Next, Handler, Failure, Finished, vars,
           Lookup, GetToken, CreateUser, GetRole, AssignRole, SetBit, Added,
           RedisFails, KeycloakFails, KeycloakReplyLost, Crash, Go,
           AfterRefusal, AfterConflict
    <2>2. MightExist(NameOf[r])
      BY <1>2, <2>1 DEF Lookup, Go, FilterInv, TypeOK
    <2> QED BY <2>1, <2>2 DEF MightExist
  <1>3. ASSUME NEW r \in Requests, pc'[r] = "filtered"
        PROVE  Positions[NameOf[r]] \subseteq UNION {Positions[n] : n \in users}
    <2>1. CASE pc[r] = "filtered"
      BY <2>1 DEF FilteredExplained
    <2>2. CASE pc[r] # "filtered"
      BY <1>2, <1>3, <2>2 DEF FilterInv, FilterBehindKeycloak
    <2> QED BY <2>1, <2>2
  <1> QED BY <1>1, <1>3 DEF FilteredExplained

\* Bits are never cleared and users never go away, so that what the filter
\* refuses stays explained by the users there are.
THEOREM FilteredExplainedHolds == Spec => []FilteredExplained
  <1>1. Init => FilteredExplained
    BY DEF Init, FilteredExplained
  <1> QED BY <1>1, FilteredStep, FilterInvariance, PTL DEF Spec

-----------------------------------------------------------------------------
(* What a request leaves behind. *)

\* A handler that assigned the role made its user a reader, and one that was
\* told of every bit has them all set.
Complete ==
    /\ \A r \in Requests : pc[r] \in {"add", "registered"} => NameOf[r] \in readers
    /\ \A r \in Requests : pc[r] = "registered" => MightExist(NameOf[r])

\* A user who is not of the realm was created by a request, and such a request
\* is past its POST, if it did not break off.
Explained ==
    /\ \A r \in created :
          pc[r] \in {"getRole", "assign", "add", "registered", "failed", "crashed"}
    /\ \A n \in users \ Seeded : \E r \in created : NameOf[r] = n

\* A request refused before anything was asked of Keycloak.
TurnedAway(r) ==
    /\ pc[r] = "token"
    /\ Go(r, "failed")
    /\ UNCHANGED <<bits, keycloak, adding, created>>

\* Bits are never cleared, and users and readers never go away.
LEMMA NothingForgotten ==
  ASSUME [Next]_vars
  PROVE  bits \subseteq bits' /\ users \subseteq users' /\ readers \subseteq readers'
  BY DEF Next, Handler, Failure, Finished, vars, keycloak, Lookup, GetToken,
         CreateUser, GetRole, AssignRole, SetBit, Added, RedisFails,
         KeycloakFails, KeycloakReplyLost, Crash, Store

\* A handler comes to "add" by its role assignment only, and to "registered"
\* when all its bits are set.
LEMMA CompleteStep ==
  ASSUME FilterInv, Complete, [Next]_vars
  PROVE  Complete'
  <1> USE DEF FilterInv, TypeOK, Go, keycloak
  <1>1. /\ bits \subseteq bits' /\ readers \subseteq readers'
    BY NothingForgotten
  <1>2. ASSUME NEW r \in Requests, pc'[r] \in {"add", "registered"},
               pc[r] \notin {"add", "registered"}
        PROVE  NameOf[r] \in readers' /\ pc'[r] = "add"
    <2>1. AssignRole(r)
      BY <1>2 DEF Next, Handler, Failure, Finished, vars, Lookup, GetToken,
         CreateUser, GetRole, AssignRole, SetBit, Added, RedisFails,
         KeycloakFails, KeycloakReplyLost, Crash, AfterRefusal, AfterConflict
    <2> QED BY <2>1 DEF AssignRole
  <1>3. ASSUME NEW r \in Requests, pc'[r] = "registered", pc[r] = "add"
        PROVE  MightExist(NameOf[r])
    <2>1. Added(r)
      BY <1>3 DEF Next, Handler, Failure, Finished, vars, Lookup, GetToken,
         CreateUser, GetRole, AssignRole, SetBit, Added, RedisFails,
         KeycloakFails, KeycloakReplyLost, Crash, AfterRefusal, AfterConflict
    <2> QED BY <2>1 DEF Added, AllConfirmed, MightExist
  <1>4. ASSUME NEW r \in Requests, pc'[r] \in {"add", "registered"}
        PROVE  NameOf[r] \in readers'
    BY <1>1, <1>2, <1>4 DEF Complete
  <1>5. ASSUME NEW r \in Requests, pc'[r] = "registered"
        PROVE  Positions[NameOf[r]] \subseteq bits'
    <2>1. pc[r] \in {"add", "registered"}
      BY <1>2, <1>5
    <2>2. MightExist(NameOf[r])
      BY <1>3, <1>5, <2>1 DEF Complete
    <2> QED BY <1>1, <2>2 DEF MightExist
  <1> QED BY <1>4, <1>5 DEF Complete, MightExist

\* Users are stored by a request, which is then either past its POST or ended.
LEMMA ExplainedStep ==
  ASSUME FilterInv, Explained, [Next]_vars
  PROVE  Explained'
  <1> USE DEF FilterInv, TypeOK, Explained, Go, keycloak
  <1>1. ASSUME NEW r \in Requests, Handler(r) PROVE Explained'
    <2>1. CASE CreateUser(r)
      BY <2>1, NamesAssumption DEF CreateUser, Store, AfterConflict, Free, Creators
    <2>2. CASE ~CreateUser(r)
      BY <1>1, <2>2 DEF Handler, Lookup, GetToken, GetRole, AssignRole, SetBit,
                        Added
    <2> QED BY <2>1, <2>2
  <1>2. ASSUME NEW r \in Requests, Failure(r) PROVE Explained'
    BY <1>2, NamesAssumption
    DEF Failure, RedisFails, KeycloakFails, KeycloakReplyLost, Crash, Store,
        AfterRefusal, Ended
  <1>3. CASE UNCHANGED vars
    BY <1>3 DEF vars
  <1> QED BY <1>1, <1>2, <1>3 DEF Next, Finished

\* A request that is turned away leaves nothing behind.
LEMMA TurnedAwayKeeps ==
  ASSUME FilterInv, Complete, Explained, NEW r \in Requests, TurnedAway(r)
  PROVE  FilterInv' /\ Complete' /\ Explained'
  <1> USE DEF TurnedAway, keycloak
  <1>1. FilterInv'
    BY MoveKeeps DEF States, Ended
  <1>2. Complete' /\ Explained'
    BY DEF FilterInv, TypeOK, Complete, Explained, Go, MightExist
  <1> QED BY <1>1, <1>2

\* What Complete and Explained say of the answers.
LEMMA AnswersComplete ==
  ASSUME FilterInv, Complete, Explained
  PROVE  RegisteredComplete /\ RolelessExplained
  <1>1. RegisteredComplete
    BY DEF Complete, RegisteredComplete
  <1>2. RolelessExplained
    <2> SUFFICES ASSUME NEW n \in users \ (readers \union Seeded)
                 PROVE  \E r \in created : NameOf[r] = n
                          /\ pc[r] \in {"getRole", "assign", "failed", "crashed"}
      BY DEF RolelessExplained
    <2>1. PICK r \in created : NameOf[r] = n
      BY DEF Explained
    <2>2. pc[r] \notin {"add", "registered"}
      BY <2>1 DEF Complete, FilterInv, TypeOK
    <2> QED BY <2>1, <2>2 DEF Explained
  <1> QED BY <1>1, <1>2

\* Nothing is left behind at first.
LEMMA InitComplete == Init => Complete /\ Explained
  BY DEF Init, Complete, Explained

\* Complete and Explained hold for the whole of every behaviour.
LEMMA CompleteInvariance == Spec => [](FilterInv /\ Complete /\ Explained)
  BY InitFilter, InitComplete, NextFilter, CompleteStep, ExplainedStep, PTL
  DEF Spec

\* A 201 is sent after the role was assigned and every SETBIT was confirmed,
\* and neither is ever undone.
THEOREM RegisteredCompleteHolds == Spec => []RegisteredComplete
  BY AnswersComplete, CompleteInvariance, PTL

\* register undoes nothing when a step fails: a user without the role is one
\* whose request broke off after its POST, or has not come to the role yet.
THEOREM RolelessExplainedHolds == Spec => []RolelessExplained
  BY AnswersComplete, CompleteInvariance, PTL

-----------------------------------------------------------------------------
(* Double hashing. *)

\* The step between positions is odd, whatever the second hash was.
LEMMA StepIsOdd ==
  ASSUME NEW n \in Names
  PROVE  \E y \in Nat : OddStep(n) = 2 * y + 1
  <1> DEFINE raw == Djb2[n] % BitSize
  <1>1. raw \in Nat
    BY HashAssumption
  <1> HIDE DEF raw
  <1>2. PICK y \in Nat : raw = 2 * y \/ raw = 2 * y + 1
    <2>1. /\ raw \div 2 \in Nat
          /\ raw = 2 * (raw \div 2) \/ raw = 2 * (raw \div 2) + 1
      BY <1>1
    <2> QED BY <2>1
  <1>3. OddStep(n) = IF raw % 2 = 0 THEN raw + 1 ELSE raw
    BY DEF OddStep, raw
  <1>4. CASE raw = 2 * y
    BY <1>3, <1>4
  <1>5. CASE raw = 2 * y + 1
    BY <1>3, <1>5
  <1> QED BY <1>2, <1>4, <1>5

\* Fewer than eight odd steps never span a multiple of eight.
LEMMA OddMultiples ==
  ASSUME NEW d \in 1..7, NEW y \in Nat, NEW z \in Int, d * (2 * y + 1) = 8 * z
  PROVE  FALSE
  <1>1. d \in {1, 2, 3, 4, 5, 6, 7}
    OBVIOUS
  <1>2. CASE d = 1 BY <1>2
  <1>3. CASE d = 2 BY <1>3
  <1>4. CASE d = 3 BY <1>4
  <1>5. CASE d = 4 BY <1>5
  <1>6. CASE d = 5 BY <1>6
  <1>7. CASE d = 6 BY <1>7
  <1>8. CASE d = 7 BY <1>8
  <1> QED BY <1>1, <1>2, <1>3, <1>4, <1>5, <1>6, <1>7, <1>8

\* Equal remainders differ by a multiple.
LEMMA EqualRemainders ==
  ASSUME NEW a \in Nat, NEW b \in Nat, NEW m \in Nat \ {0}, a % m = b % m
  PROVE  \E q \in Int : b - a = m * q
  <1>1. /\ a = m * (a \div m) + (a % m) /\ a \div m \in Int
        /\ b = m * (b \div m) + (b % m) /\ b \div m \in Int
    OBVIOUS
  <1>2. b - a = m * ((b \div m) - (a \div m))
    BY <1>1
  <1>3. (b \div m) - (a \div m) \in Int
    BY <1>1
  <1> QED BY <1>2, <1>3, Zenon

\* The positions of a name are all different: an addition sets as many bits
\* as there are hashes.  This takes the odd step, a filter whose size is a
\* multiple of eight (1,000,000 is) and at most eight hashes (there are 7).
THEOREM PositionsDistinct ==
  ASSUME NEW n \in Names, NEW k \in Nat, BitSize = 8 * k, NumHashes <= 8,
         NEW i \in 0..(NumHashes - 1), NEW j \in 0..(NumHashes - 1), i < j
  PROVE  PositionOf(n, i) # PositionOf(n, j)
  <1> SUFFICES ASSUME PositionOf(n, i) = PositionOf(n, j) PROVE FALSE
    OBVIOUS
  <1> DEFINE h == Fnv1a[n] % BitSize
             a == h + i * OddStep(n)
             b == h + j * OddStep(n)
  <1>1. PICK y \in Nat : OddStep(n) = 2 * y + 1
    BY StepIsOdd
  <1>2. h \in Nat /\ i \in Nat /\ j \in Nat /\ j - i \in 1..7
    BY HashAssumption
  <1>3. a \in Nat /\ b \in Nat
    BY <1>1, <1>2
  <1>4. PICK q \in Int : b - a = BitSize * q
    <2>1. a % BitSize = b % BitSize
      BY DEF PositionOf
    <2> HIDE DEF a, b
    <2> QED BY <1>3, <2>1, EqualRemainders, HashAssumption
  <1>5. b - a = (j - i) * (2 * y + 1)
    BY <1>1, <1>2
  <1>6. BitSize * q = 8 * (k * q) /\ k * q \in Int
    BY <1>4
  <1>7. (j - i) * (2 * y + 1) = 8 * (k * q)
    BY <1>4, <1>5, <1>6
  <1> QED BY <1>1, <1>2, <1>6, <1>7, OddMultiples
=============================================================================
