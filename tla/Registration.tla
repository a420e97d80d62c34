---------------------------- MODULE Registration ----------------------------
(***************************************************************************)
(* POST /auth/register (src/src/auth/auth.controller.ts): the Bloom filter *)
(* of usernames in Redis (bloom-filter.service.ts) in front of the admin   *)
(* API of Keycloak (services/keycloak-identity.service.ts).                *)
(*                                                                         *)
(* Each request is one execution of the handler, on any replica; a client  *)
(* that tries again is another request for the same name.  A step is one   *)
(* awaited call.  The GETBITs of a look-up are one step: bits are only     *)
(* ever set, so a look-up that found every bit set is a look-up at its     *)
(* end, and one that found a bit clear is a look-up at that moment.  The   *)
(* SETBITs of an addition are sent together and are a step each.           *)
(***************************************************************************)
EXTENDS Integers, FiniteSets

CONSTANTS
    Requests,    \* executions of the handler
    Names,       \* usernames
    NameOf,      \* the username each request asks for
    EmailOf,     \* the e-mail address each request gives
    Fnv1a,       \* the first hash of each username
    Djb2,        \* the second hash of each username
    BitSize,     \* BIT_SIZE
    NumHashes,   \* NUM_HASHES
    Seeded,      \* users of the imported realm, who never registered
    SeededReaders,  \* those of them that the realm gives product:read
    SeededEmails,   \* the addresses that the realm gives them
    Faults       \* the failures that can occur

FaultKinds == {"redisError", "keycloakError", "replyLost", "crash"}

ASSUME NamesAssumption ==
    /\ IsFiniteSet(Requests) /\ IsFiniteSet(Names)
    /\ NameOf \in [Requests -> Names]
    /\ DOMAIN EmailOf = Requests
    /\ Seeded \subseteq Names /\ SeededReaders \subseteq Seeded
ASSUME HashAssumption ==
    /\ BitSize \in Nat \ {0} /\ NumHashes \in Nat \ {0}
    /\ Fnv1a \in [Names -> Nat] /\ Djb2 \in [Names -> Nat]
ASSUME FaultAssumption == Faults \subseteq FaultKinds

-----------------------------------------------------------------------------
(* Double hashing. *)

\* The step between positions is odd.
OddStep(n) ==
    LET raw == Djb2[n] % BitSize IN IF raw % 2 = 0 THEN raw + 1 ELSE raw
PositionOf(n, i) == ((Fnv1a[n] % BitSize) + i * OddStep(n)) % BitSize

\* The filter's bits of each username.
Positions == [n \in Names |-> {PositionOf(n, i) : i \in 0..(NumHashes - 1)}]
Bits == UNION {Positions[n] : n \in Names}

-----------------------------------------------------------------------------
VARIABLES
    bits,     \* the bits set under 'bloom:usernames'
    users,    \* the users in Keycloak
    emails,   \* their addresses, unique in the realm
    readers,  \* the users with the role product:read
    pc,       \* the call each handler is about to make, or its outcome
    adding,   \* the requests that have sent their SETBITs
    created   \* the requests whose POST created the user (history)

vars == <<bits, users, emails, readers, pc, adding, created>>

keycloak == <<users, emails, readers>>

KeycloakCalls == {"token", "create", "getRole", "assign"}
Calls == {"lookup", "add"} \union KeycloakCalls
\* 201; 409 from Keycloak; 409 from the filter; 500; no answer
Ended == {"registered", "taken", "filtered", "failed", "crashed"}
States == Calls \union Ended

AllEnded == \A r \in Requests : pc[r] \in Ended

Init ==
    /\ bits = {}
    /\ users = Seeded
    /\ emails = SeededEmails
    /\ readers = SeededReaders
    /\ pc = [r \in Requests |-> "lookup"]
    /\ adding = {}
    /\ created = {}

Go(r, state) == pc' = [pc EXCEPT ![r] = state]

-----------------------------------------------------------------------------
SomeBitSet(n) == Positions[n] \cap bits # {}      \* slip: some for every

\* bloomFilter.mightExist: bits.every(bit => bit === 1)
MightExist(n) == Positions[n] \subseteq bits

Lookup(r) ==
    /\ pc[r] = "lookup"
    /\ Go(r, IF MightExist(NameOf[r]) THEN "filtered" ELSE "token")
    /\ UNCHANGED <<bits, keycloak, adding, created>>

\* getAdminToken resolved, from the cache or from Keycloak.
GetToken(r) ==
    /\ pc[r] = "token"
    /\ Go(r, "create")
    /\ UNCHANGED <<bits, keycloak, adding, created>>

\* Keycloak takes a name once and an address once, and answers 409 for both.
Free(r) == NameOf[r] \notin users /\ EmailOf[r] \notin emails
Store(r) ==
    /\ users' = users \union {NameOf[r]}
    /\ emails' = emails \union {EmailOf[r]}
    /\ created' = created \union {r}

ConflictIgnored == "getRole"                      \* slip: no look at 409
AfterConflict == "taken"

\* createUser: 201, or 409 "Username is already taken".
CreateUser(r) ==
    /\ pc[r] = "create"
    /\ IF Free(r)
       THEN Store(r) /\ Go(r, "getRole")
       ELSE Go(r, AfterConflict) /\ UNCHANGED <<users, emails, created>>
    /\ UNCHANGED <<bits, readers, adding>>

\* assignRole, the first call: the role's representation.
GetRole(r) ==
    /\ pc[r] = "getRole"
    /\ Go(r, "assign")
    /\ UNCHANGED <<bits, keycloak, adding, created>>

\* assignRole, the second call; bloomFilter.add then sends its SETBITs.
AssignRole(r) ==
    /\ pc[r] = "assign"
    /\ readers' = readers \union {NameOf[r]}
    /\ adding' = adding \union {r}
    /\ Go(r, "add")
    /\ UNCHANGED <<bits, users, emails, created>>

\* Redis runs a SETBIT, whatever became of the handler that sent it.
SetBit(r) ==
    /\ r \in adding
    /\ \E b \in Positions[NameOf[r]] \ bits : bits' = bits \union {b}
    /\ UNCHANGED <<keycloak, pc, adding, created>>

FirstConfirmed(r) == TRUE                         \* slip: does not wait for all
AllConfirmed(r) == Positions[NameOf[r]] \subseteq bits

\* Every SETBIT was confirmed: 201.
Added(r) ==
    /\ pc[r] = "add"
    /\ AllConfirmed(r)
    /\ Go(r, "registered")
    /\ UNCHANGED <<bits, keycloak, adding, created>>

-----------------------------------------------------------------------------
(* Failures: everything that throws ends the handler with a 500. *)

\* A Redis command rejected; of an addition, some bits may have been set.
RedisFails(r) ==
    /\ "redisError" \in Faults
    /\ pc[r] \in {"lookup", "add"}
    /\ Go(r, "failed")
    /\ UNCHANGED <<bits, keycloak, adding, created>>

CreateUnchecked(r) ==                             \* slip: res.ok not tested
    IF pc[r] = "create" THEN "getRole" ELSE "failed"
AssignUnchecked(r) ==                             \* slip: res.ok not tested
    IF pc[r] = "assign" THEN "add" ELSE "failed"
AfterRefusal(r) == "failed"

\* Keycloak refused, or could not be reached.
KeycloakFails(r) ==
    /\ "keycloakError" \in Faults
    /\ pc[r] \in KeycloakCalls
    /\ Go(r, AfterRefusal(r))
    /\ UNCHANGED <<bits, keycloak, adding, created>>

\* Keycloak did what it was asked and the answer never came.
KeycloakReplyLost(r) ==
    /\ "replyLost" \in Faults
    /\ \/ /\ pc[r] = "create" /\ Free(r)
          /\ Store(r)
          /\ UNCHANGED readers
       \/ /\ pc[r] = "assign"
          /\ readers' = readers \union {NameOf[r]}
          /\ UNCHANGED <<users, emails, created>>
    /\ Go(r, "failed")
    /\ UNCHANGED <<bits, adding>>

Crash(r) ==
    /\ "crash" \in Faults
    /\ pc[r] \notin Ended
    /\ Go(r, "crashed")
    /\ UNCHANGED <<bits, keycloak, adding, created>>

-----------------------------------------------------------------------------
Handler(r) ==
    \/ Lookup(r) \/ GetToken(r) \/ CreateUser(r) \/ GetRole(r)
    \/ AssignRole(r) \/ SetBit(r) \/ Added(r)

Failure(r) ==
    RedisFails(r) \/ KeycloakFails(r) \/ KeycloakReplyLost(r) \/ Crash(r)

\* Every request was answered or lost: the model has nothing left to do.
Finished == AllEnded /\ UNCHANGED vars

Next ==
    \/ \E r \in Requests : Handler(r) \/ Failure(r)
    \/ Finished

Spec == Init /\ [][Next]_vars

-----------------------------------------------------------------------------
(* Properties. *)

\* Every variable holds values of its kind, and Keycloak forgets nobody.
TypeOK ==
    /\ bits \subseteq Bits
    /\ Seeded \subseteq users /\ users \subseteq Names
    /\ emails \subseteq SeededEmails \union {EmailOf[r] : r \in Requests}
    /\ readers \subseteq users
    /\ pc \in [Requests -> States]
    /\ adding \subseteq Requests
    /\ created \subseteq Requests

\* Of all the requests for a name, however they race past the filter, at
\* most one is told that it registered.
RegisteredOnce ==
    \A r, s \in Requests :
        r # s /\ NameOf[r] = NameOf[s] /\ pc[r] = "registered"
            => pc[s] # "registered"

\* Who is told 201 is a user of Keycloak, may read, and is in the filter, so
\* that the next request for the name is stopped there.
RegisteredComplete ==
    \A r \in Requests : pc[r] = "registered" =>
        /\ NameOf[r] \in readers
        /\ MightExist(NameOf[r])

\* A request is refused by the filter only when users account for every bit
\* of its name: it is the name of a user, or a false positive.
FilteredExplained ==
    \A r \in Requests : pc[r] = "filtered" =>
        Positions[NameOf[r]] \subseteq UNION {Positions[n] : n \in users}

\* A name that the filter refuses is the name of a user.
FilterTruthful ==
    \A r \in Requests : pc[r] = "filtered" => NameOf[r] \in users

\* Bits are set for users that Keycloak created only, never for a name that
\* is still free: the filter is written after Keycloak.
FilterBehindKeycloak == bits \subseteq UNION {Positions[n] : n \in users}

\* A user who registered and has no role exists only behind a request that
\* broke off or is still under way.
RolelessExplained ==
    \A n \in users \ (readers \union Seeded) : \E r \in created :
        NameOf[r] = n /\ pc[r] \in {"getRole", "assign", "failed", "crashed"}
=============================================================================
