----------------------------- MODULE AdminToken -----------------------------
(***************************************************************************)
(* KeycloakIdentityService.getAdminToken and the calls that register makes *)
(* with the token (src/src/auth/services/keycloak-identity.service.ts), in *)
(* one replica: replicas share nothing here.                               *)
(*                                                                         *)
(* A handler serves one registration after another.  Nothing keeps two of  *)
(* them from fetching a token at the same time, and nothing but its age    *)
(* takes a token out of the cache.  A step is an awaited call, or what     *)
(* Keycloak does for it; the clock, in ticks, may move between any two.    *)
(***************************************************************************)
EXTENDS Integers

CONSTANTS
    Handlers,   \* registrations under way at a time
    Life,       \* expires_in of an admin token (the realm's lifespan)
    Margin,     \* the 10 000 ms of getAdminToken
    MaxClock,   \* bound on the clock
    MaxKeys,    \* bound on the changes of Keycloak's keys
    None        \* no token

ASSUME TimesAssumption ==
    /\ Life \in Nat \ {0} /\ Margin \in Nat
    /\ MaxClock \in Nat /\ MaxKeys \in Nat

Times == 0..MaxClock

\* An access token: when it was signed, and with which of Keycloak's keys.
Tokens == [issued : Times, keys : 0..MaxKeys]
Cached == [token : Tokens, expiresAt : 0..(MaxClock + Life)]
ASSUME NoneAssumption == None \notin Tokens \union Cached

VARIABLES
    clock,    \* the time, the same for the replica and Keycloak
    keys,     \* Keycloak's current keys
    rekeyed,  \* when they were changed last
    cache,    \* this.adminToken
    pc,       \* the call each handler is about to make, or its outcome
    now,      \* Date.now() at the start of its getAdminToken
    token     \* the token it got

vars == <<clock, keys, rekeyed, cache, pc, now, token>>

AdminCalls == {"create", "getRole", "assign"}
\* no registration: the last one ended, or ended with a call answered 401
Free == {"idle", "refused"}
States == {"fetch", "store"} \union AdminCalls \union Free

Expiry(t) == t.issued + Life

\* Keycloak takes a token that it signed with its current keys, until exp.
Accepted(t) == t.keys = keys /\ clock < Expiry(t)

-----------------------------------------------------------------------------
Init ==
    /\ clock = 0
    /\ keys = 0
    /\ rekeyed = 0
    /\ cache = None
    /\ pc = [h \in Handlers |-> "idle"]
    /\ now = [h \in Handlers |-> 0]
    /\ token = [h \in Handlers |-> None]

Go(h, state) == pc' = [pc EXCEPT ![h] = state]

\* The registration is over, and its local variables with it.
Leave(h, state) ==
    /\ Go(h, state)
    /\ now' = [now EXCEPT ![h] = 0]
    /\ token' = [token EXCEPT ![h] = None]

NoMargin == cache # None /\ cache.expiresAt > clock   \* slip: no 10 seconds
NeverStale == cache # None                            \* slip: expiresAt unused
\* this.adminToken && this.adminToken.expiresAt > now + 10_000
Usable == cache # None /\ cache.expiresAt > clock + Margin

\* getAdminToken is called: the cached token, or a request for a new one.
Begin(h) ==
    /\ pc[h] \in Free
    /\ now' = [now EXCEPT ![h] = clock]
    /\ IF Usable
       THEN Go(h, "create") /\ token' = [token EXCEPT ![h] = cache.token]
       ELSE Go(h, "fetch") /\ UNCHANGED token
    /\ UNCHANGED <<clock, keys, rekeyed, cache>>

\* Keycloak signs a token.
Issue(h) ==
    /\ pc[h] = "fetch"
    /\ token' = [token EXCEPT ![h] = [issued |-> clock, keys |-> keys]]
    /\ Go(h, "store")
    /\ UNCHANGED <<clock, keys, rekeyed, cache, now>>

CountedFromReply(h) == clock + Life          \* slip: now read after the fetch
ExpiresAt(h) == now[h] + Life                \* now + expires_in * 1000

\* The answer arrives and is cached, whatever was cached in the meantime.
StoreToken(h) ==
    /\ pc[h] = "store"
    /\ cache' = [token |-> token[h], expiresAt |-> ExpiresAt(h)]
    /\ Go(h, "create")
    /\ UNCHANGED <<clock, keys, rekeyed, now, token>>

After(call) == IF call = "create" THEN "getRole" ELSE "assign"

\* createUser, or one of the two calls of assignRole, with the same token.
\* A 401 ends the registration; the cache is not touched.
AdminCall(h) ==
    /\ pc[h] \in AdminCalls
    /\ IF ~Accepted(token[h]) THEN Leave(h, "refused")
       ELSE IF pc[h] = "assign" THEN Leave(h, "idle")
       ELSE Go(h, After(pc[h])) /\ UNCHANGED <<now, token>>
    /\ UNCHANGED <<clock, keys, rekeyed, cache>>

\* A fetch rejects, or Keycloak refuses for another reason (409, 5xx).
Throws(h) ==
    /\ pc[h] \notin Free
    /\ Leave(h, "idle")
    /\ UNCHANGED <<clock, keys, rekeyed, cache>>

\* The replica starts again: cache and handlers are gone.
Restart ==
    /\ cache' = None
    /\ pc' = [h \in Handlers |-> "idle"]
    /\ now' = [h \in Handlers |-> 0]
    /\ token' = [h \in Handlers |-> None]
    /\ UNCHANGED <<clock, keys, rekeyed>>

\* Keycloak comes up with other keys: its realm was imported anew.
Rekey ==
    /\ keys < MaxKeys
    /\ keys' = keys + 1
    /\ rekeyed' = clock
    /\ UNCHANGED <<clock, cache, pc, now, token>>

Tick ==
    /\ clock < MaxClock
    /\ clock' = clock + 1
    /\ UNCHANGED <<keys, rekeyed, cache, pc, now, token>>

Registration(h) ==
    Begin(h) \/ Issue(h) \/ StoreToken(h) \/ AdminCall(h) \/ Throws(h)

Next ==
    \/ \E h \in Handlers : Registration(h)
    \/ Restart \/ Rekey \/ Tick

Spec == Init /\ [][Next]_vars

-----------------------------------------------------------------------------
(* Properties. *)

\* Every variable holds values of its kind.
TypeOK ==
    /\ clock \in Times /\ keys \in 0..MaxKeys /\ rekeyed \in Times
    /\ cache \in Cached \union {None}
    /\ pc \in [Handlers -> States]
    /\ now \in [Handlers -> Times]
    /\ token \in [Handlers -> Tokens \union {None}]

\* The cache never takes a token for valid longer than Keycloak does, however
\* long the answer with the token took.
CacheHonest == cache # None => cache.expiresAt <= Expiry(cache.token)

\* A step of a handler whose call was answered 401.
Refused(h) == pc[h] # "refused" /\ pc'[h] = "refused"

\* What a registration may take without its token running out on it.
Slack == IF Margin < Life THEN Margin ELSE Life

\* A registration is refused for the age of its token only when it had been
\* under way for the whole margin: the one check at its start is enough for
\* all three calls of a shorter one.
LateRefusalOnly ==
    [][\A h \in Handlers :
          Refused(h) /\ token[h].keys = keys => clock - now[h] >= Slack]_vars

\* How long the cache can hand out a token of keys that are gone.
Outage == IF Margin < Life THEN Life - Margin ELSE 0

\* Nothing drops a token that Keycloak stopped taking, yet registrations
\* come through again after a bounded time.
OutageBounded ==
    [][\A h \in Handlers :
          Refused(h) /\ token[h].keys # keys => now[h] <= rekeyed + Outage]_vars
=============================================================================
