-------------------------- MODULE AdminTokenProofs --------------------------
(***************************************************************************)
(* Theorems about AdminToken, for any lifespan, margin and number of       *)
(* registrations at a time.                                                *)
(***************************************************************************)
EXTENDS AdminToken, TLAPS

\* A token is from the past, and one of earlier keys from before their change.
Dated(t) ==
    /\ t.issued <= clock /\ t.keys <= keys
    /\ t.keys # keys => t.issued <= rekeyed

CacheDated == cache # None => Dated(cache.token)

\* A token that was fetched for a registration is not older than it.
Fetched ==
    \A h \in Handlers : pc[h] = "store" =>
        /\ token[h] # None /\ Dated(token[h])
        /\ now[h] <= token[h].issued

\* A token that a registration calls Keycloak with was good for the margin,
\* or for its whole life, when the registration began.
GoodFor(h) ==
    /\ token[h] # None /\ Dated(token[h])
    /\ now[h] + Slack <= Expiry(token[h])
    /\ now[h] <= token[h].issued + Outage
HeldGood == \A h \in Handlers : pc[h] \in AdminCalls => GoodFor(h)

\* No registration began in the future.
BegunBefore == \A h \in Handlers : now[h] <= clock

Inv == TypeOK /\ CacheHonest /\ CacheDated /\ BegunBefore /\ Fetched /\ HeldGood

-----------------------------------------------------------------------------
\* The invariant holds at first.
LEMMA InitInv == Init => Inv
  BY TimesAssumption, NoneAssumption
  DEF Init, Inv, TypeOK, CacheHonest, CacheDated, BegunBefore, Fetched,
      HeldGood, Times, States, Free, AdminCalls

\* Steps that leave clock and keys alone leave dates as they are.
LEMMA SameDates ==
  ASSUME UNCHANGED <<clock, keys, rekeyed>>, NEW t
  PROVE  Dated(t)' = Dated(t)
  BY DEF Dated

\* A handler that ends keeps the invariant, whatever it answered.
LEMMA LeaveKeeps ==
  ASSUME Inv, NEW h \in Handlers, NEW state \in Free, Leave(h, state),
         UNCHANGED <<clock, keys, rekeyed, cache>>
  PROVE  Inv'
  <1> USE DEF Inv, Leave, Go
  <1>1. TypeOK'
    BY TimesAssumption DEF TypeOK, States, Times
  <1>2. CacheHonest' /\ CacheDated'
    BY DEF CacheHonest, CacheDated, Expiry, Dated
  <1>3. BegunBefore'
    BY DEF BegunBefore, TypeOK, Times
  <1>4. Fetched' /\ HeldGood'
    BY DEF Fetched, HeldGood, GoodFor, Dated, Expiry, Slack, Outage, TypeOK,
           Free, AdminCalls
  <1> QED BY <1>1, <1>2, <1>3, <1>4

\* A registration begins, with the cached token or without one.
LEMMA BeginKeeps ==
  ASSUME Inv, NEW h \in Handlers, Begin(h)
  PROVE  Inv'
  <1> USE DEF Inv, Begin, Go
  <1>1. TypeOK'
    BY TimesAssumption DEF TypeOK, States, Times, AdminCalls, Cached, Usable
  <1>2. CacheHonest' /\ CacheDated'
    BY DEF CacheHonest, CacheDated, Expiry, Dated
  <1>3. BegunBefore'
    BY DEF BegunBefore, TypeOK, Times
  <1>4. Fetched'
    BY DEF Fetched, Dated, TypeOK
  <1>5. ASSUME NEW g \in Handlers, pc'[g] \in AdminCalls PROVE GoodFor(g)'
    <2>1. CASE g # h
      BY <1>5, <2>1 DEF HeldGood, GoodFor, Dated, Expiry, Slack, Outage, TypeOK
    <2>2. CASE g = h
      <3>1. Usable /\ token'[g] = cache.token /\ now'[g] = clock
        BY <1>5, <2>2 DEF TypeOK, AdminCalls
      <3>2. /\ cache.token \in Tokens /\ Dated(cache.token)
            /\ cache.expiresAt \in Int
            /\ cache.expiresAt <= cache.token.issued + Life
        BY <3>1, TimesAssumption
        DEF Usable, TypeOK, Cached, CacheDated, CacheHonest, Expiry
      <3>3. /\ clock \in Int /\ cache.token.issued \in Int
            /\ clock + Margin < cache.token.issued + Life
        BY <3>1, <3>2, TimesAssumption DEF Usable, TypeOK, Tokens, Times
      <3>4. clock + Slack <= cache.token.issued + Life
        BY <3>3, TimesAssumption DEF Slack
      <3>5. clock <= cache.token.issued + Outage
        BY <3>2, <3>3, TimesAssumption DEF Outage, Dated
      <3> QED BY <3>1, <3>2, <3>4, <3>5, NoneAssumption
              DEF GoodFor, Dated, Expiry, Slack, Outage
    <2> QED BY <2>1, <2>2
  <1>6. HeldGood'
    BY <1>5 DEF HeldGood
  <1> QED BY <1>1, <1>2, <1>3, <1>4, <1>6

\* Keycloak signs the token of a fetch.
LEMMA IssueKeeps ==
  ASSUME Inv, NEW h \in Handlers, Issue(h)
  PROVE  Inv'
  <1> USE DEF Inv, Issue, Go
  <1> DEFINE t == [issued |-> clock, keys |-> keys]
  <1>1. t \in Tokens /\ t.issued = clock /\ t.keys = keys
    BY DEF TypeOK, Tokens
  <1>2. TypeOK'
    BY <1>1 DEF TypeOK, States
  <1>3. CacheHonest' /\ CacheDated' /\ BegunBefore'
    BY DEF CacheHonest, CacheDated, BegunBefore, Expiry, Dated
  <1>4. Fetched'
    BY <1>1, NoneAssumption DEF Fetched, Dated, TypeOK, Times, BegunBefore
  <1>5. HeldGood'
    BY DEF HeldGood, GoodFor, Dated, Expiry, Slack, Outage, TypeOK, AdminCalls
  <1> QED BY <1>2, <1>3, <1>4, <1>5

\* The fetched token is cached, with the time at which its handler began.
LEMMA StoreKeeps ==
  ASSUME Inv, NEW h \in Handlers, StoreToken(h)
  PROVE  Inv'
  <1> USE DEF Inv, StoreToken, Go
  <1>1. /\ token[h] \in Tokens /\ Dated(token[h])
        /\ now[h] <= token[h].issued /\ now[h] \in Times
        /\ token[h].issued \in Int
    BY DEF Fetched, TypeOK, Tokens, Times
  <1>2. /\ cache' \in Cached /\ cache'.token = token[h]
        /\ cache'.expiresAt = now[h] + Life
    BY <1>1, TimesAssumption DEF ExpiresAt, Cached, Times
  <1>3. TypeOK'
    BY <1>2 DEF TypeOK, States, AdminCalls
  <1>4. CacheHonest' /\ CacheDated'
    BY <1>1, <1>2, TimesAssumption
    DEF CacheHonest, CacheDated, Expiry, Dated, Times
  <1>5. BegunBefore' /\ Fetched'
    BY DEF BegunBefore, Fetched, Dated, TypeOK
  <1>6. GoodFor(h)'
    BY <1>1, TimesAssumption, NoneAssumption
    DEF GoodFor, Dated, Expiry, Slack, Outage, Times, TypeOK
  <1>7. HeldGood'
    BY <1>6 DEF HeldGood, GoodFor, Dated, Expiry, Slack, Outage, TypeOK
  <1> QED BY <1>3, <1>4, <1>5, <1>7

\* A call of the admin API is made, with the token of the one before.
LEMMA CallKeeps ==
  ASSUME Inv, NEW h \in Handlers, AdminCall(h)
  PROVE  Inv'
  <1>1. CASE ~Accepted(token[h]) \/ pc[h] = "assign"
    BY <1>1, LeaveKeeps DEF AdminCall, Free
  <1>2. CASE Accepted(token[h]) /\ pc[h] # "assign"
    <2> USE <1>2 DEF Inv, AdminCall, Go, After
    <2>1. TypeOK'
      BY DEF TypeOK, States, AdminCalls
    <2>2. CacheHonest' /\ CacheDated' /\ BegunBefore'
      BY DEF CacheHonest, CacheDated, BegunBefore, Expiry, Dated
    <2>3. Fetched' /\ HeldGood'
      BY DEF Fetched, HeldGood, GoodFor, Dated, Expiry, Slack, Outage, TypeOK,
             AdminCalls
    <2> QED BY <2>1, <2>2, <2>3
  <1> QED BY <1>1, <1>2

\* Time passes, or Keycloak changes its keys: what is dated stays dated.
LEMMA WorldKeeps ==
  ASSUME Inv, Rekey \/ Tick
  PROVE  Inv'
  <1> USE TimesAssumption DEF Inv
  <1>1. TypeOK'
    BY DEF Rekey, Tick, TypeOK, Times
  <1>2. UNCHANGED <<cache, pc, now, token>> /\ clock' >= clock
    BY DEF Rekey, Tick, TypeOK, Times
  <1>3. ASSUME NEW t \in Tokens, Dated(t) PROVE Dated(t)'
    BY <1>3 DEF Rekey, Tick, Dated, TypeOK, Times, Tokens
  <1>4. CacheHonest' /\ CacheDated'
    BY <1>2, <1>3 DEF CacheHonest, CacheDated, Expiry, TypeOK, Cached
  <1>5. BegunBefore'
    BY <1>1, <1>2 DEF BegunBefore, TypeOK, Times
  <1>6. Fetched' /\ HeldGood'
    BY <1>2, <1>3
    DEF Fetched, HeldGood, GoodFor, Expiry, Slack, Outage, TypeOK
  <1> QED BY <1>1, <1>4, <1>5, <1>6

\* Every step keeps the invariant.
LEMMA NextInv == Inv /\ [Next]_vars => Inv'
  <1> SUFFICES ASSUME Inv, [Next]_vars PROVE Inv'
    OBVIOUS
  <1>1. ASSUME NEW h \in Handlers, Registration(h) PROVE Inv'
    <2>1. CASE Throws(h)
      BY <2>1, LeaveKeeps DEF Throws, Free
    <2> QED BY <1>1, <2>1, BeginKeeps, IssueKeeps, StoreKeeps, CallKeeps
            DEF Registration
  <1>2. CASE Restart
    BY <1>2, TimesAssumption
    DEF Restart, Inv, TypeOK, CacheHonest, CacheDated, BegunBefore, Fetched,
        HeldGood, States, Free, AdminCalls, Times
  <1>3. CASE UNCHANGED vars
    BY <1>3 DEF vars, Inv, TypeOK, CacheHonest, CacheDated, BegunBefore,
                Fetched, HeldGood, GoodFor, Dated, Expiry, Slack, Outage
  <1> QED BY <1>1, <1>2, <1>3, WorldKeeps DEF Next

\* So it holds in every behaviour.
LEMMA Invariance == Spec => []Inv
  BY InitInv, NextInv, PTL DEF Spec

-----------------------------------------------------------------------------
\* Every variable keeps its type.
THEOREM TypeCorrect == Spec => []TypeOK
  BY Invariance, PTL DEF Inv

\* A cached token is never taken for valid longer than it is.
THEOREM CacheHonestHolds == Spec => []CacheHonest
  BY Invariance, PTL DEF Inv

\* Only a call of the admin API ends a registration with a 401.
LEMMA RefusedByCall ==
  ASSUME Inv, [Next]_vars, NEW h \in Handlers, Refused(h)
  PROVE  pc[h] \in AdminCalls /\ ~Accepted(token[h])
  <1> USE DEF Refused, Go, Leave
  <1>1. PICK g \in Handlers : Registration(g)
    BY DEF Next, vars, Restart, Rekey, Tick, Inv, TypeOK
  <1>2. AdminCall(g)
    BY <1>1 DEF Registration, Begin, Issue, StoreToken, Throws, Inv, TypeOK
  <1>3. g = h
    BY <1>2 DEF AdminCall, Inv, TypeOK
  <1> QED BY <1>2, <1>3 DEF AdminCall, After, Inv, TypeOK, AdminCalls

\* A token never runs out on a registration that is quicker than the margin.
THEOREM LateRefusalOnlyHolds == Spec => LateRefusalOnly
  <1> DEFINE Late == \A h \in Handlers :
                       Refused(h) /\ token[h].keys = keys => clock - now[h] >= Slack
  <1>1. ASSUME Inv, [Next]_vars, NEW h \in Handlers,
               Refused(h), token[h].keys = keys
        PROVE  clock - now[h] >= Slack
    <2>1. GoodFor(h) /\ clock >= Expiry(token[h])
      BY <1>1, RefusedByCall, TimesAssumption
      DEF Inv, HeldGood, Accepted, Expiry, TypeOK, Times, Tokens, GoodFor
    <2>2. /\ clock \in Int /\ now[h] \in Int /\ token[h].issued \in Int
          /\ Slack \in Int
      BY <1>1, <2>1, TimesAssumption
      DEF Inv, TypeOK, Times, Tokens, GoodFor, Slack
    <2> QED BY <2>1, <2>2, TimesAssumption DEF GoodFor, Expiry
  <1>2. Inv /\ [Next]_vars => Late
    BY <1>1
  <1> QED BY <1>2, Invariance, PTL DEF Spec, LateRefusalOnly

\* The cache hands out tokens of keys that are gone for Outage at most.
THEOREM OutageBoundedHolds == Spec => OutageBounded
  <1> DEFINE Over == \A h \in Handlers :
                       Refused(h) /\ token[h].keys # keys => now[h] <= rekeyed + Outage
  <1>1. ASSUME Inv, [Next]_vars, NEW h \in Handlers,
               Refused(h), token[h].keys # keys
        PROVE  now[h] <= rekeyed + Outage
    <2>1. GoodFor(h)
      BY <1>1, RefusedByCall DEF Inv, HeldGood
    <2>2. /\ now[h] \in Int /\ token[h].issued \in Int /\ rekeyed \in Int
          /\ Outage \in Int
      BY <1>1, <2>1, TimesAssumption
      DEF Inv, TypeOK, Times, Tokens, GoodFor, Outage
    <2> QED BY <1>1, <2>1, <2>2 DEF GoodFor, Dated
  <1>2. Inv /\ [Next]_vars => Over
    BY <1>1
  <1> QED BY <1>2, Invariance, PTL DEF Spec, OutageBounded
=============================================================================
