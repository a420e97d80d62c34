---------------------------- MODULE AccessProofs ----------------------------
(***************************************************************************)
(* Theorems about Access: what the guards decide, for any clients, realm,  *)
(* providers, failures and interleaving of calls with registrations.       *)
(***************************************************************************)
EXTENDS Access, RegistrationProofs

\* No user of the realm was created by a request.
NotSeeded == \A r \in created : NameOf[r] \notin Seeded

\* The provider's own tokens say what it granted, where it says so; who was
\* told 201 before the login was granted product:read.
TokenHonest ==
    token # None =>
        /\ token.ours => token.payload = Payload(provider, token.granted)
        /\ token.told => "product:read" \in token.granted

\* Who registered was granted nothing but reading.
ReadersOnly ==
    token # None /\ token.account \in {Account(r) : r \in Requests}
        => token.granted \subseteq {"product:read"}

\* A call that the guards let through to a guarded handler was granted it.
Admitted ==
    call # None /\ call.stage = "handler" /\ call.route \notin Public =>
        token # None /\ RequiredRoles(call.route) \subseteq token.granted

RegistrationInv ==
    FilterInv /\ Complete /\ Explained /\ FilteredExplained /\ NotSeeded
SessionInv ==
    SessionTypeOK /\ TokenHonest /\ ReadersOnly /\ Admitted /\ GrantsDecide

-----------------------------------------------------------------------------
\* Both invariants hold at first.
LEMMA InitAccess == AccessInit => RegistrationInv /\ SessionInv
  <1> SUFFICES ASSUME AccessInit PROVE RegistrationInv /\ SessionInv
    OBVIOUS
  <1>1. FilterInv
    BY InitFilter DEF AccessInit
  <1>2. Complete /\ Explained /\ FilteredExplained /\ NotSeeded
    BY InitComplete DEF AccessInit, Init, FilteredExplained, NotSeeded
  <1>3. SessionInv
    BY DEF AccessInit, SessionInv, SessionTypeOK, TokenHonest, ReadersOnly,
           Admitted, GrantsDecide
  <1> QED BY <1>1, <1>2, <1>3 DEF RegistrationInv

\* A step of a registration keeps what handlers and users agree on.
LEMMA RegistrationKeeps ==
  ASSUME RegistrationInv, NEW r \in Requests,
         RegistrationStep(r) \/ RegisterNotImplemented(r)
  PROVE  RegistrationInv'
  <1> USE DEF RegistrationInv
  <1>1. CASE RegistrationStep(r)
    <2>1. Next
      BY <1>1 DEF RegistrationStep, Next
    <2>2. FilterInv' /\ Complete' /\ Explained' /\ FilteredExplained'
      BY <2>1, NextFilter, CompleteStep, ExplainedStep, FilteredStep
    <2>3. NotSeeded'
      <3> USE DEF FilterInv, TypeOK, NotSeeded, keycloak
      <3>1. CASE Handler(r)
        BY <3>1 DEF Handler, Lookup, GetToken, CreateUser, GetRole, AssignRole,
                    SetBit, Added, Store, Free
      <3>2. CASE Failure(r)
        BY <3>2 DEF Failure, RedisFails, KeycloakFails, KeycloakReplyLost,
                    Crash, Store, Free
      <3> QED BY <1>1, <3>1, <3>2 DEF RegistrationStep
    <2> QED BY <2>2, <2>3
  <1>2. CASE RegisterNotImplemented(r)
    <2>1. TurnedAway(r)
      BY <1>2 DEF RegisterNotImplemented, TurnedAway
    <2>2. NotSeeded' /\ FilteredExplained'
      BY <2>1 DEF TurnedAway, NotSeeded, Go, keycloak, FilteredExplained,
                  FilterInv, TypeOK
    <2> QED BY <2>1, <2>2, TurnedAwayKeeps
  <1> QED BY <1>1, <1>2

\* The session's parts do not look at anything that such a step changes.
LEMMA SessionUntouched ==
  ASSUME SessionInv, UNCHANGED <<provider, token, call, reply>>
  PROVE  SessionInv'
  BY DEF SessionInv, SessionTypeOK, TokenHonest, ReadersOnly, Admitted,
         GrantsDecide, Payload, RequiredRoles

-----------------------------------------------------------------------------
(* The steps of a call. *)

\* An answer that decides nothing keeps every part.
LEMMA AnswerKeeps ==
  ASSUME SessionInv, call # None, NEW code \in Codes, Answer(code),
         code \in {200, 403} => call.route \in Public,
         UNCHANGED <<provider, token>>
  PROVE  SessionInv'
  <1> USE NoneAssumption DEF SessionInv, Answer
  <1>1. SessionTypeOK'
    BY DEF SessionTypeOK, CallRecords, Replies
  <1>2. TokenHonest' /\ ReadersOnly' /\ Admitted'
    BY DEF TokenHonest, ReadersOnly, Admitted, Payload
  <1>3. GrantsDecide'
    BY DEF GrantsDecide
  <1> QED BY <1>1, <1>2, <1>3

\* A call begins.
LEMMA ArriveKeeps ==
  ASSUME SessionInv, NEW route \in Routes,
         NEW account \in Credentials \union {None}, Arrive(route, account)
  PROVE  SessionInv'
  <1> USE NoneAssumption DEF SessionInv, Arrive, FirstStage
  <1>1. SessionTypeOK'
    BY DEF SessionTypeOK, CallRecords, Stages
  <1>2. TokenHonest' /\ ReadersOnly' /\ Admitted'
    BY DEF TokenHonest, ReadersOnly, Admitted, Payload
  <1>3. GrantsDecide'
    BY DEF GrantsDecide
  <1> QED BY <1>1, <1>2, <1>3

\* A call gets to its next stage; to the handler of a guarded route only with
\* the roles granted.
LEMMA AdvanceKeeps ==
  ASSUME SessionInv, call # None, NEW stage \in {"guards", "handler"},
         call' = [call EXCEPT !.stage = stage],
         stage = "handler" /\ call.route \notin Public =>
             token # None /\ RequiredRoles(call.route) \subseteq token.granted,
         UNCHANGED <<provider, token, reply>>
  PROVE  SessionInv'
  <1> USE NoneAssumption DEF SessionInv
  <1>1. call \in CallRecords
    BY DEF SessionTypeOK
  <1>2. /\ call' \in CallRecords /\ call'.route = call.route
        /\ call'.stage = stage
    BY <1>1 DEF CallRecords, Stages
  <1>3. SessionTypeOK'
    BY <1>2 DEF SessionTypeOK
  <1>4. Admitted'
    BY <1>2 DEF Admitted, RequiredRoles
  <1>5. TokenHonest' /\ ReadersOnly' /\ GrantsDecide'
    BY DEF TokenHonest, ReadersOnly, GrantsDecide, Payload, RequiredRoles
  <1> QED BY <1>3, <1>4, <1>5

\* The guards read the roles where the active provider puts them.
LEMMA RolesExtracted ==
  ASSUME SessionInv, Authenticated
  PROVE  ExtractRoles(token.payload) = token.granted
  <1>1. token # None /\ token.payload = Payload(provider, token.granted)
    BY DEF SessionInv, TokenHonest, Authenticated
  <1>2. provider \in {"keycloak", "entra-id"}
    BY ProviderAssumption DEF SessionInv, SessionTypeOK
  <1> QED BY <1>1, <1>2 DEF ExtractRoles, Payload

\* Whatever the guards decide about a call keeps the invariant of the session.
LEMMA GuardsKeep ==
  ASSUME SessionInv, Guards
  PROVE  SessionInv'
  <1> USE DEF Guards, Codes
  <1>1. CASE call.route \notin Public /\ ~Authenticated
    BY <1>1, AnswerKeeps
  <1> DEFINE Refused ==
               /\ RequiredRoles(call.route) # {}
               /\ ~(RequiredRoles(call.route) \subseteq
                        ExtractRoles(token.payload))
  <1>2. ASSUME ~(call.route \notin Public /\ ~Authenticated), Refused
        PROVE  SessionInv'
    <2>1. call.route \notin Public /\ Authenticated
      BY <1>2 DEF Public, RequiredRoles
    <2>2. ~(RequiredRoles(call.route) \subseteq token.granted)
      BY <1>2, <2>1, RolesExtracted
    <2>3. Answer(403) /\ UNCHANGED <<provider, token>>
      BY <1>2
    <2>4. SessionTypeOK'
      BY <2>3 DEF SessionInv, Answer, SessionTypeOK, CallRecords, Replies
    <2>5. TokenHonest' /\ ReadersOnly' /\ Admitted'
      BY <2>3 DEF SessionInv, Answer, TokenHonest, ReadersOnly, Admitted, Payload
    <2>6. GrantsDecide'
      BY <2>1, <2>2, <2>3 DEF Authenticated, Answer, GrantsDecide, RequiredRoles
    <2> QED BY <2>4, <2>5, <2>6 DEF SessionInv
  <1>3. ASSUME ~(call.route \notin Public /\ ~Authenticated), ~Refused
        PROVE  SessionInv'
    <2>1. ASSUME call.route \notin Public
          PROVE  token # None /\ RequiredRoles(call.route) \subseteq token.granted
      <3>1. Authenticated
        BY <1>3, <2>1
      <3>2. ExtractRoles(token.payload) = token.granted
        BY <3>1, RolesExtracted
      <3> QED BY <1>3, <3>1, <3>2 DEF Authenticated
    <2>2. /\ call # None /\ call' = [call EXCEPT !.stage = "handler"]
          /\ UNCHANGED <<provider, token, reply>>
      BY <1>3
    <2> QED BY <2>1, <2>2, AdvanceKeeps
  <1> QED BY <1>1, <1>2, <1>3

\* A handler answers a call that was admitted to it.
LEMMA HandlerKeeps ==
  ASSUME SessionInv, HandlerServes
  PROVE  SessionInv'
  <1> USE NoneAssumption DEF SessionInv, HandlerServes, Answer
  <1>1. SessionTypeOK'
    BY DEF SessionTypeOK, CallRecords, Replies, Codes
  <1>2. TokenHonest' /\ ReadersOnly' /\ Admitted'
    BY DEF TokenHonest, ReadersOnly, Admitted, Payload
  <1>3. GrantsDecide'
    BY DEF Admitted, GrantsDecide, RequiredRoles
  <1> QED BY <1>1, <1>2, <1>3

\* Whoever was told 201 by now is a reader whom no realm role covers, and
\* whoever registered at all is granted reading at most.
LEMMA GrantedByRegistration ==
  ASSUME RegistrationInv, NEW account \in Accounts
  PROVE  /\ Told(account) => "product:read" \in RolesOf(account.name)
         /\ account \in {Account(r) : r \in Requests}
              => RolesOf(account.name) \subseteq {"product:read"}
  <1> USE DEF RegistrationInv, Account
  <1>1. ASSUME Told(account) PROVE "product:read" \in RolesOf(account.name)
    <2>1. PICK r \in Requests : pc[r] = "registered" /\ account = Account(r)
      BY <1>1 DEF Told
    <2>2. r \in created /\ NameOf[r] \in readers /\ NameOf[r] \notin Seeded
      BY <2>1 DEF FilterInv, Creators, Complete, NotSeeded
    <2> QED BY <2>1, <2>2 DEF RolesOf
  <1>2. ASSUME NEW r \in Requests, account = Account(r)
        PROVE  RolesOf(account.name) \subseteq {"product:read"}
    <2>1. account.password # None
      BY <1>2, NoneAssumption
    <2>2. PICK s \in created : account = Account(s)
      BY <2>1 DEF Accounts, SeededAccounts
    <2>3. account.name \notin Seeded
      BY <2>2 DEF NotSeeded
    <2> QED BY <2>3 DEF RolesOf
  <1> QED BY <1>1, <1>2

\* A token is replaced between calls, or by the answer to a login.
LEMMA TokenKeeps ==
  ASSUME RegistrationInv, SessionInv,
         NEW account \in Accounts \union {None}, NEW roles \in SUBSET Roles,
         account # None => roles = RolesOf(account.name),
         token' = Issued(account, roles), call' = None,
         reply' = None \/ (reply' \in Replies /\ reply'.route \in Public),
         UNCHANGED provider
  PROVE  SessionInv'
  <1> USE NoneAssumption DEF SessionInv
  <1>1. account \in Credentials \union {None}
    BY NamesAssumption DEF RegistrationInv, FilterInv, TypeOK, Accounts, Credentials
  <1>2. Told(account) \in BOOLEAN /\ Payload(provider, roles) \in
          [realm_access : SUBSET Roles, roles : SUBSET Roles]
    BY DEF Told, Payload
  <1>3. token' \in Tokens
    BY <1>1, <1>2 DEF Issued, Tokens
  <1>4. SessionTypeOK'
    BY <1>3 DEF SessionTypeOK
  <1>5. Told(account) => account # None
    BY DEF Told, Credentials
  <1>6. TokenHonest'
    BY <1>5, GrantedByRegistration DEF TokenHonest, Issued, Payload
  <1>7. None \notin {Account(r) : r \in Requests}
    BY DEF Credentials
  <1>8. ReadersOnly'
    BY <1>7, GrantedByRegistration DEF ReadersOnly, Issued
  <1>9. Admitted' /\ GrantsDecide'
    BY DEF Admitted, GrantsDecide
  <1> QED BY <1>4, <1>6, <1>8, <1>9

\* So does a login, whatever it answers.
LEMMA LoginKeeps ==
  ASSUME RegistrationInv, SessionInv, LoginAnswers
  PROVE  SessionInv'
  <1> USE DEF LoginAnswers
  <1>1. call.route \in Public /\ call.route \in Routes
    BY DEF Public, Routes
  <1>2. CASE provider # "entra-id" /\ call.account \in Accounts
    <2>1. /\ Answer(200) /\ UNCHANGED provider
          /\ token' = Issued(call.account, RolesOf(call.account.name))
      BY <1>2
    <2>2. reply' \in Replies /\ reply'.route \in Public /\ call' = None
      BY <1>1, <2>1 DEF Answer, Replies, Codes
    <2>3. RolesOf(call.account.name) \in SUBSET Roles
      BY GrantsAssumption DEF RolesOf, Roles
    <2>4. call.account # None
      BY <1>2, NamesAssumption, NoneAssumption
      DEF Accounts, Credentials, RegistrationInv, FilterInv, TypeOK
    <2> QED BY <1>2, <2>1, <2>2, <2>3, <2>4, TokenKeeps
  <1>3. CASE ~(provider # "entra-id" /\ call.account \in Accounts)
    BY <1>1, <1>3, AnswerKeeps DEF Codes
  <1> QED BY <1>2, <1>3

\* A token that expires decides less; a foreign one decides nothing.
LEMMA OtherTokensKeep ==
  ASSUME RegistrationInv, SessionInv, TokenExpires \/ TokenFromElsewhere
  PROVE  SessionInv'
  <1> USE NoneAssumption
  <1>1. CASE TokenExpires
    <2>1. token \in Tokens
      BY <1>1 DEF TokenExpires, SessionInv, SessionTypeOK
    <2>2. /\ token' \in Tokens /\ token'.granted = token.granted
          /\ token'.told = token.told /\ token'.ours = token.ours
          /\ token'.payload = token.payload /\ token'.account = token.account
      BY <1>1, <2>1 DEF TokenExpires, Tokens
    <2>3. SessionTypeOK'
      BY <1>1, <2>2 DEF TokenExpires, SessionInv, SessionTypeOK
    <2>4. TokenHonest' /\ ReadersOnly'
      BY <1>1, <2>2 DEF TokenExpires, SessionInv, TokenHonest, ReadersOnly, Payload
    <2>5. /\ token # None /\ token' # None
          /\ UNCHANGED <<call, reply>>
      BY <1>1, <2>1, <2>2 DEF TokenExpires, Tokens
    <2>6. Admitted'
      BY <2>2, <2>5 DEF SessionInv, Admitted, RequiredRoles
    <2>7. GrantsDecide'
      BY <2>2, <2>5 DEF SessionInv, GrantsDecide, RequiredRoles
    <2> QED BY <2>3, <2>4, <2>6, <2>7 DEF SessionInv
  <1>2. CASE TokenFromElsewhere
    <2>1. /\ call = None /\ call' = None /\ reply' = None
          /\ UNCHANGED provider
      BY <1>2 DEF TokenFromElsewhere
    <2>2. CASE token' = Foreign
      <3>1. Foreign \in Tokens
        BY DEF Foreign, Tokens
      <3>2. SessionTypeOK'
        BY <2>1, <2>2, <3>1 DEF SessionInv, SessionTypeOK
      <3>3. TokenHonest' /\ ReadersOnly' /\ Admitted' /\ GrantsDecide'
        BY <2>1, <2>2 DEF Foreign, TokenHonest, ReadersOnly, Admitted, GrantsDecide
      <3> QED BY <3>2, <3>3 DEF SessionInv
    <2>3. ASSUME NEW roles \in SUBSET Roles, token' = Issued(None, roles)
          PROVE  SessionInv'
      BY <2>1, <2>3, TokenKeeps
    <2> QED BY <1>2, <2>2, <2>3 DEF TokenFromElsewhere
  <1> QED BY <1>1, <1>2

-----------------------------------------------------------------------------
\* Every step of either part keeps both invariants.
LEMMA NextAccess ==
  ASSUME RegistrationInv, SessionInv, [AccessNext]_accessVars
  PROVE  RegistrationInv' /\ SessionInv'
  <1>1. ASSUME NEW r \in Requests, RegistrationStep(r) \/ RegisterNotImplemented(r)
        PROVE  RegistrationInv' /\ SessionInv'
    <2>1. UNCHANGED <<provider, token, call, reply>>
      BY <1>1 DEF RegistrationStep, RegisterNotImplemented
    <2> QED BY <1>1, <2>1, RegistrationKeeps, SessionUntouched
  <1>2. ASSUME UNCHANGED registration PROVE RegistrationInv'
    BY <1>2 DEF registration, RegistrationInv, FilterInv, TypeOK, Creators,
                CreatedOnce, FilterBehindKeycloak, Complete, Explained,
                MightExist, FilteredExplained, NotSeeded
  <1>3. ASSUME NEW route \in Routes, NEW account \in Credentials \union {None},
               Arrive(route, account)
        PROVE  RegistrationInv' /\ SessionInv'
    BY <1>2, <1>3, ArriveKeeps DEF Arrive
  <1>4. CASE LimiterAnswers
    BY <1>2, <1>4, AnswerKeeps, AdvanceKeeps DEF LimiterAnswers, Codes
  <1>5. CASE LimiterFails \/ KeysUnavailable \/ LoginFails
    BY <1>2, <1>5, AnswerKeeps DEF LimiterFails, KeysUnavailable, LoginFails, Codes
  <1>6. CASE Guards
    BY <1>2, <1>6, GuardsKeep DEF Guards
  <1>7. CASE HandlerServes
    BY <1>2, <1>7, HandlerKeeps DEF HandlerServes
  <1>8. CASE LoginAnswers
    BY <1>2, <1>8, LoginKeeps DEF LoginAnswers
  <1>9. CASE TokenExpires \/ TokenFromElsewhere
    BY <1>2, <1>9, OtherTokensKeep DEF TokenExpires, TokenFromElsewhere
  <1>10. CASE UNCHANGED accessVars
    <2>1. UNCHANGED registration /\ UNCHANGED <<provider, token, call, reply>>
      BY <1>10 DEF accessVars, registration
    <2> QED BY <1>2, <2>1, SessionUntouched
  <1>11. "login" \in Routes
    BY DEF Routes
  <1> QED BY <1>1, <1>3, <1>4, <1>5, <1>6, <1>7, <1>8, <1>9, <1>10, <1>11
          DEF AccessNext

\* So they hold in every behaviour.
LEMMA AccessInvariance == AccessSpec => [](RegistrationInv /\ SessionInv)
  BY InitAccess, NextAccess, PTL DEF AccessSpec

\* Every variable keeps its type, and GET /ping is never limited.
THEOREM AccessTypeCorrect == AccessSpec => []AccessTypeOK
  <1>1. RegistrationInv /\ SessionInv => AccessTypeOK
    BY DEF RegistrationInv, FilterInv, SessionInv, AccessTypeOK
  <1> QED BY <1>1, AccessInvariance, PTL

\* With calls and logins in between, and with either provider, two requests
\* for one name are still never both told that they registered.
THEOREM RegisteredOnceInAccess == AccessSpec => []RegisteredOnce
  <1>1. RegistrationInv => RegisteredOnce
    BY DEF RegistrationInv, FilterInv, Creators, CreatedOnce, RegisteredOnce
  <1> QED BY <1>1, AccessInvariance, PTL

\* With either provider, a 201 means a user with the role and a full set of
\* bits, a 409 of the filter is explained by users, and a user without the role
\* by a request.
THEOREM AnswersCompleteInAccess ==
  AccessSpec => [](RegisteredComplete /\ FilteredExplained /\ RolelessExplained)
  <1>1. RegistrationInv =>
            RegisteredComplete /\ FilteredExplained /\ RolelessExplained
    BY AnswersComplete DEF RegistrationInv
  <1> QED BY <1>1, AccessInvariance, PTL

\* RolesGuard decides by what the identity provider granted.
THEOREM GrantsDecideHolds == AccessSpec => []GrantsDecide
  BY AccessInvariance, PTL DEF SessionInv

\* A login after the 201 always brings a token that can read.
THEOREM RegisteredCanReadHolds == AccessSpec => []RegisteredCanRead
  <1>1. RegistrationInv /\ SessionInv => RegisteredCanRead
    BY DEF SessionInv, TokenHonest, GrantsDecide, RegisteredCanRead,
           RequiredRoles, Public
  <1> QED BY <1>1, AccessInvariance, PTL

\* Registering never leads to a use-item or a reset.
THEOREM NewUsersOnlyReadHolds == AccessSpec => []NewUsersOnlyRead
  <1>1. RegistrationInv /\ SessionInv => NewUsersOnlyRead
    BY DEF SessionInv, ReadersOnly, GrantsDecide, NewUsersOnlyRead,
           RequiredRoles, Public
  <1> QED BY <1>1, AccessInvariance, PTL
=============================================================================
