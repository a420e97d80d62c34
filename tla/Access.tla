------------------------------- MODULE Access -------------------------------
(***************************************************************************)
(* Who gets in: the providers and guards of src/src/auth in front of the   *)
(* controllers, and POST /auth/login, composed with Registration.          *)
(*                                                                         *)
(* A caller, one of those who register, a user of the imported realm or    *)
(* somebody with a token from elsewhere, makes one call after another.  A  *)
(* call passes the rate limiter, JwtAuthGuard, RolesGuard and the handler; *)
(* a step is one of these up to its next await, and registrations go on in *)
(* between.  Bearer tokens carry the roles of the moment of the login.     *)
(* One caller is enough: calls share nothing but Keycloak's users.         *)
(***************************************************************************)
EXTENDS Registration

CONSTANTS
    ClientOf,   \* the client behind each registration: its password
    Grants,     \* the realm roles of the seeded users, composites expanded
    Providers,  \* the values of AUTH_PROVIDER_TYPE to start with
    None        \* no token, no call, no reply; the realm's own password

Roles == {"product:read", "product:write", "product:admin"}

ASSUME ClientAssumption == DOMAIN ClientOf = Requests
ASSUME GrantsAssumption ==
    /\ Grants \in [Seeded -> SUBSET Roles]
    /\ SeededReaders = {n \in Seeded : "product:read" \in Grants[n]}
ASSUME ProviderAssumption == Providers \subseteq {"keycloak", "entra-id"}

VARIABLES
    provider,  \* AUTH_PROVIDER_TYPE
    token,     \* the caller's access token, or None
    call,      \* the call under way, or None
    reply      \* what the last call was answered, or None

registration == <<bits, users, emails, readers, pc, adding, created>>
accessVars == <<bits, users, emails, readers, pc, adding, created,
                provider, token, call, reply>>

-----------------------------------------------------------------------------
(* The routes. *)

Routes == {"ping", "login", "use-item", "inventory", "reset"}

\* @Public() on the handler or on its class.
Public == {"ping", "login"}

\* forRoutes('auth'), forRoutes('product')
Limited == Routes \ {"ping"}
EverywhereLimited(route) == "limiter"   \* slip: forRoutes('*')
FirstStage(route) == IF route \in Limited THEN "limiter" ELSE "guards"

ClassRoles(route) == {}            \* slip: metadata of the class only
\* @Roles() of the handler; without it, authentication is enough.
RequiredRoles(route) ==
    CASE route = "use-item"  -> {"product:write"}
      [] route = "inventory" -> {"product:read"}
      [] route = "reset"     -> {"product:admin"}
      [] OTHER -> {}

-----------------------------------------------------------------------------
(* Accounts and tokens. *)

Account(r) == [name |-> NameOf[r], password |-> ClientOf[r]]
SeededAccounts == {[name |-> n, password |-> None] : n \in Seeded}
Credentials == {Account(r) : r \in Requests} \union SeededAccounts

\* A user has the password of the request that created it.
Accounts == {Account(r) : r \in created} \union SeededAccounts

RolesOf(n) ==
    IF n \in Seeded THEN Grants[n]
    ELSE IF n \in readers THEN {"product:read"} ELSE {}

\* Was the owner of the account told 201 by now?
Told(account) ==
    \E r \in Requests : pc[r] = "registered" /\ Account(r) = account

\* The claims that carry roles: realm_access.roles at Keycloak, roles at Entra.
Payload(p, roles) ==
    [realm_access |-> IF p = "keycloak" THEN roles ELSE {},
     roles |-> IF p = "entra-id" THEN roles ELSE {}]

\* ours: signed by the provider, its issuer, for this audience
Issued(account, roles) ==
    [account |-> account, granted |-> roles, told |-> Told(account),
     payload |-> Payload(provider, roles), ours |-> TRUE, live |-> TRUE]

\* A token of another issuer, or for another audience, with every role.
Foreign ==
    [account |-> None, granted |-> {}, told |-> FALSE,
     payload |-> [realm_access |-> Roles, roles |-> Roles],
     ours |-> FALSE, live |-> TRUE]

Stages == {"limiter", "guards", "handler"}
Codes == {200, 401, 403, 429, 500, 501}
Tokens ==
    [account : Credentials \union {None}, granted : SUBSET Roles,
     told : BOOLEAN, ours : BOOLEAN, live : BOOLEAN,
     payload : [realm_access : SUBSET Roles, roles : SUBSET Roles]]
CallRecords ==
    [route : Routes, account : Credentials \union {None}, stage : Stages]
Replies == [route : Routes, code : Codes]

ASSUME NoneAssumption ==
    /\ None \notin Tokens \union CallRecords \union Replies \union Credentials
    /\ \A r \in Requests : ClientOf[r] # None

RealmAccess(payload) == payload.realm_access   \* slip: whatever the provider
RolesClaim(payload) == payload.roles           \* slip: likewise

\* extractRoles of the provider that the factory of AUTH_PROVIDER selects
ExtractRoles(payload) ==
    IF provider = "entra-id" THEN payload.roles ELSE payload.realm_access

\* JwtStrategy: signature, issuer, audience and expiry
Authenticated == token # None /\ token.live /\ token.ours

-----------------------------------------------------------------------------
AccessInit ==
    /\ Init
    /\ provider \in Providers
    /\ token = None
    /\ call = None
    /\ reply = None

Answer(code) ==
    /\ reply' = [route |-> call.route, code |-> code]
    /\ call' = None

\* The caller sends a request; of the middleware, only the limiter awaits.
Arrive(route, account) ==
    /\ call = None
    /\ call' = [route |-> route, account |-> account,
                stage |-> FirstStage(route)]
    /\ reply' = None
    /\ UNCHANGED <<registration, provider, token>>

\* leakyBucket resolved: next() or 429, as the bucket has it.
LimiterAnswers ==
    /\ call # None /\ call.stage = "limiter"
    /\ \/ call' = [call EXCEPT !.stage = "guards"] /\ UNCHANGED reply
       \/ Answer(429)
    /\ UNCHANGED <<registration, provider, token>>

\* leakyBucket rejected.
LimiterFails ==
    /\ "redisError" \in Faults
    /\ call # None /\ call.stage = "limiter"
    /\ Answer(500)
    /\ UNCHANGED <<registration, provider, token>>

\* JwtAuthGuard, then RolesGuard.
Guards ==
    /\ call # None /\ call.stage = "guards"
    /\ IF call.route \notin Public /\ ~Authenticated THEN Answer(401)
       ELSE IF /\ RequiredRoles(call.route) # {}
               /\ ~(RequiredRoles(call.route) \subseteq
                        ExtractRoles(token.payload))
            THEN Answer(403)
            ELSE call' = [call EXCEPT !.stage = "handler"] /\ UNCHANGED reply
    /\ UNCHANGED <<registration, provider, token>>

\* No key to verify the token with: passport fails the authentication.
KeysUnavailable ==
    /\ "keycloakError" \in Faults
    /\ call # None /\ call.stage = "guards"
    /\ call.route \notin Public /\ token # None
    /\ Answer(401)
    /\ UNCHANGED <<registration, provider, token>>

\* A handler without a part in this module: served, whatever it answers.
HandlerServes ==
    /\ call # None /\ call.stage = "handler" /\ call.route # "login"
    /\ Answer(200)
    /\ UNCHANGED <<registration, provider, token>>

\* IDENTITY_SERVICE.login: of Keycloak, the roles of this moment; of Entra,
\* not implemented.
LoginAnswers ==
    /\ call # None /\ call.stage = "handler" /\ call.route = "login"
    /\ IF provider = "entra-id" THEN Answer(501) /\ UNCHANGED token
       ELSE IF call.account \in Accounts
            THEN /\ Answer(200)
                 /\ token' = Issued(call.account, RolesOf(call.account.name))
            ELSE Answer(401) /\ UNCHANGED token
    /\ UNCHANGED <<registration, provider>>

\* Keycloak refused for another reason, or could not be reached.
LoginFails ==
    /\ "keycloakError" \in Faults
    /\ call # None /\ call.stage = "handler" /\ call.route = "login"
    /\ provider = "keycloak"
    /\ Answer(500)
    /\ UNCHANGED <<registration, provider, token>>

\* The token's exp passes (accessTokenLifespan of the realm).
TokenExpires ==
    /\ token # None /\ token.live
    /\ token' = [token EXCEPT !.live = FALSE]
    /\ UNCHANGED <<registration, provider, call, reply>>

\* The caller takes a token from somewhere else: from the Entra tenant, with
\* the app roles of the portal, or from an issuer or for an audience that is
\* not this API's.
TokenFromElsewhere ==
    /\ call = None
    /\ \/ provider = "entra-id"
          /\ \E roles \in SUBSET Roles : token' = Issued(None, roles)
       \/ token' = Foreign
    /\ reply' = None
    /\ UNCHANGED <<registration, provider, call>>

\* IDENTITY_SERVICE.register of Entra: not implemented, 501.
RegisterNotImplemented(r) ==
    /\ provider = "entra-id"
    /\ pc[r] = "token"
    /\ Go(r, "failed")
    /\ UNCHANGED <<bits, keycloak, adding, created>>
    /\ UNCHANGED <<provider, token, call, reply>>

RegistrationStep(r) ==
    /\ pc[r] = "token" => provider = "keycloak"
    /\ Handler(r) \/ Failure(r)
    /\ UNCHANGED <<provider, token, call, reply>>

-----------------------------------------------------------------------------
AccessNext ==
    \/ \E r \in Requests : RegistrationStep(r) \/ RegisterNotImplemented(r)
    \/ \E route \in Routes \ {"login"} : Arrive(route, None)
    \/ \E account \in Credentials : Arrive("login", account)
    \/ LimiterAnswers \/ LimiterFails
    \/ Guards \/ KeysUnavailable
    \/ HandlerServes \/ LoginAnswers \/ LoginFails
    \/ TokenExpires \/ TokenFromElsewhere

AccessSpec == AccessInit /\ [][AccessNext]_accessVars

-----------------------------------------------------------------------------
(* Properties. *)

SessionTypeOK ==
    /\ provider \in Providers
    /\ token \in Tokens \union {None}
    /\ call \in CallRecords \union {None}
    /\ reply \in Replies \union {None}
    /\ call # None /\ call.stage = "limiter" => call.route \in Limited

\* Every variable holds values of its kind, and only a limited route waits for
\* the limiter: GET /ping stays the unlimited baseline.
AccessTypeOK == TypeOK /\ SessionTypeOK

\* Who was told 201 and logs in afterwards can read the inventory: however
\* the registration went, its token does not lack the role.
RegisteredCanRead ==
    reply # None /\ reply.route = "inventory" /\ reply.code = 403
        => ~token.told

\* Nobody gets further than reading by registering.
NewUsersOnlyRead ==
    reply # None /\ reply.code = 200 /\ reply.route \in {"use-item", "reset"}
        => token.account \notin {Account(r) : r \in Requests}

\* What the guards let through and what they refuse is what the identity
\* provider granted: the roles are read where the provider puts them, and
\* those of other issuers do not count.
GrantsDecide ==
    reply # None /\ reply.route \notin Public =>
        /\ reply.code = 200 =>
               token # None /\ RequiredRoles(reply.route) \subseteq token.granted
        /\ reply.code = 403 =>
               /\ token # None
               /\ ~(RequiredRoles(reply.route) \subseteq token.granted)
=============================================================================
