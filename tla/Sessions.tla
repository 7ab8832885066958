------------------------------ MODULE Sessions ------------------------------
(***************************************************************************)
(* Logins, access tokens and their revocation (AuthService, JwtV1Strategy, *)
(* UniversalV1Guard, JwtRevocationService) around the handlers of          *)
(* Onboarding, which run for the requests the guard admits.                *)
(*                                                                         *)
(* Tokens carry whole seconds, the revocation of a user milliseconds: the  *)
(* clock counts ticks, TicksPerSecond to the second.  The signature of a   *)
(* token is not modelled: a client presents tokens that were issued.       *)
(***************************************************************************)
EXTENDS Onboarding, Sequences

CONSTANTS
    TicksPerSecond,
    AccessTTL,      \* JWT_ACCESS_TTL, 8 hours, in seconds
    TicketTTL,      \* JWT_TICKET_EXPIRES, 5 minutes, in seconds
    RevocationTTL,  \* REDIS_TTL_HOURS, 12 hours, in ticks
    MaxTokens, MaxTickets

ASSUME SessionsAssumption ==
    /\ TicksPerSecond \in Nat \ {0} /\ AccessTTL \in Nat /\ TicketTTL \in Nat
    /\ RevocationTTL \in Nat /\ RevocationTTL >= AccessTTL * TicksPerSecond
    /\ MaxTokens \in Nat /\ MaxTickets \in Nat

VARIABLES
    tokens,         \* the access tokens issued, in order; a token's jti is its index
    tickets,        \* the login tickets issued
    revokedTokens,  \* cache: jti -> the tick its entry ends
    revokedUsers,   \* cache: user -> [at, until]
    loggedOut       \* history: the last logout from all devices, by user

sessionVars == <<tokens, tickets, revokedTokens, revokedUsers, loggedOut>>
allVars == <<onboardingVars, sessionVars>>

Never == 0 - 1
NotRevoked == [at |-> Never, until |-> Never]

SessionsInit ==
    /\ OnboardingInit
    /\ tokens = <<>> /\ tickets = <<>>
    /\ revokedTokens = [k \in 1..MaxTokens |-> Never]
    /\ revokedUsers = [e \in Emails |-> NotRevoked]
    /\ loggedOut = [e \in Emails |-> Never]

-----------------------------------------------------------------------------
\* Mutant: Math.round for Math.floor.
Second_Rounded == (now + TicksPerSecond \div 2) \div TicksPerSecond

Second == now \div TicksPerSecond

\* generateUnifiedAccessToken; driver: the token names the driver profile.
\* register signs one without version and jti instead.
Issue(e, t, role, driver, ver) ==
    /\ Len(tokens) < MaxTokens
    /\ tokens' = Append(tokens, [user |-> e, tenant |-> t, role |-> role, driver |-> driver,
                                 ver |-> ver, iat |-> Second, exp |-> Second + AccessTTL])

IssueTicket(e) ==
    /\ Len(tickets) < MaxTickets
    /\ tickets' = Append(tickets, [user |-> e, exp |-> Second + TicketTTL])

Caches == <<revokedTokens, revokedUsers, loggedOut>>

\* AuthService.login: validateUser, then the memberships; t is the tenant the
\* client names, if any.
Login(e, t) ==
    /\ e \in users
    /\ \E m \in MembershipsOf(e) :
         /\ m.tenant = t \/ (t = NoOne /\ MembershipsOf(e) = {m})
         /\ Issue(e, m.tenant, m.role, FALSE, 1)
    /\ Call /\ UNCHANGED <<tables, requests, tickets, Caches>>

LoginToChoose(e) ==
    /\ e \in users
    /\ Cardinality(MembershipsOf(e)) > 1
    /\ IssueTicket(e)
    /\ Call /\ UNCHANGED <<tables, requests, tokens, Caches>>

\* loginDriverV1.  A user has one profile, so there is never a tenant to
\* choose; naming another one is refused.
LoginDriver(e) ==
    /\ e \in users
    /\ profiles[e].status = "ACTIVE"
    /\ Issue(e, profiles[e].tenant, "DRIVER", TRUE, 1)
    /\ Call /\ UNCHANGED <<tables, requests, tickets, Caches>>

TicketOf(k) == tickets[k].user
Fresh(k) == Second < tickets[k].exp

\* Mutant: the ticket is trusted, the membership is not read again.
Membership_Any(e, t) == {[user |-> e, tenant |-> t, role |-> "ADMIN"]}

Membership(e, t) == {m \in MembershipsOf(e) : m.tenant = t}

\* selectTenant: the ticket is good for any number of exchanges.
SelectTenant(k, t) ==
    /\ Fresh(k)
    /\ \E m \in Membership(TicketOf(k), t) : Issue(m.user, t, m.role, FALSE, 1)
    /\ Call /\ UNCHANGED <<tables, requests, tickets, Caches>>

\* selectTenantDriverV1 takes the same tickets.
SelectTenantDriver(k, t) ==
    /\ Fresh(k)
    /\ profiles[TicketOf(k)] = [tenant |-> t, status |-> "ACTIVE"]
    /\ Issue(TicketOf(k), t, "DRIVER", TRUE, 1)
    /\ Call /\ UNCHANGED <<tables, requests, tickets, Caches>>

\* The last insert of register, and its token.
RegisterAnswer(r) ==
    /\ RegisterMember(r)
    /\ Issue(requests[r].email, requests[r].tenant, "ADMIN", FALSE, 0)
    /\ UNCHANGED <<tickets, Caches>>

-----------------------------------------------------------------------------
\* JwtRevocationService: cache entries end by themselves.
IsTokenRevoked(k) == now < revokedTokens[k]

IsUserRevoked(e, iat) ==
    now < revokedUsers[e].until /\ iat * TicksPerSecond < revokedUsers[e].at

\* validatePayloadStructure; the expiry is checked by the JWT library.
WellFormed(token) == token.ver = 1 /\ (token.role = "DRIVER" => token.driver)

\* A request with a token.
Arrive(r, k) ==
    /\ At(r, "idle")
    /\ Call
    /\ Second < tokens[k].exp
    /\ WellFormed(tokens[k])
    /\ LET e == tokens[k].user
       IN  requests' = [requests EXCEPT ![r] =
             [Idle EXCEPT !.at = "arrived", !.user = e, !.tenant = tokens[k].tenant, !.token = k,
                          !.gone = loggedOut[e] > tokens[k].iat * TicksPerSecond,
                          !.barred = tokens[k].driver /\ profiles[e].status # "ACTIVE"]]
    /\ UNCHANGED <<tables, sessionVars>>

\* validate asks the cache for the token and for the user ...
CheckRevoked(r) ==
    /\ At(r, "arrived")
    /\ ~IsTokenRevoked(requests[r].token)
    /\ ~IsUserRevoked(requests[r].user, tokens[requests[r].token].iat)
    /\ Go(r, "checked")
    /\ UNCHANGED <<tables, counters, sessionVars>>

\* Mutant: drivers are checked like the others, by their membership.
Entitled_ByMembership(token) ==
    [user |-> token.user, tenant |-> token.tenant, role |-> token.role] \in members

\* ... and the database for the user's standing (validateDriverStatus,
\* validateAdminManagerStatus).
Entitled(token) ==
    IF token.role = "DRIVER"
    THEN profiles[token.user] = [tenant |-> token.tenant, status |-> "ACTIVE"]
    ELSE [user |-> token.user, tenant |-> token.tenant, role |-> token.role] \in members

CheckStanding(r) ==
    /\ At(r, "checked")
    /\ Entitled(tokens[requests[r].token])
    /\ Go(r, "accepted")
    /\ UNCHANGED <<tables, counters, sessionVars>>

\* revokeToken(jti, exp): an entry until the token expires.
RevokedToken(k, exp) ==
    IF exp # Never /\ exp > Second
    THEN [revokedTokens EXCEPT ![k] = exp * TicksPerSecond] ELSE revokedTokens

\* logoutDriver takes exp from req.user, where validate() puts none:
\* Math.max(undefined - now, 0) is NaN, and nothing is stored.
Logout(r) ==
    /\ At(r, "accepted")
    /\ revokedTokens' = RevokedToken(requests[r].token, Never)
    /\ Answer(r)
    /\ UNCHANGED <<tables, counters, tokens, tickets, revokedUsers, loggedOut>>

\* Mutant: the entry lives as long as the token of the request that made it.
RevokedUntil_CallersToken(r) == tokens[requests[r].token].exp * TicksPerSecond

RevokedUntil(r) == now + RevocationTTL

\* revokeAllUserTokens
LogoutAll(r) ==
    /\ At(r, "accepted")
    /\ LET e == requests[r].user
       IN  /\ revokedUsers' = [revokedUsers EXCEPT ![e] = [at |-> now, until |-> RevokedUntil(r)]]
           /\ loggedOut' = [loggedOut EXCEPT ![e] = now]
    /\ Answer(r)
    /\ UNCHANGED <<tables, counters, tokens, tickets, revokedTokens>>

\* No request waits for the cache longer than revocations outlive tokens (four
\* hours, with the defaults).
Patience(r) ==
    At(r, "arrived") => now < tokens[requests[r].token].iat * TicksPerSecond + RevocationTTL

Tick ==
    /\ now < MaxTime
    /\ \A r \in Requests : Patience(r)
    /\ now' = now + 1
    /\ UNCHANGED <<tables, requests, calls, deaths, nameless, sessionVars>>

-----------------------------------------------------------------------------
Enter ==
    \/ \E e \in Emails, t \in Tenants \union {NoOne} : Login(e, t)
    \/ \E e \in Emails : LoginToChoose(e) \/ LoginDriver(e)
    \/ \E k \in DOMAIN tickets, t \in Tenants : SelectTenant(k, t) \/ SelectTenantDriver(k, t)

Serve(r) ==
    \/ \E e \in Emails : Register(r, e) /\ UNCHANGED sessionVars
    \/ \E k \in DOMAIN tokens : Arrive(r, k)
    \/ CheckRevoked(r)
    \/ CheckStanding(r)
    \/ Logout(r)
    \/ LogoutAll(r)
    \/ Handle(r) /\ UNCHANGED sessionVars
    \/ RegisterAnswer(r)

SessionsNext == Tick \/ Enter \/ \E r \in Requests : Serve(r)

SessionsSpec == SessionsInit /\ [][SessionsNext]_allVars

-----------------------------------------------------------------------------
\* Rows and tokens have their types.
SessionsTypeOK ==
    /\ nameless \subseteq users /\ users \subseteq Emails /\ tenants \subseteq Tenants
    /\ members \subseteq [user : users, tenant : tenants, role : Roles]
    /\ profiles \in [Emails -> {NoProfile} \union [tenant : tenants, status : Statuses]]
    /\ \A r \in Requests : requests[r].token \in 0..Len(tokens)
    /\ \A k \in DOMAIN tokens : tokens[k].user \in users /\ tokens[k].iat * TicksPerSecond <= now
    /\ \A e \in Emails : revokedUsers[e].at <= now
    /\ now \in 0..MaxTime

\* The guard has let the request through.
Served(r) == requests[r].at \notin {"idle", "arrived", "checked", "register", "tenant", "membership"}

(* After "logout all devices" no token that the user held is accepted any  *)
(* more, for as long as it lives: the cache entry outlives every token     *)
(* issued before it, and a request that was already past the check when    *)
(* the user logged out is the only one that still runs                     *)
(* (jwt-revocation.service.ts:34-44, jwt-v1-strategy.ts:51-56).            *)
LogoutAllHolds == \A r \in Requests : Served(r) => ~requests[r].gone

(* A driver's request is served only if the profile was ACTIVE at some     *)
(* instant since the request arrived: once an admin's deactivation is      *)
(* committed, the tokens the driver still holds open nothing               *)
(* (jwt-v1-strategy.ts:146-163).                                           *)
DeactivationHolds == \A r \in Requests : Served(r) => ~requests[r].barred

(* Every token the guard can accept speaks for a row: a driver's for the   *)
(* user's own profile in that tenant, another for a membership with that   *)
(* role, whether a login, the exchange of an older ticket or registration  *)
(* issued it.                                                              *)
TokensAreBacked ==
    \A k \in DOMAIN tokens :
        IF tokens[k].driver THEN profiles[tokens[k].user].tenant = tokens[k].tenant
        ELSE [user |-> tokens[k].user, tenant |-> tokens[k].tenant, role |-> tokens[k].role] \in members
=============================================================================
