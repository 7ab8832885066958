----------------------------- MODULE Onboarding -----------------------------
(***************************************************************************)
(* Who belongs to a tenant: users, memberships, driver profiles and        *)
(* invitations, as AuthService.register, AdminDriverService and            *)
(* AdminInvitationService write them.  None of these operations uses a     *)
(* transaction: each INSERT or UPDATE is a step of its own, other requests *)
(* run in between, and a request may die at any of them.                   *)
(*                                                                         *)
(* A user is identified by the e-mail address, which is unique; a driver   *)
(* profile by its user, who is unique too.  No operation changes a user's  *)
(* status (it is ACTIVE from the start), removes a membership or accepts   *)
(* an invitation, so these are not part of the state.                      *)
(***************************************************************************)
EXTENDS Integers, FiniteSets

CONSTANTS
    Emails, Tenants, Invitations, Requests,
    Admin, Driver,          \* the seeded users
    Helsinki, Tampere,      \* the seeded tenants
    InvitationTTL,          \* seven days, in ticks
    MaxTime, MaxCalls, MaxDeaths

\* NULL, where a column or a local has no value.
NoOne == "none"

ASSUME OnboardingAssumption ==
    /\ NoOne \notin Emails \cup Tenants
    /\ Admin \in Emails /\ Driver \in Emails /\ Admin # Driver
    /\ {Helsinki, Tampere} \subseteq Tenants /\ Helsinki # Tampere
    /\ InvitationTTL \in Nat \ {0}
    /\ MaxTime \in Nat /\ MaxCalls \in Nat /\ MaxDeaths \in Nat

VARIABLES
    users,          \* User table: the addresses taken
    tenants,        \* Tenant table
    members,        \* Membership table: [user, tenant, role]
    profiles,       \* DriverProfile table, by user
    invitations,    \* Invitation table
    requests,       \* the requests in flight: their locals
    now,            \* the clock, in ticks
    calls,          \* requests that arrived so far
    deaths,         \* requests that died so far
    nameless        \* history: addresses whose registration named no tenant

tables == <<users, tenants, members, profiles, invitations>>
counters == <<now, calls, deaths, nameless>>
onboardingVars == <<tables, requests, counters>>

Roles == {"ADMIN", "MANAGER", "DRIVER"}
Statuses == {"INVITED", "ACTIVE", "INACTIVE"}
NoProfile == [tenant |-> NoOne, status |-> NoOne]
NoInvitation == [email |-> NoOne, tenant |-> NoOne, expires |-> 0, late |-> FALSE]

\* user and tenant are what the guard left in req.user.  gone, barred and
\* crossed are history: the session had been logged out when the request
\* arrived; its driver profile has not been ACTIVE since it arrived; another
\* invitation of the same address was being created at the same time.
Idle == [at |-> "idle", user |-> NoOne, tenant |-> NoOne, token |-> 0, email |-> NoOne,
         role |-> NoOne, invitation |-> NoOne, gone |-> FALSE, barred |-> FALSE,
         crossed |-> FALSE]

OnboardingInit ==
    /\ users = {Admin, Driver}
    /\ tenants = {Helsinki, Tampere}
    /\ members = {[user |-> Admin, tenant |-> Helsinki, role |-> "ADMIN"],
                  [user |-> Admin, tenant |-> Tampere, role |-> "ADMIN"],
                  [user |-> Driver, tenant |-> Helsinki, role |-> "DRIVER"]}
    /\ profiles = [e \in Emails |-> IF e = Driver THEN [tenant |-> Helsinki, status |-> "ACTIVE"]
                                                  ELSE NoProfile]
    /\ invitations = [i \in Invitations |-> NoInvitation]
    /\ requests = [r \in Requests |-> Idle]
    /\ now = 0 /\ calls = 0 /\ deaths = 0 /\ nameless = {}

-----------------------------------------------------------------------------
At(r, stage) == requests[r].at = stage
Go(r, stage) == requests' = [requests EXCEPT ![r].at = stage]
Answer(r) == requests' = [requests EXCEPT ![r] = Idle]
Call == calls < MaxCalls /\ calls' = calls + 1 /\ UNCHANGED <<now, deaths, nameless>>

MembershipsOf(e) == {m \in members : m.user = e}
Join(e, t, role) == members' = members \union {[user |-> e, tenant |-> t, role |-> role]}
AddUser(e) == users' = users \union {e}
AddProfile(e, t) == profiles' = [profiles EXCEPT ![e] = [tenant |-> t, status |-> "INVITED"]]

\* AuthService.register, a public route.  The address is looked up and the
\* password hashed; then user, tenant and membership are inserted.
Register(r, e) ==
    /\ At(r, "idle")
    /\ Call
    /\ e \notin users
    /\ requests' = [requests EXCEPT ![r] = [Idle EXCEPT !.at = "register", !.email = e]]
    /\ UNCHANGED tables

\* The unique e-mail address refuses the slower of two.
RegisterUser(r) ==
    /\ At(r, "register")
    /\ AddUser(requests[r].email)
    /\ IF requests[r].email \in users THEN Answer(r) ELSE Go(r, "tenant")
    /\ UNCHANGED <<tenants, members, profiles, invitations, counters>>

\* The tenant of the body is validated only when there is one: without it, reading
\* its name throws, and the user that has been inserted stays as it is.
RegisterNameless(r) ==
    /\ At(r, "tenant")
    /\ nameless' = nameless \union {requests[r].email}
    /\ Answer(r)
    /\ UNCHANGED <<tables, now, calls, deaths>>

RegisterTenant(r, t) ==
    /\ At(r, "tenant")
    /\ t \notin tenants
    /\ tenants' = tenants \union {t}
    /\ requests' = [requests EXCEPT ![r].at = "membership", ![r].tenant = t]
    /\ UNCHANGED <<users, members, profiles, invitations, counters>>

\* Mutant: the membership is left to the first login.
RegisterMember_Later(r) ==
    /\ At(r, "membership")
    /\ Answer(r)
    /\ UNCHANGED <<tables, counters>>

RegisterMember(r) ==
    /\ At(r, "membership")
    /\ Join(requests[r].email, requests[r].tenant, "ADMIN")
    /\ Answer(r)
    /\ UNCHANGED <<users, tenants, profiles, invitations, counters>>

-----------------------------------------------------------------------------
\* AdminDriverService.createDriver: user, membership and profile.
CreateDriver(r, e) ==
    /\ At(r, "accepted")
    /\ AddUser(e)
    /\ IF e \in users THEN Answer(r)
       ELSE requests' = [requests EXCEPT ![r].at = "driverMember", ![r].email = e]
    /\ UNCHANGED <<tenants, members, profiles, invitations, counters>>

DriverMember(r) ==
    /\ At(r, "driverMember")
    /\ Join(requests[r].email, requests[r].tenant, "DRIVER")
    /\ Go(r, "driverProfile")
    /\ UNCHANGED <<users, tenants, profiles, invitations, counters>>

DriverProfile(r) ==
    /\ At(r, "driverProfile")
    /\ AddProfile(requests[r].email, requests[r].tenant)
    /\ Answer(r)
    /\ UNCHANGED <<users, tenants, members, invitations, counters>>

\* AdminDriverService.updateDriver.  Nothing deletes a profile or moves it to
\* another tenant: what the check found still holds at the update.
UpdateDriver(r, e, status) ==
    /\ At(r, "accepted")
    /\ profiles[e].tenant = requests[r].tenant
    /\ profiles' = [profiles EXCEPT ![e].status = status]
    /\ requests' = [s \in Requests |->
         IF s = r THEN Idle
         ELSE [requests[s] EXCEPT !.barred = @ /\ ~(requests[s].user = e /\ status = "ACTIVE")]]
    /\ UNCHANGED <<users, tenants, members, invitations, counters>>

-----------------------------------------------------------------------------
\* Mutant: expiresAt: { lt: now }.
IsPending_Expired(i, t, e) ==
    /\ invitations[i].tenant = t /\ invitations[i].email = e
    /\ invitations[i].expires < now

IsPending(i, t, e) ==
    /\ invitations[i].tenant = t /\ invitations[i].email = e
    /\ invitations[i].expires > now

Inviting(t, e) ==
    {r \in Requests : /\ requests[r].at \in {"invite", "invitation"}
                      /\ requests[r].tenant = t /\ requests[r].email = e}

\* AdminInvitationService.createInvitation: the look for a pending one ...
Invite(r, e, role) ==
    /\ At(r, "accepted")
    /\ ~ \E i \in Invitations : IsPending(i, requests[r].tenant, e)
    /\ LET others == Inviting(requests[r].tenant, e)
       IN  requests' = [s \in Requests |->
             IF s = r THEN [requests[r] EXCEPT !.at = "invite", !.email = e, !.role = role,
                                               !.crossed = others # {}]
             ELSE [requests[s] EXCEPT !.crossed = @ \/ s \in others]]
    /\ UNCHANGED <<tables, counters>>

\* ... for a driver without a profile a new one, under the user who invites,
\* which the unique userId refuses from the second on ...
InviteProfile(r) ==
    /\ At(r, "invite")
    /\ requests[r].role = "DRIVER"
    /\ IF profiles[requests[r].user] = NoProfile
       THEN AddProfile(requests[r].user, requests[r].tenant) /\ Go(r, "invitation")
       ELSE Answer(r) /\ UNCHANGED profiles
    /\ UNCHANGED <<users, tenants, members, invitations, counters>>

\* ... for another role, or a driver whose profile the request names, none ...
InviteOnly(r) ==
    /\ At(r, "invite")
    /\ Go(r, "invitation")
    /\ UNCHANGED <<tables, counters>>

\* ... and the row.
InvitationWrite(r, i) ==
    /\ At(r, "invitation")
    /\ invitations[i] = NoInvitation
    /\ invitations' = [invitations EXCEPT ![i] =
         [email |-> requests[r].email, tenant |-> requests[r].tenant,
          expires |-> now + InvitationTTL, late |-> requests[r].crossed]]
    /\ Answer(r)
    /\ UNCHANGED <<users, tenants, members, profiles, counters>>

\* resendInvitation and cancelInvitation find the row of their tenant ...
Find(r, i, stage) ==
    /\ At(r, "accepted")
    /\ invitations[i] # NoInvitation /\ invitations[i].tenant = requests[r].tenant
    /\ requests' = [requests EXCEPT ![r].at = stage, ![r].invitation = i]
    /\ UNCHANGED <<tables, counters>>

\* ... and write it by id; Prisma throws when it is gone (P2025).
Resend(r) ==
    /\ At(r, "resend")
    /\ LET i == requests[r].invitation
       IN  invitations' = IF invitations[i] = NoInvitation THEN invitations
             ELSE [invitations EXCEPT ![i].expires = now + InvitationTTL, ![i].late = TRUE]
    /\ Answer(r)
    /\ UNCHANGED <<users, tenants, members, profiles, counters>>

Cancel(r) ==
    /\ At(r, "cancel")
    /\ invitations' = [invitations EXCEPT ![requests[r].invitation] = NoInvitation]
    /\ Answer(r)
    /\ UNCHANGED <<users, tenants, members, profiles, counters>>

\* A refusal, a handler that writes none of this, or a request that dies.
Leave(r) ==
    /\ ~At(r, "idle")
    /\ IF requests[r].at \in {"arrived", "checked", "accepted"}
       THEN UNCHANGED deaths
       ELSE deaths < MaxDeaths /\ deaths' = deaths + 1
    /\ Answer(r)
    /\ UNCHANGED <<tables, now, calls, nameless>>

Handle(r) ==
    \/ RegisterUser(r)
    \/ RegisterNameless(r)
    \/ \E t \in Tenants : RegisterTenant(r, t)
    \/ \E e \in Emails : CreateDriver(r, e)
    \/ DriverMember(r)
    \/ DriverProfile(r)
    \/ \E e \in Emails, status \in Statuses : UpdateDriver(r, e, status)
    \/ \E e \in Emails, role \in {"DRIVER", "MANAGER"} : Invite(r, e, role)
    \/ InviteProfile(r)
    \/ InviteOnly(r)
    \/ \E i \in Invitations : InvitationWrite(r, i)
    \/ \E i \in Invitations : Find(r, i, "resend")
    \/ \E i \in Invitations : Find(r, i, "cancel")
    \/ Resend(r)
    \/ Cancel(r)
    \/ Leave(r)

-----------------------------------------------------------------------------
\* The request holds a user who is not complete yet.
Making(e) == {r \in Requests :
    requests[r].email = e /\ requests[r].at \in {"tenant", "membership", "driverMember", "driverProfile"}}

\* A user without a tenant, who can neither log in nor register again, or a
\* driver without a profile, whom the admin cannot create again.
HalfMade(e) ==
    \/ MembershipsOf(e) = {}
    \/ profiles[e] = NoProfile /\ \E m \in MembershipsOf(e) : m.role = "DRIVER"

(* The users that register (auth.service.ts:471) and createDriver           *)
(* (admin-driver.service.ts:86) leave incomplete for ever are those whose  *)
(* registration named no tenant, and one for each request that died        *)
(* between two of its inserts.  Overlapping requests for the same address  *)
(* leave none.                                                             *)
StrandedAreExplained ==
    Cardinality({e \in users \ nameless : HalfMade(e) /\ Making(e) = {}}) <= deaths

(* Two pending invitations of one address in one tenant are the work of a  *)
(* resend that revived an expired one, or of two createInvitation calls    *)
(* that looked before either wrote (admin-invitation.service.ts:193).      *)
DuplicatesAreExplained ==
    \A i, j \in Invitations :
        /\ i # j
        /\ invitations[i] # NoInvitation /\ invitations[j] # NoInvitation
        /\ invitations[i].email = invitations[j].email
        /\ invitations[i].tenant = invitations[j].tenant
        /\ invitations[i].expires > now /\ invitations[j].expires > now
        => invitations[i].late \/ invitations[j].late

=============================================================================
