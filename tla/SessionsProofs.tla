--------------------------- MODULE SessionsProofs ---------------------------
(***************************************************************************)
(* For any number of users, tenants, requests and tokens, and any clock:   *)
(* every token speaks for a row, a logout from all devices and a driver's  *)
(* deactivation hold, a user is left half made only by a request that died *)
(* or named no tenant, and two pending invitations of one address are      *)
(* explained.                                                              *)
(*                                                                         *)
(* The invariant follows a request through the guard and its handler: the  *)
(* session it runs for is one of the tokens, a request that waits for the  *)
(* cache has waited less than a revocation lives, the request that makes a *)
(* user is the only one that does, and a request that invites either knows *)
(* of every other one or finds no pending invitation but revived ones.     *)
(***************************************************************************)
EXTENDS Sessions, SequenceTheorems, FiniteSetTheorems, TLAPS

Stages == {"idle", "arrived", "checked", "accepted", "register", "tenant", "membership",
           "driverMember", "driverProfile", "invite", "invitation", "resend", "cancel"}
Public == {"idle", "register", "tenant", "membership"}
InMaking == {"tenant", "membership", "driverMember", "driverProfile"}

RequestRec == [at : Stages, user : Emails \cup {NoOne}, tenant : Tenants \cup {NoOne},
               token : Nat, email : Emails \cup {NoOne}, role : Roles \cup {NoOne},
               invitation : Invitations \cup {NoOne}, gone : BOOLEAN, barred : BOOLEAN,
               crossed : BOOLEAN]
InvitationRec == [email : Emails \cup {NoOne}, tenant : Tenants \cup {NoOne},
                  expires : Int, late : BOOLEAN]
TokenRec == [user : Emails, tenant : Tenants, role : Roles, driver : BOOLEAN,
             ver : {0, 1}, iat : Nat, exp : Int]
TicketRec == [user : Emails, exp : Int]

Rows ==
    /\ users \subseteq Emails /\ IsFiniteSet(users) /\ tenants \subseteq Tenants
    /\ members \subseteq [user : users, tenant : tenants, role : Roles]
    /\ profiles \in [Emails -> {NoProfile} \cup [tenant : tenants, status : Statuses]]
    /\ invitations \in [Invitations -> InvitationRec]
    /\ requests \in [Requests -> RequestRec]
    /\ now \in 0..MaxTime /\ deaths \in Nat /\ nameless \subseteq users

Caching ==
    /\ tokens \in Seq(TokenRec) /\ tickets \in Seq(TicketRec)
    /\ \A k \in DOMAIN tickets : tickets[k].user \in users
    /\ revokedUsers \in [Emails -> [at : Int, until : Int]]
    /\ loggedOut \in [Emails -> Int]

\* A token speaks for a row.
Backed(token) ==
    /\ token.user \in users /\ token.tenant \in tenants
    /\ token.iat * TicksPerSecond <= now /\ token.exp = token.iat + AccessTTL
    /\ IF token.driver
       THEN token.role = "DRIVER" /\ profiles[token.user].tenant = token.tenant
       ELSE [user |-> token.user, tenant |-> token.tenant, role |-> token.role] \in members

Tokens == \A k \in DOMAIN tokens : Backed(tokens[k])

\* A request past its arrival runs for the session of its token.
InSession(r) ==
    /\ requests[r].token \in DOMAIN tokens
    /\ requests[r].user = tokens[requests[r].token].user
    /\ requests[r].tenant = tokens[requests[r].token].tenant
    /\ WellFormed(tokens[requests[r].token])

InSessions ==
    \A r \in Requests :
        /\ requests[r].at \notin Public => InSession(r)
        /\ requests[r].at \in Public =>
              requests[r].token = 0 /\ ~requests[r].gone /\ ~requests[r].barred
        /\ requests[r].at = "register" => requests[r].email \in Emails

\* The user that a request is making is known, by nobody else, and has nothing but
\* what the request has made so far.
Makers ==
    /\ \A e \in Emails \ users : profiles[e] = NoProfile
    /\ \A r \in Requests : requests[r].at \in InMaking =>
          /\ requests[r].email \in users
          /\ profiles[requests[r].email] = NoProfile
    /\ \A r \in Requests : requests[r].at \in {"tenant", "membership", "driverMember"} =>
          MembershipsOf(requests[r].email) = {}
    /\ \A r \in Requests : requests[r].at = "membership" => requests[r].tenant \in tenants
    /\ \A r \in Requests : requests[r].at = "driverProfile" =>
          /\ MembershipsOf(requests[r].email) # {}
          /\ \A m \in MembershipsOf(requests[r].email) : m.role = "DRIVER"
    /\ \A r, s \in Requests :
          requests[r].at \in InMaking /\ requests[s].at \in InMaking
             /\ requests[r].email = requests[s].email => r = s

\* What the cache knows of a logout from all devices, and how long a request has
\* waited for the cache.
Revocation ==
    /\ \A e \in Emails :
          /\ revokedUsers[e].at = loggedOut[e] /\ loggedOut[e] <= now
          /\ loggedOut[e] # Never => revokedUsers[e].until = loggedOut[e] + RevocationTTL
    /\ \A r \in Requests : requests[r].at # "arrived" => ~requests[r].gone
    /\ \A r \in Requests : requests[r].at = "arrived" =>
          LET iat == tokens[requests[r].token].iat IN
          /\ now <= iat * TicksPerSecond + RevocationTTL
          /\ requests[r].gone => iat * TicksPerSecond < loggedOut[requests[r].user]

Deactivation ==
    \A r \in Requests : requests[r].barred =>
        /\ requests[r].at \in {"arrived", "checked"}
        /\ tokens[requests[r].token].driver
        /\ profiles[requests[r].user].status # "ACTIVE"

Invites(r) == requests[r].at \in {"invite", "invitation"}
SameInvitation(r, s) ==
    requests[r].tenant = requests[s].tenant /\ requests[r].email = requests[s].email

\* A request that invites, and another, or a pending invitation, for the same.
Inviters ==
    /\ \A r, s \in Requests :
          r # s /\ Invites(r) /\ Invites(s) /\ SameInvitation(r, s) => requests[r].crossed
    /\ \A r \in Requests, i \in Invitations :
          Invites(r) /\ IsPending(i, requests[r].tenant, requests[r].email) =>
             requests[r].crossed \/ invitations[i].late

SessionInv ==
    /\ Rows /\ Caching /\ Tokens /\ InSessions /\ Makers /\ Revocation /\ Deactivation
    /\ Inviters /\ DuplicatesAreExplained /\ StrandedAreExplained

-----------------------------------------------------------------------------
\* What a step does to the locals of the requests.
LEMMA IdleType == Idle \in RequestRec /\ Idle.at = "idle"
  BY DEF Idle, RequestRec, Stages

LEMMA RequestSet ==
    ASSUME Rows, NEW r \in Requests, NEW rec \in RequestRec,
           requests' = [requests EXCEPT ![r] = rec]
    PROVE  /\ requests' \in [Requests -> RequestRec] /\ requests'[r] = rec
           /\ \A s \in Requests \ {r} : requests'[s] = requests[s]
  BY DEF Rows

LEMMA AnswerSet ==
    ASSUME Rows, NEW r \in Requests, Answer(r)
    PROVE  /\ requests' \in [Requests -> RequestRec] /\ requests'[r] = Idle
           /\ requests'[r].at = "idle"
           /\ \A s \in Requests \ {r} : requests'[s] = requests[s]
  BY IdleType, RequestSet DEF Answer

\* The request goes on: only its stage, and here its tenant, address, role or
\* invitation, are new.
SameSession(r) ==
    /\ requests'[r].user = requests[r].user /\ requests'[r].token = requests[r].token
    /\ requests'[r].gone = requests[r].gone /\ requests'[r].barred = requests[r].barred

LEMMA GoSet ==
    ASSUME Rows, NEW r \in Requests, NEW stage \in Stages, Go(r, stage)
    PROVE  /\ requests' \in [Requests -> RequestRec] /\ requests'[r].at = stage
           /\ SameSession(r)
           /\ requests'[r].tenant = requests[r].tenant
           /\ requests'[r].email = requests[r].email
           /\ requests'[r].role = requests[r].role
           /\ requests'[r].crossed = requests[r].crossed
           /\ \A s \in Requests \ {r} : requests'[s] = requests[s]
<1> DEFINE rec == [requests[r] EXCEPT !.at = stage]
<1>1. requests[r] \in RequestRec
  BY DEF Rows
<1>2. rec \in RequestRec
  BY <1>1 DEF RequestRec
<1>3. requests' = [requests EXCEPT ![r] = rec]
  BY DEF Go
<1>4. /\ rec.at = stage /\ rec.user = requests[r].user /\ rec.token = requests[r].token
      /\ rec.gone = requests[r].gone /\ rec.barred = requests[r].barred
      /\ rec.tenant = requests[r].tenant /\ rec.email = requests[r].email
      /\ rec.role = requests[r].role /\ rec.crossed = requests[r].crossed
  BY <1>1 DEF RequestRec
<1> HIDE DEF rec
<1> QED
  BY <1>2, <1>3, <1>4, RequestSet DEF SameSession

LEMMA FindSet ==
    ASSUME Rows, NEW r \in Requests, NEW i \in Invitations,
           NEW stage \in {"resend", "cancel"}, Find(r, i, stage)
    PROVE  /\ requests' \in [Requests -> RequestRec] /\ requests'[r].at = stage
           /\ requests[r].at = "accepted"
           /\ SameSession(r) /\ requests'[r].tenant = requests[r].tenant
           /\ requests'[r].invitation = i
           /\ \A s \in Requests \ {r} : requests'[s] = requests[s]
           /\ UNCHANGED <<tables, counters>>
<1> DEFINE rec == [requests[r] EXCEPT !.at = stage, !.invitation = i]
<1>1. requests[r] \in RequestRec
  BY DEF Rows
<1>2. rec \in RequestRec
  BY <1>1 DEF RequestRec, Stages
<1>3. requests' = [requests EXCEPT ![r] = rec]
  BY <1>1 DEF Find, Rows
<1>4. /\ rec.at = stage /\ rec.user = requests[r].user /\ rec.token = requests[r].token
      /\ rec.gone = requests[r].gone /\ rec.barred = requests[r].barred
      /\ rec.tenant = requests[r].tenant /\ rec.invitation = i
  BY <1>1 DEF RequestRec
<1> HIDE DEF rec
<1> QED
  BY <1>2, <1>3, <1>4, RequestSet DEF Find, At, SameSession

LEMMA TenantSet ==
    ASSUME Rows, NEW r \in Requests, NEW t \in Tenants, RegisterTenant(r, t)
    PROVE  /\ requests' \in [Requests -> RequestRec] /\ requests'[r].at = "membership"
           /\ requests[r].at = "tenant"
           /\ SameSession(r) /\ requests'[r].tenant = t
           /\ requests'[r].email = requests[r].email
           /\ \A s \in Requests \ {r} : requests'[s] = requests[s]
<1> DEFINE rec == [requests[r] EXCEPT !.at = "membership", !.tenant = t]
<1>1. requests[r] \in RequestRec
  BY DEF Rows
<1>2. rec \in RequestRec
  BY <1>1 DEF RequestRec, Stages
<1>3. requests' = [requests EXCEPT ![r] = rec]
  BY <1>1 DEF RegisterTenant, Rows
<1>4. /\ rec.at = "membership" /\ rec.user = requests[r].user
      /\ rec.token = requests[r].token /\ rec.email = requests[r].email
      /\ rec.gone = requests[r].gone /\ rec.barred = requests[r].barred /\ rec.tenant = t
  BY <1>1 DEF RequestRec
<1> HIDE DEF rec
<1> QED
  BY <1>2, <1>3, <1>4, RequestSet DEF RegisterTenant, At, SameSession

LEMMA CreateSet ==
    ASSUME Rows, NEW r \in Requests, NEW e \in Emails, CreateDriver(r, e), e \notin users
    PROVE  /\ requests' \in [Requests -> RequestRec] /\ requests'[r].at = "driverMember"
           /\ requests[r].at = "accepted"
           /\ SameSession(r) /\ requests'[r].tenant = requests[r].tenant
           /\ requests'[r].email = e
           /\ \A s \in Requests \ {r} : requests'[s] = requests[s]
<1> DEFINE rec == [requests[r] EXCEPT !.at = "driverMember", !.email = e]
<1>1. requests[r] \in RequestRec
  BY DEF Rows
<1>2. rec \in RequestRec
  BY <1>1 DEF RequestRec, Stages
<1>3. requests' = [requests EXCEPT ![r] = rec]
  BY <1>1 DEF CreateDriver, Rows
<1>4. /\ rec.at = "driverMember" /\ rec.user = requests[r].user
      /\ rec.token = requests[r].token /\ rec.email = e
      /\ rec.gone = requests[r].gone /\ rec.barred = requests[r].barred
      /\ rec.tenant = requests[r].tenant
  BY <1>1 DEF RequestRec
<1> HIDE DEF rec
<1> QED
  BY <1>2, <1>3, <1>4, RequestSet DEF CreateDriver, At, SameSession

LEMMA RegisterSet ==
    ASSUME Rows, NEW r \in Requests, NEW e \in Emails, Register(r, e)
    PROVE  /\ requests' \in [Requests -> RequestRec] /\ requests'[r].at = "register"
           /\ requests[r].at = "idle" /\ requests'[r].email = e
           /\ requests'[r].token = 0 /\ ~requests'[r].gone /\ ~requests'[r].barred
           /\ \A s \in Requests \ {r} : requests'[s] = requests[s]
           /\ UNCHANGED <<tables, now, deaths, nameless>>
<1> DEFINE rec == [Idle EXCEPT !.at = "register", !.email = e]
<1>1. rec \in RequestRec
  BY IdleType DEF RequestRec, Stages
<1>2. /\ rec.at = "register" /\ rec.email = e /\ rec.token = 0
      /\ ~rec.gone /\ ~rec.barred
  BY DEF Idle
<1>3. requests' = [requests EXCEPT ![r] = rec]
  BY DEF Register
<1> HIDE DEF rec
<1> QED
  BY <1>1, <1>2, <1>3, RequestSet DEF Register, At, Call

LEMMA ArriveSet ==
    ASSUME Rows, Caching, NEW r \in Requests, NEW k \in DOMAIN tokens, Arrive(r, k)
    PROVE  /\ requests' \in [Requests -> RequestRec] /\ requests'[r].at = "arrived"
           /\ requests[r].at = "idle" /\ requests'[r].user = tokens[k].user
           /\ requests'[r].tenant = tokens[k].tenant /\ requests'[r].token = k
           /\ requests'[r].gone =>
                 loggedOut[tokens[k].user] > tokens[k].iat * TicksPerSecond
           /\ requests'[r].barred =>
                 tokens[k].driver /\ profiles[tokens[k].user].status # "ACTIVE"
           /\ \A s \in Requests \ {r} : requests'[s] = requests[s]
           /\ UNCHANGED <<tables, now, deaths, nameless>>
<1> DEFINE late == loggedOut[tokens[k].user] > tokens[k].iat * TicksPerSecond
           barred == tokens[k].driver /\ profiles[tokens[k].user].status # "ACTIVE"
           rec == [Idle EXCEPT !.at = "arrived", !.user = tokens[k].user,
                               !.tenant = tokens[k].tenant, !.token = k,
                               !.gone = late, !.barred = barred]
<1>1. tokens[k] \in TokenRec /\ k \in Nat
  BY ElementOfSeq, LenProperties DEF Caching
<1>2. PICK g \in BOOLEAN, b \in BOOLEAN : g = late /\ b = barred
  <2>1. late \in BOOLEAN
    BY <1>1 DEF Caching, TokenRec
  <2>2. barred \in BOOLEAN
    BY <1>1 DEF TokenRec
  <2> QED
    BY <2>1, <2>2
<1>3. rec = [Idle EXCEPT !.at = "arrived", !.user = tokens[k].user,
                         !.tenant = tokens[k].tenant, !.token = k,
                         !.gone = g, !.barred = b]
  BY <1>2
<1>4. requests' = [requests EXCEPT ![r] = rec]
  BY DEF Arrive
<1> HIDE DEF late, barred, rec
<1>5. rec \in RequestRec
  BY <1>1, <1>3, IdleType DEF RequestRec, Stages, TokenRec
<1>6. /\ rec.at = "arrived" /\ rec.user = tokens[k].user /\ rec.tenant = tokens[k].tenant
      /\ rec.token = k /\ rec.gone = g /\ rec.barred = b
  BY <1>3 DEF Idle
<1> QED
  BY <1>2, <1>4, <1>5, <1>6, RequestSet DEF Arrive, At, Call, late, barred

\* What other requests keep when one makes a step.
Kept(s) ==
    /\ requests'[s].at = requests[s].at /\ requests'[s].user = requests[s].user
    /\ requests'[s].tenant = requests[s].tenant /\ requests'[s].token = requests[s].token
    /\ requests'[s].email = requests[s].email /\ requests'[s].gone = requests[s].gone
    /\ requests'[s].barred => requests[s].barred
    /\ requests[s].crossed => requests'[s].crossed

LEMMA UpdateSet ==
    ASSUME Rows, NEW r \in Requests, NEW e \in Emails, NEW status \in Statuses,
           UpdateDriver(r, e, status)
    PROVE  /\ requests' \in [Requests -> RequestRec] /\ requests'[r] = Idle
           /\ requests[r].at = "accepted" /\ profiles[e].tenant = requests[r].tenant
           /\ \A s \in Requests \ {r} :
                 /\ Kept(s)
                 /\ requests'[s].barred => ~(requests[s].user = e /\ status = "ACTIVE")
<1>1. /\ requests' = [s \in Requests |->
             IF s = r THEN Idle
             ELSE [requests[s] EXCEPT !.barred = @ /\ ~(requests[s].user = e /\ status = "ACTIVE")]]
      /\ requests[r].at = "accepted" /\ profiles[e].tenant = requests[r].tenant
  BY DEF UpdateDriver, At
<1>2. ASSUME NEW s \in Requests \ {r}
      PROVE  /\ requests'[s] \in RequestRec /\ Kept(s)
             /\ requests'[s].barred => ~(requests[s].user = e /\ status = "ACTIVE")
  <2> DEFINE barred == requests[s].barred /\ ~(requests[s].user = e /\ status = "ACTIVE")
  <2>1. requests[s] \in RequestRec
    BY DEF Rows
  <2>2. PICK b \in BOOLEAN : b = barred
    BY <2>1 DEF RequestRec
  <2>3. requests'[s] = [requests[s] EXCEPT !.barred = barred]
    BY <1>1
  <2> HIDE DEF barred
  <2>4. requests'[s] = [requests[s] EXCEPT !.barred = b]
    BY <2>2, <2>3
  <2>5. /\ requests'[s] \in RequestRec /\ requests'[s].barred = b
        /\ requests'[s].at = requests[s].at /\ requests'[s].user = requests[s].user
        /\ requests'[s].tenant = requests[s].tenant /\ requests'[s].token = requests[s].token
        /\ requests'[s].email = requests[s].email /\ requests'[s].gone = requests[s].gone
        /\ requests'[s].crossed = requests[s].crossed
    BY <2>1, <2>4 DEF RequestRec
  <2> QED
    BY <2>2, <2>5 DEF barred, Kept
<1>3. requests'[r] = Idle
  BY <1>1
<1>4. requests' \in [Requests -> RequestRec]
  <2>1. \A s \in Requests : requests'[s] \in RequestRec
    BY <1>2, <1>3, IdleType
  <2>2. requests' = [s \in Requests |-> requests'[s]]
    BY <1>1
  <2> QED
    BY <2>1, <2>2
<1> QED
  BY <1>1, <1>2, <1>3, <1>4

LEMMA InviteSet ==
    ASSUME Rows, NEW r \in Requests, NEW e \in Emails, NEW role \in {"DRIVER", "MANAGER"},
           Invite(r, e, role)
    PROVE  /\ requests' \in [Requests -> RequestRec] /\ requests'[r].at = "invite"
           /\ requests[r].at = "accepted"
           /\ SameSession(r) /\ requests'[r].tenant = requests[r].tenant
           /\ requests'[r].email = e
           /\ requests'[r].crossed <=> Inviting(requests[r].tenant, e) # {}
           /\ \A s \in Requests \ {r} :
                 /\ Kept(s)
                 /\ s \in Inviting(requests[r].tenant, e) => requests'[s].crossed
           /\ UNCHANGED <<tables, counters>>
           /\ ~ \E i \in Invitations : IsPending(i, requests[r].tenant, e)
<1> DEFINE others == Inviting(requests[r].tenant, e)
<1>1. /\ requests' = [s \in Requests |->
             IF s = r THEN [requests[r] EXCEPT !.at = "invite", !.email = e, !.role = role,
                                               !.crossed = others # {}]
             ELSE [requests[s] EXCEPT !.crossed = @ \/ s \in others]]
      /\ requests[r].at = "accepted"
  BY DEF Invite, At
<1>2. ASSUME NEW s \in Requests \ {r}
      PROVE  /\ requests'[s] \in RequestRec /\ Kept(s)
             /\ s \in others => requests'[s].crossed
  <2> DEFINE crossed == requests[s].crossed \/ s \in others
  <2>1. requests[s] \in RequestRec
    BY DEF Rows
  <2>2. PICK b \in BOOLEAN : b = crossed
    BY <2>1 DEF RequestRec
  <2>3. requests'[s] = [requests[s] EXCEPT !.crossed = crossed]
    BY <1>1
  <2> HIDE DEF crossed
  <2>4. requests'[s] = [requests[s] EXCEPT !.crossed = b]
    BY <2>2, <2>3
  <2>5. /\ requests'[s] \in RequestRec /\ requests'[s].barred = requests[s].barred
        /\ requests'[s].at = requests[s].at /\ requests'[s].user = requests[s].user
        /\ requests'[s].tenant = requests[s].tenant /\ requests'[s].token = requests[s].token
        /\ requests'[s].email = requests[s].email /\ requests'[s].gone = requests[s].gone
        /\ requests'[s].crossed = b
    BY <2>1, <2>4 DEF RequestRec
  <2> QED
    BY <2>2, <2>5 DEF crossed, Kept
<1>3. /\ requests'[r] \in RequestRec /\ requests'[r].at = "invite" /\ SameSession(r)
      /\ requests'[r].tenant = requests[r].tenant /\ requests'[r].email = e
      /\ requests'[r].crossed <=> others # {}
  <2> DEFINE crossed == others # {}
  <2>1. requests[r] \in RequestRec
    BY DEF Rows
  <2>2. PICK b \in BOOLEAN : b = crossed
    OBVIOUS
  <2>3. requests'[r] = [requests[r] EXCEPT !.at = "invite", !.email = e, !.role = role,
                                           !.crossed = crossed]
    BY <1>1
  <2> HIDE DEF crossed
  <2>4. requests'[r] = [requests[r] EXCEPT !.at = "invite", !.email = e, !.role = role,
                                           !.crossed = b]
    BY <2>2, <2>3
  <2>5. /\ requests'[r] \in RequestRec /\ requests'[r].at = "invite"
        /\ requests'[r].user = requests[r].user /\ requests'[r].token = requests[r].token
        /\ requests'[r].gone = requests[r].gone /\ requests'[r].barred = requests[r].barred
        /\ requests'[r].tenant = requests[r].tenant /\ requests'[r].email = e
        /\ requests'[r].crossed = b
    BY <2>1, <2>4 DEF RequestRec, Stages, Roles
  <2> QED
    BY <2>2, <2>5 DEF crossed, SameSession
<1>4. requests' \in [Requests -> RequestRec]
  <2>1. \A s \in Requests : requests'[s] \in RequestRec
    BY <1>2, <1>3
  <2>2. requests' = [s \in Requests |-> requests'[s]]
    BY <1>1
  <2> QED
    BY <2>1, <2>2
<1> QED
  BY <1>1, <1>2, <1>3, <1>4 DEF Invite

-----------------------------------------------------------------------------
\* Requests of one session that change no row but their own locals.
QuietStep(r) ==
    \/ \E e \in Emails : Register(r, e) /\ UNCHANGED sessionVars
    \/ \E k \in DOMAIN tokens : Arrive(r, k)
    \/ CheckRevoked(r) \/ CheckStanding(r) \/ Logout(r) \/ LogoutAll(r)
    \/ (InviteOnly(r) \/ RegisterNameless(r) \/ Leave(r)) /\ UNCHANGED sessionVars
    \/ \E i \in Invitations : (Find(r, i, "resend") \/ Find(r, i, "cancel")) /\ UNCHANGED sessionVars

\* Requests that write a row.
WritingStep(r) ==
    \/ RegisterUser(r)
    \/ \E t \in Tenants : RegisterTenant(r, t)
    \/ \E e \in Emails : CreateDriver(r, e)
    \/ DriverMember(r) \/ DriverProfile(r)
    \/ \E e \in Emails, status \in Statuses : UpdateDriver(r, e, status)
    \/ \E e \in Emails, role \in {"DRIVER", "MANAGER"} : Invite(r, e, role)
    \/ InviteProfile(r)
    \/ \E i \in Invitations : InvitationWrite(r, i)
    \/ Resend(r) \/ Cancel(r)

LEMMA ServeIs ==
    ASSUME NEW r \in Requests, Serve(r)
    PROVE  QuietStep(r) \/ (WritingStep(r) /\ UNCHANGED sessionVars) \/ RegisterAnswer(r)
<1>1. CASE Handle(r) /\ UNCHANGED sessionVars
  BY <1>1 DEF Handle, QuietStep, WritingStep
<1>2. CASE ~(Handle(r) /\ UNCHANGED sessionVars)
  BY <1>2 DEF Serve, QuietStep
<1> QED
  BY <1>1, <1>2

\* A step outside the requests in flight.
OutsideStep == Tick \/ Enter

LEMMA OutsideEffect ==
    ASSUME OutsideStep
    PROVE  UNCHANGED <<tables, requests, deaths, nameless>>
  BY DEF OutsideStep, Tick, Enter, Login, LoginToChoose, LoginDriver, SelectTenant,
         SelectTenantDriver, Call

Facts == Rows /\ Caching /\ Tokens /\ InSessions /\ Makers

\* A session's user and tenant exist.
LEMMA SessionKnown ==
    ASSUME Facts, NEW r \in Requests, requests[r].at \notin Public
    PROVE  /\ requests[r].user \in users /\ requests[r].tenant \in tenants
           /\ requests[r].user \in Emails /\ requests[r].tenant \in Tenants
           /\ Backed(tokens[requests[r].token]) /\ InSession(r)
  BY DEF Facts, Rows, InSessions, InSession, Tokens, Backed

LEMMA QuietEffect ==
    ASSUME Facts, NEW r \in Requests, QuietStep(r)
    PROVE  /\ UNCHANGED <<tables, now, tokens, tickets>>
           /\ requests' \in [Requests -> RequestRec]
           /\ \A s \in Requests \ {r} : requests'[s] = requests[s]
           /\ requests'[r].at \notin InMaking
           /\ deaths' = deaths \/ (deaths' = deaths + 1 /\ Leave(r))
           /\ nameless \subseteq nameless' /\ nameless' \subseteq users
<1>1. CASE \E e \in Emails : Register(r, e) /\ UNCHANGED sessionVars
  BY <1>1, RegisterSet DEF Facts, Rows, sessionVars, InMaking
<1>2. CASE \E k \in DOMAIN tokens : Arrive(r, k)
  BY <1>2, ArriveSet DEF Facts, Rows, Arrive, sessionVars, InMaking
<1>3. CASE CheckRevoked(r) \/ CheckStanding(r)
  <2>1. PICK stage \in {"checked", "accepted"} : Go(r, stage)
    BY <1>3 DEF CheckRevoked, CheckStanding
  <2>2. stage \in Stages \ InMaking
    BY DEF Stages, InMaking
  <2> QED
    BY <1>3, <2>1, <2>2, GoSet DEF Facts, Rows, CheckRevoked, CheckStanding, sessionVars, counters
<1>4. CASE Logout(r) \/ LogoutAll(r)
  BY <1>4, AnswerSet DEF Facts, Rows, Logout, LogoutAll, counters, InMaking
<1>5. CASE InviteOnly(r) /\ UNCHANGED sessionVars
  <2>1. Go(r, "invitation") /\ "invitation" \in Stages \ InMaking
    BY <1>5 DEF InviteOnly, Stages, InMaking
  <2> QED
    BY <1>5, <2>1, GoSet DEF Facts, Rows, InviteOnly, sessionVars, counters
<1>6. CASE Leave(r) /\ UNCHANGED sessionVars
  BY <1>6, AnswerSet DEF Facts, Rows, Leave, sessionVars, InMaking
<1>7. CASE \E i \in Invitations :
             (Find(r, i, "resend") \/ Find(r, i, "cancel")) /\ UNCHANGED sessionVars
  BY <1>7, FindSet DEF Facts, Rows, sessionVars, counters, InMaking
<1>8. CASE RegisterNameless(r) /\ UNCHANGED sessionVars
  <2>1. requests[r].email \in users
    BY <1>8 DEF RegisterNameless, At, Facts, Makers, InMaking
  <2> QED
    BY <1>8, <2>1, AnswerSet DEF Facts, Rows, RegisterNameless, sessionVars, InMaking
<1> QED
  BY <1>1, <1>2, <1>3, <1>4, <1>5, <1>6, <1>7, <1>8 DEF QuietStep

-----------------------------------------------------------------------------
\* Types of the tables.
LEMMA InitRows == SessionsInit => Rows /\ Caching
<1> SUFFICES ASSUME SessionsInit PROVE Rows /\ Caching
  OBVIOUS
<1>1. users = {Admin, Driver} /\ users \subseteq Emails
  BY OnboardingAssumption DEF SessionsInit, OnboardingInit
<1>2. IsFiniteSet(users)
  <2>1. IsFiniteSet({Admin}) /\ users = {Admin} \cup {Driver}
    BY <1>1, FS_Singleton
  <2> QED
    BY <2>1, FS_AddElement
<1>3. tenants \subseteq Tenants /\ members \subseteq [user : users, tenant : tenants, role : Roles]
  BY <1>1, OnboardingAssumption DEF SessionsInit, OnboardingInit, Roles
<1>4. profiles \in [Emails -> {NoProfile} \cup [tenant : tenants, status : Statuses]]
  BY DEF SessionsInit, OnboardingInit, Statuses
<1>5. invitations \in [Invitations -> InvitationRec]
  BY DEF SessionsInit, OnboardingInit, NoInvitation, InvitationRec
<1>6. /\ requests \in [Requests -> RequestRec] /\ now \in 0..MaxTime /\ deaths \in Nat
      /\ nameless \subseteq users
  BY IdleType, OnboardingAssumption DEF SessionsInit, OnboardingInit
<1>7. /\ tokens \in Seq(TokenRec) /\ tickets \in Seq(TicketRec)
      /\ \A k \in DOMAIN tickets : tickets[k].user \in users
  BY EmptySeq DEF SessionsInit
<1>8. /\ revokedUsers \in [Emails -> [at : Int, until : Int]]
      /\ loggedOut \in [Emails -> Int]
  BY DEF SessionsInit, NotRevoked, Never
<1> QED
  BY <1>1, <1>2, <1>3, <1>4, <1>5, <1>6, <1>7, <1>8 DEF Rows, Caching

LEMMA JoinRows ==
    ASSUME Rows, NEW e \in users, NEW t \in tenants, NEW role \in Roles, Join(e, t, role)
    PROVE  members' \subseteq [user : users, tenant : tenants, role : Roles]
  BY DEF Rows, Join

LEMMA ProfileRows ==
    ASSUME Rows, NEW e \in Emails, NEW t \in tenants, AddProfile(e, t)
    PROVE  profiles' \in [Emails -> {NoProfile} \cup [tenant : tenants, status : Statuses]]
  BY DEF Rows, AddProfile, Statuses

LEMMA UserRows ==
    ASSUME Rows, NEW e \in Emails, AddUser(e)
    PROVE  users \subseteq users' /\ users' \subseteq Emails /\ IsFiniteSet(users')
  BY FS_AddElement DEF Rows, AddUser

LEMMA WritingRequests ==
    ASSUME Facts, NEW r \in Requests, WritingStep(r)
    PROVE  /\ requests' \in [Requests -> RequestRec]
           /\ \A s \in Requests \ {r} : Kept(s)
           /\ requests[r].at \notin {"idle", "arrived", "checked"}
           /\ requests'[r].at \notin {"arrived", "checked", "accepted", "register"}
           /\ UNCHANGED counters
<1> USE DEF Facts, Kept, At, counters
<1>1. CASE RegisterUser(r)
  <2>1. "tenant" \in Stages
    BY DEF Stages
  <2> QED
    BY <1>1, <2>1, AnswerSet, GoSet DEF RegisterUser
<1>2. CASE \E t \in Tenants : RegisterTenant(r, t)
  BY <1>2, TenantSet DEF RegisterTenant
<1>3. CASE \E e \in Emails : CreateDriver(r, e)
  <2>1. PICK e \in Emails : CreateDriver(r, e)
    BY <1>3
  <2> QED
    BY <2>1, AnswerSet, CreateSet DEF CreateDriver
<1>4. CASE DriverMember(r)
  <2>1. "driverProfile" \in Stages
    BY DEF Stages
  <2> QED
    BY <1>4, <2>1, GoSet DEF DriverMember
<1>5. CASE DriverProfile(r)
  BY <1>5, AnswerSet DEF DriverProfile
<1>6. CASE \E e \in Emails, status \in Statuses : UpdateDriver(r, e, status)
  <2>1. PICK e \in Emails, status \in Statuses : UpdateDriver(r, e, status)
    BY <1>6
  <2>2. /\ requests' \in [Requests -> RequestRec] /\ requests'[r] = Idle
        /\ requests[r].at = "accepted" /\ \A s \in Requests \ {r} : Kept(s)
    BY <2>1, UpdateSet
  <2>3. UNCHANGED counters
    BY <2>1 DEF UpdateDriver
  <2> QED
    BY <2>2, <2>3, IdleType
<1>7. CASE \E e \in Emails, role \in {"DRIVER", "MANAGER"} : Invite(r, e, role)
  BY <1>7, InviteSet
<1>8. CASE InviteProfile(r)
  <2>1. "invitation" \in Stages
    BY DEF Stages
  <2> QED
    BY <1>8, <2>1, AnswerSet, GoSet DEF InviteProfile
<1>9. CASE (\E i \in Invitations : InvitationWrite(r, i)) \/ Resend(r) \/ Cancel(r)
  BY <1>9, AnswerSet DEF InvitationWrite, Resend, Cancel
<1> QED
  BY <1>1, <1>2, <1>3, <1>4, <1>5, <1>6, <1>7, <1>8, <1>9 DEF WritingStep

\* Rows are added, not removed; a profile stays in its tenant.
Grown ==
    /\ users \subseteq users' /\ users' \subseteq Emails /\ IsFiniteSet(users')
    /\ tenants \subseteq tenants' /\ tenants' \subseteq Tenants
    /\ members \subseteq members'
    /\ members' \subseteq [user : users', tenant : tenants', role : Roles]
    /\ profiles' \in [Emails -> {NoProfile} \cup [tenant : tenants', status : Statuses]]
    /\ \A e \in Emails : profiles[e] # NoProfile =>
          profiles'[e] # NoProfile /\ profiles'[e].tenant = profiles[e].tenant
    /\ invitations' \in [Invitations -> InvitationRec]

LEMMA SameTables ==
    ASSUME Rows
    PROVE  /\ users \subseteq Emails /\ IsFiniteSet(users) /\ tenants \subseteq Tenants
           /\ members \subseteq [user : users, tenant : tenants, role : Roles]
           /\ profiles \in [Emails -> {NoProfile} \cup [tenant : tenants, status : Statuses]]
           /\ invitations \in [Invitations -> InvitationRec]
  BY DEF Rows

LEMMA WritingTables ==
    ASSUME Facts, NEW r \in Requests, WritingStep(r)
    PROVE  Grown
<1> USE DEF At
<1>1. Rows /\ /\ users \subseteq Emails /\ IsFiniteSet(users) /\ tenants \subseteq Tenants
              /\ members \subseteq [user : users, tenant : tenants, role : Roles]
              /\ profiles \in [Emails -> {NoProfile} \cup [tenant : tenants, status : Statuses]]
              /\ invitations \in [Invitations -> InvitationRec]
  BY SameTables DEF Facts
<1>2. ASSUME RegisterUser(r) PROVE Grown
  <2>1. requests[r].email \in Emails
    BY <1>2 DEF RegisterUser, Facts, InSessions
  <2>2. users \subseteq users' /\ users' \subseteq Emails /\ IsFiniteSet(users')
    BY <1>1, <1>2, <2>1, UserRows DEF RegisterUser
  <2> QED
    BY <1>1, <1>2, <2>2 DEF RegisterUser, Grown
<1>3. ASSUME NEW t \in Tenants, RegisterTenant(r, t) PROVE Grown
  BY <1>1, <1>3 DEF RegisterTenant, Grown
<1>4. ASSUME NEW e \in Emails, CreateDriver(r, e) PROVE Grown
  <2>1. users \subseteq users' /\ users' \subseteq Emails /\ IsFiniteSet(users')
    BY <1>1, <1>4, UserRows DEF CreateDriver
  <2> QED
    BY <1>1, <1>4, <2>1 DEF CreateDriver, Grown
<1>5. ASSUME DriverMember(r) PROVE Grown
  <2>1. requests[r].email \in users /\ requests[r].at \notin Public
    BY <1>5 DEF DriverMember, Facts, Makers, InMaking, Public
  <2>2. requests[r].tenant \in tenants
    BY <2>1, SessionKnown
  <2>3. /\ members' \subseteq [user : users, tenant : tenants, role : Roles]
        /\ members \subseteq members'
    BY <1>1, <1>5, <2>1, <2>2, JoinRows DEF DriverMember, Roles, Join
  <2> QED
    BY <1>1, <1>5, <2>3 DEF DriverMember, Grown
<1>6. ASSUME DriverProfile(r) PROVE Grown
  <2>1. /\ requests[r].email \in users /\ requests[r].at \notin Public
        /\ profiles[requests[r].email] = NoProfile
    BY <1>6 DEF DriverProfile, Facts, Makers, InMaking, Public
  <2>2. requests[r].tenant \in tenants /\ requests[r].email \in Emails
    BY <1>1, <2>1, SessionKnown
  <2>3. profiles' \in [Emails -> {NoProfile} \cup [tenant : tenants, status : Statuses]]
    BY <1>1, <1>6, <2>2, ProfileRows DEF DriverProfile
  <2>4. \A e \in Emails : profiles[e] # NoProfile => profiles'[e] = profiles[e]
    BY <1>1, <1>6, <2>1 DEF DriverProfile, AddProfile
  <2> QED
    BY <1>1, <1>6, <2>3, <2>4 DEF DriverProfile, Grown
<1>7. ASSUME NEW e \in Emails, NEW status \in Statuses, UpdateDriver(r, e, status) PROVE Grown
  <2>1. profiles[e].tenant \in tenants
    <3>1. requests[r].at = "accepted" /\ profiles[e].tenant = requests[r].tenant
      BY <1>7 DEF UpdateDriver
    <3> QED
      BY <3>1, SessionKnown DEF Public
  <2>2. profiles[e] \in [tenant : tenants, status : Statuses]
    BY <1>1, <2>1, OnboardingAssumption DEF NoProfile
  <2>3. /\ profiles' \in [Emails -> {NoProfile} \cup [tenant : tenants, status : Statuses]]
        /\ \A f \in Emails : f # e => profiles'[f] = profiles[f]
        /\ profiles'[e].tenant = profiles[e].tenant
        /\ profiles'[e].status = status
    BY <1>1, <1>7, <2>2 DEF UpdateDriver
  <2>4. profiles'[e] # NoProfile
    BY <2>3 DEF NoProfile, Statuses, NoOne
  <2>5. \A f \in Emails : profiles[f] # NoProfile =>
           profiles'[f] # NoProfile /\ profiles'[f].tenant = profiles[f].tenant
    BY <2>3, <2>4
  <2>6. UNCHANGED <<users, tenants, members, invitations>>
    BY <1>7 DEF UpdateDriver
  <2> QED
    BY <1>1, <2>3, <2>5, <2>6 DEF Grown
<1>8. ASSUME NEW e \in Emails, NEW role \in {"DRIVER", "MANAGER"}, Invite(r, e, role) PROVE Grown
  BY <1>1, <1>8 DEF Invite, tables, Grown
<1>9. ASSUME InviteProfile(r) PROVE Grown
  <2>1. requests[r].tenant \in tenants /\ requests[r].user \in Emails
    BY <1>9, SessionKnown DEF InviteProfile, Public
  <2>2. CASE profiles' = profiles
    BY <1>1, <1>9, <2>2 DEF InviteProfile, Grown
  <2>3. CASE /\ profiles[requests[r].user] = NoProfile
             /\ AddProfile(requests[r].user, requests[r].tenant)
    <3>1. profiles' \in [Emails -> {NoProfile} \cup [tenant : tenants, status : Statuses]]
      BY <1>1, <2>1, <2>3, ProfileRows
    <3>2. \A e \in Emails : profiles[e] # NoProfile => profiles'[e] = profiles[e]
      BY <1>1, <2>1, <2>3 DEF AddProfile
    <3> QED
      BY <1>1, <1>9, <3>1, <3>2 DEF InviteProfile, Grown
  <2> QED
    BY <1>9, <2>2, <2>3 DEF InviteProfile
<1>10. ASSUME (\E i \in Invitations : InvitationWrite(r, i)) \/ Resend(r) \/ Cancel(r) PROVE Grown
  <2>1. now \in Int /\ InvitationTTL \in Int /\ requests[r] \in RequestRec
    BY <1>1, OnboardingAssumption DEF Rows
  <2>2. ASSUME NEW i \in Invitations, InvitationWrite(r, i)
        PROVE  invitations' \in [Invitations -> InvitationRec]
    BY <1>1, <2>1, <2>2 DEF InvitationWrite, InvitationRec, RequestRec
  <2>3. CASE Resend(r)
    <3>1. ASSUME NEW i \in Invitations
          PROVE  [invitations[i] EXCEPT !.expires = now + InvitationTTL, !.late = TRUE]
                    \in InvitationRec
      <4>1. PICK x \in Int : x = now + InvitationTTL
        BY <2>1
      <4>2. [invitations[i] EXCEPT !.expires = x, !.late = TRUE] \in InvitationRec
        BY <1>1 DEF InvitationRec
      <4> QED
        BY <4>1, <4>2
    <3>2. invitations' \in [Invitations -> InvitationRec]
      BY <1>1, <2>3, <3>1 DEF Resend
    <3> QED
      BY <1>1, <2>3, <3>2 DEF Resend, Grown
  <2>4. CASE Cancel(r)
    <3>1. NoInvitation \in InvitationRec
      BY DEF NoInvitation, InvitationRec
    <3>2. invitations' \in [Invitations -> InvitationRec]
      BY <1>1, <2>4, <3>1 DEF Cancel
    <3> QED
      BY <1>1, <2>4, <3>2 DEF Cancel, Grown
  <2> QED
    BY <1>1, <1>10, <2>2, <2>3, <2>4 DEF InvitationWrite, Grown
<1> QED
  BY <1>2, <1>3, <1>4, <1>5, <1>6, <1>7, <1>8, <1>9, <1>10 DEF WritingStep

LEMMA RegisterEffect ==
    ASSUME Facts, NEW r \in Requests, RegisterAnswer(r)
    PROVE  /\ Grown /\ requests' \in [Requests -> RequestRec] /\ requests'[r] = Idle
           /\ \A s \in Requests \ {r} : requests'[s] = requests[s]
           /\ requests[r].email \in users /\ requests[r].tenant \in tenants
           /\ requests[r].at = "membership"
           /\ members' = members \cup {[user |-> requests[r].email,
                                        tenant |-> requests[r].tenant, role |-> "ADMIN"]}
           /\ Issue(requests[r].email, requests[r].tenant, "ADMIN", FALSE, 0)
           /\ UNCHANGED <<users, tenants, profiles, invitations, counters, tickets, Caches>>
<1>1. RegisterMember(r) /\ requests[r].at = "membership"
  BY DEF RegisterAnswer, RegisterMember, At
<1>2. requests[r].email \in users /\ requests[r].tenant \in tenants
  BY <1>1 DEF Facts, Makers, InMaking
<1>3. /\ Join(requests[r].email, requests[r].tenant, "ADMIN")
      /\ UNCHANGED <<users, tenants, profiles, invitations, counters>>
      /\ Answer(r)
  BY <1>1 DEF RegisterMember
<1>4. members' \subseteq [user : users, tenant : tenants, role : Roles]
  BY <1>2, <1>3, JoinRows DEF Facts, Roles
<1>5. Grown
  BY <1>3, <1>4, SameTables DEF Grown, Join, Facts
<1> QED
  BY <1>1, <1>2, <1>3, <1>5, AnswerSet DEF RegisterAnswer, Join, Facts

LEMMA NothingGrows == ASSUME Rows, UNCHANGED tables PROVE Grown
  BY SameTables DEF tables, Grown

LEMMA StepRows ==
    ASSUME Facts, SessionsNext
    PROVE  Rows' /\ Grown /\ now <= now'
<1>1. Rows
  BY DEF Facts
<1>2. ASSUME NEW r \in Requests, Serve(r)
      PROVE  /\ Grown /\ requests' \in [Requests -> RequestRec]
             /\ now' = now /\ deaths' \in {deaths, deaths + 1} /\ nameless' \subseteq users'
  <2>1. CASE QuietStep(r)
    BY <1>1, <2>1, QuietEffect, NothingGrows DEF tables
  <2>2. CASE WritingStep(r)
    BY <1>1, <2>2, WritingRequests, WritingTables DEF counters, Grown, Rows
  <2>3. CASE RegisterAnswer(r)
    BY <1>1, <2>3, RegisterEffect DEF counters, Rows
  <2> QED
    BY <1>2, <2>1, <2>2, <2>3, ServeIs
<1>3. CASE OutsideStep
  <2>1. Grown /\ requests' = requests /\ deaths' = deaths /\ nameless' \subseteq users'
    BY <1>1, <1>3, OutsideEffect, NothingGrows DEF tables, Rows
  <2>2. now' \in 0..MaxTime /\ now <= now'
    <3>1. CASE Tick
      BY <1>1, <3>1, OnboardingAssumption DEF Rows, Tick
    <3>2. CASE Enter
      <4>1. now' = now
        BY <3>2 DEF Enter, Login, LoginToChoose, LoginDriver, SelectTenant,
           SelectTenantDriver, Call
      <4> QED
        BY <1>1, <4>1, OnboardingAssumption DEF Rows
    <3> QED
      BY <1>3, <3>1, <3>2 DEF OutsideStep
  <2> QED
    BY <1>1, <2>1, <2>2 DEF Rows, Grown
<1>4. ASSUME NEW r \in Requests, Serve(r) PROVE Rows' /\ Grown /\ now <= now'
  BY <1>1, <1>2, <1>4 DEF Rows, Grown
<1> QED
  BY <1>3, <1>4 DEF SessionsNext, OutsideStep

-----------------------------------------------------------------------------
\* Tokens.
LEMMA SecondIs ==
    ASSUME Rows
    PROVE  /\ Second \in Nat /\ Second * TicksPerSecond <= now
           /\ now < Second * TicksPerSecond + TicksPerSecond
<1>1. now \in Nat /\ TicksPerSecond \in Nat \ {0}
  BY SessionsAssumption, OnboardingAssumption DEF Rows
<1> QED
  BY <1>1 DEF Second

TokensKept ==
    /\ DOMAIN tokens \subseteq DOMAIN tokens'
    /\ \A k \in DOMAIN tokens : tokens'[k] = tokens[k]

LEMMA IssueSet ==
    ASSUME Rows, Caching, NEW e \in Emails, NEW t \in Tenants, NEW role \in Roles,
           NEW driver \in BOOLEAN, NEW ver \in {0, 1}, Issue(e, t, role, driver, ver)
    PROVE  /\ tokens' \in Seq(TokenRec) /\ TokensKept
           /\ \A k \in DOMAIN tokens' \ DOMAIN tokens :
                 /\ tokens'[k].user = e /\ tokens'[k].tenant = t /\ tokens'[k].role = role
                 /\ tokens'[k].driver = driver /\ tokens'[k].iat = Second
                 /\ tokens'[k].exp = Second + AccessTTL
<1> DEFINE token == [user |-> e, tenant |-> t, role |-> role, driver |-> driver,
                     ver |-> ver, iat |-> Second, exp |-> Second + AccessTTL]
<1>1. PICK iat \in Nat, exp \in Int : iat = Second /\ exp = Second + AccessTTL
  BY SecondIs, SessionsAssumption
<1>2. token = [user |-> e, tenant |-> t, role |-> role, driver |-> driver,
               ver |-> ver, iat |-> iat, exp |-> exp]
  BY <1>1
<1>3. tokens' = Append(tokens, token)
  BY DEF Issue
<1> HIDE DEF token
<1>4. token \in TokenRec
  BY <1>2 DEF TokenRec
<1>5. /\ tokens' \in Seq(TokenRec) /\ Len(tokens') = Len(tokens) + 1
      /\ \A k \in 1..Len(tokens) : tokens'[k] = tokens[k]
      /\ tokens'[Len(tokens) + 1] = token
  BY <1>3, <1>4, AppendProperties DEF Caching
<1>6. /\ DOMAIN tokens = 1..Len(tokens) /\ Len(tokens) \in Nat
      /\ DOMAIN tokens' = 1..(Len(tokens) + 1)
  BY <1>5, LenProperties DEF Caching
<1>7. TokensKept
  BY <1>5, <1>6 DEF TokensKept
<1>8. \A k \in DOMAIN tokens' \ DOMAIN tokens : tokens'[k] = token
  BY <1>5, <1>6
<1> QED
  BY <1>1, <1>2, <1>5, <1>7, <1>8

\* What backs a token stays.
LEMMA BackedStays ==
    ASSUME Rows, Grown, now \in Int, now' \in Int, now <= now', NEW token \in TokenRec,
           Backed(token)
    PROVE  Backed(token)'
<1>1. token.user \in users' /\ token.tenant \in tenants'
  BY DEF Backed, Grown
<1>2. token.iat * TicksPerSecond <= now'
  BY SessionsAssumption DEF Backed, TokenRec
<1>3. CASE token.driver
  <2>1. profiles[token.user].tenant = token.tenant /\ token.tenant \in Tenants
    BY <1>3 DEF Backed, TokenRec
  <2>2. profiles[token.user] # NoProfile
    BY <2>1, OnboardingAssumption DEF NoProfile
  <2>3. profiles'[token.user].tenant = token.tenant
    BY <2>1, <2>2 DEF Grown, TokenRec
  <2> QED
    BY <1>1, <1>2, <1>3, <2>3 DEF Backed
<1>4. CASE ~token.driver
  BY <1>1, <1>2, <1>4 DEF Backed, Grown
<1> QED
  BY <1>3, <1>4

LEMMA TokensStay ==
    ASSUME Facts, Rows', Grown, now <= now', UNCHANGED tokens
    PROVE  Tokens' /\ TokensKept
<1>1. now \in Int /\ now' \in Int
  BY DEF Facts, Rows
<1>2. \A k \in DOMAIN tokens : tokens[k] \in TokenRec /\ Backed(tokens[k])
  BY ElementOfSeq, LenProperties DEF Facts, Caching, Tokens
<1>3. ASSUME NEW k \in DOMAIN tokens PROVE Backed(tokens[k])'
  <2>1. PICK token \in TokenRec : token = tokens[k] /\ Backed(token)
    BY <1>2
  <2>2. Backed(token)'
    BY <1>1, <2>1, BackedStays DEF Facts
  <2> QED
    BY <2>1, <2>2 DEF Backed
<1> QED
  BY <1>3 DEF Tokens, TokensKept

\* A login, an exchange or a registration adds a token that is backed.
LEMMA IssueKeeps ==
    ASSUME Facts, Rows', Grown, now' = now, NEW e \in users, NEW t \in tenants,
           NEW role \in Roles, NEW driver \in BOOLEAN, NEW ver \in {0, 1},
           Issue(e, t, role, driver, ver),
           IF driver THEN role = "DRIVER" /\ profiles'[e].tenant = t
           ELSE [user |-> e, tenant |-> t, role |-> role] \in members'
    PROVE  tokens' \in Seq(TokenRec) /\ Tokens' /\ TokensKept
<1>1. e \in Emails /\ t \in Tenants /\ Rows /\ Caching
  BY DEF Facts, Rows
<1>2. /\ tokens' \in Seq(TokenRec) /\ TokensKept
      /\ \A k \in DOMAIN tokens' \ DOMAIN tokens :
            /\ tokens'[k].user = e /\ tokens'[k].tenant = t /\ tokens'[k].role = role
            /\ tokens'[k].driver = driver /\ tokens'[k].iat = Second
            /\ tokens'[k].exp = Second + AccessTTL
  BY <1>1, IssueSet
<1>3. ASSUME NEW k \in DOMAIN tokens PROVE Backed(tokens[k])'
  <2>1. PICK token \in TokenRec : token = tokens[k] /\ Backed(token)
    BY ElementOfSeq, LenProperties DEF Facts, Caching, Tokens
  <2>2. Backed(token)'
    BY <1>1, <2>1, BackedStays DEF Rows
  <2>3. tokens'[k] = token
    BY <1>2, <2>1 DEF TokensKept
  <2> QED
    BY <2>2, <2>3 DEF Backed
<1>4. ASSUME NEW k \in DOMAIN tokens' \ DOMAIN tokens PROVE Backed(tokens[k])'
  <2>1. Second * TicksPerSecond <= now'
    BY <1>1, SecondIs
  <2> QED
    BY <1>2, <2>1 DEF Backed, Grown
<1> QED
  BY <1>2, <1>3, <1>4 DEF Tokens

LEMMA TicketSet ==
    ASSUME Rows, Caching, Grown, NEW e \in users, IssueTicket(e)
    PROVE  /\ tickets' \in Seq(TicketRec)
           /\ \A k \in DOMAIN tickets' : tickets'[k].user \in users'
<1>1. PICK exp \in Int : exp = Second + TicketTTL
  BY SecondIs, SessionsAssumption
<1>2. tickets' = Append(tickets, [user |-> e, exp |-> exp])
  BY <1>1 DEF IssueTicket
<1>3. [user |-> e, exp |-> exp] \in TicketRec
  BY DEF TicketRec, Rows
<1>4. /\ tickets' \in Seq(TicketRec) /\ Len(tickets') = Len(tickets) + 1
      /\ \A k \in 1..Len(tickets) : tickets'[k] = tickets[k]
      /\ tickets'[Len(tickets) + 1] = [user |-> e, exp |-> exp]
  BY <1>2, <1>3, AppendProperties DEF Caching
<1>5. /\ DOMAIN tickets = 1..Len(tickets) /\ Len(tickets) \in Nat
      /\ DOMAIN tickets' = 1..(Len(tickets) + 1)
  BY <1>4, LenProperties DEF Caching
<1>6. \A k \in DOMAIN tickets' : tickets'[k].user \in users
  BY <1>4, <1>5 DEF Caching
<1> QED
  BY <1>4, <1>6 DEF Grown

\* Who enters with a password or a ticket gets a token for a row there is.
LEMMA EnterIssues ==
    ASSUME Facts, Enter
    PROVE  \/ \E e \in users, t \in tenants, role \in Roles, driver \in BOOLEAN :
                 /\ Issue(e, t, role, driver, 1)
                 /\ IF driver THEN role = "DRIVER" /\ profiles[e].tenant = t
                    ELSE [user |-> e, tenant |-> t, role |-> role] \in members
                 /\ UNCHANGED tickets
           \/ \E e \in users : IssueTicket(e) /\ UNCHANGED tokens
<1>1. /\ members \subseteq [user : users, tenant : tenants, role : Roles]
      /\ users \subseteq Emails
      /\ \A e \in Emails : profiles[e].status = "ACTIVE" => profiles[e].tenant \in tenants
      /\ \A k \in DOMAIN tickets : tickets[k].user \in users
  <2>1. \A e \in Emails : profiles[e] = NoProfile => profiles[e].status # "ACTIVE"
    BY DEF NoProfile, NoOne
  <2> QED
    BY <2>1 DEF Facts, Rows, Caching
<1>2. ASSUME NEW e \in users, NEW m \in MembershipsOf(e), Issue(e, m.tenant, m.role, FALSE, 1)
      PROVE  \E t \in tenants, role \in Roles :
                Issue(e, t, role, FALSE, 1) /\ [user |-> e, tenant |-> t, role |-> role] \in members
  <2>1. /\ m \in [user : users, tenant : tenants, role : Roles] /\ m \in members
        /\ m.user = e
    BY <1>1 DEF MembershipsOf
  <2>2. m = [user |-> e, tenant |-> m.tenant, role |-> m.role]
    BY <2>1
  <2> QED
    BY <1>2, <2>1, <2>2
<1>3. CASE \E e \in Emails, t \in Tenants \cup {NoOne} : Login(e, t)
  <2>1. PICK e \in users : \E m \in MembershipsOf(e) : Issue(e, m.tenant, m.role, FALSE, 1)
    BY <1>3 DEF Login
  <2>2. UNCHANGED tickets
    BY <1>3 DEF Login
  <2> QED
    BY <1>2, <2>1, <2>2
<1>4. CASE \E e \in Emails : LoginToChoose(e)
  BY <1>4 DEF LoginToChoose
<1>5. CASE \E e \in Emails : LoginDriver(e)
  <2>1. PICK e \in users : /\ profiles[e].status = "ACTIVE" /\ UNCHANGED tickets
                           /\ Issue(e, profiles[e].tenant, "DRIVER", TRUE, 1)
    BY <1>5 DEF LoginDriver
  <2>2. profiles[e].tenant \in tenants
    BY <1>1, <2>1
  <2> QED
    BY <2>1, <2>2 DEF Roles
<1>6. CASE \E k \in DOMAIN tickets, t \in Tenants : SelectTenant(k, t)
  <2>1. PICK k \in DOMAIN tickets, t \in Tenants : SelectTenant(k, t)
    BY <1>6
  <2>2. PICK m \in MembershipsOf(TicketOf(k)) :
           m.tenant = t /\ Issue(m.user, t, m.role, FALSE, 1) /\ UNCHANGED tickets
    BY <2>1 DEF SelectTenant, Membership
  <2>3. m.user = TicketOf(k) /\ TicketOf(k) \in users
    BY <1>1, <2>2 DEF MembershipsOf, TicketOf
  <2> QED
    BY <1>2, <2>2, <2>3
<1>7. CASE \E k \in DOMAIN tickets, t \in Tenants : SelectTenantDriver(k, t)
  <2>1. PICK k \in DOMAIN tickets, t \in Tenants : SelectTenantDriver(k, t)
    BY <1>7
  <2>2. PICK e \in users : e = TicketOf(k)
    BY <1>1 DEF TicketOf
  <2>3. /\ profiles[e] = [tenant |-> t, status |-> "ACTIVE"]
        /\ Issue(e, t, "DRIVER", TRUE, 1) /\ UNCHANGED tickets
    BY <2>1, <2>2 DEF SelectTenantDriver
  <2>4. profiles[e].tenant = t /\ t \in tenants
    BY <1>1, <2>2, <2>3
  <2> QED
    BY <2>3, <2>4 DEF Roles
<1> QED
  BY <1>3, <1>4, <1>5, <1>6, <1>7 DEF Enter

LEMMA StepTokens ==
    ASSUME Facts, SessionsNext
    PROVE  /\ tokens' \in Seq(TokenRec) /\ Tokens' /\ TokensKept
           /\ tickets' \in Seq(TicketRec)
           /\ \A k \in DOMAIN tickets' : tickets'[k].user \in users'
<1>1. Rows' /\ Grown /\ now <= now'
  BY StepRows
<1>2. ASSUME UNCHANGED tickets
      PROVE  /\ tickets' \in Seq(TicketRec)
             /\ \A k \in DOMAIN tickets' : tickets'[k].user \in users'
  BY <1>1, <1>2 DEF Facts, Caching, Grown
<1>3. ASSUME UNCHANGED tokens
      PROVE  tokens' \in Seq(TokenRec) /\ Tokens' /\ TokensKept
  BY <1>1, <1>3, TokensStay DEF Facts, Caching
<1>4. CASE Tick
  BY <1>2, <1>3, <1>4 DEF Tick, sessionVars
<1>5. CASE Enter
  <2>1. /\ UNCHANGED <<tables, requests, deaths>> /\ now' = now
    BY <1>5, OutsideEffect DEF OutsideStep, Enter, Login, LoginToChoose, LoginDriver,
       SelectTenant, SelectTenantDriver, Call
  <2>2. members' = members /\ profiles' = profiles
    BY <2>1 DEF tables
  <2>3. CASE \E e \in users : IssueTicket(e) /\ UNCHANGED tokens
    BY <1>1, <1>3, <2>3, TicketSet DEF Facts
  <2>4. CASE \E e \in users, t \in tenants, role \in Roles, driver \in BOOLEAN :
               /\ Issue(e, t, role, driver, 1)
               /\ IF driver THEN role = "DRIVER" /\ profiles[e].tenant = t
                  ELSE [user |-> e, tenant |-> t, role |-> role] \in members
               /\ UNCHANGED tickets
    BY <1>1, <1>2, <2>1, <2>2, <2>4, IssueKeeps
  <2> QED
    BY <1>5, <2>3, <2>4, EnterIssues
<1>6. ASSUME NEW r \in Requests, Serve(r)
      PROVE  /\ tokens' \in Seq(TokenRec) /\ Tokens' /\ TokensKept
             /\ tickets' = tickets
  <2>1. CASE QuietStep(r)
    BY <1>3, <2>1, QuietEffect
  <2>2. CASE UNCHANGED sessionVars
    BY <1>3, <2>2 DEF sessionVars
  <2>3. CASE RegisterAnswer(r)
    BY <1>1, <2>3, RegisterEffect, IssueKeeps DEF counters, Roles
  <2> QED
    BY <1>6, <2>1, <2>2, <2>3, ServeIs
<1> QED
  BY <1>2, <1>4, <1>5, <1>6 DEF SessionsNext

LEMMA StepCaches ==
    ASSUME Facts, SessionsNext
    PROVE  /\ UNCHANGED <<revokedUsers, loggedOut>> \/ \E r \in Requests : LogoutAll(r)
           /\ Caching'
<1>1. ASSUME NEW r \in Requests, Serve(r), ~LogoutAll(r)
      PROVE  UNCHANGED <<revokedUsers, loggedOut>>
  <2>1. CASE QuietStep(r)
    BY <1>1, <2>1 DEF QuietStep, Arrive, CheckRevoked, CheckStanding, Logout, sessionVars
  <2>2. CASE UNCHANGED sessionVars
    BY <2>2 DEF sessionVars
  <2>3. CASE RegisterAnswer(r)
    BY <2>3 DEF RegisterAnswer, Caches
  <2> QED
    BY <1>1, <2>1, <2>2, <2>3, ServeIs
<1>2. ASSUME OutsideStep PROVE UNCHANGED <<revokedUsers, loggedOut>>
  BY <1>2 DEF OutsideStep, Tick, Enter, Login, LoginToChoose, LoginDriver, SelectTenant,
     SelectTenantDriver, Caches, sessionVars
<1>3. UNCHANGED <<revokedUsers, loggedOut>> \/ \E r \in Requests : LogoutAll(r)
  BY <1>1, <1>2 DEF SessionsNext, OutsideStep
<1>4. ASSUME NEW r \in Requests, LogoutAll(r)
      PROVE  /\ revokedUsers' \in [Emails -> [at : Int, until : Int]]
             /\ loggedOut' \in [Emails -> Int]
  <2>1. now \in Int /\ now + RevocationTTL \in Int
    BY SessionsAssumption DEF Facts, Rows
  <2> QED
    BY <1>4, <2>1 DEF LogoutAll, RevokedUntil, Facts, Caching
<1>5. /\ revokedUsers' \in [Emails -> [at : Int, until : Int]]
      /\ loggedOut' \in [Emails -> Int]
  BY <1>3, <1>4 DEF Facts, Caching
<1> QED
  BY <1>3, <1>5, StepTokens DEF Caching

-----------------------------------------------------------------------------
\* Requests stay in their sessions.
SessionFacts(r) ==
    /\ requests[r].at \notin Public => InSession(r)
    /\ requests[r].at \in Public =>
          requests[r].token = 0 /\ ~requests[r].gone /\ ~requests[r].barred
    /\ requests[r].at = "register" => requests[r].email \in Emails

LEMMA EqualKept ==
    ASSUME NEW s \in Requests, requests'[s] = requests[s]
    PROVE  Kept(s)
  BY DEF Kept

LEMMA OthersSessions ==
    ASSUME Facts, TokensKept, NEW s \in Requests, Kept(s)
    PROVE  SessionFacts(s)'
  BY DEF Facts, InSessions, SessionFacts, InSession, TokensKept, Kept

LEMMA GoesOn ==
    ASSUME Facts, TokensKept, NEW r \in Requests, SameSession(r),
           requests[r].at \notin Public, requests'[r].at \notin Public,
           requests'[r].tenant = requests[r].tenant
    PROVE  SessionFacts(r)'
<1>1. requests'[r].at # "register"
  BY DEF Public
<1> QED
  BY <1>1 DEF Facts, InSessions, SessionFacts, InSession, TokensKept, SameSession

LEMMA Ends ==
    ASSUME NEW r \in Requests, requests'[r] = Idle
    PROVE  SessionFacts(r)'
<1>1. /\ requests'[r].at = "idle" /\ requests'[r].token = 0
      /\ ~requests'[r].gone /\ ~requests'[r].barred
  BY DEF Idle
<1> QED
  BY <1>1 DEF SessionFacts, Public

LEMMA QuietSessions ==
    ASSUME Facts, TokensKept, NEW r \in Requests, QuietStep(r)
    PROVE  SessionFacts(r)'
<1> USE DEF At
<1>1. Rows /\ Caching
  BY DEF Facts
<1>2. CASE \E e \in Emails : Register(r, e) /\ UNCHANGED sessionVars
  BY <1>1, <1>2, RegisterSet DEF SessionFacts, Public
<1>3. CASE \E k \in DOMAIN tokens : Arrive(r, k)
  <2>1. PICK k \in DOMAIN tokens : Arrive(r, k)
    BY <1>3
  <2>2. WellFormed(tokens[k])
    BY <2>1 DEF Arrive
  <2>3. /\ requests'[r].at = "arrived" /\ requests'[r].user = tokens[k].user
        /\ requests'[r].tenant = tokens[k].tenant /\ requests'[r].token = k
    BY <1>1, <2>1, ArriveSet
  <2>4. k \in DOMAIN tokens' /\ tokens'[k] = tokens[k]
    BY DEF TokensKept
  <2> QED
    BY <2>2, <2>3, <2>4 DEF SessionFacts, InSession, Public, WellFormed
<1>4. CASE CheckRevoked(r)
  <2>1. Go(r, "checked") /\ "checked" \in Stages /\ requests[r].at = "arrived"
    BY <1>4 DEF CheckRevoked, Stages
  <2> QED
    BY <1>1, <2>1, GoSet, GoesOn DEF Public
<1>5. CASE CheckStanding(r)
  <2>1. Go(r, "accepted") /\ "accepted" \in Stages /\ requests[r].at = "checked"
    BY <1>5 DEF CheckStanding, Stages
  <2> QED
    BY <1>1, <2>1, GoSet, GoesOn DEF Public
<1>6. CASE Logout(r) \/ LogoutAll(r) \/ RegisterNameless(r) \/ Leave(r)
  BY <1>1, <1>6, AnswerSet, Ends DEF Logout, LogoutAll, RegisterNameless, Leave
<1>7. CASE InviteOnly(r)
  <2>1. Go(r, "invitation") /\ "invitation" \in Stages /\ requests[r].at = "invite"
    BY <1>7 DEF InviteOnly, Stages
  <2> QED
    BY <1>1, <2>1, GoSet, GoesOn DEF Public
<1>8. CASE \E i \in Invitations : Find(r, i, "resend") \/ Find(r, i, "cancel")
  BY <1>1, <1>8, FindSet, GoesOn DEF Public
<1> QED
  BY <1>2, <1>3, <1>4, <1>5, <1>6, <1>7, <1>8 DEF QuietStep

LEMMA WritingSessions ==
    ASSUME Facts, TokensKept, NEW r \in Requests, WritingStep(r)
    PROVE  SessionFacts(r)'
<1> USE DEF At
<1>1. Rows /\ Caching /\ SessionFacts(r)
  BY DEF Facts, InSessions, SessionFacts
<1>2. ASSUME requests[r].at \in Public, SameSession(r), requests'[r].at \in {"tenant", "membership"}
      PROVE  SessionFacts(r)'
  BY <1>1, <1>2 DEF SessionFacts, SameSession, Public
<1>3. CASE RegisterUser(r)
  <2>1. "tenant" \in Stages /\ requests[r].at = "register"
    BY <1>3 DEF RegisterUser, Stages
  <2> QED
    BY <1>1, <1>2, <1>3, <2>1, GoSet, AnswerSet, Ends DEF RegisterUser, Public
<1>4. CASE \E t \in Tenants : RegisterTenant(r, t)
  BY <1>1, <1>2, <1>4, TenantSet DEF Public
<1>5. CASE \E e \in Emails : CreateDriver(r, e)
  <2>1. PICK e \in Emails : CreateDriver(r, e)
    BY <1>5
  <2>2. CASE e \in users
    BY <1>1, <2>1, <2>2, AnswerSet, Ends DEF CreateDriver
  <2>3. CASE e \notin users
    BY <1>1, <2>1, <2>3, CreateSet, GoesOn DEF Public
  <2> QED
    BY <2>2, <2>3
<1>6. CASE DriverMember(r)
  <2>1. Go(r, "driverProfile") /\ "driverProfile" \in Stages /\ requests[r].at = "driverMember"
    BY <1>6 DEF DriverMember, Stages
  <2> QED
    BY <1>1, <2>1, GoSet, GoesOn DEF Public
<1>7. CASE DriverProfile(r) \/ (\E i \in Invitations : InvitationWrite(r, i))
             \/ Resend(r) \/ Cancel(r)
  BY <1>1, <1>7, AnswerSet, Ends DEF DriverProfile, InvitationWrite, Resend, Cancel
<1>8. CASE \E e \in Emails, status \in Statuses : UpdateDriver(r, e, status)
  <2>1. requests'[r] = Idle
    BY <1>1, <1>8, UpdateSet
  <2> QED
    BY <2>1, Ends
<1>9. CASE \E e \in Emails, role \in {"DRIVER", "MANAGER"} : Invite(r, e, role)
  BY <1>1, <1>9, InviteSet, GoesOn DEF Public
<1>10. CASE InviteProfile(r)
  <2>1. "invitation" \in Stages /\ requests[r].at = "invite"
    BY <1>10 DEF InviteProfile, Stages
  <2> QED
    BY <1>1, <1>10, <2>1, GoSet, GoesOn, AnswerSet, Ends DEF InviteProfile, Public
<1> QED
  BY <1>3, <1>4, <1>5, <1>6, <1>7, <1>8, <1>9, <1>10 DEF WritingStep

LEMMA StepSessions ==
    ASSUME Facts, SessionsNext
    PROVE  InSessions'
<1>1. TokensKept
  BY StepTokens
<1>2. ASSUME NEW r \in Requests, Serve(r)
      PROVE  SessionFacts(r)' /\ \A s \in Requests \ {r} : Kept(s)
  <2>1. CASE QuietStep(r)
    BY <1>1, <2>1, QuietEffect, QuietSessions, EqualKept
  <2>2. CASE WritingStep(r)
    BY <1>1, <2>2, WritingRequests, WritingSessions
  <2>3. CASE RegisterAnswer(r)
    BY <2>3, RegisterEffect, Ends, EqualKept
  <2> QED
    BY <1>2, <2>1, <2>2, <2>3, ServeIs
<1>3. \A s \in Requests : SessionFacts(s)'
  <2>1. CASE OutsideStep
    BY <1>1, <2>1, OutsideEffect, EqualKept, OthersSessions
  <2>2. CASE \E r \in Requests : Serve(r)
    BY <1>1, <1>2, <2>2, OthersSessions
  <2> QED
    BY <2>1, <2>2 DEF SessionsNext, OutsideStep
<1> QED
  BY <1>3 DEF InSessions, SessionFacts

-----------------------------------------------------------------------------
\* What happens to the request that steps: it arrives, it passes the cache, it goes
\* on in its session or without one, or it ends.
LEMMA ServedStep ==
    ASSUME Facts, NEW r \in Requests, Serve(r)
    PROVE  /\ now' = now /\ requests' \in [Requests -> RequestRec]
           /\ \A s \in Requests \ {r} : Kept(s)
           /\ \/ \E k \in DOMAIN tokens : Arrive(r, k)
              \/ CheckRevoked(r)
              \/ /\ requests'[r].at # "arrived" /\ SameSession(r)
                 /\ requests[r].at \notin {"idle", "arrived"}
              \/ /\ requests'[r].at \in {"idle", "register"}
                 /\ ~requests'[r].gone /\ ~requests'[r].barred
<1> USE DEF At
<1>1. Rows /\ Caching
  BY DEF Facts
<1>2. Idle.at = "idle" /\ ~Idle.gone /\ ~Idle.barred
  BY DEF Idle
<1>3. now' = now /\ requests' \in [Requests -> RequestRec] /\ \A s \in Requests \ {r} : Kept(s)
  <2>1. CASE QuietStep(r)
    BY <2>1, QuietEffect, EqualKept
  <2>2. CASE WritingStep(r)
    BY <2>2, WritingRequests DEF counters
  <2>3. CASE RegisterAnswer(r)
    BY <2>3, RegisterEffect, EqualKept DEF counters
  <2> QED
    BY <2>1, <2>2, <2>3, ServeIs
<1> DEFINE Follows ==
      \/ \E k \in DOMAIN tokens : Arrive(r, k)
      \/ CheckRevoked(r)
      \/ /\ requests'[r].at # "arrived" /\ SameSession(r)
         /\ requests[r].at \notin {"idle", "arrived"}
      \/ /\ requests'[r].at \in {"idle", "register"}
         /\ ~requests'[r].gone /\ ~requests'[r].barred
<1>4. ASSUME Answer(r) PROVE Follows
  BY <1>1, <1>2, <1>4, AnswerSet
<1>5. ASSUME NEW stage \in Stages \ {"arrived"}, Go(r, stage),
             requests[r].at \notin {"idle", "arrived"}
      PROVE  Follows
  BY <1>1, <1>5, GoSet
<1>6. /\ "accepted" \in Stages \ {"arrived"} /\ "invitation" \in Stages \ {"arrived"}
      /\ "tenant" \in Stages \ {"arrived"} /\ "driverProfile" \in Stages \ {"arrived"}
  BY DEF Stages
<1>7. ASSUME QuietStep(r) PROVE Follows
  <2>1. CASE \E e \in Emails : Register(r, e) /\ UNCHANGED sessionVars
    BY <1>1, <2>1, RegisterSet
  <2>2. CASE CheckStanding(r)
    BY <1>5, <1>6, <2>2 DEF CheckStanding
  <2>3. CASE Logout(r) \/ LogoutAll(r) \/ RegisterNameless(r) \/ Leave(r)
    BY <1>4, <2>3 DEF Logout, LogoutAll, RegisterNameless, Leave
  <2>4. CASE InviteOnly(r)
    BY <1>5, <1>6, <2>4 DEF InviteOnly
  <2>5. CASE \E i \in Invitations : Find(r, i, "resend") \/ Find(r, i, "cancel")
    BY <1>1, <2>5, FindSet
  <2> QED
    BY <1>7, <2>1, <2>2, <2>3, <2>4, <2>5 DEF QuietStep
<1>8. ASSUME WritingStep(r) PROVE Follows
  <2>1. CASE RegisterUser(r)
    BY <1>4, <1>5, <1>6, <2>1 DEF RegisterUser
  <2>2. CASE \E t \in Tenants : RegisterTenant(r, t)
    BY <1>1, <2>2, TenantSet
  <2>3. CASE \E e \in Emails : CreateDriver(r, e)
    BY <1>1, <1>4, <2>3, CreateSet DEF CreateDriver
  <2>4. CASE DriverMember(r)
    BY <1>5, <1>6, <2>4 DEF DriverMember
  <2>5. CASE DriverProfile(r) \/ (\E i \in Invitations : InvitationWrite(r, i))
               \/ Resend(r) \/ Cancel(r)
    BY <1>4, <2>5 DEF DriverProfile, InvitationWrite, Resend, Cancel
  <2>6. CASE \E e \in Emails, status \in Statuses : UpdateDriver(r, e, status)
    <3>1. requests'[r] = Idle
      BY <1>1, <2>6, UpdateSet
    <3> QED
      BY <1>2, <3>1
  <2>7. CASE \E e \in Emails, role \in {"DRIVER", "MANAGER"} : Invite(r, e, role)
    BY <1>1, <2>7, InviteSet
  <2>8. CASE InviteProfile(r)
    BY <1>4, <1>5, <1>6, <2>8 DEF InviteProfile
  <2> QED
    BY <1>8, <2>1, <2>2, <2>3, <2>4, <2>5, <2>6, <2>7, <2>8 DEF WritingStep
<1>9. ASSUME RegisterAnswer(r) PROVE Follows
  BY <1>4, <1>9 DEF RegisterAnswer, RegisterMember
<1> QED
  BY <1>3, <1>7, <1>8, <1>9, ServeIs

-----------------------------------------------------------------------------
\* Logouts from all devices.
Logouts ==
    \A e \in Emails :
        /\ revokedUsers[e].at = loggedOut[e] /\ loggedOut[e] <= now
        /\ loggedOut[e] # Never => revokedUsers[e].until = loggedOut[e] + RevocationTTL

Waiting(r) ==
    /\ requests[r].at # "arrived" => ~requests[r].gone
    /\ requests[r].at = "arrived" =>
          LET iat == tokens[requests[r].token].iat IN
          /\ now <= iat * TicksPerSecond + RevocationTTL
          /\ requests[r].gone => iat * TicksPerSecond < loggedOut[requests[r].user]

LEMMA RevocationIs == Revocation <=> Logouts /\ \A r \in Requests : Waiting(r)
  BY DEF Revocation, Logouts, Waiting

LEMMA StepLogouts ==
    ASSUME Facts, Logouts, SessionsNext
    PROVE  Logouts' /\ \A e \in Emails : loggedOut[e] <= loggedOut'[e]
<1>1. /\ now \in Int /\ now' \in Int /\ now <= now' /\ loggedOut \in [Emails -> Int]
      /\ revokedUsers \in [Emails -> [at : Int, until : Int]]
      /\ RevocationTTL \in Int
  BY StepRows, SessionsAssumption DEF Facts, Rows, Caching
<1>2. CASE UNCHANGED <<revokedUsers, loggedOut>>
  BY <1>1, <1>2 DEF Logouts
<1>3. CASE \E r \in Requests : LogoutAll(r)
  <2>1. PICK r \in Requests : LogoutAll(r)
    BY <1>3
  <2>2. PICK user \in Emails : user = requests[r].user
    BY <2>1, SessionKnown DEF LogoutAll, At, Public
  <2>3. /\ revokedUsers' = [revokedUsers EXCEPT ![user] =
                               [at |-> now, until |-> now + RevocationTTL]]
        /\ loggedOut' = [loggedOut EXCEPT ![user] = now]
        /\ now' = now
    BY <2>1, <2>2 DEF LogoutAll, RevokedUntil, counters
  <2> QED
    BY <1>1, <2>3 DEF Logouts
<1> QED
  BY <1>2, <1>3, StepCaches

\* A request with a live token has waited less than its revocation lives.
LEMMA LifetimesNest ==
    ASSUME NEW s \in Nat, NEW iat \in Nat, NEW ttl \in Nat, NEW p \in Nat, s < iat + ttl
    PROVE  s * p + p <= iat * p + ttl * p
<1>1. PICK d \in Nat : iat + ttl = s + 1 + d
  <2>1. iat + ttl - s - 1 \in Nat /\ iat + ttl = s + 1 + (iat + ttl - s - 1)
    OBVIOUS
  <2> QED
    BY <2>1
<1>2. (iat + ttl) * p = s * p + p + d * p
  BY <1>1
<1>3. d * p >= 0
  OBVIOUS
<1>4. (iat + ttl) * p = iat * p + ttl * p
  OBVIOUS
<1>5. PICK a \in Nat, b \in Nat, c \in Nat, f \in Nat :
         a = s * p /\ b = d * p /\ c = iat * p /\ f = ttl * p
  OBVIOUS
<1> QED
  BY <1>2, <1>3, <1>4, <1>5

LEMMA ArriveWaits ==
    ASSUME Facts, TokensKept, now' = now, NEW r \in Requests, NEW k \in DOMAIN tokens,
           Arrive(r, k)
    PROVE  Waiting(r)'
<1>1. /\ requests'[r].at = "arrived" /\ requests'[r].user = tokens[k].user
      /\ requests'[r].token = k
      /\ requests'[r].gone => loggedOut[tokens[k].user] > tokens[k].iat * TicksPerSecond
  BY ArriveSet DEF Facts
<1>2. Second < tokens[k].exp /\ loggedOut' = loggedOut
  BY DEF Arrive, sessionVars
<1>3. tokens[k] \in TokenRec /\ Backed(tokens[k])
  BY ElementOfSeq, LenProperties DEF Facts, Caching, Tokens
<1>4. PICK iat \in Nat : iat = tokens[k].iat
  BY <1>3 DEF TokenRec
<1>5. Second < iat + AccessTTL
  BY <1>2, <1>3, <1>4 DEF Backed
<1>6. Second * TicksPerSecond + TicksPerSecond <= iat * TicksPerSecond + AccessTTL * TicksPerSecond
  BY <1>5, SecondIs, LifetimesNest, SessionsAssumption DEF Facts
<1>7. /\ now \in Int /\ now < Second * TicksPerSecond + TicksPerSecond
      /\ RevocationTTL >= AccessTTL * TicksPerSecond
  BY SecondIs, SessionsAssumption DEF Facts, Rows
<1>8. PICK a \in Int, b \in Int, c \in Int :
         a = Second * TicksPerSecond /\ b = iat * TicksPerSecond /\ c = AccessTTL * TicksPerSecond
  BY SecondIs, SessionsAssumption DEF Facts
<1>9. now <= iat * TicksPerSecond + RevocationTTL
  BY <1>6, <1>7, <1>8, SessionsAssumption
<1>10. loggedOut[tokens[k].user] \in Int /\ tokens[k].iat * TicksPerSecond \in Int
  BY <1>3, SessionsAssumption DEF Facts, Caching, TokenRec
<1> QED
  BY <1>1, <1>2, <1>4, <1>9, <1>10 DEF Waiting, TokensKept

\* The cache refuses a request whose session was logged out before it arrived.
LEMMA CacheRefuses ==
    ASSUME Facts, Logouts, NEW r \in Requests, Waiting(r), CheckRevoked(r)
    PROVE  ~requests[r].gone
<1>1. requests[r].at = "arrived"
  BY DEF CheckRevoked, At
<1>2. InSession(r) /\ requests[r].user \in Emails
  BY <1>1, SessionKnown DEF Public
<1>3. tokens[requests[r].token] \in TokenRec
  BY <1>2, ElementOfSeq, LenProperties DEF Facts, Caching, InSession
<1>4. PICK issued \in Nat : issued = tokens[requests[r].token].iat * TicksPerSecond
  BY <1>3, SessionsAssumption DEF TokenRec
<1>5. SUFFICES ASSUME requests[r].gone PROVE FALSE
  OBVIOUS
<1>6. issued < loggedOut[requests[r].user] /\ now <= issued + RevocationTTL
  BY <1>1, <1>4, <1>5 DEF Waiting
<1>7. /\ revokedUsers[requests[r].user].at = loggedOut[requests[r].user]
      /\ revokedUsers[requests[r].user].until = loggedOut[requests[r].user] + RevocationTTL
      /\ loggedOut[requests[r].user] \in Int
  BY <1>2, <1>4, <1>6 DEF Logouts, Never, Facts, Caching
<1>8. now \in Int /\ RevocationTTL \in Int
  BY SessionsAssumption DEF Facts, Rows
<1>9. now < revokedUsers[requests[r].user].until /\ issued < revokedUsers[requests[r].user].at
  BY <1>4, <1>6, <1>7, <1>8
<1> QED
  BY <1>4, <1>9 DEF CheckRevoked, IsUserRevoked

LEMMA StepRevocation ==
    ASSUME Facts, Revocation, SessionsNext
    PROVE  Revocation'
<1>1. Logouts /\ \A s \in Requests : Waiting(s)
  BY RevocationIs
<1>2. Logouts' /\ \A e \in Emails : loggedOut[e] <= loggedOut'[e]
  BY <1>1, StepLogouts
<1>3. TokensKept /\ now \in Int /\ now' \in Int /\ RevocationTTL \in Int
  BY StepTokens, StepRows, SessionsAssumption DEF Facts, Rows
<1>4. \A e \in Emails : loggedOut[e] \in Int /\ loggedOut'[e] \in Int
  BY StepCaches DEF Facts, Caching
<1>5. ASSUME NEW s \in Requests, Kept(s),
             requests[s].at = "arrived" =>
                now' <= tokens[requests[s].token].iat * TicksPerSecond + RevocationTTL
      PROVE  Waiting(s)'
  <2>1. CASE requests[s].at # "arrived"
    BY <1>1, <1>5, <2>1 DEF Waiting, Kept
  <2>2. CASE requests[s].at = "arrived"
    <3>1. InSession(s) /\ requests[s].user \in Emails
      BY <2>2, SessionKnown DEF Public
    <3>2. tokens'[requests[s].token] = tokens[requests[s].token]
      BY <1>3, <3>1 DEF TokensKept, InSession
    <3>3. tokens[requests[s].token] \in TokenRec
      BY <3>1, ElementOfSeq, LenProperties DEF Facts, Caching, InSession
    <3>4. PICK issued \in Int : issued = tokens[requests[s].token].iat * TicksPerSecond
      BY <3>3, SessionsAssumption DEF TokenRec
    <3>5. requests[s].gone => issued < loggedOut'[requests[s].user]
      BY <1>1, <1>2, <1>4, <2>2, <3>1, <3>4 DEF Waiting
    <3>6. now' <= issued + RevocationTTL
      BY <1>5, <2>2, <3>4
    <3> QED
      BY <1>5, <2>2, <3>2, <3>4, <3>5, <3>6 DEF Waiting, Kept
  <2> QED
    BY <2>1, <2>2
<1>6. CASE Tick
  <2>1. ASSUME NEW s \in Requests
        PROVE  /\ Kept(s)
               /\ requests[s].at = "arrived" =>
                     now' <= tokens[requests[s].token].iat * TicksPerSecond + RevocationTTL
    <3>1. /\ requests' = requests /\ now' = now + 1
          /\ requests[s].at = "arrived" =>
                now < tokens[requests[s].token].iat * TicksPerSecond + RevocationTTL
      BY <1>6 DEF Tick, Patience, At
    <3>2. ASSUME requests[s].at = "arrived"
          PROVE  tokens[requests[s].token].iat * TicksPerSecond \in Int
      <4>1. InSession(s)
        BY <3>2, SessionKnown DEF Public
      <4>2. tokens[requests[s].token] \in TokenRec
        BY <4>1, ElementOfSeq, LenProperties DEF Facts, Caching, InSession
      <4> QED
        BY <4>2, SessionsAssumption DEF TokenRec
    <3>3. Kept(s)
      BY <3>1, EqualKept
    <3> QED
      BY <1>3, <3>1, <3>2, <3>3
  <2>2. \A s \in Requests : Waiting(s)'
    BY <1>5, <2>1
  <2> QED
    BY <1>2, <2>2 DEF Revocation, Logouts, Waiting
<1>7. CASE Enter
  <2>1. requests' = requests /\ now' = now
    BY <1>7, OutsideEffect DEF OutsideStep, Enter, Login, LoginToChoose, LoginDriver,
       SelectTenant, SelectTenantDriver, Call
  <2>2. \A s \in Requests : Waiting(s)'
    BY <1>1, <1>5, <2>1, EqualKept DEF Waiting
  <2> QED
    BY <1>2, <2>2 DEF Revocation, Logouts, Waiting
<1>8. ASSUME NEW r \in Requests, Serve(r) PROVE \A s \in Requests : Waiting(s)'
  <2>1. now' = now /\ \A s \in Requests \ {r} : Kept(s)
    BY <1>8, ServedStep
  <2>2. \A s \in Requests \ {r} : Waiting(s)'
    BY <1>1, <1>5, <2>1 DEF Waiting
  <2>3. Waiting(r)'
    <3>1. CASE \E k \in DOMAIN tokens : Arrive(r, k)
      BY <1>3, <2>1, <3>1, ArriveWaits
    <3>2. CASE CheckRevoked(r)
      <4>1. ~requests[r].gone
        BY <1>1, <3>2, CacheRefuses
      <4>2. requests'[r].at = "checked" /\ requests'[r].gone = requests[r].gone
        BY <3>2, GoSet DEF CheckRevoked, Facts, Stages, SameSession
      <4> QED
        BY <4>1, <4>2 DEF Waiting
    <3>3. CASE /\ requests'[r].at # "arrived" /\ SameSession(r)
               /\ requests[r].at \notin {"idle", "arrived"}
      BY <1>1, <3>3 DEF Waiting, SameSession
    <3>4. CASE requests'[r].at \in {"idle", "register"} /\ ~requests'[r].gone
      BY <3>4 DEF Waiting
    <3> QED
      BY <1>8, <3>1, <3>2, <3>3, <3>4, ServedStep
  <2> QED
    BY <2>2, <2>3
<1>9. ASSUME NEW r \in Requests, Serve(r) PROVE Revocation'
  BY <1>2, <1>8, <1>9 DEF Revocation, Logouts, Waiting
<1> QED
  BY <1>6, <1>7, <1>9 DEF SessionsNext

-----------------------------------------------------------------------------
\* Drivers an admin has deactivated.
Barring(r) ==
    requests[r].barred =>
        /\ requests[r].at \in {"arrived", "checked"}
        /\ tokens[requests[r].token].driver
        /\ profiles[requests[r].user].status # "ACTIVE"

LEMMA DeactivationIs == Deactivation <=> \A r \in Requests : Barring(r)
  BY DEF Deactivation, Barring

\* Whoever makes a profile ACTIVE lets the requests of its user through.
LEMMA Activation ==
    ASSUME Facts, NEW r \in Requests, Serve(r), NEW s \in Requests \ {r},
           requests'[s].barred, requests[s].user \in Emails,
           profiles[requests[s].user].status # "ACTIVE"
    PROVE  profiles'[requests[s].user].status # "ACTIVE"
<1>1. Rows
  BY DEF Facts
<1>2. CASE UNCHANGED profiles
  BY <1>2
<1>3. ASSUME NEW e \in Emails, NEW t, AddProfile(e, t)
      PROVE  profiles'[requests[s].user].status # "ACTIVE"
  BY <1>1, <1>3 DEF AddProfile, Rows
<1>4. CASE QuietStep(r)
  BY <1>2, <1>4, QuietEffect DEF tables
<1>5. CASE RegisterAnswer(r)
  BY <1>2, <1>5, RegisterEffect
<1>6. CASE WritingStep(r)
  <2>1. CASE \E e \in Emails, status \in Statuses : UpdateDriver(r, e, status)
    <3>1. PICK e \in Emails, status \in Statuses : UpdateDriver(r, e, status)
      BY <2>1
    <3>2. ~(requests[s].user = e /\ status = "ACTIVE")
      BY <1>1, <3>1, UpdateSet
    <3>3. profiles' = [profiles EXCEPT ![e].status = status] /\ profiles \in [Emails -> {NoProfile} \cup [tenant : tenants, status : Statuses]]
      BY <1>1, <3>1 DEF UpdateDriver, Rows
    <3>4. CASE requests[s].user # e
      BY <3>3, <3>4
    <3>5. CASE requests[s].user = e
      <4>1. profiles'[e].status = status
        BY <3>3 DEF NoProfile
      <4> QED
        BY <3>2, <3>5, <4>1
    <3> QED
      BY <3>4, <3>5
  <2>2. CASE DriverProfile(r)
    <3>1. requests[r].at = "driverProfile" /\ AddProfile(requests[r].email, requests[r].tenant)
      BY <2>2 DEF DriverProfile, At
    <3>2. requests[r].email \in Emails
      BY <1>1, <3>1 DEF Facts, Makers, InMaking, Rows
    <3> QED
      BY <1>3, <3>1, <3>2
  <2>3. CASE InviteProfile(r)
    <3>1. requests[r].user \in Emails
      BY <2>3, SessionKnown DEF InviteProfile, At, Public
    <3> QED
      BY <1>2, <1>3, <2>3, <3>1 DEF InviteProfile
  <2>4. CASE \E e \in Emails, role \in {"DRIVER", "MANAGER"} : Invite(r, e, role)
    BY <1>2, <2>4 DEF Invite, tables
  <2> QED
    BY <1>2, <1>6, <2>1, <2>2, <2>3, <2>4 DEF WritingStep, RegisterUser, RegisterTenant,
       CreateDriver, DriverMember, InvitationWrite, Resend, Cancel
<1> QED
  BY <1>4, <1>5, <1>6, ServeIs

\* The database refuses a driver whose profile is not ACTIVE.
LEMMA StandingRefuses ==
    ASSUME Facts, NEW r \in Requests, Barring(r), CheckStanding(r)
    PROVE  ~requests[r].barred
<1>1. requests[r].at = "checked" /\ Entitled(tokens[requests[r].token])
  BY DEF CheckStanding, At
<1>2. Backed(tokens[requests[r].token]) /\ InSession(r)
  BY <1>1, SessionKnown DEF Public
<1>3. SUFFICES ASSUME requests[r].barred PROVE FALSE
  OBVIOUS
<1>4. /\ tokens[requests[r].token].driver
      /\ profiles[tokens[requests[r].token].user].status # "ACTIVE"
  BY <1>2, <1>3 DEF Barring, InSession
<1>5. tokens[requests[r].token].role = "DRIVER"
  BY <1>2, <1>4 DEF Backed
<1> QED
  BY <1>1, <1>4, <1>5 DEF Entitled

LEMMA CheckedStep ==
    ASSUME Facts, NEW r \in Requests, Serve(r), requests[r].at = "checked"
    PROVE  CheckStanding(r) \/ Leave(r)
<1>1. ~WritingStep(r) /\ ~RegisterAnswer(r)
  BY WritingRequests, RegisterEffect
<1>2. QuietStep(r)
  BY <1>1, ServeIs
<1> QED
  BY <1>2 DEF QuietStep, Register, Arrive, CheckRevoked, Logout, LogoutAll, InviteOnly,
     RegisterNameless, Find, At

LEMMA StepDeactivation ==
    ASSUME Facts, Deactivation, SessionsNext
    PROVE  Deactivation'
<1>1. (\A s \in Requests : Barring(s)) /\ TokensKept
  BY DeactivationIs, StepTokens
<1>2. ASSUME NEW s \in Requests, Kept(s),
             requests'[s].barred => profiles'[requests[s].user].status # "ACTIVE"
      PROVE  Barring(s)'
  <2>1. SUFFICES ASSUME requests'[s].barred PROVE Barring(s)'
    BY DEF Barring
  <2>2. requests[s].barred /\ requests[s].at \in {"arrived", "checked"} /\ tokens[requests[s].token].driver
    BY <1>1, <1>2, <2>1 DEF Barring, Kept
  <2>3. tokens'[requests[s].token] = tokens[requests[s].token]
    BY <1>1, <2>2, SessionKnown DEF TokensKept, InSession, Public
  <2> QED
    BY <1>2, <2>1, <2>2, <2>3 DEF Barring, Kept
<1>3. CASE OutsideStep
  <2>1. requests' = requests /\ profiles' = profiles
    BY <1>3, OutsideEffect DEF tables
  <2>2. \A s \in Requests : Barring(s)'
    BY <1>1, <1>2, <2>1, EqualKept DEF Barring
  <2> QED
    BY <2>2 DEF Deactivation, Barring
<1>4. ASSUME NEW r \in Requests, Serve(r) PROVE Barring(r)'
  <2>1. CASE \E k \in DOMAIN tokens : Arrive(r, k)
    <3>1. PICK k \in DOMAIN tokens : Arrive(r, k)
      BY <2>1
    <3>2. /\ requests'[r].at = "arrived" /\ requests'[r].user = tokens[k].user
          /\ requests'[r].token = k
          /\ requests'[r].barred =>
                 tokens[k].driver /\ profiles[tokens[k].user].status # "ACTIVE"
          /\ profiles' = profiles
      BY <3>1, ArriveSet DEF Facts, tables
    <3> QED
      BY <1>1, <3>2 DEF Barring, TokensKept
  <2>2. CASE CheckRevoked(r)
    <3>1. /\ requests'[r].at = "checked" /\ SameSession(r) /\ requests[r].at = "arrived"
          /\ profiles' = profiles
      BY <2>2, GoSet DEF CheckRevoked, Facts, Stages, At, tables
    <3>2. tokens'[requests[r].token] = tokens[requests[r].token]
      BY <1>1, <3>1, SessionKnown DEF TokensKept, InSession, Public
    <3> QED
      BY <1>1, <3>1, <3>2 DEF Barring, SameSession
  <2>3. CASE /\ requests'[r].at # "arrived" /\ SameSession(r)
             /\ requests[r].at \notin {"idle", "arrived"}
    <3>1. CASE requests[r].at # "checked"
      BY <1>1, <2>3, <3>1 DEF Barring, SameSession
    <3>2. CASE CheckStanding(r)
      BY <1>1, <2>3, <3>2, StandingRefuses DEF Barring, SameSession
    <3>3. CASE Leave(r)
      <4>1. ~requests'[r].barred
        BY <3>3, AnswerSet DEF Leave, Idle, Facts
      <4> QED
        BY <4>1 DEF Barring
    <3> QED
      BY <1>4, <3>1, <3>2, <3>3, CheckedStep
  <2>4. CASE ~requests'[r].barred
    BY <2>4 DEF Barring
  <2> QED
    BY <1>4, <2>1, <2>2, <2>3, <2>4, ServedStep
<1>5. ASSUME NEW r \in Requests, Serve(r), NEW s \in Requests \ {r} PROVE Barring(s)'
  <2>1. Kept(s)
    BY <1>5, ServedStep
  <2>2. ASSUME requests'[s].barred PROVE profiles'[requests[s].user].status # "ACTIVE"
    <3>1. /\ requests[s].at \in {"arrived", "checked"}
          /\ profiles[requests[s].user].status # "ACTIVE"
      BY <1>1, <2>1, <2>2 DEF Barring, Kept
    <3>2. requests[s].user \in Emails
      BY <3>1, SessionKnown DEF Public
    <3> QED
      BY <1>5, <2>2, <3>1, <3>2, Activation
  <2> QED
    BY <1>2, <2>1, <2>2
<1>6. ASSUME NEW r \in Requests, Serve(r) PROVE Deactivation'
  BY <1>4, <1>5, <1>6 DEF Deactivation, Barring
<1> QED
  BY <1>3, <1>6 DEF SessionsNext, OutsideStep

-----------------------------------------------------------------------------
\* Requests that invite, and the invitations they make.
Pending(i) == invitations[i].expires > now

\* A request that invites after a step did so before it, or has just looked.
LEMMA InvitingStep ==
    ASSUME Facts, SessionsNext, NEW s \in Requests, Invites(s)'
    PROVE  \/ /\ Invites(s) /\ requests'[s].tenant = requests[s].tenant
              /\ requests'[s].email = requests[s].email
              /\ requests[s].crossed => requests'[s].crossed
           \/ \E e \in Emails, role \in {"DRIVER", "MANAGER"} : Invite(s, e, role)
<1> USE DEF At, Invites
<1>1. Rows
  BY DEF Facts
<1>2. CASE Kept(s)
  BY <1>2 DEF Kept
<1>3. ASSUME Go(s, "invitation"), requests[s].at = "invite"
      PROVE  /\ Invites(s) /\ requests'[s].tenant = requests[s].tenant
             /\ requests'[s].email = requests[s].email
             /\ requests[s].crossed => requests'[s].crossed
  <2>1. "invitation" \in Stages
    BY DEF Stages
  <2> QED
    BY <1>1, <1>3, <2>1, GoSet
<1>4. Idle.at = "idle"
  BY DEF Idle
<1>5. CASE QuietStep(s)
  <2>1. ASSUME NEW stage \in {"checked", "accepted"} PROVE ~Go(s, stage)
    <3>1. stage \in Stages
      BY DEF Stages
    <3> QED
      BY <1>1, <3>1, GoSet
  <2>2. ~Answer(s)
    BY <1>1, <1>4, AnswerSet
  <2>3. \A i \in Invitations : ~Find(s, i, "resend") /\ ~Find(s, i, "cancel")
    BY <1>1, FindSet
  <2>4. \A e \in Emails : ~Register(s, e)
    BY <1>1, RegisterSet
  <2>5. \A k \in DOMAIN tokens : ~Arrive(s, k)
    BY <1>1, ArriveSet DEF Facts
  <2>6. InviteOnly(s)
    BY <1>5, <2>1, <2>2, <2>3, <2>4, <2>5 DEF QuietStep, CheckRevoked, CheckStanding,
       Logout, LogoutAll, RegisterNameless, Leave
  <2> QED
    BY <1>3, <2>6 DEF InviteOnly
<1>6. CASE WritingStep(s)
  <2>1. ~Answer(s)
    BY <1>1, <1>4, AnswerSet
  <2>2. ASSUME NEW stage \in {"tenant", "driverProfile"} PROVE ~Go(s, stage)
    <3>1. stage \in Stages
      BY DEF Stages
    <3> QED
      BY <1>1, <3>1, GoSet
  <2>3. \A t \in Tenants : ~RegisterTenant(s, t)
    BY <1>1, TenantSet
  <2>4. \A e \in Emails : ~CreateDriver(s, e)
    BY <1>1, <2>1, CreateSet DEF CreateDriver
  <2>5. ASSUME NEW e \in Emails, NEW status \in Statuses PROVE ~UpdateDriver(s, e, status)
    BY <1>1, <1>4, UpdateSet
  <2>6. InviteProfile(s) \/ \E e \in Emails, role \in {"DRIVER", "MANAGER"} : Invite(s, e, role)
    BY <1>6, <2>1, <2>2, <2>3, <2>4, <2>5 DEF WritingStep, RegisterUser, DriverMember,
       DriverProfile, InvitationWrite, Resend, Cancel
  <2> QED
    BY <1>3, <2>1, <2>6 DEF InviteProfile
<1>7. ~RegisterAnswer(s)
  BY <1>4, RegisterEffect
<1>8. CASE OutsideStep
  BY <1>2, <1>8, OutsideEffect, EqualKept
<1>9. CASE \E r \in Requests : Serve(r)
  BY <1>2, <1>5, <1>6, <1>7, <1>9, ServedStep, ServeIs
<1> QED
  BY <1>8, <1>9 DEF SessionsNext, OutsideStep

\* An invitation that is pending after a step was so before it, has been resent, or has
\* just been written.
LEMMA PendingStep ==
    ASSUME Facts, SessionsNext, NEW i \in Invitations, Pending(i)'
    PROVE  \/ invitations'[i] = invitations[i] /\ Pending(i)
           \/ invitations'[i].late
           \/ \E q \in Requests : InvitationWrite(q, i)
<1>1. /\ Rows /\ now \in Int /\ now' \in Int /\ now <= now'
      /\ invitations \in [Invitations -> InvitationRec]
  BY StepRows DEF Facts, Rows
<1>2. CASE UNCHANGED invitations
  <2>1. invitations[i].expires \in Int /\ invitations'[i].expires > now'
    BY <1>1, <1>2 DEF Pending, InvitationRec
  <2>2. invitations[i].expires > now
    BY <1>1, <1>2, <2>1
  <2> QED
    BY <1>2, <2>2 DEF Pending
<1>3. ASSUME NEW r \in Requests, WritingStep(r), now' = now
      PROVE  \/ invitations'[i] = invitations[i] /\ Pending(i)
             \/ invitations'[i].late
             \/ \E q \in Requests : InvitationWrite(q, i)
  <2>1. CASE \E j \in Invitations : InvitationWrite(r, j)
    <3>1. PICK j \in Invitations : InvitationWrite(r, j)
      BY <2>1
    <3>2. j = i \/ invitations'[i] = invitations[i]
      BY <1>1, <3>1 DEF InvitationWrite
    <3> QED
      BY <1>3, <3>1, <3>2 DEF Pending
  <2>2. CASE Resend(r)
    <3>1. PICK x \in Int : x = now + InvitationTTL
      BY <1>1, OnboardingAssumption
    <3>2. \/ invitations' = invitations
          \/ invitations' = [invitations EXCEPT ![requests[r].invitation].expires = x,
                                                ![requests[r].invitation].late = TRUE]
      BY <2>2, <3>1 DEF Resend
    <3>3. invitations'[i] = invitations[i] \/ invitations'[i].late
      BY <1>1, <3>2 DEF InvitationRec
    <3> QED
      BY <1>3, <3>3 DEF Pending
  <2>3. CASE Cancel(r)
    <3>1. invitations'[i] = invitations[i] \/ invitations'[i] = NoInvitation
      BY <1>1, <2>3 DEF Cancel
    <3>2. CASE invitations'[i] = NoInvitation
      <4>1. invitations'[i].expires = 0
        BY <3>2 DEF NoInvitation
      <4>2. now' >= 0
        BY StepRows, OnboardingAssumption DEF Rows
      <4> QED
        BY <1>1, <4>1, <4>2 DEF Pending
    <3> QED
      BY <1>3, <3>1, <3>2 DEF Pending
  <2> QED
    BY <1>2, <1>3, <2>1, <2>2, <2>3 DEF WritingStep, RegisterUser, RegisterTenant,
       CreateDriver, DriverMember, DriverProfile, UpdateDriver, Invite, InviteProfile, tables
<1>4. ASSUME NEW r \in Requests, Serve(r)
      PROVE  \/ invitations'[i] = invitations[i] /\ Pending(i)
             \/ invitations'[i].late
             \/ \E q \in Requests : InvitationWrite(q, i)
  <2>1. CASE QuietStep(r)
    BY <1>2, <2>1, QuietEffect DEF tables
  <2>2. CASE WritingStep(r)
    BY <1>3, <1>4, <2>2, ServedStep
  <2>3. CASE RegisterAnswer(r)
    BY <1>2, <2>3, RegisterEffect
  <2> QED
    BY <1>4, <2>1, <2>2, <2>3, ServeIs
<1>5. CASE OutsideStep
  BY <1>2, <1>5, OutsideEffect DEF tables
<1> QED
  BY <1>4, <1>5 DEF SessionsNext, OutsideStep

LEMMA WriteEffect ==
    ASSUME Rows, NEW q \in Requests, NEW i \in Invitations, InvitationWrite(q, i)
    PROVE  /\ Invites(q) /\ requests'[q].at = "idle" /\ now' = now
           /\ invitations'[i].tenant = requests[q].tenant
           /\ invitations'[i].email = requests[q].email
           /\ invitations'[i].late = requests[q].crossed
           /\ \A j \in Invitations \ {i} : invitations'[j] = invitations[j]
<1>1. requests'[q].at = "idle"
  BY AnswerSet DEF InvitationWrite
<1> QED
  BY <1>1 DEF InvitationWrite, Rows, Invites, At, counters

LEMMA StepInviters ==
    ASSUME Facts, Inviters, SessionsNext
    PROVE  Inviters'
<1>1. Rows
  BY DEF Facts
<1>2. ASSUME NEW s \in Requests, NEW e \in Emails, NEW role \in {"DRIVER", "MANAGER"},
             Invite(s, e, role)
      PROVE  /\ requests'[s].tenant = requests[s].tenant /\ requests'[s].email = e
             /\ requests'[s].crossed <=> Inviting(requests[s].tenant, e) # {}
             /\ \A q \in Requests \ {s} :
                   /\ Kept(q)
                   /\ q \in Inviting(requests[s].tenant, e) => requests'[q].crossed
             /\ UNCHANGED <<invitations, now>>
             /\ ~ \E i \in Invitations : IsPending(i, requests[s].tenant, e)
  BY <1>1, <1>2, InviteSet DEF tables, counters
<1>3. ASSUME NEW r \in Requests, NEW s \in Requests, r # s, Invites(r)', Invites(s)',
             SameInvitation(r, s)'
      PROVE  requests'[r].crossed
  <2>1. CASE \E e \in Emails, role \in {"DRIVER", "MANAGER"} : Invite(r, e, role)
    <3>1. PICK e \in Emails, role \in {"DRIVER", "MANAGER"} : Invite(r, e, role)
      BY <2>1
    <3>2. s \in Inviting(requests[r].tenant, e)
      BY <1>2, <1>3, <3>1 DEF Inviting, Invites, Kept, SameInvitation
    <3> QED
      BY <1>2, <3>1, <3>2
  <2>2. CASE \E e \in Emails, role \in {"DRIVER", "MANAGER"} : Invite(s, e, role)
    <3>1. PICK e \in Emails, role \in {"DRIVER", "MANAGER"} : Invite(s, e, role)
      BY <2>2
    <3>2. r \in Inviting(requests[s].tenant, e)
      BY <1>2, <1>3, <3>1 DEF Inviting, Invites, Kept, SameInvitation
    <3> QED
      BY <1>2, <1>3, <3>1, <3>2
  <2> QED
    BY <1>3, <2>1, <2>2, InvitingStep DEF Inviters, SameInvitation
<1>4. ASSUME NEW r \in Requests, NEW i \in Invitations, Invites(r)',
             IsPending(i, requests[r].tenant, requests[r].email)'
      PROVE  requests'[r].crossed \/ invitations'[i].late
  <2>1. /\ Pending(i)' /\ invitations'[i].tenant = requests'[r].tenant
        /\ invitations'[i].email = requests'[r].email
    BY <1>4 DEF IsPending, Pending
  <2>2. CASE \E e \in Emails, role \in {"DRIVER", "MANAGER"} : Invite(r, e, role)
    BY <1>2, <2>1, <2>2 DEF IsPending, Pending
  <2>3. CASE /\ Invites(r) /\ requests'[r].tenant = requests[r].tenant
             /\ requests'[r].email = requests[r].email
             /\ requests[r].crossed => requests'[r].crossed
    <3>1. CASE invitations'[i] = invitations[i] /\ Pending(i)
      BY <2>1, <2>3, <3>1 DEF Inviters, IsPending, Pending
    <3>2. CASE \E q \in Requests : InvitationWrite(q, i)
      <4>1. PICK q \in Requests : InvitationWrite(q, i)
        BY <3>2
      <4>2. /\ Invites(q) /\ q # r /\ invitations'[i].tenant = requests[q].tenant
            /\ invitations'[i].email = requests[q].email
        BY <1>1, <1>4, <4>1, WriteEffect DEF Invites
      <4> QED
        BY <2>1, <2>3, <4>2 DEF Inviters, SameInvitation
    <3> QED
      BY <2>1, <3>1, <3>2, PendingStep
  <2> QED
    BY <1>4, <2>2, <2>3, InvitingStep
<1> QED
  BY <1>3, <1>4 DEF Inviters

LEMMA StepDuplicates ==
    ASSUME Facts, Inviters, DuplicatesAreExplained, SessionsNext
    PROVE  DuplicatesAreExplained'
<1> DEFINE Same(i, j) == /\ invitations[i].email = invitations[j].email
                         /\ invitations[i].tenant = invitations[j].tenant
<1>1. /\ \A i \in Invitations : Pending(i) => invitations[i] # NoInvitation
      /\ \A i, j \in Invitations : i # j /\ Same(i, j) /\ Pending(i) /\ Pending(j)
            => invitations[i].late \/ invitations[j].late
  <2>1. \A i \in Invitations : Pending(i) => invitations[i] # NoInvitation
    BY OnboardingAssumption DEF Facts, Rows, Pending, NoInvitation
  <2> QED
    BY <2>1 DEF DuplicatesAreExplained, Pending
<1>2. ASSUME NEW i \in Invitations, NEW j \in Invitations, i # j,
             Same(i, j)', Pending(i)', Pending(j)', NEW q \in Requests, InvitationWrite(q, i)
      PROVE  invitations'[i].late \/ invitations'[j].late
  <2>1. /\ Invites(q) /\ now' = now
        /\ invitations'[i].tenant = requests[q].tenant
        /\ invitations'[i].email = requests[q].email
        /\ invitations'[i].late = requests[q].crossed
        /\ invitations'[j] = invitations[j]
    BY <1>2, WriteEffect DEF Facts
  <2>2. IsPending(j, requests[q].tenant, requests[q].email)
    BY <1>2, <2>1 DEF IsPending, Pending
  <2> QED
    BY <2>1, <2>2 DEF Inviters
<1>3. ASSUME NEW i \in Invitations, NEW j \in Invitations, i # j,
             Same(i, j)', Pending(i)', Pending(j)'
      PROVE  invitations'[i].late \/ invitations'[j].late
  <2>1. CASE \E q \in Requests : InvitationWrite(q, i)
    BY <1>2, <1>3, <2>1
  <2>2. CASE \E q \in Requests : InvitationWrite(q, j)
    BY <1>2, <1>3, <2>2
  <2>3. CASE /\ invitations'[i] = invitations[i] /\ Pending(i)
             /\ invitations'[j] = invitations[j] /\ Pending(j)
    BY <1>1, <1>3, <2>3
  <2> QED
    BY <1>3, <2>1, <2>2, <2>3, PendingStep
<1> QED
  BY <1>3 DEF DuplicatesAreExplained, Pending

-----------------------------------------------------------------------------
\* Users in the making.
LEMMA MemberChanges ==
    ASSUME Facts, NEW r \in Requests, Serve(r)
    PROVE  \/ members' = members
           \/ /\ requests[r].at \in {"membership", "driverMember"}
              /\ \E t, role : members' =
                    members \cup {[user |-> requests[r].email, tenant |-> t, role |-> role]}
<1>1. CASE QuietStep(r)
  BY <1>1, QuietEffect DEF tables
<1>2. CASE RegisterAnswer(r)
  BY <1>2, RegisterEffect
<1>3. CASE WritingStep(r)
  <2>1. CASE DriverMember(r)
    BY <2>1 DEF DriverMember, Join, At
  <2> QED
    BY <1>3, <2>1 DEF WritingStep, RegisterUser, RegisterTenant, CreateDriver, DriverProfile,
       UpdateDriver, Invite, InviteProfile, InvitationWrite, Resend, Cancel, tables
<1> QED
  BY <1>1, <1>2, <1>3, ServeIs

LEMMA ProfileChanges ==
    ASSUME Facts, NEW r \in Requests, Serve(r), NEW e \in Emails,
           profiles[e] = NoProfile, profiles'[e] # NoProfile
    PROVE  \/ requests[r].at = "driverProfile" /\ requests[r].email = e
           \/ InviteProfile(r) /\ requests[r].user = e
<1>1. Rows
  BY DEF Facts
<1>2. profiles' # profiles
  OBVIOUS
<1>3. ASSUME NEW f, NEW t, AddProfile(f, t) PROVE f = e
  BY <1>1, <1>3 DEF AddProfile, Rows
<1>4. WritingStep(r)
  BY <1>2, QuietEffect, RegisterEffect, ServeIs DEF tables
<1>5. ASSUME NEW f \in Emails, NEW status \in Statuses, UpdateDriver(r, f, status) PROVE FALSE
  <2>1. requests[r].at = "accepted" /\ profiles[f].tenant = requests[r].tenant
    BY <1>5 DEF UpdateDriver, At
  <2>2. profiles[f].tenant \in Tenants
    BY <2>1, SessionKnown DEF Public
  <2>3. f # e
    BY <2>2, OnboardingAssumption DEF NoProfile
  <2> QED
    BY <1>1, <1>5, <2>3 DEF UpdateDriver, Rows
<1> QED
  BY <1>2, <1>3, <1>4, <1>5 DEF WritingStep, RegisterUser, RegisterTenant, CreateDriver,
     DriverMember, DriverProfile, Invite, InviteProfile, InvitationWrite, Resend, Cancel,
     tables, At

\* Who invites is a member with another role, or a driver with a profile.
LEMMA InviterIsMade ==
    ASSUME Facts, NEW r \in Requests, InviteProfile(r), NEW e \in Emails,
           requests[r].user = e, profiles[e] = NoProfile
    PROVE  e \in users /\ \E m \in MembershipsOf(e) : m.role # "DRIVER"
<1>1. requests[r].at \notin Public
  BY DEF InviteProfile, At, Public
<1>2. PICK token \in TokenRec : Backed(token) /\ WellFormed(token) /\ token.user = e
  <2>1. InSession(r) /\ Backed(tokens[requests[r].token])
    BY <1>1, SessionKnown
  <2>2. tokens[requests[r].token] \in TokenRec
    BY <2>1, ElementOfSeq, LenProperties DEF Facts, Caching, InSession
  <2> QED
    BY <2>1, <2>2 DEF InSession
<1>3. ~token.driver
  BY <1>2, OnboardingAssumption DEF Backed, TokenRec, NoProfile
<1>4. /\ token.role # "DRIVER"
      /\ [user |-> e, tenant |-> token.tenant, role |-> token.role] \in members
  BY <1>2, <1>3 DEF Backed, WellFormed
<1> QED
  BY <1>2, <1>4 DEF Backed, MembershipsOf

LEMMA MakersUndisturbed ==
    ASSUME Facts, NEW r \in Requests, Serve(r), NEW s \in Requests \ {r}, NEW e \in Emails,
           requests[s].at \in InMaking, requests[s].email = e
    PROVE  profiles'[e] = NoProfile /\ MembershipsOf(e)' = MembershipsOf(e)
<1>1. profiles[e] = NoProfile /\ ~(requests[r].at \in InMaking /\ requests[r].email = e)
  BY DEF Facts, Makers
<1>2. profiles'[e] = NoProfile
  <2>1. SUFFICES ASSUME profiles'[e] # NoProfile PROVE FALSE
    OBVIOUS
  <2>2. InviteProfile(r) /\ requests[r].user = e
    BY <1>1, <2>1, ProfileChanges DEF InMaking
  <2>3. PICK m \in MembershipsOf(e) : m.role # "DRIVER"
    BY <1>1, <2>2, InviterIsMade
  <2> QED
    BY <2>3 DEF Facts, Makers, InMaking
<1>3. CASE members' = members
  BY <1>2, <1>3 DEF MembershipsOf
<1>4. ASSUME requests[r].at \in {"membership", "driverMember"}, NEW t, NEW role,
             members' = members \cup {[user |-> requests[r].email, tenant |-> t, role |-> role]}
      PROVE  MembershipsOf(e)' = MembershipsOf(e)
  <2>1. requests[r].email # e
    BY <1>1, <1>4 DEF InMaking
  <2> QED
    BY <1>4, <2>1 DEF MembershipsOf
<1> QED
  BY <1>2, <1>3, <1>4, MemberChanges

LEMMA MakingStep ==
    ASSUME Facts, NEW r \in Requests, Serve(r), requests'[r].at \in InMaking
    PROVE  \/ RegisterUser(r) /\ Go(r, "tenant") /\ requests[r].email \notin users
           \/ \E t \in Tenants : RegisterTenant(r, t)
           \/ \E e \in Emails : CreateDriver(r, e) /\ e \notin users
           \/ DriverMember(r)
<1>1. Rows
  BY DEF Facts
<1>2. WritingStep(r)
  <2>1. Idle.at = "idle"
    BY DEF Idle
  <2>2. ~QuietStep(r)
    BY QuietEffect
  <2>3. ~RegisterAnswer(r)
    BY <2>1, RegisterEffect DEF InMaking
  <2> QED
    BY <2>2, <2>3, ServeIs
<1>3. ~Answer(r)
  BY <1>1, AnswerSet DEF InMaking
<1>4. ASSUME NEW e \in Emails, NEW status \in Statuses PROVE ~UpdateDriver(r, e, status)
  BY <1>1, UpdateSet DEF Idle, InMaking
<1>5. ASSUME NEW e \in Emails, NEW role \in {"DRIVER", "MANAGER"} PROVE ~Invite(r, e, role)
  BY <1>1, InviteSet DEF InMaking
<1>6. ~InviteProfile(r)
  <2>1. "invitation" \in Stages
    BY DEF Stages
  <2> QED
    BY <1>1, <1>3, <2>1, GoSet DEF InviteProfile, InMaking
<1> QED
  BY <1>2, <1>3, <1>4, <1>5, <1>6 DEF WritingStep, RegisterUser, CreateDriver, DriverProfile,
     InvitationWrite, Resend, Cancel

MakerFacts(r) ==
    /\ requests[r].at \in InMaking =>
          requests[r].email \in users /\ profiles[requests[r].email] = NoProfile
    /\ requests[r].at \in {"tenant", "membership", "driverMember"} =>
          MembershipsOf(requests[r].email) = {}
    /\ requests[r].at = "membership" => requests[r].tenant \in tenants
    /\ requests[r].at = "driverProfile" =>
          /\ MembershipsOf(requests[r].email) # {}
          /\ \A m \in MembershipsOf(requests[r].email) : m.role = "DRIVER"

LEMMA MakerStep ==
    ASSUME Facts, Grown, NEW r \in Requests, Serve(r), requests'[r].at \in InMaking
    PROVE  /\ MakerFacts(r)'
           /\ requests'[r].email \in users =>
                 requests[r].at \in InMaking /\ requests'[r].email = requests[r].email
<1> USE DEF At
<1>1. Rows /\ (\A e \in Emails \ users : profiles[e] = NoProfile /\ MembershipsOf(e) = {})
  BY DEF Facts, Rows, Makers, MembershipsOf
<1>2. CASE RegisterUser(r) /\ Go(r, "tenant") /\ requests[r].email \notin users
  <2>1. /\ requests'[r].at = "tenant" /\ requests'[r].email = requests[r].email
        /\ requests[r].at = "register"
    BY <1>1, <1>2, GoSet DEF RegisterUser, Stages
  <2>2. PICK e \in Emails : e = requests[r].email
    BY <2>1 DEF Facts, InSessions
  <2>3. /\ users' = users \cup {e} /\ profiles'[e] = NoProfile /\ MembershipsOf(e)' = {}
    BY <1>1, <1>2, <2>2 DEF RegisterUser, AddUser, MembershipsOf
  <2> QED
    BY <1>2, <2>1, <2>2, <2>3 DEF MakerFacts, InMaking, MembershipsOf
<1>3. CASE \E t \in Tenants : RegisterTenant(r, t)
  <2>1. PICK t \in Tenants : RegisterTenant(r, t)
    BY <1>3
  <2>2. /\ requests'[r].at = "membership" /\ requests'[r].email = requests[r].email
        /\ requests[r].at = "tenant" /\ requests'[r].tenant = t
    BY <1>1, <2>1, TenantSet
  <2>3. MakerFacts(r)
    BY DEF Facts, Makers, MakerFacts
  <2>4. /\ UNCHANGED <<users, members, profiles>> /\ t \in tenants'
    BY <2>1 DEF RegisterTenant
  <2> QED
    BY <2>2, <2>3, <2>4 DEF MakerFacts, InMaking, MembershipsOf
<1>4. CASE \E e \in Emails : CreateDriver(r, e) /\ e \notin users
  <2>1. PICK e \in Emails : CreateDriver(r, e) /\ e \notin users
    BY <1>4
  <2>2. requests'[r].at = "driverMember" /\ requests'[r].email = e
    BY <1>1, <2>1, CreateSet
  <2>3. /\ users' = users \cup {e} /\ profiles'[e] = NoProfile /\ MembershipsOf(e)' = {}
    BY <1>1, <2>1 DEF CreateDriver, AddUser, MembershipsOf
  <2> QED
    BY <2>1, <2>2, <2>3 DEF MakerFacts, InMaking, MembershipsOf
<1>5. CASE DriverMember(r)
  <2>1. /\ requests'[r].at = "driverProfile" /\ requests'[r].email = requests[r].email
        /\ requests[r].at = "driverMember"
    BY <1>1, <1>5, GoSet DEF DriverMember, Stages
  <2>2. MakerFacts(r)
    BY DEF Facts, Makers, MakerFacts
  <2>3. PICK e \in users : /\ e = requests[r].email /\ MembershipsOf(e) = {}
                           /\ profiles[e] = NoProfile
    BY <2>1, <2>2 DEF MakerFacts, InMaking
  <2>4. PICK m : m = [user |-> e, tenant |-> requests[r].tenant, role |-> "DRIVER"]
    OBVIOUS
  <2>5. members' = members \cup {m} /\ UNCHANGED <<users, profiles>>
    BY <1>5, <2>3, <2>4 DEF DriverMember, Join
  <2>6. MembershipsOf(e)' = {m}
    BY <2>3, <2>4, <2>5 DEF MembershipsOf
  <2> QED
    BY <2>1, <2>3, <2>4, <2>5, <2>6 DEF MakerFacts, InMaking, MembershipsOf
<1> QED
  BY <1>2, <1>3, <1>4, <1>5, MakingStep

LEMMA StepMakers ==
    ASSUME Facts, SessionsNext
    PROVE  Makers'
<1>1. Grown /\ Rows
  BY StepRows DEF Facts
<1>2. \A s \in Requests : MakerFacts(s)
  BY DEF Facts, Makers, MakerFacts
<1>3. CASE OutsideStep
  <2>1. UNCHANGED <<users, tenants, members, profiles, requests>>
    BY <1>3, OutsideEffect DEF tables
  <2> QED
    BY <2>1 DEF Facts, Makers, MembershipsOf
<1>4. ASSUME NEW r \in Requests, Serve(r) PROVE Makers'
  <2>1. ASSUME NEW e \in Emails \ users' PROVE profiles'[e] = NoProfile
    <3>1. e \notin users /\ profiles[e] = NoProfile
      BY <1>1, <2>1 DEF Grown, Facts, Makers
    <3>2. ~(requests[r].at = "driverProfile" /\ requests[r].email = e)
      BY <1>2, <3>1 DEF MakerFacts, InMaking
    <3>3. ~(InviteProfile(r) /\ requests[r].user = e)
      BY <3>1, InviterIsMade
    <3> QED
      BY <1>4, <3>1, <3>2, <3>3, ProfileChanges
  <2>2. ASSUME NEW s \in Requests \ {r} PROVE Kept(s) /\ MakerFacts(s)'
    <3>1. Kept(s)
      BY <1>4, ServedStep
    <3>2. CASE requests[s].at \notin InMaking
      BY <3>1, <3>2 DEF MakerFacts, InMaking, Kept
    <3>3. CASE requests[s].at \in InMaking
      <4>1. PICK e \in users : e = requests[s].email
        BY <1>2, <3>3 DEF MakerFacts
      <4>2. e \in Emails
        BY <1>1 DEF Rows
      <4>3. profiles'[e] = NoProfile /\ MembershipsOf(e)' = MembershipsOf(e)
        BY <1>4, <3>3, <4>1, <4>2, MakersUndisturbed
      <4> QED
        BY <1>1, <1>2, <3>1, <3>3, <4>1, <4>3 DEF MakerFacts, Kept, Grown, MembershipsOf
    <3> QED
      BY <3>1, <3>2, <3>3
  <2>3. MakerFacts(r)'
    BY <1>1, <1>4, MakerStep DEF MakerFacts, InMaking
  <2>4. ASSUME NEW s \in Requests \ {r}, requests'[r].at \in InMaking,
               requests'[s].at \in InMaking
        PROVE  requests'[r].email # requests'[s].email
    <3>1. /\ requests[s].at \in InMaking /\ requests[s].email = requests'[s].email
          /\ requests[s].email \in users
      BY <1>2, <2>2, <2>4 DEF Kept, MakerFacts
    <3> QED
      BY <1>1, <1>4, <2>4, <3>1, MakerStep DEF Facts, Makers
  <2>5. \A s \in Requests : MakerFacts(s)'
    BY <2>2, <2>3
  <2>6. \A s, q \in Requests :
           requests'[s].at \in InMaking /\ requests'[q].at \in InMaking
              /\ requests'[s].email = requests'[q].email => s = q
    <3>1. SUFFICES ASSUME NEW s \in Requests, NEW q \in Requests,
                          requests'[s].at \in InMaking, requests'[q].at \in InMaking,
                          requests'[s].email = requests'[q].email, s # q
                   PROVE  FALSE
      OBVIOUS
    <3>2. s # r /\ q # r
      BY <2>4, <3>1
    <3>3. Kept(s) /\ Kept(q)
      BY <2>2, <3>2
    <3> QED
      BY <3>1, <3>3 DEF Facts, Makers, Kept
  <2> QED
    BY <2>1, <2>5, <2>6 DEF Makers, MakerFacts
<1> QED
  BY <1>3, <1>4 DEF SessionsNext, OutsideStep

-----------------------------------------------------------------------------
\* Users left half made.
Stranded == {e \in users \ nameless : HalfMade(e) /\ Making(e) = {}}

LEMMA MakingIs ==
    ASSUME NEW e
    PROVE  Making(e) = {} <=> \A r \in Requests : ~(requests[r].at \in InMaking /\ requests[r].email = e)
  BY DEF Making, InMaking

\* A user that is not half made does not become so.
LEMMA WholeStays ==
    ASSUME Facts, Grown, NEW r \in Requests, Serve(r), NEW e \in users, ~HalfMade(e)
    PROVE  ~HalfMade(e)'
<1>1. MembershipsOf(e) # {} /\ e \in Emails
  BY DEF HalfMade, Facts, Rows
<1>2. MembershipsOf(e)' = MembershipsOf(e)
  <2>1. CASE members' = members
    BY <2>1 DEF MembershipsOf
  <2>2. ASSUME requests[r].at \in {"membership", "driverMember"}, NEW t, NEW role,
               members' = members \cup
                  {[user |-> requests[r].email, tenant |-> t, role |-> role]}
        PROVE  MembershipsOf(e)' = MembershipsOf(e)
    <3>1. requests[r].email # e
      BY <1>1, <2>2 DEF Facts, Makers
    <3> QED
      BY <2>2, <3>1 DEF MembershipsOf
  <2> QED
    BY <2>1, <2>2, MemberChanges
<1>3. profiles[e] # NoProfile => profiles'[e] # NoProfile
  BY <1>1 DEF Grown
<1> QED
  BY <1>1, <1>2, <1>3 DEF HalfMade

\* A request stops making a user when it is done, throws or dies.
LEMMA MakerEnds ==
    ASSUME Facts, NEW r \in Requests, Serve(r), NEW e \in users,
           requests[r].at \in InMaking, requests[r].email = e,
           ~(requests'[r].at \in InMaking /\ requests'[r].email = e)
    PROVE  deaths' = deaths + 1 \/ e \in nameless' \/ ~HalfMade(e)'
<1> USE DEF At
<1>1. Rows /\ e \in Emails
  BY DEF Facts, Rows
<1>2. CASE QuietStep(r)
  <2>1. Leave(r) \/ RegisterNameless(r)
    BY <1>2 DEF QuietStep, Register, Arrive, CheckRevoked, CheckStanding, Logout, LogoutAll,
       InviteOnly, Find, InMaking
  <2> QED
    BY <2>1 DEF Leave, RegisterNameless, InMaking
<1>3. CASE RegisterAnswer(r)
  <2>1. PICK m : m = [user |-> e, tenant |-> requests[r].tenant, role |-> "ADMIN"]
    OBVIOUS
  <2>2. members' = members \cup {m} /\ requests[r].at = "membership"
    BY <1>3, <2>1, RegisterEffect
  <2>3. MembershipsOf(e) = {}
    BY <2>2 DEF Facts, Makers
  <2>4. MembershipsOf(e)' = {m} /\ m.role = "ADMIN"
    BY <2>1, <2>2, <2>3 DEF MembershipsOf
  <2> QED
    BY <2>4 DEF HalfMade
<1>4. CASE WritingStep(r)
  <2>1. \A t \in Tenants : ~RegisterTenant(r, t)
    BY <1>1, TenantSet DEF InMaking
  <2>2. ~DriverMember(r)
    BY <1>1, GoSet DEF DriverMember, InMaking, Stages
  <2>3. DriverProfile(r)
    BY <1>4, <2>1, <2>2 DEF WritingStep, RegisterUser, CreateDriver, UpdateDriver, Invite,
       InviteProfile, InvitationWrite, Resend, Cancel, InMaking
  <2>4. /\ profiles' = [profiles EXCEPT ![e] = [tenant |-> requests[r].tenant,
                                                status |-> "INVITED"]]
        /\ members' = members /\ requests[r].at = "driverProfile"
    BY <2>3 DEF DriverProfile, AddProfile
  <2>5. profiles'[e].status = "INVITED"
    BY <1>1, <2>4 DEF Rows
  <2>6. profiles'[e] # NoProfile
    BY <2>5 DEF NoProfile, NoOne
  <2>7. MembershipsOf(e)' # {}
    BY <2>4 DEF Facts, Makers, MembershipsOf
  <2> QED
    BY <2>6, <2>7 DEF HalfMade
<1> QED
  BY <1>2, <1>3, <1>4, ServeIs

LEMMA UserChanges ==
    ASSUME Facts, NEW r \in Requests, Serve(r), NEW e \in users' \ users
    PROVE  requests'[r].at \in InMaking /\ requests'[r].email = e
<1> USE DEF At
<1>1. Rows
  BY DEF Facts
<1>2. WritingStep(r)
  BY QuietEffect, RegisterEffect, ServeIs DEF tables
<1>3. CASE RegisterUser(r)
  <2>1. e = requests[r].email /\ Go(r, "tenant")
    BY <1>3 DEF RegisterUser, AddUser
  <2> QED
    BY <1>1, <2>1, GoSet DEF InMaking, Stages
<1>4. CASE \E f \in Emails : CreateDriver(r, f)
  <2>1. PICK f \in Emails : CreateDriver(r, f)
    BY <1>4
  <2>2. f = e
    BY <2>1 DEF CreateDriver, AddUser
  <2> QED
    BY <1>1, <2>1, <2>2, CreateSet DEF InMaking
<1> QED
  BY <1>2, <1>3, <1>4 DEF WritingStep, RegisterTenant, DriverMember, DriverProfile,
     UpdateDriver, Invite, InviteProfile, InvitationWrite, Resend, Cancel, tables

LEMMA StepStranded ==
    ASSUME Facts, StrandedAreExplained, SessionsNext
    PROVE  StrandedAreExplained'
<1>1. /\ Grown /\ IsFiniteSet(users) /\ IsFiniteSet(users') /\ deaths \in Nat
      /\ Cardinality(Stranded) <= deaths
  BY StepRows DEF Facts, Rows, Grown, StrandedAreExplained, Stranded
<1>2. IsFiniteSet(Stranded) /\ Cardinality(Stranded) \in Nat
  BY <1>1, FS_Subset, FS_CardinalityType DEF Stranded
<1>3. CASE OutsideStep
  BY <1>3, OutsideEffect DEF StrandedAreExplained, HalfMade, Making, MembershipsOf, tables
<1>4. ASSUME NEW r \in Requests, Serve(r) PROVE StrandedAreExplained'
  <2>1. deaths' \in {deaths, deaths + 1}
    BY <1>4, QuietEffect, WritingRequests, RegisterEffect, ServeIs DEF counters
  <2>6. nameless \subseteq nameless'
    BY <1>4, QuietEffect, WritingRequests, RegisterEffect, ServeIs DEF counters
  <2>2. PICK f : f = requests[r].email
    OBVIOUS
  <2>3. ASSUME NEW e \in Stranded' \ Stranded PROVE e = f /\ deaths' = deaths + 1
    <3>1. e \in users' /\ e \notin nameless' /\ HalfMade(e)' /\ Making(e)' = {}
      BY <2>3 DEF Stranded
    <3>2. \A s \in Requests : ~(requests'[s].at \in InMaking /\ requests'[s].email = e)
      BY <3>1 DEF Making, InMaking
    <3>3. e \in users
      BY <1>4, <3>1, <3>2, UserChanges
    <3>4. HalfMade(e)
      BY <1>1, <1>4, <3>1, <3>3, WholeStays
    <3>5. PICK s \in Requests : requests[s].at \in InMaking /\ requests[s].email = e
      BY <2>3, <2>6, <3>1, <3>3, <3>4, MakingIs DEF Stranded
    <3>6. s = r
      BY <1>4, <3>2, <3>5, ServedStep DEF Kept
    <3> QED
      BY <1>4, <2>2, <3>1, <3>2, <3>3, <3>5, <3>6, MakerEnds
  <2>4. CASE Stranded' \subseteq Stranded
    <3>1. Cardinality(Stranded') <= Cardinality(Stranded) /\ Cardinality(Stranded') \in Nat
      BY <1>2, <2>4, FS_Subset, FS_CardinalityType
    <3>2. Cardinality(Stranded') <= deaths'
      BY <1>1, <1>2, <2>1, <3>1
    <3> QED
      BY <3>2 DEF StrandedAreExplained, Stranded
  <2>5. CASE ~(Stranded' \subseteq Stranded)
    <3>1. deaths' = deaths + 1 /\ Stranded' \subseteq Stranded \cup {f}
      BY <2>3, <2>5
    <3>2. /\ IsFiniteSet(Stranded \cup {f})
          /\ Cardinality(Stranded \cup {f}) \in {Cardinality(Stranded), Cardinality(Stranded) + 1}
      BY <1>2, FS_AddElement
    <3>3. /\ Cardinality(Stranded') <= Cardinality(Stranded \cup {f})
          /\ Cardinality(Stranded') \in Nat
      BY <3>1, <3>2, FS_Subset, FS_CardinalityType
    <3>4. Cardinality(Stranded') <= deaths'
      BY <1>1, <1>2, <3>1, <3>2, <3>3
    <3> QED
      BY <3>4 DEF StrandedAreExplained, Stranded
  <2> QED
    BY <2>4, <2>5
<1> QED
  BY <1>3, <1>4 DEF SessionsNext, OutsideStep

-----------------------------------------------------------------------------
LEMMA InitSessionInv == SessionsInit => SessionInv
<1> SUFFICES ASSUME SessionsInit PROVE SessionInv
  OBVIOUS
<1>1. Rows /\ Caching
  BY InitRows
<1>2. /\ requests = [r \in Requests |-> Idle] /\ tokens = <<>> /\ now = 0 /\ deaths = 0
      /\ invitations = [i \in Invitations |-> NoInvitation]
      /\ revokedUsers = [e \in Emails |-> NotRevoked]
      /\ loggedOut = [e \in Emails |-> Never]
  BY DEF SessionsInit, OnboardingInit
<1>3. \A r \in Requests : /\ requests[r].at = "idle" /\ requests[r].token = 0
                          /\ ~requests[r].gone /\ ~requests[r].barred
  BY <1>2 DEF Idle
<1>4. Tokens
  BY <1>2 DEF Tokens
<1>5. InSessions
  BY <1>3 DEF InSessions, Public
<1>6. Makers
  <2>1. \A e \in Emails \ users : profiles[e] = NoProfile
    BY DEF SessionsInit, OnboardingInit
  <2> QED
    BY <1>3, <2>1 DEF Makers, InMaking
<1>7. Revocation
  BY <1>2, <1>3 DEF Revocation, NotRevoked, Never
<1>8. Deactivation /\ Inviters
  BY <1>3 DEF Deactivation, Inviters, Invites
<1>9. DuplicatesAreExplained
  BY <1>2 DEF DuplicatesAreExplained
<1>10. StrandedAreExplained
  <2>1. users = {Admin, Driver} /\ Admin # Driver /\ Driver \in Emails
    BY OnboardingAssumption DEF SessionsInit, OnboardingInit
  <2>2. ~HalfMade(Admin)
    <3>1. MembershipsOf(Admin) = {[user |-> Admin, tenant |-> Helsinki, role |-> "ADMIN"],
                                  [user |-> Admin, tenant |-> Tampere, role |-> "ADMIN"]}
      BY <2>1 DEF SessionsInit, OnboardingInit, MembershipsOf
    <3>2. MembershipsOf(Admin) # {} /\ \A m \in MembershipsOf(Admin) : m.role = "ADMIN"
      BY <3>1
    <3> QED
      BY <3>2 DEF HalfMade
  <2>3. ~HalfMade(Driver)
    <3>1. MembershipsOf(Driver) # {}
      <4>1. PICK m : m = [user |-> Driver, tenant |-> Helsinki, role |-> "DRIVER"]
        OBVIOUS
      <4>2. m \in members /\ m.user = Driver
        BY <4>1 DEF SessionsInit, OnboardingInit
      <4> QED
        BY <4>2 DEF MembershipsOf
    <3>2. profiles[Driver].status = "ACTIVE"
      BY <2>1 DEF SessionsInit, OnboardingInit
    <3>3. profiles[Driver] # NoProfile
      BY <3>2 DEF NoProfile, NoOne
    <3> QED
      BY <3>1, <3>3 DEF HalfMade
  <2>4. {e \in users \ nameless : HalfMade(e) /\ Making(e) = {}} = {}
    BY <2>1, <2>2, <2>3
  <2>5. Cardinality({e \in users \ nameless : HalfMade(e) /\ Making(e) = {}}) = 0
    BY <2>4, FS_EmptySet
  <2> QED
    BY <1>2, <2>5 DEF StrandedAreExplained
<1> QED
  BY <1>1, <1>4, <1>5, <1>6, <1>7, <1>8, <1>9, <1>10 DEF SessionInv

LEMMA NextSessionInv == SessionInv /\ [SessionsNext]_allVars => SessionInv'
<1> SUFFICES ASSUME SessionInv, [SessionsNext]_allVars PROVE SessionInv'
  OBVIOUS
<1>1. /\ Facts /\ Revocation /\ Deactivation /\ Inviters
      /\ DuplicatesAreExplained /\ StrandedAreExplained
  BY DEF SessionInv, Facts
<1>2. CASE SessionsNext
  <2>1. Rows' /\ Caching' /\ Tokens' /\ InSessions' /\ Makers'
    BY <1>1, <1>2, StepRows, StepTokens, StepCaches, StepSessions, StepMakers
  <2>2. Revocation' /\ Deactivation' /\ Inviters'
    BY <1>1, <1>2, StepRevocation, StepDeactivation, StepInviters
  <2>3. DuplicatesAreExplained' /\ StrandedAreExplained'
    BY <1>1, <1>2, StepDuplicates, StepStranded
  <2> QED
    BY <2>1, <2>2, <2>3 DEF SessionInv
<1>3. CASE UNCHANGED allVars
  <2>1. UNCHANGED <<users, tenants, members, profiles, invitations, requests, now, deaths, nameless,
                    tokens, tickets, revokedUsers, loggedOut>>
    BY <1>3 DEF allVars, onboardingVars, sessionVars, tables, counters
  <2>2. Rows' /\ Caching'
    BY <1>1, <2>1 DEF Facts, Rows, Caching
  <2>3. Tokens' /\ InSessions' /\ Makers'
    BY <1>1, <2>1 DEF Facts, Tokens, Backed, InSessions, InSession, Makers, MembershipsOf
  <2>4. Revocation' /\ Deactivation'
    BY <1>1, <2>1 DEF Revocation, Deactivation
  <2>5. Inviters' /\ DuplicatesAreExplained' /\ StrandedAreExplained'
    BY <1>1, <2>1 DEF Inviters, Invites, SameInvitation, IsPending, DuplicatesAreExplained,
       StrandedAreExplained, HalfMade, Making, MembershipsOf
  <2> QED
    BY <2>2, <2>3, <2>4, <2>5 DEF SessionInv
<1> QED
  BY <1>2, <1>3

LEMMA SessionsInvariant == SessionsSpec => []SessionInv
  BY InitSessionInv, NextSessionInv, PTL DEF SessionsSpec

(* Rows refer to rows, tokens to users there are; nobody has logged out,    *)
(* and no token was issued, later than now.                                 *)
THEOREM SessionsTypeCorrect == SessionsSpec => []SessionsTypeOK
<1>1. SessionInv => SessionsTypeOK
  <2> SUFFICES ASSUME SessionInv PROVE SessionsTypeOK
    OBVIOUS
  <2>1. Rows /\ Caching /\ Tokens /\ InSessions /\ Revocation
    BY DEF SessionInv
  <2>2. \A r \in Requests : requests[r].token \in 0..Len(tokens)
    <3>1. DOMAIN tokens = 1..Len(tokens) /\ Len(tokens) \in Nat
      BY <2>1, LenProperties DEF Caching
    <3> QED
      BY <2>1, <3>1 DEF InSessions, InSession
  <2>3. \A k \in DOMAIN tokens : tokens[k].user \in users /\ tokens[k].iat * TicksPerSecond <= now
    BY <2>1 DEF Tokens, Backed
  <2>4. \A e \in Emails : revokedUsers[e].at <= now
    BY <2>1 DEF Revocation
  <2> QED
    BY <2>1, <2>2, <2>3, <2>4 DEF Rows, SessionsTypeOK
<1> QED
  BY <1>1, SessionsInvariant, PTL

(* Every token, whoever issued it and however old the ticket it was         *)
(* exchanged for, speaks for the user's own profile in its tenant or for a  *)
(* membership with its role.                                                *)
THEOREM TokensSpeakForRows == SessionsSpec => []TokensAreBacked
<1>1. SessionInv => TokensAreBacked
  BY DEF SessionInv, Tokens, Backed, TokensAreBacked
<1> QED
  BY <1>1, SessionsInvariant, PTL

(* A request that arrives after its user has logged out everywhere is not   *)
(* served, whenever its token was issued before that and however long it    *)
(* waits for the cache: a token lives AccessTTL, an entry RevocationTTL.    *)
THEOREM LogoutAllIsFinal == SessionsSpec => []LogoutAllHolds
<1>1. SessionInv => LogoutAllHolds
  BY DEF SessionInv, Revocation, LogoutAllHolds, Served
<1> QED
  BY <1>1, SessionsInvariant, PTL

(* A driver's request is not served if the profile has not been ACTIVE at   *)
(* any instant since it arrived.                                            *)
THEOREM DeactivationIsFinal == SessionsSpec => []DeactivationHolds
<1>1. SessionInv => DeactivationHolds
  BY DEF SessionInv, Deactivation, DeactivationHolds, Served
<1> QED
  BY <1>1, SessionsInvariant, PTL

(* Two pending invitations of one address in one tenant: one was resent, or *)
(* two requests had looked before either wrote.                             *)
THEOREM PendingTwiceIsExplained == SessionsSpec => []DuplicatesAreExplained
<1>1. SessionInv => DuplicatesAreExplained
  BY DEF SessionInv
<1> QED
  BY <1>1, SessionsInvariant, PTL

(* Users are left half made, for ever, by registrations that name no tenant *)
(* and by requests that die, one by each: overlapping registrations and     *)
(* creations leave none.                                                    *)
THEOREM StrandingIsExplained == SessionsSpec => []StrandedAreExplained
<1>1. SessionInv => StrandedAreExplained
  BY DEF SessionInv
<1> QED
  BY <1>1, SessionsInvariant, PTL
=============================================================================
