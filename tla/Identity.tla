------------------------------- MODULE Identity -------------------------------
(***************************************************************************)
(* Accounts, sessions, invitations and their HTTP handlers (internal/api/  *)
(* http: auth.go, password_reset.go, account.go, account_gdpr.go, team.go, *)
(* session_mw.go) over either repository.                                  *)
(*                                                                         *)
(* Requests run concurrently, one goroutine each.  A handler is a sequence *)
(* of calls of the repository, every call one step; calls nobody can tell  *)
(* apart are taken together.  req[r] is where request r stands: the call   *)
(* it makes next and what it has read so far.  A goroutine that a handler  *)
(* leaves behind (the mail with a reset link) goes on as the request.      *)
(***************************************************************************)
EXTENDS IdentityData, FiniteSets, Policy

CONSTANTS
    Backends,     \* repositories to consider
    Requests,     \* requests that may be under way at a time
    Emails,       \* addresses, positive numbers
    Slugs,        \* names of workspaces
    Passwords,    \* positive numbers; NoPassword is the empty hash
    Shape,        \* password -> [length, classes of its characters]
    RoleLists,    \* the roles a client may ask for
    Threshold,    \* FailedLoginThreshold
    MaxRequests,  \* bound: requests and passages of time
    MaxFaults,    \* bound: statements that fail
    Seed          \* the database at the start

ASSUME IdentityAssumption ==
    /\ Backends \subseteq {"memory", "postgres"}
    /\ Threshold \in Nat \ {0}
    /\ {MaxRequests, MaxFaults} \subseteq Nat
    /\ \A e \in Emails \cup Passwords : e \in Nat \ {0}
    /\ Slugs \subseteq STRING

\* Eight characters and more, of three classes and more.
ValidatePasswordStrength(pw) == Shape[pw].length \in 8 .. 256 /\ Cardinality(Shape[pw].classes) >= 3

\* The database was filled by this server, and no two invitations of an
\* address to a workspace were left open.
ASSUME SeedAssumption ==
    /\ Seed \in Database /\ Linked(Seed)
    /\ \A u \in DOMAIN Seed.users : Seed.users[u].pw = NoPassword \/ ValidatePasswordStrength(Seed.users[u].pw)
    /\ \A i, j \in DOMAIN Seed.invites :
          /\ i # j /\ Seed.invites[i].tenant = Seed.invites[j].tenant /\ Seed.invites[i].email = Seed.invites[j].email
          => ~IsPending(Seed.invites[i]) \/ ~IsPending(Seed.invites[j])

VARIABLES
    backend,   \* the repository the server was built with
    db,        \* its tables
    req,       \* request -> [at, ...]: its next call and what it has read
    started,   \* requests so far
    faults,    \* statements that failed so far
    mintedBy,  \* history: session -> [pw, raced, erased]
    inviteAt,  \* history: invitation -> those its request was to replace
    lapsed,    \* history: users with a new password and no revocation
    erased,    \* history: user -> what was outstanding when it was erased
    joined,    \* history: invitations that made somebody a member
    crossed,   \* history: invitations revoked, or failed on, while being accepted
    mailbox    \* tokens that have reached somebody

history == <<mintedBy, inviteAt, lapsed, erased, joined, crossed, mailbox>>
vars == <<backend, db, req, started, faults, history>>

Mem == INSTANCE IdentityMemory
Pg == INSTANCE IdentityPostgres

(***************************************************************************)
(* The repository in use (identity.Repo)                                   *)
(***************************************************************************)
Repo(inMemory, inPostgres) == IF backend = "memory" THEN inMemory ELSE inPostgres

GetTenantByID(t) == Repo(Mem!GetTenantByID(db, t), Pg!GetTenantByID(db, t))
CreateTenant(slug) == Repo(Mem!CreateTenant(db, slug), Pg!CreateTenant(db, slug))
CreateUser(u) == Repo(Mem!CreateUser(db, u), Pg!CreateUser(db, u))
GetByEmail(e) == Repo(Mem!GetByEmail(db, e), Pg!GetByEmail(db, e))
GetUserByID(u) == Repo(Mem!GetUserByID(db, u), Pg!GetUserByID(db, u))
MarkEmailVerified(u) == Repo(Mem!MarkEmailVerified(db, u), Pg!MarkEmailVerified(db, u))
CreateMembership(m) == Repo(Mem!CreateMembership(db, m), Pg!CreateMembership(db, m))
ListForUser(d, u) == Repo(Mem!ListForUser(d, u), Pg!ListForUser(d, u))
ListMembershipsForTenant(t) == Repo(Mem!ListMembershipsForTenant(db, t), Pg!ListMembershipsForTenant(db, t))
ListActiveSessionsForUser(u) == Repo(Mem!ListActiveSessionsForUser(db, u), Pg!ListActiveSessionsForUser(db, u))
GetMembership(t, u) == Repo(Mem!GetMembership(db, t, u), Pg!GetMembership(db, t, u))
CreateSession(d, u, t) == Repo(Mem!CreateSession(d, u, t), Pg!CreateSession(d, u, t))
GetSession(s) == Repo(Mem!GetSession(db, s), Pg!GetSession(db, s))
RevokeSession(s) == Repo(Mem!RevokeSession(db, s), Pg!RevokeSession(db, s))
RevokeAllSessionsForUser(u) == Repo(Mem!RevokeAllSessionsForUser(db, u), Pg!RevokeAllSessionsForUser(db, u))
UpdatePassword(u, pw) == Repo(Mem!UpdatePassword(db, u, pw), Pg!UpdatePassword(db, u, pw))
RecordFailedLogin(u) == Repo(Mem!RecordFailedLogin(db, u), Pg!RecordFailedLogin(db, u))
ResetFailedLogin(u) == Repo(Mem!ResetFailedLogin(db, u), Pg!ResetFailedLogin(db, u))
LockUser(u) == Repo(Mem!LockUser(db, u), Pg!LockUser(db, u))
UnlockUser(u) == Repo(Mem!UnlockUser(db, u), Pg!UnlockUser(db, u))
SetTourCompleted(u, done) == Repo(Mem!SetTourCompleted(db, u, done), Pg!SetTourCompleted(db, u, done))
PseudonymiseUser(u) == Repo(Mem!PseudonymiseUser(db, u), Pg!PseudonymiseUser(db, u))
UpdateProfile(u) == Repo(Mem!UpdateProfile(db, u), Pg!UpdateProfile(db, u))
CreateVerification(d, u, purpose) == Repo(Mem!CreateVerification(d, u, purpose), Pg!CreateVerification(d, u, purpose))
GetByToken(v) == Repo(Mem!GetByToken(db, v), Pg!GetByToken(db, v))
MarkUsed(d, v) == Repo(Mem!MarkUsed(d, v), Pg!MarkUsed(d, v))
UpdateMembershipRoles(t, u, roles) == Repo(Mem!UpdateMembershipRoles(db, t, u, roles), Pg!UpdateMembershipRoles(db, t, u, roles))
DeleteMembership(t, u) == Repo(Mem!DeleteMembership(db, t, u), Pg!DeleteMembership(db, t, u))
CreateInvite(t, e, roles) == Repo(Mem!CreateInvite(db, t, e, roles), Pg!CreateInvite(db, t, e, roles))
GetInviteByToken(i) == Repo(Mem!GetInviteByToken(db, i), Pg!GetInviteByToken(db, i))
ListInvitesForTenant(t, pendingOnly) == Repo(Mem!ListInvitesForTenant(db, t, pendingOnly), Pg!ListInvitesForTenant(db, t, pendingOnly))
RevokeInvite(t, i) == Repo(Mem!RevokeInvite(db, t, i), Pg!RevokeInvite(db, t, i))
MarkInviteAccepted(i) == Repo(Mem!MarkInviteAccepted(db, i), Pg!MarkInviteAccepted(db, i))

(***************************************************************************)
(* Requests                                                                *)
(***************************************************************************)
Idle == [at |-> "idle"]
At(r, call) == req[r].at = call

\* Request r arrives.
Begin(r) ==
    /\ req[r] = Idle
    /\ started < MaxRequests
    /\ started' = started + 1
    /\ UNCHANGED <<backend, faults>>

\* Request r makes its next call.
Continue(r, call) ==
    /\ At(r, call)
    /\ UNCHANGED <<backend, started, faults>>

Goto(r, state) == req' = [req EXCEPT ![r] = state]
Answer(r) == Goto(r, Idle)

\* The handler goes on when the call went well, and answers otherwise.
Then(r, answer, state) == db' = answer.db /\ Goto(r, IF answer.err = "ok" THEN state ELSE Idle)

\* principalFromSession: the status of the user is not looked at.
Principals(s) ==
    IF /\ GetSession(s)
       /\ Active(db.sessions[s])
       /\ GetUserByID(db.sessions[s].user)
       /\ db.users[db.sessions[s].user].verified
    THEN {[id |-> db.sessions[s].user, tenant |-> db.sessions[s].tenant, roles |-> m.roles, groups |-> {}] :
             m \in GetMembership(db.sessions[s].tenant, db.sessions[s].user)}
    ELSE {}

\* A request with the cookie of session s, by its user p.
Authenticated(r, p) == Begin(r) /\ \E s \in DOMAIN db.sessions : p \in Principals(s)

People == UNION {Principals(s) : s \in DOMAIN db.sessions}

\* gateTenantAndVerb, for a tenant that has no rules of its own.
Gate(p, verb) == Allow(p, verb, [type |-> "team_member", id |-> Blank, tenant |-> p.tenant, tags |-> {}, owners |-> {}], {})

\* validRoles: unknown roles are dropped, and none at all means viewer.
ValidRoles(roles) ==
    LET known == roles \cap {"viewer", "editor", "steward", "admin"}
    IN  IF known = {} THEN {"viewer"} ELSE known

Init ==
    /\ backend \in Backends
    /\ db = Seed
    /\ req = [r \in Requests |-> Idle]
    /\ started = 0
    /\ faults = 0
    /\ mintedBy = [s \in DOMAIN Seed.sessions |->
                      [pw |-> Seed.users[Seed.sessions[s].user].pw, raced |-> FALSE, erased |-> FALSE]]
    /\ inviteAt = [i \in DOMAIN Seed.invites |-> 1 .. i - 1]
    /\ lapsed = {}
    /\ erased = [u \in {} |-> {}]
    /\ joined = {}
    /\ crossed = {}
    /\ mailbox = DOMAIN Seed.verifs

(***************************************************************************)
(* Signing up (signupHandler, verifyHandler, resendVerificationHandler)    *)
(***************************************************************************)

\* NotGiven is an address or a name that is missing or malformed.
NotGiven == 0
ValidateSignup(e, pw, confirm, slug) ==
    e # NotGiven /\ ValidatePasswordStrength(pw) /\ confirm \in {NotGiven, pw} /\ slug # ""

SignupTenant(r) ==
    /\ Begin(r)
    /\ \E slug \in Slugs \cup {""}, e \in Emails \cup {NotGiven}, pw \in Passwords, confirm \in Passwords \cup {NotGiven} :
          /\ ValidateSignup(e, pw, confirm, slug)
          /\ Then(r, CreateTenant(slug), [at |-> "signup user", tenant |-> Len(db.tenants) + 1, email |-> e, pw |-> pw])
    /\ UNCHANGED history

\* An address that is taken leaves the workspace behind, without members.
SignupUser(r) ==
    /\ Continue(r, "signup user")
    /\ Then(r, CreateUser([email |-> req[r].email, pw |-> req[r].pw, verified |-> FALSE]),
               [at |-> "signup member", tenant |-> req[r].tenant, user |-> Len(db.users) + 1])
    /\ UNCHANGED history

SignupMember(r) ==
    /\ Continue(r, "signup member")
    /\ Then(r, CreateMembership([tenant |-> req[r].tenant, user |-> req[r].user, roles |-> {"super_admin", "admin"}]),
               [at |-> "send verification", user |-> req[r].user])
    /\ UNCHANGED history

\* A mail that cannot be sent leaves the token; whoever asks again gets another.
SendVerification(r) ==
    /\ Continue(r, "send verification")
    /\ Then(r, CreateVerification(db, req[r].user, "verify_email"), Idle)
    /\ mailbox' = mailbox \cup {Len(db'.verifs)}
    /\ UNCHANGED <<mintedBy, inviteAt, lapsed, erased, joined, crossed>>

\* Asked for with a link out of a mail.  Any token will do, whatever it was
\* issued for.
Verify(r) ==
    /\ Begin(r)
    /\ \E v \in mailbox :
          /\ GetByToken(v)
          /\ ~db.verifs[v].used /\ ~db.verifs[v].expired
          /\ Goto(r, [at |-> "mark verified", user |-> db.verifs[v].user, token |-> v])
    /\ UNCHANGED <<db, history>>

\* The error of MarkUsed is dropped.
MarkVerified(r) ==
    /\ Continue(r, "mark verified")
    /\ LET answer == MarkEmailVerified(req[r].user)
       IN  db' = IF answer.err = "ok" THEN MarkUsed(answer.db, req[r].token).db ELSE db
    /\ Answer(r)
    /\ UNCHANGED history

ResendVerification(r) ==
    /\ Begin(r)
    /\ \E e \in Emails : \E u \in GetByEmail(e) :
          /\ ~db.users[u].verified
          /\ Goto(r, [at |-> "send verification", user |-> u])
    /\ UNCHANGED <<db, history>>

(***************************************************************************)
(* Signing in and out                                                      *)
(***************************************************************************)

\* The stub of an erased account is an address like any other here.
Addresses == Emails \cup {StubEmail(u) : u \in DOMAIN db.users}

\* The user is read, a locked one refused and the password verified; an
\* empty hash matches no password.  What follows acts on this reading.
Login(r) ==
    /\ Begin(r)
    /\ \E e \in Addresses, pw \in Passwords : \E u \in GetByEmail(e) :
          /\ db.users[u].status # "locked"
          /\ \/ /\ db.users[u].pw # pw
                /\ Goto(r, [at |-> "record failure", user |-> u])
             \/ /\ db.users[u].pw = pw
                /\ db.users[u].verified
                /\ Goto(r, [at |-> "mint session", user |-> u, pw |-> pw])
    /\ UNCHANGED <<db, history>>

RecordFailure(r) ==
    /\ Continue(r, "record failure")
    /\ LET answer == RecordFailedLogin(req[r].user)
           n == answer.db.users[req[r].user].fails
       IN  /\ db' = answer.db
           /\ Goto(r, IF n >= Threshold THEN [at |-> "lock user", user |-> req[r].user] ELSE Idle)
    /\ UNCHANGED history

\* By now the user may have signed in, reset the password or be erased.
Lock(r) ==
    /\ Continue(r, "lock user")
    /\ db' = LockUser(req[r].user).db
    /\ Answer(r)
    /\ UNCHANGED history

\* The memory repository lists in order, the query has no ORDER BY.
FirstListed(memberships) == Repo(Mem!First(memberships), memberships)

\* ResetFailedLogin, ListForUser, CreateSession: the first workspace is the
\* one the session is for, and without any there is no session.
MintSession(r) ==
    /\ Continue(r, "mint session")
    /\ LET u == req[r].user
           cleared == ResetFailedLogin(u).db
       IN  \/ /\ ListForUser(cleared, u) = {}
              /\ db' = cleared
              /\ UNCHANGED mintedBy
           \/ \E i \in FirstListed(ListForUser(cleared, u)) :
              /\ db' = CreateSession(cleared, u, cleared.members[i].tenant).db
              /\ mintedBy' = Append(mintedBy, [pw |-> req[r].pw, raced |-> req[r].pw # db.users[u].pw,
                                               erased |-> u \in DOMAIN erased])
    /\ Answer(r)
    /\ UNCHANGED <<inviteAt, lapsed, erased, joined, crossed, mailbox>>

Logout(r) ==
    /\ Begin(r)
    /\ \E s \in DOMAIN db.sessions : db' = RevokeSession(s).db
    /\ UNCHANGED <<req, history>>

(***************************************************************************)
(* Passwords (password_reset.go, changePasswordHandler)                    *)
(***************************************************************************)

\* Answered before the token exists: the mail is left to a goroutine.
ForgotPassword(r) ==
    /\ Begin(r)
    /\ \E e \in Addresses : \E u \in GetByEmail(e) : Goto(r, [at |-> "send reset", user |-> u, email |-> e])
    /\ UNCHANGED <<db, history>>

\* A mail to a stub reaches nobody.
SendReset(r) ==
    /\ Continue(r, "send reset")
    /\ Then(r, CreateVerification(db, req[r].user, "password_reset"), Idle)
    /\ mailbox' = IF req[r].email \in Emails THEN mailbox \cup {Len(db'.verifs)} ELSE mailbox
    /\ UNCHANGED <<mintedBy, inviteAt, lapsed, erased, joined, crossed>>

\* The purpose is looked at here.
ResetPassword(r) ==
    /\ Begin(r)
    /\ \E v \in mailbox, pw \in Passwords :
          /\ ValidatePasswordStrength(pw)
          /\ GetByToken(v)
          /\ db.verifs[v].purpose = "password_reset"
          /\ ~db.verifs[v].used /\ ~db.verifs[v].expired
          /\ GetUserByID(db.verifs[v].user)
          /\ Goto(r, [at |-> "update password", user |-> db.verifs[v].user, pw |-> pw, token |-> v])
    /\ UNCHANGED <<db, history>>

ResetUpdate(r) ==
    /\ Continue(r, "update password")
    /\ Then(r, UpdatePassword(req[r].user, req[r].pw), [at |-> "mark used", user |-> req[r].user, token |-> req[r].token])
    /\ UNCHANGED history

\* A token that was used meanwhile: the password is changed already, the
\* handler answers 200, and no session is revoked.
ResetMarkUsed(r) ==
    /\ Continue(r, "mark used")
    /\ LET answer == MarkUsed(db, req[r].token)
       IN  /\ Then(r, answer, [at |-> "revoke sessions", user |-> req[r].user, then |-> "unlock user"])
           /\ lapsed' = IF answer.err = "ok" THEN lapsed ELSE lapsed \cup {req[r].user}
    /\ UNCHANGED <<mintedBy, inviteAt, erased, joined, crossed, mailbox>>

\* Mutant: the sessions of the user stay.
RevokeNone(r) ==
    /\ Continue(r, "revoke sessions")
    /\ Goto(r, IF req[r].then = "unlock user" THEN [at |-> "unlock user", user |-> req[r].user] ELSE Idle)
    /\ UNCHANGED <<db, history>>

\* The last call but one of a reset, the last one of a change or an erasure.
RevokeSessions(r) ==
    /\ Continue(r, "revoke sessions")
    /\ db' = RevokeAllSessionsForUser(req[r].user).db
    /\ Goto(r, IF req[r].then = "unlock user" THEN [at |-> "unlock user", user |-> req[r].user] ELSE Idle)
    /\ lapsed' = lapsed \ {req[r].user}
    /\ UNCHANGED <<mintedBy, inviteAt, erased, joined, crossed, mailbox>>

\* Active, whatever the account was before.
Unlock(r) ==
    /\ Continue(r, "unlock user")
    /\ db' = UnlockUser(req[r].user).db
    /\ Answer(r)
    /\ UNCHANGED history

ChangePassword(r) ==
    /\ \E p \in People, pw \in Passwords :
          /\ Authenticated(r, p)
          /\ ValidatePasswordStrength(pw)
          /\ GetUserByID(p.id)
          /\ db.users[p.id].pw # NoPassword  \* the client knows the current one
          /\ Goto(r, [at |-> "change password", user |-> p.id, pw |-> pw])
    /\ UNCHANGED <<db, history>>

ChangeUpdate(r) ==
    /\ Continue(r, "change password")
    /\ Then(r, UpdatePassword(req[r].user, req[r].pw), [at |-> "revoke sessions", user |-> req[r].user, then |-> "answer"])
    /\ UNCHANGED history

(***************************************************************************)
(* The account (account.go, account_gdpr.go)                               *)
(***************************************************************************)

TourSet(r) ==
    /\ \E p \in People, done \in BOOLEAN : Authenticated(r, p) /\ db' = SetTourCompleted(p.id, done).db
    /\ UNCHANGED <<req, history>>

ProfileUpdate(r) ==
    /\ \E p \in People : Authenticated(r, p) /\ db' = UpdateProfile(p.id).db
    /\ UNCHANGED <<req, history>>

RevokeOneSession(r) ==
    /\ \E p \in People, s \in DOMAIN db.sessions :
          /\ Authenticated(r, p)
          /\ GetSession(s) /\ db.sessions[s].user = p.id
          /\ db' = RevokeSession(s).db
    /\ UNCHANGED <<req, history>>

RevokeAllSessions(r) ==
    /\ \E p \in People : Authenticated(r, p) /\ db' = RevokeAllSessionsForUser(p.id).db
    /\ UNCHANGED <<req, history>>

\* What can still act for user u: an open reset token somebody holds, and
\* requests that have read the account.
Leftover(u) ==
    \/ \E v \in DOMAIN db.verifs : db.verifs[v].user = u /\ ~db.verifs[v].used /\ ~db.verifs[v].expired
    \/ \E r \in Requests : "user" \in DOMAIN req[r] /\ req[r].user = u

DeleteAccount(r) ==
    /\ \E p \in People :
          /\ Authenticated(r, p)
          /\ Then(r, PseudonymiseUser(p.id), [at |-> "revoke sessions", user |-> p.id, then |-> "answer"])
          /\ erased' = [u \in DOMAIN erased \cup {p.id} |->
                           IF u = p.id THEN Leftover(u) \/ (u \in DOMAIN erased /\ erased[u]) ELSE erased[u]]
    /\ UNCHANGED <<mintedBy, inviteAt, lapsed, joined, crossed, mailbox>>

(***************************************************************************)
(* The team (team.go)                                                      *)
(***************************************************************************)

UpdateMember(r) ==
    /\ \E p \in People, u \in DOMAIN db.users, roles \in RoleLists :
          /\ Authenticated(r, p)
          /\ Gate(p, "admin")
          /\ db' = UpdateMembershipRoles(p.tenant, u, ValidRoles(roles)).db
    /\ UNCHANGED <<req, history>>

\* Nobody removes himself; that the last administrator stays is left to the
\* clients.
RemoveMember(r) ==
    /\ \E p \in People, u \in DOMAIN db.users :
          /\ Authenticated(r, p)
          /\ Gate(p, "admin")
          /\ u # p.id
          /\ db' = DeleteMembership(p.tenant, u).db
    /\ UNCHANGED <<req, history>>

\* Invitations somebody is about to accept.
Accepting == {req[r].invite : r \in {r \in Requests : "invite" \in DOMAIN req[r]}}

\* createInviteHandler, up to the check whether the address is a member's.
Invite(r) ==
    /\ \E p \in People, e \in Emails, roles \in RoleLists :
          /\ Authenticated(r, p)
          /\ Gate(p, "admin")
          /\ Goto(r, [at |-> "check member", tenant |-> p.tenant, email |-> e, roles |-> ValidRoles(roles)])
    /\ UNCHANGED <<db, history>>

\* A member is not invited again.
CheckMember(r) ==
    /\ Continue(r, "check member")
    /\ IF \E u \in GetByEmail(req[r].email) : GetMembership(req[r].tenant, u) # {}
       THEN Answer(r)
       ELSE Goto(r, [req[r] EXCEPT !.at = "list invites"])
    /\ UNCHANGED <<db, history>>

\* The request q goes on to create its invitation, and revokes those in open
\* before; seen are the invitations its revocations were to cover.
Inviting(q, open, seen) ==
    [at |-> "create invite", tenant |-> q.tenant, email |-> q.email, roles |-> q.roles, open |-> open, seen |-> seen]

\* Mutant: addresses are compared with their case, and those stored are in
\* another one.
ListByCase(r) ==
    /\ Continue(r, "list invites")
    /\ Goto(r, Inviting(req[r], {}, DOMAIN db.invites))
    /\ UNCHANGED <<db, history>>

ListOpen(r) ==
    /\ Continue(r, "list invites")
    /\ LET same == {i \in ListInvitesForTenant(req[r].tenant, TRUE) : db.invites[i].email = req[r].email}
       IN  Goto(r, Inviting(req[r], same, DOMAIN db.invites))
    /\ UNCHANGED <<db, history>>

\* One of those listed is revoked, in any order; that it is over by now is no
\* matter.
RevokeOpen(r) ==
    /\ Continue(r, "create invite")
    /\ \E i \in req[r].open :
          /\ db' = RevokeInvite(req[r].tenant, i).db
          /\ crossed' = IF db' # db /\ i \in Accepting THEN crossed \cup {i} ELSE crossed
          /\ Goto(r, Inviting(req[r], req[r].open \ {i}, req[r].seen))
    /\ UNCHANGED <<mintedBy, inviteAt, lapsed, erased, joined, mailbox>>

InviteCreate(r) ==
    /\ Continue(r, "create invite")
    /\ req[r].open = {}
    /\ Then(r, CreateInvite(req[r].tenant, req[r].email, req[r].roles), Idle)
    /\ inviteAt' = Append(inviteAt, req[r].seen)
    /\ UNCHANGED <<mintedBy, lapsed, erased, joined, crossed, mailbox>>

InviteRevoke(r) ==
    /\ \E p \in People, i \in DOMAIN db.invites :
          /\ Authenticated(r, p)
          /\ Gate(p, "admin")
          /\ db' = RevokeInvite(p.tenant, i).db
          /\ crossed' = IF db' # db /\ i \in Accepting THEN crossed \cup {i} ELSE crossed
    /\ UNCHANGED <<req, mintedBy, inviteAt, lapsed, erased, joined, mailbox>>

AcceptInvite(r) ==
    /\ Begin(r)
    /\ \E i \in DOMAIN db.invites, pw \in Passwords :
          /\ ValidatePasswordStrength(pw)
          /\ GetInviteByToken(i)
          /\ IsPending(db.invites[i])
          /\ Goto(r, [at |-> "resolve user", invite |-> i, pw |-> pw])
    /\ UNCHANGED <<db, history>>

\* An account that exists is left alone; a new one is created verified, as
\* far as the repository keeps that.
ResolveUser(r) ==
    /\ Continue(r, "resolve user")
    /\ LET e == db.invites[req[r].invite].email
           next(u) == [at |-> "attach member", invite |-> req[r].invite, user |-> u]
       IN  \/ /\ GetByEmail(e) = {}
              /\ Then(r, CreateUser([email |-> e, pw |-> req[r].pw, verified |-> TRUE]), next(Len(db.users) + 1))
           \/ \E u \in GetByEmail(e) : Goto(r, next(u)) /\ UNCHANGED db
    /\ UNCHANGED history

\* The error is dropped: an already attached membership is fine.
AttachMember(r) ==
    /\ Continue(r, "attach member")
    /\ LET inv == db.invites[req[r].invite]
           answer == CreateMembership([tenant |-> inv.tenant, user |-> req[r].user, roles |-> inv.roles])
       IN  /\ db' = answer.db
           /\ joined' = IF answer.err = "ok" THEN joined \cup {req[r].invite} ELSE joined
    /\ Goto(r, [at |-> "mark accepted", invite |-> req[r].invite])
    /\ UNCHANGED <<mintedBy, inviteAt, lapsed, erased, crossed, mailbox>>

MarkAccepted(r) ==
    /\ Continue(r, "mark accepted")
    /\ db' = MarkInviteAccepted(req[r].invite).db
    /\ Answer(r)
    /\ UNCHANGED history

(***************************************************************************)
(* What the requests without effect show                                   *)
(***************************************************************************)
Me(p) ==
    IF GetUserByID(p.id)
    THEN {[user |-> p.id, tenant |-> p.tenant, slug |-> IF GetTenantByID(p.tenant) THEN db.tenants[p.tenant] ELSE "",
           email |-> db.users[p.id].email, roles |-> p.roles, verified |-> db.users[p.id].verified]}
    ELSE {}

MyWorkspaces(p) ==
    {[id |-> db.members[i].tenant, slug |-> db.tenants[db.members[i].tenant], roles |-> db.members[i].roles] :
        i \in {i \in ListForUser(db, p.id) : GetTenantByID(db.members[i].tenant)}}

ListMembers(p) ==
    IF Gate(p, "read")
    THEN {[user |-> m.user, email |-> db.users[m.user].email, roles |-> m.roles] : m \in ListMembershipsForTenant(p.tenant)}
    ELSE {}

\* Mutant: what is over is known by its date only.
StatusByDate(inv) == IF inv.accepted THEN "accepted" ELSE IF inv.expired THEN "expired" ELSE "pending"

InviteStatus(inv) ==
    IF inv.revoked THEN "revoked" ELSE IF inv.accepted THEN "accepted" ELSE IF inv.expired THEN "expired" ELSE "pending"

ListInvites(p, includeAll) ==
    IF Gate(p, "admin")
    THEN {[id |-> i, tenant |-> db.invites[i].tenant, email |-> db.invites[i].email, status |-> InviteStatus(db.invites[i])] :
              i \in ListInvitesForTenant(p.tenant, ~includeAll)}
    ELSE {}

InviteInfo(i) ==
    IF GetInviteByToken(i) /\ IsPending(db.invites[i]) /\ GetTenantByID(db.invites[i].tenant)
    THEN {[email |-> db.invites[i].email, slug |-> db.tenants[db.invites[i].tenant], roles |-> db.invites[i].roles]}
    ELSE {}

ListSessions(p) == ListActiveSessionsForUser(p.id)

\* The possible answers: a list that cannot be read is left out.
ExportAccount(p) ==
    LET reads(list) == {list} \cup (IF backend = "postgres" /\ faults < MaxFaults THEN {{}} ELSE {})
    IN  IF GetUserByID(p.id)
        THEN {[email |-> db.users[p.id].email, memberships |-> ms, sessions |-> ss] :
                 ms \in reads({db.members[i].tenant : i \in ListForUser(db, p.id)}),
                 ss \in reads(ListActiveSessionsForUser(p.id))}
        ELSE {}

(***************************************************************************)
(* What happens around the handlers                                        *)
(***************************************************************************)

\* A token, an invitation or a session runs out, or one FailedLoginWindow
\* goes by for a user with failed logins.
TimePasses ==
    /\ started < MaxRequests
    /\ started' = started + 1
    /\ \/ \E v \in DOMAIN db.verifs : ~db.verifs[v].expired /\ db' = [db EXCEPT !.verifs[v].expired = TRUE]
       \/ \E i \in DOMAIN db.invites : ~db.invites[i].expired /\ db' = [db EXCEPT !.invites[i].expired = TRUE]
       \/ \E s \in DOMAIN db.sessions : ~db.sessions[s].expired /\ db' = [db EXCEPT !.sessions[s].expired = TRUE]
       \/ \E u \in DOMAIN db.users : db.users[u].fails > 0 /\ db' = [db EXCEPT !.users[u].age = @ + 1]
    /\ UNCHANGED <<backend, req, faults, history>>

\* Where r goes when the statement of its next call fails: the error ends the
\* handler, except where the code drops it.  An address whose account or
\* membership cannot be read is no member's, and invitations that are not
\* listed, or not revoked, stay as they are.
AfterFailure(r) ==
    CASE At(r, "revoke sessions") /\ req[r].then = "unlock user" -> {[at |-> "unlock user", user |-> req[r].user]}
      [] At(r, "attach member") -> {[at |-> "mark accepted", invite |-> req[r].invite]}
      [] At(r, "check member") -> {[req[r] EXCEPT !.at = "list invites"]}
      [] At(r, "list invites") -> {Inviting(req[r], {}, {})}
      [] At(r, "create invite") /\ req[r].open # {} ->
            {Inviting(req[r], req[r].open \ {i}, req[r].seen \ {i}) : i \in req[r].open}
      [] OTHER -> {Idle}

StatementFails(r) ==
    /\ backend = "postgres"
    /\ faults < MaxFaults
    /\ req[r] # Idle
    /\ faults' = faults + 1
    /\ \E q \in AfterFailure(r) : Goto(r, q)
    /\ lapsed' = IF req[r].at \in {"mark used", "revoke sessions"} THEN lapsed \cup {req[r].user} ELSE lapsed
    /\ crossed' = IF At(r, "mark accepted") THEN crossed \cup {req[r].invite} ELSE crossed
    /\ UNCHANGED <<backend, db, started, mintedBy, inviteAt, erased, joined, mailbox>>

Handler(r) ==
    \/ /\ req[r] = Idle /\ started < MaxRequests
       /\ \/ SignupTenant(r) \/ Verify(r) \/ ResendVerification(r) \/ Login(r) \/ Logout(r)
          \/ ForgotPassword(r) \/ ResetPassword(r) \/ ChangePassword(r) \/ TourSet(r) \/ ProfileUpdate(r)
          \/ RevokeOneSession(r) \/ RevokeAllSessions(r) \/ DeleteAccount(r) \/ UpdateMember(r)
          \/ RemoveMember(r) \/ Invite(r) \/ InviteRevoke(r) \/ AcceptInvite(r)
    \/ SignupUser(r) \/ SignupMember(r) \/ SendVerification(r) \/ MarkVerified(r)
    \/ RecordFailure(r) \/ Lock(r) \/ MintSession(r) \/ SendReset(r) \/ ResetUpdate(r)
    \/ ResetMarkUsed(r) \/ RevokeSessions(r) \/ Unlock(r) \/ ChangeUpdate(r) \/ CheckMember(r)
    \/ ListOpen(r) \/ RevokeOpen(r) \/ InviteCreate(r) \/ ResolveUser(r) \/ AttachMember(r)
    \/ MarkAccepted(r)

Next ==
    \/ \E r \in Requests : Handler(r) \/ StatementFails(r)
    \/ TimePasses

Spec == Init /\ [][Next]_vars

(***************************************************************************)
(* Properties                                                              *)
(***************************************************************************)

\* A session signed in to with a password that is no longer the account's is
\* revoked ("a stolen session can't outlive the reset", password_reset.go),
\* as soon as the request that changed the password is through: unless the
\* sign-in had verified the password before the change and minted its session
\* after the revocation, or the revocation was skipped or failed.
OldPasswordEvicted ==
    \A s \in DOMAIN db.sessions :
        LET u == db.sessions[s].user
        IN  (~db.sessions[s].revoked /\ mintedBy[s].pw # db.users[u].pw) =>
                \/ mintedBy[s].raced
                \/ u \in lapsed
                \/ \E r \in Requests : req[r].at \in {"mark used", "revoke sessions"} /\ req[r].user = u

\* Nobody signs in to an erased account (deleteAccountHandler calls it
\* irreversible), unless a token or a request from before the erasure was
\* left to act on it: tokens are not revoked, and a reset makes the account
\* active again.
ErasedStaysOut ==
    \A s \in DOMAIN db.sessions : mintedBy[s].erased => erased[db.sessions[s].user]

\* Of two invitations of an address to a workspace that are both open, the
\* later one is no answer to a request that was to replace the earlier one
\* ("the new one becomes the authoritative outstanding invite", team.go):
\* either its list was read before the earlier one was there, or the list or
\* that revocation failed, whose errors createInviteHandler drops.
OneOpenInvite ==
    \A i, j \in DOMAIN db.invites :
        /\ i < j
        /\ IsPending(db.invites[i]) /\ IsPending(db.invites[j])
        /\ db.invites[i].tenant = db.invites[j].tenant
        /\ db.invites[i].email = db.invites[j].email
        => i \notin inviteAt[j]

\* Who joined with an invitation has it accepted in the end: a revoked one
\* makes nobody a member, unless the revocation or a failure came between the
\* look at the invitation and the end of acceptInviteHandler.
JoinedMeansAccepted ==
    \A i \in joined :
        \/ db.invites[i].accepted
        \/ i \in crossed
        \/ \E r \in Requests : At(r, "mark accepted") /\ req[r].invite = i

\* What different pages show of an account and of its workspaces agrees,
\* whatever requests cross: who is signed in finds himself among the members
\* and the workspace among his own; members and administrators see their own
\* workspace only, and no address of an erased account; an invitation is
\* listed as pending when, and only when, its link still works; a session that
\* is listed signs its user in, or he has left the workspace; and the export
\* tells of no session and of no workspace that is not his own.
ViewsAgree ==
    \A p \in People :
        /\ \A me \in Me(p) :
              /\ [id |-> p.tenant, slug |-> me.slug, roles |-> p.roles] \in MyWorkspaces(p)
              /\ Gate(p, "read") => [user |-> p.id, email |-> me.email, roles |-> p.roles] \in ListMembers(p)
              /\ \A x \in ExportAccount(p) :
                    x.email = me.email /\ x.sessions \subseteq ListSessions(p) /\ x.memberships \subseteq {w.id : w \in MyWorkspaces(p)}
        /\ \A m \in ListMembers(p) :
              /\ \E n \in DOMAIN db.members : db.members[n].user = m.user /\ db.members[n].tenant = p.tenant
              /\ m.user \in DOMAIN erased => m.email = StubEmail(m.user)
        /\ \A i \in ListInvites(p, TRUE) :
              /\ i.tenant = p.tenant
              /\ (i.status = "pending") <=> InviteInfo(i.id) # {}
              /\ (i.status = "pending") <=> i \in ListInvites(p, FALSE)
        /\ \A s \in ListSessions(p) : Principals(s) # {} \/ GetMembership(db.sessions[s].tenant, p.id) = {}

\* No account has a password that validatePasswordStrength refuses, whichever
\* handler set it.
PasswordsStrong == \A u \in DOMAIN db.users : db.users[u].pw = NoPassword \/ ValidatePasswordStrength(db.users[u].pw)

\* Who is signed in may be.
SignInsJustified == OldPasswordEvicted /\ ErasedStaysOut /\ PasswordsStrong

\* Invitations are open once and make members once.
InvitesHold == OneOpenInvite /\ JoinedMeansAccepted
===============================================================================
