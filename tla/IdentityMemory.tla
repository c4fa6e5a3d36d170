--------------------------- MODULE IdentityMemory ---------------------------
(***************************************************************************)
(* identity.MemoryRepo (internal/core/identity/memory.go), the repository  *)
(* of the tests and of the embedded mode.  Every method runs under one     *)
(* mutex, so each is one step.                                             *)
(***************************************************************************)
EXTENDS IdentityData

CreateTenant(db, slug) ==
    IF \E t \in DOMAIN db.tenants : db.tenants[t] = slug
    THEN Fails("slug_taken", db)
    ELSE Ok([db EXCEPT !.tenants = Append(@, slug)])

GetTenantByID(db, t) == Has(db.tenants, t)

\* The row is stored as given, a verified address included.
CreateUser(db, u) ==
    IF \E i \in DOMAIN db.users : db.users[i].email = u.email
    THEN Fails("email_taken", db)
    ELSE Ok([db EXCEPT !.users =
             Append(@, [email |-> u.email, pw |-> u.pw, status |-> "active", verified |-> u.verified,
                        tour |-> FALSE, fails |-> 0, age |-> 0])])

GetByEmail(db, email) == {u \in DOMAIN db.users : db.users[u].email = email}

GetUserByID(db, u) == Has(db.users, u)

MarkEmailVerified(db, u) ==
    IF Has(db.users, u) THEN Ok([db EXCEPT !.users[u].verified = TRUE]) ELSE Fails("not_found", db)

\* A second membership of the same user is appended like the first.
CreateMembership(db, m) == Ok([db EXCEPT !.members = Append(@, m)])

MembershipsAt(db, t, u) ==
    {i \in DOMAIN db.members : db.members[i].tenant = t /\ db.members[i].user = u}

First(S) == {i \in S : \A j \in S : i <= j}

ListForUser(db, u) == {i \in DOMAIN db.members : db.members[i].user = u}

GetMembership(db, t, u) == {db.members[i] : i \in First(MembershipsAt(db, t, u))}

CreateSession(db, u, t) ==
    Ok([db EXCEPT !.sessions = Append(@, [user |-> u, tenant |-> t, revoked |-> FALSE, expired |-> FALSE])])

GetSession(db, s) == Has(db.sessions, s)

RevokeSession(db, s) ==
    IF Has(db.sessions, s) THEN Ok([db EXCEPT !.sessions[s].revoked = TRUE]) ELSE Fails("not_found", db)

RevokeAllSessionsForUser(db, u) ==
    Ok([db EXCEPT !.sessions = [s \in DOMAIN @ |-> IF @[s].user = u THEN [@[s] EXCEPT !.revoked = TRUE] ELSE @[s]]])

ListActiveSessionsForUser(db, u) == {s \in DOMAIN db.sessions : db.sessions[s].user = u /\ Active(db.sessions[s])}

UpdatePassword(db, u, pw) ==
    IF Has(db.users, u) THEN Ok([db EXCEPT !.users[u].pw = pw]) ELSE Fails("not_found", db)

\* at.After(resetAt), resetAt one window after the first failure; the count
\* of a user that does not exist is kept as well, aside of the tables.
RecordFailedLogin(db, u) ==
    IF ~Has(db.users, u) THEN Ok(db)
    ELSE IF db.users[u].fails = 0 \/ db.users[u].age >= 1
    THEN Ok([db EXCEPT !.users[u].fails = 1, !.users[u].age = 0])
    ELSE Ok([db EXCEPT !.users[u].fails = @ + 1])

ResetFailedLogin(db, u) ==
    Ok(IF Has(db.users, u) THEN [db EXCEPT !.users[u].fails = 0, !.users[u].age = 0] ELSE db)

LockUser(db, u) ==
    IF Has(db.users, u) THEN Ok([db EXCEPT !.users[u].status = "locked"]) ELSE Fails("not_found", db)

UnlockUser(db, u) ==
    IF Has(db.users, u)
    THEN Ok([db EXCEPT !.users[u].status = "active", !.users[u].fails = 0, !.users[u].age = 0])
    ELSE Fails("not_found", db)

SetTourCompleted(db, u, done) ==
    IF Has(db.users, u) THEN Ok([db EXCEPT !.users[u].tour = done]) ELSE Fails("not_found", db)

\* Frees the address; the failed logins, the date of verification and the
\* tokens stay.
PseudonymiseUser(db, u) ==
    IF Has(db.users, u)
    THEN Ok([db EXCEPT !.users[u].email = StubEmail(u), !.users[u].pw = NoPassword, !.users[u].status = "deleted"])
    ELSE Fails("not_found", db)

UpdateProfile(db, u) == IF Has(db.users, u) THEN Ok(db) ELSE Fails("not_found", db)

CreateVerification(db, u, purpose) ==
    Ok([db EXCEPT !.verifs = Append(@, [user |-> u, purpose |-> purpose, used |-> FALSE, expired |-> FALSE])])

GetByToken(db, v) == Has(db.verifs, v)

MarkUsed(db, v) ==
    IF Has(db.verifs, v) /\ ~db.verifs[v].used THEN Ok([db EXCEPT !.verifs[v].used = TRUE])
    ELSE Fails("token_invalid", db)

ListMembershipsForTenant(db, t) ==
    {[user |-> db.members[i].user, roles |-> db.members[i].roles] :
        i \in {i \in DOMAIN db.members : db.members[i].tenant = t}}

\* Of several rows the first one is changed.
UpdateMembershipRoles(db, t, u, roles) ==
    IF MembershipsAt(db, t, u) = {} THEN Fails("not_found", db)
    ELSE LET i == CHOOSE i \in First(MembershipsAt(db, t, u)) : TRUE
         IN  Ok([db EXCEPT !.members[i].roles = roles])

\* Of several rows the first one is removed.
DeleteMembership(db, t, u) ==
    IF MembershipsAt(db, t, u) = {} THEN Fails("not_found", db)
    ELSE LET i == CHOOSE i \in First(MembershipsAt(db, t, u)) : TRUE
         IN  Ok([db EXCEPT !.members = SubSeq(@, 1, i - 1) \o SubSeq(@, i + 1, Len(@))])

CreateInvite(db, t, email, roles) ==
    Ok([db EXCEPT !.invites = Append(@, [tenant |-> t, email |-> email, roles |-> roles,
                                         accepted |-> FALSE, revoked |-> FALSE, expired |-> FALSE])])

GetInviteByToken(db, i) == Has(db.invites, i)

ListInvitesForTenant(db, t, pendingOnly) ==
    {i \in DOMAIN db.invites : db.invites[i].tenant = t /\ (pendingOnly => IsPending(db.invites[i]))}

\* An invitation that has run out can still be revoked.
RevokeInvite(db, t, i) ==
    IF Has(db.invites, i) /\ db.invites[i].tenant = t /\ ~db.invites[i].accepted /\ ~db.invites[i].revoked
    THEN Ok([db EXCEPT !.invites[i].revoked = TRUE])
    ELSE Fails("not_found", db)

MarkInviteAccepted(db, i) ==
    IF Has(db.invites, i) /\ ~db.invites[i].accepted /\ ~db.invites[i].revoked
    THEN Ok([db EXCEPT !.invites[i].accepted = TRUE])
    ELSE Fails("token_invalid", db)
=============================================================================
