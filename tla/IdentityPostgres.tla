-------------------------- MODULE IdentityPostgres --------------------------
(***************************************************************************)
(* postgres.IdentityStore (internal/storage/postgres/identity.go), the     *)
(* repository the server is wired with.  Every method is one statement;    *)
(* what the statement does to the rows it selects is written with Rows and *)
(* Set below.  Statements that fail are in module Identity.                *)
(***************************************************************************)
EXTENDS IdentityData

\* UPDATE ... WHERE: every row of the table that P picks becomes New(row).
Set(table, P(_), New(_)) == [i \in DOMAIN table |-> IF P(i) THEN New(table[i]) ELSE table[i]]

\* tag.RowsAffected() = 0 is the error e.
Affected(table, P(_), e, db) == IF \E i \in DOMAIN table : P(i) THEN Ok(db) ELSE Fails(e, db)

CreateTenant(db, slug) ==
    LET unique == \A t \in DOMAIN db.tenants : db.tenants[t] # slug  \* UNIQUE (slug)
    IN  IF unique THEN Ok([db EXCEPT !.tenants = Append(@, slug)]) ELSE Fails("slug_taken", db)

GetTenantByID(db, t) == t \in DOMAIN db.tenants

\* The INSERT names no email_verified_at, so what the caller put there is
\* lost.
CreateUser(db, u) ==
    LET unique == \A i \in DOMAIN db.users : db.users[i].email # u.email  \* UNIQUE (email_lower)
        row == [email |-> u.email, pw |-> u.pw, status |-> "active", verified |-> FALSE,
                tour |-> FALSE, fails |-> 0, age |-> 0]
    IN  IF unique THEN Ok([db EXCEPT !.users = Append(@, row)]) ELSE Fails("email_taken", db)

GetByEmail(db, email) == {u \in DOMAIN db.users : db.users[u].email = email}

GetUserByID(db, u) == u \in DOMAIN db.users

\* No row to update is not an error.
MarkEmailVerified(db, u) ==
    Ok([db EXCEPT !.users = Set(@, LAMBDA i : i = u, LAMBDA row : [row EXCEPT !.verified = TRUE])])

\* PRIMARY KEY (tenant_id, user_id).
CreateMembership(db, m) ==
    IF \E i \in DOMAIN db.members : db.members[i].tenant = m.tenant /\ db.members[i].user = m.user
    THEN Fails("conflict", db)
    ELSE Ok([db EXCEPT !.members = Append(@, m)])

ListForUser(db, u) == {i \in DOMAIN db.members : db.members[i].user = u}

GetMembership(db, t, u) ==
    {db.members[i] : i \in {i \in DOMAIN db.members : db.members[i].tenant = t /\ db.members[i].user = u}}

CreateSession(db, u, t) ==
    LET row == [user |-> u, tenant |-> t, revoked |-> FALSE, expired |-> FALSE]
    IN  Ok([db EXCEPT !.sessions = Append(@, row)])

GetSession(db, s) == s \in DOMAIN db.sessions

RevokeSession(db, s) ==
    Ok([db EXCEPT !.sessions = Set(@, LAMBDA i : i = s, LAMBDA row : [row EXCEPT !.revoked = TRUE])])

RevokeAllSessionsForUser(db, u) ==
    Ok([db EXCEPT !.sessions = Set(@, LAMBDA s : db.sessions[s].user = u, LAMBDA row : [row EXCEPT !.revoked = TRUE])])

ListActiveSessionsForUser(db, u) ==
    {s \in DOMAIN db.sessions : db.sessions[s].user = u /\ ~db.sessions[s].revoked /\ ~db.sessions[s].expired}

UpdateUser(db, u, New(_)) ==
    Affected(db.users, LAMBDA i : i = u, "not_found", [db EXCEPT !.users = Set(@, LAMBDA i : i = u, New)])

UpdatePassword(db, u, pw) == UpdateUser(db, u, LAMBDA row : [row EXCEPT !.pw = pw])

UpdateProfile(db, u) == UpdateUser(db, u, LAMBDA row : row)

CreateVerification(db, u, purpose) ==
    LET row == [user |-> u, purpose |-> purpose, used |-> FALSE, expired |-> FALSE]
    IN  Ok([db EXCEPT !.verifs = Append(@, row)])

GetByToken(db, v) == v \in DOMAIN db.verifs

\* AND used_at IS NULL: of the statements that race for a token
\* one affects its row.
MarkUsed(db, v) ==
    IF v \in DOMAIN db.verifs /\ ~db.verifs[v].used THEN Ok([db EXCEPT !.verifs[v].used = TRUE])
    ELSE Fails("token_invalid", db)

\* failed_login_reset_at, one window after the first failure, is compared
\* with a cutoff one window ago: the count restarts after two windows.
RecordFailedLogin(db, u) ==
    UpdateUser(db, u, LAMBDA row : IF row.fails = 0 \/ row.age >= 2
                                   THEN [row EXCEPT !.fails = 1, !.age = 0]
                                   ELSE [row EXCEPT !.fails = @ + 1])

ResetFailedLogin(db, u) ==
    Ok([db EXCEPT !.users = Set(@, LAMBDA i : i = u, LAMBDA row : [row EXCEPT !.fails = 0, !.age = 0])])

LockUser(db, u) == UpdateUser(db, u, LAMBDA row : [row EXCEPT !.status = "locked"])

SetTourCompleted(db, u, done) == UpdateUser(db, u, LAMBDA row : [row EXCEPT !.tour = done])

PseudonymiseUser(db, u) ==
    UpdateUser(db, u, LAMBDA row : [row EXCEPT !.email = StubEmail(u), !.pw = NoPassword, !.status = "deleted"])

UnlockUser(db, u) == UpdateUser(db, u, LAMBDA row : [row EXCEPT !.status = "active", !.fails = 0, !.age = 0])

\* The JOIN leaves out a member whose user is gone, which none is.
ListMembershipsForTenant(db, t) ==
    {[user |-> m.user, roles |-> m.roles] :
        m \in {db.members[i] : i \in {i \in DOMAIN db.members :
                  db.members[i].tenant = t /\ db.members[i].user \in DOMAIN db.users}}}

UpdateMembershipRoles(db, t, u, roles) ==
    LET picked(i) == db.members[i].tenant = t /\ db.members[i].user = u
    IN  Affected(db.members, picked, "not_found",
                 [db EXCEPT !.members = Set(@, picked, LAMBDA row : [row EXCEPT !.roles = roles])])

\* The primary key leaves one row at most to delete.
DeleteMembership(db, t, u) ==
    LET picked(i) == db.members[i].tenant = t /\ db.members[i].user = u
        i == CHOOSE i \in DOMAIN db.members : picked(i)
    IN  IF \E j \in DOMAIN db.members : picked(j)
        THEN Ok([db EXCEPT !.members = SubSeq(@, 1, i - 1) \o SubSeq(@, i + 1, Len(@))])
        ELSE Fails("not_found", db)

CreateInvite(db, t, email, roles) ==
    LET row == [tenant |-> t, email |-> email, roles |-> roles, accepted |-> FALSE, revoked |-> FALSE, expired |-> FALSE]
    IN  Ok([db EXCEPT !.invites = Append(@, row)])

GetInviteByToken(db, i) == i \in DOMAIN db.invites

ListInvitesForTenant(db, t, pendingOnly) ==
    LET open(inv) == ~inv.accepted /\ ~inv.revoked /\ ~inv.expired
    IN  {i \in DOMAIN db.invites : db.invites[i].tenant = t /\ (pendingOnly => open(db.invites[i]))}

RevokeInvite(db, t, i) ==
    IF i \in DOMAIN db.invites /\ db.invites[i].tenant = t /\ ~db.invites[i].accepted /\ ~db.invites[i].revoked
    THEN Ok([db EXCEPT !.invites[i].revoked = TRUE])
    ELSE Fails("not_found", db)

MarkInviteAccepted(db, i) ==
    IF i \in DOMAIN db.invites /\ ~db.invites[i].accepted /\ ~db.invites[i].revoked
    THEN Ok([db EXCEPT !.invites[i].accepted = TRUE])
    ELSE Fails("token_invalid", db)
=============================================================================
