--------------------------- MODULE Identity_proofs ---------------------------
(***************************************************************************)
(* Proofs about accounts, sessions and invitations, and about the rate     *)
(* limiters in front of them.                                              *)
(***************************************************************************)
EXTENDS Identity, Middleware, FiniteSetTheorems, SequenceTheorems, WellFoundedInduction, TLAPS

(***************************************************************************)
(* The invariant                                                           *)
(***************************************************************************)
Strong == {pw \in Passwords : ValidatePasswordStrength(pw)}

States ==
    {Idle}
    \cup [at : {"signup user"}, tenant : Nat, email : Emails, pw : Strong]
    \cup [at : {"signup member"}, tenant : Nat, user : Nat]
    \cup [at : {"send verification", "record failure", "lock user", "unlock user"}, user : Nat]
    \cup [at : {"mark verified", "mark used"}, user : Nat, token : Nat]
    \cup [at : {"mint session"}, user : Nat, pw : Passwords]
    \cup [at : {"send reset"}, user : Nat, email : Int]
    \cup [at : {"update password"}, user : Nat, pw : Strong, token : Nat]
    \cup [at : {"change password"}, user : Nat, pw : Strong]
    \cup [at : {"revoke sessions"}, user : Nat, then : {"unlock user", "answer"}]
    \cup [at : {"check member", "list invites"}, tenant : Nat, email : Emails, roles : SUBSET Roles]
    \cup [at : {"create invite"}, tenant : Nat, email : Emails, roles : SUBSET Roles, open : SUBSET Nat, seen : SUBSET Nat]
    \cup [at : {"resolve user"}, invite : Nat, pw : Strong]
    \cup [at : {"attach member"}, invite : Nat, user : Nat]
    \cup [at : {"mark accepted"}, invite : Nat]

TypeOK ==
    /\ backend \in Backends
    /\ db \in Database
    /\ req \in [Requests -> States]
    /\ started \in Nat
    /\ faults \in Nat
    /\ mintedBy \in Seq([pw : Nat, raced : BOOLEAN, erased : BOOLEAN])
    /\ inviteAt \in Seq(SUBSET Nat)
    /\ lapsed \subseteq Nat
    /\ erased \in [DOMAIN erased -> BOOLEAN]
    /\ joined \subseteq Nat /\ crossed \subseteq Nat /\ mailbox \subseteq Nat

\* What a request speaks of.
OfUser(r) == "user" \in DOMAIN req[r]
OfInvite(r) == "invite" \in DOMAIN req[r]
OfTenant(r) == "tenant" \in DOMAIN req[r]
OfToken(r) == "token" \in DOMAIN req[r]

\* Rows are named that are there, and every session and every invitation has
\* its history.
Grounded ==
    /\ Linked(db)
    /\ \A r \in Requests : /\ OfUser(r) => req[r].user \in DOMAIN db.users
                           /\ OfInvite(r) => req[r].invite \in DOMAIN db.invites
                           /\ OfTenant(r) => req[r].tenant \in DOMAIN db.tenants
                           /\ OfToken(r) => req[r].token \in DOMAIN db.verifs
    /\ Len(mintedBy) = Len(db.sessions)
    /\ Len(inviteAt) = Len(db.invites)
    /\ DOMAIN erased \subseteq DOMAIN db.users
    /\ mailbox \subseteq DOMAIN db.verifs

\* An erased account keeps its stub address.
Stubbed == \A u \in DOMAIN erased : db.users[u].email = StubEmail(u)

\* Nothing can act for account u any more: it has no password, nobody has a
\* token for it, and requests that know it find their way to no session.
Gone(u) ==
    /\ db.users[u].pw = NoPassword
    /\ \A v \in mailbox : db.verifs[v].user = u => db.verifs[v].used \/ db.verifs[v].expired
    /\ \A r \in Requests :
          OfUser(r) /\ req[r].user = u =>
              \/ req[r].at \in {"record failure", "lock user"}
              \/ req[r].at = "send reset" /\ req[r].email = StubEmail(u)
              \/ req[r].at = "revoke sessions" /\ req[r].then = "answer"

\* A session that was minted for an erased account is of one that something
\* was left of.
Barred == \A s \in DOMAIN db.sessions : mintedBy[s].erased => db.sessions[s].user \in DOMAIN erased /\ erased[db.sessions[s].user]

Erasures == \A u \in DOMAIN erased : ~erased[u] => Gone(u)

\* Invitations of an address to a workspace.
Alike(inv, t, e) == inv.tenant = t /\ inv.email = e

\* What a request is to replace, and has dealt with, is over ...
Cleared(r) ==
    At(r, "create invite") =>
        /\ req[r].open \subseteq DOMAIN db.invites /\ req[r].seen \subseteq DOMAIN db.invites
        /\ \A i \in req[r].seen \ req[r].open :
              Alike(db.invites[i], req[r].tenant, req[r].email) => ~IsPending(db.invites[i])

\* ... and so is one of any two of which one was to replace the other.
Replaced ==
    \A i, j \in DOMAIN db.invites :
        i < j /\ i \in inviteAt[j] /\ Alike(db.invites[i], db.invites[j].tenant, db.invites[j].email)
        => ~IsPending(db.invites[i]) \/ ~IsPending(db.invites[j])

Coalesced == Replaced /\ \A r \in Requests : Cleared(r)

\* An invitation on its way to be accepted is not revoked unnoticed.
Noticed(i) == db.invites[i].accepted \/ i \in crossed \/ ~db.invites[i].revoked

Accepted ==
    /\ joined \subseteq DOMAIN db.invites
    /\ JoinedMeansAccepted
    /\ \A r \in Requests : OfInvite(r) => Noticed(req[r].invite)

IInv ==
    /\ TypeOK /\ Grounded
    /\ OldPasswordEvicted /\ PasswordsStrong
    /\ Stubbed /\ Erasures /\ Barred
    /\ Coalesced /\ Accepted

(***************************************************************************)
(* The tables                                                              *)
(***************************************************************************)

\* One table changes, the others do not.
OnlyTenants(d, e) ==
    /\ e \in Database /\ e.users = d.users /\ e.members = d.members
    /\ e.sessions = d.sessions /\ e.verifs = d.verifs /\ e.invites = d.invites
OnlyUsers(d, e) ==
    /\ e \in Database /\ e.tenants = d.tenants /\ e.members = d.members
    /\ e.sessions = d.sessions /\ e.verifs = d.verifs /\ e.invites = d.invites
OnlyMembers(d, e) ==
    /\ e \in Database /\ e.tenants = d.tenants /\ e.users = d.users
    /\ e.sessions = d.sessions /\ e.verifs = d.verifs /\ e.invites = d.invites
OnlySessions(d, e) ==
    /\ e \in Database /\ e.tenants = d.tenants /\ e.users = d.users
    /\ e.members = d.members /\ e.verifs = d.verifs /\ e.invites = d.invites
OnlyVerifs(d, e) ==
    /\ e \in Database /\ e.tenants = d.tenants /\ e.users = d.users
    /\ e.members = d.members /\ e.sessions = d.sessions /\ e.invites = d.invites
OnlyInvites(d, e) ==
    /\ e \in Database /\ e.tenants = d.tenants /\ e.users = d.users
    /\ e.members = d.members /\ e.sessions = d.sessions /\ e.verifs = d.verifs

\* A row is added, or changed.
Adds(table, new, row) ==
    /\ DOMAIN new = 1..(Len(table) + 1)
    /\ Len(new) = Len(table) + 1
    /\ new[Len(table) + 1] = row
    /\ \A i \in DOMAIN table : new[i] = table[i]
Edits(table, new, k, row) ==
    /\ DOMAIN new = DOMAIN table
    /\ Len(new) = Len(table)
    /\ new[k] = row
    /\ \A i \in DOMAIN table : i # k => new[i] = table[i]

\* The tables of a database are sequences of their rows.
LEMMA TableTypes ==
    ASSUME NEW d \in Database
    PROVE  /\ d.tenants \in Seq(STRING) /\ d.users \in Seq(Users) /\ d.members \in Seq(Members)
           /\ d.sessions \in Seq(Sessions) /\ d.verifs \in Seq(Verifications) /\ d.invites \in Seq(Invites)
BY DEF Database

\* The keys of a table count its rows.
LEMMA TableDomains ==
    ASSUME NEW d \in Database
    PROVE  /\ DOMAIN d.tenants = 1..Len(d.tenants) /\ Len(d.tenants) \in Nat
           /\ DOMAIN d.users = 1..Len(d.users) /\ Len(d.users) \in Nat
           /\ DOMAIN d.members = 1..Len(d.members) /\ Len(d.members) \in Nat
           /\ DOMAIN d.sessions = 1..Len(d.sessions) /\ Len(d.sessions) \in Nat
           /\ DOMAIN d.verifs = 1..Len(d.verifs) /\ Len(d.verifs) \in Nat
           /\ DOMAIN d.invites = 1..Len(d.invites) /\ Len(d.invites) \in Nat
BY TableTypes

\* A database in which one table is replaced differs in that table only.
LEMMA Replacing ==
    ASSUME NEW d \in Database
    PROVE  /\ \A x \in Seq(STRING) : OnlyTenants(d, [d EXCEPT !.tenants = x]) /\ [d EXCEPT !.tenants = x].tenants = x
           /\ \A x \in Seq(Users) : OnlyUsers(d, [d EXCEPT !.users = x]) /\ [d EXCEPT !.users = x].users = x
           /\ \A x \in Seq(Members) : OnlyMembers(d, [d EXCEPT !.members = x]) /\ [d EXCEPT !.members = x].members = x
           /\ \A x \in Seq(Sessions) : OnlySessions(d, [d EXCEPT !.sessions = x]) /\ [d EXCEPT !.sessions = x].sessions = x
           /\ \A x \in Seq(Verifications) : OnlyVerifs(d, [d EXCEPT !.verifs = x]) /\ [d EXCEPT !.verifs = x].verifs = x
           /\ \A x \in Seq(Invites) : OnlyInvites(d, [d EXCEPT !.invites = x]) /\ [d EXCEPT !.invites = x].invites = x
BY DEF Database, OnlyTenants, OnlyUsers, OnlyMembers, OnlySessions, OnlyVerifs, OnlyInvites

\* INSERT and UPDATE.
LEMMA Inserting ==
    ASSUME NEW S, NEW table \in Seq(S), NEW row \in S
    PROVE  Append(table, row) \in Seq(S) /\ Adds(table, Append(table, row), row)
BY DEF Adds

\* A table in which one row is replaced.
LEMMA Updating ==
    ASSUME NEW S, NEW table \in Seq(S), NEW row \in S, NEW k \in DOMAIN table
    PROVE  /\ [table EXCEPT ![k] = row] \in Seq(S)
           /\ Edits(table, [table EXCEPT ![k] = row], k, row)
           /\ [i \in DOMAIN table |-> IF i = k THEN row ELSE table[i]] = [table EXCEPT ![k] = row]
BY DEF Edits


\* A table with one more row.
LEMMA Adding ==
    ASSUME NEW d \in Database
    PROVE  /\ \A row \in STRING : /\ OnlyTenants(d, [d EXCEPT !.tenants = Append(@, row)])
                                     /\ Adds(d.tenants, [d EXCEPT !.tenants = Append(@, row)].tenants, row)
           /\ \A row \in Users : /\ OnlyUsers(d, [d EXCEPT !.users = Append(@, row)])
                                     /\ Adds(d.users, [d EXCEPT !.users = Append(@, row)].users, row)
           /\ \A row \in Members : /\ OnlyMembers(d, [d EXCEPT !.members = Append(@, row)])
                                     /\ Adds(d.members, [d EXCEPT !.members = Append(@, row)].members, row)
           /\ \A row \in Sessions : /\ OnlySessions(d, [d EXCEPT !.sessions = Append(@, row)])
                                     /\ Adds(d.sessions, [d EXCEPT !.sessions = Append(@, row)].sessions, row)
           /\ \A row \in Verifications : /\ OnlyVerifs(d, [d EXCEPT !.verifs = Append(@, row)])
                                     /\ Adds(d.verifs, [d EXCEPT !.verifs = Append(@, row)].verifs, row)
           /\ \A row \in Invites : /\ OnlyInvites(d, [d EXCEPT !.invites = Append(@, row)])
                                     /\ Adds(d.invites, [d EXCEPT !.invites = Append(@, row)].invites, row)
<1>0. /\ d.tenants \in Seq(STRING)
      /\ d.users \in Seq(Users)
      /\ d.members \in Seq(Members)
      /\ d.sessions \in Seq(Sessions)
      /\ d.verifs \in Seq(Verifications)
      /\ d.invites \in Seq(Invites)
  BY TableTypes
<1>1. ASSUME NEW row \in STRING
      PROVE  OnlyTenants(d, [d EXCEPT !.tenants = Append(@, row)]) /\ Adds(d.tenants, [d EXCEPT !.tenants = Append(@, row)].tenants, row)
  <2>1. PICK new : new = Append(d.tenants, row)
    OBVIOUS
  <2>2. new \in Seq(STRING) /\ Adds(d.tenants, new, row)
    BY <1>0, <2>1, Inserting
  <2>3. OnlyTenants(d, [d EXCEPT !.tenants = new]) /\ [d EXCEPT !.tenants = new].tenants = new
    BY <2>2, Replacing
  <2> QED BY <2>1, <2>2, <2>3
<1>2. ASSUME NEW row \in Users
      PROVE  OnlyUsers(d, [d EXCEPT !.users = Append(@, row)]) /\ Adds(d.users, [d EXCEPT !.users = Append(@, row)].users, row)
  <2>1. PICK new : new = Append(d.users, row)
    OBVIOUS
  <2>2. new \in Seq(Users) /\ Adds(d.users, new, row)
    BY <1>0, <2>1, Inserting
  <2>3. OnlyUsers(d, [d EXCEPT !.users = new]) /\ [d EXCEPT !.users = new].users = new
    BY <2>2, Replacing
  <2> QED BY <2>1, <2>2, <2>3
<1>3. ASSUME NEW row \in Members
      PROVE  OnlyMembers(d, [d EXCEPT !.members = Append(@, row)]) /\ Adds(d.members, [d EXCEPT !.members = Append(@, row)].members, row)
  <2>1. PICK new : new = Append(d.members, row)
    OBVIOUS
  <2>2. new \in Seq(Members) /\ Adds(d.members, new, row)
    BY <1>0, <2>1, Inserting
  <2>3. OnlyMembers(d, [d EXCEPT !.members = new]) /\ [d EXCEPT !.members = new].members = new
    BY <2>2, Replacing
  <2> QED BY <2>1, <2>2, <2>3
<1>4. ASSUME NEW row \in Sessions
      PROVE  OnlySessions(d, [d EXCEPT !.sessions = Append(@, row)]) /\ Adds(d.sessions, [d EXCEPT !.sessions = Append(@, row)].sessions, row)
  <2>1. PICK new : new = Append(d.sessions, row)
    OBVIOUS
  <2>2. new \in Seq(Sessions) /\ Adds(d.sessions, new, row)
    BY <1>0, <2>1, Inserting
  <2>3. OnlySessions(d, [d EXCEPT !.sessions = new]) /\ [d EXCEPT !.sessions = new].sessions = new
    BY <2>2, Replacing
  <2> QED BY <2>1, <2>2, <2>3
<1>5. ASSUME NEW row \in Verifications
      PROVE  OnlyVerifs(d, [d EXCEPT !.verifs = Append(@, row)]) /\ Adds(d.verifs, [d EXCEPT !.verifs = Append(@, row)].verifs, row)
  <2>1. PICK new : new = Append(d.verifs, row)
    OBVIOUS
  <2>2. new \in Seq(Verifications) /\ Adds(d.verifs, new, row)
    BY <1>0, <2>1, Inserting
  <2>3. OnlyVerifs(d, [d EXCEPT !.verifs = new]) /\ [d EXCEPT !.verifs = new].verifs = new
    BY <2>2, Replacing
  <2> QED BY <2>1, <2>2, <2>3
<1>6. ASSUME NEW row \in Invites
      PROVE  OnlyInvites(d, [d EXCEPT !.invites = Append(@, row)]) /\ Adds(d.invites, [d EXCEPT !.invites = Append(@, row)].invites, row)
  <2>1. PICK new : new = Append(d.invites, row)
    OBVIOUS
  <2>2. new \in Seq(Invites) /\ Adds(d.invites, new, row)
    BY <1>0, <2>1, Inserting
  <2>3. OnlyInvites(d, [d EXCEPT !.invites = new]) /\ [d EXCEPT !.invites = new].invites = new
    BY <2>2, Replacing
  <2> QED BY <2>1, <2>2, <2>3
<1> QED BY <1>1, <1>2, <1>3, <1>4, <1>5, <1>6


(***************************************************************************)
(* The methods of the repositories, for rows that are there                *)
(***************************************************************************)
Wired == backend \in {"memory", "postgres"} /\ db \in Database

\* answer leaves user u as row.
SetsUser(answer, d, u, row) ==
    /\ answer.err = "ok"
    /\ row \in Users
    /\ OnlyUsers(d, answer.db)
    /\ Edits(d.users, answer.db.users, u, row)

PutsUser(answer, d, u, row) == answer = Ok([d EXCEPT !.users = [@ EXCEPT ![u] = row]])

\* A repository call that puts a row in place of a user's changes no other row.
LEMMA SettingUser ==
    ASSUME NEW d \in Database, NEW u \in DOMAIN d.users, NEW row \in Users, NEW answer,
           PutsUser(answer, d, u, row)
    PROVE  SetsUser(answer, d, u, row)
<1>1. d.users \in Seq(Users)
  BY TableTypes
<1>2. PICK new : new = [d.users EXCEPT ![u] = row] /\ answer.err = "ok" /\ answer.db = [d EXCEPT !.users = new]
  BY DEF PutsUser, Ok
<1>3. new \in Seq(Users) /\ Edits(d.users, new, u, row)
  BY <1>1, <1>2, Updating
<1>4. OnlyUsers(d, answer.db) /\ answer.db.users = new
  <2>1. \A x \in Seq(Users) : answer.db = [d EXCEPT !.users = x] => OnlyUsers(d, answer.db) /\ answer.db.users = x
    BY Replacing
  <2> QED BY <1>2, <1>3, <2>1
<1> QED BY <1>2, <1>3, <1>4 DEF SetsUser

\* The statement sets the row of one user.
LEMMA SettingByKey ==
    ASSUME NEW d \in Database, NEW u \in DOMAIN d.users, NEW row \in Users
    PROVE  PutsUser(Ok([d EXCEPT !.users = [i \in DOMAIN @ |-> IF i = u THEN row ELSE @[i]]]), d, u, row)
<1>1. d.users \in Seq(Users)
  BY TableTypes
<1>2. [i \in DOMAIN d.users |-> IF i = u THEN row ELSE d.users[i]] = [d.users EXCEPT ![u] = row]
  BY <1>1, Updating
<1> QED BY <1>2 DEF PutsUser

\* What the users table holds under a key is a user.
LEMMA UserRow ==
    ASSUME NEW d \in Database, NEW u \in DOMAIN d.users
    PROVE  d.users[u] \in Users
BY TableTypes

\* MarkEmailVerified sets one column of one user, in either backend.
LEMMA MarkEmailVerifiedSets ==
    ASSUME Wired, NEW u \in DOMAIN db.users
    PROVE  SetsUser(MarkEmailVerified(u), db, u, [db.users[u] EXCEPT !.verified = TRUE])
<1> DEFINE row == [db.users[u] EXCEPT !.verified = TRUE]
<1>1. row \in Users
  BY UserRow DEF Wired, Users
<1>2. CASE backend = "memory"
  BY <1>1, <1>2, SettingUser DEF Wired, PutsUser, MarkEmailVerified, Repo, Mem!MarkEmailVerified, Mem!Has, Mem!Ok, Ok
<1>3. CASE backend = "postgres"
  <2>1. MarkEmailVerified(u) = Ok([db EXCEPT !.users = [i \in DOMAIN @ |-> IF i = u THEN row ELSE @[i]]])
    BY <1>3 DEF MarkEmailVerified, Repo, Pg!MarkEmailVerified, Pg!Set, Pg!Ok, Ok
  <2> QED BY <1>1, <2>1, SettingUser, SettingByKey DEF Wired
<1> QED BY <1>2, <1>3 DEF Wired

\* UpdatePassword sets the hash of one user, in either backend.
LEMMA UpdatePasswordSets ==
    ASSUME Wired, NEW u \in DOMAIN db.users, NEW pw \in Nat
    PROVE  SetsUser(UpdatePassword(u, pw), db, u, [db.users[u] EXCEPT !.pw = pw])
<1> DEFINE row == [db.users[u] EXCEPT !.pw = pw]
<1>1. row \in Users
  BY UserRow DEF Wired, Users
<1>2. CASE backend = "memory"
  BY <1>1, <1>2, SettingUser DEF Wired, PutsUser, UpdatePassword, Repo, Mem!UpdatePassword, Mem!Has, Mem!Ok, Ok
<1>3. CASE backend = "postgres"
  <2>1. UpdatePassword(u, pw) = Ok([db EXCEPT !.users = [i \in DOMAIN @ |-> IF i = u THEN row ELSE @[i]]])
    BY <1>3 DEF UpdatePassword, Repo, Pg!UpdatePassword, Pg!UpdateUser, Pg!Affected, Pg!Set, Pg!Ok, Ok
  <2> QED BY <1>1, <2>1, SettingUser, SettingByKey DEF Wired
<1> QED BY <1>2, <1>3 DEF Wired

\* LockUser sets the status of one user, in either backend.
LEMMA LockUserSets ==
    ASSUME Wired, NEW u \in DOMAIN db.users
    PROVE  SetsUser(LockUser(u), db, u, [db.users[u] EXCEPT !.status = "locked"])
<1> DEFINE row == [db.users[u] EXCEPT !.status = "locked"]
<1>1. row \in Users
  BY UserRow DEF Wired, Users
<1>2. CASE backend = "memory"
  BY <1>1, <1>2, SettingUser DEF Wired, PutsUser, LockUser, Repo, Mem!LockUser, Mem!Has, Mem!Ok, Ok
<1>3. CASE backend = "postgres"
  <2>1. LockUser(u) = Ok([db EXCEPT !.users = [i \in DOMAIN @ |-> IF i = u THEN row ELSE @[i]]])
    BY <1>3 DEF LockUser, Repo, Pg!LockUser, Pg!UpdateUser, Pg!Affected, Pg!Set, Pg!Ok, Ok
  <2> QED BY <1>1, <2>1, SettingUser, SettingByKey DEF Wired
<1> QED BY <1>2, <1>3 DEF Wired

\* UnlockUser sets the status of one user and forgets the failures, in either
\* backend.
LEMMA UnlockUserSets ==
    ASSUME Wired, NEW u \in DOMAIN db.users
    PROVE  SetsUser(UnlockUser(u), db, u, [db.users[u] EXCEPT !.status = "active", !.fails = 0, !.age = 0])
<1> DEFINE row == [db.users[u] EXCEPT !.status = "active", !.fails = 0, !.age = 0]
<1>1. row \in Users
  BY UserRow DEF Wired, Users
<1>2. CASE backend = "memory"
  BY <1>1, <1>2, SettingUser DEF Wired, PutsUser, UnlockUser, Repo, Mem!UnlockUser, Mem!Has, Mem!Ok, Ok
<1>3. CASE backend = "postgres"
  <2>1. UnlockUser(u) = Ok([db EXCEPT !.users = [i \in DOMAIN @ |-> IF i = u THEN row ELSE @[i]]])
    BY <1>3 DEF UnlockUser, Repo, Pg!UnlockUser, Pg!UpdateUser, Pg!Affected, Pg!Set, Pg!Ok, Ok
  <2> QED BY <1>1, <2>1, SettingUser, SettingByKey DEF Wired
<1> QED BY <1>2, <1>3 DEF Wired

\* ResetFailedLogin forgets the failures of one user, in either backend.
LEMMA ResetFailedLoginSets ==
    ASSUME Wired, NEW u \in DOMAIN db.users
    PROVE  SetsUser(ResetFailedLogin(u), db, u, [db.users[u] EXCEPT !.fails = 0, !.age = 0])
<1> DEFINE row == [db.users[u] EXCEPT !.fails = 0, !.age = 0]
<1>1. row \in Users
  BY UserRow DEF Wired, Users
<1>2. CASE backend = "memory"
  BY <1>1, <1>2, SettingUser DEF Wired, PutsUser, ResetFailedLogin, Repo, Mem!ResetFailedLogin, Mem!Has, Mem!Ok, Ok
<1>3. CASE backend = "postgres"
  <2>1. ResetFailedLogin(u) = Ok([db EXCEPT !.users = [i \in DOMAIN @ |-> IF i = u THEN row ELSE @[i]]])
    BY <1>3 DEF ResetFailedLogin, Repo, Pg!ResetFailedLogin, Pg!Set, Pg!Ok, Ok
  <2> QED BY <1>1, <2>1, SettingUser, SettingByKey DEF Wired
<1> QED BY <1>2, <1>3 DEF Wired

\* SetTourCompleted sets one column of one user, in either backend.
LEMMA SetTourCompletedSets ==
    ASSUME Wired, NEW u \in DOMAIN db.users, NEW done \in BOOLEAN
    PROVE  SetsUser(SetTourCompleted(u, done), db, u, [db.users[u] EXCEPT !.tour = done])
<1> DEFINE row == [db.users[u] EXCEPT !.tour = done]
<1>1. row \in Users
  BY UserRow DEF Wired, Users
<1>2. CASE backend = "memory"
  BY <1>1, <1>2, SettingUser DEF Wired, PutsUser, SetTourCompleted, Repo, Mem!SetTourCompleted, Mem!Has, Mem!Ok, Ok
<1>3. CASE backend = "postgres"
  <2>1. SetTourCompleted(u, done) = Ok([db EXCEPT !.users = [i \in DOMAIN @ |-> IF i = u THEN row ELSE @[i]]])
    BY <1>3 DEF SetTourCompleted, Repo, Pg!SetTourCompleted, Pg!UpdateUser, Pg!Affected, Pg!Set, Pg!Ok, Ok
  <2> QED BY <1>1, <2>1, SettingUser, SettingByKey DEF Wired
<1> QED BY <1>2, <1>3 DEF Wired

\* PseudonymiseUser puts a stub in place of one user's address and leaves no
\* password.
LEMMA PseudonymiseUserSets ==
    ASSUME Wired, NEW u \in DOMAIN db.users
    PROVE  SetsUser(PseudonymiseUser(u), db, u, [db.users[u] EXCEPT !.email = StubEmail(u), !.pw = NoPassword, !.status = "deleted"])
<1> DEFINE row == [db.users[u] EXCEPT !.email = StubEmail(u), !.pw = NoPassword, !.status = "deleted"]
<1>1. row \in Users
  <2>1. u \in Nat /\ db.users[u] \in Users
    BY UserRow, TableDomains DEF Wired
  <2>2. StubEmail(u) \in Int /\ NoPassword \in Nat
    BY <2>1 DEF StubEmail, NoPassword
  <2> QED BY <2>1, <2>2 DEF Users
<1>2. CASE backend = "memory"
  BY <1>1, <1>2, SettingUser DEF Wired, PutsUser, PseudonymiseUser, Repo, Mem!PseudonymiseUser, Mem!Has, Mem!StubEmail, Mem!NoPassword, Mem!Ok, Ok, StubEmail, NoPassword
<1>3. CASE backend = "postgres"
  <2>1. PseudonymiseUser(u) = Ok([db EXCEPT !.users = [i \in DOMAIN @ |-> IF i = u THEN row ELSE @[i]]])
    BY <1>3 DEF PseudonymiseUser, Repo, Pg!PseudonymiseUser, Pg!UpdateUser, Pg!Affected, Pg!Set, Pg!StubEmail, Pg!NoPassword, Pg!Ok, Ok, StubEmail, NoPassword
  <2> QED BY <1>1, <2>1, SettingUser, SettingByKey DEF Wired
<1> QED BY <1>2, <1>3 DEF Wired

\* Counting a failed login changes the count of the user, if anything.
LEMMA RecordFailedLoginSets ==
    ASSUME Wired, NEW u \in DOMAIN db.users
    PROVE  \E n, a \in Nat : SetsUser(RecordFailedLogin(u), db, u, [db.users[u] EXCEPT !.fails = n, !.age = a])
<1> DEFINE late == IF backend = "memory" THEN 1 ELSE 2
           anew == db.users[u].fails = 0 \/ db.users[u].age >= late
           n == IF anew THEN 1 ELSE db.users[u].fails + 1
           a == IF anew THEN 0 ELSE db.users[u].age
           row == [db.users[u] EXCEPT !.fails = n, !.age = a]
<1>0. db.users[u] \in Users
  BY UserRow DEF Wired
<1>1. n \in Nat /\ a \in Nat
  BY <1>0 DEF Users
<1>2. row \in Users
  <2> HIDE DEF n, a
  <2> QED BY <1>0, <1>1 DEF Users
<1>3. CASE backend = "memory"
  <2>1. CASE anew
    <3>1. RecordFailedLogin(u) = Ok([db EXCEPT !.users[u].fails = 1, !.users[u].age = 0])
      BY <1>3, <2>1 DEF RecordFailedLogin, Repo, Mem!RecordFailedLogin, Mem!Has, Mem!Ok, Ok
    <3>2. row = [db.users[u] EXCEPT !.fails = 1, !.age = 0]
      BY <2>1
    <3>3. PutsUser(RecordFailedLogin(u), db, u, row)
      <4> HIDE DEF row
      <4> QED BY <3>1, <3>2 DEF PutsUser, Ok
    <3> QED BY <1>1, <1>2, <3>3, SettingUser DEF Wired
  <2>2. CASE ~anew
    <3>1. RecordFailedLogin(u) = Ok([db EXCEPT !.users[u].fails = @ + 1])
      BY <1>3, <2>2 DEF RecordFailedLogin, Repo, Mem!RecordFailedLogin, Mem!Has, Mem!Ok, Ok
    <3>2. row = [db.users[u] EXCEPT !.fails = @ + 1]
      BY <1>0, <2>2 DEF Users
    <3>3. PutsUser(RecordFailedLogin(u), db, u, row)
      <4> HIDE DEF row
      <4> QED BY <3>1, <3>2 DEF PutsUser, Ok
    <3> QED BY <1>1, <1>2, <3>3, SettingUser DEF Wired
  <2> QED BY <2>1, <2>2
<1>4. CASE backend = "postgres"
  <2>1. row = IF db.users[u].fails = 0 \/ db.users[u].age >= 2
                THEN [db.users[u] EXCEPT !.fails = 1, !.age = 0]
                ELSE [db.users[u] EXCEPT !.fails = @ + 1]
    BY <1>0, <1>4 DEF Users
  <2> HIDE DEF row
  <2>2. RecordFailedLogin(u) = Ok([db EXCEPT !.users = [i \in DOMAIN @ |-> IF i = u THEN row ELSE @[i]]])
    BY <1>4, <2>1 DEF RecordFailedLogin, Repo, Pg!RecordFailedLogin, Pg!UpdateUser, Pg!Affected, Pg!Set, Pg!Ok, Ok
  <2>3. SetsUser(RecordFailedLogin(u), db, u, row)
    BY <1>2, <2>2, SettingUser, SettingByKey DEF Wired
  <2> QED BY <1>1, <1>2, <2>3 DEF row
<1> QED BY <1>3, <1>4 DEF Wired

\* A profile holds nothing that is modelled: the tables stay.
LEMMA UpdateProfileKeeps ==
    ASSUME Wired, NEW u \in DOMAIN db.users
    PROVE  UpdateProfile(u).db = db
<1>1. [db EXCEPT !.users = [i \in DOMAIN @ |-> IF i = u THEN @[i] ELSE @[i]]] = db
  <2>1. db.users \in Seq(Users)
    BY TableTypes DEF Wired
  <2>2. [i \in DOMAIN db.users |-> IF i = u THEN db.users[i] ELSE db.users[i]] = db.users
    BY <2>1
  <2> QED BY <2>2 DEF Wired, Database
<1> QED BY <1>1 DEF Wired, UpdateProfile, Repo, Mem!UpdateProfile, Mem!Has, Mem!Ok,
                    Pg!UpdateProfile, Pg!UpdateUser, Pg!Affected, Pg!Set, Pg!Ok

\* answer has one more row.
LEMMA CreateUserAdds ==
    ASSUME Wired, NEW u, u.email \in Int, u.pw \in Nat, u.verified \in BOOLEAN, CreateUser(u).err = "ok"
    PROVE  \E v \in BOOLEAN :
             LET row == [email |-> u.email, pw |-> u.pw, status |-> "active", verified |-> v,
                         tour |-> FALSE, fails |-> 0, age |-> 0]
             IN  OnlyUsers(db, CreateUser(u).db) /\ Adds(db.users, CreateUser(u).db.users, row)
<1> DEFINE Row(v) == [email |-> u.email, pw |-> u.pw, status |-> "active", verified |-> v,
                      tour |-> FALSE, fails |-> 0, age |-> 0]
<1>1. \A v \in BOOLEAN : Row(v) \in Users
  BY DEF Users
<1>2. PICK v \in BOOLEAN : CreateUser(u).db = [db EXCEPT !.users = Append(@, Row(v))]
  BY DEF Wired, CreateUser, Repo, Mem!CreateUser, Mem!Ok, Mem!Fails, Pg!CreateUser, Pg!Ok, Pg!Fails
<1> HIDE DEF Row
<1> QED BY <1>1, <1>2, Adding DEF Wired, Row

\* A user that was not created leaves nothing behind.
LEMMA CreateUserFails ==
    ASSUME Wired, NEW u, CreateUser(u).err # "ok"
    PROVE  CreateUser(u).db = db
BY DEF Wired, CreateUser, Repo, Mem!CreateUser, Mem!Ok, Mem!Fails, Pg!CreateUser, Pg!Ok, Pg!Fails

\* CreateTenant adds one row, or fails and leaves the tables alone.
LEMMA CreateTenantAdds ==
    ASSUME Wired, NEW slug \in STRING
    PROVE  \/ /\ CreateTenant(slug).err = "ok" /\ OnlyTenants(db, CreateTenant(slug).db)
              /\ Adds(db.tenants, CreateTenant(slug).db.tenants, slug)
           \/ CreateTenant(slug).err # "ok" /\ CreateTenant(slug).db = db
BY Adding DEF Wired, CreateTenant, Repo, Mem!CreateTenant, Mem!Ok, Mem!Fails, Pg!CreateTenant, Pg!Ok, Pg!Fails

\* CreateMembership adds one row, or fails and leaves the tables alone.
LEMMA CreateMembershipAdds ==
    ASSUME Wired, NEW m \in Members
    PROVE  \/ /\ CreateMembership(m).err = "ok" /\ OnlyMembers(db, CreateMembership(m).db)
              /\ Adds(db.members, CreateMembership(m).db.members, m)
           \/ CreateMembership(m).err # "ok" /\ CreateMembership(m).db = db
BY Adding DEF Wired, CreateMembership, Repo, Mem!CreateMembership, Mem!Ok, Pg!CreateMembership, Pg!Ok, Pg!Fails

\* A set of natural numbers that is not empty has a least one.
LEMMA LeastNatural ==
    ASSUME NEW T, T \subseteq Nat, T # {}
    PROVE  \E m \in T : \A n \in T : m <= n
<1> DEFINE Less == {pair \in Nat \X Nat : pair[1] < pair[2]}
<1>1. IsWellFoundedOn(Less, Nat)
  BY NatLessThanWellFounded, Zenon DEF OpToRel
<1>2. PICK m \in T : \A n \in T : ~(<<n, m>> \in Less)
  BY <1>1, WFMin
<1>3. ASSUME NEW n \in T PROVE m <= n
  <2>1. ~(<<n, m>> \in Less)
    BY <1>2
  <2>2. n \in Nat /\ m \in Nat
    OBVIOUS
  <2> QED BY <2>1, <2>2
<1> QED BY <1>3

\* There is a row for the memory repository to take.
LEMMA FirstIsThere ==
    ASSUME Wired, NEW t, NEW u, Mem!MembershipsAt(db, t, u) # {}
    PROVE  /\ Mem!First(Mem!MembershipsAt(db, t, u)) # {}
           /\ Mem!First(Mem!MembershipsAt(db, t, u)) \subseteq DOMAIN db.members
<1>1. Mem!MembershipsAt(db, t, u) \subseteq Nat
  BY TableDomains DEF Wired, Mem!MembershipsAt
<1>2. \E i \in Mem!MembershipsAt(db, t, u) : \A j \in Mem!MembershipsAt(db, t, u) : i <= j
  BY <1>1, LeastNatural
<1> QED BY <1>2 DEF Mem!First, Mem!MembershipsAt

\* Memberships lose a row, or have their roles changed; who is where stays.
MembersAmong(d, e) ==
    \A i \in DOMAIN e.members : \E j \in DOMAIN d.members :
        e.members[i].tenant = d.members[j].tenant /\ e.members[i].user = d.members[j].user

\* A table without its k-th row.
LEMMA Cutting ==
    ASSUME NEW S, NEW table \in Seq(S), NEW k \in DOMAIN table
    PROVE  /\ SubSeq(table, 1, k - 1) \o SubSeq(table, k + 1, Len(table)) \in Seq(S)
           /\ \A i \in DOMAIN (SubSeq(table, 1, k - 1) \o SubSeq(table, k + 1, Len(table))) :
                 \E j \in DOMAIN table : (SubSeq(table, 1, k - 1) \o SubSeq(table, k + 1, Len(table)))[i] = table[j]
<1>1. k \in 1..Len(table) /\ Len(table) \in Nat /\ DOMAIN table = 1..Len(table) /\ \A i \in 1..Len(table) : table[i] \in S
  OBVIOUS
<1>2. PICK a : a = SubSeq(table, 1, k - 1)
  OBVIOUS
<1>3. PICK b : b = SubSeq(table, k + 1, Len(table))
  OBVIOUS
<1>4. /\ a \in Seq(S) /\ Len(a) = k - 1
      /\ \A i \in 1..(k - 1) : \E j \in DOMAIN table : a[i] = table[j]
  BY <1>1, <1>2, SubSeqProperties
<1>5. /\ b \in Seq(S) /\ Len(b) = Len(table) - k
      /\ \A i \in 1..(Len(table) - k) : \E j \in DOMAIN table : b[i] = table[j]
  <2>1. \A i \in (k + 1)..Len(table) : table[i] \in S
    BY <1>1
  <2>2. /\ b \in Seq(S) /\ Len(b) = IF k + 1 <= Len(table) THEN Len(table) - (k + 1) + 1 ELSE 0
        /\ \A i \in 1..(Len(table) - (k + 1) + 1) : b[i] = table[(k + 1) + i - 1]
    BY <1>1, <1>3, <2>1, SubSeqProperties
  <2>3. \A i \in 1..(Len(table) - k) : (k + 1) + i - 1 \in DOMAIN table /\ i \in 1..(Len(table) - (k + 1) + 1)
    BY <1>1
  <2> QED BY <1>1, <2>2, <2>3
<1>6. /\ a \o b \in Seq(S) /\ Len(a \o b) = Len(a) + Len(b)
      /\ \A i \in 1..(Len(a) + Len(b)) : (a \o b)[i] = IF i <= Len(a) THEN a[i] ELSE b[i - Len(a)]
  BY <1>4, <1>5, ConcatProperties
<1>7. ASSUME NEW i \in DOMAIN (a \o b) PROVE \E j \in DOMAIN table : (a \o b)[i] = table[j]
  <2>1. i \in 1..(Len(a) + Len(b)) /\ Len(a) \in Nat /\ Len(b) \in Nat
    BY <1>4, <1>5, <1>6
  <2>2. CASE i <= Len(a)
    BY <1>1, <1>4, <1>6, <2>1, <2>2
  <2>3. CASE ~(i <= Len(a))
    <3>1. i - Len(a) \in 1..(Len(table) - k)
      BY <1>1, <1>4, <1>5, <2>1, <2>3
    <3> QED BY <1>5, <1>6, <2>1, <2>3, <3>1
  <2> QED BY <2>2, <2>3
<1> QED BY <1>2, <1>3, <1>6, <1>7

\* DeleteMembership touches the memberships only, and those that remain were
\* there.
LEMMA DeleteMembershipRemoves ==
    ASSUME Wired, NEW t, NEW u
    PROVE  \/ OnlyMembers(db, DeleteMembership(t, u).db) /\ MembersAmong(db, DeleteMembership(t, u).db)
           \/ DeleteMembership(t, u).db = db
<1>1. ASSUME NEW k \in DOMAIN db.members
      PROVE  LET e == [db EXCEPT !.members = SubSeq(@, 1, k - 1) \o SubSeq(@, k + 1, Len(@))]
             IN  OnlyMembers(db, e) /\ MembersAmong(db, e)
  <2>1. PICK new : new = SubSeq(db.members, 1, k - 1) \o SubSeq(db.members, k + 1, Len(db.members))
    OBVIOUS
  <2>2. new \in Seq(Members) /\ \A i \in DOMAIN new : \E j \in DOMAIN db.members : new[i] = db.members[j]
    BY <2>1, Cutting, TableTypes DEF Wired
  <2>3. OnlyMembers(db, [db EXCEPT !.members = new]) /\ [db EXCEPT !.members = new].members = new
    BY <2>2, Replacing DEF Wired
  <2>4. PICK e : e = [db EXCEPT !.members = new]
    OBVIOUS
  <2>5. OnlyMembers(db, e) /\ MembersAmong(db, e)
    BY <2>2, <2>3, <2>4 DEF MembersAmong
  <2> QED BY <2>1, <2>4, <2>5
<1>2. CASE backend = "memory"
  <2>1. CASE Mem!MembershipsAt(db, t, u) = {}
    BY <1>2, <2>1 DEF DeleteMembership, Repo, Mem!DeleteMembership, Mem!Fails
  <2>2. CASE Mem!MembershipsAt(db, t, u) # {}
    <3>1. PICK k : k = CHOOSE i \in Mem!First(Mem!MembershipsAt(db, t, u)) : TRUE
      OBVIOUS
    <3>2. k \in DOMAIN db.members
      BY <2>2, <3>1, FirstIsThere
    <3>3. DeleteMembership(t, u).db = [db EXCEPT !.members = SubSeq(@, 1, k - 1) \o SubSeq(@, k + 1, Len(@))]
      BY <1>2, <2>2, <3>1 DEF DeleteMembership, Repo, Mem!DeleteMembership, Mem!Ok
    <3> QED BY <1>1, <3>2, <3>3
  <2> QED BY <2>1, <2>2
<1>3. CASE backend = "postgres"
  <2>1. CASE \E j \in DOMAIN db.members : db.members[j].tenant = t /\ db.members[j].user = u
    <3>1. PICK k : k = CHOOSE i \in DOMAIN db.members : db.members[i].tenant = t /\ db.members[i].user = u
      OBVIOUS
    <3>2. k \in DOMAIN db.members
      BY <2>1, <3>1
    <3>3. DeleteMembership(t, u).db = [db EXCEPT !.members = SubSeq(@, 1, k - 1) \o SubSeq(@, k + 1, Len(@))]
      BY <1>3, <2>1, <3>1 DEF DeleteMembership, Repo, Pg!DeleteMembership, Pg!Ok
    <3> QED BY <1>1, <3>2, <3>3
  <2>2. CASE ~(\E j \in DOMAIN db.members : db.members[j].tenant = t /\ db.members[j].user = u)
    BY <1>3, <2>2 DEF DeleteMembership, Repo, Pg!DeleteMembership, Pg!Fails
  <2> QED BY <2>1, <2>2
<1> QED BY <1>2, <1>3 DEF Wired

\* UpdateMembershipRoles touches the memberships only, and each stays that of
\* its user in its tenant.
LEMMA UpdateMembershipRolesEdits ==
    ASSUME Wired, NEW t, NEW u, NEW roles \in SUBSET Roles
    PROVE  \/ OnlyMembers(db, UpdateMembershipRoles(t, u, roles).db) /\ MembersAmong(db, UpdateMembershipRoles(t, u, roles).db)
           \/ UpdateMembershipRoles(t, u, roles).db = db
<1> DEFINE table == db.members
           Row(i) == [table[i] EXCEPT !.roles = roles]
           New(S) == [i \in DOMAIN table |-> IF i \in S THEN Row(i) ELSE table[i]]
<1>0. table \in Seq(Members)
  BY TableTypes DEF Wired
<1>1. ASSUME NEW S PROVE /\ New(S) \in Seq(Members)
                         /\ \A i \in DOMAIN table : New(S)[i].tenant = table[i].tenant /\ New(S)[i].user = table[i].user
                         /\ DOMAIN New(S) = DOMAIN table
  <2>1. \A i \in DOMAIN table : Row(i) \in Members /\ Row(i).tenant = table[i].tenant /\ Row(i).user = table[i].user
    <3> SUFFICES ASSUME NEW i \in DOMAIN table
                 PROVE  Row(i) \in Members /\ Row(i).tenant = table[i].tenant /\ Row(i).user = table[i].user
      OBVIOUS
    <3>1. table[i] \in Members
      BY <1>0
    <3> QED BY <3>1 DEF Members
  <2> HIDE DEF Row
  <2> QED BY <1>0, <2>1
<1>2. ASSUME NEW S, NEW e, e = [db EXCEPT !.members = New(S)]
      PROVE  OnlyMembers(db, e) /\ MembersAmong(db, e)
  <2>1. PICK new : new = New(S)
    OBVIOUS
  <2>2. OnlyMembers(db, e) /\ e.members = new
    <3> HIDE DEF New
    <3> QED BY <1>1, <1>2, <2>1, Replacing DEF Wired
  <2> QED BY <1>1, <2>1, <2>2 DEF MembersAmong
<1>3. CASE backend = "memory"
  <2>1. CASE Mem!MembershipsAt(db, t, u) = {}
    BY <1>3, <2>1 DEF UpdateMembershipRoles, Repo, Mem!UpdateMembershipRoles, Mem!Fails
  <2>2. CASE Mem!MembershipsAt(db, t, u) # {}
    <3>1. PICK i : i = CHOOSE x \in Mem!First(Mem!MembershipsAt(db, t, u)) : TRUE
      OBVIOUS
    <3>2. UpdateMembershipRoles(t, u, roles).db = [db EXCEPT !.members = [@ EXCEPT ![i] = Row(i)]]
      BY <1>3, <2>2, <3>1 DEF UpdateMembershipRoles, Repo, Mem!UpdateMembershipRoles, Mem!Ok
    <3>3. i \in DOMAIN table
      BY <2>2, <3>1, FirstIsThere
    <3>4. [table EXCEPT ![i] = Row(i)] = New({i})
      BY <1>0, <3>3
    <3>5. UpdateMembershipRoles(t, u, roles).db = [db EXCEPT !.members = New({i})]
      BY <3>2, <3>4
    <3> QED BY <1>2, <3>5
  <2> QED BY <2>1, <2>2
<1>4. CASE backend = "postgres"
  <2> DEFINE S == {i \in DOMAIN table : table[i].tenant = t /\ table[i].user = u}
  <2>1. New(S) = [i \in DOMAIN table |-> IF table[i].tenant = t /\ table[i].user = u THEN Row(i) ELSE table[i]]
    OBVIOUS
  <2>2. \/ UpdateMembershipRoles(t, u, roles).db = db
        \/ UpdateMembershipRoles(t, u, roles).db =
             [db EXCEPT !.members = [i \in DOMAIN @ |-> IF table[i].tenant = t /\ table[i].user = u THEN Row(i) ELSE @[i]]]
    BY <1>4 DEF UpdateMembershipRoles, Repo, Pg!UpdateMembershipRoles, Pg!Affected, Pg!Set, Pg!Ok, Pg!Fails
  <2> HIDE DEF S
  <2> QED BY <1>2, <2>1, <2>2, ZenonT(40)
<1> QED BY <1>3, <1>4 DEF Wired

\* CreateSession adds one live session.
LEMMA CreateSessionAdds ==
    ASSUME Wired, NEW d \in Database, NEW u \in Nat, NEW t \in Nat
    PROVE  /\ OnlySessions(d, CreateSession(d, u, t).db)
           /\ Adds(d.sessions, CreateSession(d, u, t).db.sessions, [user |-> u, tenant |-> t, revoked |-> FALSE, expired |-> FALSE])
<1> DEFINE row == [user |-> u, tenant |-> t, revoked |-> FALSE, expired |-> FALSE]
<1>1. row \in Sessions
  BY DEF Sessions
<1>2. CreateSession(d, u, t).db = [d EXCEPT !.sessions = Append(@, row)]
  BY DEF Wired, CreateSession, Repo, Mem!CreateSession, Mem!Ok, Pg!CreateSession, Pg!Ok
<1> HIDE DEF row
<1>3. OnlySessions(d, CreateSession(d, u, t).db) /\ Adds(d.sessions, CreateSession(d, u, t).db.sessions, row)
  BY <1>1, <1>2, Adding
<1> QED BY <1>3 DEF row

\* The sessions in S are revoked, the others stay as they are.
Revokes(d, e, S) ==
    /\ OnlySessions(d, e)
    /\ DOMAIN e.sessions = DOMAIN d.sessions /\ Len(e.sessions) = Len(d.sessions)
    /\ \A s \in DOMAIN d.sessions :
          /\ e.sessions[s].user = d.sessions[s].user /\ e.sessions[s].tenant = d.sessions[s].tenant
          /\ e.sessions[s].revoked = (d.sessions[s].revoked \/ s \in S)

\* Sessions of a set are revoked: no other session and no other table changes.
LEMMA Revoking ==
    ASSUME NEW d \in Database, NEW S
    PROVE  Revokes(d, [d EXCEPT !.sessions = [s \in DOMAIN @ |-> IF s \in S THEN [@[s] EXCEPT !.revoked = TRUE] ELSE @[s]]], S)
<1> DEFINE Row(s) == IF s \in S THEN [d.sessions[s] EXCEPT !.revoked = TRUE] ELSE d.sessions[s]
<1>0. d.sessions \in Seq(Sessions)
  BY TableTypes
<1>1. ASSUME NEW s \in DOMAIN d.sessions
      PROVE  /\ Row(s) \in Sessions
             /\ Row(s).user = d.sessions[s].user /\ Row(s).tenant = d.sessions[s].tenant
             /\ Row(s).revoked = (d.sessions[s].revoked \/ s \in S)
  <2>1. d.sessions[s] \in Sessions
    BY <1>0
  <2> QED BY <2>1 DEF Sessions
<1>2. PICK new : new = [s \in DOMAIN d.sessions |-> Row(s)]
  OBVIOUS
<1> HIDE DEF Row
<1>3. new \in Seq(Sessions) /\ DOMAIN new = DOMAIN d.sessions /\ Len(new) = Len(d.sessions)
  BY <1>0, <1>1, <1>2
<1>4. PICK e : e = [d EXCEPT !.sessions = new]
  OBVIOUS
<1>5. OnlySessions(d, e) /\ e.sessions = new
  BY <1>3, <1>4, Replacing
<1>6. Revokes(d, e, S)
  BY <1>1, <1>2, <1>3, <1>5 DEF Revokes
<1> QED BY <1>2, <1>4, <1>6 DEF Row

\* RevokeSession revokes one session, in either backend.
LEMMA RevokeSessionRevokes ==
    ASSUME Wired, NEW s \in DOMAIN db.sessions
    PROVE  Revokes(db, RevokeSession(s).db, {s})
<1> DEFINE new == [i \in DOMAIN db.sessions |-> IF i \in {s} THEN [db.sessions[i] EXCEPT !.revoked = TRUE] ELSE db.sessions[i]]
<1>0. db.sessions \in Seq(Sessions)
  BY TableTypes DEF Wired
<1>1. CASE backend = "memory"
  <2>1. PICK row : row = [db.sessions[s] EXCEPT !.revoked = TRUE]
    OBVIOUS
  <2>2. RevokeSession(s) = Ok([db EXCEPT !.sessions = [@ EXCEPT ![s] = row]])
    BY <1>1, <2>1 DEF RevokeSession, Repo, Mem!RevokeSession, Mem!Has, Mem!Ok, Ok
  <2>3. [db.sessions EXCEPT ![s] = row] = new
    BY <1>0, <2>1
  <2>4. RevokeSession(s).db = [db EXCEPT !.sessions = new]
    <3> HIDE DEF new
    <3> QED BY <2>2, <2>3 DEF Ok
  <2> QED BY <2>4, Revoking DEF Wired
<1>2. CASE backend = "postgres"
  <2>1. RevokeSession(s).db = [db EXCEPT !.sessions = [i \in DOMAIN @ |-> IF i = s THEN [@[i] EXCEPT !.revoked = TRUE] ELSE @[i]]]
    BY <1>2 DEF RevokeSession, Repo, Pg!RevokeSession, Pg!Set, Pg!Ok
  <2>2. RevokeSession(s).db = [db EXCEPT !.sessions = new]
    BY <2>1
  <2> QED BY <2>2, Revoking DEF Wired
<1> QED BY <1>1, <1>2 DEF Wired

\* RevokeAllSessionsForUser revokes the sessions of that user and no others, in
\* either backend.
LEMMA RevokeAllRevokes ==
    ASSUME Wired, NEW u
    PROVE  Revokes(db, RevokeAllSessionsForUser(u).db, {s \in DOMAIN db.sessions : db.sessions[s].user = u})
<1> DEFINE S == {s \in DOMAIN db.sessions : db.sessions[s].user = u}
           new == [s \in DOMAIN db.sessions |-> IF s \in S THEN [db.sessions[s] EXCEPT !.revoked = TRUE] ELSE db.sessions[s]]
<1>1. new = [s \in DOMAIN db.sessions |-> IF db.sessions[s].user = u THEN [db.sessions[s] EXCEPT !.revoked = TRUE] ELSE db.sessions[s]]
  OBVIOUS
<1>2. RevokeAllSessionsForUser(u).db = [db EXCEPT !.sessions = new]
  BY <1>1 DEF Wired, RevokeAllSessionsForUser, Repo, Mem!RevokeAllSessionsForUser, Mem!Ok,
              Pg!RevokeAllSessionsForUser, Pg!Set, Pg!Ok
<1> QED BY <1>2, Revoking DEF Wired

\* CreateVerification adds one token that nobody used.
LEMMA CreateVerificationAdds ==
    ASSUME Wired, NEW u \in Nat, NEW purpose \in {"verify_email", "password_reset"}
    PROVE  /\ CreateVerification(db, u, purpose).err = "ok"
           /\ OnlyVerifs(db, CreateVerification(db, u, purpose).db)
           /\ Adds(db.verifs, CreateVerification(db, u, purpose).db.verifs,
                   [user |-> u, purpose |-> purpose, used |-> FALSE, expired |-> FALSE])
<1> DEFINE row == [user |-> u, purpose |-> purpose, used |-> FALSE, expired |-> FALSE]
<1>1. row \in Verifications
  BY DEF Verifications
<1>2. CreateVerification(db, u, purpose) = Ok([db EXCEPT !.verifs = Append(@, row)])
  BY DEF Wired, CreateVerification, Repo, Mem!CreateVerification, Mem!Ok, Pg!CreateVerification, Pg!Ok, Ok
<1> HIDE DEF row
<1>3. PICK e : e = [db EXCEPT !.verifs = Append(@, row)]
  OBVIOUS
<1>4. OnlyVerifs(db, e) /\ Adds(db.verifs, e.verifs, row)
  BY <1>1, <1>3, Adding DEF Wired
<1>5. CreateVerification(db, u, purpose).err = "ok" /\ CreateVerification(db, u, purpose).db = e
  BY <1>2, <1>3 DEF Ok
<1> QED BY <1>4, <1>5 DEF row

\* MarkUsed uses a token, and fails only for one that was used before.
LEMMA MarkUsedUses ==
    ASSUME Wired, NEW d \in Database, NEW v \in DOMAIN d.verifs
    PROVE  \/ /\ MarkUsed(d, v).err = "ok" /\ OnlyVerifs(d, MarkUsed(d, v).db)
              /\ Edits(d.verifs, MarkUsed(d, v).db.verifs, v, [d.verifs[v] EXCEPT !.used = TRUE])
           \/ MarkUsed(d, v).err # "ok" /\ MarkUsed(d, v).db = d /\ d.verifs[v].used
<1> DEFINE row == [d.verifs[v] EXCEPT !.used = TRUE]
<1>0. d.verifs \in Seq(Verifications)
  BY TableTypes
<1>1. row \in Verifications
  <2>1. d.verifs[v] \in Verifications
    BY <1>0
  <2> QED BY <2>1 DEF Verifications
<1>2. CASE d.verifs[v].used
  <2>1. MarkUsed(d, v) = Fails("token_invalid", d)
    BY <1>2 DEF MarkUsed, Repo, Mem!MarkUsed, Pg!MarkUsed, Mem!Has, Mem!Fails, Pg!Fails, Fails
  <2> QED BY <1>2, <2>1 DEF Fails
<1>3. CASE ~d.verifs[v].used
  <2>2. MarkUsed(d, v) = Ok([d EXCEPT !.verifs = [@ EXCEPT ![v] = row]])
    BY <1>3 DEF Wired, MarkUsed, Repo, Mem!MarkUsed, Mem!Has, Mem!Ok, Pg!MarkUsed, Pg!Ok, Ok
  <2>3. PICK new : new = [d.verifs EXCEPT ![v] = row]
    OBVIOUS
  <2>4. MarkUsed(d, v) = Ok([d EXCEPT !.verifs = new])
    BY <2>2, <2>3
  <2> HIDE DEF row
  <2>5. new \in Seq(Verifications) /\ Edits(d.verifs, new, v, row)
    BY <1>0, <1>1, <2>3, Updating
  <2>6. PICK e : e = [d EXCEPT !.verifs = new]
    OBVIOUS
  <2>7. OnlyVerifs(d, e) /\ e.verifs = new
    BY <2>5, <2>6, Replacing
  <2>8. MarkUsed(d, v).err = "ok" /\ MarkUsed(d, v).db = e
    BY <2>4, <2>6 DEF Ok
  <2> QED BY <2>5, <2>7, <2>8 DEF row
<1> QED BY <1>2, <1>3


\* One row of the invitations is set.
SetsInvite(answer, d, i, row) ==
    /\ answer.err = "ok"
    /\ row \in Invites
    /\ OnlyInvites(d, answer.db)
    /\ Edits(d.invites, answer.db.invites, i, row)

PutsInvite(answer, d, i, row) == answer = Ok([d EXCEPT !.invites = [@ EXCEPT ![i] = row]])

\* A repository call that puts a row in place of an invite changes no other
\* row.
LEMMA SettingInvite ==
    ASSUME NEW d \in Database, NEW i \in DOMAIN d.invites, NEW row \in Invites, NEW answer,
           PutsInvite(answer, d, i, row)
    PROVE  SetsInvite(answer, d, i, row)
<1>1. d.invites \in Seq(Invites)
  BY TableTypes
<1>2. PICK new : new = [d.invites EXCEPT ![i] = row] /\ answer.err = "ok" /\ answer.db = [d EXCEPT !.invites = new]
  BY DEF PutsInvite, Ok
<1>3. new \in Seq(Invites) /\ Edits(d.invites, new, i, row)
  BY <1>1, <1>2, Updating
<1>4. OnlyInvites(d, answer.db) /\ answer.db.invites = new
  <2>1. \A x \in Seq(Invites) : answer.db = [d EXCEPT !.invites = x] => OnlyInvites(d, answer.db) /\ answer.db.invites = x
    BY Replacing
  <2> QED BY <1>2, <1>3, <2>1
<1> QED BY <1>2, <1>3, <1>4 DEF SetsInvite

\* CreateInvite adds one pending invite.
LEMMA CreateInviteAdds ==
    ASSUME Wired, NEW t \in Nat, NEW e \in Nat \ {0}, NEW roles \in SUBSET Roles
    PROVE  /\ CreateInvite(t, e, roles).err = "ok"
           /\ OnlyInvites(db, CreateInvite(t, e, roles).db)
           /\ Adds(db.invites, CreateInvite(t, e, roles).db.invites,
                   [tenant |-> t, email |-> e, roles |-> roles, accepted |-> FALSE, revoked |-> FALSE, expired |-> FALSE])
<1> DEFINE row == [tenant |-> t, email |-> e, roles |-> roles, accepted |-> FALSE, revoked |-> FALSE, expired |-> FALSE]
<1>1. row \in Invites
  BY DEF Invites
<1>2. CreateInvite(t, e, roles) = Ok([db EXCEPT !.invites = Append(@, row)])
  BY DEF Wired, CreateInvite, Repo, Mem!CreateInvite, Mem!Ok, Pg!CreateInvite, Pg!Ok, Ok
<1> HIDE DEF row
<1>3. PICK x : x = [db EXCEPT !.invites = Append(@, row)]
  OBVIOUS
<1>4. OnlyInvites(db, x) /\ Adds(db.invites, x.invites, row)
  BY <1>1, <1>3, Adding DEF Wired
<1>5. CreateInvite(t, e, roles).err = "ok" /\ CreateInvite(t, e, roles).db = x
  BY <1>2, <1>3 DEF Ok
<1> QED BY <1>4, <1>5 DEF row

\* RevokeInvite revokes one invite that nobody revoked, or leaves the tables
\* alone.
LEMMA RevokeInviteRevokes ==
    ASSUME Wired, NEW t, NEW i \in DOMAIN db.invites
    PROVE  \/ /\ SetsInvite(RevokeInvite(t, i), db, i, [db.invites[i] EXCEPT !.revoked = TRUE])
              /\ ~db.invites[i].revoked
           \/ /\ RevokeInvite(t, i).db = db
              /\ db.invites[i].tenant = t => ~IsPending(db.invites[i])
<1> DEFINE row == [db.invites[i] EXCEPT !.revoked = TRUE]
           open == db.invites[i].tenant = t /\ ~db.invites[i].accepted /\ ~db.invites[i].revoked
<1>0. row \in Invites
  <2>1. db.invites[i] \in Invites
    BY TableTypes DEF Wired
  <2> QED BY <2>1 DEF Invites
<1>1. CASE open
  <2>1. PutsInvite(RevokeInvite(t, i), db, i, row)
    BY <1>1 DEF Wired, PutsInvite, RevokeInvite, Repo, Mem!RevokeInvite, Pg!RevokeInvite, Mem!Has, Mem!Ok, Pg!Ok, Ok
  <2> HIDE DEF row
  <2>2. SetsInvite(RevokeInvite(t, i), db, i, row)
    BY <1>0, <2>1, SettingInvite DEF Wired
  <2> QED BY <1>1, <2>2 DEF row
<1>2. CASE ~open
  <2>1. RevokeInvite(t, i) = Fails("not_found", db)
    BY <1>2 DEF RevokeInvite, Repo, Mem!RevokeInvite, Pg!RevokeInvite, Mem!Has, Mem!Fails, Pg!Fails, Fails
  <2> QED BY <1>2, <2>1 DEF Fails, IsPending
<1> QED BY <1>1, <1>2

\* MarkInviteAccepted accepts one invite; where it leaves the tables alone, the
\* invite was over.
LEMMA MarkInviteAcceptedAccepts ==
    ASSUME Wired, NEW i \in DOMAIN db.invites
    PROVE  \/ SetsInvite(MarkInviteAccepted(i), db, i, [db.invites[i] EXCEPT !.accepted = TRUE])
           \/ /\ MarkInviteAccepted(i).db = db
              /\ db.invites[i].accepted \/ db.invites[i].revoked
<1> DEFINE row == [db.invites[i] EXCEPT !.accepted = TRUE]
           open == ~db.invites[i].accepted /\ ~db.invites[i].revoked
<1>0. row \in Invites
  <2>1. db.invites[i] \in Invites
    BY TableTypes DEF Wired
  <2> QED BY <2>1 DEF Invites
<1>1. CASE open
  <2>1. PutsInvite(MarkInviteAccepted(i), db, i, row)
    BY <1>1 DEF Wired, PutsInvite, MarkInviteAccepted, Repo, Mem!MarkInviteAccepted, Pg!MarkInviteAccepted,
                Mem!Has, Mem!Ok, Pg!Ok, Ok
  <2> HIDE DEF row
  <2>2. SetsInvite(MarkInviteAccepted(i), db, i, row)
    BY <1>0, <2>1, SettingInvite DEF Wired
  <2> QED BY <2>2 DEF row
<1>2. CASE ~open
  <2>1. MarkInviteAccepted(i) = Fails("token_invalid", db)
    BY <1>2 DEF MarkInviteAccepted, Repo, Mem!MarkInviteAccepted, Pg!MarkInviteAccepted, Mem!Has, Mem!Fails, Pg!Fails, Fails
  <2> QED BY <1>2, <2>1 DEF Fails
<1> QED BY <1>1, <1>2

(***************************************************************************)
(* What a step keeps                                                       *)
(***************************************************************************)

\* A call that speaks of rows that are there after the step.
Anchored(q) ==
    /\ q \in States
    /\ "user" \in DOMAIN q => q.user \in DOMAIN db'.users
    /\ "invite" \in DOMAIN q => q.invite \in DOMAIN db'.invites
    /\ "tenant" \in DOMAIN q => q.tenant \in DOMAIN db'.tenants
    /\ "token" \in DOMAIN q => q.token \in DOMAIN db'.verifs

\* No table loses a row, but that of the memberships.
Grows(d, e) ==
    /\ d \in Database /\ e \in Database /\ Linked(e)
    /\ DOMAIN d.tenants \subseteq DOMAIN e.tenants
    /\ DOMAIN d.users \subseteq DOMAIN e.users
    /\ DOMAIN d.sessions \subseteq DOMAIN e.sessions
    /\ DOMAIN d.verifs \subseteq DOMAIN e.verifs
    /\ DOMAIN d.invites \subseteq DOMAIN e.invites

Counted == backend' = backend /\ started' \in Nat /\ faults' \in Nat

\* Requests go on with calls that are served, or stay where they are.
Moving ==
    /\ req' \in [Requests -> States]
    /\ \A r \in Requests : req'[r] = req[r] \/ Anchored(req'[r])

Recorded ==
    /\ mintedBy' \in Seq([pw : Nat, raced : BOOLEAN, erased : BOOLEAN]) /\ Len(mintedBy') = Len(db'.sessions)
    /\ inviteAt' \in Seq(SUBSET Nat) /\ Len(inviteAt') = Len(db'.invites)
    /\ lapsed' \subseteq Nat
    /\ erased' \in [DOMAIN erased' -> BOOLEAN] /\ DOMAIN erased' \subseteq DOMAIN db'.users
    /\ joined' \subseteq Nat /\ crossed' \subseteq Nat /\ mailbox' \subseteq DOMAIN db'.verifs

\* A step in which tables only grow and the history is recorded keeps every
\* reference.
LEMMA GroundedStep ==
    ASSUME TypeOK, Grounded, Counted, Grows(db, db'), Moving, Recorded
    PROVE  TypeOK' /\ Grounded'
<1>1. mailbox' \subseteq Nat
  BY TableDomains DEF Grows, Recorded
<1>2. TypeOK'
  BY <1>1 DEF TypeOK, Counted, Grows, Moving, Recorded
<1>3. ASSUME NEW r \in Requests
      PROVE  /\ OfUser(r)' => req'[r].user \in DOMAIN db'.users
             /\ OfInvite(r)' => req'[r].invite \in DOMAIN db'.invites
             /\ OfTenant(r)' => req'[r].tenant \in DOMAIN db'.tenants
             /\ OfToken(r)' => req'[r].token \in DOMAIN db'.verifs
  <2>1. CASE req'[r] = req[r]
    BY <2>1 DEF Grounded, Grows, OfUser, OfInvite, OfTenant, OfToken
  <2>2. CASE Anchored(req'[r])
    BY <2>2 DEF Anchored, OfUser, OfInvite, OfTenant, OfToken
  <2> QED BY <2>1, <2>2 DEF Moving
<1> QED BY <1>2, <1>3 DEF Grounded, Grows, Recorded

\* The sessions, with their users and what minted them, stay; none is
\* reopened; nobody has a new password; and a request that is about to revoke
\* sessions is still about to.
SignInsQuiet ==
    /\ DOMAIN db'.sessions = DOMAIN db.sessions
    /\ \A s \in DOMAIN db.sessions :
          /\ db'.sessions[s].user = db.sessions[s].user
          /\ db.sessions[s].revoked => db'.sessions[s].revoked
    /\ mintedBy' = mintedBy
    /\ \A u \in DOMAIN db.users : db'.users[u].pw = db.users[u].pw
    /\ lapsed \subseteq lapsed'
    /\ \A r \in Requests : req[r].at \in {"mark used", "revoke sessions"} => req'[r] = req[r]

\* A step that leaves tokens, erasures and mailboxes alone cannot revive an old
\* password.
LEMMA SignInsStep ==
    ASSUME Grounded, OldPasswordEvicted, SignInsQuiet
    PROVE  OldPasswordEvicted'
<1>1. ASSUME NEW s \in DOMAIN db'.sessions, NEW u, u = db'.sessions[s].user,
             ~db'.sessions[s].revoked, mintedBy'[s].pw # db'.users[u].pw
      PROVE  mintedBy'[s].raced \/ u \in lapsed' \/ \E r \in Requests : req'[r].at \in {"mark used", "revoke sessions"} /\ req'[r].user = u
  <2>1. s \in DOMAIN db.sessions /\ u = db.sessions[s].user /\ ~db.sessions[s].revoked /\ u \in DOMAIN db.users
    BY <1>1 DEF Grounded, Linked, SignInsQuiet
  <2>2. mintedBy[s].pw # db.users[u].pw
    BY <1>1, <2>1 DEF SignInsQuiet
  <2>3. mintedBy[s].raced \/ u \in lapsed \/ \E r \in Requests : req[r].at \in {"mark used", "revoke sessions"} /\ req[r].user = u
    BY <2>1, <2>2 DEF OldPasswordEvicted
  <2> QED BY <2>3 DEF SignInsQuiet
<1> QED BY <1>1, ZenonT(40) DEF OldPasswordEvicted

\* Passwords stay strong where each is kept, removed or checked.
LEMMA PasswordsStep ==
    ASSUME PasswordsStrong,
           \A u \in DOMAIN db'.users :
              \/ u \in DOMAIN db.users /\ db'.users[u].pw = db.users[u].pw
              \/ db'.users[u].pw = NoPassword \/ ValidatePasswordStrength(db'.users[u].pw)
    PROVE  PasswordsStrong'
BY DEF PasswordsStrong

\* Something of an account was left when it was erased, if it was.
Live(u) == u \in DOMAIN erased => erased[u]

\* A call that finds its way to no session of an account that is gone.
Harmless(q) ==
    "user" \in DOMAIN q =>
        \/ Live(q.user)
        \/ q.at \in {"record failure", "lock user"}
        \/ q.at = "send reset" /\ q.email = StubEmail(q.user)
        \/ q.at = "revoke sessions" /\ q.then = "answer"

\* Accounts that are gone stay so.
ErasuresQuiet ==
    /\ erased' = erased
    /\ \A u \in DOMAIN erased : db'.users[u].email = db.users[u].email /\ (db'.users[u].pw = db.users[u].pw \/ erased[u])
    /\ \A v \in mailbox' :
          \/ /\ v \in mailbox /\ db'.verifs[v].user = db.verifs[v].user
             /\ db.verifs[v].used => db'.verifs[v].used
             /\ db.verifs[v].expired => db'.verifs[v].expired
          \/ Live(db'.verifs[v].user)
    /\ \A r \in Requests : req'[r] = req[r] \/ Harmless(req'[r])
    /\ \A s \in DOMAIN db'.sessions :
          \/ s \in DOMAIN db.sessions /\ db'.sessions[s].user = db.sessions[s].user /\ mintedBy'[s] = mintedBy[s]
          \/ mintedBy'[s].erased => db'.sessions[s].user \in DOMAIN erased /\ erased[db'.sessions[s].user]

\* What erasure promises survives a step that neither erases nor wakes an
\* erased account.
LEMMA ErasuresStep ==
    ASSUME TypeOK, Grounded, Stubbed, Erasures, Barred, ErasuresQuiet
    PROVE  Stubbed' /\ Erasures' /\ Barred'
<1>1. Stubbed'
  BY DEF Stubbed, ErasuresQuiet
<1>2. ASSUME NEW u \in DOMAIN erased, ~erased[u] PROVE Gone(u)'
  <2>1. Gone(u) /\ ~Live(u)
    BY <1>2 DEF Erasures, Live
  <2>2. db'.users[u].pw = NoPassword
    BY <1>2, <2>1 DEF Gone, ErasuresQuiet
  <2>3. ASSUME NEW v \in mailbox', db'.verifs[v].user = u PROVE db'.verifs[v].used \/ db'.verifs[v].expired
    BY <2>1, <2>3 DEF Gone, ErasuresQuiet
  <2>4. ASSUME NEW r \in Requests, OfUser(r)', req'[r].user = u
        PROVE  \/ req'[r].at \in {"record failure", "lock user"}
               \/ req'[r].at = "send reset" /\ req'[r].email = StubEmail(u)
               \/ req'[r].at = "revoke sessions" /\ req'[r].then = "answer"
    <3>1. CASE req'[r] = req[r]
      BY <2>1, <2>4, <3>1 DEF Gone, OfUser
    <3>2. CASE Harmless(req'[r])
      BY <2>1, <2>4, <3>2 DEF Harmless, OfUser
    <3> QED BY <3>1, <3>2 DEF ErasuresQuiet
  <2> QED BY <2>2, <2>3, <2>4 DEF Gone
<1>3. Erasures'
  BY <1>2 DEF Erasures, ErasuresQuiet
<1>4. Barred'
  BY DEF Barred, ErasuresQuiet
<1> QED BY <1>1, <1>3, <1>4

\* The calls of the handlers that invite and let accept.
InviteCalls == {"create invite", "resolve user", "attach member", "mark accepted"}

\* Nothing happens to invitations.
InvitesQuiet ==
    /\ db'.invites = db.invites /\ inviteAt' = inviteAt /\ joined' = joined
    /\ crossed \subseteq crossed'
    /\ \A r \in Requests :
          req'[r] = req[r] \/ (req'[r] \in States /\ req[r].at \notin InviteCalls /\ req'[r].at \notin InviteCalls)

\* Only those calls know an invitation.
LEMMA OfInviteCalls ==
    ASSUME NEW q \in States
    PROVE  "invite" \in DOMAIN q => q.at \in InviteCalls
<1>1. q = Idle => "invite" \notin DOMAIN q
  BY DEF Idle
<1>2. q \in [at : {"signup user"}, tenant : Nat, email : Emails, pw : Strong] => "invite" \notin DOMAIN q
  OBVIOUS
<1>3. q \in [at : {"signup member"}, tenant : Nat, user : Nat] => "invite" \notin DOMAIN q
  OBVIOUS
<1>4. q \in [at : {"send verification", "record failure", "lock user", "unlock user"}, user : Nat] => "invite" \notin DOMAIN q
  OBVIOUS
<1>5. q \in [at : {"mark verified", "mark used"}, user : Nat, token : Nat] => "invite" \notin DOMAIN q
  OBVIOUS
<1>6. q \in [at : {"mint session"}, user : Nat, pw : Passwords] => "invite" \notin DOMAIN q
  OBVIOUS
<1>7. q \in [at : {"send reset"}, user : Nat, email : Int] => "invite" \notin DOMAIN q
  OBVIOUS
<1>8. q \in [at : {"update password"}, user : Nat, pw : Strong, token : Nat] => "invite" \notin DOMAIN q
  OBVIOUS
<1>9. q \in [at : {"change password"}, user : Nat, pw : Strong] => "invite" \notin DOMAIN q
  OBVIOUS
<1>10. q \in [at : {"revoke sessions"}, user : Nat, then : {"unlock user", "answer"}] => "invite" \notin DOMAIN q
  OBVIOUS
<1>11. q \in [at : {"check member", "list invites"}, tenant : Nat, email : Emails, roles : SUBSET Roles] => "invite" \notin DOMAIN q
  OBVIOUS
<1> QED BY <1>1, <1>2, <1>3, <1>4, <1>5, <1>6, <1>7, <1>8, <1>9, <1>10, <1>11 DEF States, InviteCalls

\* What is known of invites survives a step that neither makes nor ends one.
LEMMA InvitesStep ==
    ASSUME TypeOK, Coalesced, Accepted, InvitesQuiet
    PROVE  Coalesced' /\ Accepted'
<1>1. Coalesced'
  <2>1. Replaced'
    BY DEF Coalesced, Replaced, InvitesQuiet
  <2>2. ASSUME NEW r \in Requests PROVE Cleared(r)'
    BY DEF Coalesced, Cleared, InvitesQuiet, InviteCalls, At
  <2> QED BY <2>1, <2>2 DEF Coalesced
<1>2. Accepted'
  <2>1. JoinedMeansAccepted'
    <3>1. ASSUME NEW i \in joined
          PROVE  db'.invites[i].accepted \/ i \in crossed' \/ \E r \in Requests : req'[r].at = "mark accepted" /\ req'[r].invite = i
      <4>1. \/ db.invites[i].accepted \/ i \in crossed
            \/ \E r \in Requests : req[r].at = "mark accepted" /\ req[r].invite = i
        BY DEF Accepted, JoinedMeansAccepted, At
      <4>2. ASSUME NEW r \in Requests, req[r].at = "mark accepted" PROVE req'[r] = req[r]
        BY <4>2 DEF InvitesQuiet, InviteCalls
      <4> QED BY <4>1, <4>2 DEF InvitesQuiet
    <3> QED BY <3>1 DEF JoinedMeansAccepted, At, InvitesQuiet
  <2>2. ASSUME NEW r \in Requests, OfInvite(r)' PROVE Noticed(req[r].invite)'
    <3>1. CASE req'[r] = req[r]
      BY <2>2, <3>1 DEF Accepted, OfInvite, Noticed, InvitesQuiet
    <3>2. CASE req'[r] # req[r]
      BY <2>2, <3>2, OfInviteCalls DEF OfInvite, InvitesQuiet
    <3> QED BY <3>1, <3>2
  <2> QED BY <2>1, <2>2 DEF Accepted, InvitesQuiet
<1> QED BY <1>1, <1>2

\* What the repository lemmas assume follows from the types.
LEMMA TypedWired ==
    ASSUME TypeOK
    PROVE  Wired
BY IdentityAssumption DEF TypeOK, Wired

\* What the calls of a request know.
LEMMA CallOf ==
    ASSUME NEW q \in States
    PROVE  /\ q.at \in {"signup user"} => q \in [at : {"signup user"}, tenant : Nat, email : Emails, pw : Strong]
           /\ q.at \in {"signup member"} => q \in [at : {"signup member"}, tenant : Nat, user : Nat]
           /\ q.at \in {"send verification", "record failure", "lock user", "unlock user"} => q \in [at : {"send verification", "record failure", "lock user", "unlock user"}, user : Nat]
           /\ q.at \in {"mark verified", "mark used"} => q \in [at : {"mark verified", "mark used"}, user : Nat, token : Nat]
           /\ q.at \in {"mint session"} => q \in [at : {"mint session"}, user : Nat, pw : Passwords]
           /\ q.at \in {"send reset"} => q \in [at : {"send reset"}, user : Nat, email : Int]
           /\ q.at \in {"update password"} => q \in [at : {"update password"}, user : Nat, pw : Strong, token : Nat]
           /\ q.at \in {"change password"} => q \in [at : {"change password"}, user : Nat, pw : Strong]
           /\ q.at \in {"revoke sessions"} => q \in [at : {"revoke sessions"}, user : Nat, then : {"unlock user", "answer"}]
           /\ q.at \in {"check member", "list invites"} => q \in [at : {"check member", "list invites"}, tenant : Nat, email : Emails, roles : SUBSET Roles]
           /\ q.at \in {"create invite"} => q \in [at : {"create invite"}, tenant : Nat, email : Emails, roles : SUBSET Roles, open : SUBSET Nat, seen : SUBSET Nat]
           /\ q.at \in {"resolve user"} => q \in [at : {"resolve user"}, invite : Nat, pw : Strong]
           /\ q.at \in {"attach member"} => q \in [at : {"attach member"}, invite : Nat, user : Nat]
           /\ q.at \in {"mark accepted"} => q \in [at : {"mark accepted"}, invite : Nat]
<1>1. q = Idle => q.at = "idle"
  BY DEF Idle
<1>2. q \in [at : {"signup user"}, tenant : Nat, email : Emails, pw : Strong] => q.at \in {"signup user"}
  OBVIOUS
<1>3. q \in [at : {"signup member"}, tenant : Nat, user : Nat] => q.at \in {"signup member"}
  OBVIOUS
<1>4. q \in [at : {"send verification", "record failure", "lock user", "unlock user"}, user : Nat] => q.at \in {"send verification", "record failure", "lock user", "unlock user"}
  OBVIOUS
<1>5. q \in [at : {"mark verified", "mark used"}, user : Nat, token : Nat] => q.at \in {"mark verified", "mark used"}
  OBVIOUS
<1>6. q \in [at : {"mint session"}, user : Nat, pw : Passwords] => q.at \in {"mint session"}
  OBVIOUS
<1>7. q \in [at : {"send reset"}, user : Nat, email : Int] => q.at \in {"send reset"}
  OBVIOUS
<1>8. q \in [at : {"update password"}, user : Nat, pw : Strong, token : Nat] => q.at \in {"update password"}
  OBVIOUS
<1>9. q \in [at : {"change password"}, user : Nat, pw : Strong] => q.at \in {"change password"}
  OBVIOUS
<1>10. q \in [at : {"revoke sessions"}, user : Nat, then : {"unlock user", "answer"}] => q.at \in {"revoke sessions"}
  OBVIOUS
<1>11. q \in [at : {"create invite"}, tenant : Nat, email : Emails, roles : SUBSET Roles, open : SUBSET Nat, seen : SUBSET Nat] => q.at \in {"create invite"}
  OBVIOUS
<1>12. q \in [at : {"resolve user"}, invite : Nat, pw : Strong] => q.at \in {"resolve user"}
  OBVIOUS
<1>13. q \in [at : {"attach member"}, invite : Nat, user : Nat] => q.at \in {"attach member"}
  OBVIOUS
<1>14. q \in [at : {"mark accepted"}, invite : Nat] => q.at \in {"mark accepted"}
  OBVIOUS
<1>15. q \in [at : {"check member", "list invites"}, tenant : Nat, email : Emails, roles : SUBSET Roles] => q.at \in {"check member", "list invites"}
  OBVIOUS
<1> QED BY <1>1, <1>2, <1>3, <1>4, <1>5, <1>6, <1>7, <1>8, <1>9, <1>10, <1>11, <1>12, <1>13, <1>14, <1>15 DEF States

\* What a request in the middle of a handler knows is of its type.
LEMMA CallsKnow ==
    ASSUME NEW q \in States
    PROVE  /\ q.at = "signup user" => q.tenant \in Nat /\ q.email \in Emails /\ q.pw \in Strong
           /\ q.at = "signup member" => q.tenant \in Nat /\ q.user \in Nat
           /\ q.at \in {"send verification", "record failure", "lock user", "unlock user"} => q.user \in Nat
           /\ q.at \in {"mark verified", "mark used"} => q.user \in Nat /\ q.token \in Nat
           /\ q.at = "mint session" => q.user \in Nat /\ q.pw \in Passwords
           /\ q.at = "send reset" => q.user \in Nat /\ q.email \in Int
           /\ q.at = "update password" => q.user \in Nat /\ q.pw \in Strong /\ q.token \in Nat
           /\ q.at = "change password" => q.user \in Nat /\ q.pw \in Strong
           /\ q.at = "revoke sessions" => q.user \in Nat /\ q.then \in {"unlock user", "answer"}
           /\ q.at \in {"check member", "list invites"} => q.tenant \in Nat /\ q.email \in Emails /\ q.roles \in SUBSET Roles
           /\ q.at = "create invite" => /\ q.tenant \in Nat /\ q.email \in Emails /\ q.roles \in SUBSET Roles
                                       /\ q.open \in SUBSET Nat /\ q.seen \in SUBSET Nat
           /\ q.at = "resolve user" => q.invite \in Nat /\ q.pw \in Strong
           /\ q.at = "attach member" => q.invite \in Nat /\ q.user \in Nat
           /\ q.at = "mark accepted" => q.invite \in Nat
<1>1. q \in [at : {"signup user"}, tenant : Nat, email : Emails, pw : Strong] => q.tenant \in Nat /\ q.email \in Emails /\ q.pw \in Strong
  OBVIOUS
<1>2. q \in [at : {"signup member"}, tenant : Nat, user : Nat] => q.tenant \in Nat /\ q.user \in Nat
  OBVIOUS
<1>3. q \in [at : {"send verification", "record failure", "lock user", "unlock user"}, user : Nat] => q.user \in Nat
  OBVIOUS
<1>4. q \in [at : {"mark verified", "mark used"}, user : Nat, token : Nat] => q.user \in Nat /\ q.token \in Nat
  OBVIOUS
<1>5. q \in [at : {"mint session"}, user : Nat, pw : Passwords] => q.user \in Nat /\ q.pw \in Passwords
  OBVIOUS
<1>6. q \in [at : {"send reset"}, user : Nat, email : Int] => q.user \in Nat /\ q.email \in Int
  OBVIOUS
<1>7. q \in [at : {"update password"}, user : Nat, pw : Strong, token : Nat] => q.user \in Nat /\ q.pw \in Strong /\ q.token \in Nat
  OBVIOUS
<1>8. q \in [at : {"change password"}, user : Nat, pw : Strong] => q.user \in Nat /\ q.pw \in Strong
  OBVIOUS
<1>9. q \in [at : {"revoke sessions"}, user : Nat, then : {"unlock user", "answer"}] => q.user \in Nat /\ q.then \in {"unlock user", "answer"}
  OBVIOUS
<1>10. q \in [at : {"create invite"}, tenant : Nat, email : Emails, roles : SUBSET Roles, open : SUBSET Nat, seen : SUBSET Nat]
       => q.tenant \in Nat /\ q.email \in Emails /\ q.roles \in SUBSET Roles /\ q.open \in SUBSET Nat /\ q.seen \in SUBSET Nat
  OBVIOUS
<1>11. q \in [at : {"resolve user"}, invite : Nat, pw : Strong] => q.invite \in Nat /\ q.pw \in Strong
  OBVIOUS
<1>12. q \in [at : {"attach member"}, invite : Nat, user : Nat] => q.invite \in Nat /\ q.user \in Nat
  OBVIOUS
<1>13. q \in [at : {"mark accepted"}, invite : Nat] => q.invite \in Nat
  OBVIOUS
<1>14. q \in [at : {"check member", "list invites"}, tenant : Nat, email : Emails, roles : SUBSET Roles] => q.tenant \in Nat /\ q.email \in Emails /\ q.roles \in SUBSET Roles
  OBVIOUS
<1>15. q.at \in {"check member", "list invites"} => q.tenant \in Nat /\ q.email \in Emails /\ q.roles \in SUBSET Roles
  BY CallOf, <1>14
<1>16. q.at = "create invite" => /\ q.tenant \in Nat /\ q.email \in Emails /\ q.roles \in SUBSET Roles
                                /\ q.open \in SUBSET Nat /\ q.seen \in SUBSET Nat
  BY CallOf, <1>10
<1>17. /\ q.at = "resolve user" => q.invite \in Nat /\ q.pw \in Strong
       /\ q.at = "attach member" => q.invite \in Nat /\ q.user \in Nat
       /\ q.at = "mark accepted" => q.invite \in Nat
  BY CallOf, <1>11, <1>12, <1>13
<1>18. /\ q.at = "signup user" => q.tenant \in Nat /\ q.email \in Emails /\ q.pw \in Strong
       /\ q.at = "signup member" => q.tenant \in Nat /\ q.user \in Nat
       /\ q.at \in {"send verification", "record failure", "lock user", "unlock user"} => q.user \in Nat
       /\ q.at \in {"mark verified", "mark used"} => q.user \in Nat /\ q.token \in Nat
  BY CallOf, <1>1, <1>2, <1>3, <1>4
<1>19. /\ q.at = "mint session" => q.user \in Nat /\ q.pw \in Passwords
       /\ q.at = "send reset" => q.user \in Nat /\ q.email \in Int
       /\ q.at = "update password" => q.user \in Nat /\ q.pw \in Strong /\ q.token \in Nat
       /\ q.at = "change password" => q.user \in Nat /\ q.pw \in Strong
       /\ q.at = "revoke sessions" => q.user \in Nat /\ q.then \in {"unlock user", "answer"}
  BY CallOf, <1>5, <1>6, <1>7, <1>8, <1>9
<1> QED BY <1>15, <1>16, <1>17, <1>18, <1>19

\* What a request in the middle of a handler knows, call by call.
LEMMA Speaking ==
    ASSUME NEW q \in States
    PROVE  /\ q.at \in {"signup member", "send verification", "record failure", "lock user", "unlock user", "mark verified",
                        "mark used", "mint session", "send reset", "update password", "change password", "revoke sessions",
                        "attach member"} => "user" \in DOMAIN q
           /\ q.at \in {"resolve user", "attach member", "mark accepted"} => "invite" \in DOMAIN q
           /\ q.at \in {"signup user", "signup member", "check member", "list invites", "create invite"} => "tenant" \in DOMAIN q
           /\ q.at \in {"mark verified", "mark used", "update password"} => "token" \in DOMAIN q
<1>1. q \in [at : {"signup user"}, tenant : Nat, email : Emails, pw : Strong] => "tenant" \in DOMAIN q
  OBVIOUS
<1>2. q \in [at : {"signup member"}, tenant : Nat, user : Nat] => "tenant" \in DOMAIN q /\ "user" \in DOMAIN q
  OBVIOUS
<1>3. q \in [at : {"send verification", "record failure", "lock user", "unlock user"}, user : Nat] => "user" \in DOMAIN q
  OBVIOUS
<1>4. q \in [at : {"mark verified", "mark used"}, user : Nat, token : Nat] => "user" \in DOMAIN q /\ "token" \in DOMAIN q
  OBVIOUS
<1>5. q \in [at : {"mint session"}, user : Nat, pw : Passwords] => "user" \in DOMAIN q
  OBVIOUS
<1>6. q \in [at : {"send reset"}, user : Nat, email : Int] => "user" \in DOMAIN q
  OBVIOUS
<1>7. q \in [at : {"update password"}, user : Nat, pw : Strong, token : Nat] => "user" \in DOMAIN q /\ "token" \in DOMAIN q
  OBVIOUS
<1>8. q \in [at : {"change password"}, user : Nat, pw : Strong] => "user" \in DOMAIN q
  OBVIOUS
<1>9. q \in [at : {"revoke sessions"}, user : Nat, then : {"unlock user", "answer"}] => "user" \in DOMAIN q
  OBVIOUS
<1>10. q \in [at : {"create invite"}, tenant : Nat, email : Emails, roles : SUBSET Roles, open : SUBSET Nat, seen : SUBSET Nat] => "tenant" \in DOMAIN q
  OBVIOUS
<1>11. q \in [at : {"resolve user"}, invite : Nat, pw : Strong] => "invite" \in DOMAIN q
  OBVIOUS
<1>12. q \in [at : {"attach member"}, invite : Nat, user : Nat] => "invite" \in DOMAIN q /\ "user" \in DOMAIN q
  OBVIOUS
<1>13. q \in [at : {"mark accepted"}, invite : Nat] => "invite" \in DOMAIN q
  OBVIOUS
<1>14. q \in [at : {"check member", "list invites"}, tenant : Nat, email : Emails, roles : SUBSET Roles] => "tenant" \in DOMAIN q
  OBVIOUS
<1> QED BY CallOf, <1>1, <1>2, <1>3, <1>4, <1>5, <1>6, <1>7, <1>8, <1>9, <1>10, <1>11, <1>12, <1>13, <1>14

\* Rows only come, nobody's address or password changes, and sessions and
\* tokens only come to their end.
Mild(d, e) ==
    /\ Grows(d, e)
    /\ DOMAIN e.sessions = DOMAIN d.sessions /\ Len(e.sessions) = Len(d.sessions)
    /\ \A s \in DOMAIN d.sessions :
          /\ e.sessions[s].user = d.sessions[s].user
          /\ d.sessions[s].revoked => e.sessions[s].revoked
    /\ \A u \in DOMAIN d.users : e.users[u].email = d.users[u].email /\ e.users[u].pw = d.users[u].pw
    /\ \A u \in DOMAIN e.users : u \in DOMAIN d.users \/ ValidatePasswordStrength(e.users[u].pw)
    /\ \A v \in DOMAIN d.verifs :
          /\ e.verifs[v].user = d.verifs[v].user
          /\ d.verifs[v].used => e.verifs[v].used
          /\ d.verifs[v].expired => e.verifs[v].expired
    /\ e.invites = d.invites

\* A step that changes no table is mild.
LEMMA MildKeeping ==
    ASSUME NEW d \in Database, Linked(d)
    PROVE  Mild(d, d)
BY DEF Mild, Grows

\* Two mild changes are one.
LEMMA MildTwice ==
    ASSUME NEW d, NEW e, NEW f, Mild(d, e), Mild(e, f)
    PROVE  Mild(d, f)
BY DEF Mild, Grows

\* A new tenant is a mild change.
LEMMA MildTenants ==
    ASSUME NEW d \in Database, NEW e, NEW row, Linked(d), OnlyTenants(d, e), Adds(d.tenants, e.tenants, row)
    PROVE  Mild(d, e)
<1>1. DOMAIN d.tenants \subseteq DOMAIN e.tenants
  BY TableDomains DEF Adds
<1>2. Linked(e)
  BY <1>1 DEF Linked, OnlyTenants
<1> QED BY <1>1, <1>2 DEF Mild, Grows, OnlyTenants

\* A user whose address and password stay is a mild change.
LEMMA MildUsers ==
    ASSUME NEW d \in Database, NEW e, NEW u \in DOMAIN d.users, NEW row, Linked(d), OnlyUsers(d, e),
           Edits(d.users, e.users, u, row), row.email = d.users[u].email, row.pw = d.users[u].pw
    PROVE  Mild(d, e)
<1>1. DOMAIN e.users = DOMAIN d.users
  BY DEF Edits
<1>2. Linked(e)
  BY <1>1 DEF Linked, OnlyUsers
<1>3. ASSUME NEW x \in DOMAIN d.users PROVE e.users[x].email = d.users[x].email /\ e.users[x].pw = d.users[x].pw
  BY <1>3 DEF Edits
<1> QED BY <1>1, <1>2, <1>3 DEF Mild, Grows, OnlyUsers

\* A new user with a strong password is a mild change.
LEMMA MildNewUser ==
    ASSUME NEW d \in Database, NEW e, NEW row, Linked(d), OnlyUsers(d, e), Adds(d.users, e.users, row),
           ValidatePasswordStrength(row.pw)
    PROVE  Mild(d, e)
<1>1. DOMAIN d.users \subseteq DOMAIN e.users
  BY TableDomains DEF Adds
<1>2. Linked(e)
  BY <1>1 DEF Linked, OnlyUsers
<1>3. ASSUME NEW x \in DOMAIN e.users PROVE x \in DOMAIN d.users \/ e.users[x] = row
  BY <1>3, TableDomains DEF Adds
<1>4. ASSUME NEW x \in DOMAIN d.users PROVE e.users[x] = d.users[x]
  BY <1>4 DEF Adds
<1> QED BY <1>1, <1>2, <1>3, <1>4 DEF Mild, Grows, OnlyUsers

\* Memberships of users there are in tenants there are, are a mild change.
LEMMA MildMembers ==
    ASSUME NEW d \in Database, NEW e, Linked(d), OnlyMembers(d, e),
           \A m \in DOMAIN e.members : e.members[m].tenant \in DOMAIN d.tenants /\ e.members[m].user \in DOMAIN d.users
    PROVE  Mild(d, e)
<1>1. Linked(e)
  BY DEF Linked, OnlyMembers
<1> QED BY <1>1 DEF Mild, Grows, OnlyMembers

\* Sessions revoked are a mild change.
LEMMA MildSessions ==
    ASSUME NEW d \in Database, NEW e, NEW S, Linked(d), Revokes(d, e, S)
    PROVE  Mild(d, e)
<1>1. Linked(e)
  BY DEF Linked, Revokes, OnlySessions
<1> QED BY <1>1 DEF Mild, Grows, Revokes, OnlySessions

\* A token of the same user that is not revived is a mild change.
LEMMA MildVerifs ==
    ASSUME NEW d \in Database, NEW e, NEW v \in DOMAIN d.verifs, NEW row, Linked(d), OnlyVerifs(d, e),
           Edits(d.verifs, e.verifs, v, row), row.user = d.verifs[v].user,
           d.verifs[v].used => row.used, d.verifs[v].expired => row.expired
    PROVE  Mild(d, e)
<1>1. DOMAIN e.verifs = DOMAIN d.verifs
  BY DEF Edits
<1>2. ASSUME NEW x \in DOMAIN d.verifs
      PROVE  /\ e.verifs[x].user = d.verifs[x].user
             /\ d.verifs[x].used => e.verifs[x].used
             /\ d.verifs[x].expired => e.verifs[x].expired
  BY <1>2 DEF Edits
<1>3. Linked(e)
  BY <1>1, <1>2 DEF Linked, OnlyVerifs
<1> QED BY <1>1, <1>2, <1>3 DEF Mild, Grows, OnlyVerifs

\* A request goes on outside of the calls that revoke, mint, invite or accept.
Calm(from, to) ==
    /\ Anchored(to) /\ Harmless(to)
    /\ to.at \notin InviteCalls
    /\ from.at \notin InviteCalls \cup {"mark used", "revoke sessions"}

\* Where there is no new session and no new invite, the history has nothing to
\* record.
LEMMA MildRecorded ==
    ASSUME TypeOK, Grounded, UNCHANGED history, Grows(db, db'),
           Len(db'.sessions) = Len(db.sessions), Len(db'.invites) = Len(db.invites)
    PROVE  Recorded
BY DEF TypeOK, Grounded, history, Grows, Recorded

\* A step with a mild change, whose requests stay calm, keeps the invariant.
LEMMA CalmStep ==
    ASSUME IInv, Counted, UNCHANGED history, Mild(db, db'),
           req' \in [Requests -> States],
           \A r \in Requests : req'[r] = req[r] \/ Calm(req[r], req'[r])
    PROVE  IInv'
<1>0. db \in Database /\ Grows(db, db') /\ TypeOK /\ Grounded
  BY DEF IInv, TypeOK, Mild
<1>1. TypeOK' /\ Grounded'
  <2>1. Recorded
    BY <1>0, MildRecorded DEF Mild
  <2>2. Moving
    BY DEF Moving, Calm
  <2> QED BY <1>0, <2>1, <2>2, GroundedStep
<1>2. OldPasswordEvicted'
  <2>1. SignInsQuiet
    BY DEF SignInsQuiet, Mild, history, Calm
  <2> QED BY <1>0, <2>1, SignInsStep DEF IInv
<1>3. PasswordsStrong'
  BY PasswordsStep DEF IInv, Mild
<1>4. Stubbed' /\ Erasures' /\ Barred'
  <2>1. DOMAIN erased \subseteq DOMAIN db.users /\ mailbox \subseteq DOMAIN db.verifs
    BY <1>0 DEF Grounded
  <2>2. ErasuresQuiet
    BY <2>1 DEF ErasuresQuiet, Mild, history, Calm
  <2> QED BY <1>0, <2>2, ErasuresStep DEF IInv
<1>5. Coalesced' /\ Accepted'
  <2>1. InvitesQuiet
    BY DEF InvitesQuiet, Mild, history, Calm, Anchored
  <2> QED BY <1>0, <2>1, InvitesStep DEF IInv
<1> QED BY <1>1, <1>2, <1>3, <1>4, <1>5 DEF IInv

(***************************************************************************)
(* Calls that leave passwords, sessions and invitations as they are        *)
(***************************************************************************)
LEMMA Beginning ==
    ASSUME TypeOK, NEW r \in Requests, Begin(r)
    PROVE  Counted /\ req[r].at = "idle"
BY DEF TypeOK, Begin, Counted, Idle

\* A request continues where its handler stopped.
LEMMA Continuing ==
    ASSUME TypeOK, NEW r \in Requests, NEW call, Continue(r, call)
    PROVE  Counted /\ req[r].at = call
BY DEF TypeOK, Continue, Counted, At

\* A request that is over holds nothing.
LEMMA IdleCalm == Anchored(Idle) /\ Harmless(Idle) /\ Idle.at \notin InviteCalls /\ Idle \in States
BY DEF Anchored, Harmless, Idle, InviteCalls, States

\* Every request is at a call of its handler, and holds what it may.
LEMMA ReqHarmless ==
    ASSUME IInv, NEW r \in Requests
    PROVE  req[r] \in States /\ Harmless(req[r])
<1>1. req[r] \in States
  BY DEF IInv, TypeOK
<1>2. Harmless(req[r])
  BY DEF IInv, Erasures, Gone, Harmless, Live, OfUser
<1> QED BY <1>1, <1>2

\* Request r goes on, and nothing but rows has changed.
LEMMA CalmRequest ==
    ASSUME IInv, NEW r \in Requests, NEW q, Counted, Goto(r, q), Calm(req[r], q), UNCHANGED history, Mild(db, db')
    PROVE  IInv'
<1>1. req \in [Requests -> States] /\ q \in States
  BY DEF IInv, TypeOK, Calm, Anchored
<1>2. req' \in [Requests -> States]
  BY <1>1 DEF Goto
<1>3. ASSUME NEW x \in Requests PROVE req'[x] = req[x] \/ Calm(req[x], req'[x])
  BY <1>1, <1>3 DEF Goto
<1> QED BY <1>2, <1>3, CalmStep

\* It stays where it is.
LEMMA CalmAnswer ==
    ASSUME IInv, Counted, UNCHANGED req, UNCHANGED history, Mild(db, db')
    PROVE  IInv'
BY CalmStep DEF IInv, TypeOK

\* It is done.
LEMMA CalmIdle ==
    ASSUME IInv, NEW r \in Requests, Counted, Goto(r, Idle), UNCHANGED history, Mild(db, db'),
           req[r].at \notin InviteCalls \cup {"mark used", "revoke sessions"}
    PROVE  IInv'
BY CalmRequest, IdleCalm DEF Calm

\* What the invariant says of the rows.
LEMMA Rows ==
    ASSUME IInv
    PROVE  Wired /\ db \in Database /\ Linked(db) /\ Mild(db, db)
BY TypedWired, MildKeeping DEF IInv, TypeOK, Grounded

\* The keys of every table are numbers.
LEMMA Keys ==
    ASSUME IInv
    PROVE  /\ DOMAIN db.tenants \subseteq Nat /\ DOMAIN db.users \subseteq Nat /\ DOMAIN db.verifs \subseteq Nat
           /\ DOMAIN db.invites \subseteq Nat /\ DOMAIN db.sessions \subseteq Nat
BY Rows, TableDomains

\* An address a client writes is no stub.
LEMMA Written ==
    ASSUME IInv, NEW u \in DOMAIN db.users, db.users[u].email \in Nat \ {0}
    PROVE  u \notin DOMAIN erased
<1>1. u \in Nat
  BY Keys
<1> QED BY <1>1 DEF IInv, Stubbed, StubEmail

\* The key of a new tenant.
LEMMA NewTenant ==
    ASSUME NEW d \in Database, NEW e, NEW row, Adds(d.tenants, e.tenants, row)
    PROVE  Len(d.tenants) + 1 \in Nat /\ Len(d.tenants) + 1 \in DOMAIN e.tenants
<1>1. Len(d.tenants) \in Nat
  BY TableDomains
<1> QED BY <1>1 DEF Adds

\* Signup, up to the tenant, keeps the invariant.
LEMMA SignupTenantKeeps ==
    ASSUME IInv, NEW r \in Requests, SignupTenant(r)
    PROVE  IInv'
<1>0. Counted /\ req[r].at = "idle"
  BY Beginning DEF IInv, SignupTenant
<1>1. PICK slug \in Slugs \cup {""}, e \in Emails \cup {NotGiven}, pw \in Passwords, confirm \in Passwords \cup {NotGiven} :
         /\ ValidateSignup(e, pw, confirm, slug)
         /\ Then(r, CreateTenant(slug), [at |-> "signup user", tenant |-> Len(db.tenants) + 1, email |-> e, pw |-> pw])
  BY DEF SignupTenant
<1> DEFINE q == [at |-> "signup user", tenant |-> Len(db.tenants) + 1, email |-> e, pw |-> pw]
<1>2. slug \in STRING /\ e \in Emails /\ pw \in Strong
  BY <1>1, IdentityAssumption DEF ValidateSignup, Strong
<1>3. CASE CreateTenant(slug).err = "ok"
  <2>1. OnlyTenants(db, db') /\ Adds(db.tenants, db'.tenants, slug)
    BY <1>1, <1>2, <1>3, Rows, CreateTenantAdds DEF Then
  <2>2. Mild(db, db')
    BY <2>1, Rows, MildTenants
  <2>3. Len(db.tenants) + 1 \in Nat /\ Len(db.tenants) + 1 \in DOMAIN db'.tenants
    BY <2>1, Rows, NewTenant
  <2>4. q \in States
    BY <1>2, <2>3 DEF States
  <2>5. Calm(req[r], q)
    BY <1>0, <2>3, <2>4 DEF Calm, Anchored, Harmless, InviteCalls
  <2>6. Goto(r, q)
    BY <1>1, <1>3 DEF Then
  <2> QED BY <1>0, <2>2, <2>5, <2>6, CalmRequest DEF SignupTenant
<1>4. CASE CreateTenant(slug).err # "ok"
  <2>1. db' = db /\ Goto(r, Idle)
    BY <1>1, <1>2, <1>4, Rows, CreateTenantAdds DEF Then
  <2> QED BY <1>0, <2>1, Rows, CalmIdle DEF SignupTenant, InviteCalls
<1> QED BY <1>3, <1>4

\* Signup, the user: a strong password, an address nobody has.
LEMMA SignupUserKeeps ==
    ASSUME IInv, NEW r \in Requests, SignupUser(r)
    PROVE  IInv'
<1>0. Counted /\ req[r].at = "signup user"
  BY Continuing DEF IInv, SignupUser
<1> DEFINE u == [email |-> req[r].email, pw |-> req[r].pw, verified |-> FALSE]
           q == [at |-> "signup member", tenant |-> req[r].tenant, user |-> Len(db.users) + 1]
<1>1. Then(r, CreateUser(u), q)
  BY DEF SignupUser
<1>2. req[r].tenant \in Nat /\ req[r].email \in Emails /\ req[r].pw \in Strong /\ req[r].tenant \in DOMAIN db.tenants
  BY <1>0, CallsKnow, Speaking, ReqHarmless DEF IInv, Grounded, OfTenant
<1>3. u.email \in Int /\ u.pw \in Nat /\ u.verified \in BOOLEAN /\ ValidatePasswordStrength(u.pw)
  BY <1>2, IdentityAssumption DEF Strong
<1>4. CASE CreateUser(u).err = "ok"
  <2>1. \E v \in BOOLEAN :
           LET row == [email |-> u.email, pw |-> u.pw, status |-> "active", verified |-> v, tour |-> FALSE, fails |-> 0, age |-> 0]
           IN  OnlyUsers(db, db') /\ Adds(db.users, db'.users, row)
    <3> HIDE DEF u, q
    <3> QED BY <1>1, <1>3, <1>4, Rows, CreateUserAdds DEF Then
  <2>2. PICK row : OnlyUsers(db, db') /\ Adds(db.users, db'.users, row) /\ row.pw = u.pw
    <3> HIDE DEF u, q
    <3> QED BY <2>1
  <2>3. Mild(db, db')
    BY <1>3, <2>2, Rows, MildNewUser
  <2>4. /\ Len(db.users) + 1 \in Nat /\ Len(db.users) + 1 \in DOMAIN db'.users /\ db'.tenants = db.tenants
        /\ Len(db.users) + 1 \notin DOMAIN db.users
    BY <2>2, Rows, TableDomains DEF Adds, OnlyUsers
  <2>5. q \in States
    BY <1>2, <2>4 DEF States
  <2>6. Live(Len(db.users) + 1)
    BY <2>4 DEF Live, IInv, Grounded
  <2>7. Calm(req[r], q)
    BY <1>0, <1>2, <2>4, <2>5, <2>6 DEF Calm, Anchored, Harmless, InviteCalls
  <2>8. Goto(r, q)
    BY <1>1, <1>4 DEF Then
  <2> QED BY <1>0, <2>3, <2>7, <2>8, CalmRequest DEF SignupUser
<1>5. CASE CreateUser(u).err # "ok"
  <2>1. db' = db /\ Goto(r, Idle)
    <3> HIDE DEF u, q
    <3> QED BY <1>1, <1>5, Rows, CreateUserFails DEF Then
  <2> QED BY <1>0, <2>1, Rows, CalmIdle DEF SignupUser, InviteCalls
<1> QED BY <1>4, <1>5

\* Signup, the owner's membership, keeps the invariant.
LEMMA SignupMemberKeeps ==
    ASSUME IInv, NEW r \in Requests, SignupMember(r)
    PROVE  IInv'
<1>0. Counted /\ req[r].at = "signup member"
  BY Continuing DEF IInv, SignupMember
<1> DEFINE m == [tenant |-> req[r].tenant, user |-> req[r].user, roles |-> {"super_admin", "admin"}]
           q == [at |-> "send verification", user |-> req[r].user]
<1>1. Then(r, CreateMembership(m), q)
  BY DEF SignupMember
<1>2. /\ req[r].tenant \in Nat /\ req[r].tenant \in DOMAIN db.tenants
      /\ req[r].user \in Nat /\ req[r].user \in DOMAIN db.users
  BY <1>0, CallsKnow, Speaking, ReqHarmless DEF IInv, Grounded, OfTenant, OfUser
<1>3. m \in Members
  <2>1. req[r].tenant \in Nat /\ req[r].user \in Nat
    BY <1>2
  <2> QED BY <2>1 DEF Members, Roles
<1>4. Live(req[r].user)
  BY <1>0, ReqHarmless, Speaking DEF Harmless
<1>5. CASE CreateMembership(m).err = "ok"
  <2>1. OnlyMembers(db, db') /\ Adds(db.members, db'.members, m)
    <3> HIDE DEF m, q
    <3> QED BY <1>1, <1>3, <1>5, Rows, CreateMembershipAdds DEF Then
  <2>2. ASSUME NEW i \in DOMAIN db'.members
        PROVE  db'.members[i].tenant \in DOMAIN db.tenants /\ db'.members[i].user \in DOMAIN db.users
    <3>1. i \in DOMAIN db.members \/ db'.members[i] = m
      BY <2>1, Rows, TableDomains DEF Adds
    <3>2. CASE i \in DOMAIN db.members
      BY <2>1, <3>2, Rows DEF Adds, Linked
    <3> QED BY <1>2, <3>1, <3>2
  <2>3. Mild(db, db')
    BY <2>1, <2>2, Rows, MildMembers
  <2>4. q \in States
    BY <1>2 DEF States
  <2>5. Calm(req[r], q)
    BY <1>0, <1>2, <1>4, <2>1, <2>4 DEF Calm, Anchored, Harmless, InviteCalls, OnlyMembers
  <2>6. Goto(r, q)
    BY <1>1, <1>5 DEF Then
  <2> QED BY <1>0, <2>3, <2>5, <2>6, CalmRequest DEF SignupMember
<1>6. CASE CreateMembership(m).err # "ok"
  <2>1. db' = db /\ Goto(r, Idle)
    <3> HIDE DEF m, q
    <3> QED BY <1>1, <1>3, <1>6, Rows, CreateMembershipAdds DEF Then
  <2> QED BY <1>0, <2>1, Rows, CalmIdle DEF SignupMember, InviteCalls
<1> QED BY <1>5, <1>6

\* A request has read something and goes on with call q.
LEMMA Asking ==
    ASSUME IInv, NEW r \in Requests, NEW q, Begin(r), Goto(r, q), UNCHANGED <<db, history>>,
           q \in States, Harmless(q), q.at \notin InviteCalls,
           "user" \in DOMAIN q => q.user \in DOMAIN db.users,
           "token" \in DOMAIN q => q.token \in DOMAIN db.verifs,
           "invite" \notin DOMAIN q, "tenant" \notin DOMAIN q
    PROVE  IInv'
<1>1. Counted /\ req[r].at = "idle"
  BY Beginning DEF IInv
<1>2. Calm(req[r], q)
  BY <1>1 DEF Calm, Anchored, InviteCalls
<1> QED BY <1>1, <1>2, Rows, CalmRequest

\* A token out of a mail that is open is of an account that is not gone.
LEMMA OpenToken ==
    ASSUME IInv, NEW v \in mailbox, ~db.verifs[v].used, ~db.verifs[v].expired
    PROVE  /\ v \in DOMAIN db.verifs /\ v \in Nat
           /\ db.verifs[v].user \in DOMAIN db.users /\ db.verifs[v].user \in Nat
           /\ Live(db.verifs[v].user)
<1>1. v \in DOMAIN db.verifs
  BY DEF IInv, Grounded
<1>2. db.verifs[v].user \in DOMAIN db.users
  BY <1>1 DEF IInv, Grounded, Linked
<1>3. Live(db.verifs[v].user)
  BY DEF IInv, Erasures, Gone, Live
<1> QED BY <1>1, <1>2, <1>3, Keys

\* VerifyEmail, up to the token, keeps the invariant.
LEMMA VerifyKeeps ==
    ASSUME IInv, NEW r \in Requests, Verify(r)
    PROVE  IInv'
<1>1. PICK v \in mailbox :
         /\ ~db.verifs[v].used /\ ~db.verifs[v].expired
         /\ Goto(r, [at |-> "mark verified", user |-> db.verifs[v].user, token |-> v])
  BY DEF Verify
<1> DEFINE q == [at |-> "mark verified", user |-> db.verifs[v].user, token |-> v]
<1>2. /\ v \in DOMAIN db.verifs /\ v \in Nat
      /\ db.verifs[v].user \in DOMAIN db.users /\ db.verifs[v].user \in Nat
      /\ Live(db.verifs[v].user)
  BY <1>1, OpenToken
<1>3. q \in States
  BY <1>2 DEF States
<1>4. Harmless(q) /\ q.at \notin InviteCalls
  BY <1>2 DEF Harmless, InviteCalls
<1> QED BY <1>1, <1>2, <1>3, <1>4, Asking DEF Verify

\* ResetPassword, up to the token, keeps the invariant.
LEMMA ResetPasswordKeeps ==
    ASSUME IInv, NEW r \in Requests, ResetPassword(r)
    PROVE  IInv'
<1>1. PICK v \in mailbox, pw \in Passwords :
         /\ ValidatePasswordStrength(pw)
         /\ ~db.verifs[v].used /\ ~db.verifs[v].expired
         /\ Goto(r, [at |-> "update password", user |-> db.verifs[v].user, pw |-> pw, token |-> v])
  BY DEF ResetPassword
<1> DEFINE q == [at |-> "update password", user |-> db.verifs[v].user, pw |-> pw, token |-> v]
<1>2. /\ v \in DOMAIN db.verifs /\ v \in Nat
      /\ db.verifs[v].user \in DOMAIN db.users /\ db.verifs[v].user \in Nat
      /\ Live(db.verifs[v].user)
  BY <1>1, OpenToken
<1>3. pw \in Strong
  BY <1>1 DEF Strong
<1>4. q \in States
  BY <1>2, <1>3 DEF States
<1>5. Harmless(q) /\ q.at \notin InviteCalls
  BY <1>2 DEF Harmless, InviteCalls
<1> QED BY <1>1, <1>2, <1>4, <1>5, Asking DEF ResetPassword

\* Who is found by an address is there.
LEMMA Found ==
    ASSUME IInv, NEW e, NEW u \in GetByEmail(e)
    PROVE  u \in DOMAIN db.users /\ u \in Nat /\ db.users[u].email = e
BY Keys DEF GetByEmail, Repo, Mem!GetByEmail, Pg!GetByEmail

\* ResendVerification, up to the user, keeps the invariant.
LEMMA ResendVerificationKeeps ==
    ASSUME IInv, NEW r \in Requests, ResendVerification(r)
    PROVE  IInv'
<1>0. PICK e \in Emails : \E u \in GetByEmail(e) : Goto(r, [at |-> "send verification", user |-> u])
  BY DEF ResendVerification
<1>1. PICK u \in GetByEmail(e) : Goto(r, [at |-> "send verification", user |-> u])
  BY <1>0
<1> DEFINE q == [at |-> "send verification", user |-> u]
<1>2. u \in DOMAIN db.users /\ u \in Nat /\ db.users[u].email = e
  BY Found
<1>3. Live(u)
  BY <1>2, Written, IdentityAssumption DEF Live
<1>4. q \in States
  BY <1>2 DEF States
<1>5. Harmless(q) /\ q.at \notin InviteCalls
  BY <1>3 DEF Harmless, InviteCalls
<1> QED BY <1>1, <1>2, <1>4, <1>5, Asking DEF ResendVerification

\* The empty hash matches no password.
LEMMA LoginKeeps ==
    ASSUME IInv, NEW r \in Requests, Login(r)
    PROVE  IInv'
<1>0. PICK e \in Addresses, pw \in Passwords : \E u \in GetByEmail(e) :
         \/ Goto(r, [at |-> "record failure", user |-> u])
         \/ db.users[u].pw = pw /\ Goto(r, [at |-> "mint session", user |-> u, pw |-> pw])
  BY DEF Login
<1>1. PICK u \in GetByEmail(e) :
         \/ Goto(r, [at |-> "record failure", user |-> u])
         \/ db.users[u].pw = pw /\ Goto(r, [at |-> "mint session", user |-> u, pw |-> pw])
  BY <1>0
<1>2. u \in DOMAIN db.users /\ u \in Nat
  BY Found
<1>3. CASE Goto(r, [at |-> "record failure", user |-> u])
  <2> DEFINE q == [at |-> "record failure", user |-> u]
  <2>1. q \in States
    BY <1>2 DEF States
  <2>2. Harmless(q) /\ q.at \notin InviteCalls
    BY DEF Harmless, InviteCalls
  <2> QED BY <1>2, <1>3, <2>1, <2>2, Asking DEF Login
<1>4. CASE db.users[u].pw = pw /\ Goto(r, [at |-> "mint session", user |-> u, pw |-> pw])
  <2> DEFINE q == [at |-> "mint session", user |-> u, pw |-> pw]
  <2>1. q \in States
    BY <1>2 DEF States
  <2>2. Live(u)
    BY <1>4, IdentityAssumption DEF Live, IInv, Erasures, Gone, NoPassword
  <2>3. Harmless(q) /\ q.at \notin InviteCalls
    BY <2>2 DEF Harmless, InviteCalls
  <2> QED BY <1>2, <1>4, <2>1, <2>3, Asking DEF Login
<1> QED BY <1>1, <1>3, <1>4

\* The address of an erased account is its stub.
LEMMA ForgotPasswordKeeps ==
    ASSUME IInv, NEW r \in Requests, ForgotPassword(r)
    PROVE  IInv'
<1>0. PICK e \in Addresses : \E u \in GetByEmail(e) : Goto(r, [at |-> "send reset", user |-> u, email |-> e])
  BY DEF ForgotPassword
<1>1. PICK u \in GetByEmail(e) : Goto(r, [at |-> "send reset", user |-> u, email |-> e])
  BY <1>0
<1> DEFINE q == [at |-> "send reset", user |-> u, email |-> e]
<1>2. u \in DOMAIN db.users /\ u \in Nat /\ db.users[u].email = e
  BY Found
<1>3. e \in Int
  BY <1>2, Rows, UserRow DEF Users
<1>4. q \in States
  BY <1>2, <1>3 DEF States
<1>5. Harmless(q) /\ q.at \notin InviteCalls
  BY <1>2 DEF Harmless, InviteCalls, Live, IInv, Stubbed
<1> QED BY <1>1, <1>2, <1>4, <1>5, Asking DEF ForgotPassword

\* Who is signed in is a user in a workspace that are there.
LEMMA SignedIn ==
    ASSUME IInv, NEW p \in People
    PROVE  p.id \in DOMAIN db.users /\ p.id \in Nat /\ p.tenant \in DOMAIN db.tenants /\ p.tenant \in Nat
<1>1. PICK s \in DOMAIN db.sessions : p \in Principals(s)
  BY DEF People
<1>2. p.id = db.sessions[s].user /\ p.tenant = db.sessions[s].tenant
  BY <1>1 DEF Principals
<1>3. db.sessions[s].user \in DOMAIN db.users /\ db.sessions[s].tenant \in DOMAIN db.tenants
  BY Rows DEF Linked
<1> QED BY <1>2, <1>3, Keys

\* ChangePassword, up to the check of the old password, keeps the invariant.
LEMMA ChangePasswordKeeps ==
    ASSUME IInv, NEW r \in Requests, ChangePassword(r)
    PROVE  IInv'
<1>1. PICK p \in People, pw \in Passwords :
         /\ Begin(r) /\ ValidatePasswordStrength(pw) /\ db.users[p.id].pw # NoPassword
         /\ Goto(r, [at |-> "change password", user |-> p.id, pw |-> pw])
  BY DEF ChangePassword, Authenticated
<1> DEFINE q == [at |-> "change password", user |-> p.id, pw |-> pw]
<1>2. p.id \in DOMAIN db.users /\ p.id \in Nat /\ pw \in Strong
  BY <1>1, SignedIn DEF Strong
<1>3. Live(p.id)
  BY <1>1 DEF Live, IInv, Erasures, Gone
<1>4. q \in States
  BY <1>2 DEF States
<1>5. Harmless(q) /\ q.at \notin InviteCalls
  BY <1>3 DEF Harmless, InviteCalls
<1> QED BY <1>1, <1>2, <1>4, <1>5, Asking DEF ChangePassword

\* The row of a user is set, with the same address and password.
LEMMA MildSet ==
    ASSUME NEW d \in Database, NEW answer, NEW u \in DOMAIN d.users, NEW row, Linked(d), SetsUser(answer, d, u, row),
           row.email = d.users[u].email, row.pw = d.users[u].pw
    PROVE  answer.err = "ok" /\ Mild(d, answer.db)
BY MildUsers DEF SetsUser

\* Columns that are neither the address nor the password.
LEMMA OtherColumns ==
    ASSUME NEW x \in Users, NEW a, NEW b
    PROVE  /\ [x EXCEPT !.verified = a].email = x.email /\ [x EXCEPT !.verified = a].pw = x.pw
           /\ [x EXCEPT !.status = a].email = x.email /\ [x EXCEPT !.status = a].pw = x.pw
           /\ [x EXCEPT !.tour = a].email = x.email /\ [x EXCEPT !.tour = a].pw = x.pw
           /\ [x EXCEPT !.age = a].email = x.email /\ [x EXCEPT !.age = a].pw = x.pw
           /\ [x EXCEPT !.fails = a, !.age = b].email = x.email /\ [x EXCEPT !.fails = a, !.age = b].pw = x.pw
           /\ /\ [x EXCEPT !.status = "active", !.fails = a, !.age = b].email = x.email
              /\ [x EXCEPT !.status = "active", !.fails = a, !.age = b].pw = x.pw
BY DEF Users

\* VerifyEmail, the address marked, keeps the invariant.
LEMMA MarkVerifiedKeeps ==
    ASSUME IInv, NEW r \in Requests, MarkVerified(r)
    PROVE  IInv'
<1>0. Counted /\ req[r].at = "mark verified"
  BY Continuing DEF IInv, MarkVerified
<1>1. req[r].user \in DOMAIN db.users /\ req[r].token \in DOMAIN db.verifs
  BY <1>0, Speaking, ReqHarmless DEF IInv, Grounded, OfUser, OfToken
<1>2. PICK answer : answer = MarkEmailVerified(req[r].user)
  OBVIOUS
<1>3. answer.err = "ok" /\ Mild(db, answer.db)
  BY <1>1, <1>2, Rows, MarkEmailVerifiedSets, MildSet, OtherColumns, UserRow, ZenonT(40)
<1>4. answer.db \in Database /\ Linked(answer.db) /\ req[r].token \in DOMAIN answer.db.verifs
  BY <1>1, <1>3 DEF Mild, Grows
<1>5. db' = MarkUsed(answer.db, req[r].token).db
  BY <1>2, <1>3 DEF MarkVerified
<1>6. Mild(answer.db, db')
  <2>1. CASE db' = answer.db
    BY <1>4, <2>1, MildKeeping
  <2>2. CASE db' # answer.db
    <3> DEFINE d == answer.db  v == req[r].token  row == [d.verifs[v] EXCEPT !.used = TRUE]
    <3>1. OnlyVerifs(d, db') /\ Edits(d.verifs, db'.verifs, v, row)
      BY <1>4, <1>5, <2>2, Rows, MarkUsedUses
    <3>2. d.verifs[v] \in Verifications
      BY <1>4, TableTypes
    <3>3. row.user = d.verifs[v].user /\ row.used /\ row.expired = d.verifs[v].expired
      BY <3>2 DEF Verifications
    <3> HIDE DEF d, v, row
    <3>4. d \in Database /\ Linked(d) /\ v \in DOMAIN d.verifs
      BY <1>4 DEF d, v
    <3>5. Mild(d, db')
      BY <3>1, <3>3, <3>4, MildVerifs
    <3> QED BY <3>5 DEF d
  <2> QED BY <2>1, <2>2
<1>7. Mild(db, db')
  BY <1>3, <1>6, MildTwice
<1> QED BY <1>0, <1>7, CalmIdle DEF MarkVerified, Answer, InviteCalls

\* Login, a failure counted, keeps the invariant.
LEMMA RecordFailureKeeps ==
    ASSUME IInv, NEW r \in Requests, RecordFailure(r)
    PROVE  IInv'
<1>0. Counted /\ req[r].at = "record failure"
  BY Continuing DEF IInv, RecordFailure
<1>1. req[r].user \in DOMAIN db.users /\ req[r].user \in Nat
  BY <1>0, CallsKnow, Speaking, ReqHarmless DEF IInv, Grounded, OfUser
<1>2. PICK answer : answer = RecordFailedLogin(req[r].user)
  OBVIOUS
<1>3. Mild(db, answer.db)
  <2>1. PICK n \in Nat, a \in Nat : SetsUser(answer, db, req[r].user, [db.users[req[r].user] EXCEPT !.fails = n, !.age = a])
    BY <1>1, <1>2, Rows, RecordFailedLoginSets
  <2>2. PICK row : row = [db.users[req[r].user] EXCEPT !.fails = n, !.age = a]
    OBVIOUS
  <2>3. SetsUser(answer, db, req[r].user, row)
    BY <2>1, <2>2
  <2>4. row.email = db.users[req[r].user].email /\ row.pw = db.users[req[r].user].pw
    BY <1>1, <2>2, Rows, OtherColumns, UserRow
  <2> QED BY <1>1, <2>3, <2>4, Rows, MildSet
<1>4. db' = answer.db /\ UNCHANGED history
  BY <1>2 DEF RecordFailure
<1> DEFINE q == [at |-> "lock user", user |-> req[r].user]
<1>5. Goto(r, q) \/ Goto(r, Idle)
  BY DEF RecordFailure
<1>6. CASE Goto(r, q)
  <2>1. q \in States
    BY <1>1 DEF States
  <2>2. req[r].user \in DOMAIN db'.users
    BY <1>1, <1>3, <1>4 DEF Mild, Grows
  <2>3. Calm(req[r], q)
    BY <1>0, <2>1, <2>2 DEF Calm, Anchored, Harmless, InviteCalls
  <2> QED BY <1>0, <1>3, <1>4, <1>6, <2>3, CalmRequest
<1>7. CASE Goto(r, Idle)
  BY <1>0, <1>3, <1>4, <1>7, CalmIdle DEF InviteCalls
<1> QED BY <1>5, <1>6, <1>7

\* Login, the account locked, keeps the invariant.
LEMMA LockKeeps ==
    ASSUME IInv, NEW r \in Requests, Lock(r)
    PROVE  IInv'
<1>0. Counted /\ req[r].at = "lock user"
  BY Continuing DEF IInv, Lock
<1>1. req[r].user \in DOMAIN db.users
  BY <1>0, Speaking, ReqHarmless DEF IInv, Grounded, OfUser
<1>2. Mild(db, LockUser(req[r].user).db)
  BY <1>1, Rows, LockUserSets, MildSet, OtherColumns, UserRow
<1> QED BY <1>0, <1>2, CalmIdle DEF Lock, Answer, InviteCalls

\* Login, the account unlocked, keeps the invariant.
LEMMA UnlockKeeps ==
    ASSUME IInv, NEW r \in Requests, Unlock(r)
    PROVE  IInv'
<1>0. Counted /\ req[r].at = "unlock user"
  BY Continuing DEF IInv, Unlock
<1>1. req[r].user \in DOMAIN db.users
  BY <1>0, Speaking, ReqHarmless DEF IInv, Grounded, OfUser
<1>2. Mild(db, UnlockUser(req[r].user).db)
  <2>1. PICK row : row = [db.users[req[r].user] EXCEPT !.status = "active", !.fails = 0, !.age = 0]
    OBVIOUS
  <2>2. SetsUser(UnlockUser(req[r].user), db, req[r].user, row)
    BY <1>1, <2>1, Rows, UnlockUserSets
  <2>3. row.email = db.users[req[r].user].email /\ row.pw = db.users[req[r].user].pw
    BY <1>1, <2>1, Rows, OtherColumns, UserRow
  <2> QED BY <1>1, <2>2, <2>3, Rows, MildSet
<1> QED BY <1>0, <1>2, CalmIdle DEF Unlock, Answer, InviteCalls

\* The tour completed keeps the invariant.
LEMMA TourSetKeeps ==
    ASSUME IInv, NEW r \in Requests, TourSet(r)
    PROVE  IInv'
<1>1. PICK p \in People, done \in BOOLEAN : Begin(r) /\ db' = SetTourCompleted(p.id, done).db
  BY DEF TourSet, Authenticated
<1>2. p.id \in DOMAIN db.users
  BY SignedIn
<1>3. Mild(db, db')
  <2>1. PICK row : row = [db.users[p.id] EXCEPT !.tour = done]
    OBVIOUS
  <2>2. SetsUser(SetTourCompleted(p.id, done), db, p.id, row)
    BY <1>1, <1>2, <2>1, Rows, SetTourCompletedSets
  <2>3. row.email = db.users[p.id].email /\ row.pw = db.users[p.id].pw
    BY <1>1, <1>2, <2>1, Rows, OtherColumns, UserRow
  <2> QED BY <1>1, <1>2, <2>2, <2>3, Rows, MildSet
<1>4. Counted
  BY <1>1, Beginning DEF IInv
<1> QED BY <1>3, <1>4, CalmAnswer DEF TourSet

\* A profile updated keeps the invariant.
LEMMA ProfileUpdateKeeps ==
    ASSUME IInv, NEW r \in Requests, ProfileUpdate(r)
    PROVE  IInv'
<1>1. PICK p \in People : Begin(r) /\ db' = UpdateProfile(p.id).db
  BY DEF ProfileUpdate, Authenticated
<1>2. p.id \in DOMAIN db.users
  BY SignedIn
<1>3. Mild(db, db')
  BY <1>1, <1>2, Rows, UpdateProfileKeeps
<1>4. Counted
  BY <1>1, Beginning DEF IInv
<1> QED BY <1>3, <1>4, CalmAnswer DEF ProfileUpdate

\* Logout keeps the invariant.
LEMMA LogoutKeeps ==
    ASSUME IInv, NEW r \in Requests, Logout(r)
    PROVE  IInv'
<1>1. PICK s \in DOMAIN db.sessions : db' = RevokeSession(s).db
  BY DEF Logout
<1>2. Mild(db, db')
  BY <1>1, Rows, RevokeSessionRevokes, MildSessions
<1>3. Counted
  BY Beginning DEF IInv, Logout
<1> QED BY <1>2, <1>3, CalmAnswer DEF Logout

\* A session revoked by its user keeps the invariant.
LEMMA RevokeOneSessionKeeps ==
    ASSUME IInv, NEW r \in Requests, RevokeOneSession(r)
    PROVE  IInv'
<1>1. PICK s \in DOMAIN db.sessions : Begin(r) /\ db' = RevokeSession(s).db
  BY DEF RevokeOneSession, Authenticated
<1>2. Mild(db, db')
  BY <1>1, Rows, RevokeSessionRevokes, MildSessions
<1>3. Counted
  BY <1>1, Beginning DEF IInv
<1> QED BY <1>2, <1>3, CalmAnswer DEF RevokeOneSession

\* All sessions revoked by their user keep the invariant.
LEMMA RevokeAllSessionsKeeps ==
    ASSUME IInv, NEW r \in Requests, RevokeAllSessions(r)
    PROVE  IInv'
<1>1. PICK p \in People : Begin(r) /\ db' = RevokeAllSessionsForUser(p.id).db
  BY DEF RevokeAllSessions, Authenticated
<1>2. Mild(db, db')
  BY <1>1, Rows, RevokeAllRevokes, MildSessions
<1>3. Counted
  BY <1>1, Beginning DEF IInv
<1> QED BY <1>2, <1>3, CalmAnswer DEF RevokeAllSessions

\* Memberships of people who were members.
LEMMA MildAmong ==
    ASSUME NEW d \in Database, NEW e, Linked(d), OnlyMembers(d, e), MembersAmong(d, e)
    PROVE  Mild(d, e)
BY MildMembers DEF MembersAmong, Linked

\* Roles that pass the check are roles.
LEMMA ValidRolesTyped ==
    ASSUME NEW roles
    PROVE  ValidRoles(roles) \in SUBSET Roles
BY DEF ValidRoles, Roles

\* A member's roles changed by an admin keep the invariant.
LEMMA UpdateMemberKeeps ==
    ASSUME IInv, NEW r \in Requests, UpdateMember(r)
    PROVE  IInv'
<1>1. PICK p \in People, u \in DOMAIN db.users, roles \in RoleLists :
         Begin(r) /\ db' = UpdateMembershipRoles(p.tenant, u, ValidRoles(roles)).db
  BY DEF UpdateMember, Authenticated
<1>2. Mild(db, db')
  BY <1>1, Rows, ValidRolesTyped, UpdateMembershipRolesEdits, MildAmong
<1>3. Counted
  BY <1>1, Beginning DEF IInv
<1> QED BY <1>2, <1>3, CalmAnswer DEF UpdateMember

\* A member removed by an admin keeps the invariant.
LEMMA RemoveMemberKeeps ==
    ASSUME IInv, NEW r \in Requests, RemoveMember(r)
    PROVE  IInv'
<1>1. PICK p \in People, u \in DOMAIN db.users : Begin(r) /\ db' = DeleteMembership(p.tenant, u).db
  BY DEF RemoveMember, Authenticated
<1>2. Mild(db, db')
  BY <1>1, Rows, DeleteMembershipRemoves, MildAmong
<1>3. Counted
  BY <1>1, Beginning DEF IInv
<1> QED BY <1>2, <1>3, CalmAnswer DEF RemoveMember

(***************************************************************************)
(* Calls that mail tokens, mint sessions and set passwords                 *)
(***************************************************************************)

\* How a request goes on, whatever else changes.
LEMMA Going ==
    ASSUME TypeOK, NEW r \in Requests, NEW q, Goto(r, q), Anchored(q)
    PROVE  Moving /\ req'[r] = q /\ \A x \in Requests : x # r => req'[x] = req[x]
BY DEF TypeOK, Goto, Anchored, Moving

\* The invitations stay, and the request deals with none.
LEMMA GoingPast ==
    ASSUME IInv, NEW r \in Requests, NEW q, Goto(r, q), q \in States, q.at \notin InviteCalls, req[r].at \notin InviteCalls,
           db'.invites = db.invites, UNCHANGED <<inviteAt, joined, crossed>>
    PROVE  Coalesced' /\ Accepted'
<1>1. req \in [Requests -> States]
  BY DEF IInv, TypeOK
<1>2. InvitesQuiet
  BY <1>1 DEF InvitesQuiet, Goto
<1> QED BY <1>2, InvitesStep DEF IInv

\* A table with one row more.
LEMMA NewRow ==
    ASSUME NEW table, NEW new, NEW row, Len(table) \in Nat, DOMAIN table = 1..Len(table), Adds(table, new, row)
    PROVE  /\ DOMAIN new = DOMAIN table \cup {Len(table) + 1} /\ Len(new) = Len(table) + 1
           /\ Len(table) + 1 \notin DOMAIN table
           /\ new[Len(table) + 1] = row
           /\ \A i \in DOMAIN table : new[i] = table[i]
BY DEF Adds

\* A token that is mailed to a live user, or to nobody, keeps the invariant.
LEMMA Mailing ==
    ASSUME IInv, NEW r \in Requests, Counted, Goto(r, Idle), req[r].at \notin InviteCalls \cup {"mark used", "revoke sessions"},
           NEW row, OnlyVerifs(db, db'), Adds(db.verifs, db'.verifs, row), row.user \in DOMAIN db.users,
           \/ mailbox' = mailbox
           \/ mailbox' = mailbox \cup {Len(db'.verifs)} /\ Live(row.user),
           UNCHANGED <<mintedBy, inviteAt, lapsed, erased, joined, crossed>>
    PROVE  IInv'
<1>0. TypeOK /\ Grounded /\ db \in Database /\ Linked(db)
  BY Rows DEF IInv
<1>1. /\ DOMAIN db'.verifs = DOMAIN db.verifs \cup {Len(db.verifs) + 1} /\ Len(db'.verifs) = Len(db.verifs) + 1
      /\ Len(db.verifs) + 1 \notin DOMAIN db.verifs
      /\ db'.verifs[Len(db.verifs) + 1] = row
      /\ \A v \in DOMAIN db.verifs : db'.verifs[v] = db.verifs[v]
  <2>1. Len(db.verifs) \in Nat /\ DOMAIN db.verifs = 1..Len(db.verifs)
    BY <1>0, TableDomains
  <2> QED BY <2>1, NewRow
<1>2. Linked(db')
  BY <1>0, <1>1 DEF Linked, OnlyVerifs
<1>3. Grows(db, db')
  BY <1>0, <1>1, <1>2 DEF Grows, OnlyVerifs
<1>4. mailbox' \subseteq DOMAIN db'.verifs
  BY <1>0, <1>1 DEF Grounded
<1>5. Recorded
  BY <1>0, <1>4 DEF TypeOK, Grounded, Recorded, OnlyVerifs
<1>6. Anchored(Idle) /\ Idle \in States /\ Idle.at \notin InviteCalls /\ Harmless(Idle)
  BY IdleCalm
<1>7. Moving /\ req'[r] = Idle /\ \A x \in Requests : x # r => req'[x] = req[x]
  BY <1>0, <1>6, Going
<1>8. TypeOK' /\ Grounded'
  BY <1>0, <1>3, <1>5, <1>7, GroundedStep
<1>9. OldPasswordEvicted'
  <2>1. SignInsQuiet
    BY <1>7 DEF SignInsQuiet, OnlyVerifs
  <2> QED BY <1>0, <2>1, SignInsStep DEF IInv
<1>10. PasswordsStrong'
  BY DEF IInv, PasswordsStrong, OnlyVerifs
<1>11. Stubbed' /\ Erasures' /\ Barred'
  <2>1. ASSUME NEW v \in mailbox'
        PROVE  \/ v \in mailbox /\ db'.verifs[v] = db.verifs[v]
               \/ Live(db'.verifs[v].user)
    BY <1>0, <1>1 DEF Grounded
  <2>2. ErasuresQuiet
    BY <1>6, <1>7, <2>1 DEF ErasuresQuiet, OnlyVerifs
  <2> QED BY <1>0, <2>2, ErasuresStep DEF IInv
<1>12. Coalesced' /\ Accepted'
  BY <1>6, GoingPast DEF OnlyVerifs
<1> QED BY <1>8, <1>9, <1>10, <1>11, <1>12 DEF IInv

\* The token of Signup and ResendVerification keeps the invariant.
LEMMA SendVerificationKeeps ==
    ASSUME IInv, NEW r \in Requests, SendVerification(r)
    PROVE  IInv'
<1>0. Counted /\ req[r].at = "send verification"
  BY Continuing DEF IInv, SendVerification
<1>1. req[r].user \in DOMAIN db.users /\ req[r].user \in Nat /\ Live(req[r].user)
  BY <1>0, CallsKnow, Speaking, ReqHarmless DEF IInv, Grounded, OfUser, Harmless
<1> DEFINE row == [user |-> req[r].user, purpose |-> "verify_email", used |-> FALSE, expired |-> FALSE]
<1>2. PICK answer : answer = CreateVerification(db, req[r].user, "verify_email")
  OBVIOUS
<1>3. answer.err = "ok" /\ OnlyVerifs(db, answer.db) /\ Adds(db.verifs, answer.db.verifs, row)
  BY <1>1, <1>2, Rows, CreateVerificationAdds
<1>4. db' = answer.db /\ Goto(r, Idle)
  BY <1>2, <1>3 DEF SendVerification, Then
<1>5. row.user = req[r].user
  OBVIOUS
<1> HIDE DEF row
<1> QED BY <1>0, <1>1, <1>3, <1>4, <1>5, Mailing DEF SendVerification, InviteCalls

\* A mail to a stub reaches nobody.
LEMMA SendResetKeeps ==
    ASSUME IInv, NEW r \in Requests, SendReset(r)
    PROVE  IInv'
<1>0. Counted /\ req[r].at = "send reset"
  BY Continuing DEF IInv, SendReset
<1>1. req[r].user \in DOMAIN db.users /\ req[r].user \in Nat
  BY <1>0, CallsKnow, Speaking, ReqHarmless DEF IInv, Grounded, OfUser
<1>2. Live(req[r].user) \/ req[r].email \notin Emails
  <2>1. Live(req[r].user) \/ req[r].email = -req[r].user
    BY <1>0, Speaking, ReqHarmless DEF Harmless, StubEmail
  <2> QED BY <1>1, <2>1, IdentityAssumption
<1> DEFINE row == [user |-> req[r].user, purpose |-> "password_reset", used |-> FALSE, expired |-> FALSE]
<1>3. PICK answer : answer = CreateVerification(db, req[r].user, "password_reset")
  OBVIOUS
<1>4. answer.err = "ok" /\ OnlyVerifs(db, answer.db) /\ Adds(db.verifs, answer.db.verifs, row)
  BY <1>1, <1>3, Rows, CreateVerificationAdds
<1>5. db' = answer.db /\ Goto(r, Idle)
  BY <1>3, <1>4 DEF SendReset, Then
<1>6. row.user = req[r].user
  OBVIOUS
<1> HIDE DEF row
<1>7. mailbox' = mailbox \/ (mailbox' = mailbox \cup {Len(db'.verifs)} /\ Live(row.user))
  BY <1>2, <1>6 DEF SendReset
<1> QED BY <1>0, <1>1, <1>4, <1>5, <1>6, <1>7, Mailing DEF SendReset, InviteCalls

\* The sign-ins of the history are counted from one.
LEMMA HistoryDomain ==
    ASSUME TypeOK
    PROVE  DOMAIN mintedBy = 1..Len(mintedBy)
<1>1. mintedBy \in Seq([pw : Nat, raced : BOOLEAN, erased : BOOLEAN])
  BY DEF TypeOK
<1> QED BY <1>1

\* What the history says of a sign-in is of its type.
LEMMA MintedTyped ==
    ASSUME NEW pw \in Nat, NEW old, NEW u, NEW S
    PROVE  [pw |-> pw, raced |-> pw # old, erased |-> u \in S] \in [pw : Nat, raced : BOOLEAN, erased : BOOLEAN]
BY SMT

\* The session is of the user who signed in, in a workspace he is a member of.
LEMMA Minting ==
    ASSUME IInv, NEW r \in Requests, Counted, Goto(r, Idle), req[r].at = "mint session",
           NEW d, Mild(db, d), NEW row \in Sessions, OnlySessions(d, db'), Adds(d.sessions, db'.sessions, row),
           row.user = req[r].user, row.tenant \in DOMAIN db.tenants, ~row.revoked,
           NEW minted \in [pw : Nat, raced : BOOLEAN, erased : BOOLEAN], minted.pw = req[r].pw,
           minted.raced = (req[r].pw # db.users[req[r].user].pw), minted.erased = (req[r].user \in DOMAIN erased),
           mintedBy' = Append(mintedBy, minted),
           UNCHANGED <<inviteAt, lapsed, erased, joined, crossed, mailbox>>
    PROVE  IInv'
<1> DEFINE u == req[r].user
           new == Len(db.sessions) + 1
<1>0. TypeOK /\ Grounded /\ db \in Database /\ Linked(db) /\ d \in Database /\ Linked(d)
  BY Rows DEF IInv, Mild, Grows
<1>1. u \in DOMAIN db.users /\ u \in Nat /\ req[r].pw \in Nat /\ Live(u)
  BY CallsKnow, Speaking, ReqHarmless, IdentityAssumption DEF IInv, Grounded, OfUser, Harmless
<1>2. /\ DOMAIN db'.sessions = DOMAIN db.sessions \cup {new} /\ Len(db'.sessions) = new
      /\ new \notin DOMAIN db.sessions
      /\ db'.sessions[new] = row
      /\ \A s \in DOMAIN db.sessions : db'.sessions[s] = d.sessions[s]
  <2>1. DOMAIN d.sessions = DOMAIN db.sessions /\ Len(d.sessions) = Len(db.sessions)
    BY DEF Mild
  <2>2. Len(d.sessions) \in Nat /\ DOMAIN d.sessions = 1..Len(d.sessions)
    BY <1>0, TableDomains
  <2>3. /\ DOMAIN db'.sessions = DOMAIN d.sessions \cup {Len(d.sessions) + 1} /\ Len(db'.sessions) = Len(d.sessions) + 1
        /\ Len(d.sessions) + 1 \notin DOMAIN d.sessions
        /\ db'.sessions[Len(d.sessions) + 1] = row
        /\ \A s \in DOMAIN d.sessions : db'.sessions[s] = d.sessions[s]
    BY <2>2, NewRow
  <2> QED BY <2>1, <2>3
<1>4. minted.pw = req[r].pw /\ minted.raced = (req[r].pw # db.users[u].pw) /\ minted.erased = (u \in DOMAIN erased)
  OBVIOUS
<1>5. mintedBy' = Append(mintedBy, minted)
  OBVIOUS
<1>6. /\ mintedBy' \in Seq([pw : Nat, raced : BOOLEAN, erased : BOOLEAN]) /\ Len(mintedBy') = new
      /\ mintedBy'[new] = minted
      /\ \A s \in DOMAIN db.sessions : mintedBy'[s] = mintedBy[s]
  <2>1. mintedBy \in Seq([pw : Nat, raced : BOOLEAN, erased : BOOLEAN]) /\ Len(mintedBy) = Len(db.sessions)
    BY <1>0 DEF TypeOK, Grounded
  <2>2. DOMAIN db.sessions = 1..Len(mintedBy)
    BY <1>0, <2>1, TableDomains
  <2>3. PICK n : n = Append(mintedBy, minted)
    OBVIOUS
  <2>4. n \in Seq([pw : Nat, raced : BOOLEAN, erased : BOOLEAN]) /\ Adds(mintedBy, n, minted)
    BY <2>1, <2>3, Inserting
  <2>5. /\ Len(n) = Len(mintedBy) + 1 /\ n[Len(mintedBy) + 1] = minted
        /\ \A i \in DOMAIN mintedBy : n[i] = mintedBy[i]
    BY <2>4 DEF Adds
  <2>6. DOMAIN mintedBy = 1..Len(mintedBy)
    BY <1>0, HistoryDomain
  <2> QED BY <1>5, <2>1, <2>2, <2>3, <2>4, <2>5, <2>6
<1>7. Grows(db, db')
  <2>1. DOMAIN db.sessions \subseteq DOMAIN db'.sessions
    BY <1>2
  <2>2. Linked(db')
    <3>1. ASSUME NEW s \in DOMAIN db'.sessions
          PROVE  db'.sessions[s].tenant \in DOMAIN db'.tenants /\ db'.sessions[s].user \in DOMAIN db'.users
      <4>1. CASE s \in DOMAIN db.sessions
        BY <1>0, <1>2, <4>1 DEF Mild, Linked, OnlySessions
      <4>2. CASE s = new
        BY <1>1, <1>2, <4>2 DEF Mild, Grows, OnlySessions
      <4> QED BY <1>2, <4>1, <4>2
    <3> QED BY <1>0, <3>1 DEF Linked, OnlySessions
  <2> QED BY <1>0, <2>1, <2>2 DEF Grows, Mild, OnlySessions
<1>8. Recorded
  BY <1>0, <1>2, <1>6, <1>7 DEF TypeOK, Grounded, Recorded, OnlySessions, Mild, Grows
<1>9. Anchored(Idle) /\ Idle \in States /\ Idle.at \notin InviteCalls /\ Harmless(Idle)
  BY IdleCalm
<1>10. Moving /\ req'[r] = Idle /\ \A x \in Requests : x # r => req'[x] = req[x]
  BY <1>0, <1>9, Going
<1>11. TypeOK' /\ Grounded'
  BY <1>0, <1>7, <1>8, <1>10, GroundedStep
<1>12. OldPasswordEvicted'
  <2>1. ASSUME NEW s \in DOMAIN db'.sessions, NEW x, x = db'.sessions[s].user,
               ~db'.sessions[s].revoked, mintedBy'[s].pw # db'.users[x].pw
        PROVE  \/ mintedBy'[s].raced
               \/ x \in lapsed'
               \/ \E y \in Requests : req'[y].at \in {"mark used", "revoke sessions"} /\ req'[y].user = x
    <3>1. CASE s = new
      <4>1. x = u /\ db'.users[u].pw = db.users[u].pw
        BY <1>1, <1>2, <2>1, <3>1 DEF Mild, OnlySessions
      <4> QED BY <1>4, <1>6, <2>1, <3>1, <4>1
    <3>2. CASE s \in DOMAIN db.sessions
      <4>1. db.sessions[s].user = x /\ ~db.sessions[s].revoked /\ x \in DOMAIN db.users
        BY <1>0, <1>2, <2>1, <3>2 DEF Mild, Linked
      <4>2. mintedBy[s].pw # db.users[x].pw
        BY <1>6, <2>1, <3>2, <4>1 DEF Mild, OnlySessions
      <4>3. mintedBy[s].raced \/ x \in lapsed \/ \E y \in Requests : req[y].at \in {"mark used", "revoke sessions"} /\ req[y].user = x
        BY <3>2, <4>1, <4>2 DEF IInv, OldPasswordEvicted
      <4> QED BY <1>6, <1>10, <3>2, <4>3
    <3> QED BY <1>2, <3>1, <3>2
  <2> QED BY <2>1 DEF OldPasswordEvicted
<1>13. PasswordsStrong'
  BY PasswordsStep DEF IInv, Mild, OnlySessions
<1>14. Stubbed' /\ Erasures' /\ Barred'
  <2>1. DOMAIN erased \subseteq DOMAIN db.users /\ mailbox \subseteq DOMAIN db.verifs
    BY <1>0 DEF Grounded
  <2>2. ASSUME NEW s \in DOMAIN db'.sessions
        PROVE  \/ s \in DOMAIN db.sessions /\ db'.sessions[s].user = db.sessions[s].user /\ mintedBy'[s] = mintedBy[s]
               \/ mintedBy'[s].erased => db'.sessions[s].user \in DOMAIN erased /\ erased[db'.sessions[s].user]
    <3>1. CASE s = new
      BY <1>1, <1>2, <1>4, <1>6, <3>1 DEF Live
    <3>2. CASE s \in DOMAIN db.sessions
      <4>1. db'.sessions[s] = d.sessions[s] /\ mintedBy'[s] = mintedBy[s]
        BY <1>2, <1>6, <3>2
      <4>2. d.sessions[s].user = db.sessions[s].user
        BY <3>2 DEF Mild
      <4> QED BY <3>2, <4>1, <4>2
    <3> QED BY <1>2, <3>1, <3>2
  <2>3. db'.users = d.users /\ db'.verifs = d.verifs
    BY DEF OnlySessions
  <2>4. \A x \in DOMAIN erased : db'.users[x].email = db.users[x].email /\ db'.users[x].pw = db.users[x].pw
    BY <2>1, <2>3 DEF Mild
  <2>5. ASSUME NEW v \in mailbox
        PROVE  /\ db'.verifs[v].user = db.verifs[v].user
               /\ db.verifs[v].used => db'.verifs[v].used
               /\ db.verifs[v].expired => db'.verifs[v].expired
    BY <2>1, <2>3 DEF Mild
  <2>6. \A x \in Requests : req'[x] = req[x] \/ Harmless(req'[x])
    BY <1>9, <1>10
  <2>7. ErasuresQuiet
    BY <2>2, <2>4, <2>5, <2>6 DEF ErasuresQuiet
  <2> QED BY <1>0, <2>7, ErasuresStep DEF IInv
<1>15. Coalesced' /\ Accepted'
  BY <1>9, GoingPast DEF OnlySessions, Mild, InviteCalls
<1> QED BY <1>11, <1>12, <1>13, <1>14, <1>15 DEF IInv

\* Login, the session: a password that was checked before, and may have changed
\* since.
LEMMA MintSessionKeeps ==
    ASSUME IInv, NEW r \in Requests, MintSession(r)
    PROVE  IInv'
<1>0. Counted /\ req[r].at = "mint session"
  BY Continuing DEF IInv, MintSession
<1> DEFINE u == req[r].user
<1>1. u \in DOMAIN db.users /\ u \in Nat
  BY <1>0, CallsKnow, Speaking, ReqHarmless DEF IInv, Grounded, OfUser
<1>2. PICK d : d = ResetFailedLogin(u).db
  OBVIOUS
<1>3. Mild(db, d) /\ d.members = db.members
  <2>1. PICK row : row = [db.users[u] EXCEPT !.fails = 0, !.age = 0]
    OBVIOUS
  <2>2. SetsUser(ResetFailedLogin(u), db, u, row)
    BY <1>1, <2>1, Rows, ResetFailedLoginSets
  <2>3. row.email = db.users[u].email /\ row.pw = db.users[u].pw
    BY <1>1, <2>1, Rows, OtherColumns, UserRow
  <2> QED BY <1>1, <1>2, <2>2, <2>3, Rows, MildSet DEF SetsUser, OnlyUsers
<1>4. CASE db' = d /\ UNCHANGED mintedBy
  BY <1>0, <1>3, <1>4, CalmIdle DEF MintSession, Answer, InviteCalls, history
<1>5. ASSUME NEW i \in FirstListed(ListForUser(d, u)),
             db' = CreateSession(d, u, d.members[i].tenant).db,
             mintedBy' = Append(mintedBy, [pw |-> req[r].pw, raced |-> req[r].pw # db.users[u].pw,
                                           erased |-> u \in DOMAIN erased])
      PROVE  IInv'
  <2>1. i \in DOMAIN db.members
    BY <1>3, <1>5 DEF FirstListed, ListForUser, Repo, Mem!First, Mem!ListForUser, Pg!ListForUser
  <2>2. d.members[i].tenant \in DOMAIN db.tenants /\ d.members[i].tenant \in Nat
    BY <1>3, <2>1, Rows, Keys DEF Linked
  <2>3. PICK row : row = [user |-> u, tenant |-> d.members[i].tenant, revoked |-> FALSE, expired |-> FALSE]
    OBVIOUS
  <2>4. row \in Sessions /\ row.user = u /\ row.tenant = d.members[i].tenant /\ ~row.revoked
    BY <1>1, <2>2, <2>3 DEF Sessions
  <2>5. OnlySessions(d, db') /\ Adds(d.sessions, db'.sessions, row)
    BY <1>1, <1>3, <1>5, <2>2, <2>3, Rows, CreateSessionAdds DEF Mild, Grows
  <2>6. Goto(r, Idle) /\ UNCHANGED <<inviteAt, lapsed, erased, joined, crossed, mailbox>>
    BY DEF MintSession, Answer
  <2> HIDE DEF u
  <2>7. row.user = req[r].user
    BY <2>4 DEF u
  <2>8. PICK minted : minted = [pw |-> req[r].pw, raced |-> req[r].pw # db.users[req[r].user].pw,
                                erased |-> req[r].user \in DOMAIN erased]
    OBVIOUS
  <2>9. req[r].pw \in Nat
    BY <1>0, CallsKnow, ReqHarmless, IdentityAssumption
  <2>10. minted \in [pw : Nat, raced : BOOLEAN, erased : BOOLEAN]
    BY <2>8, <2>9, MintedTyped
  <2>11. /\ minted.pw = req[r].pw /\ minted.raced = (req[r].pw # db.users[req[r].user].pw)
         /\ minted.erased = (req[r].user \in DOMAIN erased)
    BY <2>8
  <2>12. mintedBy' = Append(mintedBy, minted)
    BY <1>5, <2>8 DEF u
  <2> QED BY <1>0, <1>3, <2>2, <2>4, <2>5, <2>6, <2>7, <2>10, <2>11, <2>12, Minting
<1> QED BY <1>2, <1>4, <1>5 DEF MintSession

\* The password of u changes, and the request goes on to revoke sessions.
LEMMA OldPasswordStep ==
    ASSUME Grounded, OldPasswordEvicted, NEW r \in Requests, NEW u \in DOMAIN db.users,
           req'[r].at \in {"mark used", "revoke sessions"}, req'[r].user = u,
           \A x \in Requests : x # r => req'[x] = req[x],
           req[r].at \notin {"mark used", "revoke sessions"},
           db'.sessions = db.sessions, mintedBy' = mintedBy, lapsed' = lapsed,
           \A x \in DOMAIN db.users : x # u => db'.users[x].pw = db.users[x].pw
    PROVE  OldPasswordEvicted'
<1>1. ASSUME NEW s \in DOMAIN db'.sessions, NEW x, x = db'.sessions[s].user,
             ~db'.sessions[s].revoked, mintedBy'[s].pw # db'.users[x].pw
      PROVE  \/ mintedBy'[s].raced
             \/ x \in lapsed'
             \/ \E y \in Requests : req'[y].at \in {"mark used", "revoke sessions"} /\ req'[y].user = x
  <2>1. CASE x = u
    BY <2>1
  <2>2. CASE x # u
    <3>1. x \in DOMAIN db.users
      BY <1>1 DEF Grounded, Linked
    <3>2. mintedBy[s].pw # db.users[x].pw
      BY <1>1, <2>2, <3>1
    <3>3. mintedBy[s].raced \/ x \in lapsed \/ \E y \in Requests : req[y].at \in {"mark used", "revoke sessions"} /\ req[y].user = x
      BY <1>1, <3>2, ZenonT(40) DEF OldPasswordEvicted
    <3> QED BY <3>3
  <2> QED BY <2>1, <2>2
<1> QED BY <1>1 DEF OldPasswordEvicted

\* A new password whose handler has the sessions still to revoke keeps the
\* invariant.
LEMMA NewPassword ==
    ASSUME IInv, NEW r \in Requests, NEW q, Counted, Goto(r, q), Anchored(q), Harmless(q), q.at \in {"mark used", "revoke sessions"},
           req[r].at \notin InviteCalls \cup {"mark used", "revoke sessions"},
           NEW u \in DOMAIN db.users, q.user = u, Live(u),
           NEW row, OnlyUsers(db, db'), Edits(db.users, db'.users, u, row), row.email = db.users[u].email,
           ValidatePasswordStrength(row.pw), UNCHANGED history
    PROVE  IInv'
<1>0. TypeOK /\ Grounded /\ db \in Database /\ Linked(db)
  BY Rows DEF IInv
<1>1. DOMAIN db'.users = DOMAIN db.users
  BY DEF Edits
<1>2. /\ db'.users[u].email = db.users[u].email /\ db'.users[u].pw = row.pw
      /\ \A x \in DOMAIN db.users : x # u => db'.users[x] = db.users[x]
  BY DEF Edits
<1>3. Grows(db, db')
  <2>1. Linked(db')
    BY <1>0, <1>1 DEF Linked, OnlyUsers
  <2> QED BY <1>0, <1>1, <2>1 DEF Grows, OnlyUsers
<1>4. Recorded
  BY <1>0, <1>3, MildRecorded DEF OnlyUsers
<1>5. Moving /\ req'[r] = q /\ \A x \in Requests : x # r => req'[x] = req[x]
  BY <1>0, Going
<1>6. TypeOK' /\ Grounded'
  BY <1>0, <1>3, <1>4, <1>5, GroundedStep
<1>7. OldPasswordEvicted'
  <2>1. /\ req[r].at \notin {"mark used", "revoke sessions"}
        /\ db'.sessions = db.sessions /\ mintedBy' = mintedBy /\ lapsed' = lapsed
        /\ req'[r].at \in {"mark used", "revoke sessions"} /\ req'[r].user = u
        /\ \A x \in DOMAIN db.users : x # u => db'.users[x].pw = db.users[x].pw
    BY <1>2, <1>5 DEF OnlyUsers, history
  <2>2. OldPasswordEvicted
    BY DEF IInv
  <2> QED BY <1>0, <1>5, <2>1, <2>2, OldPasswordStep
<1>8. PasswordsStrong'
  BY <1>1, <1>2 DEF IInv, PasswordsStrong
<1>9. Stubbed' /\ Erasures' /\ Barred'
  <2>1. ErasuresQuiet
    BY <1>0, <1>2, <1>5 DEF ErasuresQuiet, Grounded, OnlyUsers, history, Live
  <2> QED BY <1>0, <2>1, ErasuresStep DEF IInv
<1>10. Coalesced' /\ Accepted'
  BY GoingPast DEF OnlyUsers, history, Anchored, InviteCalls
<1> QED BY <1>6, <1>7, <1>8, <1>9, <1>10 DEF IInv

\* ResetPassword, the new password, keeps the invariant.
LEMMA ResetUpdateKeeps ==
    ASSUME IInv, NEW r \in Requests, ResetUpdate(r)
    PROVE  IInv'
<1>0. Counted /\ req[r].at = "update password"
  BY Continuing DEF IInv, ResetUpdate
<1> DEFINE u == req[r].user
           q == [at |-> "mark used", user |-> u, token |-> req[r].token]
<1>1. /\ u \in DOMAIN db.users /\ u \in Nat /\ Live(u)
      /\ req[r].pw \in Strong /\ req[r].token \in Nat /\ req[r].token \in DOMAIN db.verifs
  BY <1>0, CallsKnow, Speaking, ReqHarmless DEF IInv, Grounded, OfUser, OfToken, Harmless
<1>2. PICK row : row = [db.users[u] EXCEPT !.pw = req[r].pw]
  OBVIOUS
<1>3. SetsUser(UpdatePassword(u, req[r].pw), db, u, row)
  BY <1>1, <1>2, Rows, UpdatePasswordSets, IdentityAssumption DEF Strong
<1>4. row.email = db.users[u].email /\ row.pw = req[r].pw
  BY <1>1, <1>2, Rows, UserRow DEF Users
<1>5. PICK answer : answer = UpdatePassword(u, req[r].pw)
  OBVIOUS
<1>6. answer.err = "ok" /\ OnlyUsers(db, answer.db) /\ Edits(db.users, answer.db.users, u, row)
  BY <1>3, <1>5 DEF SetsUser
<1>7. db' = answer.db /\ Goto(r, q)
  BY <1>5, <1>6 DEF ResetUpdate, Then
<1>8. DOMAIN db'.users = DOMAIN db.users /\ db'.verifs = db.verifs
  BY <1>6, <1>7 DEF OnlyUsers, Edits
<1>9. q \in States
  BY <1>1 DEF States
<1>10. Anchored(q) /\ Harmless(q)
  BY <1>1, <1>8, <1>9 DEF Anchored, Harmless
<1>11. ValidatePasswordStrength(row.pw)
  BY <1>1, <1>4 DEF Strong
<1>12. q.at \in {"mark used", "revoke sessions"} /\ q.user = u
  OBVIOUS
<1> HIDE DEF u, q
<1> QED BY <1>0, <1>1, <1>4, <1>6, <1>7, <1>10, <1>11, <1>12, NewPassword DEF ResetUpdate, InviteCalls

\* ChangePassword, the new password, keeps the invariant.
LEMMA ChangeUpdateKeeps ==
    ASSUME IInv, NEW r \in Requests, ChangeUpdate(r)
    PROVE  IInv'
<1>0. Counted /\ req[r].at = "change password"
  BY Continuing DEF IInv, ChangeUpdate
<1> DEFINE u == req[r].user
           q == [at |-> "revoke sessions", user |-> u, then |-> "answer"]
<1>1. u \in DOMAIN db.users /\ u \in Nat /\ Live(u) /\ req[r].pw \in Strong
  BY <1>0, CallsKnow, Speaking, ReqHarmless DEF IInv, Grounded, OfUser, Harmless
<1>2. PICK row : row = [db.users[u] EXCEPT !.pw = req[r].pw]
  OBVIOUS
<1>3. SetsUser(UpdatePassword(u, req[r].pw), db, u, row)
  BY <1>1, <1>2, Rows, UpdatePasswordSets, IdentityAssumption DEF Strong
<1>4. row.email = db.users[u].email /\ row.pw = req[r].pw
  BY <1>1, <1>2, Rows, UserRow DEF Users
<1>5. PICK answer : answer = UpdatePassword(u, req[r].pw)
  OBVIOUS
<1>6. answer.err = "ok" /\ OnlyUsers(db, answer.db) /\ Edits(db.users, answer.db.users, u, row)
  BY <1>3, <1>5 DEF SetsUser
<1>7. db' = answer.db /\ Goto(r, q)
  BY <1>5, <1>6 DEF ChangeUpdate, Then
<1>8. DOMAIN db'.users = DOMAIN db.users
  BY <1>6, <1>7 DEF OnlyUsers, Edits
<1>9. q \in States
  BY <1>1 DEF States
<1>10. Anchored(q) /\ Harmless(q)
  BY <1>1, <1>8, <1>9 DEF Anchored, Harmless
<1>11. ValidatePasswordStrength(row.pw)
  BY <1>1, <1>4 DEF Strong
<1>12. q.at \in {"mark used", "revoke sessions"} /\ q.user = u
  OBVIOUS
<1> HIDE DEF u, q
<1> QED BY <1>0, <1>1, <1>4, <1>6, <1>7, <1>10, <1>11, <1>12, NewPassword DEF ChangeUpdate, InviteCalls

\* The call on the way to the sessions of u: whatever else, u is not forgotten.
LEMMA StillRevoking ==
    ASSUME Grounded, OldPasswordEvicted, NEW r \in Requests, NEW u, u = req[r].user,
           \A x \in Requests : x # r => req'[x] = req[x],
           db'.sessions = db.sessions, db'.users = db.users, UNCHANGED mintedBy, lapsed \subseteq lapsed',
           u \in lapsed' \/ (req'[r].at \in {"mark used", "revoke sessions"} /\ req'[r].user = u)
    PROVE  OldPasswordEvicted'
<1>1. ASSUME NEW s \in DOMAIN db'.sessions, NEW x, x = db'.sessions[s].user,
             ~db'.sessions[s].revoked, mintedBy'[s].pw # db'.users[x].pw
      PROVE  \/ mintedBy'[s].raced
             \/ x \in lapsed'
             \/ \E y \in Requests : req'[y].at \in {"mark used", "revoke sessions"} /\ req'[y].user = x
  <2>1. CASE x = u
    BY <2>1
  <2>2. CASE x # u
    <3>1. mintedBy[s].raced \/ x \in lapsed \/ \E y \in Requests : req[y].at \in {"mark used", "revoke sessions"} /\ req[y].user = x
      BY <1>1 DEF OldPasswordEvicted
    <3> QED BY <2>2, <3>1
  <2> QED BY <2>1, <2>2
<1> QED BY <1>1 DEF OldPasswordEvicted

\* ResetPassword, the token used, keeps the invariant.
LEMMA ResetMarkUsedKeeps ==
    ASSUME IInv, NEW r \in Requests, ResetMarkUsed(r)
    PROVE  IInv'
<1>0. Counted /\ req[r].at = "mark used"
  BY Continuing DEF IInv, ResetMarkUsed
<1> DEFINE u == req[r].user
           v == req[r].token
           q == [at |-> "revoke sessions", user |-> u, then |-> "unlock user"]
<1>1. /\ u \in DOMAIN db.users /\ u \in Nat /\ Live(u) /\ v \in DOMAIN db.verifs
      /\ TypeOK /\ Grounded /\ db \in Database /\ Linked(db)
  BY <1>0, Rows, CallsKnow, Speaking, ReqHarmless DEF IInv, Grounded, OfUser, OfToken, Harmless
<1>2. PICK answer : answer = MarkUsed(db, v)
  OBVIOUS
<1>3. /\ Mild(db, answer.db)
      /\ answer.db.sessions = db.sessions /\ answer.db.users = db.users
  <2>1. CASE answer.db = db
    BY <2>1, Rows
  <2>2. CASE answer.db # db
    <3>1. PICK row : row = [db.verifs[v] EXCEPT !.used = TRUE]
      OBVIOUS
    <3>2. OnlyVerifs(db, answer.db) /\ Edits(db.verifs, answer.db.verifs, v, row)
      BY <1>1, <1>2, <2>2, <3>1, Rows, MarkUsedUses
    <3>3. db.verifs[v] \in Verifications
      BY <1>1, TableTypes
    <3>4. row.user = db.verifs[v].user /\ row.used /\ row.expired = db.verifs[v].expired
      BY <3>1, <3>3 DEF Verifications
    <3> QED BY <1>1, <3>2, <3>4, MildVerifs DEF OnlyVerifs
  <2> QED BY <2>1, <2>2
<1>4. /\ db' = answer.db
      /\ Goto(r, IF answer.err = "ok" THEN q ELSE Idle)
      /\ lapsed' = IF answer.err = "ok" THEN lapsed ELSE lapsed \cup {u}
  BY <1>2 DEF ResetMarkUsed, Then
<1>5. UNCHANGED <<mintedBy, inviteAt, erased, joined, crossed, mailbox>>
  BY DEF ResetMarkUsed
<1>6. q \in States /\ q.at = "revoke sessions" /\ q.user = u
  BY <1>1 DEF States
<1>7. Anchored(q) /\ Harmless(q) /\ q.at \notin InviteCalls
  BY <1>1, <1>3, <1>4, <1>6 DEF Anchored, Harmless, InviteCalls
<1> HIDE DEF q, u, v
<1>8. PICK to : /\ Goto(r, to) /\ Anchored(to) /\ Harmless(to) /\ to.at \notin InviteCalls /\ to \in States
                /\ \/ u \in lapsed'
                   \/ to.at \in {"mark used", "revoke sessions"} /\ to.user = u
  <2>1. CASE answer.err = "ok"
    BY <1>4, <1>6, <1>7, <2>1
  <2>2. CASE answer.err # "ok"
    BY <1>4, <2>2, IdleCalm
  <2> QED BY <2>1, <2>2
<1>9. Moving /\ req'[r] = to /\ \A x \in Requests : x # r => req'[x] = req[x]
  BY <1>1, <1>8, Going
<1>10. lapsed \subseteq lapsed' /\ lapsed' \subseteq Nat
  BY <1>1, <1>4 DEF TypeOK
<1>11. TypeOK' /\ Grounded'
  <2>1. Recorded
    BY <1>1, <1>3, <1>4, <1>5, <1>10 DEF TypeOK, Grounded, Recorded, Mild, Grows
  <2> QED BY <1>0, <1>1, <1>3, <1>4, <1>9, <2>1, GroundedStep DEF Mild
<1>12. OldPasswordEvicted'
  BY <1>1, <1>3, <1>4, <1>5, <1>8, <1>9, <1>10, StillRevoking DEF IInv, u
<1>13. PasswordsStrong'
  BY <1>3, <1>4 DEF IInv, PasswordsStrong
<1>14. Stubbed' /\ Erasures' /\ Barred'
  <2>1. mailbox \subseteq DOMAIN db.verifs
    BY <1>1 DEF Grounded
  <2>2. ErasuresQuiet
    BY <1>3, <1>4, <1>5, <1>8, <1>9, <2>1 DEF ErasuresQuiet, Mild
  <2> QED BY <1>1, <2>2, ErasuresStep DEF IInv
<1>15. Coalesced' /\ Accepted'
  BY <1>0, <1>3, <1>4, <1>5, <1>8, GoingPast DEF Mild, InviteCalls
<1> QED BY <1>11, <1>12, <1>13, <1>14, <1>15 DEF IInv

\* The sessions revoked after a new password: from here on the old one opens
\* nothing.
LEMMA RevokeSessionsKeeps ==
    ASSUME IInv, NEW r \in Requests, RevokeSessions(r)
    PROVE  IInv'
<1>0. Counted /\ req[r].at = "revoke sessions"
  BY Continuing DEF IInv, RevokeSessions
<1> DEFINE u == req[r].user
<1>1. /\ u \in DOMAIN db.users /\ u \in Nat /\ req[r].then \in {"unlock user", "answer"}
      /\ Live(u) \/ req[r].then = "answer"
      /\ TypeOK /\ Grounded /\ db \in Database /\ Linked(db)
  BY <1>0, Rows, CallsKnow, Speaking, ReqHarmless DEF IInv, Grounded, OfUser, Harmless
<1> DEFINE S == {s \in DOMAIN db.sessions : db.sessions[s].user = u}
<1>2. Revokes(db, db', S)
  BY Rows, RevokeAllRevokes DEF RevokeSessions
<1>3. Mild(db, db')
  BY <1>1, <1>2, MildSessions
<1>4. /\ Goto(r, IF req[r].then = "unlock user" THEN [at |-> "unlock user", user |-> u] ELSE Idle)
      /\ lapsed' = lapsed \ {u}
      /\ UNCHANGED <<mintedBy, inviteAt, erased, joined, crossed, mailbox>>
  BY DEF RevokeSessions
<1>5. PICK to : Goto(r, to) /\ Anchored(to) /\ Harmless(to) /\ to.at \notin InviteCalls /\ to \in States
  <2>1. CASE req[r].then = "unlock user"
    <3>1. PICK q : q = [at |-> "unlock user", user |-> u]
      OBVIOUS
    <3>2. q \in States /\ q.user = u /\ q.at = "unlock user"
      BY <1>1, <3>1 DEF States
    <3>3. "invite" \notin DOMAIN q /\ "tenant" \notin DOMAIN q /\ "token" \notin DOMAIN q
      BY <3>1
    <3>4. u \in DOMAIN db'.users
      BY <1>1, <1>3 DEF Mild, Grows
    <3>5. Anchored(q) /\ Harmless(q) /\ q.at \notin InviteCalls
      BY <1>1, <2>1, <3>2, <3>3, <3>4 DEF Anchored, Harmless, InviteCalls
    <3> QED BY <1>4, <2>1, <3>1, <3>2, <3>5
  <2>2. CASE req[r].then # "unlock user"
    BY <1>4, <2>2, IdleCalm
  <2> QED BY <2>1, <2>2
<1>6. Moving /\ req'[r] = to /\ \A x \in Requests : x # r => req'[x] = req[x]
  BY <1>1, <1>5, Going
<1>7. TypeOK' /\ Grounded'
  <2>1. lapsed' \subseteq Nat
    BY <1>1, <1>4 DEF TypeOK
  <2>2. Recorded
    BY <1>1, <1>3, <1>4, <2>1 DEF TypeOK, Grounded, Recorded, Mild, Grows
  <2> QED BY <1>0, <1>1, <1>3, <1>6, <2>2, GroundedStep DEF Mild
<1>8. OldPasswordEvicted'
  <2>1. ASSUME NEW s \in DOMAIN db'.sessions, NEW x, x = db'.sessions[s].user,
               ~db'.sessions[s].revoked, mintedBy'[s].pw # db'.users[x].pw
        PROVE  \/ mintedBy'[s].raced
               \/ x \in lapsed'
               \/ \E y \in Requests : req'[y].at \in {"mark used", "revoke sessions"} /\ req'[y].user = x
    <3>1. s \in DOMAIN db.sessions /\ db.sessions[s].user = x /\ ~db.sessions[s].revoked /\ x # u /\ x \in DOMAIN db.users
      BY <1>1, <1>2, <2>1 DEF Revokes, Linked
    <3>2. mintedBy[s].pw # db.users[x].pw
      BY <1>3, <1>4, <2>1, <3>1 DEF Mild
    <3>3. mintedBy[s].raced \/ x \in lapsed \/ \E y \in Requests : req[y].at \in {"mark used", "revoke sessions"} /\ req[y].user = x
      BY <3>1, <3>2 DEF IInv, OldPasswordEvicted
    <3> QED BY <1>4, <1>6, <3>1, <3>3
  <2> QED BY <2>1 DEF OldPasswordEvicted
<1>9. PasswordsStrong'
  BY PasswordsStep, <1>3 DEF IInv, Mild
<1>10. Stubbed' /\ Erasures' /\ Barred'
  <2>1. mailbox \subseteq DOMAIN db.verifs /\ DOMAIN erased \subseteq DOMAIN db.users
    BY <1>1 DEF Grounded
  <2>2. ErasuresQuiet
    BY <1>3, <1>4, <1>5, <1>6, <2>1 DEF ErasuresQuiet, Mild
  <2> QED BY <1>1, <2>2, ErasuresStep DEF IInv
<1>11. Coalesced' /\ Accepted'
  BY <1>0, <1>3, <1>4, <1>5, GoingPast DEF Mild, InviteCalls
<1> QED BY <1>7, <1>8, <1>9, <1>10, <1>11 DEF IInv

\* Who is erased with nothing left to act for the account is gone.
LEMMA DeleteAccountKeeps ==
    ASSUME IInv, NEW r \in Requests, DeleteAccount(r)
    PROVE  IInv'
<1>1. PICK p \in People :
         /\ Begin(r)
         /\ Then(r, PseudonymiseUser(p.id), [at |-> "revoke sessions", user |-> p.id, then |-> "answer"])
         /\ erased' = [u \in DOMAIN erased \cup {p.id} |->
                          IF u = p.id THEN Leftover(u) \/ (u \in DOMAIN erased /\ erased[u]) ELSE erased[u]]
  BY DEF DeleteAccount, Authenticated
<1> DEFINE u == p.id
           q == [at |-> "revoke sessions", user |-> p.id, then |-> "answer"]
<1>2. /\ u \in DOMAIN db.users /\ u \in Nat
      /\ TypeOK /\ Grounded /\ db \in Database /\ Linked(db)
  BY Rows, SignedIn DEF IInv
<1>3. Counted /\ req[r].at = "idle"
  BY <1>1, <1>2, Beginning
<1>4. PICK row : row = [db.users[u] EXCEPT !.email = StubEmail(u), !.pw = NoPassword, !.status = "deleted"]
  OBVIOUS
<1>5. row.email = StubEmail(u) /\ row.pw = NoPassword
  BY <1>2, <1>4, UserRow DEF Users
<1>6. PICK answer : answer = PseudonymiseUser(u)
  OBVIOUS
<1>7. answer.err = "ok" /\ OnlyUsers(db, answer.db) /\ Edits(db.users, answer.db.users, u, row)
  BY <1>2, <1>4, <1>6, Rows, PseudonymiseUserSets DEF SetsUser
<1>8. db' = answer.db /\ Goto(r, q)
  BY <1>1, <1>6, <1>7 DEF Then
<1>9. UNCHANGED <<mintedBy, inviteAt, lapsed, joined, crossed, mailbox>>
  BY DEF DeleteAccount
<1>10. /\ q \in States /\ q.at = "revoke sessions" /\ q.user = u /\ q.then = "answer"
       /\ "invite" \notin DOMAIN q /\ "tenant" \notin DOMAIN q /\ "token" \notin DOMAIN q
  BY <1>2 DEF States
<1>11. /\ DOMAIN erased' = DOMAIN erased \cup {u}
       /\ erased'[u] = (Leftover(u) \/ (u \in DOMAIN erased /\ erased[u]))
       /\ \A x \in DOMAIN erased : x # u => erased'[x] = erased[x]
  BY <1>1
<1>12. erased' \in [DOMAIN erased' -> BOOLEAN]
  <2>1. \A x \in DOMAIN erased : erased[x] \in BOOLEAN
    BY <1>2 DEF TypeOK
  <2>2. PICK b \in BOOLEAN : b = (Leftover(u) \/ (u \in DOMAIN erased /\ erased[u]))
    OBVIOUS
  <2>3. erased' = [x \in DOMAIN erased \cup {u} |-> IF x = u THEN b ELSE erased[x]]
    BY <1>1, <2>2
  <2> QED BY <2>1, <2>3
<1> HIDE DEF q, u
<1>13. DOMAIN db'.users = DOMAIN db.users
  BY <1>7, <1>8 DEF Edits
<1>14. /\ db'.users[u].email = StubEmail(u) /\ db'.users[u].pw = NoPassword
       /\ \A x \in DOMAIN db.users : x # u => db'.users[x] = db.users[x]
  BY <1>2, <1>5, <1>7, <1>8 DEF Edits
<1>15. Grows(db, db')
  <2>1. Linked(db')
    BY <1>2, <1>7, <1>8, <1>13 DEF Linked, OnlyUsers
  <2> QED BY <1>2, <1>7, <1>8, <1>13, <2>1 DEF Grows, OnlyUsers
<1>16. Anchored(q)
  BY <1>2, <1>10, <1>13 DEF Anchored
<1>17. Moving /\ req'[r] = q /\ \A x \in Requests : x # r => req'[x] = req[x]
  BY <1>2, <1>8, <1>16, Going
<1>18. TypeOK' /\ Grounded'
  <2>1. Recorded
    BY <1>2, <1>7, <1>8, <1>9, <1>11, <1>12, <1>13 DEF TypeOK, Grounded, Recorded, OnlyUsers
  <2> QED BY <1>2, <1>3, <1>15, <1>17, <2>1, GroundedStep
<1>19. OldPasswordEvicted'
  <2>1. /\ req[r].at \notin {"mark used", "revoke sessions"}
        /\ db'.sessions = db.sessions /\ mintedBy' = mintedBy /\ lapsed' = lapsed
        /\ req'[r].at \in {"mark used", "revoke sessions"} /\ req'[r].user = u
        /\ \A x \in DOMAIN db.users : x # u => db'.users[x].pw = db.users[x].pw
    BY <1>3, <1>7, <1>8, <1>9, <1>10, <1>14, <1>17 DEF OnlyUsers
  <2>2. OldPasswordEvicted
    BY DEF IInv
  <2> QED BY <1>2, <1>17, <2>1, <2>2, OldPasswordStep
<1>20. PasswordsStrong'
  BY <1>13, <1>14 DEF IInv, PasswordsStrong
<1>21. Stubbed'
  BY <1>2, <1>11, <1>14 DEF IInv, Stubbed, Grounded
<1>22. Barred'
  <2>1. \A s \in DOMAIN db.sessions : mintedBy[s].erased => db.sessions[s].user \in DOMAIN erased' /\ erased'[db.sessions[s].user]
    <3>1. ASSUME NEW s \in DOMAIN db.sessions, mintedBy[s].erased
          PROVE  db.sessions[s].user \in DOMAIN erased /\ erased[db.sessions[s].user]
      BY <3>1 DEF IInv, Barred
    <3> QED BY <1>11, <3>1
  <2> QED BY <1>7, <1>8, <1>9, <2>1 DEF Barred, OnlyUsers
<1>23. Erasures'
  <2>1. ASSUME NEW x \in DOMAIN erased', ~erased'[x] PROVE Gone(x)'
    <3>1. db'.users[x].pw = NoPassword
      <4>1. CASE x = u
        BY <1>14, <4>1
      <4>2. CASE x # u
        BY <1>2, <1>11, <1>14, <2>1, <4>2 DEF IInv, Erasures, Gone, Grounded
      <4> QED BY <4>1, <4>2
    <3>2. ASSUME NEW v \in mailbox', db'.verifs[v].user = x PROVE db'.verifs[v].used \/ db'.verifs[v].expired
      <4>1. v \in mailbox /\ v \in DOMAIN db.verifs /\ db'.verifs = db.verifs
        BY <1>2, <1>7, <1>8, <1>9, <3>2 DEF Grounded, OnlyUsers
      <4>2. CASE x = u
        BY <1>11, <2>1, <3>2, <4>1, <4>2 DEF Leftover
      <4>3. CASE x # u
        BY <1>11, <2>1, <3>2, <4>1, <4>3 DEF IInv, Erasures, Gone
      <4> QED BY <4>2, <4>3
    <3>3. ASSUME NEW y \in Requests, OfUser(y)', req'[y].user = x
          PROVE  \/ req'[y].at \in {"record failure", "lock user"}
                 \/ req'[y].at = "send reset" /\ req'[y].email = StubEmail(x)
                 \/ req'[y].at = "revoke sessions" /\ req'[y].then = "answer"
      <4>1. CASE y = r
        BY <1>10, <1>17, <4>1
      <4>2. CASE y # r
        <5>1. req'[y] = req[y] /\ "user" \in DOMAIN req[y] /\ req[y].user = x
          BY <1>17, <3>3, <4>2 DEF OfUser
        <5>2. x # u
          BY <1>11, <2>1, <5>1 DEF Leftover
        <5> QED BY <1>11, <2>1, <5>1, <5>2, ZenonT(40) DEF IInv, Erasures, Gone, OfUser
      <4> QED BY <4>1, <4>2
    <3> QED BY <3>1, <3>2, <3>3 DEF Gone
  <2> QED BY <2>1 DEF Erasures
<1>24. Coalesced' /\ Accepted'
  BY <1>3, <1>7, <1>8, <1>9, <1>10, GoingPast DEF OnlyUsers, InviteCalls
<1> QED BY <1>18, <1>19, <1>20, <1>21, <1>22, <1>23, <1>24 DEF IInv

(***************************************************************************)
(* Calls that deal with invitations, statements that fail, time            *)
(***************************************************************************)

\* All of Mild but that nothing happens to invitations.
Soft(d, e) ==
    /\ Grows(d, e)
    /\ DOMAIN e.sessions = DOMAIN d.sessions /\ Len(e.sessions) = Len(d.sessions)
    /\ \A s \in DOMAIN d.sessions :
          /\ e.sessions[s].user = d.sessions[s].user
          /\ d.sessions[s].revoked => e.sessions[s].revoked
    /\ \A u \in DOMAIN d.users : e.users[u].email = d.users[u].email /\ e.users[u].pw = d.users[u].pw
    /\ \A u \in DOMAIN e.users : u \in DOMAIN d.users \/ ValidatePasswordStrength(e.users[u].pw)
    /\ \A v \in DOMAIN d.verifs :
          /\ e.verifs[v].user = d.verifs[v].user
          /\ d.verifs[v].used => e.verifs[v].used
          /\ d.verifs[v].expired => e.verifs[v].expired

\* Invitations only come, and come to their end.
Ending(d, e) ==
    /\ DOMAIN d.invites \subseteq DOMAIN e.invites
    /\ \A i \in DOMAIN d.invites :
          /\ e.invites[i].tenant = d.invites[i].tenant /\ e.invites[i].email = d.invites[i].email
          /\ d.invites[i].accepted => e.invites[i].accepted
          /\ d.invites[i].revoked => e.invites[i].revoked
          /\ d.invites[i].expired => e.invites[i].expired

\* Mild steps are soft, and so are those that change invitations only.
LEMMA MildSoft ==
    ASSUME NEW d, NEW e, Mild(d, e)
    PROVE  Soft(d, e) /\ Ending(d, e)
BY DEF Mild, Soft, Ending, Grows

\* Invites to tenants there are, are a soft change.
LEMMA InvitesSoft ==
    ASSUME NEW d \in Database, NEW e, Linked(d), OnlyInvites(d, e), DOMAIN d.invites \subseteq DOMAIN e.invites,
           \A i \in DOMAIN e.invites : e.invites[i].tenant \in DOMAIN d.tenants
    PROVE  Soft(d, e)
<1>1. Linked(e)
  BY DEF Linked, OnlyInvites
<1> QED BY <1>1 DEF Soft, Grows, OnlyInvites

\* Invites that end are a soft change.
LEMMA EndingLinks ==
    ASSUME NEW d \in Database, NEW e, Linked(d), OnlyInvites(d, e), Ending(d, e), DOMAIN e.invites = DOMAIN d.invites
    PROVE  Soft(d, e)
BY InvitesSoft DEF Ending, Linked

\* The part of the invariant that is not about invitations.
SoftlyKept == TypeOK' /\ Grounded' /\ OldPasswordEvicted' /\ PasswordsStrong' /\ Stubbed' /\ Erasures' /\ Barred'

\* The keys of invites are numbers.
LEMMA InviteKeys ==
    ASSUME NEW d \in Database
    PROVE  DOMAIN d.invites \subseteq Nat
BY TableDomains

\* A step with a soft change keeps what the invariant says of everything but
\* the invites.
LEMMA SoftStep ==
    ASSUME IInv, Counted, Soft(db, db'), req' \in [Requests -> States],
           \A r \in Requests : req'[r] = req[r] \/ (Anchored(req'[r]) /\ Harmless(req'[r])),
           \A r \in Requests : req[r].at \in {"mark used", "revoke sessions"} => req'[r] = req[r] \/ req[r].user \in lapsed',
           inviteAt' \in Seq(SUBSET Nat), Len(inviteAt') = Len(db'.invites),
           joined' \subseteq DOMAIN db'.invites, crossed' \subseteq Nat, lapsed \subseteq lapsed', lapsed' \subseteq Nat,
           mintedBy' = mintedBy, erased' = erased, mailbox' = mailbox
    PROVE  SoftlyKept
<1>0. db \in Database /\ Grows(db, db') /\ TypeOK /\ Grounded /\ Linked(db)
  BY DEF IInv, TypeOK, Soft, Grounded
<1>1. TypeOK' /\ Grounded'
  <2>1. joined' \subseteq Nat
    <3>1. db' \in Database
      BY <1>0 DEF Grows
    <3>2. DOMAIN db'.invites \subseteq Nat
      BY <3>1, InviteKeys
    <3> QED BY <3>2
  <2>2. Recorded
    BY <1>0, <2>1 DEF TypeOK, Grounded, Recorded, Soft, Grows
  <2>3. Moving
    BY DEF Moving
  <2> QED BY <1>0, <2>2, <2>3, GroundedStep
<1>2. OldPasswordEvicted'
  <2>1. ASSUME NEW s \in DOMAIN db'.sessions, NEW u, u = db'.sessions[s].user,
               ~db'.sessions[s].revoked, mintedBy'[s].pw # db'.users[u].pw
        PROVE  mintedBy'[s].raced \/ u \in lapsed' \/ \E r \in Requests : req'[r].at \in {"mark used", "revoke sessions"} /\ req'[r].user = u
    <3>1. s \in DOMAIN db.sessions /\ u = db.sessions[s].user /\ ~db.sessions[s].revoked /\ u \in DOMAIN db.users
      BY <1>0, <2>1 DEF Linked, Soft
    <3>2. mintedBy[s].pw # db.users[u].pw
      BY <2>1, <3>1 DEF Soft
    <3>3. mintedBy[s].raced \/ u \in lapsed \/ \E r \in Requests : req[r].at \in {"mark used", "revoke sessions"} /\ req[r].user = u
      BY <3>1, <3>2 DEF IInv, OldPasswordEvicted
    <3> QED BY <3>3, ZenonT(60)
  <2> QED BY <2>1 DEF OldPasswordEvicted
<1>3. PasswordsStrong'
  BY PasswordsStep DEF IInv, Soft
<1>4. Stubbed' /\ Erasures' /\ Barred'
  <2>1. DOMAIN erased \subseteq DOMAIN db.users /\ mailbox \subseteq DOMAIN db.verifs
    BY <1>0 DEF Grounded
  <2>2. ErasuresQuiet
    BY <2>1 DEF ErasuresQuiet, Soft
  <2> QED BY <1>0, <2>2, ErasuresStep DEF IInv
<1> QED BY <1>1, <1>2, <1>3, <1>4 DEF SoftlyKept

\* An invite that is over stays over, and stays that of its tenant and address.
LEMMA EndedStays ==
    ASSUME NEW d, NEW e, Ending(d, e), NEW i \in DOMAIN d.invites
    PROVE  /\ i \in DOMAIN e.invites
           /\ ~IsPending(d.invites[i]) => ~IsPending(e.invites[i])
           /\ \A t, a : Alike(e.invites[i], t, a) <=> Alike(d.invites[i], t, a)
BY DEF Ending, IsPending, Alike

\* Where invites only end, the newer ones still replace the older.
LEMMA ReplacedStep ==
    ASSUME Replaced, Ending(db, db'), DOMAIN db'.invites = DOMAIN db.invites, inviteAt' = inviteAt
    PROVE  Replaced'
<1>1. ASSUME NEW i \in DOMAIN db.invites, NEW j \in DOMAIN db.invites, i < j, i \in inviteAt[j],
             Alike(db'.invites[i], db'.invites[j].tenant, db'.invites[j].email)
      PROVE  ~IsPending(db'.invites[i]) \/ ~IsPending(db'.invites[j])
  <2>1. Alike(db.invites[i], db.invites[j].tenant, db.invites[j].email)
    BY <1>1 DEF Ending, Alike
  <2>2. ~IsPending(db.invites[i]) \/ ~IsPending(db.invites[j])
    BY <1>1, <2>1 DEF Replaced
  <2> QED BY <2>2, EndedStays
<1> QED BY <1>1 DEF Replaced

\* What a request has dealt with stays over.
LEMMA ClearedStep ==
    ASSUME IInv, NEW r \in Requests, Ending(db, db'), DOMAIN db.invites \subseteq DOMAIN db'.invites,
           req'[r] = req[r] \/ req'[r].at # "create invite"
    PROVE  Cleared(r)'
<1>1. CASE req'[r] = req[r] /\ req[r].at = "create invite"
  <2>1. /\ req[r].open \subseteq DOMAIN db.invites /\ req[r].seen \subseteq DOMAIN db.invites
        /\ \A i \in req[r].seen \ req[r].open :
              Alike(db.invites[i], req[r].tenant, req[r].email) => ~IsPending(db.invites[i])
    BY <1>1 DEF IInv, Coalesced, Cleared, At
  <2>2. ASSUME NEW i \in req[r].seen \ req[r].open, Alike(db'.invites[i], req[r].tenant, req[r].email)
        PROVE  ~IsPending(db'.invites[i])
    <3>1. i \in DOMAIN db.invites
      BY <2>1
    <3>2. Alike(db.invites[i], req[r].tenant, req[r].email)
      BY <2>2, <3>1, EndedStays
    <3> QED BY <2>1, <3>1, <3>2, EndedStays
  <2>3. req[r].open \subseteq DOMAIN db'.invites /\ req[r].seen \subseteq DOMAIN db'.invites
    BY <2>1
  <2> QED BY <1>1, <2>2, <2>3 DEF Cleared, At
<1>2. CASE req'[r].at # "create invite"
  BY <1>2 DEF Cleared, At
<1> QED BY <1>1, <1>2

\* Where invites only end, those accepted stay justified.
LEMMA AcceptedStep ==
    ASSUME IInv, Ending(db, db'), crossed \subseteq crossed',
           \A i \in Accepting : i \in DOMAIN db.invites => (db'.invites[i].revoked => db.invites[i].revoked \/ i \in crossed'),
           joined' \subseteq DOMAIN db'.invites,
           \A i \in joined' : i \in joined \/ \E r \in Requests : req'[r].at = "mark accepted" /\ req'[r].invite = i,
           \A r \in Requests :
              \/ req'[r] = req[r]
              \/ /\ OfInvite(r)' => req'[r].invite \in Accepting \/ ~db'.invites[req'[r].invite].revoked
                 /\ req[r].at = "mark accepted" => db'.invites[req[r].invite].accepted \/ req[r].invite \in crossed'
    PROVE  Accepted'
<1>1. JoinedMeansAccepted'
  <2>1. ASSUME NEW i \in joined
        PROVE  db'.invites[i].accepted \/ i \in crossed' \/ \E r \in Requests : req'[r].at = "mark accepted" /\ req'[r].invite = i
    <3>1. i \in DOMAIN db.invites
      BY DEF IInv, Accepted
    <3>2. \/ db.invites[i].accepted \/ i \in crossed
          \/ \E r \in Requests : req[r].at = "mark accepted" /\ req[r].invite = i
      BY DEF IInv, Accepted, JoinedMeansAccepted, At
    <3> QED BY <3>1, <3>2, ZenonT(60) DEF Ending
  <2> QED BY <2>1 DEF JoinedMeansAccepted, At
<1>2. ASSUME NEW r \in Requests, "invite" \in DOMAIN req[r]
      PROVE  db'.invites[req[r].invite].accepted \/ req[r].invite \in crossed' \/ ~db'.invites[req[r].invite].revoked
  <2>1. req[r].invite \in DOMAIN db.invites /\ req[r].invite \in Accepting
    BY <1>2 DEF IInv, Grounded, OfInvite, Accepting
  <2>2. db.invites[req[r].invite].accepted \/ req[r].invite \in crossed \/ ~db.invites[req[r].invite].revoked
    BY <1>2 DEF IInv, Accepted, Noticed, OfInvite
  <2> QED BY <2>1, <2>2 DEF Ending
<1>3. ASSUME NEW r \in Requests, OfInvite(r)'
      PROVE  db'.invites[req'[r].invite].accepted \/ req'[r].invite \in crossed' \/ ~db'.invites[req'[r].invite].revoked
  <2>1. CASE req'[r] = req[r]
    BY <1>2, <1>3, <2>1 DEF OfInvite
  <2>2. CASE req'[r].invite \in Accepting
    BY <1>2, <2>2 DEF Accepting
  <2> QED BY <1>3, <2>1, <2>2
<1>4. \A r \in Requests : OfInvite(r)' => Noticed(req[r].invite)'
  BY <1>3 DEF Noticed
<1> QED BY <1>1, <1>4 DEF Accepted

\* Requests go on, and the invitations there are come to their end at most.
LEMMA InvitingStep ==
    ASSUME IInv, Counted, Soft(db, db'), Ending(db, db'), Len(db'.invites) = Len(db.invites),
           req' \in [Requests -> States],
           \A r \in Requests : req'[r] = req[r] \/ (Anchored(req'[r]) /\ Harmless(req'[r])),
           \A r \in Requests : req[r].at \in {"mark used", "revoke sessions"} => req'[r] = req[r] \/ req[r].user \in lapsed',
           \A r \in Requests : req'[r] = req[r] \/ req'[r].at # "create invite" \/ Cleared(r)',
           lapsed \subseteq lapsed', lapsed' \subseteq Nat, crossed \subseteq crossed', crossed' \subseteq Nat,
           \A i \in Accepting : i \in DOMAIN db.invites => (db'.invites[i].revoked => db.invites[i].revoked \/ i \in crossed'),
           joined' \subseteq DOMAIN db'.invites,
           \A i \in joined' : i \in joined \/ \E r \in Requests : req'[r].at = "mark accepted" /\ req'[r].invite = i,
           \A r \in Requests :
              \/ req'[r] = req[r]
              \/ /\ OfInvite(r)' => req'[r].invite \in Accepting \/ ~db'.invites[req'[r].invite].revoked
                 /\ req[r].at = "mark accepted" => db'.invites[req[r].invite].accepted \/ req[r].invite \in crossed',
           mintedBy' = mintedBy, inviteAt' = inviteAt, erased' = erased, mailbox' = mailbox
    PROVE  IInv'
<1>1. /\ Len(db.invites) \in Nat /\ DOMAIN db.invites = 1..Len(db.invites)
      /\ DOMAIN db'.invites = 1..Len(db'.invites)
      /\ inviteAt \in Seq(SUBSET Nat) /\ Len(inviteAt) = Len(db.invites)
  <2>1. db \in Database /\ db' \in Database
    BY DEF Soft, Grows
  <2> QED BY <2>1, TableDomains DEF IInv, TypeOK, Grounded
<1>2. SoftlyKept
  BY <1>1, SoftStep
<1>3. Coalesced'
  <2>1. Replaced'
    BY <1>1, ReplacedStep DEF IInv, Coalesced
  <2>2. ASSUME NEW r \in Requests PROVE Cleared(r)'
    <3>1. DOMAIN db.invites \subseteq DOMAIN db'.invites
      BY <1>1
    <3>2. CASE req'[r] = req[r] \/ req'[r].at # "create invite"
      BY <3>1, <3>2, ClearedStep
    <3> QED BY <3>2
  <2> QED BY <2>1, <2>2 DEF Coalesced
<1>4. Accepted'
  BY AcceptedStep
<1> QED BY <1>2, <1>3, <1>4 DEF IInv, SoftlyKept

\* A statement of an invitation the others do not feel.
LEMMA InvitingRequest ==
    ASSUME IInv, NEW r \in Requests, NEW q, Counted, Goto(r, q), Anchored(q), Harmless(q),
           req[r].at \notin {"mark used", "revoke sessions"},
           Soft(db, db'), Ending(db, db'), Len(db'.invites) = Len(db.invites),
           q.at # "create invite" \/ Cleared(r)',
           crossed \subseteq crossed', crossed' \subseteq Nat,
           \A i \in Accepting : i \in DOMAIN db.invites => (db'.invites[i].revoked => db.invites[i].revoked \/ i \in crossed'),
           \/ joined' = joined
           \/ joined' = joined \cup {q.invite} /\ q.at = "mark accepted",
           "invite" \in DOMAIN q => q.invite \in Accepting \/ ~db'.invites[q.invite].revoked,
           req[r].at = "mark accepted" => db'.invites[req[r].invite].accepted \/ req[r].invite \in crossed',
           mintedBy' = mintedBy, inviteAt' = inviteAt, lapsed' = lapsed, erased' = erased, mailbox' = mailbox
    PROVE  IInv'
<1>1. TypeOK /\ Moving /\ req'[r] = q /\ \A x \in Requests : x # r => req'[x] = req[x]
  BY Going DEF IInv
<1>2. req' \in [Requests -> States]
  BY <1>1 DEF Moving
<1>3. lapsed' \subseteq Nat
  BY <1>1 DEF TypeOK
<1>4. joined \subseteq DOMAIN db'.invites
  BY DEF IInv, Accepted, Ending
<1>5. q.at = "mark accepted" => q.invite \in DOMAIN db'.invites
  BY Speaking DEF Anchored
<1>6. joined' \subseteq DOMAIN db'.invites
  BY <1>4, <1>5
<1>7. \A i \in joined' : i \in joined \/ \E x \in Requests : req'[x].at = "mark accepted" /\ req'[x].invite = i
  BY <1>1
<1>8. \A x \in Requests : req'[x] = req[x] \/ (Anchored(req'[x]) /\ Harmless(req'[x]))
  BY <1>1
<1>9. \A x \in Requests : req[x].at \in {"mark used", "revoke sessions"} => req'[x] = req[x] \/ req[x].user \in lapsed'
  BY <1>1
<1>10. \A x \in Requests : req'[x] = req[x] \/ req'[x].at # "create invite" \/ Cleared(x)'
  BY <1>1
<1>11. \A x \in Requests :
          \/ req'[x] = req[x]
          \/ /\ OfInvite(x)' => req'[x].invite \in Accepting \/ ~db'.invites[req'[x].invite].revoked
             /\ req[x].at = "mark accepted" => db'.invites[req[x].invite].accepted \/ req[x].invite \in crossed'
  BY <1>1 DEF OfInvite
<1> QED BY <1>2, <1>3, <1>6, <1>7, <1>8, <1>9, <1>10, <1>11, InvitingStep

\* AcceptInvite, up to the invite that is pending, keeps the invariant.
LEMMA AcceptInviteKeeps ==
    ASSUME IInv, NEW r \in Requests, AcceptInvite(r)
    PROVE  IInv'
<1>1. PICK i \in DOMAIN db.invites, pw \in Passwords :
         /\ ValidatePasswordStrength(pw)
         /\ IsPending(db.invites[i])
         /\ Goto(r, [at |-> "resolve user", invite |-> i, pw |-> pw])
  BY DEF AcceptInvite
<1>2. PICK q : q = [at |-> "resolve user", invite |-> i, pw |-> pw]
  OBVIOUS
<1>3. Begin(r) /\ db' = db /\ UNCHANGED history
  BY DEF AcceptInvite
<1>4. Counted /\ req[r].at = "idle"
  BY <1>3, Beginning DEF IInv
<1>5. i \in Nat /\ pw \in Strong
  BY <1>1, Keys DEF Strong
<1>6. q \in States /\ q.at = "resolve user" /\ q.invite = i
  BY <1>2, <1>5 DEF States
<1>7. "user" \notin DOMAIN q /\ "tenant" \notin DOMAIN q /\ "token" \notin DOMAIN q
  BY <1>2
<1>8. Anchored(q) /\ Harmless(q)
  BY <1>3, <1>6, <1>7 DEF Anchored, Harmless
<1>9. Soft(db, db') /\ Ending(db, db')
  BY <1>3, Rows, MildSoft
<1>10. crossed \subseteq crossed' /\ crossed' \subseteq Nat /\ joined' = joined
  BY <1>3 DEF IInv, TypeOK, history
<1>11. ~db'.invites[q.invite].revoked
  BY <1>1, <1>3, <1>6 DEF IsPending
<1>12. Goto(r, q) /\ q.at # "create invite" /\ Len(db'.invites) = Len(db.invites)
  BY <1>1, <1>2, <1>3, <1>6
<1>13. \A x \in Accepting : x \in DOMAIN db.invites => (db'.invites[x].revoked => db.invites[x].revoked \/ x \in crossed')
  BY <1>3
<1>14. mintedBy' = mintedBy /\ inviteAt' = inviteAt /\ lapsed' = lapsed /\ erased' = erased /\ mailbox' = mailbox
  BY <1>3 DEF history
<1>15. req[r].at # "mark accepted" /\ req[r].at \notin {"mark used", "revoke sessions"}
  BY <1>4
<1> QED BY <1>4, <1>8, <1>9, <1>10, <1>11, <1>12, <1>13, <1>14, <1>15, InvitingRequest

\* What the invites table holds under a key is an invite.
LEMMA InviteRow ==
    ASSUME NEW d \in Database, NEW i \in DOMAIN d.invites
    PROVE  d.invites[i] \in Invites
BY TableTypes

\* What the handler that lets accept knows.
LEMMA Accepter ==
    ASSUME IInv, NEW r \in Requests, req[r].at \in {"resolve user", "attach member", "mark accepted"}
    PROVE  /\ req[r].invite \in DOMAIN db.invites /\ req[r].invite \in Nat /\ req[r].invite \in Accepting
           /\ db.invites[req[r].invite] \in Invites
           /\ db.invites[req[r].invite].tenant \in DOMAIN db.tenants
<1>1. "invite" \in DOMAIN req[r]
  BY Speaking, ReqHarmless
<1>2. req[r].invite \in DOMAIN db.invites /\ req[r].invite \in Accepting
  BY <1>1 DEF IInv, Grounded, OfInvite, Accepting
<1>4. db.invites[req[r].invite] \in Invites
  BY <1>2, Rows, InviteRow
<1>5. db.invites[req[r].invite].tenant \in DOMAIN db.tenants /\ req[r].invite \in Nat
  BY <1>2, Rows, Keys DEF Linked
<1> QED BY <1>2, <1>4, <1>5

\* A mild step of such a request.
LEMMA AcceptingMildly ==
    ASSUME IInv, NEW r \in Requests, NEW q, Counted, req[r].at \in {"resolve user", "attach member"},
           Goto(r, q), Anchored(q), Harmless(q), Mild(db, db'), q.at # "create invite",
           "invite" \in DOMAIN q => q.invite = req[r].invite,
           \/ joined' = joined
           \/ joined' = joined \cup {q.invite} /\ q.at = "mark accepted",
           mintedBy' = mintedBy, inviteAt' = inviteAt, lapsed' = lapsed, erased' = erased, mailbox' = mailbox, crossed' = crossed
    PROVE  IInv'
<1>1. Soft(db, db') /\ Ending(db, db') /\ db'.invites = db.invites
  BY MildSoft DEF Mild
<1>2. req[r].invite \in Accepting
  BY Accepter
<1>3. crossed' \subseteq Nat
  BY DEF IInv, TypeOK
<1>4. \A x \in Accepting : x \in DOMAIN db.invites => (db'.invites[x].revoked => db.invites[x].revoked \/ x \in crossed')
  BY <1>1
<1>5. req[r].at # "mark accepted" /\ req[r].at \notin {"mark used", "revoke sessions"}
  OBVIOUS
<1>6. "invite" \in DOMAIN q => q.invite \in Accepting \/ ~db'.invites[q.invite].revoked
  BY <1>2
<1> QED BY <1>1, <1>3, <1>4, <1>5, <1>6, InvitingRequest

\* AcceptInvite, the user found or created, keeps the invariant.
LEMMA ResolveUserKeeps ==
    ASSUME IInv, NEW r \in Requests, ResolveUser(r)
    PROVE  IInv'
<1>0. Counted /\ req[r].at = "resolve user"
  BY Continuing DEF IInv, ResolveUser
<1> DEFINE i == req[r].invite
           e == db.invites[i].email
<1>1. i \in DOMAIN db.invites /\ i \in Nat /\ e \in Nat \ {0} /\ req[r].pw \in Strong /\ req[r].pw \in Nat
  <2>1. db.invites[i] \in Invites /\ i \in DOMAIN db.invites /\ i \in Nat
    BY <1>0, Accepter
  <2>2. req[r].pw \in Strong
    BY <1>0, CallsKnow, ReqHarmless
  <2> QED BY <2>1, <2>2, IdentityAssumption DEF Invites, Strong
<1>2. UNCHANGED history
  BY DEF ResolveUser
<1>3. ASSUME NEW u \in Nat, Live(u), Mild(db, db'), u \in DOMAIN db'.users,
             Goto(r, [at |-> "attach member", invite |-> i, user |-> u])
      PROVE  IInv'
  <2>1. PICK q : q = [at |-> "attach member", invite |-> i, user |-> u]
    OBVIOUS
  <2>2. q \in States /\ q.at = "attach member" /\ q.invite = i /\ q.user = u
    BY <1>1, <2>1 DEF States
  <2>3. "tenant" \notin DOMAIN q /\ "token" \notin DOMAIN q
    BY <2>1
  <2>4. i \in DOMAIN db'.invites
    BY <1>1, <1>3 DEF Mild
  <2>5. Anchored(q) /\ Harmless(q)
    BY <1>3, <2>2, <2>3, <2>4 DEF Anchored, Harmless
  <2>6. Goto(r, q) /\ q.at # "create invite" /\ ("invite" \in DOMAIN q => q.invite = req[r].invite)
    BY <1>3, <2>1, <2>2
  <2> QED BY <1>0, <1>2, <1>3, <2>5, <2>6, AcceptingMildly DEF history
<1>4. ASSUME Goto(r, Idle), db' = db PROVE IInv'
  <2>1. "invite" \notin DOMAIN Idle /\ Idle.at # "create invite" /\ Idle.at # "mark accepted"
    BY DEF Idle
  <2> QED BY <1>0, <1>2, <1>4, <2>1, IdleCalm, Rows, AcceptingMildly DEF history
<1>5. ASSUME NEW u \in GetByEmail(e), Goto(r, [at |-> "attach member", invite |-> i, user |-> u]), UNCHANGED db
      PROVE  IInv'
  <2>1. u \in DOMAIN db.users /\ u \in Nat /\ db.users[u].email = e
    BY Found
  <2>2. Live(u)
    BY <1>1, <2>1, Written DEF Live
  <2> QED BY <1>3, <1>5, <2>1, <2>2, Rows
<1> DEFINE new == [email |-> e, pw |-> req[r].pw, verified |-> TRUE]
           next == [at |-> "attach member", invite |-> i, user |-> Len(db.users) + 1]
<1>6. ASSUME Then(r, CreateUser(new), next)
      PROVE  IInv'
  <2>1. new.email \in Int /\ new.pw \in Nat /\ new.verified \in BOOLEAN /\ new.pw \in Strong
    BY <1>1
  <2>2. CASE CreateUser(new).err = "ok"
    <3>1. \E v \in BOOLEAN :
             LET row == [email |-> new.email, pw |-> new.pw, status |-> "active", verified |-> v, tour |-> FALSE, fails |-> 0, age |-> 0]
             IN  OnlyUsers(db, db') /\ Adds(db.users, db'.users, row)
      <4> HIDE DEF new, next
      <4> QED BY <1>6, <2>1, <2>2, Rows, CreateUserAdds DEF Then
    <3>2. PICK row : OnlyUsers(db, db') /\ Adds(db.users, db'.users, row) /\ row.pw = new.pw
      <4> HIDE DEF new, next
      <4> QED BY <3>1
    <3>3. Mild(db, db')
      <4> HIDE DEF new, next
      <4> QED BY <2>1, <3>2, Rows, MildNewUser DEF Strong
    <3>4. /\ Len(db.users) + 1 \in Nat /\ Len(db.users) + 1 \in DOMAIN db'.users
          /\ Len(db.users) + 1 \notin DOMAIN db.users
      BY <3>2, Rows, TableDomains DEF Adds
    <3>5. Live(Len(db.users) + 1)
      BY <3>4 DEF Live, IInv, Grounded
    <3>6. Goto(r, next)
      BY <1>6, <2>2 DEF Then
    <3> QED BY <1>3, <3>3, <3>4, <3>5, <3>6
  <2>3. CASE CreateUser(new).err # "ok"
    <3>1. db' = db /\ Goto(r, Idle)
      <4> HIDE DEF new, next
      <4> QED BY <1>6, <2>3, Rows, CreateUserFails DEF Then
    <3> QED BY <1>4, <3>1
  <2> QED BY <2>2, <2>3
<1> QED BY <1>5, <1>6 DEF ResolveUser

\* AcceptInvite, the membership, keeps the invariant.
LEMMA AttachMemberKeeps ==
    ASSUME IInv, NEW r \in Requests, AttachMember(r)
    PROVE  IInv'
<1>0. Counted /\ req[r].at = "attach member"
  BY Continuing DEF IInv, AttachMember
<1> DEFINE i == req[r].invite
           inv == db.invites[i]
           m == [tenant |-> inv.tenant, user |-> req[r].user, roles |-> inv.roles]
<1>1. /\ db' = CreateMembership(m).db
      /\ joined' = joined \/ joined' = joined \cup {i}
      /\ Goto(r, [at |-> "mark accepted", invite |-> i])
      /\ UNCHANGED <<mintedBy, inviteAt, lapsed, erased, crossed, mailbox>>
  BY DEF AttachMember
<1>2. /\ i \in DOMAIN db.invites /\ i \in Nat /\ inv \in Invites /\ inv.tenant \in DOMAIN db.tenants
      /\ req[r].user \in DOMAIN db.users /\ req[r].user \in Nat
  BY <1>0, Accepter, CallsKnow, Speaking, ReqHarmless DEF IInv, Grounded, OfUser
<1>3. m \in Members /\ m.tenant = inv.tenant /\ m.user = req[r].user
  BY <1>2 DEF Members, Invites
<1>4. Mild(db, db')
  <2>1. CASE CreateMembership(m).err = "ok"
    <3>1. OnlyMembers(db, db') /\ Adds(db.members, db'.members, m)
      <4> HIDE DEF m
      <4> QED BY <1>1, <1>3, <2>1, Rows, CreateMembershipAdds
    <3>2. ASSUME NEW x \in DOMAIN db'.members
          PROVE  db'.members[x].tenant \in DOMAIN db.tenants /\ db'.members[x].user \in DOMAIN db.users
      <4>1. x \in DOMAIN db.members \/ db'.members[x] = m
        BY <3>1, Rows, TableDomains DEF Adds
      <4>2. CASE x \in DOMAIN db.members
        BY <3>1, <4>2, Rows DEF Adds, Linked
      <4> QED BY <1>2, <1>3, <4>1, <4>2
    <3> QED BY <3>1, <3>2, Rows, MildMembers
  <2>2. CASE CreateMembership(m).err # "ok"
    <3>1. db' = db
      <4> HIDE DEF m
      <4> QED BY <1>1, <1>3, <2>2, Rows, CreateMembershipAdds
    <3> QED BY <3>1, Rows
  <2> QED BY <2>1, <2>2
<1>5. PICK q : q = [at |-> "mark accepted", invite |-> i]
  OBVIOUS
<1>6. q \in States /\ q.at = "mark accepted" /\ q.invite = i /\ q.at # "create invite"
  BY <1>2, <1>5 DEF States
<1>7. "user" \notin DOMAIN q /\ "tenant" \notin DOMAIN q /\ "token" \notin DOMAIN q
  BY <1>5
<1>8. i \in DOMAIN db'.invites
  BY <1>2, <1>4 DEF Mild
<1>9. Anchored(q) /\ Harmless(q)
  BY <1>6, <1>7, <1>8 DEF Anchored, Harmless
<1>10. Goto(r, q) /\ q.invite = req[r].invite
  BY <1>1, <1>5, <1>6
<1>11. joined' = joined \/ (joined' = joined \cup {q.invite} /\ q.at = "mark accepted")
  BY <1>1, <1>6
<1> HIDE DEF i, inv, m
<1> QED BY <1>0, <1>1, <1>4, <1>6, <1>9, <1>10, <1>11, AcceptingMildly

\* One invitation is revoked, accepted or expired.
LEMMA EndingOne ==
    ASSUME NEW d \in Database, NEW e, NEW i \in DOMAIN d.invites, NEW row, OnlyInvites(d, e), Edits(d.invites, e.invites, i, row),
           row.tenant = d.invites[i].tenant, row.email = d.invites[i].email,
           d.invites[i].accepted => row.accepted, d.invites[i].revoked => row.revoked, d.invites[i].expired => row.expired
    PROVE  Ending(d, e) /\ DOMAIN e.invites = DOMAIN d.invites /\ Len(e.invites) = Len(d.invites)
BY DEF Ending, Edits

\* An invite in which one column changes.
LEMMA InviteColumns ==
    ASSUME NEW x \in Invites
    PROVE  /\ [x EXCEPT !.revoked = TRUE] \in Invites
           /\ [x EXCEPT !.revoked = TRUE].tenant = x.tenant /\ [x EXCEPT !.revoked = TRUE].email = x.email
           /\ [x EXCEPT !.revoked = TRUE].accepted = x.accepted /\ [x EXCEPT !.revoked = TRUE].expired = x.expired
           /\ [x EXCEPT !.revoked = TRUE].revoked
           /\ [x EXCEPT !.accepted = TRUE] \in Invites
           /\ [x EXCEPT !.accepted = TRUE].tenant = x.tenant /\ [x EXCEPT !.accepted = TRUE].email = x.email
           /\ [x EXCEPT !.accepted = TRUE].revoked = x.revoked /\ [x EXCEPT !.accepted = TRUE].expired = x.expired
           /\ [x EXCEPT !.accepted = TRUE].accepted
           /\ [x EXCEPT !.expired = TRUE] \in Invites
           /\ [x EXCEPT !.expired = TRUE].tenant = x.tenant /\ [x EXCEPT !.expired = TRUE].email = x.email
           /\ [x EXCEPT !.expired = TRUE].revoked = x.revoked /\ [x EXCEPT !.expired = TRUE].accepted = x.accepted
           /\ [x EXCEPT !.expired = TRUE].expired
BY DEF Invites

\* AcceptInvite, the invite marked: a revocation may have come between.
LEMMA MarkAcceptedKeeps ==
    ASSUME IInv, NEW r \in Requests, MarkAccepted(r)
    PROVE  IInv'
<1>0. Counted /\ req[r].at = "mark accepted" /\ Goto(r, Idle) /\ UNCHANGED history
  BY Continuing DEF IInv, MarkAccepted, Answer
<1> DEFINE i == req[r].invite
<1>1. i \in DOMAIN db.invites
  BY <1>0, Accepter
<1>2. db.invites[i].accepted \/ i \in crossed \/ ~db.invites[i].revoked
  BY <1>0, Speaking, ReqHarmless DEF IInv, Accepted, Noticed, OfInvite
<1>3. PICK answer : answer = MarkInviteAccepted(i) /\ db' = answer.db
  BY DEF MarkAccepted
<1>4. /\ Soft(db, db') /\ Ending(db, db') /\ Len(db'.invites) = Len(db.invites)
      /\ db'.invites[i].accepted \/ i \in crossed
      /\ \A x \in DOMAIN db.invites : db'.invites[x].revoked => db.invites[x].revoked
  <2>1. CASE db' = db /\ (db.invites[i].accepted \/ db.invites[i].revoked)
    <3>1. Soft(db, db') /\ Ending(db, db')
      BY <2>1, Rows, MildSoft
    <3> QED BY <1>2, <2>1, <3>1
  <2>2. CASE SetsInvite(answer, db, i, [db.invites[i] EXCEPT !.accepted = TRUE])
    <3>1. PICK row : row = [db.invites[i] EXCEPT !.accepted = TRUE]
      OBVIOUS
    <3>2. /\ row.tenant = db.invites[i].tenant /\ row.email = db.invites[i].email
          /\ row.revoked = db.invites[i].revoked /\ row.expired = db.invites[i].expired /\ row.accepted
      BY <1>1, <3>1, Rows, InviteRow, InviteColumns
    <3>3. OnlyInvites(db, db') /\ Edits(db.invites, db'.invites, i, row)
      BY <1>3, <2>2, <3>1 DEF SetsInvite
    <3>4. Ending(db, db') /\ DOMAIN db'.invites = DOMAIN db.invites /\ Len(db'.invites) = Len(db.invites)
      BY <1>1, <3>2, <3>3, Rows, EndingOne
    <3>5. Soft(db, db')
      BY <3>3, <3>4, Rows, EndingLinks
    <3>6. db'.invites[i] = row /\ \A x \in DOMAIN db.invites : x # i => db'.invites[x] = db.invites[x]
      BY <3>3 DEF Edits
    <3> QED BY <3>2, <3>4, <3>5, <3>6
  <2>3. \/ SetsInvite(answer, db, i, [db.invites[i] EXCEPT !.accepted = TRUE])
        \/ db' = db /\ (db.invites[i].accepted \/ db.invites[i].revoked)
    BY <1>1, <1>3, Rows, MarkInviteAcceptedAccepts
  <2> QED BY <2>1, <2>2, <2>3
<1>5. crossed \subseteq crossed' /\ crossed' \subseteq Nat /\ joined' = joined
  BY <1>0 DEF IInv, TypeOK, history
<1>6. \A x \in Accepting : x \in DOMAIN db.invites => (db'.invites[x].revoked => db.invites[x].revoked \/ x \in crossed')
  BY <1>4
<1>7. "invite" \notin DOMAIN Idle /\ Idle.at # "create invite" /\ req[r].at \notin {"mark used", "revoke sessions"}
  BY <1>0 DEF Idle
<1>8. mintedBy' = mintedBy /\ inviteAt' = inviteAt /\ lapsed' = lapsed /\ erased' = erased /\ mailbox' = mailbox
  BY <1>0 DEF history
<1>9. db'.invites[req[r].invite].accepted \/ req[r].invite \in crossed'
  BY <1>4, <1>5
<1> HIDE DEF i
<1> QED BY <1>0, <1>4, <1>5, <1>6, <1>7, <1>8, <1>9, IdleCalm, InvitingRequest

\* Requests stay where they are, and invitations come to their end.
LEMMA InvitingAnswer ==
    ASSUME IInv, Counted, UNCHANGED req, Soft(db, db'), Ending(db, db'), Len(db'.invites) = Len(db.invites),
           crossed \subseteq crossed', crossed' \subseteq Nat,
           \A i \in Accepting : i \in DOMAIN db.invites => (db'.invites[i].revoked => db.invites[i].revoked \/ i \in crossed'),
           mintedBy' = mintedBy, inviteAt' = inviteAt, lapsed' = lapsed, erased' = erased, joined' = joined, mailbox' = mailbox
    PROVE  IInv'
<1>1. req' \in [Requests -> States] /\ lapsed' \subseteq Nat /\ \A r \in Requests : req'[r] = req[r]
  BY DEF IInv, TypeOK
<1>2. joined' \subseteq DOMAIN db'.invites
  BY DEF IInv, Accepted, Ending
<1> QED BY <1>1, <1>2, InvitingStep

\* An invite revoked by an admin keeps the invariant.
LEMMA InviteRevokeKeeps ==
    ASSUME IInv, NEW r \in Requests, InviteRevoke(r)
    PROVE  IInv'
<1>1. PICK p \in People, i \in DOMAIN db.invites :
         /\ Begin(r)
         /\ db' = RevokeInvite(p.tenant, i).db
         /\ crossed' = IF db' # db /\ i \in Accepting THEN crossed \cup {i} ELSE crossed
  BY DEF InviteRevoke, Authenticated
<1>2. Counted
  BY <1>1, Beginning DEF IInv
<1>3. PICK answer : answer = RevokeInvite(p.tenant, i)
  OBVIOUS
<1>4. db' = answer.db
  BY <1>1, <1>3
<1>5. /\ Soft(db, db') /\ Ending(db, db') /\ Len(db'.invites) = Len(db.invites)
      /\ \A x \in DOMAIN db.invites : x # i => db'.invites[x] = db.invites[x]
      /\ db' = db \/ db'.invites[i] # db.invites[i]
  <2>1. CASE db' = db
    BY <2>1, Rows, MildSoft
  <2>2. CASE SetsInvite(answer, db, i, [db.invites[i] EXCEPT !.revoked = TRUE]) /\ ~db.invites[i].revoked
    <3>1. PICK row : row = [db.invites[i] EXCEPT !.revoked = TRUE]
      OBVIOUS
    <3>2. /\ row.tenant = db.invites[i].tenant /\ row.email = db.invites[i].email
          /\ row.accepted = db.invites[i].accepted /\ row.expired = db.invites[i].expired /\ row.revoked
      BY <3>1, Rows, InviteRow, InviteColumns
    <3>3. OnlyInvites(db, db') /\ Edits(db.invites, db'.invites, i, row)
      BY <1>4, <2>2, <3>1 DEF SetsInvite
    <3>4. Ending(db, db') /\ DOMAIN db'.invites = DOMAIN db.invites /\ Len(db'.invites) = Len(db.invites)
      BY <3>2, <3>3, Rows, EndingOne
    <3>5. Soft(db, db')
      BY <3>3, <3>4, Rows, EndingLinks
    <3>6. db'.invites[i] = row /\ \A x \in DOMAIN db.invites : x # i => db'.invites[x] = db.invites[x]
      BY <3>3 DEF Edits
    <3> QED BY <2>2, <3>2, <3>4, <3>5, <3>6
  <2> QED BY <1>3, <1>4, <2>1, <2>2, Rows, RevokeInviteRevokes
<1>6. i \in Nat /\ crossed \subseteq Nat
  BY Keys DEF IInv, TypeOK
<1>7. crossed \subseteq crossed' /\ crossed' \subseteq Nat
  BY <1>1, <1>6
<1>8. \A x \in Accepting : x \in DOMAIN db.invites => (db'.invites[x].revoked => db.invites[x].revoked \/ x \in crossed')
  BY <1>1, <1>5
<1>9. /\ UNCHANGED req
      /\ mintedBy' = mintedBy /\ inviteAt' = inviteAt /\ lapsed' = lapsed /\ erased' = erased /\ joined' = joined /\ mailbox' = mailbox
  BY DEF InviteRevoke
<1> QED BY <1>2, <1>5, <1>7, <1>8, <1>9, InvitingAnswer

\* The invitations that are listed as open are those that are.
LEMMA ListedOpen ==
    ASSUME IInv, NEW t
    PROVE  /\ ListInvitesForTenant(t, TRUE) \subseteq DOMAIN db.invites
           /\ \A i \in DOMAIN db.invites : db.invites[i].tenant = t /\ IsPending(db.invites[i]) => i \in ListInvitesForTenant(t, TRUE)
BY Rows DEF Wired, ListInvitesForTenant, Repo, Mem!ListInvitesForTenant, Pg!ListInvitesForTenant, IsPending, Mem!IsPending

\* The request for an invitation keeps the invariant.
LEMMA InviteKeeps ==
    ASSUME IInv, NEW r \in Requests, Invite(r)
    PROVE  IInv'
<1>1. PICK p \in People, e \in Emails, roles \in RoleLists :
         /\ Begin(r)
         /\ Goto(r, [at |-> "check member", tenant |-> p.tenant, email |-> e, roles |-> ValidRoles(roles)])
  BY DEF Invite, Authenticated
<1>2. PICK q : q = [at |-> "check member", tenant |-> p.tenant, email |-> e, roles |-> ValidRoles(roles)] /\ Goto(r, q)
  BY <1>1
<1>3. Counted /\ req[r].at = "idle" /\ db' = db /\ UNCHANGED history
  BY <1>1, Beginning DEF IInv, Invite
<1>4. p.tenant \in DOMAIN db.tenants /\ p.tenant \in Nat /\ ValidRoles(roles) \in SUBSET Roles
  BY SignedIn, ValidRolesTyped
<1>5. q \in States /\ q.at = "check member" /\ q.tenant = p.tenant
  BY <1>2, <1>4 DEF States
<1>6. "user" \notin DOMAIN q /\ "invite" \notin DOMAIN q /\ "token" \notin DOMAIN q
  BY <1>2
<1>7. Anchored(q) /\ Harmless(q)
  BY <1>3, <1>4, <1>5, <1>6 DEF Anchored, Harmless
<1>8. Calm(req[r], q)
  BY <1>3, <1>5, <1>7 DEF Calm, InviteCalls
<1>9. Mild(db, db')
  BY <1>3, Rows
<1> QED BY <1>2, <1>3, <1>8, <1>9, CalmRequest

\* The address, the workspace and the roles go on to the list.
LEMMA ToList ==
    ASSUME IInv, NEW r \in Requests, req[r].at = "check member", UNCHANGED db, NEW q, q = [req[r] EXCEPT !.at = "list invites"]
    PROVE  q.at = "list invites" /\ "invite" \notin DOMAIN q /\ Anchored(q) /\ Harmless(q)
<1>1. req[r] \in [at : {"check member", "list invites"}, tenant : Nat, email : Emails, roles : SUBSET Roles]
  BY ReqHarmless, CallOf
<1>2. q \in [at : {"check member", "list invites"}, tenant : Nat, email : Emails, roles : SUBSET Roles] /\ q.at = "list invites" /\ q.tenant = req[r].tenant
  BY <1>1
<1>3. q \in States
  BY <1>2 DEF States
<1>4. "user" \notin DOMAIN q /\ "invite" \notin DOMAIN q /\ "token" \notin DOMAIN q
  BY <1>2
<1>5. req[r].tenant \in DOMAIN db.tenants
  BY ReqHarmless, Speaking DEF IInv, Grounded, OfTenant
<1> QED BY <1>2, <1>3, <1>4, <1>5 DEF Anchored, Harmless

\* The check for a member changes nothing.
LEMMA CheckMemberKeeps ==
    ASSUME IInv, NEW r \in Requests, CheckMember(r)
    PROVE  IInv'
<1>1. Counted /\ req[r].at = "check member" /\ db' = db /\ UNCHANGED history
  BY Continuing DEF IInv, CheckMember
<1>2. Mild(db, db')
  BY <1>1, Rows
<1>3. req[r].at \notin InviteCalls \cup {"mark used", "revoke sessions"}
  BY <1>1 DEF InviteCalls
<1>4. CASE Goto(r, Idle)
  BY <1>1, <1>2, <1>3, <1>4, CalmIdle
<1>5. CASE Goto(r, [req[r] EXCEPT !.at = "list invites"])
  <2>1. PICK q : q = [req[r] EXCEPT !.at = "list invites"] /\ Goto(r, q)
    BY <1>5
  <2>2. q.at = "list invites" /\ Anchored(q) /\ Harmless(q)
    BY <1>1, <2>1, ToList
  <2>3. Calm(req[r], q)
    BY <1>3, <2>2 DEF Calm, InviteCalls
  <2> QED BY <1>1, <1>2, <2>1, <2>3, CalmRequest
<1>6. Goto(r, Idle) \/ Goto(r, [req[r] EXCEPT !.at = "list invites"])
  BY DEF CheckMember, Answer
<1> QED BY <1>4, <1>5, <1>6

\* The request q of r is about to create its invitation.
Bound(r, q, open, seen) ==
    /\ q.at = "create invite" /\ q.open = open /\ q.seen = seen
    /\ q.tenant = req[r].tenant /\ q.email = req[r].email
    /\ "invite" \notin DOMAIN q /\ Anchored(q) /\ Harmless(q)

\* What an inviting request goes on with.
LEMMA InvitingCall ==
    ASSUME IInv, NEW r \in Requests, req[r].at = "list invites" \/ req[r].at = "create invite", db'.tenants = db.tenants,
           NEW open, NEW seen, open \subseteq Nat, seen \subseteq Nat
    PROVE  Bound(r, Inviting(req[r], open, seen), open, seen)
<1>1. req[r].tenant \in Nat /\ req[r].email \in Emails /\ req[r].roles \in SUBSET Roles
  BY ReqHarmless, CallsKnow
<1>2. req[r].tenant \in DOMAIN db.tenants
  BY ReqHarmless, Speaking DEF IInv, Grounded, OfTenant
<1>5. PICK q : q = Inviting(req[r], open, seen)
  OBVIOUS
<1>3. /\ q.at = "create invite" /\ q.open = open /\ q.seen = seen
      /\ q.tenant = req[r].tenant /\ q.email = req[r].email
      /\ "user" \notin DOMAIN q /\ "invite" \notin DOMAIN q /\ "token" \notin DOMAIN q
  BY <1>5 DEF Inviting
<1>4. q \in States
  BY <1>1, <1>5 DEF States, Inviting
<1>6. Anchored(q) /\ Harmless(q)
  BY <1>2, <1>3, <1>4 DEF Anchored, Harmless
<1>7. Bound(r, q, open, seen)
  BY <1>3, <1>6 DEF Bound
<1> QED BY <1>5, <1>7

\* An inviting request reads, or a statement of it fails: the invitations stay.
LEMMA InvitingOn ==
    ASSUME IInv, NEW r \in Requests, Counted, req[r].at = "list invites" \/ req[r].at = "create invite", UNCHANGED <<db, history>>,
           NEW open, NEW seen, Goto(r, Inviting(req[r], open, seen)),
           open \subseteq DOMAIN db.invites, seen \subseteq DOMAIN db.invites,
           \A i \in seen \ open : Alike(db.invites[i], req[r].tenant, req[r].email) => ~IsPending(db.invites[i])
    PROVE  IInv'
<1>1. PICK q : q = Inviting(req[r], open, seen) /\ Goto(r, q)
  OBVIOUS
<1>2. open \in SUBSET Nat /\ seen \in SUBSET Nat /\ db' = db
  BY Rows, InviteKeys
<1>3. /\ q.at = "create invite" /\ q.open = open /\ q.seen = seen
      /\ q.tenant = req[r].tenant /\ q.email = req[r].email
      /\ "invite" \notin DOMAIN q /\ Anchored(q) /\ Harmless(q)
  <2>1. db'.tenants = db.tenants /\ open \subseteq Nat /\ seen \subseteq Nat
    BY <1>2
  <2>2. Bound(r, Inviting(req[r], open, seen), open, seen)
    BY <2>1, InvitingCall
  <2> QED BY <1>1, <2>2 DEF Bound
<1>4. req'[r] = q
  BY <1>1, <1>3, Going DEF IInv
<1>5. Cleared(r)'
  BY <1>2, <1>3, <1>4 DEF Cleared, At
<1>6. Soft(db, db') /\ Ending(db, db')
  BY <1>2, Rows, MildSoft
<1>7. crossed \subseteq crossed' /\ crossed' \subseteq Nat /\ joined' = joined
  BY DEF IInv, TypeOK, history
<1>8. \A x \in Accepting : x \in DOMAIN db.invites => (db'.invites[x].revoked => db.invites[x].revoked \/ x \in crossed')
  BY <1>2
<1>9. mintedBy' = mintedBy /\ inviteAt' = inviteAt /\ lapsed' = lapsed /\ erased' = erased /\ mailbox' = mailbox
  BY DEF history
<1>10. req[r].at # "mark accepted" /\ req[r].at \notin {"mark used", "revoke sessions"} /\ Len(db'.invites) = Len(db.invites)
  BY <1>2
<1> QED BY <1>1, <1>3, <1>5, <1>6, <1>7, <1>8, <1>9, <1>10, InvitingRequest

\* The list of the open invitations keeps the invariant.
LEMMA ListOpenKeeps ==
    ASSUME IInv, NEW r \in Requests, ListOpen(r)
    PROVE  IInv'
<1>1. Counted /\ req[r].at = "list invites" /\ UNCHANGED <<db, history>>
  BY Continuing DEF IInv, ListOpen
<1>2. PICK same : /\ same = {i \in ListInvitesForTenant(req[r].tenant, TRUE) : db.invites[i].email = req[r].email}
                  /\ Goto(r, Inviting(req[r], same, DOMAIN db.invites))
  BY DEF ListOpen
<1>3. /\ same \subseteq DOMAIN db.invites
      /\ \A i \in DOMAIN db.invites \ same : Alike(db.invites[i], req[r].tenant, req[r].email) => ~IsPending(db.invites[i])
  BY <1>2, ListedOpen DEF Alike
<1> QED BY <1>1, <1>2, <1>3, InvitingOn

\* One of the listed invitations is revoked, or was over.
LEMMA RevokeOpenKeeps ==
    ASSUME IInv, NEW r \in Requests, RevokeOpen(r)
    PROVE  IInv'
<1>1. Counted /\ req[r].at = "create invite"
  BY Continuing DEF IInv, RevokeOpen
<1>2. PICK i \in req[r].open :
         /\ db' = RevokeInvite(req[r].tenant, i).db
         /\ crossed' = IF db' # db /\ i \in Accepting THEN crossed \cup {i} ELSE crossed
         /\ Goto(r, Inviting(req[r], req[r].open \ {i}, req[r].seen))
  BY DEF RevokeOpen
<1>3. /\ req[r].open \subseteq DOMAIN db.invites /\ req[r].seen \subseteq DOMAIN db.invites
      /\ \A x \in req[r].seen \ req[r].open :
            Alike(db.invites[x], req[r].tenant, req[r].email) => ~IsPending(db.invites[x])
  BY <1>1 DEF IInv, Coalesced, Cleared, At
<1>4. i \in DOMAIN db.invites /\ DOMAIN db.invites \subseteq Nat
  BY <1>2, <1>3, Rows, InviteKeys
<1>5. PICK answer : answer = RevokeInvite(req[r].tenant, i) /\ db' = answer.db
  BY <1>2
<1>6. /\ Soft(db, db') /\ Ending(db, db') /\ Len(db'.invites) = Len(db.invites) /\ DOMAIN db'.invites = DOMAIN db.invites
      /\ db'.tenants = db.tenants
      /\ \A x \in DOMAIN db.invites : x # i => db'.invites[x] = db.invites[x]
      /\ db' = db \/ db'.invites[i] # db.invites[i]
      /\ Alike(db.invites[i], req[r].tenant, req[r].email) => ~IsPending(db'.invites[i])
  <2>1. CASE db' = db /\ (db.invites[i].tenant = req[r].tenant => ~IsPending(db.invites[i]))
    <3>1. Soft(db, db') /\ Ending(db, db')
      BY <2>1, Rows, MildSoft
    <3> QED BY <2>1, <3>1 DEF Alike
  <2>2. CASE SetsInvite(answer, db, i, [db.invites[i] EXCEPT !.revoked = TRUE]) /\ ~db.invites[i].revoked
    <3>1. PICK row : row = [db.invites[i] EXCEPT !.revoked = TRUE]
      OBVIOUS
    <3>2. /\ row.tenant = db.invites[i].tenant /\ row.email = db.invites[i].email
          /\ row.accepted = db.invites[i].accepted /\ row.expired = db.invites[i].expired /\ row.revoked
      BY <1>4, <3>1, Rows, InviteRow, InviteColumns
    <3>3. OnlyInvites(db, db') /\ Edits(db.invites, db'.invites, i, row)
      BY <1>5, <2>2, <3>1 DEF SetsInvite
    <3>4. Ending(db, db') /\ DOMAIN db'.invites = DOMAIN db.invites /\ Len(db'.invites) = Len(db.invites)
      BY <1>4, <3>2, <3>3, Rows, EndingOne
    <3>5. Soft(db, db')
      BY <3>3, <3>4, Rows, EndingLinks
    <3>6. db'.invites[i] = row /\ \A x \in DOMAIN db.invites : x # i => db'.invites[x] = db.invites[x]
      BY <3>3 DEF Edits
    <3>7. db'.tenants = db.tenants
      BY <3>3 DEF OnlyInvites
    <3>8. ~IsPending(db'.invites[i])
      BY <3>2, <3>6 DEF IsPending
    <3> QED BY <2>2, <3>2, <3>4, <3>5, <3>6, <3>7, <3>8
  <2> QED BY <1>4, <1>5, <2>1, <2>2, Rows, RevokeInviteRevokes
<1>7. PICK q : q = Inviting(req[r], req[r].open \ {i}, req[r].seen) /\ Goto(r, q)
  BY <1>2
<1>8. /\ q.at = "create invite" /\ q.open = req[r].open \ {i} /\ q.seen = req[r].seen
      /\ q.tenant = req[r].tenant /\ q.email = req[r].email
      /\ "invite" \notin DOMAIN q /\ Anchored(q) /\ Harmless(q)
  <2>1. PICK open, seen : open = req[r].open \ {i} /\ seen = req[r].seen
    OBVIOUS
  <2>2. db'.tenants = db.tenants /\ open \subseteq Nat /\ seen \subseteq Nat
    BY <1>3, <1>4, <1>6, <2>1
  <2>3. Bound(r, Inviting(req[r], open, seen), open, seen)
    BY <1>1, <2>2, InvitingCall
  <2> QED BY <1>7, <2>1, <2>3 DEF Bound
<1>9. Cleared(r)'
  <2>1. req'[r] = q
    BY <1>7, <1>8, Going DEF IInv
  <2>2. ASSUME NEW x \in req[r].seen \ (req[r].open \ {i}), Alike(db'.invites[x], req[r].tenant, req[r].email)
        PROVE  ~IsPending(db'.invites[x])
    <3>1. x \in DOMAIN db.invites
      BY <1>3
    <3>2. Alike(db.invites[x], req[r].tenant, req[r].email)
      BY <1>6, <2>2, <3>1, EndedStays
    <3>3. CASE x = i
      BY <1>6, <3>2, <3>3
    <3>4. CASE x # i
      BY <1>3, <1>6, <3>1, <3>2, <3>4
    <3> QED BY <3>3, <3>4
  <2>3. req[r].open \ {i} \subseteq DOMAIN db'.invites /\ req[r].seen \subseteq DOMAIN db'.invites
    BY <1>3, <1>6
  <2> QED BY <1>8, <2>1, <2>2, <2>3 DEF Cleared, At
<1>10. crossed \subseteq crossed' /\ crossed' \subseteq Nat
  BY <1>2, <1>4 DEF IInv, TypeOK
<1>11. \A x \in Accepting : x \in DOMAIN db.invites => (db'.invites[x].revoked => db.invites[x].revoked \/ x \in crossed')
  BY <1>2, <1>6
<1>12. mintedBy' = mintedBy /\ inviteAt' = inviteAt /\ lapsed' = lapsed /\ erased' = erased /\ joined' = joined /\ mailbox' = mailbox
  BY DEF RevokeOpen
<1>13. req[r].at # "mark accepted" /\ req[r].at \notin {"mark used", "revoke sessions"}
  BY <1>1
<1> QED BY <1>1, <1>6, <1>7, <1>8, <1>9, <1>10, <1>11, <1>12, <1>13, InvitingRequest

\* The new invitation is open, and no other is that its request has seen.
LEMMA InviteCreateKeeps ==
    ASSUME IInv, NEW r \in Requests, InviteCreate(r)
    PROVE  IInv'
<1>0. Counted /\ req[r].at = "create invite"
  BY Continuing DEF IInv, InviteCreate
<1> DEFINE t == req[r].tenant
           e == req[r].email
           new == Len(db.invites) + 1
<1>1. /\ t \in Nat /\ t \in DOMAIN db.tenants /\ e \in Nat \ {0} /\ req[r].roles \in SUBSET Roles
      /\ req[r].seen \in SUBSET Nat /\ req[r].open = {}
      /\ Len(db.invites) \in Nat /\ DOMAIN db.invites = 1..Len(db.invites)
      /\ inviteAt \in Seq(SUBSET Nat) /\ Len(inviteAt) = Len(db.invites)
  <2>1. "tenant" \in DOMAIN req[r] /\ t \in Nat /\ e \in Emails /\ req[r].roles \in SUBSET Roles /\ req[r].seen \in SUBSET Nat
    BY <1>0, CallsKnow, Speaking, ReqHarmless
  <2>4. req[r].open = {}
    BY DEF InviteCreate
  <2>2. t \in DOMAIN db.tenants
    BY <2>1 DEF IInv, Grounded, OfTenant
  <2>3. Len(db.invites) \in Nat /\ DOMAIN db.invites = 1..Len(db.invites)
    BY Rows, TableDomains
  <2> QED BY <2>1, <2>2, <2>3, <2>4, IdentityAssumption DEF IInv, TypeOK, Grounded
<1>2. PICK row : row = [tenant |-> t, email |-> e, roles |-> req[r].roles, accepted |-> FALSE, revoked |-> FALSE, expired |-> FALSE]
  OBVIOUS
<1>3. row.tenant = t /\ row.email = e
  BY <1>2
<1>4. OnlyInvites(db, db') /\ Adds(db.invites, db'.invites, row) /\ Goto(r, Idle)
  <2>1. /\ CreateInvite(t, e, req[r].roles).err = "ok"
        /\ OnlyInvites(db, CreateInvite(t, e, req[r].roles).db)
        /\ Adds(db.invites, CreateInvite(t, e, req[r].roles).db.invites, row)
    BY <1>1, <1>2, Rows, CreateInviteAdds
  <2>2. db' = CreateInvite(t, e, req[r].roles).db /\ Goto(r, Idle)
    BY <2>1 DEF InviteCreate, Then
  <2> QED BY <2>1, <2>2
<1>5. /\ DOMAIN db'.invites = DOMAIN db.invites \cup {new} /\ Len(db'.invites) = new
      /\ new \notin DOMAIN db.invites
      /\ db'.invites[new] = row
      /\ \A i \in DOMAIN db.invites : db'.invites[i] = db.invites[i]
  BY <1>1, <1>4, NewRow
<1>6. Ending(db, db')
  BY <1>5 DEF Ending
<1>7. Soft(db, db')
  <2>1. ASSUME NEW i \in DOMAIN db'.invites PROVE db'.invites[i].tenant \in DOMAIN db.tenants
    <3>1. CASE i \in DOMAIN db.invites
      BY <1>5, <3>1, Rows DEF Linked
    <3>2. CASE i = new
      BY <1>1, <1>3, <1>5, <3>2
    <3> QED BY <1>5, <3>1, <3>2
  <2>2. DOMAIN db.invites \subseteq DOMAIN db'.invites
    BY <1>5
  <2> QED BY <1>4, <2>1, <2>2, Rows, InvitesSoft
<1>8. /\ inviteAt' \in Seq(SUBSET Nat) /\ Len(inviteAt') = new
      /\ inviteAt'[new] = req[r].seen
      /\ \A i \in DOMAIN db.invites : inviteAt'[i] = inviteAt[i]
  <2>1. PICK n : n = Append(inviteAt, req[r].seen)
    OBVIOUS
  <2>2. n \in Seq(SUBSET Nat) /\ Adds(inviteAt, n, req[r].seen)
    BY <1>1, <2>1, Inserting
  <2>3. DOMAIN inviteAt = 1..Len(inviteAt)
    BY <1>1
  <2>4. /\ Len(n) = Len(inviteAt) + 1 /\ n[Len(inviteAt) + 1] = req[r].seen
        /\ \A i \in DOMAIN inviteAt : n[i] = inviteAt[i]
    BY <2>2 DEF Adds
  <2>5. inviteAt' = n
    BY <2>1 DEF InviteCreate
  <2> QED BY <1>1, <2>2, <2>3, <2>4, <2>5
<1>9. Moving /\ req'[r] = Idle /\ \A x \in Requests : x # r => req'[x] = req[x]
  BY <1>4, IdleCalm, Going DEF IInv
<1>16. Idle.at # "create invite" /\ "invite" \notin DOMAIN Idle
  BY DEF Idle
<1>10. mintedBy' = mintedBy /\ lapsed' = lapsed /\ erased' = erased /\ joined' = joined /\ crossed' = crossed /\ mailbox' = mailbox
  BY DEF InviteCreate
<1>11. joined' \subseteq DOMAIN db'.invites
  BY <1>5, <1>10 DEF IInv, Accepted
<1>12. SoftlyKept
  <2>1. req' \in [Requests -> States]
    BY <1>9 DEF Moving
  <2>2. \A x \in Requests : req'[x] = req[x] \/ (Anchored(req'[x]) /\ Harmless(req'[x]))
    BY <1>9, IdleCalm
  <2>3. \A x \in Requests : req[x].at \in {"mark used", "revoke sessions"} => req'[x] = req[x] \/ req[x].user \in lapsed'
    BY <1>0, <1>9
  <2>4. lapsed \subseteq lapsed' /\ lapsed' \subseteq Nat /\ crossed' \subseteq Nat
    BY <1>10 DEF IInv, TypeOK
  <2>5. Len(inviteAt') = Len(db'.invites)
    BY <1>5, <1>8
  <2> QED BY <1>0, <1>7, <1>8, <1>10, <1>11, <2>1, <2>2, <2>3, <2>4, <2>5, SoftStep
<1>13. Replaced'
  <2>1. ASSUME NEW i \in DOMAIN db'.invites, NEW j \in DOMAIN db'.invites, i < j, i \in inviteAt'[j],
               Alike(db'.invites[i], db'.invites[j].tenant, db'.invites[j].email)
        PROVE  ~IsPending(db'.invites[i]) \/ ~IsPending(db'.invites[j])
    <3>1. i \in DOMAIN db.invites
      BY <1>1, <1>5, <2>1
    <3>2. CASE j = new
      <4>1. i \in req[r].seen \ req[r].open /\ Alike(db.invites[i], t, e)
        BY <1>1, <1>3, <1>5, <1>8, <2>1, <3>1, <3>2
      <4>2. ~IsPending(db.invites[i])
        BY <1>0, <3>1, <4>1 DEF IInv, Coalesced, Cleared, At
      <4> QED BY <1>5, <3>1, <4>2
    <3>3. CASE j \in DOMAIN db.invites
      <4>1. i \in inviteAt[j] /\ Alike(db.invites[i], db.invites[j].tenant, db.invites[j].email)
        BY <1>5, <1>8, <2>1, <3>1, <3>3
      <4>2. ~IsPending(db.invites[i]) \/ ~IsPending(db.invites[j])
        BY <2>1, <3>1, <3>3, <4>1 DEF IInv, Coalesced, Replaced
      <4> QED BY <1>5, <3>1, <3>3, <4>2
    <3> QED BY <1>5, <3>2, <3>3
  <2> QED BY <2>1 DEF Replaced
<1>14. ASSUME NEW x \in Requests PROVE Cleared(x)'
  <2>1. req'[x] = req[x] \/ req'[x].at # "create invite"
    <3>1. CASE x = r
      BY <1>9, <1>16, <3>1
    <3>2. CASE x # r
      BY <1>9, <3>2
    <3> QED BY <3>1, <3>2
  <2>2. DOMAIN db.invites \subseteq DOMAIN db'.invites
    BY <1>5
  <2> QED BY <1>6, <2>1, <2>2, ClearedStep
<1>15. Accepted'
  <2>1. \A x \in Accepting : x \in DOMAIN db.invites => (db'.invites[x].revoked => db.invites[x].revoked \/ x \in crossed')
    BY <1>5
  <2>2. \A x \in Requests :
          \/ req'[x] = req[x]
          \/ /\ OfInvite(x)' => req'[x].invite \in Accepting \/ ~db'.invites[req'[x].invite].revoked
             /\ req[x].at = "mark accepted" => db'.invites[req[x].invite].accepted \/ req[x].invite \in crossed'
    BY <1>0, <1>9, <1>16 DEF OfInvite
  <2> QED BY <1>6, <1>10, <1>11, <2>1, <2>2, AcceptedStep
<1> QED BY <1>12, <1>13, <1>14, <1>15 DEF IInv, SoftlyKept, Coalesced

\* What a handler drops the error of: the request goes on.
LEMMA StatementFailsKeeps ==
    ASSUME IInv, NEW r \in Requests, StatementFails(r)
    PROVE  IInv'
<1>1. /\ db' = db
      /\ mintedBy' = mintedBy /\ inviteAt' = inviteAt /\ erased' = erased /\ joined' = joined /\ mailbox' = mailbox
      /\ lapsed' = IF req[r].at \in {"mark used", "revoke sessions"} THEN lapsed \cup {req[r].user} ELSE lapsed
      /\ crossed' = IF req[r].at = "mark accepted" THEN crossed \cup {req[r].invite} ELSE crossed
  BY DEF StatementFails, At
<1>2. Counted
  <2>1. backend' = backend /\ started' = started /\ faults' = faults + 1
    BY DEF StatementFails
  <2>2. started \in Nat /\ faults \in Nat
    BY DEF IInv, TypeOK
  <2>3. \A n \in Nat : n + 1 \in Nat
    OBVIOUS
  <2> QED BY <2>1, <2>2, <2>3 DEF Counted
<1>3. /\ Soft(db, db') /\ Ending(db, db') /\ Len(db'.invites) = Len(db.invites)
      /\ \A x \in Accepting : x \in DOMAIN db.invites => (db'.invites[x].revoked => db.invites[x].revoked \/ x \in crossed')
      /\ joined' \subseteq DOMAIN db'.invites
      /\ \A i \in joined' : i \in joined \/ \E x \in Requests : req'[x].at = "mark accepted" /\ req'[x].invite = i
  BY <1>1, Rows, MildSoft DEF IInv, Accepted
<1>4. lapsed \subseteq lapsed' /\ lapsed' \subseteq Nat /\ crossed \subseteq crossed' /\ crossed' \subseteq Nat
  <2>1. req[r].at \in {"mark used", "revoke sessions"} => req[r].user \in Nat
    BY CallsKnow, ReqHarmless
  <2>2. req[r].at = "mark accepted" => req[r].invite \in Nat
    BY CallsKnow, ReqHarmless
  <2>3. lapsed \subseteq Nat /\ crossed \subseteq Nat
    BY DEF IInv, TypeOK
  <2> QED BY <1>1, <2>1, <2>2, <2>3
<1>12. CASE req[r].at = "list invites" \/ (req[r].at = "create invite" /\ req[r].open # {})
  <2>1. UNCHANGED <<db, history>>
    BY <1>1, <1>12 DEF history
  <2>2. CASE req[r].at = "list invites"
    <3>1. Goto(r, Inviting(req[r], {}, {}))
      BY <2>2 DEF StatementFails, AfterFailure, At
    <3>2. {} \subseteq DOMAIN db.invites /\ \A i \in {} \ {} : Alike(db.invites[i], req[r].tenant, req[r].email) => ~IsPending(db.invites[i])
      OBVIOUS
    <3>3. PICK none : none = {}
      OBVIOUS
    <3> QED BY <1>2, <2>1, <2>2, <3>1, <3>2, <3>3, InvitingOn
  <2>3. CASE req[r].at = "create invite" /\ req[r].open # {}
    <3>1. PICK i \in req[r].open : Goto(r, Inviting(req[r], req[r].open \ {i}, req[r].seen \ {i}))
      BY <2>3 DEF StatementFails, AfterFailure, At
    <3>2. /\ req[r].open \subseteq DOMAIN db.invites /\ req[r].seen \subseteq DOMAIN db.invites
          /\ \A x \in req[r].seen \ req[r].open :
                Alike(db.invites[x], req[r].tenant, req[r].email) => ~IsPending(db.invites[x])
      BY <2>3 DEF IInv, Coalesced, Cleared, At
    <3>3. PICK open, seen : open = req[r].open \ {i} /\ seen = req[r].seen \ {i}
      OBVIOUS
    <3>4. open \subseteq DOMAIN db.invites /\ seen \subseteq DOMAIN db.invites /\ seen \ open \subseteq req[r].seen \ req[r].open
      BY <3>1, <3>2, <3>3
    <3> QED BY <1>2, <2>1, <2>3, <3>1, <3>2, <3>3, <3>4, InvitingOn
  <2> QED BY <1>12, <2>2, <2>3
<1> SUFFICES ASSUME ~(req[r].at = "list invites" \/ (req[r].at = "create invite" /\ req[r].open # {}))
             PROVE  IInv'
  BY <1>12
<1>5. PICK q : /\ Goto(r, q) /\ Anchored(q) /\ Harmless(q) /\ q.at # "create invite"
               /\ "invite" \in DOMAIN q => q.invite \in Accepting
  <2>1. CASE req[r].at = "revoke sessions" /\ req[r].then = "unlock user"
    <3>1. PICK q : q = [at |-> "unlock user", user |-> req[r].user] /\ Goto(r, q)
      BY <2>1 DEF StatementFails, AfterFailure, At
    <3>2. req[r].user \in DOMAIN db.users /\ req[r].user \in Nat /\ Live(req[r].user)
      BY <2>1, CallsKnow, Speaking, ReqHarmless DEF IInv, Grounded, OfUser, Harmless
    <3>3. q \in States /\ q.user = req[r].user /\ q.at = "unlock user"
      BY <3>1, <3>2 DEF States
    <3>4. "invite" \notin DOMAIN q /\ "tenant" \notin DOMAIN q /\ "token" \notin DOMAIN q
      BY <3>1
    <3>5. Anchored(q) /\ Harmless(q)
      BY <1>1, <3>2, <3>3, <3>4 DEF Anchored, Harmless
    <3> QED BY <3>1, <3>3, <3>4, <3>5
  <2>2. CASE req[r].at = "attach member"
    <3>1. PICK q : q = [at |-> "mark accepted", invite |-> req[r].invite] /\ Goto(r, q)
      BY <2>2 DEF StatementFails, AfterFailure, At
    <3>2. req[r].invite \in DOMAIN db.invites /\ req[r].invite \in Nat /\ req[r].invite \in Accepting
      BY <2>2, Accepter
    <3>3. q \in States /\ q.invite = req[r].invite /\ q.at = "mark accepted"
      BY <3>1, <3>2 DEF States
    <3>4. "user" \notin DOMAIN q /\ "tenant" \notin DOMAIN q /\ "token" \notin DOMAIN q
      BY <3>1
    <3>5. Anchored(q) /\ Harmless(q)
      BY <1>1, <3>2, <3>3, <3>4 DEF Anchored, Harmless
    <3> QED BY <3>1, <3>2, <3>3, <3>5
  <2>4. CASE req[r].at = "check member"
    <3>1. PICK q : q = [req[r] EXCEPT !.at = "list invites"] /\ Goto(r, q)
      BY <2>4 DEF StatementFails, AfterFailure, At
    <3>2. q.at = "list invites" /\ "invite" \notin DOMAIN q /\ Anchored(q) /\ Harmless(q)
      BY <1>1, <2>4, <3>1, ToList
    <3> QED BY <3>1, <3>2
  <2>3. CASE /\ ~(req[r].at = "revoke sessions" /\ req[r].then = "unlock user")
             /\ req[r].at \notin {"attach member", "check member"}
    <3>1. Goto(r, Idle)
      BY <2>3 DEF StatementFails, AfterFailure, At
    <3>2. Idle.at # "create invite" /\ "invite" \notin DOMAIN Idle
      BY DEF Idle
    <3> QED BY <3>1, <3>2, IdleCalm
  <2> QED BY <2>1, <2>2, <2>3, <2>4
<1>6. Moving /\ req'[r] = q /\ \A x \in Requests : x # r => req'[x] = req[x]
  BY <1>5, Going DEF IInv
<1>7. req' \in [Requests -> States]
  BY <1>6 DEF Moving
<1>8. \A x \in Requests : req'[x] = req[x] \/ (Anchored(req'[x]) /\ Harmless(req'[x]))
  BY <1>5, <1>6
<1>9. \A x \in Requests : req[x].at \in {"mark used", "revoke sessions"} => req'[x] = req[x] \/ req[x].user \in lapsed'
  BY <1>1, <1>6
<1>10. \A x \in Requests : req'[x] = req[x] \/ req'[x].at # "create invite" \/ Cleared(x)'
  BY <1>5, <1>6
<1>11. \A x \in Requests :
          \/ req'[x] = req[x]
          \/ /\ OfInvite(x)' => req'[x].invite \in Accepting \/ ~db'.invites[req'[x].invite].revoked
             /\ req[x].at = "mark accepted" => db'.invites[req[x].invite].accepted \/ req[x].invite \in crossed'
  BY <1>1, <1>5, <1>6 DEF OfInvite
<1> QED BY <1>1, <1>2, <1>3, <1>4, <1>7, <1>8, <1>9, <1>10, <1>11, InvitingStep

\* A date goes by.
LEMMA TokenExpires ==
    ASSUME NEW d \in Database, Linked(d), NEW v \in DOMAIN d.verifs
    PROVE  Mild(d, [d EXCEPT !.verifs[v].expired = TRUE])
<1>1. PICK row : row = [d.verifs[v] EXCEPT !.expired = TRUE]
  OBVIOUS
<1>2. d.verifs \in Seq(Verifications) /\ d.verifs[v] \in Verifications
  BY TableTypes
<1>3. row \in Verifications /\ row.user = d.verifs[v].user /\ row.used = d.verifs[v].used /\ row.expired
  BY <1>1, <1>2 DEF Verifications
<1>4. PICK new : new = [d.verifs EXCEPT ![v] = row]
  OBVIOUS
<1>5. new \in Seq(Verifications) /\ Edits(d.verifs, new, v, row)
  BY <1>2, <1>3, <1>4, Updating
<1>6. PICK e : e = [d EXCEPT !.verifs = new]
  OBVIOUS
<1>7. OnlyVerifs(d, e) /\ e.verifs = new
  BY <1>5, <1>6, Replacing
<1>8. [d EXCEPT !.verifs[v].expired = TRUE] = e
  BY <1>1, <1>4, <1>6
<1>9. Mild(d, e)
  BY <1>3, <1>5, <1>7, MildVerifs
<1> QED BY <1>8, <1>9

\* A session that expires is a mild change.
LEMMA SessionExpires ==
    ASSUME NEW d \in Database, Linked(d), NEW s \in DOMAIN d.sessions
    PROVE  Mild(d, [d EXCEPT !.sessions[s].expired = TRUE])
<1>1. PICK row : row = [d.sessions[s] EXCEPT !.expired = TRUE]
  OBVIOUS
<1>2. d.sessions \in Seq(Sessions) /\ d.sessions[s] \in Sessions
  BY TableTypes
<1>3. row \in Sessions /\ row.user = d.sessions[s].user /\ row.tenant = d.sessions[s].tenant /\ row.revoked = d.sessions[s].revoked
  BY <1>1, <1>2 DEF Sessions
<1>4. PICK new : new = [d.sessions EXCEPT ![s] = row]
  OBVIOUS
<1>5. new \in Seq(Sessions) /\ Edits(d.sessions, new, s, row)
  BY <1>2, <1>3, <1>4, Updating
<1>6. PICK e : e = [d EXCEPT !.sessions = new]
  OBVIOUS
<1>7. OnlySessions(d, e) /\ e.sessions = new
  BY <1>5, <1>6, Replacing
<1>8. [d EXCEPT !.sessions[s].expired = TRUE] = e
  BY <1>1, <1>4, <1>6
<1>9. \A x \in DOMAIN d.sessions :
         e.sessions[x].user = d.sessions[x].user /\ e.sessions[x].tenant = d.sessions[x].tenant /\ e.sessions[x].revoked = d.sessions[x].revoked
  BY <1>3, <1>5, <1>7 DEF Edits
<1>10. Mild(d, e)
  <2>1. DOMAIN e.sessions = DOMAIN d.sessions /\ Len(e.sessions) = Len(d.sessions)
    BY <1>5, <1>7 DEF Edits
  <2>2. Linked(e)
    BY <1>7, <1>9, <2>1 DEF Linked, OnlySessions
  <2> QED BY <1>7, <1>9, <2>1, <2>2 DEF Mild, Grows, OnlySessions
<1> QED BY <1>8, <1>10

\* A window of failures that passes is a mild change.
LEMMA WindowPasses ==
    ASSUME NEW d \in Database, Linked(d), NEW u \in DOMAIN d.users
    PROVE  Mild(d, [d EXCEPT !.users[u].age = @ + 1])
<1>1. PICK row : row = [d.users[u] EXCEPT !.age = @ + 1]
  OBVIOUS
<1>2. d.users \in Seq(Users) /\ d.users[u] \in Users
  BY TableTypes
<1>3. row \in Users /\ row.email = d.users[u].email /\ row.pw = d.users[u].pw
  <2>1. d.users[u].age + 1 \in Nat
    <3>1. d.users[u].age \in Nat
      BY <1>2 DEF Users
    <3> QED BY <3>1
  <2>2. PICK age \in Nat : age = d.users[u].age + 1
    BY <2>1
  <2>3. row = [d.users[u] EXCEPT !.age = age]
    BY <1>1, <2>2
  <2> QED BY <1>2, <2>3 DEF Users
<1>4. PICK new : new = [d.users EXCEPT ![u] = row]
  OBVIOUS
<1>5. new \in Seq(Users) /\ Edits(d.users, new, u, row)
  BY <1>2, <1>3, <1>4, Updating
<1>6. PICK e : e = [d EXCEPT !.users = new]
  OBVIOUS
<1>7. OnlyUsers(d, e) /\ e.users = new
  BY <1>5, <1>6, Replacing
<1>8. [d EXCEPT !.users[u].age = @ + 1] = e
  BY <1>1, <1>4, <1>6
<1>9. Mild(d, e)
  BY <1>3, <1>5, <1>7, MildUsers
<1> QED BY <1>8, <1>9

\* An invite that expires is a soft change, and an end.
LEMMA InviteExpires ==
    ASSUME NEW d \in Database, Linked(d), NEW i \in DOMAIN d.invites
    PROVE  LET e == [d EXCEPT !.invites[i].expired = TRUE]
           IN  /\ Soft(d, e) /\ Ending(d, e) /\ Len(e.invites) = Len(d.invites)
               /\ \A x \in DOMAIN d.invites : e.invites[x].revoked = d.invites[x].revoked
<1>1. PICK row : row = [d.invites[i] EXCEPT !.expired = TRUE]
  OBVIOUS
<1>2. d.invites \in Seq(Invites) /\ d.invites[i] \in Invites
  BY TableTypes
<1>3. /\ row \in Invites /\ row.tenant = d.invites[i].tenant /\ row.email = d.invites[i].email
      /\ row.accepted = d.invites[i].accepted /\ row.revoked = d.invites[i].revoked /\ row.expired
  BY <1>1, <1>2, InviteColumns
<1>4. PICK new : new = [d.invites EXCEPT ![i] = row]
  OBVIOUS
<1>5. new \in Seq(Invites) /\ Edits(d.invites, new, i, row)
  BY <1>2, <1>3, <1>4, Updating
<1>6. PICK e : e = [d EXCEPT !.invites = new]
  OBVIOUS
<1>7. OnlyInvites(d, e) /\ e.invites = new
  BY <1>5, <1>6, Replacing
<1>8. [d EXCEPT !.invites[i].expired = TRUE] = e
  BY <1>1, <1>4, <1>6
<1>9. Ending(d, e) /\ DOMAIN e.invites = DOMAIN d.invites /\ Len(e.invites) = Len(d.invites)
  BY <1>3, <1>5, <1>7, EndingOne
<1>10. Soft(d, e)
  BY <1>7, <1>9, EndingLinks
<1>11. \A x \in DOMAIN d.invites : e.invites[x].revoked = d.invites[x].revoked
  BY <1>3, <1>5, <1>7 DEF Edits
<1> QED BY <1>8, <1>9, <1>10, <1>11

\* Time keeps the invariant.
LEMMA TimePassesKeeps ==
    ASSUME IInv, TimePasses
    PROVE  IInv'
<1>1. Counted /\ UNCHANGED req /\ UNCHANGED history
  BY DEF TimePasses, Counted, IInv, TypeOK
<1>2. ASSUME NEW v \in DOMAIN db.verifs, db' = [db EXCEPT !.verifs[v].expired = TRUE] PROVE IInv'
  BY <1>1, <1>2, Rows, TokenExpires, CalmAnswer
<1>3. ASSUME NEW s \in DOMAIN db.sessions, db' = [db EXCEPT !.sessions[s].expired = TRUE] PROVE IInv'
  BY <1>1, <1>3, Rows, SessionExpires, CalmAnswer
<1>4. ASSUME NEW u \in DOMAIN db.users, db' = [db EXCEPT !.users[u].age = @ + 1] PROVE IInv'
  BY <1>1, <1>4, Rows, WindowPasses, CalmAnswer
<1>5. ASSUME NEW i \in DOMAIN db.invites, db' = [db EXCEPT !.invites[i].expired = TRUE] PROVE IInv'
  <2>1. /\ Soft(db, db') /\ Ending(db, db') /\ Len(db'.invites) = Len(db.invites)
        /\ \A x \in DOMAIN db.invites : db'.invites[x].revoked = db.invites[x].revoked
    BY <1>5, Rows, InviteExpires
  <2>2. /\ mintedBy' = mintedBy /\ inviteAt' = inviteAt /\ lapsed' = lapsed /\ erased' = erased
        /\ joined' = joined /\ mailbox' = mailbox /\ crossed' = crossed /\ crossed \subseteq Nat
    BY <1>1 DEF history, IInv, TypeOK
  <2> QED BY <1>1, <2>1, <2>2, InvitingAnswer
<1> QED BY <1>2, <1>3, <1>4, <1>5 DEF TimePasses

(***************************************************************************)
(* The invariant holds                                                     *)
(***************************************************************************)
LEMMA SequenceOf ==
    ASSUME NEW S, NEW n \in Nat, NEW f \in [1..n -> S]
    PROVE  f \in Seq(S) /\ Len(f) = n
OBVIOUS

\* The seeded database satisfies the invariant.
LEMMA InitHolds ==
    ASSUME Init
    PROVE  IInv
<1>1. /\ db = Seed /\ req = [r \in Requests |-> Idle]
      /\ started = 0 /\ faults = 0
      /\ lapsed = {} /\ DOMAIN erased = {} /\ joined = {} /\ crossed = {} /\ mailbox = DOMAIN db.verifs
  BY DEF Init
<1>2. db \in Database /\ Linked(db)
  BY <1>1, SeedAssumption
<1>3. /\ "user" \notin DOMAIN Idle /\ "invite" \notin DOMAIN Idle /\ "tenant" \notin DOMAIN Idle /\ "token" \notin DOMAIN Idle
      /\ Idle.at = "idle" /\ Idle \in States
  BY DEF Idle, States
<1>4. \A r \in Requests : req[r] = Idle
  BY <1>1
<1>5. /\ Len(db.sessions) \in Nat /\ DOMAIN db.sessions = 1..Len(db.sessions)
      /\ Len(db.invites) \in Nat /\ DOMAIN db.invites = 1..Len(db.invites)
      /\ DOMAIN db.verifs \subseteq Nat
  BY <1>2, TableDomains
<1>6. /\ mintedBy \in Seq([pw : Nat, raced : BOOLEAN, erased : BOOLEAN]) /\ Len(mintedBy) = Len(db.sessions)
      /\ \A s \in DOMAIN db.sessions : mintedBy[s].pw = db.users[db.sessions[s].user].pw /\ ~mintedBy[s].erased
  <2>1. mintedBy = [s \in 1..Len(db.sessions) |-> [pw |-> db.users[db.sessions[s].user].pw, raced |-> FALSE, erased |-> FALSE]]
    BY <1>1, <1>5 DEF Init
  <2>2. ASSUME NEW s \in 1..Len(db.sessions) PROVE db.users[db.sessions[s].user].pw \in Nat
    <3>1. db.users[db.sessions[s].user] \in Users
      BY <1>2, <1>5, UserRow DEF Linked
    <3> QED BY <3>1 DEF Users
  <2>3. mintedBy \in [1..Len(db.sessions) -> [pw : Nat, raced : BOOLEAN, erased : BOOLEAN]]
    BY <2>1, <2>2
  <2>4. mintedBy \in Seq([pw : Nat, raced : BOOLEAN, erased : BOOLEAN]) /\ Len(mintedBy) = Len(db.sessions)
    <3>1. PICK S : S = [pw : Nat, raced : BOOLEAN, erased : BOOLEAN]
      OBVIOUS
    <3>2. Len(db.sessions) \in Nat /\ mintedBy \in [1..Len(db.sessions) -> S]
      BY <1>5, <2>3, <3>1
    <3>3. mintedBy \in Seq(S) /\ Len(mintedBy) = Len(db.sessions)
      BY <3>2, SequenceOf
    <3> QED BY <3>1, <3>3
  <2> QED BY <1>5, <2>1, <2>4
<1>7. /\ inviteAt \in Seq(SUBSET Nat) /\ Len(inviteAt) = Len(db.invites)
  <2>1. inviteAt = [i \in 1..Len(db.invites) |-> 1 .. i - 1]
    BY <1>1, <1>5 DEF Init
  <2>2. inviteAt \in [1..Len(db.invites) -> SUBSET Nat]
    BY <1>5, <2>1
  <2>3. inviteAt \in Seq(SUBSET Nat) /\ Len(inviteAt) = Len(db.invites)
    BY <1>5, <2>2, SequenceOf
  <2> QED BY <1>5, <2>1, <2>3
<1>8. TypeOK
  <2>1. backend \in Backends /\ mailbox \subseteq Nat
    BY <1>1, <1>5 DEF Init
  <2> QED BY <1>1, <1>2, <1>3, <1>6, <1>7, <2>1 DEF TypeOK
<1>9. Grounded
  BY <1>1, <1>2, <1>3, <1>4, <1>6, <1>7 DEF Grounded, OfUser, OfInvite, OfTenant, OfToken
<1>10. OldPasswordEvicted
  BY <1>6 DEF OldPasswordEvicted
<1>11. PasswordsStrong
  BY <1>1, SeedAssumption DEF PasswordsStrong
<1>12. Stubbed /\ Erasures /\ Barred
  BY <1>1, <1>6 DEF Stubbed, Erasures, Barred
<1>13. Replaced
  <2>1. ASSUME NEW i \in DOMAIN db.invites, NEW j \in DOMAIN db.invites, i < j,
               Alike(db.invites[i], db.invites[j].tenant, db.invites[j].email)
        PROVE  ~IsPending(db.invites[i]) \/ ~IsPending(db.invites[j])
    <3>1. i # j
      BY <1>5, <2>1
    <3>2. i \in DOMAIN Seed.invites /\ j \in DOMAIN Seed.invites
      BY <1>1
    <3>3. Seed.invites[i].tenant = Seed.invites[j].tenant /\ Seed.invites[i].email = Seed.invites[j].email
      BY <1>1, <2>1 DEF Alike
    <3>4. ~IsPending(Seed.invites[i]) \/ ~IsPending(Seed.invites[j])
      BY <3>1, <3>2, <3>3, SeedAssumption
    <3> QED BY <1>1, <3>4
  <2> QED BY <2>1 DEF Replaced
<1>14. Coalesced
  BY <1>3, <1>4, <1>13 DEF Coalesced, Cleared, At
<1>15. Accepted
  BY <1>1, <1>3, <1>4 DEF Accepted, JoinedMeansAccepted, OfInvite
<1> QED BY <1>8, <1>9, <1>10, <1>11, <1>12, <1>14, <1>15 DEF IInv

\* A step that changes nothing keeps the invariant.
LEMMA StutterKeeps ==
    ASSUME IInv, UNCHANGED vars
    PROVE  IInv'
<1>1. UNCHANGED req /\ UNCHANGED history /\ db' = db
  BY DEF vars
<1>2. Counted
  BY DEF vars, Counted, IInv, TypeOK
<1> QED BY <1>1, <1>2, Rows, CalmAnswer

\* Every step of every handler keeps the invariant.
LEMMA HandlerKeeps ==
    ASSUME IInv, NEW r \in Requests, Handler(r)
    PROVE  IInv'
<1>1. ASSUME SignupTenant(r) \/ SignupUser(r) \/ SignupMember(r) \/ SendVerification(r)
             \/ Verify(r) \/ MarkVerified(r) \/ ResendVerification(r)
      PROVE  IInv'
  BY <1>1, SignupTenantKeeps, SignupUserKeeps, SignupMemberKeeps, SendVerificationKeeps,
     VerifyKeeps, MarkVerifiedKeeps, ResendVerificationKeeps
<1>2. ASSUME Login(r) \/ RecordFailure(r) \/ Lock(r) \/ MintSession(r) \/ Logout(r)
      PROVE  IInv'
  BY <1>2, LoginKeeps, RecordFailureKeeps, LockKeeps, MintSessionKeeps, LogoutKeeps
<1>3. ASSUME ForgotPassword(r) \/ SendReset(r) \/ ResetPassword(r) \/ ResetUpdate(r) \/ ResetMarkUsed(r)
             \/ RevokeSessions(r) \/ Unlock(r) \/ ChangePassword(r) \/ ChangeUpdate(r)
      PROVE  IInv'
  BY <1>3, ForgotPasswordKeeps, SendResetKeeps, ResetPasswordKeeps, ResetUpdateKeeps, ResetMarkUsedKeeps,
     RevokeSessionsKeeps, UnlockKeeps, ChangePasswordKeeps, ChangeUpdateKeeps
<1>4. ASSUME TourSet(r) \/ ProfileUpdate(r) \/ RevokeOneSession(r) \/ RevokeAllSessions(r) \/ DeleteAccount(r)
             \/ UpdateMember(r) \/ RemoveMember(r)
      PROVE  IInv'
  BY <1>4, TourSetKeeps, ProfileUpdateKeeps, RevokeOneSessionKeeps, RevokeAllSessionsKeeps, DeleteAccountKeeps,
     UpdateMemberKeeps, RemoveMemberKeeps
<1>5. ASSUME Invite(r) \/ CheckMember(r) \/ ListOpen(r) \/ RevokeOpen(r) \/ InviteCreate(r) \/ InviteRevoke(r)
             \/ AcceptInvite(r) \/ ResolveUser(r) \/ AttachMember(r) \/ MarkAccepted(r)
      PROVE  IInv'
  BY <1>5, InviteKeeps, CheckMemberKeeps, ListOpenKeeps, RevokeOpenKeeps, InviteCreateKeeps, InviteRevokeKeeps, AcceptInviteKeeps, ResolveUserKeeps,
     AttachMemberKeeps, MarkAcceptedKeeps
<1> QED BY <1>1, <1>2, <1>3, <1>4, <1>5 DEF Handler

\* Every step of every request, of the database and of time keeps the
\* invariant.
THEOREM AccountsInvariant == Spec => []IInv
<1>1. Init => IInv
  BY InitHolds
<1>2. IInv /\ [Next]_vars => IInv'
  BY HandlerKeeps, StatementFailsKeeps, TimePassesKeeps, StutterKeeps DEF Next
<1> QED BY <1>1, <1>2, PTL DEF Spec

\* The invariant says of every sign-in what is claimed.
LEMMA SignInsFollow ==
    ASSUME IInv
    PROVE  SignInsJustified
<1>1. ErasedStaysOut
  BY DEF IInv, Barred, ErasedStaysOut
<1> QED BY <1>1 DEF IInv, SignInsJustified

\* A session that was signed in to with an old password is revoked, nobody
\* signs in to an account that is erased, and no password is weak, but for
\* the races and failures the properties name (auth.go, password_reset.go,
\* account_gdpr.go).
THEOREM SignIns == Spec => []SignInsJustified
<1>1. IInv => SignInsJustified
  BY SignInsFollow
<1> QED BY <1>1, AccountsInvariant, PTL

\* The invariant says of every invite what is claimed.
LEMMA InvitesFollow ==
    ASSUME IInv
    PROVE  InvitesHold
<1>1. OneOpenInvite
  <2>1. ASSUME NEW i \in DOMAIN db.invites, NEW j \in DOMAIN db.invites, i < j,
               IsPending(db.invites[i]), IsPending(db.invites[j]),
               db.invites[i].tenant = db.invites[j].tenant, db.invites[i].email = db.invites[j].email
        PROVE  i \notin inviteAt[j]
    BY <2>1 DEF IInv, Coalesced, Replaced, Alike
  <2> QED BY <2>1 DEF OneOpenInvite
<1> QED BY <1>1 DEF IInv, Accepted, InvitesHold

\* An address is invited to a workspace once at a time, and who joined with
\* an invitation has it accepted, but for the races and failures the
\* properties name (team.go).
THEOREM Invitations == Spec => []InvitesHold
<1>1. IInv => InvitesHold
  BY InvitesFollow
<1> QED BY <1>1, AccountsInvariant, PTL

(***************************************************************************)
(* What the pages show                                                     *)
(***************************************************************************)

\* Who is signed in is a member, with the roles of a row.
LEMMA PersonIsMember ==
    ASSUME IInv, NEW p \in People
    PROVE  \E i \in DOMAIN db.members :
              db.members[i].tenant = p.tenant /\ db.members[i].user = p.id /\ db.members[i].roles = p.roles
<1>1. PICK s \in DOMAIN db.sessions : p \in Principals(s)
  BY DEF People
<1>2. PICK m \in GetMembership(db.sessions[s].tenant, db.sessions[s].user) :
         p = [id |-> db.sessions[s].user, tenant |-> db.sessions[s].tenant, roles |-> m.roles, groups |-> {}]
  BY <1>1 DEF Principals
<1>3. PICK i \in DOMAIN db.members :
         db.members[i] = m /\ db.members[i].tenant = db.sessions[s].tenant /\ db.members[i].user = db.sessions[s].user
  BY <1>2 DEF GetMembership, Repo, Mem!GetMembership, Mem!First, Mem!MembershipsAt, Pg!GetMembership
<1> QED BY <1>2, <1>3

\* Who has a session has verified an address.
LEMMA PersonVerified ==
    ASSUME IInv, NEW p \in People
    PROVE  db.users[p.id].verified
BY DEF People, Principals

\* The repositories agree on what is there.
LEMMA Lookups ==
    ASSUME IInv
    PROVE  /\ \A u \in DOMAIN db.users : GetUserByID(u)
           /\ \A t : GetTenantByID(t) <=> t \in DOMAIN db.tenants
           /\ \A i \in DOMAIN db.invites : GetInviteByToken(i)
           /\ \A s \in DOMAIN db.sessions : GetSession(s)
           /\ \A u : ListForUser(db, u) = {i \in DOMAIN db.members : db.members[i].user = u}
BY Rows DEF Wired, GetUserByID, GetTenantByID, GetInviteByToken, GetSession, ListForUser, Repo, Mem!GetUserByID, Pg!GetUserByID,
            Mem!GetTenantByID, Pg!GetTenantByID, Mem!GetInviteByToken, Pg!GetInviteByToken, Mem!GetSession, Pg!GetSession,
            Mem!ListForUser, Pg!ListForUser, Mem!Has

\* The list of a team holds its memberships and nothing else.
LEMMA TeamListed ==
    ASSUME IInv, NEW t
    PROVE  /\ \A i \in DOMAIN db.members : db.members[i].tenant = t =>
                 [user |-> db.members[i].user, roles |-> db.members[i].roles] \in ListMembershipsForTenant(t)
           /\ \A m \in ListMembershipsForTenant(t) :
                 \E i \in DOMAIN db.members :
                    db.members[i].tenant = t /\ db.members[i].user = m.user /\ db.members[i].roles = m.roles
<1>1. \A i \in DOMAIN db.members : db.members[i].user \in DOMAIN db.users
  BY Rows DEF Linked
<1>2. CASE backend = "memory"
  BY <1>2 DEF ListMembershipsForTenant, Repo, Mem!ListMembershipsForTenant
<1>3. CASE backend = "postgres"
  <2>1. ListMembershipsForTenant(t) =
           {[user |-> m.user, roles |-> m.roles] :
               m \in {db.members[i] : i \in {i \in DOMAIN db.members : db.members[i].tenant = t /\ db.members[i].user \in DOMAIN db.users}}}
    BY <1>3 DEF ListMembershipsForTenant, Repo, Pg!ListMembershipsForTenant
  <2> QED BY <1>1, <2>1
<1> QED BY <1>2, <1>3, Rows DEF Wired

\* The pages a person sees of the own account agree.
LEMMA OwnPages ==
    ASSUME IInv, NEW p \in People, NEW me \in Me(p)
    PROVE  /\ [id |-> p.tenant, slug |-> me.slug, roles |-> p.roles] \in MyWorkspaces(p)
           /\ Gate(p, "read") => [user |-> p.id, email |-> me.email, roles |-> p.roles] \in ListMembers(p)
           /\ \A x \in ExportAccount(p) :
                 /\ x.email = me.email /\ x.sessions \subseteq ListSessions(p)
                 /\ x.memberships \subseteq {w.id : w \in MyWorkspaces(p)}
<1>1. /\ p.id \in DOMAIN db.users /\ p.tenant \in DOMAIN db.tenants
      /\ GetUserByID(p.id) /\ GetTenantByID(p.tenant)
  BY SignedIn, Lookups
<1>2. me.slug = db.tenants[p.tenant] /\ me.email = db.users[p.id].email
  BY <1>1 DEF Me
<1>3. PICK i \in DOMAIN db.members :
         db.members[i].tenant = p.tenant /\ db.members[i].user = p.id /\ db.members[i].roles = p.roles
  BY PersonIsMember
<1>4. ListForUser(db, p.id) = {x \in DOMAIN db.members : db.members[x].user = p.id}
  BY Lookups
<1>5. \A x \in ListForUser(db, p.id) : GetTenantByID(db.members[x].tenant)
  BY <1>4, Lookups, Rows DEF Linked
<1>6. MyWorkspaces(p) = {[id |-> db.members[x].tenant, slug |-> db.tenants[db.members[x].tenant], roles |-> db.members[x].roles] :
                            x \in ListForUser(db, p.id)}
  BY <1>5 DEF MyWorkspaces
<1>7. [id |-> p.tenant, slug |-> me.slug, roles |-> p.roles] \in MyWorkspaces(p)
  BY <1>2, <1>3, <1>4, <1>6
<1>8. Gate(p, "read") => [user |-> p.id, email |-> me.email, roles |-> p.roles] \in ListMembers(p)
  <2>1. [user |-> p.id, roles |-> p.roles] \in ListMembershipsForTenant(p.tenant)
    BY <1>3, TeamListed
  <2>2. PICK m \in ListMembershipsForTenant(p.tenant) : m.user = p.id /\ m.roles = p.roles
    BY <2>1
  <2>3. [user |-> p.id, email |-> me.email, roles |-> p.roles] = [user |-> m.user, email |-> db.users[m.user].email, roles |-> m.roles]
    BY <1>2, <2>2
  <2>4. Gate(p, "read") => ListMembers(p) =
           {[user |-> n.user, email |-> db.users[n.user].email, roles |-> n.roles] : n \in ListMembershipsForTenant(p.tenant)}
    BY DEF ListMembers
  <2> QED BY <2>2, <2>3, <2>4
<1>9. ASSUME NEW x \in ExportAccount(p)
      PROVE  /\ x.email = me.email /\ x.sessions \subseteq ListSessions(p)
             /\ x.memberships \subseteq {w.id : w \in MyWorkspaces(p)}
  <2>1. PICK ms, ss :
           /\ x = [email |-> db.users[p.id].email, memberships |-> ms, sessions |-> ss]
           /\ ms = {db.members[n].tenant : n \in ListForUser(db, p.id)} \/ ms = {}
           /\ ss = ListActiveSessionsForUser(p.id) \/ ss = {}
    <3>1. PICK own, live : own = {db.members[n].tenant : n \in ListForUser(db, p.id)} /\ live = ListActiveSessionsForUser(p.id)
      OBVIOUS
    <3>2. PICK none : /\ none = (IF backend = "postgres" /\ faults < MaxFaults THEN {{}} ELSE {})
                      /\ none \subseteq {{}}
      OBVIOUS
    <3>3. ExportAccount(p) = {[email |-> db.users[p.id].email, memberships |-> ms, sessions |-> ss] :
                                 ms \in {own} \cup none, ss \in {live} \cup none}
      BY <1>1, <3>1, <3>2 DEF ExportAccount
    <3>4. \E ms \in {own} \cup none, ss \in {live} \cup none :
             x = [email |-> db.users[p.id].email, memberships |-> ms, sessions |-> ss]
      BY <3>3
    <3> QED BY <3>1, <3>2, <3>4
  <2>2. x.memberships = ms /\ x.sessions = ss /\ x.email = db.users[p.id].email
    BY <2>1
  <2>3. {w.id : w \in MyWorkspaces(p)} = {db.members[n].tenant : n \in ListForUser(db, p.id)}
    <3> DEFINE Workspace(n) == [id |-> db.members[n].tenant, slug |-> db.tenants[db.members[n].tenant], roles |-> db.members[n].roles]
    <3>1. MyWorkspaces(p) = {Workspace(n) : n \in ListForUser(db, p.id)}
      BY <1>6
    <3>2. \A n : Workspace(n).id = db.members[n].tenant
      OBVIOUS
    <3> HIDE DEF Workspace
    <3>3. ASSUME NEW w \in MyWorkspaces(p) PROVE \E n \in ListForUser(db, p.id) : w.id = db.members[n].tenant
      BY <3>1, <3>2
    <3>4. ASSUME NEW n \in ListForUser(db, p.id) PROVE \E w \in MyWorkspaces(p) : w.id = db.members[n].tenant
      BY <3>1, <3>2
    <3> QED BY <3>3, <3>4
  <2>4. ms \subseteq {w.id : w \in MyWorkspaces(p)}
    BY <2>1, <2>3
  <2>5. ss \subseteq ListSessions(p)
    BY <2>1 DEF ListSessions
  <2> QED BY <1>2, <2>2, <2>4, <2>5
<1> QED BY <1>7, <1>8, <1>9

\* The page of a team shows its members, and of the erased only stubs.
LEMMA TeamPage ==
    ASSUME IInv, NEW p \in People, NEW m \in ListMembers(p)
    PROVE  /\ \E n \in DOMAIN db.members : db.members[n].user = m.user /\ db.members[n].tenant = p.tenant
           /\ m.user \in DOMAIN erased => m.email = StubEmail(m.user)
<1>1. PICK row \in ListMembershipsForTenant(p.tenant) :
         m = [user |-> row.user, email |-> db.users[row.user].email, roles |-> row.roles]
  BY DEF ListMembers
<1>2. m.user = row.user /\ m.email = db.users[row.user].email
  BY <1>1
<1>3. PICK n \in DOMAIN db.members : db.members[n].tenant = p.tenant /\ db.members[n].user = row.user
  BY TeamListed
<1>4. m.user \in DOMAIN erased => m.email = StubEmail(m.user)
  BY <1>2 DEF IInv, Stubbed
<1> QED BY <1>2, <1>3, <1>4

\* The list of invites holds those of the tenant, the pending ones where they
\* are asked for.
LEMMA InvitesListed ==
    ASSUME IInv, NEW t
    PROVE  /\ ListInvitesForTenant(t, FALSE) = {i \in DOMAIN db.invites : db.invites[i].tenant = t}
           /\ ListInvitesForTenant(t, TRUE) = {i \in DOMAIN db.invites : db.invites[i].tenant = t /\ IsPending(db.invites[i])}
BY Rows DEF Wired, ListInvitesForTenant, Repo, Mem!ListInvitesForTenant, Pg!ListInvitesForTenant, IsPending, Mem!IsPending

\* The page of invites agrees with the links that were mailed.
LEMMA InvitesPage ==
    ASSUME IInv, NEW p \in People, NEW i \in ListInvites(p, TRUE)
    PROVE  /\ i.tenant = p.tenant
           /\ (i.status = "pending") <=> InviteInfo(i.id) # {}
           /\ (i.status = "pending") <=> i \in ListInvites(p, FALSE)
<1> DEFINE Line(x) == [id |-> x, tenant |-> db.invites[x].tenant, email |-> db.invites[x].email, status |-> InviteStatus(db.invites[x])]
<1>1. Gate(p, "admin")
  BY DEF ListInvites
<1>2. ListInvites(p, TRUE) = {Line(x) : x \in ListInvitesForTenant(p.tenant, FALSE)}
  BY <1>1 DEF ListInvites
<1>3. ListInvites(p, FALSE) = {Line(x) : x \in ListInvitesForTenant(p.tenant, TRUE)}
  BY <1>1 DEF ListInvites
<1>4. PICK x \in DOMAIN db.invites : i = Line(x) /\ db.invites[x].tenant = p.tenant
  BY <1>2, InvitesListed
<1>5. i.id = x /\ i.tenant = p.tenant /\ i.status = InviteStatus(db.invites[x])
  BY <1>4
<1>6. (InviteStatus(db.invites[x]) = "pending") <=> IsPending(db.invites[x])
  BY DEF InviteStatus, IsPending
<1>7. IsPending(db.invites[x]) <=> InviteInfo(x) # {}
  <2>1. GetInviteByToken(x) /\ GetTenantByID(db.invites[x].tenant)
    BY Lookups, Rows DEF Linked
  <2> QED BY <2>1 DEF InviteInfo
<1>8. IsPending(db.invites[x]) <=> i \in ListInvites(p, FALSE)
  <2>1. ASSUME IsPending(db.invites[x]) PROVE i \in ListInvites(p, FALSE)
    BY <1>3, <1>4, <2>1, InvitesListed
  <2>2. ASSUME i \in ListInvites(p, FALSE) PROVE IsPending(db.invites[x])
    <3>1. PICK y \in DOMAIN db.invites : i = Line(y) /\ IsPending(db.invites[y])
      <4> HIDE DEF Line
      <4>1. PICK y \in ListInvitesForTenant(p.tenant, TRUE) : i = Line(y)
        BY <1>3, <2>2
      <4>2. y \in DOMAIN db.invites /\ IsPending(db.invites[y])
        BY InvitesListed
      <4> QED BY <4>1, <4>2
    <3>2. y = x
      BY <1>5, <3>1
    <3> QED BY <3>1, <3>2
  <2> QED BY <2>1, <2>2
<1> QED BY <1>5, <1>6, <1>7, <1>8

\* A session that is listed works, unless its user has left the tenant.
LEMMA SessionsPage ==
    ASSUME IInv, NEW p \in People, NEW s \in ListSessions(p)
    PROVE  Principals(s) # {} \/ GetMembership(db.sessions[s].tenant, p.id) = {}
<1>1. s \in DOMAIN db.sessions /\ db.sessions[s].user = p.id /\ Active(db.sessions[s])
  BY Rows DEF Wired, ListSessions, ListActiveSessionsForUser, Repo, Mem!ListActiveSessionsForUser,
              Pg!ListActiveSessionsForUser, Active, Mem!Active
<1>2. GetSession(s) /\ GetUserByID(p.id) /\ db.users[p.id].verified
  BY <1>1, SignedIn, Lookups, PersonVerified
<1> QED BY <1>1, <1>2 DEF Principals

\* The pages about an account, a team, its invitations and its sessions never
\* contradict each other (auth.go, account.go, account_gdpr.go, team.go).
THEOREM Pages == Spec => []ViewsAgree
<1>1. IInv => ViewsAgree
  BY OwnPages, TeamPage, InvitesPage, SessionsPage DEF ViewsAgree
<1> QED BY <1>1, AccountsInvariant, PTL

(***************************************************************************)
(* The rate limiters                                                       *)
(***************************************************************************)

\* A limiter that was last asked at a time its bucket was seen.
Sound(l, kind, seen) == l.level <= Full(kind) /\ l.last <= seen /\ seen <= tick

Limiters == [level : Nat, last : Nat]
APIBuckets == [read : Limiters, write : Limiters, seen : Nat]

BucketsSound ==
    /\ tick \in Nat
    /\ ipBuckets \in [DOMAIN ipBuckets -> [limiter : Limiters, seen : Nat]]
    /\ buckets \in [DOMAIN buckets -> APIBuckets]
    /\ \A ip \in DOMAIN ipBuckets : Sound(ipBuckets[ip].limiter, "auth", ipBuckets[ip].seen)
    /\ \A key \in DOMAIN buckets : /\ Sound(buckets[key].read, "read", buckets[key].seen)
                                   /\ Sound(buckets[key].write, "write", buckets[key].seen)

\* The limiter of a client, whether there is a bucket for it or not.
LimiterOf(kind, key) ==
    IF kind = "auth" THEN IPBucket(key).limiter
    ELSE IF kind = "read" THEN APIBucket(key).read
    ELSE APIBucket(key).write

\* What a client has now.
Credit(kind, key) == Level(LimiterOf(kind, key), kind)

ClientKeys == {ClientIP(r) : r \in Calls} \cup {RateKey(r) : r \in Calls}
Decisions == [kind : Kinds, key : ClientKeys, at : Nat, ok : BOOLEAN, left : Nat]

DecisionsSound == decided \in Seq(Decisions) /\ \A i \in DOMAIN decided : decided[i].at <= tick

\* A request of a client is decided: only what that client has changes.
Remains(kind, key) ==
    IF Credit(kind, key) >= Every(kind) THEN Credit(kind, key) - Every(kind) ELSE Credit(kind, key)

Deciding(kind, key) ==
    /\ tick' = tick
    /\ Credit(kind, key)' = Remains(kind, key)
    /\ \A kd \in Kinds : \A ky : kd # kind \/ ky # key => Credit(kd, ky)' = Credit(kd, ky)
    /\ decided' = Append(decided, [kind |-> kind, key |-> key, at |-> tick, ok |-> Credit(kind, key) >= Every(kind),
                                   left |-> Remains(kind, key) \div Every(kind)])

\* The k-th decision was about this client.
About(k, kind, key) == decided[k].kind = kind /\ decided[k].key = key

\* Calls of a client that were served, from the i-th decision on.
ServedSince(i, kind, key) == {k \in i .. Len(decided) : decided[k].ok /\ About(k, kind, key)}

\* What the client has and what it was served from the i-th call on.
Spent(i, kind, key) == Every(kind) * Cardinality(ServedSince(i, kind, key)) + Credit(kind, key)

\* The burst, and what was refilled since.
Granted(i, kind) == Full(kind) + (tick - decided[i].at)

NeverMore(kind, key) ==
    \A i \in DOMAIN decided : decided[i].ok /\ About(i, kind, key) => Spent(i, kind, key) <= Granted(i, kind)

\* A client who has not all it can have has spent all that was granted since
\* some call.
NeverLess(kind, key) ==
    \/ Credit(kind, key) = Full(kind)
    \/ \E i \in DOMAIN decided : decided[i].ok /\ About(i, kind, key) /\ Spent(i, kind, key) = Granted(i, kind)

\* A client who was told that calls remain has a token for the next.
Promised(kind, key) ==
    \A i \in DOMAIN decided : About(i, kind, key) =>
        \/ decided[i].left = 0
        \/ \E k \in DOMAIN decided : k > i /\ About(k, kind, key)
        \/ Credit(kind, key) >= Every(kind)

\* What RatesExact says of the j-th decision.
Mine(j) == {i \in 1 .. j : SameClient(decided[i], decided[j])}
ExactAt(j) ==
    /\ \A i \in Mine(j) : decided[i].ok /\ decided[j].ok => Served(i, j) <= Allowance(i, j)
    /\ decided[j].ok \/ \E i \in Mine(j) : decided[i].ok /\ Served(i, j) + 1 > Allowance(i, j)
    /\ decided[j].ok \/ \A i \in Mine(j) \ {j} : decided[i].left = 0 \/ \E k \in Mine(j) : k > i /\ k < j

RatesInvariant ==
    /\ BucketsSound /\ DecisionsSound
    /\ \A kind \in Kinds : \A key : NeverMore(kind, key) /\ NeverLess(kind, key) /\ Promised(kind, key)
    /\ RatesExact

\* A token takes time to refill, and a bucket holds at least one.
LEMMA KindFacts ==
    ASSUME NEW kind \in Kinds
    PROVE  /\ Every(kind) \in Nat /\ Every(kind) > 0
           /\ Burst(kind) \in Nat /\ Burst(kind) > 0
           /\ Full(kind) \in Nat /\ Full(kind) >= Every(kind) /\ Full(kind) <= IdleFor /\ IdleFor \in Nat
           /\ Full(kind) = Burst(kind) * Every(kind)
<1>1. Every(kind) > 0 /\ Full(kind) <= IdleFor /\ IdleFor \in Nat
  BY RatesAssumption
<1>2. Every(kind) \in Nat
  <2>1. \A n \in Nat, m \in Nat \ {0} : n \div m \in Nat
    OBVIOUS
  <2>2. Minute \in Nat /\ AuthPerMinute \in Nat \ {0} /\ ReadPerMin \in Nat \ {0} /\ WritePerMin \in Nat \ {0}
    BY RatesAssumption
  <2> QED BY <2>1, <2>2 DEF Every, Kinds
<1>3. Burst(kind) \in Nat /\ Burst(kind) > 0
  <2>1. /\ AuthBurst \in Nat \ {0} /\ MinReadBurst \in Nat \ {0} /\ MinWriteBurst \in Nat \ {0}
        /\ ReadPerMin \div 2 \in Nat /\ WritePerMin \div 2 \in Nat
    BY RatesAssumption
  <2> QED BY <2>1 DEF Burst, Larger, Kinds
<1>4. Full(kind) = Burst(kind) * Every(kind)
  BY DEF Full
<1>5. \A b \in Nat, e \in Nat : b > 0 => b * e \in Nat /\ b * e >= e
  <2>1. ASSUME NEW b \in Nat, NEW e \in Nat, b > 0 PROVE b * e \in Nat /\ b * e >= e
    <3>1. b - 1 \in Nat /\ b * e = (b - 1) * e + e /\ (b - 1) * e \in Nat
      BY <2>1
    <3> QED BY <3>1
  <2> QED BY <2>1
<1> QED BY <1>1, <1>2, <1>3, <1>4, <1>5

\* The tokens that x units make.
LEMMA Divided ==
    ASSUME NEW x \in Nat, NEW e \in Nat, e > 0
    PROVE  /\ x \div e \in Nat
           /\ e * (x \div e) <= x
           /\ x < e * (x \div e) + e
           /\ x \div e > 0 => x >= e
           /\ x >= e => x \div e > 0
OBVIOUS

\* n tokens are no more than the burst and what x ticks refill.
LEMMA Within ==
    ASSUME NEW e \in Nat, e > 0, NEW n \in Nat, NEW b \in Nat, NEW x \in Nat
    PROVE  (e * n <= b * e + x) <=> n <= b + x \div e
<1> DEFINE q == x \div e
<1>1. q \in Nat /\ e * q <= x /\ x < e * q + e
  BY Divided
<1> HIDE DEF q
<1>2. ASSUME n <= b + q PROVE e * n <= b * e + x
  <2>1. PICK d \in Nat : n + d = b + q
    <3>1. (b + q) - n \in Nat /\ n + ((b + q) - n) = b + q
      BY <1>1, <1>2
    <3> QED BY <3>1
  <2>2. e * (n + d) = e * n + e * d /\ e * (b + q) = b * e + e * q /\ e * d \in Nat /\ e * n \in Nat
    BY <1>1, <2>1
  <2> QED BY <1>1, <2>1, <2>2
<1>3. ASSUME n > b + q PROVE e * n > b * e + x
  <2>1. PICK d \in Nat : n = b + q + 1 + d
    <3>1. n - (b + q + 1) \in Nat /\ n = b + q + 1 + (n - (b + q + 1))
      BY <1>1, <1>3
    <3> QED BY <3>1
  <2>2. e * (b + q + 1 + d) = b * e + e * q + e + e * d /\ e * d \in Nat
    BY <1>1, <2>1
  <2> QED BY <1>1, <2>1, <2>2
<1> QED BY <1>1, <1>2, <1>3 DEF q

\* The limiter of a client, as the requests find it.
LEMMA LimiterFacts ==
    ASSUME BucketsSound, NEW kind \in Kinds, NEW key
    PROVE  /\ LimiterOf(kind, key) \in Limiters
           /\ LimiterOf(kind, key).level <= Full(kind)
           /\ LimiterOf(kind, key).last <= tick
<1> USE DEF BucketsSound
<1>1. \A k \in Kinds : Full(k) \in Nat
  BY KindFacts
<1>2. \A k \in Kinds : NewLimiter(k) \in Limiters /\ NewLimiter(k).level = Full(k) /\ NewLimiter(k).last = tick
  BY <1>1 DEF NewLimiter, Limiters
<1>3. CASE kind = "auth"
  <2>1. CASE key \in DOMAIN ipBuckets
    <3>1. ipBuckets[key] \in [limiter : Limiters, seen : Nat] /\ Sound(ipBuckets[key].limiter, "auth", ipBuckets[key].seen)
      BY <2>1
    <3>2. LimiterOf(kind, key) = ipBuckets[key].limiter
      BY <1>3, <2>1 DEF LimiterOf, IPBucket
    <3>3. Full("auth") \in Nat
      BY <1>1 DEF Kinds
    <3> QED BY <1>3, <3>1, <3>2, <3>3 DEF Sound, Limiters, APIBuckets
  <2>2. CASE key \notin DOMAIN ipBuckets
    <3>1. LimiterOf(kind, key) = NewLimiter("auth")
      BY <1>3, <2>2 DEF LimiterOf, IPBucket
    <3> QED BY <1>1, <1>2, <1>3, <3>1
  <2> QED BY <2>1, <2>2
<1>4. CASE kind = "read"
  <2>1. CASE key \in DOMAIN buckets
    <3>1. buckets[key] \in APIBuckets /\ Sound(buckets[key].read, "read", buckets[key].seen)
      BY <2>1
    <3>2. LimiterOf(kind, key) = buckets[key].read
      BY <1>4, <2>1 DEF LimiterOf, APIBucket
    <3>3. Full("read") \in Nat
      BY <1>1 DEF Kinds
    <3> QED BY <1>4, <3>1, <3>2, <3>3 DEF Sound, Limiters, APIBuckets
  <2>2. CASE key \notin DOMAIN buckets
    <3>1. LimiterOf(kind, key) = NewLimiter("read")
      BY <1>4, <2>2 DEF LimiterOf, APIBucket
    <3> QED BY <1>1, <1>2, <1>4, <3>1
  <2> QED BY <2>1, <2>2
<1>5. CASE kind = "write"
  <2>1. CASE key \in DOMAIN buckets
    <3>1. buckets[key] \in APIBuckets /\ Sound(buckets[key].write, "write", buckets[key].seen)
      BY <2>1
    <3>2. LimiterOf(kind, key) = buckets[key].write
      BY <1>5, <2>1 DEF LimiterOf, APIBucket
    <3>3. Full("write") \in Nat
      BY <1>1 DEF Kinds
    <3> QED BY <1>5, <3>1, <3>2, <3>3 DEF Sound, Limiters, APIBuckets
  <2>2. CASE key \notin DOMAIN buckets
    <3>1. LimiterOf(kind, key) = NewLimiter("write")
      BY <1>5, <2>2 DEF LimiterOf, APIBucket
    <3> QED BY <1>1, <1>2, <1>5, <3>1
  <2> QED BY <2>1, <2>2
<1> QED BY <1>3, <1>4, <1>5 DEF Kinds

\* A client never has more than the burst.
LEMMA CreditRange ==
    ASSUME BucketsSound, NEW kind \in Kinds, NEW key
    PROVE  Credit(kind, key) \in Nat /\ Credit(kind, key) <= Full(kind)
<1>1. Full(kind) \in Nat
  BY KindFacts
<1>2. PICK l \in Limiters : l = LimiterOf(kind, key) /\ l.last <= tick
  BY LimiterFacts
<1>3. l.level \in Nat /\ l.last \in Nat /\ tick \in Nat /\ l.last <= tick
  BY <1>2 DEF Limiters, BucketsSound
<1>4. l.level + (tick - l.last) \in Nat
  BY <1>3
<1> QED BY <1>1, <1>2, <1>4 DEF Credit, Level, Smaller

\* A tick later every client has one more, up to the burst.
LEMMA TickStep ==
    ASSUME BucketsSound, TimeGoesOn
    PROVE  /\ BucketsSound'
           /\ \A kind \in Kinds : \A key : Credit(kind, key)' = Smaller(Full(kind), Credit(kind, key) + 1)
<1>1. tick \in Nat /\ tick' = tick + 1 /\ ipBuckets' = ipBuckets /\ buckets' = buckets
  BY DEF BucketsSound, TimeGoesOn
<1>2. BucketsSound'
  <2>2. \A ip \in DOMAIN ipBuckets : Sound(ipBuckets[ip].limiter, "auth", ipBuckets[ip].seen)'
    <3>1. TAKE ip \in DOMAIN ipBuckets
    <3>2. ipBuckets[ip] \in [limiter : Limiters, seen : Nat] /\ Sound(ipBuckets[ip].limiter, "auth", ipBuckets[ip].seen)
      BY <3>1 DEF BucketsSound, APIBuckets
    <3> QED BY <1>1, <3>2 DEF Sound, APIBuckets, Full, Burst, Every
  <2>3. \A key \in DOMAIN buckets : /\ Sound(buckets[key].read, "read", buckets[key].seen)'
                                    /\ Sound(buckets[key].write, "write", buckets[key].seen)'
    <3>1. TAKE key \in DOMAIN buckets
    <3>2. /\ buckets[key] \in APIBuckets
          /\ Sound(buckets[key].read, "read", buckets[key].seen)
          /\ Sound(buckets[key].write, "write", buckets[key].seen)
      BY <3>1 DEF BucketsSound, APIBuckets
    <3> QED BY <1>1, <3>2 DEF Sound, APIBuckets, Full, Burst, Every
  <2>4. /\ ipBuckets \in [DOMAIN ipBuckets -> [limiter : Limiters, seen : Nat]]
        /\ buckets \in [DOMAIN buckets -> APIBuckets]
    BY DEF BucketsSound, APIBuckets
  <2> QED BY <1>1, <2>2, <2>3, <2>4 DEF BucketsSound
<1>3. ASSUME NEW kind \in Kinds, NEW key PROVE Credit(kind, key)' = Smaller(Full(kind), Credit(kind, key) + 1)
  <2>1. Full(kind) \in Nat
    BY KindFacts
  <2>2. PICK l \in Limiters : l = LimiterOf(kind, key) /\ l.last <= tick /\ l.level <= Full(kind)
    BY LimiterFacts
  <2>3. l.level \in Nat /\ l.last \in Nat
    BY <2>2 DEF Limiters
  <2>4. \/ LimiterOf(kind, key)' = LimiterOf(kind, key)
        \/ LimiterOf(kind, key) = NewLimiter(kind) /\ LimiterOf(kind, key)' = NewLimiter(kind)'
    BY <1>1, <1>3 DEF LimiterOf, IPBucket, APIBucket, Kinds, NewLimiter
  <2>5. CASE LimiterOf(kind, key)' = LimiterOf(kind, key)
    <3>1. Credit(kind, key) = Smaller(Full(kind), l.level + (tick - l.last))
      BY <2>2 DEF Credit, Level
    <3>2. Credit(kind, key)' = Smaller(Full(kind), l.level + (tick' - l.last))
      BY <2>2, <2>5 DEF Credit, Level, Full, Burst, Every
    <3> QED BY <1>1, <2>1, <2>2, <2>3, <3>1, <3>2 DEF Smaller
  <2>6. CASE LimiterOf(kind, key) = NewLimiter(kind) /\ LimiterOf(kind, key)' = NewLimiter(kind)'
    <3>1. Credit(kind, key) = Smaller(Full(kind), Full(kind) + (tick - tick))
      BY <2>6 DEF Credit, Level, NewLimiter
    <3>2. NewLimiter(kind)' = [level |-> Full(kind), last |-> tick']
      BY DEF NewLimiter, Full, Burst, Every
    <3>3. Credit(kind, key)' = Smaller(Full(kind), LimiterOf(kind, key)'.level + (tick' - LimiterOf(kind, key)'.last))
      BY DEF Credit, Level, Full, Burst, Every
    <3>4. Credit(kind, key)' = Smaller(Full(kind), Full(kind) + (tick' - tick'))
      BY <2>6, <3>2, <3>3
    <3> QED BY <1>1, <2>1, <3>1, <3>4 DEF Smaller
  <2> QED BY <2>4, <2>5, <2>6
<1> QED BY <1>2, <1>3


\* A limiter that was not asked for IdleFor ticks is full again.
LEMMA FullAgain ==
    ASSUME tick \in Nat, NEW kind \in Kinds, NEW l \in Limiters, NEW seen \in Nat,
           Sound(l, kind, seen), seen < tick - IdleFor
    PROVE  Level(l, kind) = Full(kind)
<1>1. Full(kind) \in Nat /\ IdleFor \in Nat /\ Full(kind) <= IdleFor
  BY KindFacts
<1>2. l.level \in Nat /\ l.last \in Nat /\ l.last <= seen
  BY DEF Limiters, Sound
<1>3. l.level + (tick - l.last) >= Full(kind)
  BY <1>1, <1>2
<1> QED BY <1>1, <1>2, <1>3 DEF Level, Smaller

\* A new limiter is full.
LEMMA FreshIsFull ==
    ASSUME tick \in Nat, NEW kind \in Kinds
    PROVE  Level(NewLimiter(kind), kind) = Full(kind)
<1>1. Full(kind) \in Nat
  BY KindFacts
<1> QED BY <1>1 DEF Level, NewLimiter, Smaller

\* What a janitor drops is as good as new.
LEMMA SweptIPs ==
    ASSUME BucketsSound, SweepIPs
    PROVE  /\ BucketsSound'
           /\ \A kind \in Kinds : \A key : Credit(kind, key)' = Credit(kind, key)
<1>1. tick \in Nat /\ tick' = tick /\ buckets' = buckets /\ ipBuckets' = Kept(ipBuckets)
  BY DEF BucketsSound, SweepIPs
<1>2. /\ DOMAIN ipBuckets' \subseteq DOMAIN ipBuckets
      /\ ipBuckets' = [k \in DOMAIN ipBuckets' |-> ipBuckets[k]]
      /\ \A k \in DOMAIN ipBuckets \ DOMAIN ipBuckets' : ipBuckets[k].seen < tick - IdleFor
  BY <1>1 DEF Kept, Idling
<1>3. BucketsSound'
  BY <1>1, <1>2 DEF BucketsSound, Sound, Full, Burst, Every
<1>4. ASSUME NEW kind \in Kinds, NEW key PROVE Credit(kind, key)' = Credit(kind, key)
  <2>1. \A l : Level(l, kind)' = Level(l, kind)
    BY <1>1 DEF Level, Full, Burst, Every
  <2>2. NewLimiter(kind)' = NewLimiter(kind)
    BY <1>1 DEF NewLimiter, Full, Burst, Every
  <2>3. CASE kind = "auth"
    <3>1. CASE key \in DOMAIN ipBuckets'
      <4>1. LimiterOf(kind, key)' = LimiterOf(kind, key)
        BY <1>2, <2>3, <3>1 DEF LimiterOf, IPBucket
      <4> QED BY <2>1, <4>1 DEF Credit
    <3>2. CASE key \notin DOMAIN ipBuckets
      <4>1. LimiterOf(kind, key) = NewLimiter("auth") /\ LimiterOf(kind, key)' = NewLimiter("auth")'
        BY <1>2, <2>3, <3>2 DEF LimiterOf, IPBucket
      <4> QED BY <2>1, <2>2, <2>3, <4>1 DEF Credit
    <3>3. CASE key \in DOMAIN ipBuckets /\ key \notin DOMAIN ipBuckets'
      <4>1. LimiterOf(kind, key)' = NewLimiter("auth")' /\ LimiterOf(kind, key) = ipBuckets[key].limiter
        BY <1>2, <2>3, <3>3 DEF LimiterOf, IPBucket
      <4>2. /\ ipBuckets[key].limiter \in Limiters /\ ipBuckets[key].seen \in Nat
            /\ Sound(ipBuckets[key].limiter, kind, ipBuckets[key].seen)
            /\ ipBuckets[key].seen < tick - IdleFor
        BY <1>2, <2>3, <3>3 DEF BucketsSound
      <4>3. Level(ipBuckets[key].limiter, kind) = Full(kind)
        BY <1>1, <4>2, FullAgain
      <4>4. Level(NewLimiter(kind), kind) = Full(kind)
        BY <1>1, FreshIsFull
      <4> QED BY <2>1, <2>2, <2>3, <4>1, <4>3, <4>4 DEF Credit
    <3> QED BY <3>1, <3>2, <3>3
  <2>4. CASE kind # "auth"
    <3>1. LimiterOf(kind, key)' = LimiterOf(kind, key)
      BY <1>1, <2>4 DEF LimiterOf, APIBucket, NewLimiter, Full, Burst, Every
    <3> QED BY <2>1, <3>1 DEF Credit
  <2> QED BY <2>3, <2>4
<1> QED BY <1>3, <1>4

\* The same for the buckets of principals.
LEMMA SweptKeys ==
    ASSUME BucketsSound, SweepKeys
    PROVE  /\ BucketsSound'
           /\ \A kind \in Kinds : \A key : Credit(kind, key)' = Credit(kind, key)
<1>1. tick \in Nat /\ tick' = tick /\ ipBuckets' = ipBuckets /\ buckets' = Kept(buckets)
  BY DEF BucketsSound, SweepKeys
<1>2. /\ DOMAIN buckets' \subseteq DOMAIN buckets
      /\ buckets' = [k \in DOMAIN buckets' |-> buckets[k]]
      /\ \A k \in DOMAIN buckets \ DOMAIN buckets' : buckets[k].seen < tick - IdleFor
  BY <1>1 DEF Kept, Idling
<1>3. BucketsSound'
  BY <1>1, <1>2 DEF BucketsSound, Sound, Full, Burst, Every
<1>4. ASSUME NEW kind \in Kinds, NEW key PROVE Credit(kind, key)' = Credit(kind, key)
  <2>1. \A l : Level(l, kind)' = Level(l, kind)
    BY <1>1 DEF Level, Full, Burst, Every
  <2>2. NewLimiter(kind)' = NewLimiter(kind)
    BY <1>1 DEF NewLimiter, Full, Burst, Every
  <2>3. CASE kind # "auth"
    <3>1. CASE key \in DOMAIN buckets'
      <4>1. LimiterOf(kind, key)' = LimiterOf(kind, key)
        BY <1>2, <2>3, <3>1 DEF LimiterOf, APIBucket
      <4> QED BY <2>1, <4>1 DEF Credit
    <3>2. CASE key \notin DOMAIN buckets
      <4>1. LimiterOf(kind, key) = NewLimiter(kind) /\ LimiterOf(kind, key)' = NewLimiter(kind)'
        BY <1>2, <2>3, <3>2 DEF LimiterOf, APIBucket, Kinds
      <4> QED BY <2>1, <2>2, <4>1 DEF Credit
    <3>3. CASE key \in DOMAIN buckets /\ key \notin DOMAIN buckets'
      <4>1. LimiterOf(kind, key)' = NewLimiter(kind)'
        BY <1>2, <2>3, <3>3 DEF LimiterOf, APIBucket, Kinds
      <4>2. /\ buckets[key] \in APIBuckets
            /\ Sound(buckets[key].read, "read", buckets[key].seen)
            /\ Sound(buckets[key].write, "write", buckets[key].seen)
            /\ buckets[key].seen < tick - IdleFor
        BY <1>2, <3>3 DEF BucketsSound
      <4>3. /\ LimiterOf(kind, key) \in Limiters /\ buckets[key].seen \in Nat
            /\ Sound(LimiterOf(kind, key), kind, buckets[key].seen)
        BY <2>3, <3>3, <4>2 DEF LimiterOf, APIBucket, Kinds, APIBuckets
      <4>4. Level(LimiterOf(kind, key), kind) = Full(kind)
        BY <1>1, <4>2, <4>3, FullAgain
      <4>5. Level(NewLimiter(kind), kind) = Full(kind)
        BY <1>1, FreshIsFull
      <4> QED BY <2>1, <2>2, <4>1, <4>4, <4>5 DEF Credit
    <3> QED BY <3>1, <3>2, <3>3
  <2>4. CASE kind = "auth"
    <3>1. LimiterOf(kind, key)' = LimiterOf(kind, key)
      BY <1>1, <2>4 DEF LimiterOf, IPBucket, NewLimiter, Full, Burst, Every
    <3> QED BY <2>1, <3>1 DEF Credit
  <2> QED BY <2>3, <2>4
<1> QED BY <1>3, <1>4

\* A limiter takes a token when it has one, and gives a refused reservation
\* back.
LEMMA Reserved ==
    ASSUME tick \in Nat, NEW kind \in Kinds, NEW l \in Limiters, l.last <= tick
    PROVE  /\ Reserve(l, kind).limiter \in Limiters
           /\ Reserve(l, kind).limiter.level <= Full(kind)
           /\ Reserve(l, kind).limiter.last = tick
           /\ Reserve(l, kind).ok = (Level(l, kind) >= Every(kind))
           /\ Reserve(l, kind).limiter.level =
                  IF Level(l, kind) >= Every(kind) THEN Level(l, kind) - Every(kind) ELSE Level(l, kind)
           /\ Level(Reserve(l, kind).limiter, kind) = Reserve(l, kind).limiter.level
           /\ Larger(Reserve(l, kind).limiter.level \div Every(kind), 0) = Reserve(l, kind).limiter.level \div Every(kind)
<1>1. Full(kind) \in Nat /\ Every(kind) \in Nat /\ Every(kind) > 0
  BY KindFacts
<1>2. l.level \in Nat /\ l.last \in Nat
  BY DEF Limiters
<1>3. Level(l, kind) \in Nat /\ Level(l, kind) <= Full(kind)
  BY <1>1, <1>2 DEF Level, Smaller
<1>4. PICK n \in Nat : n = IF Level(l, kind) >= Every(kind) THEN Level(l, kind) - Every(kind) ELSE Level(l, kind)
  BY <1>1, <1>3
<1>5. /\ Reserve(l, kind).limiter = [level |-> n, last |-> tick]
      /\ Reserve(l, kind).ok = (Level(l, kind) >= Every(kind))
  <2>1. CASE Level(l, kind) >= Every(kind)
    <3>1. Reserve(l, kind) = [ok |-> TRUE, limiter |-> [level |-> n, last |-> tick]]
      BY <1>4, <2>1 DEF Reserve
    <3>2. Reserve(l, kind).limiter = [level |-> n, last |-> tick]
      BY <3>1
    <3>3. Reserve(l, kind).ok = TRUE
      BY <3>1
    <3>4. (Level(l, kind) >= Every(kind)) = TRUE
      BY <2>1
    <3> QED BY <3>2, <3>3, <3>4
  <2>2. CASE ~(Level(l, kind) >= Every(kind))
    <3>1. Reserve(l, kind) = [ok |-> FALSE, limiter |-> [level |-> n, last |-> tick]]
      BY <1>4, <2>2 DEF Reserve
    <3>2. Reserve(l, kind).limiter = [level |-> n, last |-> tick]
      BY <3>1
    <3>3. Reserve(l, kind).ok = FALSE
      BY <3>1
    <3>4. (Level(l, kind) >= Every(kind)) = FALSE
      BY <2>2
    <3> QED BY <3>2, <3>3, <3>4
  <2> QED BY <2>1, <2>2
<1>6. n <= Full(kind)
  BY <1>1, <1>3, <1>4
<1>7. Level([level |-> n, last |-> tick], kind) = n
  BY <1>1, <1>6 DEF Level, Smaller
<1>8. Larger(n \div Every(kind), 0) = n \div Every(kind)
  BY <1>1, Divided DEF Larger
<1> QED BY <1>4, <1>5, <1>6, <1>7, <1>8 DEF Limiters

\* The limiter of one client is replaced.
LEMMA IPDecided ==
    ASSUME BucketsSound, NEW r \in Calls, CheckIP(r)
    PROVE  BucketsSound' /\ Deciding("auth", ClientIP(r))
<1> DEFINE ip == ClientIP(r)
           res == Reserve(IPBucket(ip).limiter, "auth")
<1>1. /\ tick \in Nat /\ tick' = tick /\ buckets' = buckets
      /\ ipBuckets' = Put(ipBuckets, ip, [limiter |-> res.limiter, seen |-> tick])
      /\ Decide("auth", ip, res)
  BY DEF BucketsSound, CheckIP
<1>2. "auth" \in Kinds
  BY DEF Kinds
<1>3. LimiterOf("auth", ip) = IPBucket(ip).limiter
  BY DEF LimiterOf
<1>4. PICK l \in Limiters : l = IPBucket(ip).limiter /\ l.last <= tick
  BY <1>2, <1>3, LimiterFacts
<1>5. /\ res.limiter \in Limiters
      /\ res.limiter.level <= Full("auth")
      /\ res.limiter.last = tick
      /\ res.ok = (Level(l, "auth") >= Every("auth"))
      /\ res.limiter.level = IF Level(l, "auth") >= Every("auth") THEN Level(l, "auth") - Every("auth") ELSE Level(l, "auth")
      /\ Level(res.limiter, "auth") = res.limiter.level
      /\ Larger(res.limiter.level \div Every("auth"), 0) = res.limiter.level \div Every("auth")
  BY <1>1, <1>2, <1>4, Reserved
<1>6. Credit("auth", ip) = Level(l, "auth")
  BY <1>3, <1>4 DEF Credit
<1>7. Remains("auth", ip) = res.limiter.level
  BY <1>5, <1>6 DEF Remains
<1>8. decided' = Append(decided, [kind |-> "auth", key |-> ip, at |-> tick, ok |-> Credit("auth", ip) >= Every("auth"),
                                  left |-> Remains("auth", ip) \div Every("auth")])
  BY <1>1, <1>5, <1>6, <1>7 DEF Decide
<1> HIDE DEF ip, res
<1>9. PICK m \in Limiters : m = res.limiter /\ m.level <= Full("auth") /\ m.last = tick
  BY <1>5
<1>10. PICK b \in [limiter : Limiters, seen : Nat] : b = [limiter |-> m, seen |-> tick]
  BY <1>1
<1>11. /\ DOMAIN ipBuckets' = DOMAIN ipBuckets \cup {ip}
       /\ ipBuckets' = [k \in DOMAIN ipBuckets' |-> IF k = ip THEN b ELSE ipBuckets[k]]
  BY <1>1, <1>9, <1>10 DEF Put
<1>12. b.limiter = m /\ b.seen = tick /\ Sound(b.limiter, "auth", b.seen)
  BY <1>1, <1>9, <1>10 DEF Sound
<1>13. BucketsSound'
  <2>1. ipBuckets' \in [DOMAIN ipBuckets' -> [limiter : Limiters, seen : Nat]]
    BY <1>11 DEF BucketsSound
  <2>2. ASSUME NEW k \in DOMAIN ipBuckets' PROVE Sound(ipBuckets[k].limiter, "auth", ipBuckets[k].seen)'
    <3>1. CASE k = ip
      <4>1. ipBuckets'[k] = b
        BY <1>11, <3>1
      <4> QED BY <1>1, <1>12, <4>1 DEF Sound, Full, Burst, Every
    <3>2. CASE k # ip
      <4>1. ipBuckets'[k] = ipBuckets[k] /\ k \in DOMAIN ipBuckets
        BY <1>11, <3>2
      <4>2. Sound(ipBuckets[k].limiter, "auth", ipBuckets[k].seen)
        BY <4>1 DEF BucketsSound
      <4> QED BY <1>1, <4>1, <4>2 DEF Sound, Full, Burst, Every
    <3> QED BY <3>1, <3>2
  <2>3. \A key \in DOMAIN buckets : /\ Sound(buckets[key].read, "read", buckets[key].seen)'
                                    /\ Sound(buckets[key].write, "write", buckets[key].seen)'
    BY <1>1 DEF BucketsSound, Sound, Full, Burst, Every
  <2> QED BY <1>1, <2>1, <2>2, <2>3 DEF BucketsSound
<1>14. \A kd, x : Level(x, kd)' = Level(x, kd)
  BY <1>1 DEF Level, Full, Burst, Every
<1>15. Credit("auth", ip)' = Remains("auth", ip)
  <2>1. LimiterOf("auth", ip)' = m
    <3>1. ipBuckets'[ip] = b /\ ip \in DOMAIN ipBuckets'
      BY <1>11
    <3> QED BY <1>12, <3>1 DEF LimiterOf, IPBucket
  <2> QED BY <1>5, <1>7, <1>9, <1>14, <2>1 DEF Credit
<1>16. ASSUME NEW kd \in Kinds, NEW ky, kd # "auth" \/ ky # ip PROVE Credit(kd, ky)' = Credit(kd, ky)
  <2>1. LimiterOf(kd, ky)' = LimiterOf(kd, ky)
    <3>1. NewLimiter("auth")' = NewLimiter("auth") /\ NewLimiter("read")' = NewLimiter("read")
          /\ NewLimiter("write")' = NewLimiter("write")
      BY <1>1 DEF NewLimiter, Full, Burst, Every
    <3>2. CASE kd = "auth"
      <4>1. ky # ip
        BY <1>16, <3>2
      <4>2. (ky \in DOMAIN ipBuckets' <=> ky \in DOMAIN ipBuckets)
        BY <1>11, <4>1
      <4>3. ky \in DOMAIN ipBuckets => ipBuckets'[ky] = ipBuckets[ky]
        BY <1>11, <4>1
      <4>4. CASE ky \in DOMAIN ipBuckets
        BY <3>2, <4>2, <4>3, <4>4 DEF LimiterOf, IPBucket
      <4>5. CASE ky \notin DOMAIN ipBuckets
        <5>1. LimiterOf(kd, ky) = NewLimiter("auth") /\ LimiterOf(kd, ky)' = NewLimiter("auth")'
          BY <3>2, <4>2, <4>5 DEF LimiterOf, IPBucket
        <5> QED BY <3>1, <5>1
      <4> QED BY <4>4, <4>5
    <3>3. CASE kd # "auth"
      BY <1>1, <3>1, <3>3 DEF LimiterOf, APIBucket
    <3> QED BY <3>2, <3>3
  <2> QED BY <1>14, <2>1 DEF Credit
<1>17. Deciding("auth", ip)
  BY <1>1, <1>8, <1>15, <1>16 DEF Deciding
<1> QED BY <1>13, <1>17 DEF ip

\* The calls that were served can be counted.
LEMMA ServedFinite ==
    ASSUME DecisionsSound, NEW i \in DOMAIN decided, NEW kind, NEW key
    PROVE  /\ IsFiniteSet(ServedSince(i, kind, key))
           /\ Cardinality(ServedSince(i, kind, key)) \in Nat
           /\ Len(decided) \in Nat /\ DOMAIN decided = 1 .. Len(decided)
<1>1. Len(decided) \in Nat /\ DOMAIN decided = 1 .. Len(decided)
  BY DEF DecisionsSound
<1>2. IsFiniteSet(i .. Len(decided))
  BY <1>1, FS_Interval
<1>3. ServedSince(i, kind, key) \subseteq i .. Len(decided)
  BY DEF ServedSince
<1>4. IsFiniteSet(ServedSince(i, kind, key))
  BY <1>2, <1>3, FS_Subset
<1> QED BY <1>1, <1>4, FS_CardinalityType

\* What is granted is a number, as no decision is of the future.
LEMMA GrantedType ==
    ASSUME BucketsSound, DecisionsSound, NEW i \in DOMAIN decided, NEW kind \in Kinds
    PROVE  Granted(i, kind) \in Nat /\ decided[i].at \in Nat /\ tick \in Nat /\ decided[i].at <= tick
<1>1. decided[i].at \in Nat /\ tick \in Nat /\ decided[i].at <= tick
  <2>1. decided[i] \in Decisions /\ decided[i].at <= tick
    BY DEF DecisionsSound
  <2> QED BY <2>1 DEF BucketsSound, Decisions
<1>2. Full(kind) \in Nat
  BY KindFacts
<1> QED BY <1>1, <1>2 DEF Granted

\* What time gives to a client is granted to it.
LEMMA TimeKeeps ==
    ASSUME BucketsSound, DecisionsSound, tick' = tick + 1, decided' = decided, NEW kind \in Kinds, NEW key,
           Credit(kind, key)' = Smaller(Full(kind), Credit(kind, key) + 1),
           NeverMore(kind, key), NeverLess(kind, key), Promised(kind, key)
    PROVE  NeverMore(kind, key)' /\ NeverLess(kind, key)' /\ Promised(kind, key)'
<1>1. /\ Every(kind) \in Nat /\ Full(kind) \in Nat
      /\ Every(kind)' = Every(kind) /\ Full(kind)' = Full(kind)
  BY KindFacts DEF Full, Burst, Every
<1>2. PICK c \in Nat : c = Credit(kind, key) /\ c <= Full(kind)
  BY CreditRange
<1>3. PICK c1 \in Nat : c1 = Credit(kind, key)' /\ c1 = IF c = Full(kind) THEN c ELSE c + 1
  BY <1>1, <1>2 DEF Smaller
<1>4. ASSUME NEW i \in DOMAIN decided
      PROVE  /\ ServedSince(i, kind, key)' = ServedSince(i, kind, key)
             /\ About(i, kind, key)' = About(i, kind, key)
  BY DEF ServedSince, About
<1>5. ASSUME NEW i \in DOMAIN decided
      PROVE  \E m \in Nat, g \in Nat : /\ Spent(i, kind, key) = m + c /\ Spent(i, kind, key)' = m + c1
                                       /\ Granted(i, kind) = g /\ Granted(i, kind)' = g + 1
  <2>1. PICK n \in Nat : n = Cardinality(ServedSince(i, kind, key)) /\ n = Cardinality(ServedSince(i, kind, key))'
    BY <1>4, <1>5, ServedFinite
  <2>2. PICK m \in Nat : m = Every(kind) * n
    BY <1>1, <2>1
  <2>3. PICK g \in Nat : g = Granted(i, kind) /\ decided[i].at \in Nat /\ tick \in Nat
    BY GrantedType
  <2>4. Granted(i, kind)' = g + 1
    BY <1>1, <2>3 DEF Granted
  <2>5. Spent(i, kind, key) = m + c
    BY <1>2, <2>1, <2>2 DEF Spent
  <2>6. Spent(i, kind, key)' = m + c1
    <3>1. Spent(i, kind, key)' = Every(kind)' * Cardinality(ServedSince(i, kind, key))' + Credit(kind, key)'
      BY DEF Spent
    <3> QED BY <1>1, <1>3, <2>1, <2>2, <3>1
  <2> QED BY <2>3, <2>4, <2>5, <2>6
<1>6. NeverMore(kind, key)'
  <2>1. SUFFICES ASSUME NEW i \in DOMAIN decided, decided[i].ok, About(i, kind, key)
                 PROVE  Spent(i, kind, key)' <= Granted(i, kind)'
    BY <1>4 DEF NeverMore
  <2>2. Spent(i, kind, key) <= Granted(i, kind)
    BY <2>1 DEF NeverMore
  <2> QED BY <1>2, <1>3, <1>5, <2>2
<1>7. NeverLess(kind, key)'
  <2>1. CASE c = Full(kind)
    BY <1>1, <1>3, <2>1 DEF NeverLess
  <2>2. CASE c # Full(kind)
    <3>1. PICK i \in DOMAIN decided : decided[i].ok /\ About(i, kind, key) /\ Spent(i, kind, key) = Granted(i, kind)
      BY <1>2, <2>2 DEF NeverLess
    <3>2. Spent(i, kind, key)' = Granted(i, kind)'
      BY <1>2, <1>3, <1>5, <2>2, <3>1
    <3>3. i \in DOMAIN decided' /\ decided'[i].ok /\ About(i, kind, key)'
      BY <1>4, <3>1
    <3> QED BY <3>2, <3>3 DEF NeverLess
  <2> QED BY <2>1, <2>2
<1>8. Promised(kind, key)'
  <2>1. SUFFICES ASSUME NEW i \in DOMAIN decided, About(i, kind, key)
                 PROVE  (\/ decided[i].left = 0
                         \/ \E k \in DOMAIN decided : k > i /\ About(k, kind, key)
                         \/ Credit(kind, key) >= Every(kind))'
    BY <1>4 DEF Promised
  <2>2. \/ decided[i].left = 0
        \/ \E k \in DOMAIN decided : k > i /\ About(k, kind, key)
        \/ Credit(kind, key) >= Every(kind)
    BY <2>1 DEF Promised
  <2>3. Credit(kind, key) >= Every(kind) => Credit(kind, key)' >= Every(kind)'
    BY <1>1, <1>2, <1>3
  <2> QED BY <1>4, <2>2, <2>3
<1> QED BY <1>6, <1>7, <1>8

\* A step that changes neither what was decided nor what the client has.
LEMMA RestKeeps ==
    ASSUME tick' = tick, decided' = decided, NEW kind \in Kinds, NEW key,
           Credit(kind, key)' = Credit(kind, key),
           NeverMore(kind, key), NeverLess(kind, key), Promised(kind, key)
    PROVE  NeverMore(kind, key)' /\ NeverLess(kind, key)' /\ Promised(kind, key)'
<1>1. Every(kind)' = Every(kind) /\ Full(kind)' = Full(kind)
  BY DEF Full, Burst, Every
<1>2. ASSUME NEW i \in DOMAIN decided
      PROVE  /\ ServedSince(i, kind, key)' = ServedSince(i, kind, key)
             /\ About(i, kind, key)' = About(i, kind, key)
  BY DEF ServedSince, About
<1>3. ASSUME NEW i \in DOMAIN decided
      PROVE  Spent(i, kind, key)' = Spent(i, kind, key) /\ Granted(i, kind)' = Granted(i, kind)
  <2>1. ServedSince(i, kind, key)' = ServedSince(i, kind, key)
    BY <1>2
  <2> QED BY <1>1, <2>1 DEF Spent, Granted
<1>4. NeverMore(kind, key)'
  BY <1>2, <1>3 DEF NeverMore
<1>5. NeverLess(kind, key)'
  <2>1. CASE Credit(kind, key) = Full(kind)
    BY <1>1, <2>1 DEF NeverLess
  <2>2. CASE Credit(kind, key) # Full(kind)
    <3>1. PICK i \in DOMAIN decided : decided[i].ok /\ About(i, kind, key) /\ Spent(i, kind, key) = Granted(i, kind)
      BY <2>2 DEF NeverLess
    <3> QED BY <1>2, <1>3, <3>1 DEF NeverLess
  <2> QED BY <2>1, <2>2
<1>6. Promised(kind, key)'
  BY <1>1, <1>2 DEF Promised
<1> QED BY <1>4, <1>5, <1>6

\* A decision is added to those before.
LEMMA Grown ==
    ASSUME BucketsSound, DecisionsSound, NEW kind \in Kinds, NEW key \in ClientKeys, Deciding(kind, key)
    PROVE  /\ Len(decided) \in Nat /\ DOMAIN decided = 1 .. Len(decided)
           /\ DOMAIN decided' = 1 .. (Len(decided) + 1) /\ Len(decided') = Len(decided) + 1
           /\ \A i \in DOMAIN decided : decided'[i] = decided[i]
           /\ decided'[Len(decided) + 1].kind = kind
           /\ decided'[Len(decided) + 1].key = key
           /\ decided'[Len(decided) + 1].at = tick
           /\ decided'[Len(decided) + 1].ok = (Credit(kind, key) >= Every(kind))
           /\ decided'[Len(decided) + 1].left = Remains(kind, key) \div Every(kind)
           /\ DecisionsSound'
<1>1. /\ Every(kind) \in Nat /\ Every(kind) > 0 /\ Full(kind) \in Nat
  BY KindFacts
<1>2. PICK c \in Nat : c = Credit(kind, key)
  BY CreditRange
<1>3. PICK m \in Nat : m = Remains(kind, key)
  BY <1>1, <1>2 DEF Remains
<1>4. PICK q \in Nat : q = m \div Every(kind)
  BY <1>1, <1>3, Divided
<1>5. PICK b \in BOOLEAN : b = (Credit(kind, key) >= Every(kind))
  <2>1. CASE Credit(kind, key) >= Every(kind)
    <3>1. TRUE = (Credit(kind, key) >= Every(kind))
      BY <2>1
    <3> QED BY <3>1
  <2>2. CASE ~(Credit(kind, key) >= Every(kind))
    <3>1. FALSE = (Credit(kind, key) >= Every(kind))
      BY <2>2
    <3> QED BY <3>1
  <2> QED BY <2>1, <2>2
<1>6. PICK d \in Decisions : /\ d.kind = kind /\ d.key = key /\ d.at = tick /\ d.ok = b /\ d.left = q
                             /\ decided' = Append(decided, d)
  <2>1. tick \in Nat
    BY DEF BucketsSound
  <2>2. [kind |-> kind, key |-> key, at |-> tick, ok |-> b, left |-> q] \in Decisions
    BY <2>1 DEF Decisions
  <2>3. decided' = Append(decided, [kind |-> kind, key |-> key, at |-> tick, ok |-> b, left |-> q])
    BY <1>3, <1>4, <1>5 DEF Deciding
  <2> QED BY <2>2, <2>3
<1>7. decided \in Seq(Decisions) /\ Len(decided) \in Nat /\ DOMAIN decided = 1 .. Len(decided)
  BY DEF DecisionsSound
<1>8. /\ decided' \in Seq(Decisions)
      /\ DOMAIN decided' = 1 .. (Len(decided) + 1) /\ Len(decided') = Len(decided) + 1
      /\ \A i \in DOMAIN decided : decided'[i] = decided[i]
      /\ decided'[Len(decided) + 1] = d
  BY <1>6, <1>7
<1>9. DecisionsSound'
  <2>1. tick' = tick /\ tick \in Nat
    BY DEF Deciding, BucketsSound
  <2>2. ASSUME NEW i \in DOMAIN decided' PROVE decided'[i].at <= tick
    <3>1. CASE i \in DOMAIN decided
      BY <1>8, <3>1 DEF DecisionsSound
    <3>2. CASE i = Len(decided) + 1
      BY <1>6, <1>8, <2>1, <3>2
    <3> QED BY <1>7, <1>8, <3>1, <3>2
  <2> QED BY <1>8, <2>1, <2>2 DEF DecisionsSound
<1> QED BY <1>3, <1>4, <1>5, <1>6, <1>7, <1>8, <1>9

\* What one client is answered means nothing to another.
LEMMA OthersKeep ==
    ASSUME BucketsSound, DecisionsSound, NEW kind \in Kinds, NEW key \in ClientKeys, Deciding(kind, key),
           NEW kd \in Kinds, NEW ky, kd # kind \/ ky # key,
           NeverMore(kd, ky), NeverLess(kd, ky), Promised(kd, ky)
    PROVE  NeverMore(kd, ky)' /\ NeverLess(kd, ky)' /\ Promised(kd, ky)'
<1>1. PICK n \in Nat :
      /\ n = Len(decided) /\ DOMAIN decided = 1 .. n /\ DOMAIN decided' = 1 .. (n + 1) /\ Len(decided') = n + 1
      /\ \A i \in DOMAIN decided : decided'[i] = decided[i]
      /\ decided'[n + 1].kind = kind /\ decided'[n + 1].key = key
  BY Grown
<1>2. Every(kd)' = Every(kd) /\ Full(kd)' = Full(kd) /\ tick' = tick /\ Credit(kd, ky)' = Credit(kd, ky)
  BY DEF Full, Burst, Every, Deciding
<1>3. ~About(n + 1, kd, ky)'
  BY <1>1 DEF About
<1>4. \A i \in DOMAIN decided : About(i, kd, ky)' = About(i, kd, ky)
  BY <1>1 DEF About
<1>5. ASSUME NEW i \in DOMAIN decided
      PROVE  ServedSince(i, kd, ky)' = ServedSince(i, kd, ky)
  <2>1. \A k \in i .. n : k \in DOMAIN decided /\ k \in i .. (n + 1)
    BY <1>1
  <2>2. \A k \in i .. (n + 1) : k \in i .. n \/ k = n + 1
    BY <1>1
  <2>3. ServedSince(i, kd, ky) = {k \in i .. n : decided[k].ok /\ About(k, kd, ky)}
    BY <1>1 DEF ServedSince
  <2>4. ServedSince(i, kd, ky)' = {k \in i .. (n + 1) : decided'[k].ok /\ About(k, kd, ky)'}
    BY <1>1 DEF ServedSince
  <2> QED BY <1>1, <1>3, <1>4, <2>1, <2>2, <2>3, <2>4
<1>6. ASSUME NEW i \in DOMAIN decided
      PROVE  Spent(i, kd, ky)' = Spent(i, kd, ky) /\ Granted(i, kd)' = Granted(i, kd)
  <2>1. ServedSince(i, kd, ky)' = ServedSince(i, kd, ky)
    BY <1>5
  <2>2. decided'[i] = decided[i]
    BY <1>1
  <2> QED BY <1>2, <2>1, <2>2 DEF Spent, Granted
<1>7. \A i \in DOMAIN decided' : About(i, kd, ky)' => i \in DOMAIN decided
  BY <1>1, <1>3
<1>8. \A i \in DOMAIN decided : i \in DOMAIN decided'
  BY <1>1
<1>9. NeverMore(kd, ky)'
  BY <1>1, <1>4, <1>6, <1>7 DEF NeverMore
<1>10. NeverLess(kd, ky)'
  <2>1. CASE Credit(kd, ky) = Full(kd)
    BY <1>2, <2>1 DEF NeverLess
  <2>2. CASE Credit(kd, ky) # Full(kd)
    <3>1. PICK i \in DOMAIN decided : decided[i].ok /\ About(i, kd, ky) /\ Spent(i, kd, ky) = Granted(i, kd)
      BY <2>2 DEF NeverLess
    <3> QED BY <1>1, <1>4, <1>6, <1>8, <3>1 DEF NeverLess
  <2> QED BY <2>1, <2>2
<1>11. Promised(kd, ky)'
  <2>1. SUFFICES ASSUME NEW i \in DOMAIN decided, About(i, kd, ky)
                 PROVE  \/ decided[i].left = 0
                        \/ \E k \in DOMAIN decided : k > i /\ About(k, kd, ky)
                        \/ Credit(kd, ky) >= Every(kd)
    <3>1. ASSUME NEW i \in DOMAIN decided', About(i, kd, ky)',
                 \/ decided[i].left = 0
                 \/ \E k \in DOMAIN decided : k > i /\ About(k, kd, ky)
                 \/ Credit(kd, ky) >= Every(kd)
          PROVE  (\/ decided[i].left = 0
                  \/ \E k \in DOMAIN decided : k > i /\ About(k, kd, ky)
                  \/ Credit(kd, ky) >= Every(kd))'
      BY <1>1, <1>2, <1>4, <1>7, <1>8, <3>1
    <3> QED BY <1>4, <1>7, <3>1 DEF Promised
  <2> QED BY <2>1 DEF Promised
<1> QED BY <1>9, <1>10, <1>11

\* What is served counts, what is refused does not.
LEMMA ServedCounts ==
    ASSUME BucketsSound, DecisionsSound, NEW kind \in Kinds, NEW key \in ClientKeys, Deciding(kind, key),
           NEW i \in DOMAIN decided'
    PROVE  /\ Cardinality(ServedSince(i, kind, key))' \in Nat
           /\ i \in DOMAIN decided =>
                 Cardinality(ServedSince(i, kind, key))' = Cardinality(ServedSince(i, kind, key))
                                                           + (IF Credit(kind, key) >= Every(kind) THEN 1 ELSE 0)
           /\ i = Len(decided) + 1 =>
                 Cardinality(ServedSince(i, kind, key))' = IF Credit(kind, key) >= Every(kind) THEN 1 ELSE 0
<1>1. PICK n \in Nat :
      /\ n = Len(decided) /\ DOMAIN decided = 1 .. n /\ DOMAIN decided' = 1 .. (n + 1) /\ Len(decided') = n + 1
      /\ \A k \in DOMAIN decided : decided'[k] = decided[k]
      /\ decided'[n + 1].kind = kind /\ decided'[n + 1].key = key
  BY Grown
<1>2. decided'[n + 1].ok <=> Credit(kind, key) >= Every(kind)
  <2>1. decided'[Len(decided) + 1].ok = (Credit(kind, key) >= Every(kind))
    BY Grown
  <2> QED BY <1>1, <2>1
<1>3. About(n + 1, kind, key)'
  BY <1>1 DEF About
<1>4. \A k \in DOMAIN decided : About(k, kind, key)' = About(k, kind, key)
  BY <1>1 DEF About
<1>5. ServedSince(i, kind, key)' = {k \in i .. (n + 1) : decided'[k].ok /\ About(k, kind, key)'}
  BY <1>1 DEF ServedSince
<1>6. CASE i \in DOMAIN decided
  <2>1. ServedSince(i, kind, key) = {k \in i .. n : decided[k].ok /\ About(k, kind, key)}
    BY <1>1 DEF ServedSince
  <2>2. \A k \in i .. n : k \in DOMAIN decided /\ k \in i .. (n + 1)
    BY <1>1, <1>6
  <2>3. \A k \in i .. (n + 1) : k \in i .. n \/ k = n + 1
    BY <1>1, <1>6
  <2>4. n + 1 \in i .. (n + 1) /\ n + 1 \notin i .. n
    BY <1>1, <1>6
  <2>5. PICK S : S = ServedSince(i, kind, key) /\ IsFiniteSet(S) /\ Cardinality(S) \in Nat
    BY <1>6, ServedFinite
  <2>6. \A k \in i .. n : (decided'[k].ok /\ About(k, kind, key)') <=> k \in S
    BY <1>1, <1>4, <2>1, <2>2, <2>5
  <2>7. \A k \in S : k \in i .. n
    BY <2>1, <2>5
  <2>8. CASE Credit(kind, key) >= Every(kind)
    <3>1. decided'[n + 1].ok
      BY <1>2, <2>8
    <3>2. ServedSince(i, kind, key)' = S \cup {n + 1} /\ n + 1 \notin S
      BY <1>3, <1>5, <2>2, <2>3, <2>4, <2>6, <2>7, <3>1
    <3>3. Cardinality(S \cup {n + 1}) = Cardinality(S) + 1
      BY <2>5, <3>2, FS_AddElement
    <3> QED BY <1>1, <1>6, <2>5, <2>8, <3>2, <3>3
  <2>9. CASE ~(Credit(kind, key) >= Every(kind))
    <3>1. ~decided'[n + 1].ok
      BY <1>2, <2>9
    <3>2. ServedSince(i, kind, key)' = S
      BY <1>5, <2>2, <2>3, <2>6, <2>7, <3>1
    <3> QED BY <1>1, <1>6, <2>5, <2>9, <3>2
  <2> QED BY <2>8, <2>9
<1>7. CASE i = n + 1
  <2>1. \A k : k \in i .. (n + 1) <=> k = n + 1
    BY <1>1, <1>7
  <2>2. i \notin DOMAIN decided
    BY <1>1, <1>7
  <2>3. CASE Credit(kind, key) >= Every(kind)
    <3>1. ServedSince(i, kind, key)' = {n + 1}
      BY <1>2, <1>3, <1>5, <2>1, <2>3
    <3>2. Cardinality(ServedSince(i, kind, key))' = 1
      BY <3>1, FS_Singleton
    <3> QED BY <2>2, <2>3, <3>2
  <2>4. CASE ~(Credit(kind, key) >= Every(kind))
    <3>1. ServedSince(i, kind, key)' = {}
      BY <1>2, <1>3, <1>5, <2>1, <2>4
    <3>2. Cardinality(ServedSince(i, kind, key))' = 0
      BY <3>1, FS_EmptySet
    <3> QED BY <2>2, <2>4, <3>2
  <2> QED BY <2>3, <2>4
<1> QED BY <1>1, <1>6, <1>7

\* A client who is served pays a token, one who is refused pays nothing.
LEMMA ClientKeeps ==
    ASSUME BucketsSound, DecisionsSound, NEW kind \in Kinds, NEW key \in ClientKeys, Deciding(kind, key),
           NeverMore(kind, key), NeverLess(kind, key), Promised(kind, key)
    PROVE  NeverMore(kind, key)' /\ NeverLess(kind, key)' /\ Promised(kind, key)'
<1>1. PICK n \in Nat :
      /\ n = Len(decided) /\ DOMAIN decided = 1 .. n /\ DOMAIN decided' = 1 .. (n + 1) /\ Len(decided') = n + 1
      /\ \A k \in DOMAIN decided : decided'[k] = decided[k]
      /\ decided'[n + 1].kind = kind /\ decided'[n + 1].key = key /\ decided'[n + 1].at = tick
      /\ decided'[n + 1].ok = (Credit(kind, key) >= Every(kind))
      /\ decided'[n + 1].left = Remains(kind, key) \div Every(kind)
  BY Grown
<1>2. About(n + 1, kind, key)'
  BY <1>1 DEF About
<1>3. \A k \in DOMAIN decided : About(k, kind, key)' = About(k, kind, key)
  BY <1>1 DEF About
<1>4. PICK e \in Nat, f \in Nat :
      /\ e = Every(kind) /\ f = Full(kind) /\ e > 0 /\ f >= e /\ e = Every(kind)' /\ f = Full(kind)'
  BY KindFacts DEF Full, Burst, Every
<1>5. PICK c \in Nat : c = Credit(kind, key) /\ c <= f
  BY <1>4, CreditRange
<1>6. PICK c1 \in Nat : c1 = Remains(kind, key) /\ c1 = Credit(kind, key)' /\ c1 = IF c >= e THEN c - e ELSE c
  <2>1. Remains(kind, key) \in Nat /\ Remains(kind, key) = IF c >= e THEN c - e ELSE c
    BY <1>4, <1>5 DEF Remains
  <2> QED BY <2>1 DEF Deciding
<1>7. tick' = tick /\ tick \in Nat
  BY DEF Deciding, BucketsSound
<1>8. ASSUME NEW i \in DOMAIN decided
      PROVE  Spent(i, kind, key)' = Spent(i, kind, key) /\ Granted(i, kind)' = Granted(i, kind)
  <2>1. i \in DOMAIN decided' /\ decided'[i] = decided[i]
    BY <1>1, <1>8
  <2>2. PICK m \in Nat : m = Cardinality(ServedSince(i, kind, key))
    BY <1>8, ServedFinite
  <2>3. Cardinality(ServedSince(i, kind, key))' = m + IF c >= e THEN 1 ELSE 0
    BY <1>4, <1>5, <1>8, <2>1, <2>2, ServedCounts
  <2>4. Spent(i, kind, key) = e * m + c
    BY <1>4, <1>5, <2>2 DEF Spent
  <2>5. Spent(i, kind, key)' = e * (m + IF c >= e THEN 1 ELSE 0) + c1
    BY <1>4, <1>6, <2>3 DEF Spent
  <2>6. e * (m + 1) = e * m + e /\ e * m \in Nat /\ m + 0 = m
    BY <1>4, <2>2
  <2>7. Spent(i, kind, key)' = Spent(i, kind, key)
    BY <1>4, <1>5, <1>6, <2>4, <2>5, <2>6
  <2>8. Granted(i, kind)' = Granted(i, kind)
    BY <1>4, <1>7, <2>1 DEF Granted
  <2> QED BY <2>7, <2>8
<1>9. ASSUME c >= e PROVE Spent(n + 1, kind, key)' = c /\ Granted(n + 1, kind)' = f
  <2>1. PICK s \in DOMAIN decided' : s = n + 1
    BY <1>1
  <2>2. Cardinality(ServedSince(s, kind, key))' = 1
    BY <1>1, <1>4, <1>5, <1>9, <2>1, ServedCounts
  <2>3. Spent(s, kind, key)' = e * 1 + c1
    BY <1>4, <1>6, <2>2 DEF Spent
  <2>4. Granted(s, kind)' = f + (tick - tick)
    BY <1>1, <1>4, <1>7, <2>1 DEF Granted
  <2> QED BY <1>4, <1>5, <1>6, <1>7, <1>9, <2>1, <2>3, <2>4
<1>10. \A i \in DOMAIN decided' : i \in DOMAIN decided \/ i = n + 1
  BY <1>1
<1>11. NeverMore(kind, key)'
  <2>1. SUFFICES ASSUME NEW i \in DOMAIN decided', decided'[i].ok, About(i, kind, key)'
                 PROVE  Spent(i, kind, key)' <= Granted(i, kind)'
    BY DEF NeverMore
  <2>2. CASE i \in DOMAIN decided
    <3>1. decided[i].ok /\ About(i, kind, key)
      BY <1>1, <1>3, <2>1, <2>2
    <3>2. Spent(i, kind, key) <= Granted(i, kind)
      BY <2>2, <3>1 DEF NeverMore
    <3> QED BY <1>8, <2>2, <3>2
  <2>3. CASE i = n + 1
    <3>1. c >= e
      BY <1>1, <1>4, <1>5, <2>1, <2>3
    <3> QED BY <1>5, <1>9, <2>3, <3>1
  <2> QED BY <1>10, <2>2, <2>3
<1>12. NeverLess(kind, key)'
  <2>1. CASE c >= e /\ c = f
    <3>1. n + 1 \in DOMAIN decided' /\ decided'[n + 1].ok
      <4>1. Credit(kind, key) >= Every(kind)
        BY <1>4, <1>5, <2>1
      <4>2. decided'[n + 1].ok = (Credit(kind, key) >= Every(kind))
        BY <1>1
      <4>3. n + 1 \in DOMAIN decided'
        BY <1>1
      <4> QED BY <4>1, <4>2, <4>3
    <3>2. Spent(n + 1, kind, key)' = Granted(n + 1, kind)'
      BY <1>9, <2>1
    <3> QED BY <1>2, <3>1, <3>2 DEF NeverLess
  <2>2. CASE c # f
    <3>1. PICK i \in DOMAIN decided : decided[i].ok /\ About(i, kind, key) /\ Spent(i, kind, key) = Granted(i, kind)
      BY <1>4, <1>5, <2>2 DEF NeverLess
    <3>2. i \in DOMAIN decided' /\ decided'[i].ok /\ About(i, kind, key)'
      BY <1>1, <1>3, <3>1
    <3>3. Spent(i, kind, key)' = Granted(i, kind)'
      BY <1>8, <3>1
    <3> QED BY <3>2, <3>3 DEF NeverLess
  <2> QED BY <1>4, <2>1, <2>2
<1>13. Promised(kind, key)'
  <2>1. SUFFICES ASSUME NEW i \in DOMAIN decided', About(i, kind, key)'
                 PROVE  (\/ decided[i].left = 0
                         \/ \E k \in DOMAIN decided : k > i /\ About(k, kind, key)
                         \/ Credit(kind, key) >= Every(kind))'
    BY DEF Promised
  <2>2. CASE i \in DOMAIN decided
    <3>1. n + 1 \in DOMAIN decided' /\ n + 1 > i
      BY <1>1, <2>2
    <3> QED BY <1>2, <3>1
  <2>3. CASE i = n + 1
    <3>1. decided'[i].left = c1 \div e
      BY <1>1, <1>4, <1>6, <2>3
    <3>2. c1 \div e \in Nat /\ (c1 \div e > 0 => c1 >= e)
      BY <1>4, Divided
    <3>3. decided'[i].left = 0 \/ Credit(kind, key)' >= Every(kind)'
      BY <1>4, <1>6, <3>1, <3>2
    <3> QED BY <3>3
  <2> QED BY <1>10, <2>2, <2>3
<1> QED BY <1>11, <1>12, <1>13

\* The same with a remainder, which is less than a token when a call is refused.
LEMMA Reckoned ==
    ASSUME NEW e \in Nat, e > 0, NEW s \in Nat, NEW b \in Nat, NEW x \in Nat, NEW c \in Nat
    PROVE  /\ e * s + c <= b * e + x => s <= b + x \div e
           /\ e * s + c = b * e + x /\ c < e => s + 1 > b + x \div e
<1>1. PICK p \in Nat, q \in Nat : p = e * s /\ q = b * e
  OBVIOUS
<1>2. PICK d \in Nat : d = x \div e
  BY Divided
<1>3. PICK s1 \in Nat : s1 = s + 1
  OBVIOUS
<1>4. e * s1 = p + e
  BY <1>1, <1>3
<1>5. (p <= q + x) <=> s <= b + d
  BY <1>1, <1>2, Within
<1>6. (e * s1 <= q + x) <=> s1 <= b + d
  BY <1>1, <1>2, Within
<1>7. (p + e <= q + x) <=> s1 <= b + d
  BY <1>4, <1>6
<1>8. p + c <= q + x => p <= q + x
  BY <1>1
<1>9. p + c = q + x /\ c < e => ~(p + e <= q + x)
  BY <1>1
<1> QED BY <1>1, <1>2, <1>3, <1>5, <1>7, <1>8, <1>9

\* What the ledger of a client says of its last decision.
LEMMA LastExact ==
    ASSUME BucketsSound, DecisionsSound, NEW kind \in Kinds, NEW key \in ClientKeys, Deciding(kind, key),
           NEW i \in DOMAIN decided', About(i, kind, key)', NEW j \in DOMAIN decided', j = Len(decided) + 1
    PROVE  /\ Spent(i, kind, key)' <= Granted(i, kind)' => Served(i, j)' <= Allowance(i, j)'
           /\ Spent(i, kind, key)' = Granted(i, kind)' /\ Credit(kind, key) < Every(kind) =>
                 Served(i, j)' + 1 > Allowance(i, j)'
<1>1. PICK e \in Nat, b \in Nat : /\ e = Every(kind) /\ b = Burst(kind) /\ e > 0
                                  /\ e = Every(kind)' /\ b = Burst(kind)' /\ Full(kind)' = b * e
  BY KindFacts DEF Every, Burst, Full
<1>2. /\ Len(decided') = j /\ tick' = tick /\ tick \in Nat
      /\ decided'[j].kind = kind /\ decided'[j].key = key /\ decided'[j].at = tick
  BY Grown DEF Deciding, BucketsSound
<1>3. PICK x \in Nat : x = tick' - decided'[i].at
  <2>1. DecisionsSound'
    BY Grown
  <2>2. decided'[i] \in Decisions /\ decided'[i].at <= tick'
    BY <2>1 DEF DecisionsSound
  <2>3. decided'[i].at \in Nat
    BY <2>2 DEF Decisions
  <2> QED BY <1>2, <2>2, <2>3
<1>4. PICK s \in Nat : s = Cardinality(ServedSince(i, kind, key))'
  BY ServedCounts
<1>5. Served(i, j)' = s
  <2>1. {k \in i .. j : decided'[k].ok /\ SameClient(decided'[k], decided'[j])} = ServedSince(i, kind, key)'
    BY <1>2 DEF ServedSince, SameClient, About
  <2> QED BY <1>4, <2>1 DEF Served
<1>6. Allowance(i, j)' = b + x \div e
  BY <1>1, <1>2, <1>3 DEF Allowance
<1>7. Granted(i, kind)' = b * e + x
  BY <1>1, <1>3 DEF Granted
<1>8. PICK c \in Nat : c = Remains(kind, key) /\ (Credit(kind, key) < e => c = Credit(kind, key))
  <2>1. PICK c \in Nat : c = Credit(kind, key)
    BY CreditRange
  <2> QED BY <1>1, <2>1 DEF Remains
<1>9. Spent(i, kind, key)' = e * s + c
  BY <1>1, <1>4, <1>8 DEF Spent, Deciding
<1>10. /\ e * s + c <= b * e + x => s <= b + x \div e
       /\ e * s + c = b * e + x /\ c < e => s + 1 > b + x \div e
  BY <1>1, <1>3, <1>4, <1>8, Reckoned
<1>11. Credit(kind, key) < Every(kind) => c < e
  BY <1>1, <1>8
<1> QED BY <1>5, <1>6, <1>7, <1>9, <1>10, <1>11

\* A decision leaves those before it as they were.
LEMMA OldExact ==
    ASSUME BucketsSound, DecisionsSound, NEW kind \in Kinds, NEW key \in ClientKeys, Deciding(kind, key),
           NEW j \in DOMAIN decided, ExactAt(j)
    PROVE  ExactAt(j)'
<1>1. PICK n \in Nat :
      /\ n = Len(decided) /\ DOMAIN decided = 1 .. n
      /\ \A k \in DOMAIN decided : decided'[k] = decided[k]
  BY Grown
<1>2. \A i \in 1 .. j : i \in DOMAIN decided /\ decided'[i] = decided[i] /\ \A k \in i .. j : decided'[k] = decided[k]
  BY <1>1
<1>3. Mine(j)' = Mine(j)
  BY <1>1, <1>2 DEF Mine, SameClient
<1>4. ASSUME NEW i \in Mine(j) PROVE Served(i, j)' = Served(i, j) /\ Allowance(i, j)' = Allowance(i, j)
  <2>1. i \in 1 .. j
    BY DEF Mine
  <2>2. {k \in i .. j : decided'[k].ok /\ SameClient(decided'[k], decided'[j])} =
            {k \in i .. j : decided[k].ok /\ SameClient(decided[k], decided[j])}
    BY <1>1, <1>2, <2>1 DEF SameClient
  <2>3. Served(i, j)' = Served(i, j)
    BY <2>2 DEF Served
  <2>4. Allowance(i, j)' = Allowance(i, j)
    BY <1>1, <1>2, <2>1 DEF Allowance, Burst, Every
  <2> QED BY <2>3, <2>4
<1>5. \A i \in Mine(j) : decided'[i] = decided[i]
  BY <1>2 DEF Mine
<1>6. decided'[j] = decided[j]
  BY <1>1
<1> QED BY <1>3, <1>4, <1>5, <1>6 DEF ExactAt

\* The last decision is as the ledgers say.
LEMMA NewExact ==
    ASSUME BucketsSound, DecisionsSound, NEW kind \in Kinds, NEW key \in ClientKeys, Deciding(kind, key),
           NeverMore(kind, key)', NeverLess(kind, key)', Promised(kind, key),
           NEW j \in DOMAIN decided', j = Len(decided) + 1
    PROVE  ExactAt(j)'
<1>1. PICK n \in Nat :
      /\ n = Len(decided) /\ DOMAIN decided = 1 .. n /\ DOMAIN decided' = 1 .. (n + 1) /\ j = n + 1
      /\ \A k \in DOMAIN decided : decided'[k] = decided[k]
      /\ decided'[j].kind = kind /\ decided'[j].key = key
  BY Grown
<1>2. decided'[j].ok <=> Credit(kind, key) >= Every(kind)
  <2>1. decided'[Len(decided) + 1].ok = (Credit(kind, key) >= Every(kind))
    BY Grown
  <2> QED BY <2>1
<1>3. \A i : i \in Mine(j)' <=> i \in DOMAIN decided' /\ About(i, kind, key)'
  BY <1>1 DEF Mine, SameClient, About
<1>4. \A k \in DOMAIN decided : About(k, kind, key)' = About(k, kind, key)
  BY <1>1 DEF About
<1>5. PICK c \in Nat, e \in Nat, f \in Nat :
      /\ c = Credit(kind, key) /\ e = Every(kind) /\ f = Full(kind) /\ f >= e /\ f = Full(kind)'
  BY CreditRange, KindFacts DEF Full, Burst, Every
<1>6. \A i \in Mine(j)' : decided'[i].ok /\ decided'[j].ok => Served(i, j)' <= Allowance(i, j)'
  <2>1. SUFFICES ASSUME NEW i \in DOMAIN decided', About(i, kind, key)', decided'[i].ok
                 PROVE  Served(i, j)' <= Allowance(i, j)'
    BY <1>3
  <2>2. Spent(i, kind, key)' <= Granted(i, kind)'
    BY <2>1 DEF NeverMore
  <2> QED BY <2>1, <2>2, LastExact
<1>7. ASSUME ~decided'[j].ok PROVE \E i \in Mine(j)' : decided'[i].ok /\ Served(i, j)' + 1 > Allowance(i, j)'
  <2>1. c < e
    BY <1>2, <1>5, <1>7
  <2>2. Credit(kind, key)' # Full(kind)'
    BY <1>5, <2>1 DEF Deciding, Remains
  <2>3. PICK i \in DOMAIN decided' : decided'[i].ok /\ About(i, kind, key)' /\ Spent(i, kind, key)' = Granted(i, kind)'
    BY <2>2 DEF NeverLess
  <2>4. Served(i, j)' + 1 > Allowance(i, j)'
    BY <1>5, <2>1, <2>3, LastExact
  <2> QED BY <1>3, <2>3, <2>4
<1>8. ASSUME ~decided'[j].ok, NEW i \in Mine(j)', i # j
      PROVE  decided'[i].left = 0 \/ \E k \in Mine(j)' : k > i /\ k < j
  <2>1. ~(Credit(kind, key) >= Every(kind))
    BY <1>2, <1>8
  <2>2. i \in DOMAIN decided /\ About(i, kind, key)
    BY <1>1, <1>3, <1>4, <1>8
  <2>3. decided[i].left = 0 \/ \E k \in DOMAIN decided : k > i /\ About(k, kind, key)
    BY <2>1, <2>2 DEF Promised
  <2>4. \A k \in DOMAIN decided : k \in DOMAIN decided' /\ k < j
    BY <1>1
  <2> QED BY <1>1, <1>3, <1>4, <2>2, <2>3, <2>4
<1> QED BY <1>6, <1>7, <1>8 DEF ExactAt

\* The bucket of a principal, as its requests find it.
LEMMA APIBucketSound ==
    ASSUME BucketsSound, NEW key
    PROVE  /\ APIBucket(key) \in APIBuckets
           /\ Sound(APIBucket(key).read, "read", tick) /\ Sound(APIBucket(key).write, "write", tick)
           /\ LimiterOf("read", key) = APIBucket(key).read /\ LimiterOf("write", key) = APIBucket(key).write
<1>1. tick \in Nat
  BY DEF BucketsSound
<1>2. APIBucket(key) \in APIBuckets
  <2>1. CASE key \in DOMAIN buckets
    BY <2>1 DEF APIBucket, BucketsSound
  <2>2. CASE key \notin DOMAIN buckets
    <3>1. "read" \in Kinds /\ "write" \in Kinds
      BY DEF Kinds
    <3>2. NewLimiter("read") \in Limiters /\ NewLimiter("write") \in Limiters
      BY <1>1, <3>1, KindFacts DEF NewLimiter, Limiters
    <3> QED BY <1>1, <2>2, <3>2 DEF APIBucket, APIBuckets
  <2> QED BY <2>1, <2>2
<1>3. LimiterOf("read", key) = APIBucket(key).read /\ LimiterOf("write", key) = APIBucket(key).write
  BY DEF LimiterOf
<1>4. "read" \in Kinds /\ "write" \in Kinds
  BY DEF Kinds
<1>5. /\ APIBucket(key).read.level <= Full("read") /\ APIBucket(key).read.last <= tick
      /\ APIBucket(key).write.level <= Full("write") /\ APIBucket(key).write.last <= tick
  BY <1>3, <1>4, LimiterFacts
<1> QED BY <1>1, <1>2, <1>3, <1>5 DEF Sound

\* One limiter of a principal is replaced, the other is not.
LEMMA APIDecided ==
    ASSUME BucketsSound, NEW r \in Calls, CheckAPI(r)
    PROVE  \E kind \in Kinds : BucketsSound' /\ Deciding(kind, RateKey(r))
<1>1. PICK kind \in {"read", "write"} : kind = IF r.write THEN "write" ELSE "read"
  OBVIOUS
<1>2. PICK key : key = RateKey(r)
  OBVIOUS
<1> DEFINE res == Reserve(APIBucket(key)[kind], kind)
<1>3. /\ tick \in Nat /\ tick' = tick /\ ipBuckets' = ipBuckets
      /\ buckets' = Put(buckets, key, [APIBucket(key) EXCEPT ![kind] = res.limiter, !.seen = tick])
      /\ Decide(kind, key, res)
  BY <1>1, <1>2 DEF BucketsSound, CheckAPI
<1>4. kind \in Kinds
  BY DEF Kinds
<1>5. PICK b \in APIBuckets : /\ b = APIBucket(key)
                              /\ Sound(b.read, "read", tick) /\ Sound(b.write, "write", tick)
                              /\ LimiterOf("read", key) = b.read /\ LimiterOf("write", key) = b.write
  BY APIBucketSound
<1>6. PICK l \in Limiters : l = b[kind] /\ l = LimiterOf(kind, key) /\ l.last <= tick
  <2>1. b["read"] = b.read /\ b["write"] = b.write /\ b.read \in Limiters /\ b.write \in Limiters
    BY DEF APIBuckets
  <2> QED BY <1>5, <2>1 DEF Sound
<1>7. /\ res.limiter \in Limiters
      /\ res.limiter.level <= Full(kind)
      /\ res.limiter.last = tick
      /\ res.ok = (Level(l, kind) >= Every(kind))
      /\ res.limiter.level = IF Level(l, kind) >= Every(kind) THEN Level(l, kind) - Every(kind) ELSE Level(l, kind)
      /\ Level(res.limiter, kind) = res.limiter.level
      /\ Larger(res.limiter.level \div Every(kind), 0) = res.limiter.level \div Every(kind)
  BY <1>3, <1>4, <1>5, <1>6, Reserved
<1>8. Credit(kind, key) = Level(l, kind)
  BY <1>6 DEF Credit
<1>9. Remains(kind, key) = res.limiter.level
  BY <1>7, <1>8 DEF Remains
<1>10. decided' = Append(decided, [kind |-> kind, key |-> key, at |-> tick, ok |-> Credit(kind, key) >= Every(kind),
                                   left |-> Remains(kind, key) \div Every(kind)])
  BY <1>3, <1>7, <1>8, <1>9 DEF Decide
<1> HIDE DEF res
<1>11. PICK m \in Limiters : m = res.limiter /\ m.level <= Full(kind) /\ m.last = tick
  BY <1>7
<1>12. PICK nb \in APIBuckets :
       /\ nb = [b EXCEPT ![kind] = m, !.seen = tick]
       /\ nb.seen = tick
       /\ kind = "read" => nb.read = m /\ nb.write = b.write
       /\ kind = "write" => nb.write = m /\ nb.read = b.read
  <2>1. PICK t \in Nat : t = tick
    BY <1>3
  <2>2. PICK nb : nb = [b EXCEPT ![kind] = m, !.seen = t]
    OBVIOUS
  <2>3. /\ nb \in APIBuckets /\ nb.seen = t
        /\ kind = "read" => nb.read = m /\ nb.write = b.write
        /\ kind = "write" => nb.write = m /\ nb.read = b.read
    <3>1. CASE kind = "read"
      BY <2>1, <2>2, <3>1 DEF APIBuckets
    <3>2. CASE kind = "write"
      BY <2>1, <2>2, <3>2 DEF APIBuckets
    <3> QED BY <3>1, <3>2
  <2> QED BY <2>1, <2>2, <2>3
<1>13. /\ DOMAIN buckets' = DOMAIN buckets \cup {key}
       /\ buckets' = [k \in DOMAIN buckets' |-> IF k = key THEN nb ELSE buckets[k]]
  BY <1>3, <1>5, <1>11, <1>12 DEF Put
<1>14. buckets'[key] = nb /\ key \in DOMAIN buckets'
  BY <1>13
<1>15. Sound(nb.read, "read", tick) /\ Sound(nb.write, "write", tick)
  BY <1>3, <1>5, <1>11, <1>12 DEF Sound
<1>16. BucketsSound'
  <2>1. buckets' \in [DOMAIN buckets' -> APIBuckets]
    BY <1>13 DEF BucketsSound
  <2>2. ASSUME NEW k \in DOMAIN buckets'
        PROVE  /\ Sound(buckets[k].read, "read", buckets[k].seen)'
               /\ Sound(buckets[k].write, "write", buckets[k].seen)'
    <3>1. CASE k = key
      BY <1>3, <1>12, <1>14, <1>15, <3>1 DEF Sound, Full, Burst, Every
    <3>2. CASE k # key
      <4>1. buckets'[k] = buckets[k] /\ k \in DOMAIN buckets
        BY <1>13, <3>2
      <4>2. Sound(buckets[k].read, "read", buckets[k].seen) /\ Sound(buckets[k].write, "write", buckets[k].seen)
        BY <4>1 DEF BucketsSound
      <4> QED BY <1>3, <4>1, <4>2 DEF Sound, Full, Burst, Every
    <3> QED BY <3>1, <3>2
  <2>3. \A ip \in DOMAIN ipBuckets : Sound(ipBuckets[ip].limiter, "auth", ipBuckets[ip].seen)'
    BY <1>3 DEF BucketsSound, Sound, Full, Burst, Every
  <2>4. ipBuckets \in [DOMAIN ipBuckets -> [limiter : Limiters, seen : Nat]]
    BY DEF BucketsSound
  <2> QED BY <1>3, <2>1, <2>2, <2>3, <2>4 DEF BucketsSound
<1>17. \A kd, x : Level(x, kd)' = Level(x, kd)
  BY <1>3 DEF Level, Full, Burst, Every
<1>18. /\ LimiterOf("read", key)' = nb.read /\ LimiterOf("write", key)' = nb.write
  BY <1>14 DEF LimiterOf, APIBucket
<1>19. Credit(kind, key)' = Remains(kind, key)
  <2>1. LimiterOf(kind, key)' = m
    <3>1. CASE kind = "read"
      BY <1>12, <1>18, <3>1
    <3>2. CASE kind = "write"
      BY <1>12, <1>18, <3>2
    <3> QED BY <3>1, <3>2
  <2> QED BY <1>7, <1>9, <1>11, <1>17, <2>1 DEF Credit
<1>20. ASSUME NEW kd \in Kinds, NEW ky, kd # kind \/ ky # key PROVE Credit(kd, ky)' = Credit(kd, ky)
  <2>1. /\ NewLimiter("auth")' = NewLimiter("auth")
        /\ NewLimiter("read")' = NewLimiter("read")
        /\ NewLimiter("write")' = NewLimiter("write")
    BY <1>3 DEF NewLimiter, Full, Burst, Every
  <2>2. LimiterOf(kd, ky)' = LimiterOf(kd, ky)
    <3>1. CASE kd = "auth"
      BY <1>3, <2>1, <3>1 DEF LimiterOf, IPBucket
    <3>2. CASE kd # "auth" /\ ky = key
      <4>1. CASE kd = "read"
        <5>1. kind = "write"
          BY <1>20, <3>2, <4>1
        <5> QED BY <1>5, <1>12, <1>18, <3>2, <4>1, <5>1
      <4>2. CASE kd = "write"
        <5>1. kind = "read"
          BY <1>20, <3>2, <4>2
        <5> QED BY <1>5, <1>12, <1>18, <3>2, <4>2, <5>1
      <4> QED BY <3>2, <4>1, <4>2 DEF Kinds
    <3>3. CASE kd # "auth" /\ ky # key
      <4>1. /\ ky \in DOMAIN buckets' <=> ky \in DOMAIN buckets
            /\ ky \in DOMAIN buckets => buckets'[ky] = buckets[ky]
        BY <1>13, <3>3
      <4>2. CASE ky \in DOMAIN buckets
        BY <3>3, <4>1, <4>2 DEF LimiterOf, APIBucket
      <4>3. CASE ky \notin DOMAIN buckets
        <5>1. LimiterOf(kd, ky) = NewLimiter(kd) /\ LimiterOf(kd, ky)' = NewLimiter(kd)'
          BY <3>3, <4>1, <4>3 DEF LimiterOf, APIBucket, Kinds
        <5> QED BY <2>1, <5>1 DEF Kinds
      <4> QED BY <4>2, <4>3
    <3> QED BY <3>1, <3>2, <3>3
  <2> QED BY <1>17, <2>2 DEF Credit
<1>21. Deciding(kind, key)
  BY <1>3, <1>10, <1>19, <1>20 DEF Deciding
<1> QED BY <1>2, <1>4, <1>16, <1>21

\* Without buckets every client has the burst.
LEMMA RatesInit == InitMiddleware => RatesInvariant
<1>1. SUFFICES ASSUME InitMiddleware PROVE RatesInvariant
  OBVIOUS
<1>2. DOMAIN ipBuckets = {} /\ DOMAIN buckets = {} /\ DOMAIN decided = {} /\ tick = 0
  BY <1>1 DEF InitMiddleware
<1>3. BucketsSound
  BY <1>1, <1>2 DEF InitMiddleware, BucketsSound
<1>4. decided \in Seq(Decisions)
  BY <1>1 DEF InitMiddleware
<1>5. DecisionsSound
  BY <1>2, <1>4 DEF DecisionsSound
<1>6. ASSUME NEW kind \in Kinds, NEW key PROVE NeverMore(kind, key) /\ NeverLess(kind, key) /\ Promised(kind, key)
  <2>1. Credit(kind, key) = Full(kind)
    <3>1. LimiterOf(kind, key) = NewLimiter(kind)
      BY <1>2, <1>6 DEF LimiterOf, IPBucket, APIBucket, Kinds
    <3> QED BY <1>2, <3>1, FreshIsFull DEF Credit
  <2> QED BY <1>2, <2>1 DEF NeverMore, NeverLess, Promised
<1>7. RatesExact
  BY <1>2 DEF RatesExact
<1> QED BY <1>3, <1>5, <1>6, <1>7 DEF RatesInvariant

\* RatesExact, decision by decision.
LEMMA ExactEverywhere == RatesExact <=> \A j \in DOMAIN decided : ExactAt(j)
BY DEF RatesExact, ExactAt, Mine

\* Only what was decided matters.
LEMMA ExactStays == RatesExact /\ decided' = decided => RatesExact'
<1>1. SUFFICES ASSUME RatesExact, decided' = decided PROVE RatesExact'
  OBVIOUS
<1>2. \A i, j : Served(i, j)' = Served(i, j)
  BY <1>1 DEF Served, SameClient
<1>3. \A i, j : Allowance(i, j)' = Allowance(i, j)
  BY <1>1 DEF Allowance, Burst, Every
<1>4. \A j : Mine(j)' = Mine(j)
  BY <1>1 DEF Mine, SameClient
<1>5. ASSUME NEW j \in DOMAIN decided PROVE ExactAt(j)'
  <2>1. ExactAt(j)
    BY <1>1, ExactEverywhere
  <2> QED BY <1>1, <1>2, <1>3, <1>4, <2>1 DEF ExactAt
<1> QED BY <1>1, <1>5 DEF RatesExact, ExactAt, Mine

\* A decision keeps the ledgers of all clients.
LEMMA DecidedKeeps ==
    ASSUME RatesInvariant, BucketsSound', NEW kind \in Kinds, NEW key \in ClientKeys, Deciding(kind, key)
    PROVE  RatesInvariant'
<1>1. BucketsSound /\ DecisionsSound /\ RatesExact
  BY DEF RatesInvariant
<1>2. DecisionsSound'
  BY <1>1, Grown
<1>3. ASSUME NEW kd \in Kinds, NEW ky
      PROVE  NeverMore(kd, ky)' /\ NeverLess(kd, ky)' /\ Promised(kd, ky)'
  <2>1. NeverMore(kd, ky) /\ NeverLess(kd, ky) /\ Promised(kd, ky)
    BY DEF RatesInvariant
  <2>2. CASE kd = kind /\ ky = key
    BY <1>1, <2>1, <2>2, ClientKeeps
  <2>3. CASE kd # kind \/ ky # key
    BY <1>1, <2>1, <2>3, OthersKeep
  <2> QED BY <2>2, <2>3
<1>4. ASSUME NEW j \in DOMAIN decided' PROVE ExactAt(j)'
  <2>1. j \in DOMAIN decided \/ j = Len(decided) + 1
    BY <1>1, Grown
  <2>2. CASE j \in DOMAIN decided
    BY <1>1, <2>2, ExactEverywhere, OldExact
  <2>3. CASE j = Len(decided) + 1
    <3>1. NeverMore(kind, key)' /\ NeverLess(kind, key)' /\ Promised(kind, key)
      BY <1>3 DEF RatesInvariant
    <3> QED BY <1>1, <2>3, <3>1, NewExact
  <2> QED BY <2>1, <2>2, <2>3
<1>5. RatesExact'
  BY <1>4 DEF RatesExact, ExactAt, Mine
<1>6. \A kd \in Kinds : \A ky : (NeverMore(kd, ky) /\ NeverLess(kd, ky) /\ Promised(kd, ky))'
  BY <1>3
<1> QED BY <1>2, <1>5, <1>6 DEF RatesInvariant

\* A step that decides nothing and after which every client has what it had.
LEMMA RestedKeeps ==
    ASSUME RatesInvariant, BucketsSound', tick' = tick, decided' = decided,
           \A kind \in Kinds : \A key : Credit(kind, key)' = Credit(kind, key)
    PROVE  RatesInvariant'
<1>1. DecisionsSound' /\ RatesExact'
  BY ExactStays DEF RatesInvariant, DecisionsSound, Decisions
<1>2. ASSUME NEW kind \in Kinds, NEW key
      PROVE  NeverMore(kind, key)' /\ NeverLess(kind, key)' /\ Promised(kind, key)'
  BY RestKeeps DEF RatesInvariant
<1> QED BY <1>1, <1>2 DEF RatesInvariant

\* Every request, every sweep and every tick keep the ledgers.
LEMMA RatesStep == RatesInvariant /\ [MiddlewareNext]_mwvars => RatesInvariant'
<1>1. SUFFICES ASSUME RatesInvariant, [MiddlewareNext]_mwvars PROVE RatesInvariant'
  OBVIOUS
<1>2. BucketsSound /\ DecisionsSound /\ RatesExact
  BY <1>1 DEF RatesInvariant
<1>3. ASSUME NEW r \in Calls, CheckIP(r) PROVE RatesInvariant'
  <2>1. ClientIP(r) \in ClientKeys /\ "auth" \in Kinds
    BY DEF ClientKeys, Kinds
  <2> QED BY <1>1, <1>2, <1>3, <2>1, IPDecided, DecidedKeeps
<1>4. ASSUME NEW r \in Calls, CheckAPI(r) PROVE RatesInvariant'
  <2>1. RateKey(r) \in ClientKeys
    BY DEF ClientKeys
  <2>2. PICK kind \in Kinds : BucketsSound' /\ Deciding(kind, RateKey(r))
    BY <1>2, <1>4, APIDecided
  <2> QED BY <1>1, <2>1, <2>2, DecidedKeeps
<1>5. CASE SweepIPs
  BY <1>1, <1>2, <1>5, SweptIPs, RestedKeeps DEF SweepIPs
<1>6. CASE SweepKeys
  BY <1>1, <1>2, <1>6, SweptKeys, RestedKeeps DEF SweepKeys
<1>7. CASE TimeGoesOn
  <2>1. tick \in Nat /\ tick' = tick + 1 /\ decided' = decided
    BY <1>2, <1>7 DEF TimeGoesOn, BucketsSound
  <2>2. BucketsSound' /\ \A kind \in Kinds : \A key : Credit(kind, key)' = Smaller(Full(kind), Credit(kind, key) + 1)
    BY <1>2, <1>7, TickStep
  <2>3. RatesExact'
    BY <1>2, <2>1, ExactStays
  <2>4. DecisionsSound'
    <3>1. \A i \in DOMAIN decided : decided[i].at <= tick /\ decided[i] \in Decisions
      BY <1>2 DEF DecisionsSound
    <3>2. \A i \in DOMAIN decided : decided[i].at \in Nat
      BY <3>1 DEF Decisions
    <3>3. \A i \in DOMAIN decided : decided[i].at <= tick + 1
      BY <2>1, <3>1, <3>2
    <3> QED BY <1>2, <2>1, <3>3 DEF DecisionsSound, Decisions
  <2>5. ASSUME NEW kind \in Kinds, NEW key
        PROVE  NeverMore(kind, key)' /\ NeverLess(kind, key)' /\ Promised(kind, key)'
    <3>1. NeverMore(kind, key) /\ NeverLess(kind, key) /\ Promised(kind, key)
      BY <1>1 DEF RatesInvariant
    <3> QED BY <1>2, <2>1, <2>2, <3>1, TimeKeeps
  <2> QED BY <2>2, <2>3, <2>4, <2>5 DEF RatesInvariant
<1>8. CASE UNCHANGED mwvars
  <2>1. tick' = tick /\ ipBuckets' = ipBuckets /\ buckets' = buckets /\ decided' = decided
    BY <1>8 DEF mwvars
  <2>2. BucketsSound'
    BY <1>2, <2>1 DEF BucketsSound, Sound, Full, Burst, Every
  <2>3. ASSUME NEW kind \in Kinds, NEW key PROVE Credit(kind, key)' = Credit(kind, key)
    BY <2>1 DEF Credit, Level, LimiterOf, IPBucket, APIBucket, NewLimiter, Full, Burst, Every
  <2> QED BY <1>1, <2>1, <2>2, <2>3, RestedKeeps
<1> QED BY <1>1, <1>3, <1>4, <1>5, <1>6, <1>7, <1>8 DEF MiddlewareNext

\* No client gets more than the burst and what was refilled, none is refused
\* while it has a token, and the remaining calls it is told of are there: in
\* any number of buckets, whatever the janitors drop (ratelimit_auth.go,
\* ratelimit_api.go).
THEOREM Rates == MiddlewareSpec => []RatesExact
<1>1. InitMiddleware => RatesInvariant
  BY RatesInit
<1>2. RatesInvariant /\ [MiddlewareNext]_mwvars => RatesInvariant'
  BY RatesStep
<1>3. RatesInvariant => RatesExact
  BY DEF RatesInvariant
<1> QED BY <1>1, <1>2, <1>3, PTL DEF MiddlewareSpec
=============================================================================
