---------------------------- MODULE IdentityData ----------------------------
(***************************************************************************)
(* The rows both identity repositories hold (internal/core/identity).  A   *)
(* database is a record of tables; a table is the sequence of its rows,    *)
(* a row's position being its id, and rows are never removed, except       *)
(* memberships.                                                            *)
(* Dates are reduced to what is asked of them: set or not, over or not.    *)
(* age counts the windows that have passed since the first failed login    *)
(* of the current count.  Names and phone numbers are left out.            *)
(***************************************************************************)
EXTENDS Integers, Sequences

\* What a method returns: an error, or "ok", and the database it leaves.
Ok(db) == [err |-> "ok", db |-> db]
Fails(e, db) == [err |-> e, db |-> db]

Has(table, id) == id \in DOMAIN table

\* Session.Active and Invite.IsPending.
Active(sess) == ~sess.revoked /\ ~sess.expired
IsPending(inv) == ~inv.accepted /\ ~inv.revoked /\ ~inv.expired

\* The roles that mean something (policy.roleAllows).  The handlers give none
\* of the others, and platform_admin not either.
Roles == {"viewer", "editor", "steward", "admin", "super_admin", "platform_admin"}

\* The rows, by their columns.
Users ==
    [email : Int, pw : Nat, status : {"active", "locked", "deleted"}, verified : BOOLEAN, tour : BOOLEAN,
     fails : Nat, age : Nat]
Members == [tenant : Nat, user : Nat, roles : SUBSET Roles]
Sessions == [user : Nat, tenant : Nat, revoked : BOOLEAN, expired : BOOLEAN]
Verifications == [user : Nat, purpose : {"verify_email", "password_reset"}, used : BOOLEAN, expired : BOOLEAN]
Invites ==
    [tenant : Nat, email : Nat \ {0}, roles : SUBSET Roles, accepted : BOOLEAN, revoked : BOOLEAN, expired : BOOLEAN]

Database ==
    [tenants : Seq(STRING), users : Seq(Users), members : Seq(Members), sessions : Seq(Sessions),
     verifs : Seq(Verifications), invites : Seq(Invites)]

\* The foreign keys.
Linked(db) ==
    /\ \A m \in DOMAIN db.members : db.members[m].tenant \in DOMAIN db.tenants /\ db.members[m].user \in DOMAIN db.users
    /\ \A s \in DOMAIN db.sessions : db.sessions[s].tenant \in DOMAIN db.tenants /\ db.sessions[s].user \in DOMAIN db.users
    /\ \A v \in DOMAIN db.verifs : db.verifs[v].user \in DOMAIN db.users
    /\ \A i \in DOMAIN db.invites : db.invites[i].tenant \in DOMAIN db.tenants

NoPassword == 0
\* "deleted-<id>@deleted.invalid", where addresses are positive numbers.
StubEmail(u) == -u
=============================================================================
