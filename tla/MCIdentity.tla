----------------------------- MODULE MCIdentity -----------------------------
(* A workspace with its founder, signed up, verified and signed in, and one *)
(* reset token on its way; or requests before the rate limiters.            *)
EXTENDS Identity, Middleware, TLC

CONSTANTS r1, r2

VARIABLE area

MCSeed ==
    [tenants  |-> <<"acme">>,
     users    |-> <<[email |-> 1, pw |-> 1, status |-> "active", verified |-> TRUE, tour |-> FALSE, fails |-> 0, age |-> 0]>>,
     members  |-> <<[tenant |-> 1, user |-> 1, roles |-> {"super_admin", "admin"}]>>,
     sessions |-> <<[user |-> 1, tenant |-> 1, revoked |-> FALSE, expired |-> FALSE]>>,
     verifs   |-> <<[user |-> 1, purpose |-> "password_reset", used |-> FALSE, expired |-> FALSE]>>,
     invites  |-> <<>>]

\* The third password is too short, the fourth has digits only.
MCShape ==
    LET Classes == {"lower", "upper", "digit", "special"}
    IN  <<[length |-> 8, classes |-> Classes], [length |-> 256, classes |-> Classes \ {"upper"}],
          [length |-> 7, classes |-> Classes], [length |-> 12, classes |-> {"digit"}]>>

Call(path, write, p, ip) ==
    [path |-> path, write |-> write, body |-> IF write THEN "small" ELSE "none", json |-> TRUE, gateway |-> "key",
     forwarded |-> 0, real |-> 0, remote |-> ip, session |-> p, bearer |-> NoOne]
User(id, t) == [id |-> id, tenant |-> t]
MCCalls ==
    {[Call("login", TRUE, NoOne, 2) EXCEPT !.forwarded = 1], Call("login", TRUE, NoOne, 1), Call("login", TRUE, NoOne, 2),
     Call("assets", FALSE, User(1, 1), 1), [Call("assets", TRUE, NoOne, 2) EXCEPT !.bearer = User(1, 1)],
     Call("assets", FALSE, User(3, 0), 1), Call("assets", FALSE, NoOne, 1),
     [Call("assets", TRUE, User(3, 1), 1) EXCEPT !.json = FALSE], [Call("login", TRUE, NoOne, 3) EXCEPT !.gateway = ""],
     [Call("verify", FALSE, NoOne, 1) EXCEPT !.gateway = ""]}

MCInit ==
    /\ area \in {"accounts", "limits"}
    /\ Init /\ (area = "limits" => backend = "postgres")
    /\ InitMiddleware

\* bound: one request less where a statement fails
FewerWithFailure == faults' = 0 \/ started' < MaxRequests

MCNext ==
    /\ UNCHANGED area
    /\ \/ area = "accounts" /\ Next /\ FewerWithFailure /\ UNCHANGED mwvars
       \/ area = "limits" /\ MiddlewareNext /\ UNCHANGED vars

MCSpec == MCInit /\ [][MCNext]_<<area, vars, mwvars>>

RequestSymmetry == Permutations(Requests)
=============================================================================
