---------------------------- MODULE MCGovernance ----------------------------
(* The audit log and the other stores share no state: a behaviour is of    *)
(* one or of the other.  Tenant 1 has a pipeline, a rule and a deleted     *)
(* check; tenant 2, for which nobody makes requests, has a row in every    *)
(* table.                                                                  *)
EXTENDS Governance, AuditLog, TLC

CONSTANTS r1, r2, p1, p2

MCPeople ==
    {[id |-> 1, tenant |-> 1, roles |-> {"super_admin"}, groups |-> {}],
     [id |-> 2, tenant |-> 1, roles |-> {"steward"}, groups |-> {}]}

\* One rule lets stewards delete, one forbids purging to everybody.
MCBodies ==
    <<[effect |-> "allow", verbs |-> {"delete"}, conds |-> {[type |-> "principal.role", value |-> "steward"]}],
      [effect |-> "deny", verbs |-> {"purge"}, conds |-> {}]>>

MCScopes == {[types |-> {"pipeline"}, ids |-> {}, tags |-> {}], [types |-> {}, ids |-> {3}, tags |-> {}]}

Row(kind, t, id) == [kind |-> kind, tenant |-> t, id |-> id, body |-> IF kind = "policy" THEN 1 ELSE 0]

MCSeed ==
    [rows  |-> <<Row("pipeline", 1, 1), Row("policy", 1, 2), Row("pipeline", 2, 4)>>,
     tombs |-> <<[id |-> 1, row |-> Row("check", 1, 3), restored |-> FALSE, purged |-> FALSE],
                 [id |-> 2, row |-> Row("check", 2, 5), restored |-> FALSE, purged |-> FALSE]>>,
     holds |-> <<[id |-> 1, tenant |-> 2, types |-> {}, ids |-> {}, tags |-> {}, released |-> FALSE]>>,
     dsrs  |-> <<[id |-> 1, tenant |-> 2, status |-> "received", completed |-> 0]>>,
     certs |-> <<[id |-> 1, tenant |-> 2, asset |-> 1, status |-> "proposed"]>>]

RequestSymmetry == Permutations(Requests) \cup Permutations(Procs)

\* The requests of a behaviour are all of one kind.
MCInit == Init /\ AuditInit /\ backend = writer
MCNext ==
    \/ clock = 0 /\ Next /\ UNCHANGED avars
    \/ started = 0 /\ AuditNext /\ UNCHANGED vars
MCSpec == MCInit /\ [][MCNext]_<<vars, avars>>
=============================================================================
