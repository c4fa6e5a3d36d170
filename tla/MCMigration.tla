---------------------------- MODULE MCMigration -----------------------------
(* Tenant 1 with an incremental plan, tenant 2 with a snapshot for which   *)
(* nobody makes requests, and a table that grows to three rows.            *)
EXTENDS Migration, TLC

CONSTANTS r1, r2

MCPeople == {[id |-> 1, tenant |-> 1, roles |-> {"admin"}, groups |-> {}]}

\* A column of the integers 9, 10 and 11, one with ties, and one of text.
Column(values, texts) == [k \in 1..3 |-> [value |-> values[k], text |-> texts[k]]]
Config(deployment, bucket, column) == [deployment |-> deployment, bucket |-> bucket, column |-> column]
MCConfigs ==
    {Config("sync", "durable", Column(<<9, 10, 11>>, <<3, 1, 2>>)),
     Config("sync", "memory", Column(<<1, 2, 2>>, <<1, 2, 2>>)),
     Config("asynq", "durable", Column(<<1, 2, 3>>, <<1, 2, 3>>))}

MCConns == {[id |-> 1, tenant |-> 1, sql |-> TRUE], [id |-> 2, tenant |-> 2, sql |-> TRUE], [id |-> 3, tenant |-> 1, sql |-> FALSE]}

Form(mode, write, dst) == [mode |-> mode, write |-> write, cols |-> TRUE, src |-> 1, dst |-> dst]
MCForms == {Form("", "", 1), Form("cdc", "append", 1), Form("snapshot", "append", 2)}

MCSeed ==
    [plans |-> <<[id |-> 1, tenant |-> 1, cursor |-> TRUE] @@ Form("incremental", "append", 1),
                 [id |-> 2, tenant |-> 2, cursor |-> FALSE] @@ Form("snapshot", "truncate_and_replace", 2)>>,
     runs |-> <<>>]
=============================================================================
