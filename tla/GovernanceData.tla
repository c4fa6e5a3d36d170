--------------------------- MODULE GovernanceData ---------------------------
(***************************************************************************)
(* The rows of the governance stores: what can be deleted (pipelines,      *)
(* checks and policy rules), the recycle bin, legal holds, data subject    *)
(* requests and certifications.                                            *)
(*   rows   [kind, tenant, id, body]    live pipelines, checks and rules   *)
(*   tombs  [id, row, restored, purged] tombstones and the row each holds  *)
(*   holds  [id, tenant, types, ids, tags, released]                       *)
(*   dsrs   [id, tenant, status, completed]                                *)
(*   certs  [id, tenant, asset, status]                                    *)
(* body tells rules apart (0 for the rest); completed is a time, 0 none.   *)
(***************************************************************************)
EXTENDS Tables, Policy

Kinds == {"pipeline", "check", "policy"}
DSRStatuses == {"received", "processing", "completed", "rejected"}
CertStatuses == {"proposed", "certified", "rejected", "revoked"}

Tenants == Nat \ {Blank}
LiveRows == [kind : Kinds, tenant : Tenants, id : Nat, body : Nat]
Tombstones == [id : Nat, row : LiveRows, restored : BOOLEAN, purged : BOOLEAN]
HoldRows == [id : Nat, tenant : Tenants, types : SUBSET STRING, ids : SUBSET Nat, tags : SUBSET STRING, released : BOOLEAN]
DSRRows == [id : Nat, tenant : Tenants, status : DSRStatuses, completed : Nat]
CertRows == [id : Nat, tenant : Tenants, asset : Nat, status : CertStatuses]

Databases ==
    [rows : Seq(LiveRows), tombs : Seq(Tombstones), holds : Seq(HoldRows), dsrs : Seq(DSRRows), certs : Seq(CertRows)]

\* The rows that are there, or in a tombstone.
Recorded(db) == {db.rows[i] : i \in DOMAIN db.rows} \cup {db.tombs[i].row : i \in DOMAIN db.tombs}

\* Record.IsActive: still in the recycle bin.
IsActive(tomb) == ~tomb.restored /\ ~tomb.purged

\* Hold.Matches: a clause that is empty is ignored.
Matches(hold, type, id, tags) ==
    /\ ~hold.released
    /\ hold.types = {} \/ type \in hold.types
    /\ hold.ids = {} \/ id \in hold.ids
    /\ hold.tags = {} \/ hold.tags \cap tags # {}

=============================================================================
