------------------------------- MODULE Tables -------------------------------
(***************************************************************************)
(* Databases as records of tables, for the stores of internal/storage/     *)
(* postgres and their in-memory counterparts.  A table is the sequence of  *)
(* its rows.  A method of a store answers [err, db]: an error, or "ok",    *)
(* and the database it leaves.                                             *)
(***************************************************************************)
EXTENDS Integers, Sequences, FiniteSets

Ok(db) == [err |-> "ok", db |-> db]
Fails(e, db) == [err |-> e, db |-> db]

\* SELECT ... WHERE: the positions, and the rows, that P picks.
Where(table, P(_)) == {i \in DOMAIN table : P(table[i])}
Rows(table, P(_)) == {table[i] : i \in Where(table, P)}

\* UPDATE ... WHERE: every row that P picks becomes New(row).
Set(table, P(_), New(_)) == [i \in DOMAIN table |-> IF P(table[i]) THEN New(table[i]) ELSE table[i]]

\* DELETE ... WHERE: the rows that stay, in their order.
Without(table, P(_)) ==
    LET kept == Where(table, LAMBDA row : ~P(row))
        Rank(i) == Cardinality({j \in kept : j <= i})
    IN  [n \in 1 .. Cardinality(kept) |-> table[CHOOSE i \in kept : Rank(i) = n]]

\* tag.RowsAffected() = 0 is the error "not_found".
Affected(old, table, P(_), db) == IF Where(table, P) = {} THEN Fails("not_found", old) ELSE Ok(db)

\* The last, or only, row that P picks, as a set.
Last(table, P(_)) == {table[i] : i \in {i \in Where(table, P) : \A j \in Where(table, P) : j <= i}}

\* LIMIT: the newest limit rows that P picks.
Newest(table, P(_), limit) ==
    {table[i] : i \in {i \in Where(table, P) : Cardinality({j \in Where(table, P) : j > i}) < limit}}

\* What a caller may ask for as the limit.
Limit(n, max, default) == IF n <= 0 \/ n > max THEN default ELSE n

\* ORDER BY: the rows by a total order.
Sorted(rows, Less(_, _)) ==
    [i \in 1 .. Cardinality(rows) |-> CHOOSE x \in rows : Cardinality({y \in rows : Less(y, x)}) = i - 1]

\* Rows are numbered in the order in which they are made.
NextID(table) == 1 + Cardinality({table[i].id : i \in DOMAIN table})
=============================================================================
