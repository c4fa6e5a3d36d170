--------------------------- MODULE Monitors_proofs ---------------------------
(***************************************************************************)
(* The services that watch and move a tenant's data: budget alerts, the    *)
(* slots of quality checks and breaches of contracts, for any number of    *)
(* tenants, watchers, jobs, workers and evaluations and any tables at the  *)
(* start, and migrations, for any plans, column, batch size and number of  *)
(* executions.                                                             *)
(***************************************************************************)
EXTENDS CostWatcher, Quality, Contracts, Migration,
        FiniteSetTheorems, SequenceTheorems, WellFoundedInduction, TLAPS

-----------------------------------------------------------------------------
(* Tables and sequences. *)

IsSeq(s) == s \in Seq({s[i] : i \in DOMAIN s})

IsRecord(x) == x = [k \in DOMAIN x |-> x[k]]

\* What Append does to a sequence of any elements.
LEMMA AppendIsSeq ==
    ASSUME NEW s, NEW x, IsSeq(s)
    PROVE  LET n == Len(s) IN
           /\ n \in Nat /\ DOMAIN s = 1 .. n
           /\ IsSeq(Append(s, x))
           /\ DOMAIN Append(s, x) = 1 .. (n + 1)
           /\ Len(Append(s, x)) = n + 1
           /\ Append(s, x)[n + 1] = x
           /\ \A i \in 1 .. n : Append(s, x)[i] = s[i]
<1> DEFINE n == Len(s)
           S == {s[i] : i \in DOMAIN s}
<1>1. s \in Seq(S)
  BY DEF IsSeq
<1>2. /\ n \in Nat /\ DOMAIN s = 1 .. n
      /\ DOMAIN Append(s, x) = 1 .. (n + 1)
      /\ Len(Append(s, x)) = n + 1
      /\ Append(s, x)[n + 1] = x
      /\ \A i \in 1 .. n : Append(s, x)[i] = s[i]
  BY <1>1
<1>3. Append(s, x) \in Seq(S \cup {x})
  BY <1>1
<1>4. ASSUME NEW f, NEW T, f \in [1 .. (n + 1) -> T] PROVE f \in [1 .. (n + 1) -> {f[i] : i \in DOMAIN f}]
  BY <1>4
<1>5. ASSUME NEW T, NEW f \in Seq(T), Len(f) = n + 1 PROVE f \in [1 .. (n + 1) -> T]
  BY <1>5
<1>6. Append(s, x) \in [1 .. (n + 1) -> {Append(s, x)[i] : i \in DOMAIN Append(s, x)}]
  BY <1>2, <1>3, <1>4, <1>5
<1>. QED
  BY <1>2, <1>6, IsASeq DEF IsSeq

\* A function over the positions of a sequence is a sequence.
LEMMA FunctionIsSeq ==
    ASSUME NEW s, NEW f, IsSeq(s), DOMAIN f = DOMAIN s, IsRecord(f)
    PROVE  IsSeq(f) /\ Len(f) = Len(s)
<1> DEFINE S == {f[i] : i \in DOMAIN f}
<1>1. Len(s) \in Nat /\ DOMAIN s = 1 .. Len(s)
  BY DEF IsSeq
<1>2. f \in [1 .. Len(s) -> S]
  BY <1>1 DEF IsRecord
<1>3. f \in Seq(S)
  BY <1>1, <1>2, IsASeq
<1>. QED
  BY <1>1, <1>2, <1>3 DEF IsSeq

\* The rank of i among the positions that are kept.
RankAmong(kept, i) == Cardinality({j \in kept : j <= i})

\* The positions that are kept are ranked from one to their number.
LEMMA RanksCount ==
    ASSUME NEW n \in Nat, NEW kept \in SUBSET (1..n)
    PROVE  /\ IsFiniteSet(kept) /\ Cardinality(kept) \in Nat
           /\ \A i, j \in kept : RankAmong(kept, i) = RankAmong(kept, j) => i = j
           /\ \A k \in 1..Cardinality(kept) : \E i \in kept : RankAmong(kept, i) = k
<1> DEFINE Upto(i) == {j \in kept : j <= i}
           c == Cardinality(kept)
<1>1. IsFiniteSet(kept) /\ c \in Nat
  <2>1. IsFiniteSet(1..n)
    BY FS_Interval
  <2>. QED
    BY <2>1, FS_Subset, FS_CardinalityType
<1>2. \A i : IsFiniteSet(Upto(i)) /\ Cardinality(Upto(i)) \in Nat /\ Cardinality(Upto(i)) <= c
  BY <1>1, FS_Subset, FS_CardinalityType
<1>3. ASSUME NEW i \in kept, NEW j \in kept, i < j PROVE Cardinality(Upto(i)) < Cardinality(Upto(j))
  <2>1. i \in Nat /\ j \in Nat /\ \A k \in kept : k \in Nat
    OBVIOUS
  <2>2. \A k \in kept : k <= i => k <= j
    BY <1>3, <2>1
  <2>3. j <= j /\ ~(j <= i)
    BY <1>3, <2>1
  <2>4. Upto(i) \in SUBSET Upto(j)
    BY <2>2
  <2>5. j \in Upto(j) /\ j \notin Upto(i)
    BY <2>3
  <2> HIDE DEF Upto
  <2>6. Cardinality(Upto(i)) <= Cardinality(Upto(j)) /\ Cardinality(Upto(j)) # Cardinality(Upto(i))
    BY <1>2, <2>4, <2>5, FS_Subset
  <2>. QED
    BY <1>2, <2>6
<1>4. ASSUME NEW i \in kept PROVE Cardinality(Upto(i)) \in 1..c
  <2>1. i \in Upto(i)
    OBVIOUS
  <2>2. Cardinality(Upto(i)) # 0
    BY <1>2, <2>1, FS_EmptySet
  <2>. QED
    BY <1>1, <1>2, <2>2
<1>5. \A i, j \in kept : Cardinality(Upto(i)) = Cardinality(Upto(j)) => i = j
  BY <1>2, <1>3
<1>6. ASSUME NEW k \in 1..c, \A i \in kept : Cardinality(Upto(i)) # k PROVE FALSE
  <2> DEFINE rest == (1..c) \ {k}
             f == [i \in kept |-> Cardinality(Upto(i))]
  <2>1. IsFiniteSet(1..c) /\ Cardinality(1..c) = c
    BY <1>1, FS_Interval
  <2>2. IsFiniteSet(rest) /\ Cardinality(rest) = c - 1
    BY <2>1, FS_RemoveElement
  <2>3. f \in [kept -> rest]
    BY <1>4, <1>6
  <2>4. Cardinality(rest) < Cardinality(kept)
    BY <1>1, <2>2
  <2> HIDE DEF rest, f
  <2>5. \E x, y \in kept : x # y /\ f[x] = f[y]
    BY <1>1, <2>2, <2>3, <2>4, FS_PigeonHole
  <2>. QED
    BY <1>5, <2>5 DEF f
<1>. QED
  BY <1>1, <1>5, <1>6 DEF RankAmong

\* rest has the kept rows of the table, in their order.
Thinned(table, kept, rest) ==
    /\ \A i \in kept : \E n \in DOMAIN rest : rest[n] = table[i]
    /\ \A n \in DOMAIN rest : \E i \in kept : rest[n] = table[i]
    /\ \A n, m \in DOMAIN rest : n < m => \E i, j \in kept : i < j /\ rest[n] = table[i] /\ rest[m] = table[j]

\* rest is the kept rows of the table, each at its rank.
Ranked(table, kept, rest) ==
    /\ DOMAIN rest = 1..Cardinality(kept) /\ IsRecord(rest)
    /\ \A n \in DOMAIN rest : \E i \in kept : RankAmong(kept, i) = n /\ rest[n] = table[i]

\* DELETE leaves the rows that are kept, in their order.
LEMMA RowsStay ==
    ASSUME NEW table, IsSeq(table), NEW kept, kept \subseteq DOMAIN table, NEW rest, Ranked(table, kept, rest)
    PROVE  IsSeq(rest) /\ Thinned(table, kept, rest)
<1>1. /\ Len(table) \in Nat /\ DOMAIN table = 1..Len(table)
      /\ kept \in SUBSET (1..Len(table))
  BY DEF IsSeq
<1>0. /\ DOMAIN rest = 1..Cardinality(kept) /\ IsRecord(rest)
      /\ \A n \in DOMAIN rest : \E i \in kept : RankAmong(kept, i) = n /\ rest[n] = table[i]
  BY DEF Ranked
<1>2. /\ IsFiniteSet(kept) /\ Cardinality(kept) \in Nat
      /\ \A i, j \in kept : RankAmong(kept, i) = RankAmong(kept, j) => i = j
      /\ \A k \in 1..Cardinality(kept) : \E i \in kept : RankAmong(kept, i) = k
  BY <1>1, RanksCount
<1>3. \A i \in kept : i \in Nat
  BY <1>1
<1>4. ASSUME NEW i \in kept, NEW j \in kept, i <= j
      PROVE  RankAmong(kept, i) \in Nat /\ RankAmong(kept, j) \in Nat /\ RankAmong(kept, i) <= RankAmong(kept, j)
  <2> DEFINE A == {k \in kept : k <= i}
             B == {k \in kept : k <= j}
  <2>1. A \subseteq B /\ B \subseteq kept
    BY <1>3, <1>4
  <2> HIDE DEF A, B
  <2>2. IsFiniteSet(B) /\ IsFiniteSet(A)
    BY <1>2, <2>1, FS_Subset
  <2>3. Cardinality(A) \in Nat /\ Cardinality(B) \in Nat /\ Cardinality(A) <= Cardinality(B)
    BY <2>1, <2>2, FS_Subset, FS_CardinalityType
  <2>. QED
    BY <2>3 DEF A, B, RankAmong
<1>5. ASSUME NEW i \in kept PROVE \E n \in DOMAIN rest : rest[n] = table[i]
  <2> DEFINE Upto == {j \in kept : j <= i}
  <2>1. Upto \subseteq kept /\ i \in Upto
    BY <1>3
  <2>2. IsFiniteSet(Upto) /\ Cardinality(Upto) \in Nat /\ Cardinality(Upto) <= Cardinality(kept) /\ Cardinality(Upto) # 0
    BY <1>2, <2>1, FS_Subset, FS_CardinalityType, FS_EmptySet
  <2>3. RankAmong(kept, i) \in 1..Cardinality(kept)
    BY <1>2, <2>2 DEF RankAmong
  <2>4. PICK n \in DOMAIN rest : n = RankAmong(kept, i)
    BY <1>0, <2>3
  <2>5. PICK j \in kept : RankAmong(kept, j) = n /\ rest[n] = table[j]
    BY <1>0
  <2>. QED
    BY <1>2, <2>4, <2>5
<1>6. ASSUME NEW n \in DOMAIN rest, NEW m \in DOMAIN rest, n < m
      PROVE  \E i, j \in kept : i < j /\ rest[n] = table[i] /\ rest[m] = table[j]
  <2>1. PICK i \in kept : RankAmong(kept, i) = n /\ rest[n] = table[i]
    BY <1>0
  <2>2. PICK j \in kept : RankAmong(kept, j) = m /\ rest[m] = table[j]
    BY <1>0
  <2>3. n \in Nat /\ m \in Nat /\ i \in Nat /\ j \in Nat
    BY <1>0, <1>2, <1>3
  <2>4. ~(j <= i)
    BY <1>4, <1>6, <2>1, <2>2, <2>3
  <2>. QED
    BY <2>1, <2>2, <2>3, <2>4
<1>7. IsSeq(rest)
  <2> DEFINE T == {rest[i] : i \in DOMAIN rest}
  <2>1. PICK k \in Nat : k = Cardinality(kept)
    BY <1>2
  <2>2. rest \in [1..k -> T]
    BY <1>0, <2>1 DEF IsRecord
  <2>3. ASSUME NEW U, NEW f \in [1..k -> U] PROVE f \in Seq(U)
    OBVIOUS
  <2>. QED
    BY <2>2, <2>3 DEF IsSeq
<1>. QED
  BY <1>0, <1>5, <1>6, <1>7 DEF Thinned

Chosen(kept, n) == CHOOSE i \in kept : Cardinality({j \in kept : j <= i}) = n

KeptOf(table, kept) == [n \in 1..Cardinality(kept) |-> table[Chosen(kept, n)]]

\* ... whatever is deleted.
LEMMA DeleteThins ==
    ASSUME NEW table, IsSeq(table), NEW kept \in SUBSET (DOMAIN table), NEW rest, rest = KeptOf(table, kept)
    PROVE  IsSeq(rest) /\ Thinned(table, kept, rest)
<1>2. Len(table) \in Nat /\ DOMAIN table = 1..Len(table)
  BY DEF IsSeq
<1>3. \A k \in 1..Cardinality(kept) : \E i \in kept : RankAmong(kept, i) = k
  BY <1>2, RanksCount
<1>4. DOMAIN rest = 1..Cardinality(kept) /\ IsRecord(rest) /\ \A n \in DOMAIN rest : rest[n] = table[Chosen(kept, n)]
  BY Zenon DEF IsRecord, KeptOf
<1>5. ASSUME NEW n \in DOMAIN rest PROVE \E i \in kept : RankAmong(kept, i) = n /\ rest[n] = table[i]
  <2>1. n \in 1..Cardinality(kept)
    BY <1>4
  <2>2. \E i \in kept : Cardinality({j \in kept : j <= i}) = n
    BY <1>3, <2>1, Zenon DEF RankAmong
  <2>3. Chosen(kept, n) \in kept /\ Cardinality({j \in kept : j <= Chosen(kept, n)}) = n
    BY <2>2, Zenon DEF Chosen
  <2>. QED
    BY <1>4, <2>3, Zenon DEF RankAmong
<1>6. Ranked(table, kept, rest)
  BY <1>4, <1>5, Zenon DEF Ranked
<1>. QED
  BY <1>6, RowsStay

-----------------------------------------------------------------------------
(* The watcher.  The budget remembers the alerts that are marked: its date *)
(* is theirs or a later one, and a watcher that fires has compared with    *)
(* that date (Remembered, Watching).                                       *)

BudgetRow(b) ==
    /\ IsRecord(b)
    /\ {"tenant", "monthly", "warn", "hard", "warned", "harded"} \subseteq DOMAIN b
    /\ b.warned \in Int /\ b.harded \in Int

CostTables(d) ==
    /\ IsRecord(d)
    /\ {"budgets", "costs"} \subseteq DOMAIN d
    /\ IsSeq(d.budgets)
    /\ \A i \in DOMAIN d.budgets : BudgetRow(d.budgets[i])

HasBudget(d, t) == \E i \in DOMAIN d.budgets : d.budgets[i].tenant = t

\* Alerts are of tenants that have a budget.
Alerting ==
    /\ IsSeq(alerts)
    /\ \A i \in DOMAIN alerts :
          /\ alerts[i].level \in {"warn", "hard"} /\ alerts[i].at \in Nat
          /\ HasBudget(db, alerts[i].tenant)

Remembered ==
    /\ marked \subseteq DOMAIN alerts
    /\ \A i \in marked, k \in DOMAIN db.budgets :
          db.budgets[k].tenant = alerts[i].tenant => LastAt(db.budgets[k], alerts[i].level) >= alerts[i].at

\* A watcher about to publish has kept its distance from the alerts it knows
\* of; one about to mark has published the alert it marks.
Watching ==
    /\ DOMAIN req = Requests /\ IsRecord(req)
    /\ \A r \in Requests :
          /\ At(r, "alert") =>
                /\ req[r].level \in {"warn", "hard"} /\ req[r].hour \in Nat
                /\ HasBudget(db, req[r].tenant)
                /\ req[r].known \subseteq DOMAIN alerts
                /\ \A i \in req[r].known : Alike(alerts[i], req[r]) => req[r].hour - alerts[i].at >= Cooldown
          /\ At(r, "mark") =>
                /\ req[r].alert \in DOMAIN alerts
                /\ Alike(alerts[req[r].alert], req[r]) /\ alerts[req[r].alert].at = req[r].hour

CostInv ==
    /\ hour \in Nat
    /\ CostTables(db)
    /\ Alerting
    /\ Remembered
    /\ Watching
    /\ AlertsSpaced

\* Nothing of what the budgets of d remember is different in e.
Keeps(d, e) ==
    /\ \A i \in DOMAIN d.budgets :
          /\ i \in DOMAIN e.budgets
          /\ e.budgets[i].tenant = d.budgets[i].tenant
          /\ e.budgets[i].warned = d.budgets[i].warned
          /\ e.budgets[i].harded = d.budgets[i].harded
    /\ \A i \in DOMAIN e.budgets : i \in DOMAIN d.budgets \/ ~HasBudget(d, e.budgets[i].tenant)

\* UpsertBudget changes the limits only, or adds a row.
LEMMA UpsertKeeps ==
    ASSUME NEW d, CostTables(d), NEW t, NEW m, NEW w, NEW h
    PROVE  CostTables(UpsertBudget(d, t, m, w, h).db) /\ Keeps(d, UpsertBudget(d, t, m, w, h).db)
<1> DEFINE P(b) == b.tenant = t
           New(b) == [b EXCEPT !.monthly = m, !.warn = IF w = 0 THEN 80 ELSE w, !.hard = IF h = 0 THEN 100 ELSE h]
           B == d.budgets
           N == IF Where(B, P) = {} THEN Append(B, New(GetBudget(d, t))) ELSE Set(B, P, New)
           e == UpsertBudget(d, t, m, w, h).db
<1>1. e = [d EXCEPT !.budgets = N]
  BY DEF UpsertBudget, Ok
<1>2. IsRecord(e) /\ {"budgets", "costs"} \subseteq DOMAIN e /\ e.budgets = N
  BY <1>1 DEF CostTables, IsRecord
<1>3. CASE Where(B, P) = {}
  <2> DEFINE b == [tenant |-> t, monthly |-> -1, warn |-> 80, hard |-> 100, warned |-> -1, harded |-> -1]
  <2>1. GetBudget(d, t) = b
    BY <1>3 DEF GetBudget, Rows
  <2>2. BudgetRow(New(b)) /\ New(b).tenant = t
    <3>1. BudgetRow(b) /\ b.tenant = t
      BY DEF BudgetRow, IsRecord
    <3> HIDE DEF b
    <3>. QED
      BY <3>1 DEF BudgetRow, IsRecord
  <2>3. N = Append(B, New(b))
    BY <1>3, <2>1
  <2>4. ~HasBudget(d, t)
    BY <1>3 DEF HasBudget, Where
  <2> HIDE DEF N, b
  <2>5. IsSeq(B)
    BY DEF CostTables
  <2>6. /\ Len(B) \in Nat /\ DOMAIN B = 1 .. Len(B) /\ IsSeq(N) /\ DOMAIN N = 1 .. (Len(B) + 1)
        /\ N[Len(B) + 1] = New(b) /\ \A i \in DOMAIN B : N[i] = B[i]
    BY <2>3, <2>5, AppendIsSeq
  <2>7. DOMAIN N = DOMAIN B \cup {Len(B) + 1}
    BY <2>6
  <2>8. CostTables(e)
    BY <1>2, <2>2, <2>6, <2>7 DEF CostTables
  <2>9. Keeps(d, e)
    BY <1>2, <2>2, <2>4, <2>6, <2>7 DEF Keeps
  <2>. QED
    BY <2>8, <2>9
<1>4. CASE Where(B, P) # {}
  <2>1. N = [i \in DOMAIN B |-> IF P(B[i]) THEN New(B[i]) ELSE B[i]]
    BY <1>4 DEF Set
  <2>2. DOMAIN N = DOMAIN B /\ IsRecord(N)
    BY <2>1 DEF IsRecord
  <2>3. ASSUME NEW i \in DOMAIN B
        PROVE  /\ BudgetRow(N[i]) /\ N[i].tenant = B[i].tenant
               /\ N[i].warned = B[i].warned /\ N[i].harded = B[i].harded
    <3>1. BudgetRow(B[i])
      BY DEF CostTables
    <3>2. BudgetRow(New(B[i])) /\ New(B[i]).tenant = B[i].tenant
          /\ New(B[i]).warned = B[i].warned /\ New(B[i]).harded = B[i].harded
      BY <3>1 DEF BudgetRow, IsRecord
    <3>. QED
      BY <2>1, <3>1, <3>2, ZenonT(40)
  <2> HIDE DEF N
  <2>4. IsSeq(N)
    BY <2>2, FunctionIsSeq DEF CostTables
  <2>5. CostTables(e)
    BY <1>2, <2>2, <2>3, <2>4 DEF CostTables
  <2>6. Keeps(d, e)
    BY <1>2, <2>2, <2>3 DEF Keeps
  <2>. QED
    BY <2>5, <2>6
<1>. QED
  BY <1>3, <1>4

\* Another row in cost_records changes no budget.
LEMMA RecordKeeps ==
    ASSUME NEW d, CostTables(d), NEW c, NEW e, e = Record(d, c).db
    PROVE  CostTables(e) /\ Keeps(d, e)
<1>1. e = [d EXCEPT !.costs = Append(d.costs, c)]
  BY DEF Record, Ok
<1>2. IsRecord(e) /\ DOMAIN e = DOMAIN d /\ e.budgets = d.budgets
  BY <1>1 DEF CostTables, IsRecord
<1>. QED
  BY <1>2 DEF CostTables, Keeps

\* The date of a level is set for the tenant, and nothing else.
LEMMA MarkSets ==
    ASSUME NEW d, CostTables(d), NEW t, NEW h \in Nat, NEW level \in {"warn", "hard"}, NEW e,
           e = IF level = "hard" THEN MarkHard(d, t, h).db ELSE MarkWarned(d, t, h).db
    PROVE  /\ CostTables(e)
           /\ DOMAIN e.budgets = DOMAIN d.budgets
           /\ \A i \in DOMAIN d.budgets :
                 /\ e.budgets[i].tenant = d.budgets[i].tenant
                 /\ \A v \in {"warn", "hard"} :
                       LastAt(e.budgets[i], v) = IF d.budgets[i].tenant = t /\ v = level THEN h ELSE LastAt(d.budgets[i], v)
<1> DEFINE B == d.budgets
           Dated(b) == IF level = "hard" THEN [b EXCEPT !.harded = h] ELSE [b EXCEPT !.warned = h]
           N == [i \in DOMAIN B |-> IF B[i].tenant = t THEN Dated(B[i]) ELSE B[i]]
<1>1. e = [d EXCEPT !.budgets = N]
  BY DEF MarkHard, MarkWarned, Ok, Set
<1>2. IsRecord(e) /\ {"budgets", "costs"} \subseteq DOMAIN e /\ e.budgets = N
  BY <1>1 DEF CostTables, IsRecord
<1>3. ASSUME NEW b, BudgetRow(b)
      PROVE  /\ BudgetRow(Dated(b)) /\ Dated(b).tenant = b.tenant
             /\ \A v \in {"warn", "hard"} : LastAt(Dated(b), v) = IF v = level THEN h ELSE LastAt(b, v)
  BY <1>3 DEF BudgetRow, IsRecord, LastAt
<1>4. DOMAIN N = DOMAIN B /\ IsRecord(N) /\ \A i \in DOMAIN B : N[i] = IF B[i].tenant = t THEN Dated(B[i]) ELSE B[i]
  BY DEF IsRecord
<1> HIDE DEF N
<1>5. IsSeq(N)
  BY <1>4, FunctionIsSeq DEF CostTables
<1>6. ASSUME NEW i \in DOMAIN B
      PROVE  /\ BudgetRow(N[i]) /\ N[i].tenant = B[i].tenant
             /\ \A v \in {"warn", "hard"} :
                   LastAt(N[i], v) = IF B[i].tenant = t /\ v = level THEN h ELSE LastAt(B[i], v)
  <2>1. BudgetRow(B[i])
    BY DEF CostTables
  <2>2. CASE B[i].tenant = t
    <3>1. N[i] = Dated(B[i])
      BY <1>4, <2>2
    <3> HIDE DEF Dated
    <3>. QED
      BY <1>3, <2>1, <2>2, <3>1
  <2>3. CASE B[i].tenant # t
    BY <1>4, <2>1, <2>3
  <2>. QED
    BY <2>2, <2>3
<1>. QED
  BY <1>2, <1>4, <1>5, <1>6 DEF CostTables

\* The budget of a tenant is its row, or has no amount.
LEMMA BudgetIsRow ==
    ASSUME NEW d, NEW t
    PROVE  \/ GetBudget(d, t).monthly = -1
           \/ \E i \in DOMAIN d.budgets : d.budgets[i].tenant = t /\ GetBudget(d, t) = d.budgets[i]
<1>1. CASE Rows(d.budgets, LAMBDA b : b.tenant = t) = {}
  BY <1>1 DEF GetBudget
<1>2. CASE Rows(d.budgets, LAMBDA b : b.tenant = t) # {}
  <2>1. GetBudget(d, t) \in Rows(d.budgets, LAMBDA b : b.tenant = t)
    BY <1>2 DEF GetBudget
  <2>. QED
    BY <2>1 DEF Rows, Where
<1>. QED
  BY <1>1, <1>2

\* Steps that publish nothing, mark nothing and make nobody want to.
LEMMA Quiet ==
    ASSUME CostInv, hour' \in Nat, CostTables(db'), Keeps(db, db'), UNCHANGED <<alerts, marked>>,
           NEW state, state.at \notin {"alert", "mark"},
           req' = req \/ \E r \in Requests : req' = [req EXCEPT ![r] = state]
    PROVE  CostInv'
<1>0. CostTables(db) /\ Alerting /\ Remembered /\ Watching /\ AlertsSpaced
  BY DEF CostInv
<1>1. \A t : HasBudget(db, t) => HasBudget(db', t)
  BY DEF HasBudget, Keeps
<1>2. Alerting'
  BY <1>0, <1>1 DEF Alerting
<1>3. Remembered'
  <2> SUFFICES ASSUME NEW i \in marked, NEW k \in DOMAIN db'.budgets, db'.budgets[k].tenant = alerts[i].tenant
               PROVE  LastAt(db'.budgets[k], alerts[i].level) >= alerts[i].at
    BY <1>0 DEF Remembered
  <2>1. i \in DOMAIN alerts /\ HasBudget(db, alerts[i].tenant)
    BY <1>0 DEF Remembered, Alerting
  <2>2. k \in DOMAIN db.budgets
    BY <2>1 DEF Keeps
  <2>3. db.budgets[k].tenant = alerts[i].tenant /\ LastAt(db'.budgets[k], alerts[i].level) = LastAt(db.budgets[k], alerts[i].level)
    BY <2>2 DEF Keeps, LastAt
  <2>. QED
    BY <1>0, <2>2, <2>3 DEF Remembered
<1>4. Watching'
  <2>1. DOMAIN req' = Requests /\ IsRecord(req') /\ \A q \in Requests : req'[q] = req[q] \/ req'[q] = state
    BY <1>0 DEF Watching, IsRecord
  <2>. QED
    BY <1>0, <1>1, <2>1 DEF Watching, At
<1>5. AlertsSpaced'
  BY <1>0 DEF AlertsSpaced
<1>. QED
  BY <1>2, <1>3, <1>4, <1>5 DEF CostInv

\* A watcher that fires has found a date, or none, that is a cooldown away.
LEMMA CheckOneInv == ASSUME CostInv, NEW r \in Requests, CheckOne(r) PROVE CostInv'
<1>0. hour \in Nat /\ CostTables(db) /\ Alerting /\ Remembered /\ Watching /\ AlertsSpaced
  BY DEF CostInv
<1>u. db' = db /\ hour' = hour /\ alerts' = alerts /\ marked' = marked
  BY DEF CheckOne, wvars
<1>k. CostTables(db') /\ Keeps(db, db') /\ hour' \in Nat /\ UNCHANGED <<alerts, marked>>
  BY <1>0, <1>u DEF Keeps
<1>1. PICK t \in req[r].tenants :
         LET b == GetBudget(db, t)
             level == Level(b, RollingTotal(db, t, hour - 24 * 30))
             rest == req[r].tenants \ {t}
         IN  IF level # "" /\ ShouldFire(LastAt(b, level))
             THEN req' = [req EXCEPT ![r] = [at |-> "alert", tenants |-> rest, tenant |-> t, level |-> level,
                                             hour |-> hour, known |-> marked]]
             ELSE req' = [req EXCEPT ![r] = [at |-> "check", tenants |-> rest]]
  BY DEF CheckOne, Goto
<1> DEFINE b == GetBudget(db, t)
           level == Level(b, RollingTotal(db, t, hour - 24 * 30))
           state == [at |-> "alert", tenants |-> req[r].tenants \ {t}, tenant |-> t, level |-> level,
                     hour |-> hour, known |-> marked]
<1>2. CASE ~(level # "" /\ ShouldFire(LastAt(b, level)))
  <2> DEFINE next == [at |-> "check", tenants |-> req[r].tenants \ {t}]
  <2>1. req' = [req EXCEPT ![r] = next]
    BY <1>1, <1>2
  <2>2. next.at \notin {"alert", "mark"}
    OBVIOUS
  <2> HIDE DEF next
  <2>. QED
    BY <1>k, <2>1, <2>2, Quiet
<1>3. CASE level # "" /\ ShouldFire(LastAt(b, level))
  <2>1. req' = [req EXCEPT ![r] = state]
    BY <1>1, <1>3
  <2>2. level \in {"warn", "hard"} /\ b.monthly # -1
    BY <1>3 DEF Level
  <2>3. \E i \in DOMAIN db.budgets : db.budgets[i].tenant = t /\ b = db.budgets[i]
    BY <2>2, BudgetIsRow
  <2>4. LastAt(b, level) \in Int
    BY <1>0, <2>3 DEF CostTables, BudgetRow, LastAt
  <2>5. state.level = level /\ state.tenant = t /\ state.hour = hour /\ state.known = marked /\ state.at = "alert"
    OBVIOUS
  <2> HIDE DEF state, level, b
  <2>6. \A i \in marked : Alike(alerts[i], state) => hour - alerts[i].at >= Cooldown
    <3> SUFFICES ASSUME NEW i \in marked, Alike(alerts[i], state) PROVE hour - alerts[i].at >= Cooldown
      OBVIOUS
    <3>1. i \in DOMAIN alerts /\ alerts[i].at \in Nat /\ alerts[i].tenant = t /\ alerts[i].level = level
      BY <1>0, <2>5 DEF Remembered, Alerting, Alike
    <3>2. LastAt(b, level) >= alerts[i].at
      BY <1>0, <2>3, <3>1 DEF Remembered
    <3>3. LastAt(b, level) = -1 \/ hour - LastAt(b, level) >= Cooldown
      BY <1>3 DEF ShouldFire
    <3>4. ASSUME NEW last \in Int, NEW at \in Nat, last >= at, last = -1 \/ hour - last >= Cooldown
          PROVE  hour - at >= Cooldown
      BY <1>0, <3>4, CostAssumption
    <3>. QED
      BY <2>4, <3>1, <3>2, <3>3, <3>4
  <2>7. HasBudget(db, t)
    BY <2>3 DEF HasBudget
  <2>8. Watching'
    <3>1. DOMAIN req' = Requests /\ IsRecord(req') /\ req'[r] = state /\ \A q \in Requests \ {r} : req'[q] = req[q]
      BY <1>0, <2>1 DEF Watching, IsRecord
    <3>2. marked \subseteq DOMAIN alerts
      BY <1>0 DEF Remembered
    <3>. QED
      BY <1>0, <1>u, <2>2, <2>5, <2>6, <2>7, <3>1, <3>2 DEF Watching, At
  <2>9. Alerting' /\ Remembered' /\ AlertsSpaced'
    BY <1>0, <1>u DEF Alerting, Remembered, AlertsSpaced
  <2>. QED
    BY <1>k, <2>8, <2>9 DEF CostInv
<1>. QED
  BY <1>2, <1>3

\* The alert that is published knows what its watcher knew.
LEMMA PublishAlertInv == ASSUME CostInv, NEW r \in Requests, PublishAlert(r) PROVE CostInv'
<1>0. hour \in Nat /\ CostTables(db) /\ Alerting /\ Remembered /\ Watching /\ AlertsSpaced
  BY DEF CostInv
<1> DEFINE n == Len(alerts)
           a == [tenant |-> req[r].tenant, level |-> req[r].level, at |-> req[r].hour, known |-> req[r].known]
           state == [at |-> "mark", tenants |-> req[r].tenants, tenant |-> req[r].tenant, level |-> req[r].level,
                     hour |-> req[r].hour, alert |-> n + 1]
<1>1. /\ alerts' = Append(alerts, a) /\ req' = [req EXCEPT ![r] = state]
      /\ db' = db /\ hour' = hour /\ marked' = marked
  BY DEF PublishAlert, Goto
<1>2. /\ n \in Nat /\ DOMAIN alerts = 1 .. n /\ IsSeq(alerts') /\ DOMAIN alerts' = 1 .. (n + 1)
      /\ alerts'[n + 1] = a /\ \A i \in 1 .. n : alerts'[i] = alerts[i]
  BY <1>0, <1>1, AppendIsSeq DEF Alerting
<1>3. DOMAIN alerts' = DOMAIN alerts \cup {n + 1}
  BY <1>2
<1>4. /\ req[r].level \in {"warn", "hard"} /\ req[r].hour \in Nat /\ HasBudget(db, req[r].tenant)
      /\ req[r].known \subseteq DOMAIN alerts
      /\ \A i \in req[r].known : Alike(alerts[i], req[r]) => req[r].hour - alerts[i].at >= Cooldown
  BY <1>0 DEF PublishAlert, Continue, Watching
<1>5. a.tenant = req[r].tenant /\ a.level = req[r].level /\ a.at = req[r].hour /\ a.known = req[r].known
  OBVIOUS
<1>6. state.tenant = a.tenant /\ state.level = a.level /\ state.hour = a.at /\ state.at = "mark" /\ state.alert = n + 1
  BY <1>5
<1> HIDE DEF a, state
<1>7. Alerting'
  BY <1>0, <1>1, <1>2, <1>3, <1>4, <1>5 DEF Alerting
<1>8. Remembered'
  BY <1>0, <1>1, <1>2, <1>3 DEF Remembered
<1>9. Watching'
  <2>1. DOMAIN req' = Requests /\ IsRecord(req') /\ req'[r] = state /\ \A q \in Requests \ {r} : req'[q] = req[q]
    BY <1>0, <1>1 DEF Watching, IsRecord
  <2>2. /\ state.alert \in DOMAIN alerts' /\ Alike(alerts'[state.alert], state) /\ alerts'[state.alert].at = state.hour
    BY <1>2, <1>3, <1>6 DEF Alike
  <2>3. \A i \in DOMAIN alerts : i \in DOMAIN alerts' /\ alerts'[i] = alerts[i]
    BY <1>2, <1>3
  <2>. QED
    BY <1>0, <1>1, <1>6, <2>1, <2>2, <2>3 DEF Watching, At
<1>10. AlertsSpaced'
  <2> SUFFICES ASSUME NEW i \in DOMAIN alerts', NEW j \in DOMAIN alerts', i < j,
                      Alike(alerts'[i], alerts'[j]), i \in alerts'[j].known
               PROVE  alerts'[j].at - alerts'[i].at >= Cooldown
    BY <1>1 DEF AlertsSpaced
  <2>1. i \in 1 .. n /\ alerts'[i] = alerts[i]
    BY <1>2
  <2>2. CASE j = n + 1
    BY <1>2, <1>4, <1>5, <2>1, <2>2 DEF Alike
  <2>3. CASE j # n + 1
    BY <1>0, <1>2, <1>3, <2>1, <2>3 DEF AlertsSpaced
  <2>. QED
    BY <2>2, <2>3
<1>. QED
  BY <1>0, <1>1, <1>7, <1>8, <1>9, <1>10 DEF CostInv

\* A mark forgets the alerts it dates back, and no others.
LEMMA MarkInv == ASSUME CostInv, NEW r \in Requests, Mark(r) PROVE CostInv'
<1>0. hour \in Nat /\ CostTables(db) /\ Alerting /\ Remembered /\ Watching /\ AlertsSpaced
  BY DEF CostInv
<1> DEFINE a == req[r].alert
           state == [at |-> "check", tenants |-> req[r].tenants]
<1>1. /\ db' = IF req[r].level = "hard" THEN MarkHard(db, req[r].tenant, req[r].hour).db
               ELSE MarkWarned(db, req[r].tenant, req[r].hour).db
      /\ marked' = {i \in marked : Alike(alerts[i], alerts[a]) => alerts[i].at <= req[r].hour} \cup {a}
      /\ req' = [req EXCEPT ![r] = state]
      /\ hour' = hour /\ alerts' = alerts
  BY DEF Mark, Goto
<1>2. a \in DOMAIN alerts /\ Alike(alerts[a], req[r]) /\ alerts[a].at = req[r].hour
  BY <1>0 DEF Mark, Continue, Watching
<1>3. req[r].hour \in Nat /\ req[r].level \in {"warn", "hard"}
  BY <1>0, <1>2 DEF Alerting, Alike
<1>4. /\ CostTables(db')
      /\ DOMAIN db'.budgets = DOMAIN db.budgets
      /\ \A i \in DOMAIN db.budgets :
            /\ db'.budgets[i].tenant = db.budgets[i].tenant
            /\ \A v \in {"warn", "hard"} :
                  LastAt(db'.budgets[i], v) = IF db.budgets[i].tenant = req[r].tenant /\ v = req[r].level
                                              THEN req[r].hour ELSE LastAt(db.budgets[i], v)
  BY <1>0, <1>1, <1>3, MarkSets
<1>5. \A t : HasBudget(db, t) <=> HasBudget(db', t)
  BY <1>4 DEF HasBudget
<1>6. Alerting'
  BY <1>0, <1>1, <1>5 DEF Alerting
<1>7. Remembered'
  <2>1. marked' \subseteq DOMAIN alerts'
    BY <1>0, <1>1, <1>2 DEF Remembered
  <2>2. ASSUME NEW i \in marked', NEW k \in DOMAIN db.budgets, db.budgets[k].tenant = alerts[i].tenant
        PROVE  LastAt(db'.budgets[k], alerts[i].level) >= alerts[i].at
    <3>1. i \in DOMAIN alerts /\ alerts[i].level \in {"warn", "hard"} /\ alerts[i].at \in Nat
      BY <1>0, <1>1, <2>1 DEF Alerting
    <3>2. CASE alerts[i].tenant = req[r].tenant /\ alerts[i].level = req[r].level
      <4>1. alerts[i].at <= req[r].hour
        BY <1>1, <1>2, <1>3, <3>1, <3>2 DEF Alike
      <4>2. LastAt(db'.budgets[k], alerts[i].level) = req[r].hour
        BY <1>4, <2>2, <3>1, <3>2
      <4>. QED
        BY <1>3, <3>1, <4>1, <4>2
    <3>3. CASE ~(alerts[i].tenant = req[r].tenant /\ alerts[i].level = req[r].level)
      <4>1. i \in marked
        BY <1>1, <1>2, <3>3 DEF Alike
      <4>2. LastAt(db'.budgets[k], alerts[i].level) = LastAt(db.budgets[k], alerts[i].level)
        BY <1>4, <2>2, <3>1, <3>3
      <4>. QED
        BY <1>0, <2>2, <4>1, <4>2 DEF Remembered
    <3>. QED
      BY <3>2, <3>3
  <2>3. /\ alerts' = alerts /\ DOMAIN db'.budgets = DOMAIN db.budgets
        /\ \A k \in DOMAIN db.budgets : db'.budgets[k].tenant = db.budgets[k].tenant
    BY <1>1, <1>4
  <2>. QED
    BY <2>1, <2>2, <2>3 DEF Remembered
<1>8. Watching'
  <2>1. DOMAIN req' = Requests /\ IsRecord(req') /\ req'[r].at = "check" /\ \A q \in Requests \ {r} : req'[q] = req[q]
    BY <1>0, <1>1 DEF Watching, IsRecord
  <2>. QED
    BY <1>0, <1>1, <1>5, <2>1 DEF Watching, At
<1>9. AlertsSpaced'
  BY <1>0, <1>1 DEF AlertsSpaced
<1>. QED
  BY <1>0, <1>1, <1>4, <1>6, <1>7, <1>8, <1>9 DEF CostInv

\* The other steps of a watcher, the requests, the costs and the clock.
LEMMA QuietSteps ==
    ASSUME CostInv,
           \/ \E r \in Requests : WatchOnce(r) \/ MarkFails(r) \/ WatchEnds(r)
           \/ \E r \in Requests, p \in People : UpsertBudgetRequest(r, p)
           \/ \E p \in People : RecordAI(p.tenant) \/ RecordWarehouseQuery(p.tenant)
    PROVE  CostInv'
<1>0. hour \in Nat /\ CostTables(db)
  BY DEF CostInv
<1>1. Keeps(db, db)
  BY DEF Keeps
<1>2. ASSUME NEW r \in Requests, WatchOnce(r) PROVE CostInv'
  <2> DEFINE state == [at |-> "check", tenants |-> TenantsWithCost(db)]
  <2>1. state.at \notin {"alert", "mark"} /\ req' = [req EXCEPT ![r] = state] /\ db' = db /\ UNCHANGED <<hour, alerts, marked>>
    BY <1>2 DEF WatchOnce, Goto, wvars
  <2> HIDE DEF state
  <2>. QED
    BY <1>0, <1>1, <2>1, Quiet
<1>3. ASSUME NEW r \in Requests, MarkFails(r) PROVE CostInv'
  <2> DEFINE state == [at |-> "check", tenants |-> req[r].tenants]
  <2>1. state.at \notin {"alert", "mark"} /\ req' = [req EXCEPT ![r] = state] /\ db' = db /\ UNCHANGED <<hour, alerts, marked>>
    BY <1>3 DEF MarkFails, Goto, wvars
  <2> HIDE DEF state
  <2>. QED
    BY <1>0, <1>1, <2>1, Quiet
<1>4. ASSUME NEW r \in Requests, WatchEnds(r) PROVE CostInv'
  <2>1. Idle.at \notin {"alert", "mark"} /\ req' = [req EXCEPT ![r] = Idle] /\ db' = db /\ UNCHANGED <<hour, alerts, marked>>
    BY <1>4 DEF WatchEnds, Answer, Goto, wvars, Idle
  <2>. QED
    BY <1>0, <1>1, <2>1, Quiet
<1>5. ASSUME NEW r \in Requests, NEW p \in People, UpsertBudgetRequest(r, p) PROVE CostInv'
  <2>1. PICK b \in Budgets : Finish(r, UpsertBudget(db, p.tenant, b.monthly, b.warn, b.hard))
    BY <1>5 DEF UpsertBudgetRequest
  <2>2. Idle.at \notin {"alert", "mark"} /\ req' = [req EXCEPT ![r] = Idle] /\ UNCHANGED <<hour, alerts, marked>>
    BY <1>5, <2>1 DEF UpsertBudgetRequest, Finish, Then, Goto, wvars, Idle
  <2>3. db' = UpsertBudget(db, p.tenant, b.monthly, b.warn, b.hard).db
    BY <2>1 DEF Finish, Then
  <2>4. CostTables(db') /\ Keeps(db, db')
    BY <1>0, <2>3, UpsertKeeps
  <2>. QED
    BY <1>0, <2>2, <2>4, Quiet
<1>6. ASSUME NEW p \in People, NEW kind, NEW usd, Spend(p.tenant, kind, usd) PROVE CostInv'
  <2>1. Idle.at \notin {"alert", "mark"} /\ req' = req /\ UNCHANGED <<hour, alerts, marked>>
    BY <1>6 DEF Spend, wvars, Idle
  <2>2. db' = db \/ db' = Record(db, [tenant |-> p.tenant, at |-> hour, kind |-> kind, usd |-> usd]).db
    BY <1>6 DEF Spend
  <2>3. CostTables(db') /\ Keeps(db, db')
    BY <1>0, <1>1, <2>2, RecordKeeps
  <2>. QED
    BY <1>0, <2>1, <2>3, Quiet
<1>. QED
  BY <1>2, <1>3, <1>4, <1>5, <1>6 DEF RecordAI, RecordWarehouseQuery

\* Time passes, or nothing happens.
LEMMA CostStutter ==
    ASSUME CostInv, HourPasses \/ UNCHANGED <<db, req, started, faults, wvars>>
    PROVE  CostInv'
<1>1. hour' \in Nat /\ db' = db /\ req' = req /\ alerts' = alerts /\ marked' = marked
  BY DEF CostInv, HourPasses, wvars
<1>. QED
  BY <1>1 DEF CostInv, Alerting, Remembered, Watching, At, AlertsSpaced

\* Two alerts of a level are a cooldown apart unless the budget had forgotten the
\* first (Watcher.checkOne), for any number of tenants, replicas and requests,
\* whatever budgets there are at the start.
THEOREM AlertsAreSpaced ==
    ASSUME NEW CONSTANT seed, CostTables(seed)
    PROVE  CostSpec(seed) => []AlertsSpaced
<1>1. InitRequests(seed) /\ InitCost => CostInv
  <2> SUFFICES ASSUME InitRequests(seed), InitCost PROVE CostInv
    OBVIOUS
  <2>1. hour \in Nat /\ CostTables(db)
    BY DEF InitCost, InitRequests
  <2>2. Alerting /\ Remembered /\ AlertsSpaced
    BY DEF InitCost, Alerting, Remembered, AlertsSpaced, IsSeq
  <2>3. Watching
    BY DEF InitRequests, Watching, IsRecord, At, Idle
  <2>. QED
    BY <2>1, <2>2, <2>3 DEF CostInv
<1>2. CostInv /\ [CostNext]_<<db, req, started, faults, wvars>> => CostInv'
  <2> SUFFICES ASSUME CostInv, CostNext PROVE CostInv'
    BY CostStutter
  <2>. QED
    BY CheckOneInv, PublishAlertInv, MarkInv, QuietSteps, CostStutter DEF CostNext
<1>3. CostInv => AlertsSpaced
  BY DEF CostInv
<1>. QED
  BY <1>1, <1>2, <1>3, PTL DEF CostSpec

-----------------------------------------------------------------------------
(* The slots of a source.  SourcesSpared counts jobs, acquire counts slots: *)
(* the slots of a worker are exactly those of its jobs that query (Held),   *)
(* and no source has too many (Capped).                                     *)

Querying(w) == {n \in DOMAIN jobs : Job(n, "query") /\ jobs[n].worker = w}

\* The slots of a key.
Taken(w, key) == {x \in slots[w] : x[1] = key}

JobFields == {"at", "tenant", "check", "source", "tries", "worker", "stale", "loaded", "outcome"}

QueueOK ==
    /\ IsSeq(jobs)
    /\ \A n \in DOMAIN jobs :
          /\ IsRecord(jobs[n])
          /\ DOMAIN jobs[n] = JobFields
          /\ jobs[n].at \in {"acquire", "query"} => jobs[n].worker \in Workers

Held ==
    /\ DOMAIN slots = Workers /\ IsRecord(slots)
    /\ \A w \in Workers : IsFiniteSet(slots[w]) /\ slots[w] = {<<SourceKey(jobs[n]), n>> : n \in Querying(w)}

Capped == \A w \in Workers : \A y \in slots[w] : Cardinality(Taken(w, y[1])) <= MaxConcurrentPerSource

QualityInv == QueueOK /\ Held /\ Capped

\* What the slots say of a job that queries.
SameQuery(n) ==
    /\ jobs'[n].at = "query" /\ jobs'[n].worker = jobs[n].worker
    /\ jobs'[n].tenant = jobs[n].tenant /\ jobs'[n].source = jobs[n].source

\* Whatever happens to a job that does not query, and does not begin to.
LEMMA JobMoves ==
    ASSUME QualityInv, slots' = slots, IsSeq(jobs'),
           \A n \in DOMAIN jobs : n \in DOMAIN jobs' /\ (jobs[n].at = "query" => SameQuery(n)),
           \A n \in DOMAIN jobs' :
              /\ IsRecord(jobs'[n])
              /\ DOMAIN jobs'[n] = JobFields
              /\ jobs'[n].at = "acquire" => jobs'[n].worker \in Workers
              /\ jobs'[n].at = "query" => n \in DOMAIN jobs /\ jobs[n].at = "query"
    PROVE  QualityInv'
<1>0. QueueOK /\ Held /\ Capped
  BY DEF QualityInv
<1>1. QueueOK'
  BY <1>0 DEF QueueOK, SameQuery
<1>2. \A w \in Workers : Querying(w)' = Querying(w)
  BY DEF Querying, Job, SameQuery
<1>3. \A w \in Workers : \A n \in Querying(w) : SourceKey(jobs'[n]) = SourceKey(jobs[n])
  BY DEF Querying, Job, SourceKey, SameQuery
<1>4. Held'
  BY <1>0, <1>2, <1>3 DEF Held
<1>5. Capped'
  BY <1>0 DEF Capped, Taken
<1>. QED
  BY <1>1, <1>4, <1>5 DEF QualityInv

\* One job changes, and nobody's slots.
LEMMA OneJobMoves ==
    ASSUME QualityInv, slots' = slots, NEW n \in DOMAIN jobs, NEW j, Becomes(n, j),
           jobs[n].at # "query", j.at # "query", IsRecord(j), DOMAIN j = DOMAIN jobs[n],
           j.at = "acquire" => j.worker \in Workers
    PROVE  QualityInv'
<1>0. QueueOK
  BY DEF QualityInv
<1>1. DOMAIN jobs' = DOMAIN jobs /\ IsRecord(jobs') /\ jobs'[n] = j /\ \A m \in DOMAIN jobs \ {n} : jobs'[m] = jobs[m]
  BY <1>0 DEF Becomes, QueueOK, IsSeq, IsRecord
<1>2. IsSeq(jobs')
  BY <1>0, <1>1, FunctionIsSeq DEF QueueOK
<1>. QED
  BY <1>0, <1>1, <1>2, JobMoves DEF QueueOK, SameQuery

\* What asynq delivers again is a job nobody has taken up.
LEMMA AgainIsQueued ==
    ASSUME NEW j
    PROVE  /\ Again(j).at \in {"queued", "archived"} /\ IsRecord(Again(j))
           /\ DOMAIN Again(j) = JobFields
BY DEF Again, QueuedJob, IsRecord, JobFields

\* The steps of a job that take and give no slot.
LEMMA QuietJobs ==
    ASSUME QualityInv, NEW n \in DOMAIN jobs,
           (\E w \in Workers : LoadCheck(n, w)) \/ AbandonWait(n) \/ SaveRun(n) \/ SaveRunFails(n) \/ PublishOutcome(n)
    PROVE  QualityInv'
<1>0. /\ IsRecord(jobs[n])
      /\ DOMAIN jobs[n] = JobFields
      /\ jobs[n].at # "query"
  BY DEF QualityInv, QueueOK, LoadCheck, AbandonWait, SaveRun, SaveRunFails, PublishOutcome, Job
<1>1. slots' = slots
  BY DEF LoadCheck, AbandonWait, SaveRun, SaveRunFails, PublishOutcome
<1>2. ASSUME Errs(n) PROVE QualityInv'
  BY <1>0, <1>1, <1>2, AgainIsQueued, OneJobMoves DEF Errs
<1>3. ASSUME NEW w \in Workers, NEW found, Becomes(n, [jobs[n] EXCEPT !.at = "acquire", !.worker = w, !.loaded = found])
      PROVE  QualityInv'
  <2> DEFINE j == [jobs[n] EXCEPT !.at = "acquire", !.worker = w, !.loaded = found]
  <2>1. IsRecord(j) /\ DOMAIN j = DOMAIN jobs[n] /\ j.at = "acquire" /\ j.worker = w
    BY <1>0 DEF IsRecord, JobFields
  <2> HIDE DEF j
  <2>2. Becomes(n, j)
    BY <1>3 DEF j
  <2>. QED
    BY <1>0, <1>1, <2>1, <2>2, OneJobMoves
<1>4. ASSUME NEW at, at \in {"publish", "done"}, Becomes(n, [jobs[n] EXCEPT !.at = at])
      PROVE  QualityInv'
  <2> DEFINE j == [jobs[n] EXCEPT !.at = at]
  <2>1. IsRecord(j) /\ DOMAIN j = DOMAIN jobs[n] /\ j.at = at
    BY <1>0 DEF IsRecord, JobFields
  <2> HIDE DEF j
  <2>2. Becomes(n, j)
    BY <1>4 DEF j
  <2>. QED
    BY <1>0, <1>1, <1>4, <2>1, <2>2, OneJobMoves
<1>5. ASSUME NEW w \in Workers, LoadCheck(n, w) PROVE QualityInv'
  BY <1>2, <1>3, <1>5 DEF LoadCheck
<1>6. CASE SaveRun(n)
  <2>1. Errs(n) \/ Becomes(n, [jobs[n] EXCEPT !.at = "publish"])
    BY <1>6 DEF SaveRun
  <2>. QED
    BY <1>2, <1>4, <2>1
<1>7. CASE SaveRunFails(n) \/ PublishOutcome(n)
  <2>1. Errs(n) \/ Becomes(n, [jobs[n] EXCEPT !.at = "done"])
    BY <1>7 DEF SaveRunFails, PublishOutcome
  <2>. QED
    BY <1>2, <1>4, <2>1
<1>8. CASE AbandonWait(n)
  <2> DEFINE j == [jobs[n] EXCEPT !.at = "record", !.outcome = "error"]
  <2>1. IsRecord(j) /\ DOMAIN j = DOMAIN jobs[n] /\ j.at = "record"
    BY <1>0 DEF IsRecord, JobFields
  <2> HIDE DEF j
  <2>2. Becomes(n, j)
    BY <1>8 DEF AbandonWait, j
  <2>. QED
    BY <1>0, <1>1, <2>1, <2>2, OneJobMoves
<1>. QED
  BY <1>5, <1>6, <1>7, <1>8

\* What a slot is.
LEMMA SlotParts ==
    ASSUME Held, NEW w \in Workers
    PROVE  \A x : x \in slots[w] <=> x[2] \in Querying(w) /\ x = <<SourceKey(jobs[x[2]]), x[2]>>
BY DEF Held

\* A slot is added under the cap.
LEMMA AcquireInv == ASSUME QualityInv, NEW n \in DOMAIN jobs, Acquire(n) PROVE QualityInv'
<1>0. QueueOK /\ Held /\ Capped
  BY DEF QualityInv
<1>w. PICK w \in Workers : w = jobs[n].worker
  BY <1>0 DEF Acquire, Job, QueueOK
<1>k. PICK key : key = SourceKey(jobs[n])
  OBVIOUS
<1> DEFINE j == [jobs[n] EXCEPT !.at = "query"]
<1>1. /\ jobs[n].at = "acquire"
      /\ IsRecord(jobs[n])
      /\ DOMAIN jobs[n] = JobFields
  BY <1>0 DEF Acquire, Job, QueueOK
<1>2. /\ Cardinality(Taken(w, key)) < MaxConcurrentPerSource
      /\ slots' = [slots EXCEPT ![w] = slots[w] \cup {<<key, n>>}]
      /\ jobs' = [jobs EXCEPT ![n] = j]
  BY <1>w, <1>k DEF Acquire, Becomes, Taken
<1>3. /\ IsRecord(j) /\ DOMAIN j = DOMAIN jobs[n] /\ j.at = "query" /\ j.worker = w
      /\ j.tenant = jobs[n].tenant /\ j.source = jobs[n].source
  BY <1>1, <1>w DEF IsRecord, JobFields
<1>4. SourceKey(j) = key
  BY <1>3, <1>k DEF SourceKey
<1> HIDE DEF j
<1>5. DOMAIN jobs' = DOMAIN jobs /\ IsRecord(jobs') /\ jobs'[n] = j /\ \A m \in DOMAIN jobs \ {n} : jobs'[m] = jobs[m]
  BY <1>0, <1>2 DEF QueueOK, IsSeq, IsRecord
<1>6. QueueOK'
  <2>1. IsSeq(jobs')
    BY <1>0, <1>5, FunctionIsSeq DEF QueueOK
  <2>. QED
    BY <1>0, <1>1, <1>3, <1>5, <2>1 DEF QueueOK
<1>7. DOMAIN slots' = Workers /\ IsRecord(slots') /\ slots'[w] = slots[w] \cup {<<key, n>>}
      /\ \A v \in Workers \ {w} : slots'[v] = slots[v]
  BY <1>0, <1>1, <1>2 DEF Held, IsRecord
<1>8. Querying(w)' = Querying(w) \cup {n} /\ \A v \in Workers \ {w} : Querying(v)' = Querying(v)
  BY <1>1, <1>3, <1>5 DEF Querying, Job
<1>9. Held'
  <2>1. ASSUME NEW v \in Workers
        PROVE  IsFiniteSet(slots'[v]) /\ slots'[v] = {<<SourceKey(jobs'[m]), m>> : m \in Querying(v)'}
    <3>1. IsFiniteSet(slots[v]) /\ slots[v] = {<<SourceKey(jobs[m]), m>> : m \in Querying(v)}
      BY <1>0 DEF Held
    <3>2. n \notin Querying(v) /\ \A m \in Querying(v) : jobs'[m] = jobs[m]
      BY <1>1, <1>5 DEF Querying, Job
    <3>3. CASE v = w
      <4>0. slots'[v] = slots[v] \cup {<<key, n>>}
        BY <1>7, <3>3
      <4>1. IsFiniteSet(slots'[v])
        BY <3>1, <4>0, FS_AddElement
      <4>2. slots'[v] = {<<SourceKey(jobs'[m]), m>> : m \in Querying(v)'}
        BY <1>4, <1>5, <1>7, <1>8, <3>1, <3>2, <3>3
      <4>. QED
        BY <4>1, <4>2
    <3>4. CASE v # w
      <4>1. slots'[v] = slots[v] /\ Querying(v)' = Querying(v)
        BY <1>7, <1>8, <3>4
      <4>2. {<<SourceKey(jobs'[m]), m>> : m \in Querying(v)} = {<<SourceKey(jobs[m]), m>> : m \in Querying(v)}
        BY <3>2
      <4>. QED
        BY <3>1, <4>1, <4>2
    <3>. QED
      BY <3>3, <3>4
  <2>. QED
    BY <1>7, <2>1 DEF Held
<1>10. Capped'
  <2> SUFFICES ASSUME NEW v \in Workers, NEW y \in slots'[v]
               PROVE  Cardinality({x \in slots'[v] : x[1] = y[1]}) <= MaxConcurrentPerSource
    BY DEF Capped, Taken
  <2>1. IsFiniteSet(Taken(w, key)) /\ Cardinality(Taken(w, key)) \in Nat
    <3>1. IsFiniteSet(slots[w]) /\ Taken(w, key) \in SUBSET slots[w]
      BY <1>0, <1>1 DEF Held, Taken
    <3>. QED
      BY <3>1, FS_Subset, FS_CardinalityType
  <2>2. CASE v = w /\ y[1] = key
    <3>1. {x \in slots'[v] : x[1] = y[1]} = Taken(w, key) \cup {<<key, n>>}
      BY <1>7, <2>2 DEF Taken
    <3>2. Cardinality(Taken(w, key) \cup {<<key, n>>}) \in {Cardinality(Taken(w, key)), Cardinality(Taken(w, key)) + 1}
      BY <2>1, FS_AddElement
    <3>3. ASSUME NEW c \in Nat, NEW e \in {c, c + 1}, c < MaxConcurrentPerSource PROVE e <= MaxConcurrentPerSource
      BY <3>3, QualityAssumption
    <3>. QED
      BY <1>2, <2>1, <3>1, <3>2, <3>3
  <2>3. CASE ~(v = w /\ y[1] = key)
    <3>1. y \in slots[v] /\ {x \in slots'[v] : x[1] = y[1]} = Taken(v, y[1])
      BY <1>7, <2>3 DEF Taken
    <3>. QED
      BY <1>0, <3>1 DEF Capped
  <2>. QED
    BY <2>2, <2>3
<1>. QED
  BY <1>6, <1>9, <1>10 DEF QualityInv

\* Slots are given back by jobs that no longer query.
LEMMA SlotsFreed ==
    ASSUME QualityInv, QueueOK', DOMAIN slots' = Workers, IsRecord(slots'),
           \A w \in Workers : /\ Querying(w)' \subseteq Querying(w)
                              /\ \A n \in Querying(w)' : SourceKey(jobs'[n]) = SourceKey(jobs[n])
                              /\ slots'[w] = {x \in slots[w] : x[2] \in Querying(w)'}
    PROVE  QualityInv'
<1>0. QueueOK /\ Held /\ Capped
  BY DEF QualityInv
<1>1. Held'
  <2>1. ASSUME NEW w \in Workers
        PROVE  IsFiniteSet(slots'[w]) /\ slots'[w] = {<<SourceKey(jobs'[n]), n>> : n \in Querying(w)'}
    <3>1. IsFiniteSet(slots[w]) /\ slots[w] = {<<SourceKey(jobs[n]), n>> : n \in Querying(w)}
      BY <1>0 DEF Held
    <3>2. IsFiniteSet(slots'[w])
      BY <3>1, FS_Subset
    <3>3. slots'[w] = {<<SourceKey(jobs'[n]), n>> : n \in Querying(w)'}
      BY <3>1
    <3>. QED
      BY <3>2, <3>3
  <2>. QED
    BY <2>1 DEF Held
<1>2. Capped'
  <2> SUFFICES ASSUME NEW w \in Workers, NEW y \in slots'[w]
               PROVE  Cardinality({x \in slots'[w] : x[1] = y[1]}) <= MaxConcurrentPerSource
    BY DEF Capped, Taken
  <2> DEFINE S == Taken(w, y[1])
             T == {x \in slots'[w] : x[1] = y[1]}
  <2>1. y \in slots[w] /\ IsFiniteSet(slots[w]) /\ S \in SUBSET slots[w] /\ T \in SUBSET S
    BY <1>0 DEF Held, Taken
  <2>2. Cardinality(S) <= MaxConcurrentPerSource
    BY <1>0, <2>1 DEF Capped
  <2> HIDE DEF S, T
  <2>3. IsFiniteSet(S) /\ IsFiniteSet(T) /\ Cardinality(T) <= Cardinality(S)
    BY <2>1, FS_Subset
  <2>4. Cardinality(S) \in Nat /\ Cardinality(T) \in Nat
    BY <2>3, FS_CardinalityType
  <2>5. Cardinality(T) <= MaxConcurrentPerSource
    BY <2>2, <2>3, <2>4, QualityAssumption
  <2>. QED
    BY <2>5 DEF T
<1>. QED
  BY <1>1, <1>2 DEF QualityInv

\* The query is over and the slot is free.
LEMMA ScheduleInv == ASSUME QualityInv, NEW n \in DOMAIN jobs, Schedule(n) PROVE QualityInv'
<1>0. QueueOK /\ Held
  BY DEF QualityInv
<1>1. /\ jobs[n].at = "query" /\ jobs[n].worker \in Workers
      /\ IsRecord(jobs[n])
      /\ DOMAIN jobs[n] = JobFields
  BY <1>0 DEF Schedule, Job, QueueOK
<1>2. PICK o : jobs' = [jobs EXCEPT ![n] = [jobs[n] EXCEPT !.at = "record", !.outcome = o]]
  BY DEF Schedule, Becomes
<1> DEFINE w == jobs[n].worker
           j == [jobs[n] EXCEPT !.at = "record", !.outcome = o]
<1>3. IsRecord(j) /\ DOMAIN j = DOMAIN jobs[n] /\ j.at = "record"
  BY <1>1 DEF IsRecord, JobFields
<1> HIDE DEF j
<1>4. DOMAIN jobs' = DOMAIN jobs /\ IsRecord(jobs') /\ jobs'[n] = j /\ \A m \in DOMAIN jobs \ {n} : jobs'[m] = jobs[m]
  BY <1>0, <1>2 DEF QueueOK, IsSeq, IsRecord, j
<1>5. QueueOK'
  <2>1. IsSeq(jobs')
    BY <1>0, <1>4, FunctionIsSeq DEF QueueOK
  <2>. QED
    BY <1>0, <1>1, <1>3, <1>4, <2>1 DEF QueueOK
<1>6. /\ DOMAIN slots' = Workers /\ IsRecord(slots')
      /\ slots'[w] = slots[w] \ {<<SourceKey(jobs[n]), n>>}
      /\ \A v \in Workers \ {w} : slots'[v] = slots[v]
  BY <1>0, <1>1 DEF Schedule, Release, Held, IsRecord
<1>7. \A v \in Workers : /\ Querying(v)' = Querying(v) \ {n}
                         /\ v # w => n \notin Querying(v)
                         /\ \A m \in Querying(v)' : jobs'[m] = jobs[m]
  BY <1>1, <1>3, <1>4 DEF Querying, Job
<1>8. ASSUME NEW v \in Workers PROVE slots'[v] = {x \in slots[v] : x[2] \in Querying(v)'}
  <2>1. \A x : x \in slots[v] <=> x[2] \in Querying(v) /\ x = <<SourceKey(jobs[x[2]]), x[2]>>
    BY <1>0, SlotParts
  <2>2. CASE v = w
    <3>1. \A x \in slots[v] : x[2] = n <=> x = <<SourceKey(jobs[n]), n>>
      BY <2>1
    <3>. QED
      BY <1>6, <1>7, <2>1, <2>2, <3>1
  <2>3. CASE v # w
    BY <1>6, <1>7, <2>1, <2>3
  <2>. QED
    BY <2>2, <2>3
<1>. QED
  BY <1>5, <1>6, <1>7, <1>8, SlotsFreed

\* What a worker was doing is delivered again, and its slots are free.
LEMMA WorkerDiesInv == ASSUME QualityInv, NEW w \in Workers, WorkerDies(w) PROVE QualityInv'
<1>0. QueueOK /\ Held
  BY DEF QualityInv
<1>1. /\ DOMAIN jobs' = DOMAIN jobs /\ IsRecord(jobs')
      /\ \A n \in DOMAIN jobs :
            jobs'[n] = IF InProgress(n) /\ jobs[n].worker = w
                       THEN Again(jobs[n]) ELSE jobs[n]
  BY DEF WorkerDies, IsRecord
<1>2. QueueOK'
  <2>1. IsSeq(jobs')
    BY <1>0, <1>1, FunctionIsSeq DEF QueueOK
  <2>2. ASSUME NEW n \in DOMAIN jobs
        PROVE  /\ IsRecord(jobs'[n])
               /\ DOMAIN jobs'[n] = JobFields
               /\ jobs'[n].at \in {"acquire", "query"} => jobs'[n].worker \in Workers
    <3>1. jobs'[n] = jobs[n] \/ jobs'[n] = Again(jobs[n])
      BY <1>1
    <3>2. CASE jobs'[n] = jobs[n]
      BY <1>0, <3>2 DEF QueueOK
    <3>3. CASE jobs'[n] = Again(jobs[n])
      BY <3>3, AgainIsQueued
    <3>. QED
      BY <3>1, <3>2, <3>3
  <2>. QED
    BY <1>1, <2>1, <2>2 DEF QueueOK
<1>3. DOMAIN slots' = Workers /\ IsRecord(slots') /\ slots'[w] = {} /\ \A v \in Workers \ {w} : slots'[v] = slots[v]
  BY <1>0 DEF WorkerDies, Held, IsRecord
<1>4. \A n \in DOMAIN jobs : jobs'[n] = jobs[n] \/ jobs'[n].at # "query"
  BY <1>1, AgainIsQueued
<1>5. Querying(w)' = {}
  BY <1>1, AgainIsQueued DEF Querying, Job, InProgress
<1>6. ASSUME NEW v \in Workers, v # w PROVE Querying(v)' = Querying(v) /\ \A n \in Querying(v) : jobs'[n] = jobs[n]
  <2>1. \A n \in Querying(v) : jobs'[n] = jobs[n]
    BY <1>1, <1>6 DEF Querying, Job
  <2>. QED
    BY <1>1, <1>4, <2>1 DEF Querying, Job
<1>7. ASSUME NEW v \in Workers
      PROVE  /\ Querying(v)' \subseteq Querying(v)
             /\ \A n \in Querying(v)' : SourceKey(jobs'[n]) = SourceKey(jobs[n])
             /\ slots'[v] = {x \in slots[v] : x[2] \in Querying(v)'}
  <2>1. CASE v = w
    BY <1>3, <1>5, <2>1
  <2>2. CASE v # w
    <3>1. \A x \in slots[v] : x[2] \in Querying(v)
      BY <1>0, SlotParts
    <3>2. \A n \in Querying(v)' : SourceKey(jobs'[n]) = SourceKey(jobs[n])
      BY <1>6, <2>2 DEF SourceKey
    <3>. QED
      BY <1>3, <1>6, <2>2, <3>1, <3>2
  <2>. QED
    BY <2>1, <2>2
<1>. QED
  BY <1>2, <1>3, <1>7, SlotsFreed

\* The job is delivered again, and the slot stays with the execution given up.
LEMMA CancelledInv == ASSUME QualityInv, NEW n \in DOMAIN jobs, Cancelled(n) PROVE QualityInv'
<1>0. QueueOK
  BY DEF QualityInv
<1>1. IsRecord(jobs[n]) /\ DOMAIN jobs[n] = JobFields
  BY <1>0 DEF QueueOK
<1>j. PICK j : j = [jobs[n] EXCEPT !.stale = TRUE]
  OBVIOUS
<1>s. PICK s : s = [jobs EXCEPT ![n] = j]
  OBVIOUS
<1>g. PICK g : g = Again(jobs[n])
  OBVIOUS
<1>2. /\ IsRecord(j) /\ DOMAIN j = JobFields /\ j.at = jobs[n].at /\ j.worker = jobs[n].worker
      /\ j.tenant = jobs[n].tenant /\ j.source = jobs[n].source
  BY <1>1, <1>j DEF IsRecord, JobFields
<1>3. IsRecord(s) /\ DOMAIN s = DOMAIN jobs /\ s[n] = j /\ \A m \in DOMAIN jobs \ {n} : s[m] = jobs[m]
  BY <1>0, <1>s DEF QueueOK, IsSeq, IsRecord
<1>4. IsSeq(s)
  BY <1>0, <1>3, FunctionIsSeq DEF QueueOK
<1>5. jobs' = Append(s, g) /\ slots' = slots
  BY <1>j, <1>s, <1>g DEF Cancelled
<1>6. /\ Len(s) \in Nat /\ DOMAIN s = 1 .. Len(s) /\ IsSeq(jobs') /\ DOMAIN jobs' = 1 .. (Len(s) + 1)
      /\ jobs'[Len(s) + 1] = g
      /\ \A m \in 1 .. Len(s) : jobs'[m] = s[m]
  BY <1>4, <1>5, AppendIsSeq
<1>7. DOMAIN jobs' = DOMAIN jobs \cup {Len(s) + 1} /\ \A m \in DOMAIN jobs : jobs'[m] = s[m]
  BY <1>3, <1>6
<1>8. g.at \notin {"acquire", "query"} /\ IsRecord(g) /\ DOMAIN g = JobFields
  BY <1>g, AgainIsQueued
<1>9. \A m \in DOMAIN jobs : m \in DOMAIN jobs' /\ (jobs[m].at = "query" => SameQuery(m))
  BY <1>2, <1>3, <1>7 DEF SameQuery
<1>10. ASSUME NEW m \in DOMAIN jobs'
       PROVE  /\ IsRecord(jobs'[m])
              /\ DOMAIN jobs'[m] = JobFields
              /\ jobs'[m].at = "acquire" => jobs'[m].worker \in Workers
              /\ jobs'[m].at = "query" => m \in DOMAIN jobs /\ jobs[m].at = "query"
  <2>1. CASE m = Len(s) + 1
    BY <1>6, <1>8, <2>1
  <2>2. CASE m = n
    BY <1>0, <1>2, <1>3, <1>7, <2>2 DEF QueueOK
  <2>3. CASE m \in DOMAIN jobs \ {n}
    BY <1>0, <1>3, <1>7, <2>3 DEF QueueOK
  <2>. QED
    BY <1>7, <2>1, <2>2, <2>3
<1>. QED
  BY <1>5, <1>6, <1>7, <1>9, <1>10, JobMoves

\* A request adds a job, or none.
LEMMA RequestInv ==
    ASSUME QualityInv, NEW r \in Requests,
           \/ StoreUpdate(r)
           \/ \E p \in People : CreateCheckRequest(r, p) \/ UpdateCheckRequest(r, p) \/ DeleteCheckRequest(r, p) \/ RunCheckRequest(r, p)
    PROVE  QualityInv'
<1>0. QueueOK
  BY DEF QualityInv
<1>1. CASE UNCHANGED qvars
  <2>1. jobs' = jobs /\ slots' = slots
    BY <1>1 DEF qvars
  <2>. QED
    BY <2>1 DEF QualityInv, QueueOK, Held, Capped, Taken, Querying, Job
<1>2. ASSUME NEW p \in People, RunCheckRequest(r, p), ~UNCHANGED jobs PROVE QualityInv'
  <2>1. PICK id, s : jobs' = Append(jobs, QueuedJob("queued", p.tenant, id, s, 0))
    BY <1>2 DEF RunCheckRequest
  <2>2. slots' = slots
    BY <1>2 DEF RunCheckRequest
  <2>3. LET j == QueuedJob("queued", p.tenant, id, s, 0)
        IN  /\ j.at = "queued" /\ IsRecord(j)
            /\ DOMAIN j = JobFields
    BY DEF QueuedJob, IsRecord, JobFields
  <2>4. /\ Len(jobs) \in Nat /\ DOMAIN jobs = 1 .. Len(jobs) /\ IsSeq(jobs') /\ DOMAIN jobs' = 1 .. (Len(jobs) + 1)
        /\ jobs'[Len(jobs) + 1] = QueuedJob("queued", p.tenant, id, s, 0)
        /\ \A n \in 1 .. Len(jobs) : jobs'[n] = jobs[n]
    BY <1>0, <2>1, AppendIsSeq DEF QueueOK
  <2>5. DOMAIN jobs' = DOMAIN jobs \cup {Len(jobs) + 1}
    BY <2>4
  <2>. QED
    BY <1>0, <2>2, <2>3, <2>4, <2>5, JobMoves DEF QueueOK, SameQuery
<1>3. ASSUME NEW p \in People, RunCheckRequest(r, p), UNCHANGED jobs PROVE UNCHANGED qvars
  BY <1>3 DEF RunCheckRequest, qvars
<1>4. ASSUME NEW p \in People, CreateCheckRequest(r, p) \/ UpdateCheckRequest(r, p) \/ DeleteCheckRequest(r, p)
      PROVE  UNCHANGED qvars
  BY <1>4, Zenon DEF CreateCheckRequest, UpdateCheckRequest, DeleteCheckRequest, qvars
<1>5. ASSUME StoreUpdate(r) PROVE UNCHANGED qvars
  BY <1>5 DEF StoreUpdate
<1>. QED
  BY <1>1, <1>2, <1>3, <1>4, <1>5

\* The jobs that query a source are as many as its slots.
LEMMA SlotsCountJobs ==
    ASSUME QualityInv, NEW w \in Workers, NEW n \in DOMAIN jobs
    PROVE  Cardinality({m \in DOMAIN jobs : /\ Job(m, "query") /\ jobs[m].worker = w
                                            /\ jobs[m].tenant = jobs[n].tenant /\ jobs[m].source = jobs[n].source})
               <= MaxConcurrentPerSource
<1>0. Held /\ Capped
  BY DEF QualityInv
<1> DEFINE key == SourceKey(jobs[n])
           M == {m \in DOMAIN jobs : /\ Job(m, "query") /\ jobs[m].worker = w
                                     /\ jobs[m].tenant = jobs[n].tenant /\ jobs[m].source = jobs[n].source}
           T == Taken(w, key)
           f == [m \in M |-> <<key, m>>]
<1>1. \A m \in M : m \in Querying(w) /\ SourceKey(jobs[m]) = key
  BY DEF Querying, SourceKey
<1>2. \A m \in M : <<key, m>> \in T
  BY <1>0, <1>1 DEF Held, Taken
<1>3. IsFiniteSet(T)
  BY <1>0, FS_Subset DEF Held, Taken
<1> HIDE DEF M, T, key
<1>4. f \in Injection(M, T)
  BY <1>2 DEF Injection, IsInjective
<1>5. IsFiniteSet(M) /\ Cardinality(M) <= Cardinality(T)
  BY <1>3, <1>4, FS_Injection
<1>6. CASE M = {}
  BY <1>6, FS_EmptySet, QualityAssumption DEF M
<1>7. CASE M # {}
  <2>1. PICK m \in M : <<key, m>> \in T
    BY <1>2, <1>7
  <2>2. Cardinality(T) <= MaxConcurrentPerSource
    BY <1>0, <2>1 DEF Capped, T, Taken
  <2>3. Cardinality(T) \in Nat /\ Cardinality(M) \in Nat
    BY <1>3, <1>5, FS_CardinalityType
  <2>4. Cardinality(M) <= MaxConcurrentPerSource
    BY <1>5, <2>2, <2>3, QualityAssumption
  <2>. QED
    BY <2>4 DEF M
<1>. QED
  BY <1>6, <1>7

\* No worker has more checks querying a source at a time than its semaphore
\* admits, and every slot belongs to a check that queries (Scheduler.acquire),
\* for any number of workers, sources and jobs, whatever dies, is given up while
\* it waits or queries, or is delivered again while it still runs.
THEOREM SourcesAreSpared ==
    ASSUME NEW CONSTANT seed
    PROVE  QualitySpec(seed) => []SourcesSpared
<1>1. InitRequests(seed) /\ InitQuality => QualityInv
  BY FS_EmptySet DEF InitQuality, QualityInv, QueueOK, Held, Capped, Querying, IsSeq, IsRecord
<1>2. QualityInv /\ [QualityNext]_<<db, req, started, faults, qvars>> => QualityInv'
  <2> SUFFICES ASSUME QualityInv, [QualityNext]_<<db, req, started, faults, qvars>> PROVE QualityInv'
    OBVIOUS
  <2>1. CASE UNCHANGED qvars
    <3>1. jobs' = jobs /\ slots' = slots
      BY <2>1 DEF qvars
    <3>. QED
      BY <3>1 DEF QualityInv, QueueOK, Held, Capped, Taken, Querying, Job
  <2>2. CASE QualityNext
    BY <2>2, RequestInv, QuietJobs, AcquireInv, ScheduleInv, CancelledInv, WorkerDiesInv DEF QualityNext, JobStep
  <2>. QED
    BY <2>1, <2>2
<1>3. QualityInv => SourcesSpared
  <2> SUFFICES ASSUME QualityInv PROVE SourcesSpared
    OBVIOUS
  <2>1. \A w \in Workers : {x[2] : x \in slots[w]} = {n \in DOMAIN jobs : Job(n, "query") /\ jobs[n].worker = w}
    <3> SUFFICES ASSUME NEW w \in Workers PROVE {x[2] : x \in slots[w]} = Querying(w)
      BY DEF Querying
    <3>1. \A x \in slots[w] : x[2] \in Querying(w)
      BY SlotParts DEF QualityInv
    <3>2. \A n \in Querying(w) : \E x \in slots[w] : x[2] = n
      <4> SUFFICES ASSUME NEW n \in Querying(w) PROVE \E x \in slots[w] : x[2] = n
        OBVIOUS
      <4>1. <<SourceKey(jobs[n]), n>> \in slots[w]
        BY DEF QualityInv, Held
      <4>. QED
        BY <4>1
    <3>. QED
      BY <3>1, <3>2
  <2>. QED
    BY <2>1, SlotsCountJobs DEF SourcesSpared
<1>. QED
  BY <1>1, <1>2, <1>3, PTL DEF QualitySpec

-----------------------------------------------------------------------------
(* Breaches.  An evaluation knows what the contract it holds declared, and *)
(* that what it has still to record was not told before it read the        *)
(* history; every breach that nobody announces has one who is about to.    *)

ContractTables(d, count) ==
    /\ IsRecord(d) /\ {"contracts", "breaches"} \subseteq DOMAIN d
    /\ IsSeq(d.contracts) /\ IsSeq(d.breaches)
    /\ \A i \in DOMAIN d.contracts :
          d.contracts[i].id \in Nat /\ d.contracts[i].id <= count /\ d.contracts[i].version \in Nat
    /\ \A i, j \in DOMAIN d.contracts : d.contracts[i].id = d.contracts[j].id => i = j
    /\ \A i \in DOMAIN d.breaches :
          /\ d.breaches[i].id \in Nat /\ d.breaches[i].id <= count
          /\ d.breaches[i].base \in Int /\ d.breaches[i].base <= count
    /\ \A i, j \in DOMAIN d.breaches : i < j => d.breaches[i].id < d.breaches[j].id

\* The history of declarations has the contracts as they are; their versions
\* only grow, and their tenant stays.
DeclaredRight(contracts) ==
    /\ IsRecord(declared)
    /\ \A k \in DOMAIN declared : k = <<k[1], k[2]>> /\ k[1] \in Nat /\ k[1] <= minted /\ k[2] \in Nat
    /\ \A k, l \in DOMAIN declared : k[1] = l[1] => declared[k].tenant = declared[l].tenant
    /\ \A i \in DOMAIN contracts :
          /\ <<contracts[i].id, contracts[i].version>> \in DOMAIN declared
          /\ declared[<<contracts[i].id, contracts[i].version>>] = contracts[i]
          /\ \A k \in DOMAIN declared : k[1] = contracts[i].id => k[2] <= contracts[i].version

BreachRight(b) ==
    /\ <<b.contract, b.version>> \in DOMAIN declared
    /\ b.tenant = declared[<<b.contract, b.version>>].tenant
    /\ Breaks(b, declared[<<b.contract, b.version>>])

\* Nobody could have known of what repeats b among the breaches of a contract.
Untold(breaches, id, b, base) ==
    \A i \in DOMAIN breaches :
        breaches[i].contract = id /\ BreachSig(breaches[i]) = BreachSig(b) => Excused(breaches, breaches[i], base)

EvaluationSound(e) ==
    /\ e.at \in {"record", "publish"} =>
          /\ <<e.contract.id, e.contract.version>> \in DOMAIN declared
          /\ declared[<<e.contract.id, e.contract.version>>] = e.contract
          /\ e.base \in Int /\ e.base <= minted
          /\ \A b \in e.found :
                Breaks(b, e.contract) /\ (e.base = -1 \/ Untold(db.breaches, e.contract.id, b, e.base))
    /\ e.at = "publish" => e.breach \in Nat /\ e.breach <= minted /\ e.breach \notin announced \cup lost

\* Every breach is announced by one evaluation.
OneAnnounces ==
    \A q, r \in Requests : At(q, "publish") /\ At(r, "publish") /\ req[q].breach = req[r].breach => q = r

ContractInv ==
    /\ minted \in Nat
    /\ IsRecord(req) /\ DOMAIN req = Requests
    /\ ContractTables(db, minted)
    /\ DeclaredRight(db.contracts)
    /\ \A i \in DOMAIN db.breaches : BreachRight(db.breaches[i])
    /\ BreachesOnce
    /\ \A r \in Requests : EvaluationSound(req[r])
    /\ OneAnnounces
    /\ BreachesAnnounced
    /\ \A x \in announced \cup lost : x \in Nat /\ x <= minted

\* The tables may start with any contracts and with any breaches of them that
\* are told once.  Ids are given in turn, so those of the start are the first.
ContractSeed(s) ==
    /\ ContractTables(s, Len(s.contracts) + Len(s.breaches))
    /\ \A i \in DOMAIN s.breaches : \E j \in DOMAIN s.contracts :
          /\ s.breaches[i].contract = s.contracts[j].id /\ s.breaches[i].version = s.contracts[j].version
          /\ s.breaches[i].tenant = s.contracts[j].tenant
          /\ Breaks(s.breaches[i], s.contracts[j])
    /\ Once(s.breaches)

-----------------------------------------------------------------------------
\* Whether an evaluation could know of a breach depends only on the breaches
\* of the contract that were made before the evaluation read them.
LEMMA ExcusedSame ==
    ASSUME NEW s, NEW t, NEW a, NEW base, Excused(s, a, base),
           \A i \in DOMAIN s : s[i].contract = a.contract => \E j \in DOMAIN t : t[j] = s[i],
           \A j \in DOMAIN t : t[j].contract = a.contract /\ t[j].id <= base => \E i \in DOMAIN s : t[j] = s[i]
    PROVE  Excused(t, a, base)
<1> DEFINE P(x) == x.contract = a.contract /\ a.id < x.id /\ x.id <= base
<1>1. Rows(s, P) = Rows(t, P)
  BY DEF Rows, Where
<1>2. CASE a.id > base
  BY <1>2 DEF Excused
<1>3. CASE Cardinality({x.id : x \in Rows(s, P)}) >= Window
  <2>1. Cardinality({x.id : x \in Rows(t, P)}) >= Window
    BY <1>1, <1>3
  <2>. QED
    BY <2>1, Zenon DEF Excused
<1>. QED
  BY <1>2, <1>3, Zenon DEF Excused

\* What an evaluation knows does not depend on how many ids are given.
LEMMA SoundAsIdsGrow ==
    ASSUME minted \in Nat, minted' \in Nat, minted <= minted', UNCHANGED <<db, announced, lost, declared>>,
           NEW e, EvaluationSound(e)
    PROVE  EvaluationSound(e)'
BY DEF EvaluationSound, Untold

\* An evaluation goes on and announces nothing.
LEMMA EvaluationMoves ==
    ASSUME ContractInv, NEW r \in Requests, NEW e, req' = [req EXCEPT ![r] = e],
           UNCHANGED <<db, announced, lost, declared>>, minted' \in Nat, minted <= minted',
           ~At(r, "publish"), e.at # "publish", EvaluationSound(e)
    PROVE  ContractInv'
<1>1. IsRecord(req)' /\ DOMAIN req' = Requests /\ req'[r] = e /\ \A q \in Requests \ {r} : req'[q] = req[q]
  BY DEF ContractInv, IsRecord
<1>2. ContractTables(db, minted)' /\ DeclaredRight(db.contracts)'
  BY DEF ContractInv, ContractTables, DeclaredRight
<1>3. \A i \in DOMAIN db.breaches : BreachRight(db.breaches[i])'
  BY DEF ContractInv, BreachRight
<1>4. BreachesOnce'
  BY DEF ContractInv, BreachesOnce
<1>5. ASSUME NEW q \in Requests PROVE EvaluationSound(req[q])'
  <2>1. PICK f : f = req'[q]
    OBVIOUS
  <2>2. EvaluationSound(f)
    BY <1>1, <2>1 DEF ContractInv
  <2>3. EvaluationSound(f)'
    BY <2>2, SoundAsIdsGrow DEF ContractInv
  <2>. QED
    BY <2>1, <2>3 DEF EvaluationSound
<1>6. OneAnnounces' /\ BreachesAnnounced'
  <2>1. \A q \in Requests : /\ At(q, "publish")' <=> At(q, "publish")
                            /\ At(q, "publish") => req'[q] = req[q]
    BY <1>1 DEF At
  <2>. QED
    BY <2>1 DEF ContractInv, OneAnnounces, BreachesAnnounced
<1>7. \A x \in announced \cup lost : x \in Nat /\ x <= minted'
  BY DEF ContractInv
<1>. QED
  BY <1>1, <1>2, <1>3, <1>4, <1>5, <1>6, <1>7 DEF ContractInv

\* Every row of a table is one of another table.
Among(C, A) == \A n \in DOMAIN C : \E i \in DOMAIN A : C[n] = A[i]

\* The breaches of some contracts are deleted, the others stay as they were.
Survive(B, C) ==
    /\ \A n \in DOMAIN C : \E i \in DOMAIN B : C[n] = B[i]
    /\ \A n, m \in DOMAIN C : n < m => \E i, j \in DOMAIN B : i < j /\ C[n] = B[i] /\ C[m] = B[j]
    /\ \A i \in DOMAIN B, m \in DOMAIN C : B[i].contract = C[m].contract => \E n \in DOMAIN C : C[n] = B[i]

\* A request changes contracts, or deletes breaches with their contract.
LEMMA TablesChange ==
    ASSUME ContractInv, NEW r \in Requests, req[r] = Idle, req' = [req EXCEPT ![r] = Idle],
           UNCHANGED <<announced, lost>>, minted' \in Nat, minted <= minted',
           ContractTables(db, minted)', DeclaredRight(db.contracts)',
           \A k \in DOMAIN declared : k \in DOMAIN declared' /\ declared'[k] = declared[k],
           NEW B, B = db.breaches, NEW C, C = db'.breaches, Survive(B, C)
    PROVE  ContractInv'
<1>1. req' = req
  BY DEF ContractInv, IsRecord
<1>0. /\ \A n \in DOMAIN C : \E i \in DOMAIN B : C[n] = B[i]
      /\ \A n, m \in DOMAIN C : n < m => \E i, j \in DOMAIN B : i < j /\ C[n] = B[i] /\ C[m] = B[j]
      /\ \A i \in DOMAIN B, m \in DOMAIN C : B[i].contract = C[m].contract => \E n \in DOMAIN C : C[n] = B[i]
  BY DEF Survive
<1>2. ASSUME NEW n \in DOMAIN C, NEW base, Excused(B, C[n], base) PROVE Excused(C, C[n], base)
  BY <1>0, <1>2, ExcusedSame
<1>3. \A i \in DOMAIN C : BreachRight(C[i])'
  <2>1. ASSUME NEW b, BreachRight(b) PROVE BreachRight(b)'
    <3>1. PICK k : k = <<b.contract, b.version>>
      OBVIOUS
    <3>2. k \in DOMAIN declared /\ b.tenant = declared[k].tenant /\ Breaks(b, declared[k])
      BY <2>1, <3>1 DEF BreachRight
    <3>3. k \in DOMAIN declared' /\ declared'[k] = declared[k]
      BY <3>2
    <3>. QED
      BY <3>1, <3>2, <3>3, Zenon DEF BreachRight
  <2>2. \A i \in DOMAIN B : BreachRight(B[i])
    BY DEF ContractInv
  <2>3. ASSUME NEW i \in DOMAIN C PROVE \E b : b = C[i] /\ BreachRight(b)
    BY <1>0, <2>2
  <2>. QED
    BY <2>1, <2>3
<1>4. Once(C)
  <2>1. Once(B)
    BY DEF ContractInv, BreachesOnce
  <2>2. SUFFICES ASSUME NEW n \in DOMAIN C, NEW m \in DOMAIN C,
                        n < m, C[n].contract = C[m].contract, BreachSig(C[n]) = BreachSig(C[m]), C[m].base # -1
                 PROVE  Excused(C, C[n], C[m].base)
    BY DEF Once
  <2>3. PICK i \in DOMAIN B, j \in DOMAIN B : i < j /\ C[n] = B[i] /\ C[m] = B[j]
    BY <1>0, <2>2
  <2>4. Excused(B, C[n], C[m].base)
    BY <2>1, <2>2, <2>3 DEF Once
  <2>. QED
    BY <1>2, <2>4
<1>5. ASSUME NEW q \in Requests PROVE EvaluationSound(req[q])'
  <2>1. PICK e : e = req[q]
    OBVIOUS
  <2>2. EvaluationSound(e)
    BY <2>1 DEF ContractInv
  <2>3. ASSUME NEW id, NEW b, NEW base, Untold(B, id, b, base) PROVE Untold(C, id, b, base)
    <3>1. ASSUME NEW n \in DOMAIN C, C[n].contract = id, BreachSig(C[n]) = BreachSig(b) PROVE Excused(C, C[n], base)
      <4>1. PICK i \in DOMAIN B : C[n] = B[i]
        BY <1>0
      <4>2. Excused(B, B[i], base)
        BY <2>3, <3>1, <4>1 DEF Untold
      <4>. QED
        BY <1>2, <4>1, <4>2
    <3>. QED
      BY <3>1 DEF Untold
  <2>4. minted \in Nat
    BY DEF ContractInv
  <2>5. EvaluationSound(e)'
    BY <2>2, <2>3, <2>4 DEF EvaluationSound
  <2>. QED
    BY <1>1, <2>1, <2>5 DEF EvaluationSound
<1>6. OneAnnounces' /\ BreachesAnnounced'
  <2>1. \A q : At(q, "publish")' <=> At(q, "publish")
    BY <1>1 DEF At
  <2>2. OneAnnounces /\ BreachesAnnounced
    BY DEF ContractInv
  <2>3. BreachesAnnounced'
    <3>1. /\ announced \cap lost = {}
          /\ \A i \in DOMAIN B : (B[i].id \notin announced \cup lost) <=> \E q \in Requests : At(q, "publish") /\ req[q].breach = B[i].id
      BY <2>2 DEF BreachesAnnounced
    <3>2. ASSUME NEW n \in DOMAIN C
          PROVE  (C[n].id \notin announced \cup lost) <=> \E q \in Requests : At(q, "publish") /\ req[q].breach = C[n].id
      <4>1. PICK i \in DOMAIN B : C[n] = B[i]
        BY <1>0
      <4>. QED
        BY <3>1, <4>1
    <3>3. \A n \in DOMAIN C :
             (C[n].id \notin announced' \cup lost') <=> \E q \in Requests : At(q, "publish")' /\ req'[q].breach = C[n].id
      BY <1>1, <2>1, <3>2
    <3>. QED
      BY <3>1, <3>3 DEF BreachesAnnounced
  <2>. QED
    BY <1>1, <2>1, <2>2, <2>3 DEF OneAnnounces
<1>7. \A x \in announced' \cup lost' : x \in Nat /\ x <= minted'
  BY DEF ContractInv
<1>8. BreachesOnce' /\ IsRecord(req)' /\ DOMAIN req' = Requests
  BY <1>1, <1>4 DEF ContractInv, BreachesOnce
<1>. QED
  BY <1>3, <1>5, <1>6, <1>7, <1>8 DEF ContractInv

\* An upsert makes the next version of the rows it finds, or a first version.
LEMMA UpsertEffect ==
    ASSUME NEW d, NEW count \in Nat, ContractTables(d, count), NEW t, NEW body,
           NEW e, e = UpsertContract(d, t, body, count + 1).db
    PROVE  /\ ContractTables(e, count + 1) /\ e.breaches = d.breaches
           /\ \A i \in DOMAIN e.contracts :
                 \/ i \in DOMAIN d.contracts /\ e.contracts[i] = d.contracts[i]
                 \/ /\ e.contracts[i].tenant = t /\ e.contracts[i].asset = body.asset
                    /\ \/ /\ i \in DOMAIN d.contracts /\ d.contracts[i].tenant = t
                          /\ e.contracts[i].id = d.contracts[i].id
                          /\ e.contracts[i].version = d.contracts[i].version + 1
                       \/ e.contracts[i].id = count + 1 /\ e.contracts[i].version = 1
<1> DEFINE P(c) == c.tenant = t /\ c.asset = body.asset
           New(c) == ContractRow(c.id, c.version + 1, t, body)
<1>1. PICK A : A = d.contracts
  OBVIOUS
<1>2. IsSeq(A) /\ \A i \in DOMAIN A : A[i].id \in Nat /\ A[i].id <= count /\ A[i].version \in Nat
  BY <1>1 DEF ContractTables
<1>3. \A id, v : LET c == ContractRow(id, v, t, body) IN c.id = id /\ c.version = v /\ c.tenant = t /\ c.asset = body.asset
  BY DEF ContractRow
<1>4. \E N : e = [d EXCEPT !.contracts = N] /\ N = IF Where(A, P) = {} THEN Append(A, ContractRow(count + 1, 1, t, body)) ELSE Set(A, P, New)
  BY <1>1, Zenon DEF UpsertContract, Ok
<1>5. PICK N : e = [d EXCEPT !.contracts = N] /\ N = IF Where(A, P) = {} THEN Append(A, ContractRow(count + 1, 1, t, body)) ELSE Set(A, P, New)
  BY <1>4
<1>6. IsRecord(e) /\ DOMAIN e = DOMAIN d /\ e.contracts = N /\ e.breaches = d.breaches
  BY <1>5 DEF ContractTables, IsRecord
<1>7. CASE Where(A, P) = {}
  <2>1. PICK c : c = ContractRow(count + 1, 1, t, body)
    OBVIOUS
  <2>2. N = Append(A, c)
    BY <1>5, <1>7, <2>1
  <2>3. c.id = count + 1 /\ c.version = 1 /\ c.tenant = t /\ c.asset = body.asset
    BY <1>3, <2>1
  <2>4. /\ Len(A) \in Nat /\ DOMAIN A = 1..Len(A) /\ IsSeq(N) /\ DOMAIN N = 1..(Len(A) + 1)
        /\ N[Len(A) + 1] = c /\ \A i \in DOMAIN A : N[i] = A[i]
    BY <1>2, <2>2, AppendIsSeq
  <2>5. DOMAIN N = DOMAIN A \cup {Len(A) + 1}
    BY <2>4
  <2>6. ContractTables(e, count + 1)
    <3>1. /\ \A i \in DOMAIN N : N[i].id \in Nat /\ N[i].id <= count + 1 /\ N[i].version \in Nat
          /\ \A i, j \in DOMAIN N : N[i].id = N[j].id => i = j
      <4>1. ASSUME NEW i \in DOMAIN A PROVE N[i].id \in Nat /\ N[i].id <= count /\ N[i].version \in Nat
        BY <1>2, <2>4
      <4>2. N[Len(A) + 1].id = count + 1 /\ N[Len(A) + 1].version = 1
        BY <2>3, <2>4
      <4>3. \A i, j \in DOMAIN A : N[i].id = N[j].id => i = j
        BY <1>1, <2>4 DEF ContractTables
      <4>. QED
        BY <2>5, <4>1, <4>2, <4>3
    <3>2. /\ \A i \in DOMAIN d.breaches :
                /\ d.breaches[i].id \in Nat /\ d.breaches[i].id <= count + 1
                /\ d.breaches[i].base \in Int /\ d.breaches[i].base <= count + 1
          /\ \A i, j \in DOMAIN d.breaches : i < j => d.breaches[i].id < d.breaches[j].id
      BY DEF ContractTables
    <3>3. IsSeq(d.breaches) /\ {"contracts", "breaches"} \subseteq DOMAIN e
      BY <1>6 DEF ContractTables
    <3>. QED
      BY <1>6, <2>4, <3>1, <3>2, <3>3 DEF ContractTables
  <2>. QED
    BY <1>1, <1>6, <2>3, <2>4, <2>5, <2>6
<1>8. CASE Where(A, P) # {}
  <2>1. N = [i \in DOMAIN A |-> IF P(A[i]) THEN New(A[i]) ELSE A[i]]
    BY <1>5, <1>8, Zenon DEF Set
  <2>2. DOMAIN N = DOMAIN A /\ IsRecord(N)
    BY <2>1, Zenon DEF IsRecord
  <2>3. ASSUME NEW i \in DOMAIN A
        PROVE  \/ N[i] = A[i]
               \/ /\ A[i].tenant = t /\ N[i].id = A[i].id /\ N[i].version = A[i].version + 1
                  /\ N[i].tenant = t /\ N[i].asset = body.asset
    <3>1. CASE P(A[i])
      <4>1. N[i] = ContractRow(A[i].id, A[i].version + 1, t, body)
        BY <2>1, <3>1, Zenon
      <4>. QED
        BY <1>3, <3>1, <4>1
    <3>2. CASE ~P(A[i])
      <4>1. N[i] = A[i]
        BY <2>1, <3>2, Zenon
      <4>. QED
        BY <4>1
    <3>. QED
      BY <3>1, <3>2
  <2>4. IsSeq(N)
    BY <1>2, <2>2, FunctionIsSeq
  <2>5. \A i \in DOMAIN A : N[i].id = A[i].id /\ N[i].version \in Nat
    BY <1>2, <2>3
  <2>6. ContractTables(e, count + 1)
    BY <1>1, <1>2, <1>6, <2>2, <2>4, <2>5 DEF ContractTables
  <2>. QED
    BY <1>1, <1>6, <2>2, <2>3, <2>6
<1>. QED
  BY <1>7, <1>8

\* An upsert declares a version that nobody had declared; what was declared stays.
LEMMA UpsertContractStep ==
    ASSUME ContractInv, NEW r \in Requests, NEW p \in People, UpsertContractRequest(r, p)
    PROVE  ContractInv'
<1> DEFINE Saved(d, body) == Rows(d.contracts, LAMBDA c : c.tenant = p.tenant /\ c.asset = body.asset)
           Keys(S) == {<<c.id, c.version>> : c \in S}
<1>1. /\ req[r] = Idle /\ UNCHANGED <<announced, lost>> /\ minted' = minted + 1 /\ minted \in Nat
      /\ ContractTables(db, minted) /\ DeclaredRight(db.contracts)
  BY DEF UpsertContractRequest, Admitted, Begin, ContractInv
<1>2. PICK body \in Declarations :
         LET answer == UpsertChecked(p.tenant, body)
             saved == Rows(answer.db.contracts, LAMBDA c : c.tenant = p.tenant /\ c.asset = body.asset)
             keys == {<<c.id, c.version>> : c \in saved}
         IN  /\ Finish(r, answer)
             /\ declared' = [key \in DOMAIN declared \cup keys |->
                                 IF key \in DOMAIN declared THEN declared[key]
                                 ELSE CHOOSE c \in saved : <<c.id, c.version>> = key]
  BY Zenon DEF UpsertContractRequest
<1>3. PICK e, S : /\ e = UpsertChecked(p.tenant, body).db /\ S = Rows(e.contracts, LAMBDA c : c.tenant = p.tenant /\ c.asset = body.asset)
                  /\ db' = e
                  /\ declared' = [key \in DOMAIN declared \cup Keys(S) |->
                                     IF key \in DOMAIN declared THEN declared[key]
                                     ELSE CHOOSE c \in S : <<c.id, c.version>> = key]
  BY <1>2, Zenon DEF Finish, Then
<1>4. req' = [req EXCEPT ![r] = Idle]
  BY <1>2 DEF Finish, Then, Goto
<1>5. S = {e.contracts[i] : i \in {i \in DOMAIN e.contracts : e.contracts[i].tenant = p.tenant /\ e.contracts[i].asset = body.asset}}
  BY <1>3, Zenon DEF Rows, Where
<1>6. /\ ContractTables(e, minted + 1) /\ e.breaches = db.breaches
      /\ \A i \in DOMAIN e.contracts :
            \/ i \in DOMAIN db.contracts /\ e.contracts[i] = db.contracts[i]
            \/ /\ e.contracts[i].tenant = p.tenant /\ e.contracts[i].asset = body.asset
               /\ \/ /\ i \in DOMAIN db.contracts /\ db.contracts[i].tenant = p.tenant
                     /\ e.contracts[i].id = db.contracts[i].id
                     /\ e.contracts[i].version = db.contracts[i].version + 1
                  \/ e.contracts[i].id = minted + 1 /\ e.contracts[i].version = 1
  <2>1. CASE body.asset = Blank
    <3>1. e = db
      BY <1>3, <2>1 DEF UpsertChecked, Fails
    <3>. QED
      BY <1>1, <3>1 DEF ContractTables
  <2>2. CASE body.asset # Blank
    <3>1. PICK full : full = Defaulted(body)
      OBVIOUS
    <3>2. full.asset = body.asset
      BY <3>1 DEF Defaulted
    <3>3. e = UpsertContract(db, p.tenant, full, minted + 1).db
      BY <1>3, <2>2, <3>1, Zenon DEF UpsertChecked
    <3>. QED
      BY <1>1, <3>2, <3>3, UpsertEffect
  <2>. QED
    BY <2>1, <2>2
<1>7. PICK N, A : N = e.contracts /\ A = db.contracts
  OBVIOUS
<1>8. \A i, j \in DOMAIN N : N[i].id = N[j].id => i = j
  BY <1>6, <1>7 DEF ContractTables
<1>9. \A i \in DOMAIN N : N[i] \in S \/ (i \in DOMAIN A /\ N[i] = A[i])
  BY <1>5, <1>6, <1>7
<1>10. \A c \in S : c.tenant = p.tenant /\ \E i \in DOMAIN N : c = N[i]
  BY <1>5, <1>7
<1> HIDE DEF Saved
<1>11. /\ DOMAIN declared' = DOMAIN declared \cup Keys(S) /\ IsRecord(declared)'
       /\ \A k \in DOMAIN declared : k \in DOMAIN declared' /\ declared'[k] = declared[k]
  <2> DEFINE G(key) == IF key \in DOMAIN declared THEN declared[key]
                       ELSE CHOOSE c \in S : <<c.id, c.version>> = key
  <2>3. PICK K, f : K = DOMAIN declared \cup Keys(S) /\ f = declared'
    OBVIOUS
  <2>4. f = [key \in K |-> G(key)]
    BY <1>3, <2>3, Zenon
  <2> HIDE DEF G
  <2>5. DOMAIN f = K /\ IsRecord(f)
    BY <2>4, Zenon DEF IsRecord
  <2>1. DOMAIN declared' = DOMAIN declared \cup Keys(S) /\ IsRecord(declared)'
    BY <2>3, <2>5 DEF IsRecord
  <2>2. ASSUME NEW k \in DOMAIN declared PROVE declared'[k] = declared[k]
    BY <1>3
  <2>. QED
    BY <2>1, <2>2
<1>12. ASSUME NEW c \in S, <<c.id, c.version>> \notin DOMAIN declared
       PROVE  declared'[<<c.id, c.version>>] = c
  <2>1. PICK key : key = <<c.id, c.version>>
    OBVIOUS
  <2>2. key \in Keys(S) /\ key \notin DOMAIN declared
    BY <1>12, <2>1
  <2>3. declared'[key] = CHOOSE x \in S : <<x.id, x.version>> = key
    BY <1>3, <2>2
  <2>4. \A x \in S : <<x.id, x.version>> = key => x = c
    BY <1>8, <1>10, <2>1
  <2> HIDE DEF Keys
  <2>5. declared'[key] \in S /\ <<declared'[key].id, declared'[key].version>> = key
    BY <2>1, <2>3
  <2>. QED
    BY <2>1, <2>4, <2>5
<1>13. /\ \A k \in DOMAIN declared : k = <<k[1], k[2]>> /\ k[1] \in Nat /\ k[1] <= minted /\ k[2] \in Nat
       /\ \A k, l \in DOMAIN declared : k[1] = l[1] => declared[k].tenant = declared[l].tenant
       /\ \A i \in DOMAIN A :
             /\ <<A[i].id, A[i].version>> \in DOMAIN declared
             /\ declared[<<A[i].id, A[i].version>>] = A[i]
             /\ \A k \in DOMAIN declared : k[1] = A[i].id => k[2] <= A[i].version
  BY <1>1, <1>7 DEF DeclaredRight
<1>14. \A i \in DOMAIN A : A[i].id \in Nat /\ A[i].id <= minted /\ A[i].version \in Nat
  BY <1>1, <1>7 DEF ContractTables
<1>15. \A i \in DOMAIN N : N[i].id \in Nat /\ N[i].id <= minted + 1 /\ N[i].version \in Nat
  BY <1>6, <1>7 DEF ContractTables
\* A row that is saved is one of those declared, or a version nobody had declared.
<1>16. ASSUME NEW i \in DOMAIN N
       PROVE  /\ <<N[i].id, N[i].version>> \in DOMAIN declared' /\ declared'[<<N[i].id, N[i].version>>] = N[i]
              /\ \A k \in DOMAIN declared : k[1] = N[i].id => /\ k[2] <= N[i].version
                                                              /\ declared[k].tenant = N[i].tenant
  <2>1. CASE i \in DOMAIN A /\ N[i] = A[i]
    <3>1. ASSUME NEW k \in DOMAIN declared, k[1] = N[i].id PROVE declared[k].tenant = N[i].tenant
      <4>1. PICK l : l = <<N[i].id, N[i].version>>
        OBVIOUS
      <4>2. l \in DOMAIN declared /\ declared[l] = N[i] /\ l[1] = N[i].id
        BY <1>13, <2>1, <4>1
      <4>. QED
        BY <1>13, <3>1, <4>2
    <3>. QED
      BY <1>11, <1>13, <2>1, <3>1
  <2>2. CASE ~(i \in DOMAIN A /\ N[i] = A[i])
    <3>1. N[i] \in S
      BY <1>9, <2>2
    <3>2. \/ i \in DOMAIN A /\ A[i].tenant = p.tenant /\ N[i].id = A[i].id /\ N[i].version = A[i].version + 1
          \/ N[i].id = minted + 1 /\ N[i].version = 1
      BY <1>6, <1>7, <2>2
    <3>3. N[i].tenant = p.tenant
      BY <1>10, <3>1
    <3>4. CASE i \in DOMAIN A /\ A[i].tenant = p.tenant /\ N[i].id = A[i].id /\ N[i].version = A[i].version + 1
      <4>1. ASSUME NEW k \in DOMAIN declared, k[1] = N[i].id
            PROVE  k[2] < N[i].version /\ k[2] <= N[i].version /\ declared[k].tenant = N[i].tenant
        <5>1. k[2] \in Nat /\ k[2] <= A[i].version /\ A[i].version \in Nat
          BY <1>13, <1>14, <3>4, <4>1
        <5>2. declared[k].tenant = A[i].tenant
          BY <1>13, <3>4, <4>1, ZenonT(60)
        <5>. QED
          BY <3>3, <3>4, <5>1, <5>2
      <4>2. <<N[i].id, N[i].version>> \notin DOMAIN declared
        <5>1. PICK key : key = <<N[i].id, N[i].version>>
          OBVIOUS
        <5>2. key[1] = N[i].id /\ key[2] = N[i].version /\ N[i].version \in Nat
          BY <1>15, <5>1
        <5>. QED
          BY <1>13, <4>1, <5>1, <5>2
      <4>. QED
        BY <1>11, <1>12, <3>1, <4>1, <4>2
    <3>5. CASE N[i].id = minted + 1
      <4>1. \A k \in DOMAIN declared : k[1] # N[i].id
        BY <1>1, <1>13, <3>5
      <4>2. <<N[i].id, N[i].version>> \notin DOMAIN declared
        <5>1. PICK key : key = <<N[i].id, N[i].version>>
          OBVIOUS
        <5>2. key[1] = N[i].id
          BY <5>1
        <5>. QED
          BY <4>1, <5>1, <5>2
      <4>. QED
        BY <1>11, <1>12, <3>1, <4>1, <4>2
    <3>. QED
      BY <3>2, <3>4, <3>5
  <2>. QED
    BY <2>1, <2>2
<1>17. ASSUME NEW k \in DOMAIN declared' PROVE k \in DOMAIN declared \/ \E i \in DOMAIN N : N[i] \in S /\ k = <<N[i].id, N[i].version>>
  BY <1>10, <1>11
<1>18. DeclaredRight(N)'
  <2>1. ASSUME NEW k \in DOMAIN declared'
        PROVE  k = <<k[1], k[2]>> /\ k[1] \in Nat /\ k[1] <= minted' /\ k[2] \in Nat
    <3>1. CASE k \in DOMAIN declared
      BY <1>1, <1>13, <3>1
    <3>2. CASE \E i \in DOMAIN N : N[i] \in S /\ k = <<N[i].id, N[i].version>>
      BY <1>1, <1>15, <3>2
    <3>. QED
      BY <1>17, <2>1, <3>1, <3>2
  <2>2. ASSUME NEW k \in DOMAIN declared', NEW l \in DOMAIN declared', k[1] = l[1]
        PROVE  declared'[k].tenant = declared'[l].tenant
    <3>1. ASSUME NEW x \in DOMAIN declared, NEW i \in DOMAIN N, x[1] = N[i].id
          PROVE  declared'[x].tenant = declared'[<<N[i].id, N[i].version>>].tenant
      BY <1>11, <1>16, <3>1
    <3>2. ASSUME NEW i \in DOMAIN N, NEW j \in DOMAIN N, N[i].id = N[j].id PROVE i = j
      BY <1>8, <3>2
    <3>3. \A x \in DOMAIN declared' : x \in DOMAIN declared \/ \E i \in DOMAIN N : x = <<N[i].id, N[i].version>> /\ x[1] = N[i].id
      BY <1>17
    <3>4. CASE k \in DOMAIN declared /\ l \in DOMAIN declared
      BY <1>11, <1>13, <2>2, <3>4
    <3>5. CASE k \notin DOMAIN declared /\ l \in DOMAIN declared
      BY <2>2, <3>1, <3>3, <3>5
    <3>6. CASE k \in DOMAIN declared /\ l \notin DOMAIN declared
      BY <2>2, <3>1, <3>3, <3>6
    <3>7. CASE k \notin DOMAIN declared /\ l \notin DOMAIN declared
      BY <2>2, <3>2, <3>3, <3>7
    <3>. QED
      BY <3>4, <3>5, <3>6, <3>7
  <2>3. ASSUME NEW i \in DOMAIN N, NEW k \in DOMAIN declared', k[1] = N[i].id PROVE k[2] <= N[i].version
    <3>1. CASE k \in DOMAIN declared
      BY <1>16, <2>3, <3>1
    <3>2. CASE \E j \in DOMAIN N : k = <<N[j].id, N[j].version>>
      BY <1>8, <1>15, <2>3, <3>2
    <3>. QED
      BY <1>17, <2>3, <3>1, <3>2
  <2>. QED
    BY <1>11, <1>16, <2>1, <2>2, <2>3 DEF DeclaredRight
<1>19. ContractTables(db, minted)' /\ db'.breaches = db.breaches /\ db'.contracts = N
  BY <1>1, <1>3, <1>6, <1>7
<1>20. DeclaredRight(db.contracts)'
  BY <1>18, <1>19 DEF DeclaredRight
<1>21. minted' \in Nat /\ minted <= minted'
  BY <1>1
<1>22. Survive(db.breaches, db'.breaches)
  BY <1>19 DEF Survive
<1>. QED
  BY <1>1, <1>4, <1>11, <1>19, <1>20, <1>21, <1>22, TablesChange

\* What is left without a contract and its breaches.
LEMMA DeleteEffect ==
    ASSUME NEW d, NEW count, ContractTables(d, count), NEW t, NEW id, NEW e, e = DeleteContract(d, t, id).db
    PROVE  /\ ContractTables(e, count)
           /\ Among(e.contracts, d.contracts)
           /\ Survive(d.breaches, e.breaches)
<1> DEFINE P(c) == c.tenant = t /\ c.id = id
           Q(b) == b.contract = id
<1>1. PICK A, B : A = d.contracts /\ B = d.breaches
  OBVIOUS
<1>2. IsSeq(A) /\ IsSeq(B)
  BY <1>1 DEF ContractTables
<1>3. CASE Where(A, P) = {}
  <2>1. e = d
    BY <1>1, <1>3, Zenon DEF DeleteContract, Ok
  <2>2. \A n, m \in DOMAIN B : n < m => \E i, j \in DOMAIN B : i < j /\ B[n] = B[i] /\ B[m] = B[j]
    OBVIOUS
  <2>3. Survive(B, B) /\ Among(A, A)
    BY <2>2 DEF Survive, Among
  <2>. QED
    BY <1>1, <2>1, <2>3
<1>4. CASE Where(A, P) # {}
  <2> DEFINE ka == {i \in DOMAIN A : ~P(A[i])}
             kb == {i \in DOMAIN B : ~Q(B[i])}
             na == KeptOf(A, ka)
             nb == KeptOf(B, kb)
  <2>1. e = [d EXCEPT !.contracts = Without(A, P), !.breaches = Without(B, Q)]
    BY <1>1, <1>4, Zenon DEF DeleteContract, Ok
  <2>2. Without(A, P) = na /\ Without(B, Q) = nb
    BY Zenon DEF Without, Where, KeptOf, Chosen
  <2>3. ka \in SUBSET (DOMAIN A) /\ kb \in SUBSET (DOMAIN B) /\ \A i \in DOMAIN B : i \in kb <=> B[i].contract # id
    OBVIOUS
  <2> HIDE DEF ka, kb
  <2>4. IsSeq(na) /\ Thinned(A, ka, na) /\ IsSeq(nb) /\ Thinned(B, kb, nb)
    BY <1>2, <2>3, DeleteThins
  <2>5. PICK C, D : C = na /\ D = nb
    OBVIOUS
  <2>6. e = [d EXCEPT !.contracts = C, !.breaches = D]
    BY <2>1, <2>2, <2>5
  <2> HIDE DEF na, nb
  <2>7. IsRecord(e) /\ DOMAIN e = DOMAIN d /\ e.contracts = C /\ e.breaches = D
    BY <2>6 DEF ContractTables, IsRecord
  <2>8. Thinned(A, ka, C) /\ Thinned(B, kb, D) /\ IsSeq(C) /\ IsSeq(D)
    BY <2>4, <2>5
  <2>9. /\ \A n \in DOMAIN C : \E i \in DOMAIN A : C[n] = A[i]
        /\ \A n \in DOMAIN D : \E i \in DOMAIN B : i \in kb /\ D[n] = B[i]
        /\ \A n, m \in DOMAIN C : n < m => \E i, j \in DOMAIN A : i < j /\ C[n] = A[i] /\ C[m] = A[j]
        /\ \A n, m \in DOMAIN D : n < m => \E i, j \in DOMAIN B : i < j /\ D[n] = B[i] /\ D[m] = B[j]
        /\ \A i \in kb : \E n \in DOMAIN D : D[n] = B[i]
    BY <2>3, <2>8 DEF Thinned
  <2>10. \A i \in DOMAIN B, m \in DOMAIN D : B[i].contract = D[m].contract => \E n \in DOMAIN D : D[n] = B[i]
    BY <2>3, <2>9
  <2>11. /\ \A i \in DOMAIN A : A[i].id \in Nat /\ A[i].id <= count /\ A[i].version \in Nat
         /\ \A i, j \in DOMAIN A : A[i].id = A[j].id => i = j
         /\ \A i \in DOMAIN B : B[i].id \in Nat /\ B[i].id <= count /\ B[i].base \in Int /\ B[i].base <= count
         /\ \A i, j \in DOMAIN B : i < j => B[i].id < B[j].id
    BY <1>1 DEF ContractTables
  <2>12. ASSUME NEW n \in DOMAIN C, NEW m \in DOMAIN C, C[n].id = C[m].id PROVE n = m
    <3>1. n \in Int /\ m \in Int
      BY <2>8 DEF IsSeq
    <3>2. \A i \in DOMAIN A : i \in Int
      BY <1>2 DEF IsSeq
    <3>3. ~(n < m)
      BY <2>9, <2>11, <2>12, <3>2
    <3>4. ~(m < n)
      BY <2>9, <2>11, <2>12, <3>2
    <3>. QED
      BY <3>1, <3>3, <3>4
  <2>13. /\ \A n \in DOMAIN C : C[n].id \in Nat /\ C[n].id <= count /\ C[n].version \in Nat
         /\ \A n \in DOMAIN D : D[n].id \in Nat /\ D[n].id <= count /\ D[n].base \in Int /\ D[n].base <= count
         /\ \A n, m \in DOMAIN D : n < m => D[n].id < D[m].id
    BY <2>9, <2>11
  <2>14. {"contracts", "breaches"} \subseteq DOMAIN e
    BY <2>7 DEF ContractTables
  <2>15. ContractTables(e, count)
    BY <2>7, <2>8, <2>12, <2>13, <2>14 DEF ContractTables
  <2>16. Survive(B, D) /\ Among(C, A)
    BY <2>9, <2>10 DEF Survive, Among
  <2>. QED
    BY <1>1, <2>7, <2>9, <2>15, <2>16
<1>. QED
  BY <1>3, <1>4

\* The breaches of the other contracts are as they were.
LEMMA DeleteContractStep ==
    ASSUME ContractInv, NEW r \in Requests, NEW p \in People, DeleteContractRequest(r, p)
    PROVE  ContractInv'
<1>1. /\ req[r] = Idle /\ UNCHANGED <<announced, lost, declared, minted>> /\ minted \in Nat
      /\ ContractTables(db, minted) /\ DeclaredRight(db.contracts)
  BY DEF DeleteContractRequest, Admitted, Begin, ContractInv, cvars
<1>2. PICK id : Finish(r, DeleteContract(db, p.tenant, id))
  BY DEF DeleteContractRequest
<1>3. PICK e : e = DeleteContract(db, p.tenant, id).db
  OBVIOUS
<1>4. db' = e /\ req' = [req EXCEPT ![r] = Idle]
  BY <1>2, <1>3 DEF Finish, Then, Goto
<1>5. PICK B, C, t : B = db.breaches /\ C = e.breaches /\ t = p.tenant
  OBVIOUS
<1>6. ContractTables(e, minted) /\ Among(e.contracts, db.contracts) /\ Survive(B, C)
  <2>1. PICK d, n : d = db /\ n = minted
    OBVIOUS
  <2>2. ContractTables(d, n) /\ e = DeleteContract(d, t, id).db
    BY <1>1, <1>3, <1>5, <2>1
  <2>3. ContractTables(e, n)
    BY <2>2, DeleteEffect
  <2>4. Among(e.contracts, d.contracts)
    BY <2>2, DeleteEffect
  <2>5. Survive(d.breaches, e.breaches)
    BY <2>2, DeleteEffect
  <2>. QED
    BY <1>5, <2>1, <2>3, <2>4, <2>5
<1>7. DeclaredRight(db.contracts)'
  BY <1>1, <1>4, <1>6 DEF DeclaredRight, Among
<1>8. ContractTables(db, minted)'
  BY <1>1, <1>4, <1>6
<1>9. minted' \in Nat /\ minted <= minted' /\ \A k \in DOMAIN declared : k \in DOMAIN declared' /\ declared'[k] = declared[k]
  BY <1>1
<1>. QED
  <2>1. req' = [req EXCEPT ![r] = Idle] /\ B = db.breaches /\ C = db'.breaches /\ Survive(B, C)
    BY <1>4, <1>5, <1>6
  <2>. QED
    BY <1>1, <1>7, <1>8, <1>9, <2>1, TablesChange

\* Requests and evaluations that hold no contract.
LEMMA IdleSteps ==
    ASSUME ContractInv, NEW r \in Requests,
           \/ RunOnce(r) \/ EvaluateAll(r) \/ EvaluationEnds(r) \/ Evaluated(r)
           \/ \E p \in People : EvaluateContractRequest(r, p) \/ EvaluateAllRequest(r, p)
    PROVE  ContractInv'
<1>1. \A ts, t, todo : Evaluation(ts, t, todo).at = "evaluate"
  BY DEF Evaluation
<1>2. Idle.at = "idle"
  BY DEF Idle
<1>3. UNCHANGED <<db, announced, lost, declared, minted>> /\ ~At(r, "publish")
  BY <1>2 DEF RunOnce, EvaluateAll, EvaluationEnds, Evaluated, EvaluateContractRequest, EvaluateAllRequest,
              Begin, Admitted, Continue, At, cvars
<1>4. ASSUME NEW e, Goto(r, e), e.at \notin {"record", "publish"} PROVE ContractInv'
  <2>1. req' = [req EXCEPT ![r] = e]
    BY <1>4 DEF Goto
  <2>2. EvaluationSound(e) /\ e.at # "publish" /\ minted' \in Nat /\ minted <= minted'
    BY <1>3, <1>4 DEF EvaluationSound, ContractInv
  <2>. QED
    BY <1>3, <2>1, <2>2, EvaluationMoves
<1>5. CASE EvaluationEnds(r)
  <2>1. Goto(r, Idle)
    BY <1>5 DEF EvaluationEnds, Answer
  <2>. QED
    BY <1>2, <1>4, <2>1
<1>6. CASE ~EvaluationEnds(r)
  <2>1. \E ts, t, todo : Goto(r, Evaluation(ts, t, todo))
    BY <1>6, Zenon DEF RunOnce, EvaluateAll, Evaluated, EvaluateContractRequest, EvaluateAllRequest
  <2>2. PICK ts, t, todo : Goto(r, Evaluation(ts, t, todo))
    BY <2>1
  <2>3. PICK e : e = Evaluation(ts, t, todo)
    OBVIOUS
  <2>4. e.at = "evaluate" /\ Goto(r, e)
    BY <1>1, <2>2, <2>3
  <2>. QED
    BY <1>4, <2>4
<1>. QED
  BY <1>5, <1>6

\* Whatever is detected is a breach of the contract as it was.
LEMMA DetectedBreaks ==
    ASSUME NEW c, c.status = "active", NEW p, NEW now, NEW found \in DetectBreaches(c, p, now), NEW b \in found
    PROVE  Breaks(b, c)
<1>1. PICK drift \in SchemaDriftBreaches(c, p) : found = drift \cup FreshnessBreach(c, p, now) \cup NullThresholdBreaches(c, p)
  BY DEF DetectBreaches
<1>2. CASE b \in drift
  <2>1. PICK missing, extra, changed :
            /\ missing = DOMAIN c.cols \ DOMAIN p.cols /\ extra = DOMAIN p.cols \ DOMAIN c.cols
            /\ changed = Changed(c, p)
    OBVIOUS
  <2>2. SchemaDriftBreaches(c, p) =
            IF DOMAIN c.cols = {} \/ missing \cup extra \cup DOMAIN changed = {} THEN {{}}
            ELSE {{Breach("schema_drift", <<m, e, changed>>)} : m \in Orders(missing), e \in Orders(extra)}
    BY <2>1, SMT DEF SchemaDriftBreaches
  <2>3. PICK m \in Orders(missing), e \in Orders(extra) : drift = {Breach("schema_drift", <<m, e, changed>>)}
    BY <1>2, <2>2
  <2>4. b.kind = "schema_drift" /\ b.observed[1] = m /\ b.observed[2] = e /\ b.observed[3] = changed
    BY <1>2, <2>3 DEF Breach
  <2>5. \A n \in DOMAIN changed : changed[n][1] = c.cols[n]
    BY <2>1 DEF Changed
  <2>6. Range(m) \subseteq missing /\ Range(e) \subseteq extra
    BY DEF Orders, Range
  <2>7. Range(m) \subseteq DOMAIN c.cols /\ Range(e) \cap DOMAIN c.cols = {}
    BY <2>1, <2>6
  <2>. QED
    BY <2>4, <2>5, <2>7 DEF Breaks
<1>3. CASE b \in FreshnessBreach(c, p, now)
  BY <1>3 DEF FreshnessBreach, Breach, Breaks
<1>4. CASE b \in NullThresholdBreaches(c, p)
  BY <1>4 DEF NullThresholdBreaches, Breach, Breaks
<1>. QED
  BY <1>1, <1>2, <1>3, <1>4

\* The ids up to one are finitely many.
LEMMA UptoIsFinite == ASSUME NEW m \in Int PROVE IsFiniteSet(0..m)
BY FS_Interval

\* What is not among the newest breaches of a contract is not told, or as many
\* newer ones were.
LEMMA UnseenIsUntold ==
    ASSUME ContractInv, NEW t, NEW id, NEW c \in GetContract(db, t, id), NEW b,
           BreachSig(b) \notin {BreachSig(x) : x \in RecentBreaches(t, id)}
    PROVE  Untold(db.breaches, c.id, b, minted)
<1>1. PICK B : B = db.breaches
  OBVIOUS
<1>2. PICK k \in DOMAIN db.contracts : c = db.contracts[k] /\ c.tenant = t /\ c.id = id
  BY DEF GetContract, Rows, Where
<1>3. /\ minted \in Nat /\ IsSeq(B)
      /\ \A i \in DOMAIN B : B[i].id \in Nat /\ B[i].id <= minted
      /\ \A i, j \in DOMAIN B : i < j => B[i].id < B[j].id
  BY <1>1 DEF ContractInv, ContractTables
<1>4. \A i \in DOMAIN B : B[i].contract = id => B[i].tenant = t
  <2>1. <<c.id, c.version>> \in DOMAIN declared /\ declared[<<c.id, c.version>>] = c
    BY <1>2 DEF ContractInv, DeclaredRight
  <2>2. ASSUME NEW i \in DOMAIN B, B[i].contract = id PROVE B[i].tenant = t
    <3>1. PICK key : key = <<B[i].contract, B[i].version>>
      OBVIOUS
    <3>2. key \in DOMAIN declared /\ B[i].tenant = declared[key].tenant /\ key[1] = id
      BY <1>1, <2>2, <3>1 DEF ContractInv, BreachRight
    <3>3. PICK here : here = <<c.id, c.version>>
      OBVIOUS
    <3>4. here \in DOMAIN declared /\ declared[here] = c /\ here[1] = id
      BY <1>2, <2>1, <3>3
    <3>. QED
      BY <1>2, <3>2, <3>4 DEF ContractInv, DeclaredRight
  <2>. QED
    BY <2>2
<1>5. SUFFICES ASSUME NEW i \in DOMAIN B, B[i].contract = id, BreachSig(B[i]) = BreachSig(b)
               PROVE  Excused(B, B[i], minted)
  BY <1>1, <1>2 DEF Untold
<1> DEFINE Of(x) == x.tenant = t /\ x.contract = id
           W == {j \in DOMAIN B : B[j].tenant = t /\ B[j].contract = id}
           newer == {j \in W : j > i}
           P(x) == x.contract = B[i].contract /\ B[i].id < x.id /\ x.id <= minted
           told == {x.id : x \in Rows(B, P)}
<1>6. Limit(Window, 500, 100) = Window /\ Window \in Nat
  BY WindowAssumption DEF Limit
<1>7. RecentBreaches(t, id) = {B[j] : j \in {j \in W : Cardinality({m \in W : m > j}) < Window}}
  <2>1. RecentBreaches(t, id) = Newest(B, Of, Window)
    BY <1>1, <1>6, Zenon DEF RecentBreaches, ListBreachesForContract
  <2>2. Where(B, Of) = W
    BY Zenon DEF Where
  <2>3. Newest(B, Of, Window) = {B[j] : j \in {j \in W : Cardinality({m \in W : m > j}) < Window}}
    BY <2>2, Zenon DEF Newest
  <2>. QED
    BY <2>1, <2>3
<1>8. B[i] \notin RecentBreaches(t, id) /\ i \in W
  BY <1>4, <1>5
<1>9. ~(Cardinality(newer) < Window)
  BY <1>7, <1>8
<1>10. Len(B) \in Nat /\ DOMAIN B = 1..Len(B)
  BY <1>3 DEF IsSeq
<1>11. told = {B[j].id : j \in {j \in DOMAIN B : P(B[j])}}
  BY Zenon DEF Rows, Where
<1>12. newer \subseteq 1..Len(B) /\ told \subseteq 0..minted
  <2>1. newer \subseteq DOMAIN B
    OBVIOUS
  <2>2. \A j \in DOMAIN B : B[j].id \in 0..minted
    BY <1>3
  <2>3. told \subseteq {B[j].id : j \in DOMAIN B}
    BY <1>11
  <2> HIDE DEF newer, told
  <2>. QED
    BY <1>10, <2>1, <2>2, <2>3
<1>13. ASSUME NEW j \in newer PROVE B[j].id \in told
  <2>1. j \in DOMAIN B /\ i < j /\ B[j].contract = B[i].contract
    BY <1>5, <1>10
  <2>2. P(B[j])
    BY <1>3, <2>1
  <2>. QED
    BY <1>11, <2>1, <2>2
<1>14. \A j, m \in newer : B[j].id = B[m].id => j = m
  <2>1. ASSUME NEW j \in newer, NEW m \in newer, B[j].id = B[m].id PROVE j = m
    <3>1. j \in DOMAIN B /\ m \in DOMAIN B /\ j \in Nat /\ m \in Nat
      BY <1>10
    <3>2. ~(j < m) /\ ~(m < j)
      BY <1>3, <2>1, <3>1
    <3>. QED
      BY <3>1, <3>2
  <2>. QED
    BY <2>1
<1> HIDE DEF newer, told
<1>15. IsFiniteSet(newer) /\ IsFiniteSet(told)
  <2> DEFINE n == Len(B)
  <2>1. PICK m : m = minted
    OBVIOUS
  <2>2. n \in Int /\ m \in Int /\ newer \subseteq 1..n /\ told \subseteq 0..m
    BY <1>3, <1>10, <1>12, <2>1
  <2> HIDE DEF n
  <2>3. IsFiniteSet(1..n)
    BY <2>2, FS_Interval
  <2>4. IsFiniteSet(0..m)
    BY <2>2, UptoIsFinite
  <2>. QED
    BY <2>2, <2>3, <2>4, FS_Subset
<1>16. Cardinality(newer) <= Cardinality(told)
  <2> DEFINE f == [j \in newer |-> B[j].id]
  <2>1. f \in [newer -> told] /\ \A j \in newer : f[j] = B[j].id
    BY <1>13
  <2> HIDE DEF f
  <2>2. f \in Injection(newer, told)
    BY <1>14, <2>1 DEF Injection, IsInjective
  <2>. QED
    BY <1>15, <2>2, FS_Injection
<1>17. Cardinality(told) >= Window
  BY <1>6, <1>9, <1>15, <1>16, FS_CardinalityType
<1>. QED
  BY <1>17, Zenon DEF told, Excused

\* An evaluation holds what it found, and has not been told.
LEMMA LoadStep ==
    ASSUME ContractInv, NEW r \in Requests, Evaluate(r) \/ EvaluateBlind(r)
    PROVE  ContractInv'
<1>1. /\ UNCHANGED <<db, announced, lost, declared, minted>> /\ ~At(r, "publish")
      /\ \E base : (base = minted \/ base = -1) /\ Load(r, base)
  BY DEF Evaluate, EvaluateBlind, Continue, At, cvars
<1>2. PICK base : (base = minted \/ base = -1) /\ Load(r, base)
  BY <1>1
<1>3. minted \in Nat
  BY DEF ContractInv
<1> DEFINE id == CHOOSE id \in req[r].todo : \A other \in req[r].todo : id <= other
           rest == Evaluation(req[r].tenants, req[r].tenant, req[r].todo \ {id})
           active == {c \in GetContract(db, req[r].tenant, id) : c.status = "active"}
           seen == IF base = -1 THEN {} ELSE {BreachSig(b) : b \in RecentBreaches(req[r].tenant, id)}
<1>4. \/ Goto(r, rest)
      \/ \E c \in active : \E p \in profile[c.asset] : \E found \in DetectBreaches(c, p, second) :
            Goto(r, Recording(rest, c, base, {b \in found : BreachSig(b) \notin seen}))
  BY <1>2, Zenon DEF Load
<1>5. PICK at : at = id
  OBVIOUS
<1>6. CASE Goto(r, rest)
  <2>1. PICK e : e = rest
    OBVIOUS
  <2>2. e.at = "evaluate"
    BY <2>1 DEF Evaluation
  <2>3. req' = [req EXCEPT ![r] = e]
    BY <1>6, <2>1 DEF Goto
  <2>4. EvaluationSound(e) /\ e.at # "publish" /\ minted' \in Nat /\ minted <= minted'
    BY <1>1, <1>3, <2>2 DEF EvaluationSound
  <2>. QED
    BY <1>1, <2>3, <2>4, EvaluationMoves
<1>7. CASE \E c \in active : \E p \in profile[c.asset] : \E found \in DetectBreaches(c, p, second) :
              Goto(r, Recording(rest, c, base, {b \in found : BreachSig(b) \notin seen}))
  <2>1. PICK c \in active : \E p \in profile[c.asset] : \E found \in DetectBreaches(c, p, second) :
              Goto(r, Recording(rest, c, base, {b \in found : BreachSig(b) \notin seen}))
    BY <1>7
  <2>p. PICK p \in profile[c.asset] : \E found \in DetectBreaches(c, p, second) :
              Goto(r, Recording(rest, c, base, {b \in found : BreachSig(b) \notin seen}))
    BY <2>1
  <2>2. PICK found \in DetectBreaches(c, p, second) :
              Goto(r, Recording(rest, c, base, {b \in found : BreachSig(b) \notin seen}))
    BY <2>p
  <2>3. PICK t : t = req[r].tenant
    OBVIOUS
  <2>4. c \in GetContract(db, t, at) /\ c.status = "active"
    BY <1>5, <2>3
  <2>5. PICK left : left = {b \in found : BreachSig(b) \notin seen}
    OBVIOUS
  <2>6. PICK e : e = Recording(rest, c, base, left)
    OBVIOUS
  <2>7. req' = [req EXCEPT ![r] = e]
    BY <2>2, <2>5, <2>6 DEF Goto
  <2>8. e.at = "record" /\ e.contract = c /\ e.base = base /\ e.found = left
    BY <2>6 DEF Recording
  <2>9. ASSUME NEW b \in left
        PROVE  Breaks(b, c) /\ (base = -1 \/ Untold(db.breaches, c.id, b, base))
    <3>1. b \in found /\ BreachSig(b) \notin seen
      BY <2>5
    <3>2. Breaks(b, c)
      BY <2>2, <2>4, <3>1, DetectedBreaks
    <3>3. CASE base # -1
      <4>1. BreachSig(b) \notin {BreachSig(x) : x \in RecentBreaches(t, at)}
        BY <1>5, <2>3, <3>1, <3>3
      <4>2. Untold(db.breaches, c.id, b, minted)
        BY <2>4, <4>1, UnseenIsUntold
      <4>. QED
        BY <1>2, <3>2, <3>3, <4>2
    <3>. QED
      BY <3>2, <3>3
  <2>10. <<c.id, c.version>> \in DOMAIN declared /\ declared[<<c.id, c.version>>] = c
    <3>1. PICK k \in DOMAIN db.contracts : c = db.contracts[k]
      BY <2>4 DEF GetContract, Rows, Where
    <3>. QED
      BY <3>1 DEF ContractInv, DeclaredRight
  <2>11. base \in Int /\ base <= minted
    BY <1>2, <1>3
  <2>12. EvaluationSound(e)
    BY <2>8, <2>9, <2>10, <2>11 DEF EvaluationSound
  <2>. QED
    <3>1. e.at # "publish" /\ minted' \in Nat /\ minted <= minted'
      BY <1>1, <1>3, <2>8
    <3>. QED
      BY <1>1, <2>7, <2>12, <3>1, EvaluationMoves
<1>. QED
  BY <1>4, <1>6, <1>7

\* A breach that is recorded is new to everybody, and the one who recorded it
\* announces it.
LEMMA SaveBreachStep ==
    ASSUME ContractInv, NEW r \in Requests, SaveBreach(r)
    PROVE  ContractInv'
<1>1. PICK b \in First(req[r].found), v \in VersionOf(r) :
         LET answer == RecordBreach(db, BreachRow(minted + 1, req[r].contract, v, req[r].base, b))
             rest == req[r].found \ {b}
         IN  /\ db' = answer.db
             /\ IF answer.err = "ok" THEN Goto(r, Publishing(req[r], rest, minted + 1)) ELSE Goes(r, rest)
  BY Zenon DEF SaveBreach
<1>2. /\ At(r, "record") /\ UNCHANGED <<announced, lost, declared>> /\ minted' = minted + 1 /\ minted \in Nat
      /\ ContractTables(db, minted) /\ DeclaredRight(db.contracts)
  BY DEF SaveBreach, Continue, ContractInv
<1>3. PICK e : e = req[r]
  OBVIOUS
<1>4. EvaluationSound(e) /\ e.at = "record"
  BY <1>2, <1>3 DEF ContractInv, At
<1>5. PICK c, base, found : c = e.contract /\ base = e.base /\ found = e.found
  OBVIOUS
<1>6. b \in found /\ v = c.version
  BY <1>1, <1>3, <1>5 DEF First, VersionOf
<1>7. PICK row : row = BreachRow(minted + 1, c, v, base, b)
  OBVIOUS
<1>8. /\ row.id = minted + 1 /\ row.tenant = c.tenant /\ row.contract = c.id /\ row.version = c.version /\ row.base = base
      /\ row.kind = b.kind /\ row.observed = b.observed
  BY <1>6, <1>7 DEF BreachRow
<1>9. /\ <<c.id, c.version>> \in DOMAIN declared /\ declared[<<c.id, c.version>>] = c
      /\ base \in Int /\ base <= minted
      /\ \A x \in found : Breaks(x, c) /\ (base = -1 \/ Untold(db.breaches, c.id, x, base))
  BY <1>4, <1>5 DEF EvaluationSound
<1>10. PICK rest : rest = found \ {b}
  OBVIOUS
<1>11. \/ /\ db' = db /\ Goes(r, rest)
       \/ /\ db' = [db EXCEPT !.breaches = Append(@, row)]
          /\ Goto(r, Publishing(e, rest, minted + 1))
  <2>1. PICK answer : answer = RecordBreach(db, row)
    OBVIOUS
  <2>2. db' = answer.db /\ IF answer.err = "ok" THEN Goto(r, Publishing(e, rest, minted + 1)) ELSE Goes(r, rest)
    BY <1>1, <1>3, <1>5, <1>7, <1>10, <2>1
  <2>3. \/ answer = Fails("foreign_key", db)
        \/ answer = Ok([db EXCEPT !.breaches = Append(@, row)])
    BY <2>1, Zenon DEF RecordBreach
  <2>4. \A d : Fails("foreign_key", d).err # "ok" /\ Fails("foreign_key", d).db = d /\ Ok(d).err = "ok" /\ Ok(d).db = d
    BY DEF Fails, Ok
  <2>. QED
    BY <2>2, <2>3, <2>4
<1>12. CASE db' = db /\ Goes(r, rest)
  <2>1. PICK f : f = Recording(e, c, base, rest)
    OBVIOUS
  <2>2. req' = [req EXCEPT ![r] = f]
    BY <1>3, <1>5, <1>12, <2>1 DEF Goes, Goto
  <2>3. f.at = "record" /\ f.contract = c /\ f.base = base /\ f.found = rest
    BY <2>1 DEF Recording
  <2>4. EvaluationSound(f)
    BY <1>9, <1>10, <2>3 DEF EvaluationSound
  <2>5. minted' \in Nat /\ minted <= minted' /\ ~At(r, "publish")
    BY <1>2 DEF At
  <2>. QED
    BY <1>2, <1>12, <2>2, <2>3, <2>4, <2>5, EvaluationMoves
<1>13. CASE db' = [db EXCEPT !.breaches = Append(@, row)] /\ Goto(r, Publishing(e, rest, minted + 1))
  <2>1. PICK f : f = Publishing(e, rest, minted + 1)
    OBVIOUS
  <2>2. f.at = "publish" /\ f.contract = c /\ f.base = base /\ f.found = rest /\ f.breach = minted + 1
    BY <1>5, <2>1 DEF Publishing
  <2>3. req' = [req EXCEPT ![r] = f]
    BY <1>13, <2>1 DEF Goto
  <2>4. IsRecord(req)' /\ DOMAIN req' = Requests /\ req'[r] = f /\ \A q \in Requests \ {r} : req'[q] = req[q]
    BY <2>3 DEF ContractInv, IsRecord
  <2>5. PICK B : B = db.breaches
    OBVIOUS
  <2>6. PICK C : C = Append(B, row)
    OBVIOUS
  <2>7. db' = [db EXCEPT !.breaches = C]
    BY <1>13, <2>5, <2>6
  <2>8. /\ IsRecord(db') /\ DOMAIN db' = DOMAIN db /\ db'.breaches = C /\ db'.contracts = db.contracts
    BY <1>2, <2>7 DEF ContractTables, IsRecord
  <2>9. /\ IsSeq(B)
        /\ \A i \in DOMAIN B : B[i].id \in Nat /\ B[i].id <= minted /\ B[i].base \in Int /\ B[i].base <= minted
        /\ \A i, j \in DOMAIN B : i < j => B[i].id < B[j].id
    BY <1>2, <2>5 DEF ContractTables
  <2>10. PICK n \in Nat : n = Len(B)
    BY <2>9, AppendIsSeq
  <2>11. /\ DOMAIN B = 1..n /\ IsSeq(C) /\ DOMAIN C = 1..(n + 1)
         /\ C[n + 1] = row /\ \A i \in DOMAIN B : C[i] = B[i]
    BY <2>6, <2>9, <2>10, AppendIsSeq
  <2>12. DOMAIN C = DOMAIN B \cup {n + 1} /\ \A i \in DOMAIN B : i \in Nat /\ i < n + 1
    BY <2>10, <2>11
  <2>13. ContractTables(db, minted)'
    <3>1. /\ \A i \in DOMAIN C : C[i].id \in Nat /\ C[i].id <= minted + 1 /\ C[i].base \in Int /\ C[i].base <= minted + 1
          /\ \A i, j \in DOMAIN C : i < j => C[i].id < C[j].id
      <4>1. \A i \in DOMAIN C : C[i].id \in Nat /\ C[i].id <= minted + 1 /\ C[i].base \in Int /\ C[i].base <= minted + 1
        BY <1>2, <1>8, <1>9, <2>9, <2>11, <2>12
      <4>2. ASSUME NEW i \in DOMAIN C, NEW j \in DOMAIN C, i < j PROVE C[i].id < C[j].id
        <5>1. i \in DOMAIN B
          BY <2>10, <2>11, <2>12, <4>2
        <5>2. CASE j \in DOMAIN B
          BY <2>9, <2>11, <4>2, <5>1, <5>2
        <5>3. CASE j = n + 1
          BY <1>2, <1>8, <2>9, <2>11, <5>1, <5>3
        <5>. QED
          BY <2>12, <5>2, <5>3
      <4>. QED
        BY <4>1, <4>2
    <3>. QED
      BY <1>2, <2>8, <2>11, <3>1 DEF ContractTables
  <2>14. DeclaredRight(db.contracts)'
    BY <1>2, <2>8 DEF DeclaredRight
  <2>15. ASSUME NEW a, NEW low \in Int, low <= minted, Excused(B, a, low) PROVE Excused(C, a, low)
    <3>1. \A j \in DOMAIN C : C[j].contract = a.contract /\ C[j].id <= low => \E i \in DOMAIN B : C[j] = B[i]
      BY <1>2, <1>8, <2>11, <2>12, <2>15
    <3>2. \A i \in DOMAIN B : \E j \in DOMAIN C : C[j] = B[i]
      BY <2>11, <2>12
    <3>. QED
      BY <2>15, <3>1, <3>2, ExcusedSame
  <2>16. \A low \in Int : low <= minted => Excused(C, row, low)
    BY <1>2, <1>8 DEF Excused
  <2>17. \A i \in DOMAIN C : BreachRight(C[i])'
    <3>1. \A i \in DOMAIN B : BreachRight(B[i])
      BY <2>5 DEF ContractInv
    <3>2. BreachRight(row)
      <4>1. Breaks(b, c)
        BY <1>6, <1>9
      <4>2. Breaks(row, c)
        BY <1>8, <4>1 DEF Breaks
      <4>. QED
        BY <1>8, <1>9, <4>2 DEF BreachRight
    <3>3. \A i \in DOMAIN C : BreachRight(C[i])
      BY <2>11, <2>12, <3>1, <3>2
    <3>. QED
      BY <1>2, <3>3 DEF BreachRight
  <2>18. Once(C)
    <3>1. Once(B)
      BY <2>5 DEF ContractInv, BreachesOnce
    <3>2. SUFFICES ASSUME NEW i \in DOMAIN C, NEW j \in DOMAIN C,
                          i < j, C[i].contract = C[j].contract, BreachSig(C[i]) = BreachSig(C[j]), C[j].base # -1
                   PROVE  Excused(C, C[i], C[j].base)
      BY DEF Once
    <3>3. i \in DOMAIN B /\ C[i] = B[i]
      BY <2>10, <2>11, <2>12, <3>2
    <3>4. CASE j \in DOMAIN B
      <4>1. Excused(B, C[i], C[j].base) /\ C[j].base \in Int /\ C[j].base <= minted
        BY <2>9, <2>11, <3>1, <3>2, <3>3, <3>4 DEF Once
      <4>. QED
        BY <2>15, <4>1
    <3>5. CASE j = n + 1
      <4>1. Untold(B, c.id, b, base)
        BY <1>6, <1>8, <1>9, <2>5, <2>11, <3>2, <3>5
      <4>2. BreachSig(B[i]) = BreachSig(b) /\ B[i].contract = c.id
        BY <1>8, <2>11, <3>2, <3>3, <3>5 DEF BreachSig
      <4>3. Excused(B, C[i], base)
        BY <3>3, <4>1, <4>2 DEF Untold
      <4>. QED
        BY <1>8, <1>9, <2>11, <2>15, <3>5, <4>3
    <3>. QED
      BY <2>12, <3>4, <3>5
  <2>19. ASSUME NEW id, NEW x, NEW low \in Int, low <= minted, Untold(B, id, x, low) PROVE Untold(C, id, x, low)
    <3>1. SUFFICES ASSUME NEW i \in DOMAIN C, C[i].contract = id, BreachSig(C[i]) = BreachSig(x)
                   PROVE  Excused(C, C[i], low)
      BY DEF Untold
    <3>2. CASE i \in DOMAIN B
      <4>1. Excused(B, C[i], low)
        BY <2>11, <2>19, <3>1, <3>2 DEF Untold
      <4>. QED
        BY <2>15, <2>19, <4>1
    <3>3. CASE i = n + 1
      BY <2>11, <2>16, <2>19, <3>3
    <3>. QED
      BY <2>12, <3>2, <3>3
  <2>20. ASSUME NEW g, EvaluationSound(g) PROVE EvaluationSound(g)'
    BY <1>2, <2>5, <2>8, <2>19, <2>20 DEF EvaluationSound
  <2>21. EvaluationSound(f)'
    <3>1. \A x \in rest : Breaks(x, c) /\ (base = -1 \/ Untold(C, c.id, x, base))
      BY <1>9, <1>10, <2>5, <2>19
    <3>2. minted + 1 \notin announced \cup lost
      BY <1>2 DEF ContractInv
    <3>3. <<c.id, c.version>> \in DOMAIN declared' /\ declared'[<<c.id, c.version>>] = c /\ base <= minted'
      BY <1>2, <1>9
    <3>. QED
      BY <1>2, <1>9, <2>2, <2>8, <3>1, <3>2, <3>3 DEF EvaluationSound
  <2>22. ASSUME NEW q \in Requests PROVE EvaluationSound(req[q])'
    <3>1. PICK g : g = req'[q]
      OBVIOUS
    <3>2. EvaluationSound(g)'
      BY <2>4, <2>20, <2>21, <3>1 DEF ContractInv
    <3>. QED
      BY <3>1, <3>2 DEF EvaluationSound
  <2>23. /\ \A q \in Requests : At(q, "publish") => q # r /\ At(q, "publish")' /\ req'[q] = req[q] /\ req[q].breach \in Nat /\ req[q].breach <= minted
         /\ \A q \in Requests : At(q, "publish")' => q = r \/ At(q, "publish")
    BY <1>2, <2>2, <2>4 DEF At, ContractInv, EvaluationSound
  <2>24. At(r, "publish")' /\ req'[r].breach = minted + 1
    BY <2>2, <2>4 DEF At
  <2>25. OneAnnounces'
    <3>1. \A q, s \in Requests : At(q, "publish") /\ At(s, "publish") /\ req[q].breach = req[s].breach => q = s
      BY DEF ContractInv, OneAnnounces
    <3>2. ASSUME NEW q \in Requests, NEW s \in Requests, At(q, "publish")', At(s, "publish")', req'[q].breach = req'[s].breach
          PROVE  q = s
      BY <1>2, <2>23, <2>24, <3>1, <3>2
    <3>. QED
      BY <2>4, <3>2 DEF OneAnnounces, At
  <2>26. BreachesAnnounced'
    <3>1. /\ announced \cap lost = {}
          /\ \A i \in DOMAIN B : (B[i].id \notin announced \cup lost) <=> \E q \in Requests : At(q, "publish") /\ req[q].breach = B[i].id
      BY <2>5 DEF ContractInv, BreachesAnnounced
    <3>2. ASSUME NEW i \in DOMAIN C
          PROVE  (C[i].id \notin announced \cup lost) <=> \E q \in Requests : At(q, "publish")' /\ req'[q].breach = C[i].id
      <4>1. CASE i \in DOMAIN B
        <5>1. \A q \in Requests : At(q, "publish")' /\ req'[q].breach = B[i].id <=> At(q, "publish") /\ req[q].breach = B[i].id
          BY <1>2, <2>9, <2>23, <2>24, <4>1
        <5>. QED
          BY <2>11, <3>1, <4>1, <5>1
      <4>2. CASE i = n + 1
        <5>1. minted + 1 \notin announced \cup lost
          BY <1>2 DEF ContractInv
        <5>. QED
          BY <1>8, <2>11, <2>24, <4>2, <5>1
      <4>. QED
        BY <2>12, <4>1, <4>2
    <3>. QED
      BY <1>2, <2>8, <3>1, <3>2 DEF BreachesAnnounced
  <2>27. \A x \in announced' \cup lost' : x \in Nat /\ x <= minted'
    BY <1>2 DEF ContractInv
  <2>28. BreachesOnce' /\ \A i \in DOMAIN db'.breaches : BreachRight(db.breaches[i])'
    BY <2>8, <2>17, <2>18 DEF BreachesOnce, BreachRight
  <2>29. minted' \in Nat
    BY <1>2
  <2>. QED
    BY <2>4, <2>13, <2>14, <2>22, <2>25, <2>26, <2>27, <2>28, <2>29 DEF ContractInv
<1>. QED
  BY <1>11, <1>12, <1>13

\* A breach that cannot be recorded is left out.
LEMMA SaveBreachFailsStep ==
    ASSUME ContractInv, NEW r \in Requests, SaveBreachFails(r)
    PROVE  ContractInv'
<1>1. PICK b : Goes(r, req[r].found \ {b})
  BY DEF SaveBreachFails
<1>2. /\ At(r, "record") /\ ~At(r, "publish") /\ UNCHANGED <<db, announced, lost, declared, minted>>
  BY DEF SaveBreachFails, At, cvars
<1>3. PICK e : e = req[r]
  OBVIOUS
<1>4. PICK f : f = Recording(e, e.contract, e.base, e.found \ {b})
  OBVIOUS
<1>5. req' = [req EXCEPT ![r] = f]
  BY <1>1, <1>3, <1>4 DEF Goes, Goto
<1>6. f.at = "record" /\ f.contract = e.contract /\ f.base = e.base /\ f.found = e.found \ {b}
  BY <1>4 DEF Recording
<1>7. EvaluationSound(e) /\ e.at = "record"
  BY <1>2, <1>3 DEF ContractInv, At
<1>8. EvaluationSound(f)
  BY <1>6, <1>7 DEF EvaluationSound
<1>9. minted' \in Nat /\ minted <= minted'
  BY <1>2 DEF ContractInv
<1>. QED
  BY <1>2, <1>5, <1>6, <1>8, <1>9, EvaluationMoves

\* A breach is announced, or lost with the evaluation that was to announce it.
LEMMA AnnouncementEnds ==
    ASSUME ContractInv, NEW r \in Requests, At(r, "publish"), NEW f, f.at # "publish", EvaluationSound(f),
           req' = [req EXCEPT ![r] = f], UNCHANGED <<db, declared, minted>>,
           \/ announced' = announced \cup {req[r].breach} /\ lost' = lost
           \/ announced' = announced /\ lost' = lost \cup {req[r].breach}
    PROVE  ContractInv'
<1>1. IsRecord(req)' /\ DOMAIN req' = Requests /\ req'[r] = f /\ \A q \in Requests \ {r} : req'[q] = req[q]
  BY DEF ContractInv, IsRecord
<1>2. PICK x : x = req[r].breach
  OBVIOUS
<1>3. x \in Nat /\ x <= minted /\ x \notin announced \cup lost
  BY <1>2 DEF ContractInv, EvaluationSound, At
<1>4. announced' \cup lost' = (announced \cup lost) \cup {x} /\ announced' \cap lost' = {}
  BY <1>2, <1>3 DEF ContractInv, BreachesAnnounced
<1>5. \A q \in Requests : At(q, "publish")' <=> At(q, "publish") /\ q # r
  BY <1>1 DEF At
<1>6. \A q \in Requests : At(q, "publish") /\ q # r => req[q].breach # x
  BY <1>2 DEF ContractInv, OneAnnounces
<1>7. ASSUME NEW q \in Requests PROVE EvaluationSound(req[q])'
  <2>1. CASE q = r
    BY <1>1, <2>1 DEF EvaluationSound
  <2>2. CASE q # r
    <3>1. PICK e : e = req[q]
      OBVIOUS
    <3>2. EvaluationSound(e) /\ (e.at = "publish" => e.breach # x)
      BY <1>6, <2>2, <3>1 DEF ContractInv, At
    <3>3. EvaluationSound(e)'
      BY <1>4, <3>2 DEF EvaluationSound
    <3>. QED
      BY <1>1, <2>2, <3>1, <3>3 DEF EvaluationSound
  <2>. QED
    BY <2>1, <2>2
<1>8. OneAnnounces'
  BY <1>1, <1>5 DEF ContractInv, OneAnnounces
<1>9. BreachesAnnounced'
  <2>1. PICK B : B = db.breaches
    OBVIOUS
  <2>2. \A i \in DOMAIN B : (B[i].id \notin announced \cup lost) <=> \E q \in Requests : At(q, "publish") /\ req[q].breach = B[i].id
    BY <2>1 DEF ContractInv, BreachesAnnounced
  <2>3. ASSUME NEW i \in DOMAIN B
        PROVE  (B[i].id \notin announced' \cup lost') <=> \E q \in Requests : At(q, "publish")' /\ req'[q].breach = B[i].id
    <3>1. CASE B[i].id = x
      <4>1. \A q \in Requests : ~(At(q, "publish")' /\ req'[q].breach = x)
        BY <1>1, <1>5, <1>6
      <4>. QED
        BY <1>4, <3>1, <4>1
    <3>2. CASE B[i].id # x
      <4>1. \A q \in Requests : At(q, "publish")' /\ req'[q].breach = B[i].id <=> At(q, "publish") /\ req[q].breach = B[i].id
        BY <1>1, <1>2, <1>5, <3>2
      <4>. QED
        BY <1>4, <2>2, <3>2, <4>1
    <3>. QED
      BY <3>1, <3>2
  <2>. QED
    BY <1>4, <2>1, <2>3 DEF BreachesAnnounced
<1>10. \A y \in announced' \cup lost' : y \in Nat /\ y <= minted'
  BY <1>3, <1>4 DEF ContractInv
<1>11. /\ ContractTables(db, minted)' /\ DeclaredRight(db.contracts)' /\ BreachesOnce'
       /\ \A i \in DOMAIN db'.breaches : BreachRight(db.breaches[i])'
  BY DEF ContractInv, ContractTables, DeclaredRight, BreachesOnce, BreachRight
<1>. QED
  BY <1>1, <1>7, <1>8, <1>9, <1>10, <1>11 DEF ContractInv

\* A breach is announced once.
LEMMA PublishBreachStep ==
    ASSUME ContractInv, NEW r \in Requests, PublishBreach(r)
    PROVE  ContractInv'
<1>1. /\ At(r, "publish") /\ UNCHANGED <<db, declared, minted>>
      /\ announced' = announced \cup {req[r].breach} /\ lost' = lost /\ Goes(r, req[r].found)
  BY DEF PublishBreach, Continue
<1>2. PICK e : e = req[r]
  OBVIOUS
<1>3. PICK f : f = Recording(e, e.contract, e.base, e.found)
  OBVIOUS
<1>4. req' = [req EXCEPT ![r] = f]
  BY <1>1, <1>2, <1>3 DEF Goes, Goto
<1>5. f.at = "record" /\ f.contract = e.contract /\ f.base = e.base /\ f.found = e.found
  BY <1>3 DEF Recording
<1>6. EvaluationSound(e) /\ e.at = "publish"
  BY <1>1, <1>2 DEF ContractInv, At
<1>7. EvaluationSound(f) /\ f.at # "publish"
  BY <1>5, <1>6 DEF EvaluationSound
<1>. QED
  BY <1>1, <1>4, <1>7, AnnouncementEnds

\* What its evaluation had not announced yet is lost.
LEMMA EvaluationDiesStep ==
    ASSUME ContractInv, NEW r \in Requests, EvaluationDies(r)
    PROVE  ContractInv'
<1>1. PICK f : f = Idle
  OBVIOUS
<1>2. f.at # "publish" /\ EvaluationSound(f)
  BY <1>1 DEF Idle, EvaluationSound
<1>3. /\ req' = [req EXCEPT ![r] = f] /\ UNCHANGED <<db, announced, declared, minted>>
      /\ lost' = IF At(r, "publish") THEN lost \cup {req[r].breach} ELSE lost
  BY <1>1 DEF EvaluationDies, Answer, Goto
<1>4. CASE At(r, "publish")
  BY <1>2, <1>3, <1>4, AnnouncementEnds
<1>5. CASE ~At(r, "publish")
  <2>1. minted' \in Nat /\ minted <= minted' /\ lost' = lost
    BY <1>3, <1>5 DEF ContractInv
  <2>. QED
    BY <1>2, <1>3, <1>5, <2>1, EvaluationMoves
<1>. QED
  BY <1>4, <1>5

\* Time passes, an asset is profiled, or nothing happens.
LEMMA ContractStutter ==
    ASSUME ContractInv, ProfileAsset \/ SecondPasses \/ UNCHANGED <<db, req, started, faults, cvars>>
    PROVE  ContractInv'
<1>1. UNCHANGED <<db, req, announced, lost, declared, minted>>
  BY DEF ProfileAsset, SecondPasses, cvars
<1>2. \A e : EvaluationSound(e) => EvaluationSound(e)'
  BY <1>1 DEF EvaluationSound
<1>3. \A b : BreachRight(b) => BreachRight(b)'
  BY <1>1 DEF BreachRight
<1>4. \A r \in Requests : EvaluationSound(req[r])'
  BY <1>1, <1>2 DEF ContractInv, EvaluationSound
<1>5. \A i \in DOMAIN db'.breaches : BreachRight(db.breaches[i])'
  BY <1>1, <1>3 DEF ContractInv, BreachRight
<1>6. ContractTables(db, minted)' /\ DeclaredRight(db.contracts)' /\ BreachesOnce' /\ OneAnnounces' /\ BreachesAnnounced'
  BY <1>1 DEF ContractInv, ContractTables, DeclaredRight, BreachesOnce, OneAnnounces, BreachesAnnounced, At
<1>. QED
  BY <1>1, <1>4, <1>5, <1>6 DEF ContractInv

\* The versions of the start are those declared.
LEMMA ContractInit ==
    ASSUME NEW assets, NEW seed, ContractSeed(seed), InitRequests(seed), InitContracts(assets, seed.contracts)
    PROVE  ContractInv
<1>1. PICK A, B : A = seed.contracts /\ B = seed.breaches
  OBVIOUS
<1>2. /\ db = seed /\ req = [r \in Requests |-> Idle] /\ minted = Len(A) + Len(B)
      /\ announced = {B[i].id : i \in DOMAIN B} /\ lost = {}
      /\ declared = [key \in {<<c.id, c.version>> : c \in Range(A)} |-> CHOOSE c \in Range(A) : <<c.id, c.version>> = key]
  <2>1. db = seed /\ req = [r \in Requests |-> Idle]
    BY Zenon DEF InitRequests
  <2>2. lost = {} /\ minted = Len(A) + Len(B) /\ announced = {B[i].id : i \in DOMAIN B}
    BY <1>1, <2>1, Zenon DEF InitContracts
  <2>3. declared = [key \in {<<c.id, c.version>> : c \in Range(A)} |-> CHOOSE c \in Range(A) : <<c.id, c.version>> = key]
    <3>1. InitContracts(assets, A)
      BY <1>1
    <3>. QED
      BY <3>1, Zenon DEF InitContracts
  <2>. QED
    BY <2>1, <2>2, <2>3, Zenon
<1>3. ContractTables(seed, minted)
  BY <1>1, <1>2 DEF ContractSeed
<1>4. /\ IsSeq(A) /\ IsSeq(B)
      /\ \A i \in DOMAIN A : A[i].id \in Nat /\ A[i].id <= minted /\ A[i].version \in Nat
      /\ \A i, j \in DOMAIN A : A[i].id = A[j].id => i = j
      /\ \A i \in DOMAIN B : B[i].id \in Nat /\ B[i].id <= minted
  BY <1>1, <1>3 DEF ContractTables
<1>5. minted \in Nat
  BY <1>2, <1>4 DEF IsSeq
<1>6. PICK S : S = Range(A)
  OBVIOUS
<1>7. (\A c \in S : \E i \in DOMAIN A : c = A[i]) /\ \A i \in DOMAIN A : A[i] \in S
  BY <1>6 DEF Range
<1>8. ASSUME NEW c \in S PROVE <<c.id, c.version>> \in DOMAIN declared /\ declared[<<c.id, c.version>>] = c
  <2>1. PICK key : key = <<c.id, c.version>>
    OBVIOUS
  <2>2. key \in DOMAIN declared /\ declared[key] = CHOOSE x \in S : <<x.id, x.version>> = key
    BY <1>2, <1>6, <2>1
  <2>3. \A x \in S : <<x.id, x.version>> = key => x = c
    BY <1>4, <1>7, <2>1
  <2>4. declared[key] \in S /\ <<declared[key].id, declared[key].version>> = key
    BY <2>1, <2>2
  <2>. QED
    BY <2>1, <2>2, <2>3, <2>4
<1>9. \A k \in DOMAIN declared : \E i \in DOMAIN A : k = <<A[i].id, A[i].version>>
  BY <1>2, <1>6, <1>7
<1>10. DeclaredRight(A)
  <2>1. IsRecord(declared)
    <3> DEFINE G(key) == CHOOSE c \in Range(A) : <<c.id, c.version>> = key
               K == {<<c.id, c.version>> : c \in Range(A)}
    <3>1. declared = [key \in K |-> G(key)]
      BY <1>2, Zenon
    <3> HIDE DEF G, K
    <3>. QED
      BY <3>1, Zenon DEF IsRecord
  <2>2. \A k \in DOMAIN declared : k = <<k[1], k[2]>> /\ k[1] \in Nat /\ k[1] <= minted /\ k[2] \in Nat
    BY <1>4, <1>9
  <2>3. ASSUME NEW k \in DOMAIN declared, NEW l \in DOMAIN declared, k[1] = l[1] PROVE k = l
    BY <1>4, <1>9, <2>3
  <2>4. \A i \in DOMAIN A :
           /\ <<A[i].id, A[i].version>> \in DOMAIN declared
           /\ declared[<<A[i].id, A[i].version>>] = A[i]
    BY <1>7, <1>8
  <2>5. ASSUME NEW i \in DOMAIN A, NEW k \in DOMAIN declared, k[1] = A[i].id PROVE k[2] <= A[i].version
    BY <1>4, <1>9, <2>5
  <2>. QED
    BY <2>1, <2>2, <2>3, <2>4, <2>5 DEF DeclaredRight
<1>11. \A i \in DOMAIN B : BreachRight(B[i])
  <2>1. ASSUME NEW i \in DOMAIN B PROVE BreachRight(B[i])
    <3>1. PICK j \in DOMAIN A : /\ B[i].contract = A[j].id /\ B[i].version = A[j].version
                                /\ B[i].tenant = A[j].tenant /\ Breaks(B[i], A[j])
      BY <1>1 DEF ContractSeed
    <3>. QED
      BY <1>7, <1>8, <3>1 DEF BreachRight
  <2>. QED
    BY <2>1
<1>12. Once(B)
  BY <1>1 DEF ContractSeed
<1>13. \A r \in Requests : req[r].at = "idle"
  BY <1>2 DEF Idle
<1>14. \A r \in Requests : EvaluationSound(req[r])
  BY <1>13 DEF EvaluationSound
<1>15. OneAnnounces /\ BreachesAnnounced
  BY <1>1, <1>2, <1>13 DEF OneAnnounces, BreachesAnnounced, At
<1>16. IsRecord(req) /\ DOMAIN req = Requests
  BY <1>2, Zenon DEF IsRecord
<1>17. \A x \in announced \cup lost : x \in Nat /\ x <= minted
  BY <1>2, <1>4
<1>18. db.contracts = A /\ db.breaches = B
  BY <1>1, <1>2
<1>19. ContractTables(db, minted) /\ BreachesOnce /\ \A i \in DOMAIN db.breaches : BreachRight(db.breaches[i])
  BY <1>2, <1>3, <1>11, <1>12, <1>18 DEF BreachesOnce
<1>. QED
  BY <1>5, <1>10, <1>14, <1>15, <1>16, <1>17, <1>18, <1>19 DEF ContractInv

\* A breach is told once unless nobody could have known (Service.Evaluate looks
\* at the recent ones), names the version that was broken, and is announced
\* unless its evaluation died, for any contracts, profiles, window, requests and
\* runners, and whatever is edited or deleted meanwhile.
THEOREM BreachesAreReported ==
    ASSUME NEW CONSTANT assets, NEW CONSTANT seed, ContractSeed(seed)
    PROVE  ContractSpec(assets, seed) => []BreachesReported
<1>1. InitRequests(seed) /\ InitContracts(assets, seed.contracts) => ContractInv
  BY ContractInit
<1>2. ContractInv /\ [ContractNext]_<<db, req, started, faults, cvars>> => ContractInv'
  <2> SUFFICES ASSUME ContractInv, [ContractNext]_<<db, req, started, faults, cvars>> PROVE ContractInv'
    OBVIOUS
  <2>1. ASSUME NEW r \in Requests, ContractStep(r) PROVE ContractInv'
    <3>1. CASE \/ RunOnce(r) \/ EvaluateAll(r) \/ EvaluationEnds(r) \/ Evaluated(r)
               \/ \E p \in People : EvaluateContractRequest(r, p) \/ EvaluateAllRequest(r, p)
      BY <3>1, IdleSteps
    <3>2. CASE Evaluate(r) \/ EvaluateBlind(r)
      BY <3>2, LoadStep
    <3>3. CASE SaveBreach(r)
      BY <3>3, SaveBreachStep
    <3>4. CASE SaveBreachFails(r)
      BY <3>4, SaveBreachFailsStep
    <3>5. CASE PublishBreach(r)
      BY <3>5, PublishBreachStep
    <3>6. CASE EvaluationDies(r)
      BY <3>6, EvaluationDiesStep
    <3>7. CASE \E p \in People : UpsertContractRequest(r, p)
      BY <3>7, UpsertContractStep
    <3>8. CASE \E p \in People : DeleteContractRequest(r, p)
      BY <3>8, DeleteContractStep
    <3>. QED
      BY <2>1, <3>1, <3>2, <3>3, <3>4, <3>5, <3>6, <3>7, <3>8 DEF ContractStep
  <2>2. CASE ProfileAsset \/ SecondPasses \/ UNCHANGED <<db, req, started, faults, cvars>>
    BY <2>2, ContractStutter
  <2>. QED
    BY <2>1, <2>2 DEF ContractNext
<1>3. ContractInv => BreachesReported
  <2> SUFFICES ASSUME ContractInv PROVE BreachesReported
    OBVIOUS
  <2>1. VersionHonest
    BY DEF ContractInv, VersionHonest, BreachRight
  <2>. QED
    BY <2>1 DEF ContractInv, BreachesReported
<1>. QED
  BY <1>1, <1>2, <1>3, PTL DEF ContractSpec

-----------------------------------------------------------------------------
(* Migrations.  What has been copied lies in an order: the rows up to a    *)
(* cursor in the order of the column, of which a batch is an initial part, *)
(* and of a snapshot the rows up to one.  An execution knows the same of   *)
(* the rows it holds (ExecutionSound); the plan it was loaded with is the  *)
(* only one there ever is under that id (PlansFixed), and a snapshot that  *)
(* is alone is the only execution of its plan that moves (AloneMoves).     *)

PlanRows ==
    {Seed.plans[i] : i \in DOMAIN Seed.plans}
        \cup {NewPlan(id, p.tenant, form) : id \in Plans, p \in People, form \in Forms}

ExecStages == {"new", "queued", "rejected", "unloaded", "dead", "done", "unfinished"} \cup Moving

Executions ==
    [at : ExecStages, tenant : {p.tenant : p \in People}, plan : PlanRows,
     todo : SUBSET (1..source), last : 0..source, err : BOOLEAN, alone : BOOLEAN]

MigrationTypes ==
    /\ config \in Configs
    /\ started \in 0..MaxRequests
    /\ source \in 0..Len(config.column)
    /\ db = [plans |-> db.plans, runs |-> db.runs]
    /\ db.plans \in Seq(PlanRows)
    /\ dest \in [Plans -> [AllRows -> 0..2]]
    /\ cp \in [Plans -> 0..source]
    /\ exec \in Seq(Executions)

\* An id is given once, to a plan that is never changed.
PlansFixed ==
    /\ \A i \in DOMAIN db.plans : db.plans[i].id <= Len(Seed.plans) + started /\ ValidatePlan(db.plans[i])
    /\ \A i, j \in DOMAIN db.plans : db.plans[i].id = db.plans[j].id => i = j
    /\ \A n \in DOMAIN exec :
          /\ exec[n].plan.id <= Len(Seed.plans) + started
          /\ \A i \in DOMAIN db.plans : db.plans[i].id = exec[n].plan.id => db.plans[i] = exec[n].plan
          /\ \A m \in DOMAIN exec : exec[m].plan.id = exec[n].plan.id => exec[m].plan = exec[n].plan

\* Another row has the cursor of row k.
Tie(k) == \E j \in AllRows \ {k} : Value(j) = Value(k)

\* The rows up to the cursor of row last have been copied.
Covered(plan, last) ==
    \A k \in 1..source : last # 0 /\ Value(k) <= Value(last) => dest[plan][k] > 0 \/ Tie(k)

\* A batch leaves no row out but one with a cursor that another row has too.
BatchExact(e) ==
    \A j \in e.todo, k \in Newer(e.last) : Value(k) <= Value(j) => k \in e.todo \/ Tie(k)

\* The destination has the rows up to count, once.
FirstRows(rows, count) == \A k \in AllRows : rows[k] = IF k <= count THEN 1 ELSE 0

PlanSound(e) ==
    /\ ValidatePlan(e.plan) /\ e.plan.mode # "cdc" /\ e.plan.tenant = e.tenant
    /\ e.at = "truncate" => e.plan.mode = "snapshot"
    /\ e.at \in {"checkpoint", "save"} => e.plan.mode = "incremental"
    /\ e.at \in Moving \ {"connect", "finish"} => Opens(e.tenant, e.plan.src) /\ Opens(e.tenant, e.plan.dst)

CursorSound(e) ==
    e.plan.mode = "incremental" =>
        /\ Covered(e.plan.id, e.last)
        /\ e.at = "insert" => BatchExact(e)

SnapshotSound(e) ==
    e.alone /\ e.plan.write = "truncate_and_replace" =>
        /\ e.at = "select" => FirstRows(dest[e.plan.id], 0)
        /\ e.at = "insert" =>
              \E count, top \in 0..source :
                  count <= top /\ FirstRows(dest[e.plan.id], count) /\ e.todo = (count + 1)..top
        /\ e.at = "finish" /\ ~e.err => \E count \in 0..source : FirstRows(dest[e.plan.id], count)

ExecutionSound(e) == PlanSound(e) /\ CursorSound(e) /\ SnapshotSound(e)

\* A checkpoint covers what is up to it, and belongs to an incremental plan.
CheckpointsSound ==
    \A plan \in Plans : cp[plan] # 0 =>
        /\ Covered(plan, cp[plan])
        /\ \E n \in DOMAIN exec : exec[n].plan.id = plan /\ exec[n].plan.mode = "incremental"

AloneMoves ==
    \A n, m \in DOMAIN exec : Same(n, m) /\ exec[n].at \in Moving /\ exec[m].at \in Moving => ~exec[n].alone

MigrationInvariant ==
    /\ MigrationTypes
    /\ PlansFixed
    /\ \A n \in DOMAIN exec : ExecutionSound(exec[n])
    /\ CheckpointsSound
    /\ AloneMoves
    /\ Foreign(db.plans) = Foreign(Seed.plans)

\* A set of natural numbers that is not empty has a least one.
LEMMA LeastNatural ==
    ASSUME NEW T, T \subseteq Nat, T # {}
    PROVE  \E m \in T : \A n \in T : m <= n
<1> DEFINE Less == {pair \in Nat \X Nat : pair[1] < pair[2]}
<1>1. IsWellFoundedOn(Less, Nat)
  BY NatLessThanWellFounded, Zenon DEF OpToRel
<1>2. PICK m \in T : \A n \in T : ~(<<n, m>> \in Less)
  BY <1>1, WFMin
<1>3. ASSUME NEW n \in T PROVE m <= n
  <2>1. ~(<<n, m>> \in Less)
    BY <1>2
  <2>2. n \in Nat /\ m \in Nat
    OBVIOUS
  <2> QED BY <2>1, <2>2
<1> QED BY <1>3

\* Some member of a finite set has the largest number.
LEMMA LargestMember ==
    ASSUME NEW S, IsFiniteSet(S), S # {}, NEW f, \A x \in S : f[x] \in Nat
    PROVE  \E x \in S : \A y \in S : f[x] >= f[y]
<1> DEFINE Above(x) == {y \in S : f[y] > f[x]}
           T == {Cardinality(Above(x)) : x \in S}
<1>1. \A x \in S : IsFiniteSet(Above(x)) /\ Cardinality(Above(x)) \in Nat
  BY FS_Subset, FS_CardinalityType
<1>2. T \subseteq Nat /\ T # {}
  BY <1>1
<1> HIDE DEF T
<1>3. PICK m \in T : \A n \in T : m <= n
  BY <1>2, LeastNatural
<1> USE DEF T
<1>4. PICK x \in S : m = Cardinality(Above(x))
  OBVIOUS
<1>5. ASSUME NEW y \in S, ~(f[x] >= f[y]) PROVE FALSE
  <2>1. f[x] \in Nat /\ f[y] \in Nat
    OBVIOUS
  <2>2. f[y] > f[x] /\ ~(f[y] > f[y])
    BY <1>5, <2>1
  <2>3. Above(y) \subseteq Above(x)
    BY <2>1, <2>2
  <2>4. y \in Above(x) /\ y \notin Above(y)
    BY <2>2
  <2>5. Cardinality(Above(y)) <= Cardinality(Above(x)) /\ (Cardinality(Above(y)) = Cardinality(Above(x)) => Above(y) = Above(x))
    BY <1>1, <2>3, FS_Subset
  <2>6. Cardinality(Above(y)) \in T
    OBVIOUS
  <2>7. Cardinality(Above(x)) <= Cardinality(Above(y))
    BY <1>3, <1>4, <2>6
  <2> HIDE DEF Above, T
  <2>8. Cardinality(Above(y)) = Cardinality(Above(x))
    BY <1>1, <2>5, <2>7
  <2> QED BY <2>4, <2>5, <2>8
<1> QED BY <1>5

\* The rows of the source table, and the order of their cursors.
LEMMA ColumnFacts ==
    ASSUME config \in Configs
    PROVE  /\ Len(config.column) \in Nat /\ AllRows = 1..Len(config.column)
           /\ Rows0 \in 0..Len(config.column)
           /\ \A k \in AllRows : Value(k) \in Int /\ Text(k) \in Nat
           /\ Text(0) = 0
           /\ \A i, j \in AllRows : i < j => Value(i) <= Value(j)
<1>1. config.column \in Seq([value : Int, text : Nat]) /\ Rows0 \in 0..Len(config.column)
  BY MigrationAssumption
<1>2. \A i, j \in DOMAIN config.column : i < j => config.column[i].value <= config.column[j].value
  BY MigrationAssumption
<1>3. Len(config.column) \in Nat /\ AllRows = 1..Len(config.column)
  BY <1>1 DEF AllRows
<1>4. \A k \in AllRows : config.column[k] \in [value : Int, text : Nat] /\ k # 0
  <2>1. \A k \in 1..Len(config.column) : config.column[k] \in [value : Int, text : Nat]
    BY <1>1, ElementOfSeq
  <2>. QED
    BY <1>3, <2>1
<1>. QED
  BY <1>1, <1>2, <1>3, <1>4 DEF Value, Text, AllRows

\* The constants that are numbers.
LEMMA ConstantFacts ==
    /\ BatchSize \in Nat \ {0} /\ MaxRequests \in Nat
    /\ Len(Seed.plans) \in Nat /\ DOMAIN Seed.plans = 1..Len(Seed.plans)
    /\ Seed.plans \in Seq(PlanRows)
    /\ \A i \in DOMAIN Seed.plans : Seed.plans[i].id = i /\ ValidatePlan(Seed.plans[i])
<1>1. Seed.plans \in Seq({Seed.plans[i] : i \in DOMAIN Seed.plans})
  BY SeedAssumption
<1>2. Len(Seed.plans) \in Nat /\ DOMAIN Seed.plans = 1..Len(Seed.plans)
  BY <1>1
<1>3. \A i \in DOMAIN Seed.plans : Seed.plans[i] \in PlanRows
  BY DEF PlanRows
<1>4. Seed.plans \in [1..Len(Seed.plans) -> {Seed.plans[i] : i \in DOMAIN Seed.plans}]
  BY <1>1
<1>5. Seed.plans \in Seq(PlanRows)
  BY <1>2, <1>3, <1>4
<1>. QED
  BY <1>2, <1>5, MigrationAssumption, SeedAssumption

\* A plan has an id within the bounds.
LEMMA PlanIds == \A plan \in PlanRows : plan.id \in Plans
<1>1. \A i \in DOMAIN Seed.plans : Seed.plans[i].id \in Plans
  BY ConstantFacts DEF Plans
<1>2. \A id \in Plans : \A t, form : NewPlan(id, t, form).id = id
  BY DEF NewPlan
<1>. QED
  BY <1>1, <1>2 DEF PlanRows

\* The cursor that is remembered is that of a row of the batch, or the old one.
LEMMA MaxCursorIs ==
    ASSUME config \in Configs, source \in 0..Len(config.column), NEW last \in 0..source, NEW batch \in SUBSET (1..source)
    PROVE  MaxCursor(last, batch) \in batch \cup {last}
<1> DEFINE S == batch \cup {last}
           f == [k \in S |-> Text(k)]
<1>1. S \subseteq 0..source /\ S # {}
  OBVIOUS
<1>2. IsFiniteSet(S)
  <2>1. source \in Nat
    BY ColumnFacts
  <2>2. IsFiniteSet(0..source)
    BY <2>1, FS_Interval
  <2>. QED
    BY <1>1, <2>2, FS_Subset
<1>3. \A k \in S : f[k] \in Nat /\ f[k] = Text(k)
  <2>1. \A k \in S : k = 0 \/ k \in AllRows
    BY <1>1, ColumnFacts
  <2>. QED
    BY <2>1, ColumnFacts
<1>4. \E k \in S : \A j \in S : Text(k) >= Text(j)
  <2>. HIDE DEF S, f
  <2>1. \E k \in S : \A j \in S : f[k] >= f[j]
    BY <1>1, <1>2, <1>3, LargestMember
  <2>. QED
    BY <1>3, <2>1
<1>. QED
  BY <1>4, Zenon DEF MaxCursor

\* What a statement selects are rows that are there, and leaves out none with
\* a smaller cursor.
LEMMA BatchIsExact ==
    ASSUME config \in Configs, source \in 0..Len(config.column), NEW last \in 0..source
    PROVE  /\ BuildIncrementalSelect(last) \in SUBSET (1..source)
           /\ \A j \in BuildIncrementalSelect(last), k \in Newer(last) :
                 Value(k) <= Value(j) => k \in BuildIncrementalSelect(last) \/ Tie(k)
<1> DEFINE N == Newer(last)
           Less(k) == {j \in N : j < k}
<1>1. BuildIncrementalSelect(last) = {k \in N : Cardinality(Less(k)) < BatchSize}
  BY DEF BuildIncrementalSelect
<1>2. N \subseteq 1..source
  BY DEF Newer
<1>3. source \in Nat /\ 1..source \subseteq AllRows
  BY ColumnFacts
<1>4. IsFiniteSet(N)
  <2>1. IsFiniteSet(1..source)
    BY <1>3, FS_Interval
  <2>. QED
    BY <1>2, <2>1, FS_Subset
<1>5. \A k : IsFiniteSet(Less(k)) /\ Cardinality(Less(k)) \in Nat
  BY <1>4, FS_Subset, FS_CardinalityType
<1>6. BatchSize \in Nat
  BY ConstantFacts
<1>7. ASSUME NEW j \in N, NEW k \in N, Cardinality(Less(j)) < BatchSize, Value(k) <= Value(j),
             ~(Cardinality(Less(k)) < BatchSize)
      PROVE  Tie(k)
  <2>1. ~(k <= j)
    <3>1. ASSUME k <= j PROVE FALSE
      <4>1. \A i \in N : i \in Nat
        BY <1>2, <1>3
      <4>2. Less(k) \subseteq Less(j)
        BY <3>1, <4>1
      <4> HIDE DEF Less, N
      <4>3. Cardinality(Less(k)) <= Cardinality(Less(j))
        BY <1>5, <4>2, FS_Subset
      <4>. QED
        BY <1>5, <1>6, <1>7, <4>3
    <3>. QED
      BY <3>1
  <2>2. j \in AllRows /\ k \in AllRows /\ j \in Nat /\ k \in Nat
    BY <1>2, <1>3
  <2>3. j < k
    BY <2>1, <2>2
  <2>4. Value(j) \in Int /\ Value(k) \in Int /\ Value(j) <= Value(k)
    BY <2>2, <2>3, ColumnFacts
  <2>5. Value(j) = Value(k) /\ j # k
    BY <1>7, <2>3, <2>4, <2>2
  <2>. QED
    BY <2>2, <2>5 DEF Tie
<1>. QED
  <2> HIDE DEF N, Less
  <2>1. \A j \in BuildIncrementalSelect(last) : j \in N /\ Cardinality(Less(j)) < BatchSize
    BY <1>1
  <2>2. \A k \in N : k \in BuildIncrementalSelect(last) \/ ~(Cardinality(Less(k)) < BatchSize)
    BY <1>1
  <2>3. \A j \in BuildIncrementalSelect(last), k \in N :
           Value(k) <= Value(j) => k \in BuildIncrementalSelect(last) \/ Tie(k)
    BY <1>7, <2>1, <2>2
  <2>. QED
    BY <1>2, <2>1, <2>3 DEF N

\* Of rows that follow each other, a full batch is the first BatchSize.
LEMMA FirstOfInterval ==
    ASSUME NEW c \in Nat, NEW top \in Nat, c < top
    PROVE  \E next \in Nat : /\ c < next /\ next <= top
                             /\ FirstOf((c + 1)..top) = (c + 1)..next
                             /\ ((c + 1)..top) \ FirstOf((c + 1)..top) = (next + 1)..top
<1> DEFINE I == (c + 1)..top
           next == IF c + BatchSize <= top THEN c + BatchSize ELSE top
<1>1. BatchSize \in Nat \ {0}
  BY ConstantFacts
<1>2. next \in Nat /\ c < next /\ next <= top
  BY <1>1
<1>3. ASSUME NEW k \in I PROVE Cardinality({j \in I : j < k}) = k - 1 - c
  <2>1. {j \in I : j < k} = (c + 1)..(k - 1)
    OBVIOUS
  <2>2. Cardinality((c + 1)..(k - 1)) = k - 1 - c
    <3>1. CASE k = c + 1
      <4>1. (c + 1)..(k - 1) = {}
        BY <3>1
      <4>. QED
        BY <3>1, <4>1, FS_EmptySet
    <3>2. CASE k # c + 1
      <4>1. c + 1 \in Int /\ k - 1 \in Int /\ c + 1 <= k - 1
        BY <3>2
      <4>2. Cardinality((c + 1)..(k - 1)) = IF c + 1 > k - 1 THEN 0 ELSE (k - 1) - (c + 1) + 1
        BY <4>1, FS_Interval
      <4>. QED
        BY <4>1, <4>2
    <3>. QED
      BY <3>1, <3>2
  <2>. QED
    BY <2>1, <2>2
<1>4. FirstOf(I) = {k \in I : k - 1 - c < BatchSize}
  BY <1>3 DEF FirstOf
<1>5. {k \in I : k - 1 - c < BatchSize} = (c + 1)..next
  BY <1>1
<1>6. I \ ((c + 1)..next) = (next + 1)..top
  BY <1>2
<1>. QED
  <2> HIDE DEF I, next
  <2>1. FirstOf(I) = (c + 1)..next /\ I \ FirstOf(I) = (next + 1)..top
    BY <1>4, <1>5, <1>6
  <2>. QED
    BY <1>2, <2>1 DEF I

\* An execution keeps what it knows when the destination of its plan has the
\* rows it had, and exactly those when it is a snapshot that is alone.
LEMMA SoundThroughCopies ==
    ASSUME config \in Configs, source \in 0..Len(config.column), config' = config, source' = source,
           NEW e \in Executions, ExecutionSound(e),
           e.plan.mode = "incremental" =>
               \A k \in AllRows : dest[e.plan.id][k] > 0 => dest'[e.plan.id][k] > 0,
           e.alone /\ e.plan.write = "truncate_and_replace" /\ e.at \in Moving => dest'[e.plan.id] = dest[e.plan.id]
    PROVE  ExecutionSound(e)'
<1>1. AllRows' = AllRows /\ 1..source \subseteq AllRows
  BY ColumnFacts DEF AllRows
<1>2. \A k : Value(k)' = Value(k) /\ Tie(k)' = Tie(k)
  BY <1>1 DEF Value, Tie
<1>3. PlanSound(e)'
  BY DEF ExecutionSound, PlanSound
<1>4. CursorSound(e)'
  <2>1. Newer(e.last)' = Newer(e.last)
    BY <1>2 DEF Newer
  <2>2. BatchExact(e) => BatchExact(e)'
    BY <1>2, <2>1 DEF BatchExact
  <2>3. ASSUME e.plan.mode = "incremental", Covered(e.plan.id, e.last) PROVE Covered(e.plan.id, e.last)'
    BY <1>1, <1>2, <2>3 DEF Covered
  <2>. QED
    BY <2>2, <2>3 DEF ExecutionSound, CursorSound
<1>5. SnapshotSound(e)'
  <2>1. \A rows, count : FirstRows(rows, count)' = FirstRows(rows, count)
    BY <1>1 DEF FirstRows
  <2>2. {"select", "insert", "finish"} \subseteq Moving
    BY DEF Moving
  <2>. QED
    BY <2>1, <2>2 DEF ExecutionSound, SnapshotSound
<1>. QED
  BY <1>3, <1>4, <1>5 DEF ExecutionSound

\* What is covered stays covered as the source grows: a row that appears has
\* a larger cursor, or that of another row.
LEMMA CoveredGrows ==
    ASSUME config \in Configs, source \in 0..Len(config.column), config' = config, source' = source + 1,
           source < Len(config.column), dest' = dest, NEW plan, NEW last \in 0..source, Covered(plan, last)
    PROVE  Covered(plan, last)'
<1>1. AllRows' = AllRows /\ AllRows = 1..Len(config.column) /\ Len(config.column) \in Nat
  BY ColumnFacts DEF AllRows
<1>2. \A k : Value(k)' = Value(k) /\ Tie(k)' = Tie(k)
  BY <1>1 DEF Value, Tie
<1>3. ASSUME last # 0, Value(source + 1) <= Value(last) PROVE Tie(source + 1)
  <2>1. last \in AllRows /\ source + 1 \in AllRows /\ last < source + 1
    BY <1>1, <1>3
  <2>2. Value(last) <= Value(source + 1) /\ Value(last) \in Int /\ Value(source + 1) \in Int
    BY <2>1, ColumnFacts
  <2>3. Value(last) = Value(source + 1)
    BY <1>3, <2>2
  <2>. QED
    BY <2>1, <2>3 DEF Tie
<1>4. \A k \in 1..source' : k \in 1..source \/ k = source + 1
  BY <1>1
<1>5. ASSUME NEW k \in 1..source', last # 0, Value(k) <= Value(last) PROVE dest[plan][k] > 0 \/ Tie(k)
  BY <1>3, <1>4, <1>5 DEF Covered
<1>. QED
  BY <1>2, <1>5 DEF Covered

\* ... and so does what an execution knows.
LEMMA SoundAsSourceGrows ==
    ASSUME config \in Configs, source \in 0..Len(config.column), config' = config, source' = source + 1,
           source < Len(config.column), dest' = dest, NEW e \in Executions, ExecutionSound(e)
    PROVE  ExecutionSound(e)'
<1>1. AllRows' = AllRows /\ AllRows = 1..Len(config.column) /\ Len(config.column) \in Nat
  BY ColumnFacts DEF AllRows
<1>2. \A k : Value(k)' = Value(k) /\ Tie(k)' = Tie(k)
  BY <1>1 DEF Value, Tie
<1>3. PlanSound(e)'
  BY DEF ExecutionSound, PlanSound
<1>4. e.last \in 0..source /\ e.todo \in SUBSET (1..source)
  BY DEF Executions
<1>5. CursorSound(e)'
  <2>1. ASSUME BatchExact(e) PROVE BatchExact(e)'
    <3>1. ASSUME NEW j \in e.todo, NEW k \in Newer(e.last)', Value(k) <= Value(j)
          PROVE  k \in e.todo \/ Tie(k)
      <4>1. CASE k \in 1..source
        <5>1. k \in Newer(e.last)
          BY <1>2, <3>1, <4>1 DEF Newer
        <5>. QED
          BY <2>1, <3>1, <5>1 DEF BatchExact
      <4>2. CASE k \notin 1..source
        <5>1. k = source + 1
          BY <1>1, <4>2 DEF Newer
        <5>2. j \in AllRows /\ k \in AllRows /\ j < k
          BY <1>1, <1>4, <5>1
        <5>3. Value(j) <= Value(k) /\ Value(j) \in Int /\ Value(k) \in Int
          BY <5>2, ColumnFacts
        <5>4. Value(j) = Value(k)
          BY <3>1, <5>3
        <5>. QED
          BY <5>2, <5>4 DEF Tie
      <4>. QED
        BY <4>1, <4>2
    <3>. QED
      BY <1>2, <3>1 DEF BatchExact
  <2>2. ASSUME Covered(e.plan.id, e.last) PROVE Covered(e.plan.id, e.last)'
    <3>1. PICK plan, last : plan = e.plan.id /\ last = e.last
      OBVIOUS
    <3>2. Covered(plan, last)'
      BY <1>4, <2>2, <3>1, CoveredGrows
    <3>. QED
      BY <3>1, <3>2
  <2>. QED
    BY <2>1, <2>2 DEF ExecutionSound, CursorSound
<1>6. SnapshotSound(e)'
  <2>1. \A rows, count : FirstRows(rows, count)' = FirstRows(rows, count)
    BY <1>1 DEF FirstRows
  <2>2. 0..source \subseteq 0..source'
    BY <1>1
  <2>. QED
    BY <2>1, <2>2 DEF ExecutionSound, SnapshotSound
<1>. QED
  BY <1>3, <1>5, <1>6 DEF ExecutionSound

\* Plans stay fixed while none is made and the executions keep theirs.
LEMMA PlansStayFixed ==
    ASSUME MigrationInvariant, db'.plans = db.plans, started' \in Nat, started' >= started,
           DOMAIN exec' = DOMAIN exec, \A m \in DOMAIN exec : exec'[m].plan = exec[m].plan
    PROVE  PlansFixed'
<1>1. Len(Seed.plans) \in Nat /\ started \in Nat
  BY ConstantFacts DEF MigrationInvariant, MigrationTypes
<1>2. \A plan \in PlanRows : plan.id \in Nat
  BY PlanIds, ConstantFacts DEF Plans
<1>3. \A i \in DOMAIN db.plans : db.plans[i] \in PlanRows
  BY DEF MigrationInvariant, MigrationTypes
<1>4. \A m \in DOMAIN exec : exec[m].plan \in PlanRows
  <2>1. \A m \in DOMAIN exec : exec[m] \in Executions
    BY DEF MigrationInvariant, MigrationTypes
  <2>. QED
    BY <2>1 DEF Executions
<1>5. PlansFixed
  BY DEF MigrationInvariant
<1>6. ASSUME NEW i \in DOMAIN db.plans
      PROVE  db.plans[i].id <= Len(Seed.plans) + started' /\ ValidatePlan(db.plans[i])
  BY <1>1, <1>2, <1>3, <1>5, <1>6 DEF PlansFixed
<1>7. ASSUME NEW n \in DOMAIN exec PROVE exec'[n].plan.id <= Len(Seed.plans) + started'
  BY <1>1, <1>2, <1>4, <1>5, <1>7 DEF PlansFixed
<1>8. ASSUME NEW n \in DOMAIN exec
      PROVE  /\ \A i \in DOMAIN db.plans : db.plans[i].id = exec'[n].plan.id => db.plans[i] = exec'[n].plan
             /\ \A m \in DOMAIN exec : exec'[m].plan.id = exec'[n].plan.id => exec'[m].plan = exec'[n].plan
  BY <1>5 DEF PlansFixed
<1>9. \A i, j \in DOMAIN db.plans : db.plans[i].id = db.plans[j].id => i = j
  BY <1>5 DEF PlansFixed
<1>. QED
  BY <1>6, <1>7, <1>8, <1>9 DEF PlansFixed, ValidatePlan

\* Executions that keep their plans keep the rest of what is known.
LEMMA KeptPlans ==
    ASSUME MigrationInvariant, MigrationTypes', db'.plans = db.plans, started' >= started,
           DOMAIN exec' = DOMAIN exec,
           \A m \in DOMAIN exec :
               /\ exec'[m].plan = exec[m].plan
               /\ exec'[m].at \in Moving => exec[m].at \in Moving
               /\ exec'[m].alone => exec[m].alone,
           \A m \in DOMAIN exec : ExecutionSound(exec[m])',
           CheckpointsSound'
    PROVE  MigrationInvariant'
<1>1. PlansFixed'
  BY PlansStayFixed, ConstantFacts DEF MigrationTypes
<1>2. AloneMoves'
  <2>1. AloneMoves
    BY DEF MigrationInvariant
  <2>2. ASSUME NEW n \in DOMAIN exec, NEW m \in DOMAIN exec, n # m, exec'[n].plan.id = exec'[m].plan.id,
               exec'[n].at \in Moving, exec'[m].at \in Moving, exec'[n].alone
        PROVE  FALSE
    <3>1. exec[n].plan.id = exec[m].plan.id /\ exec[n].at \in Moving /\ exec[m].at \in Moving /\ exec[n].alone
      BY <2>2
    <3>. QED
      BY <2>1, <2>2, <3>1 DEF AloneMoves, Same
  <2>. QED
    BY <2>2 DEF AloneMoves, Same, Moving
<1>3. (Foreign(db.plans) = Foreign(Seed.plans))'
  BY ZenonT(40) DEF MigrationInvariant, Foreign, Rows, Where
<1>. QED
  BY <1>1, <1>2, <1>3 DEF MigrationInvariant

\* A plan whose destination has the rows it had is covered as it was.
LEMMA CoveredThroughCopies ==
    ASSUME config \in Configs, source \in 0..Len(config.column), config' = config, source' = source,
           NEW plan, NEW last, Covered(plan, last), \A k \in AllRows : dest[plan][k] > 0 => dest'[plan][k] > 0
    PROVE  Covered(plan, last)'
<1>1. AllRows' = AllRows /\ 1..source \subseteq AllRows
  BY ColumnFacts DEF AllRows
<1>2. \A k : Value(k)' = Value(k) /\ Tie(k)' = Tie(k)
  BY <1>1 DEF Value, Tie
<1>. QED
  BY <1>1, <1>2 DEF Covered

\* What an execution may do to what it has copied and to its checkpoint.
Copies(n, f) ==
    /\ dest' \in [Plans -> [AllRows -> 0..2]]
    /\ \A plan \in Plans \ {f.plan.id} : dest'[plan] = dest[plan]
    /\ \/ dest' = dest
       \/ /\ exec[n].at \in Moving
          /\ f.plan.mode = "incremental" => \A k \in AllRows : dest[f.plan.id][k] > 0 => dest'[f.plan.id][k] > 0
    /\ \/ cp' = cp
       \/ /\ f.plan.mode = "incremental" /\ dest' = dest
          /\ cp' = [cp EXCEPT ![f.plan.id] = exec[n].last]

\* One execution goes on.
LEMMA OneMoves ==
    ASSUME MigrationInvariant, config' = config, source' = source, started' = started,
           db'.plans = db.plans, db' = [plans |-> db'.plans, runs |-> db'.runs],
           NEW n \in DOMAIN exec, NEW f \in Executions, exec' = [exec EXCEPT ![n] = f],
           f.plan = exec[n].plan, f.alone = exec[n].alone,
           f.at \in Moving => exec[n].at \in Moving,
           Copies(n, f), ExecutionSound(f)'
    PROVE  MigrationInvariant'
<1>1. /\ MigrationTypes /\ PlansFixed /\ AloneMoves /\ CheckpointsSound
      /\ \A m \in DOMAIN exec : ExecutionSound(exec[m])
  BY DEF MigrationInvariant
<1>2. /\ config \in Configs /\ source \in 0..Len(config.column) /\ exec \in Seq(Executions)
      /\ started \in 0..MaxRequests /\ db.plans \in Seq(PlanRows) /\ cp \in [Plans -> 0..source]
      /\ dest \in [Plans -> [AllRows -> 0..2]]
  BY <1>1 DEF MigrationTypes
<1>3. \A m \in DOMAIN exec : exec[m] \in Executions
  BY <1>2
<1>4. \A m \in DOMAIN exec :
         exec[m].plan \in PlanRows /\ exec[m].plan.id \in Plans /\ exec[m].last \in 0..source
  BY <1>3, PlanIds DEF Executions
<1>5. /\ DOMAIN exec' = DOMAIN exec /\ exec'[n] = f
      /\ \A m \in DOMAIN exec \ {n} : exec'[m] = exec[m]
  BY <1>2
<1>6. AllRows' = AllRows /\ Executions' = Executions
  BY DEF AllRows, Executions
<1>7. MigrationTypes'
  <2>1. exec' \in Seq(Executions)
    BY <1>2, <1>5
  <2>2. cp' \in [Plans -> 0..source]
    BY <1>2, <1>4 DEF Copies
  <2>. QED
    BY <1>2, <1>6, <2>1, <2>2 DEF MigrationTypes, Copies
<1>8. ASSUME NEW m \in DOMAIN exec, exec[m].plan.id = f.plan.id PROVE exec[m].plan = f.plan
  BY <1>1, <1>8 DEF PlansFixed
<1>9. ASSUME NEW m \in DOMAIN exec PROVE ExecutionSound(exec[m])'
  <2>1. CASE m = n
    BY <1>5, <2>1
  <2>2. CASE m # n
    <3>1. PICK e \in Executions : e = exec[m]
      BY <1>3
    <3>2. exec'[m] = e
      BY <1>5, <2>2, <3>1
    <3>3. ExecutionSound(e) /\ e.plan.id \in Plans
      BY <1>1, <1>4, <3>1
    <3>4. e.plan.mode = "incremental" => \A k \in AllRows : dest[e.plan.id][k] > 0 => dest'[e.plan.id][k] > 0
      <4>1. CASE e.plan.id = f.plan.id
        BY <1>8, <3>1, <4>1 DEF Copies
      <4>2. CASE e.plan.id # f.plan.id
        BY <3>3, <4>2 DEF Copies
      <4>. QED
        BY <4>1, <4>2
    <3>5. ASSUME e.alone, e.at \in Moving PROVE dest'[e.plan.id] = dest[e.plan.id]
      <4>1. CASE e.plan.id = f.plan.id
        <5>1. ~(exec[n].at \in Moving)
          <6>1. Same(m, n)
            BY <2>2, <3>1, <4>1 DEF Same
          <6>. QED
            BY <1>1, <3>1, <3>5, <6>1 DEF AloneMoves
        <5>. QED
          BY <5>1 DEF Copies
      <4>2. CASE e.plan.id # f.plan.id
        BY <3>3, <4>2 DEF Copies
      <4>. QED
        BY <4>1, <4>2
    <3>6. ExecutionSound(e)'
      BY <1>2, <3>3, <3>4, <3>5, SoundThroughCopies
    <3>. QED
      BY <3>2, <3>6
  <2>. QED
    BY <2>1, <2>2
<1>10. CheckpointsSound'
  <2>1. ASSUME NEW plan \in Plans, cp'[plan] # 0
        PROVE  /\ Covered(plan, cp[plan])'
               /\ \E m \in DOMAIN exec' : exec'[m].plan.id = plan /\ exec'[m].plan.mode = "incremental"
    <3>1. \A m \in DOMAIN exec : exec'[m].plan = exec[m].plan
      BY <1>5
    <3>2. CASE cp'[plan] = cp[plan]
      <4>1. Covered(plan, cp[plan]) /\ \E m \in DOMAIN exec : exec[m].plan.id = plan /\ exec[m].plan.mode = "incremental"
        BY <1>1, <2>1, <3>2 DEF CheckpointsSound
      <4>2. PICK m \in DOMAIN exec : exec[m].plan.id = plan /\ exec[m].plan.mode = "incremental"
        BY <4>1
      <4>3. \A k \in AllRows : dest[plan][k] > 0 => dest'[plan][k] > 0
        <5>1. CASE plan = f.plan.id
          BY <1>8, <4>2, <5>1 DEF Copies
        <5>2. CASE plan # f.plan.id
          BY <5>2 DEF Copies
        <5>. QED
          BY <5>1, <5>2
      <4>4. PICK last : last = cp[plan]
        OBVIOUS
      <4>5. Covered(plan, last)'
        BY <1>2, <4>1, <4>3, <4>4, CoveredThroughCopies
      <4>. QED
        BY <1>5, <3>1, <3>2, <4>2, <4>4, <4>5
    <3>3. CASE cp'[plan] # cp[plan]
      <4>1. f.plan.mode = "incremental" /\ dest' = dest /\ cp' = [cp EXCEPT ![f.plan.id] = exec[n].last]
        BY <3>3 DEF Copies
      <4>2. plan = f.plan.id /\ cp'[plan] = exec[n].last
        BY <1>2, <3>3, <4>1
      <4>3. PICK last : last = exec[n].last
        OBVIOUS
      <4>4. Covered(plan, last)
        BY <1>1, <4>1, <4>2, <4>3 DEF ExecutionSound, CursorSound
      <4>5. Covered(plan, last)'
        BY <1>2, <4>1, <4>4, CoveredThroughCopies
      <4>. QED
        BY <1>5, <3>1, <4>1, <4>2, <4>3, <4>5
    <3>. QED
      BY <3>2, <3>3
  <2>. QED
    BY <2>1 DEF CheckpointsSound
<1>11. \A m \in DOMAIN exec :
          /\ exec'[m].plan = exec[m].plan
          /\ exec'[m].at \in Moving => exec[m].at \in Moving
          /\ exec'[m].alone => exec[m].alone
  BY <1>5
<1>12. started \in Nat /\ started >= started
  BY <1>2, ConstantFacts
<1>. QED
  BY <1>5, <1>7, <1>9, <1>10, <1>11, <1>12, KeptPlans

\* What is copied is typed, and the stages are those that are named.
LEMMA MigrationParts ==
    ASSUME MigrationInvariant
    PROVE  /\ config \in Configs /\ source \in 0..Len(config.column) /\ source \in Nat /\ 1..source \subseteq AllRows
           /\ db = [plans |-> db.plans, runs |-> db.runs]
           /\ dest \in [Plans -> [AllRows -> 0..2]] /\ cp \in [Plans -> 0..source] /\ exec \in Seq(Executions)
           /\ \A n \in DOMAIN exec :
                 /\ exec[n] \in Executions /\ ExecutionSound(exec[n])
                 /\ exec[n].plan.id \in Plans
                 /\ exec[n].plan.mode \in {"snapshot", "incremental"}
                 /\ exec[n].plan.mode = "incremental" => exec[n].plan.write # "truncate_and_replace"
<1>1. MigrationTypes /\ \A n \in DOMAIN exec : ExecutionSound(exec[n])
  BY DEF MigrationInvariant
<1>2. \A n \in DOMAIN exec : exec[n] \in Executions
  BY <1>1 DEF MigrationTypes
<1>3. \A n \in DOMAIN exec : exec[n].plan.id \in Plans
  BY <1>2, PlanIds DEF Executions
<1>4. \A n \in DOMAIN exec : ValidatePlan(exec[n].plan) /\ exec[n].plan.mode # "cdc"
  BY <1>1 DEF ExecutionSound, PlanSound
<1>. QED
  BY <1>1, <1>2, <1>3, <1>4, ColumnFacts DEF MigrationTypes, ValidatePlan

\* An execution comes to a stage where nothing is known of a snapshot.
LEMMA Rests ==
    ASSUME MigrationInvariant, UNCHANGED <<config, started, data>>,
           db'.plans = db.plans, db' = [plans |-> db'.plans, runs |-> db'.runs],
           NEW n \in DOMAIN exec, NEW f \in Executions, exec' = [exec EXCEPT ![n] = f],
           f.plan = exec[n].plan, f.tenant = exec[n].tenant, f.alone = exec[n].alone, f.last = exec[n].last,
           \/ f.at \in {"queued", "rejected", "unloaded", "done", "unfinished"}
           \/ f.at = "finish" /\ f.err /\ exec[n].at \in Moving
    PROVE  MigrationInvariant'
<1>1. PICK e \in Executions : e = exec[n]
  BY MigrationParts
<1>2. ExecutionSound(e) /\ config \in Configs /\ source \in 0..Len(config.column)
  BY <1>1, MigrationParts
<1>3. config' = config /\ source' = source /\ dest' = dest /\ cp' = cp /\ started' = started
  BY DEF data
<1>4. ExecutionSound(f)
  <2>1. PlanSound(f)
    <3>1. f.at \notin Moving \ {"connect", "finish"} /\ f.at \notin {"truncate", "checkpoint", "save"}
      BY DEF Moving
    <3>. QED
      BY <1>1, <1>2, <3>1 DEF ExecutionSound, PlanSound
  <2>2. CursorSound(f)
    BY <1>1, <1>2 DEF ExecutionSound, CursorSound
  <2>3. SnapshotSound(f)
    BY DEF SnapshotSound
  <2>. QED
    BY <2>1, <2>2, <2>3 DEF ExecutionSound
<1>5. ExecutionSound(f)'
  BY <1>2, <1>3, <1>4, SoundThroughCopies
<1>6. Copies(n, f)
  BY <1>3, MigrationParts DEF Copies
<1>7. f.at \in Moving => exec[n].at \in Moving
  BY DEF Moving
<1>. QED
  BY <1>3, <1>5, <1>6, <1>7, OneMoves

\* What changes when an execution comes to another stage.
LEMMA Fields ==
    ASSUME NEW e \in Executions, NEW at \in ExecStages
    PROVE  \E f \in Executions :
              /\ f = [e EXCEPT !.at = at]
              /\ f.at = at /\ f.tenant = e.tenant /\ f.plan = e.plan /\ f.todo = e.todo /\ f.last = e.last
              /\ f.err = e.err /\ f.alone = e.alone
<1>1. PICK f : f = [e EXCEPT !.at = at]
  OBVIOUS
<1>2. f \in Executions
  BY <1>1 DEF Executions
<1>3. /\ f.at = at /\ f.tenant = e.tenant /\ f.plan = e.plan /\ f.todo = e.todo /\ f.last = e.last
      /\ f.err = e.err /\ f.alone = e.alone
  BY <1>1 DEF Executions
<1>. QED
  BY <1>1, <1>2, <1>3

\* And what changes when it comes there because something failed.
LEMMA FieldsWithError ==
    ASSUME NEW e \in Executions, NEW at \in ExecStages
    PROVE  \E f \in Executions :
              /\ f = [e EXCEPT !.at = at, !.err = TRUE]
              /\ f.at = at /\ f.tenant = e.tenant /\ f.plan = e.plan /\ f.todo = e.todo /\ f.last = e.last
              /\ f.err = TRUE /\ f.alone = e.alone
<1>1. PICK f : f = [e EXCEPT !.at = at, !.err = TRUE]
  OBVIOUS
<1>2. f \in Executions
  BY <1>1 DEF Executions
<1>3. /\ f.at = at /\ f.tenant = e.tenant /\ f.plan = e.plan /\ f.todo = e.todo /\ f.last = e.last
      /\ f.err = TRUE /\ f.alone = e.alone
  BY <1>1 DEF Executions
<1>. QED
  BY <1>1, <1>2, <1>3

\* An execution that is refused, cannot be loaded, times out or ends moves no
\* row and asks for no more than it knew before.
LEMMA RestingSteps ==
    ASSUME MigrationInvariant, NEW n \in DOMAIN exec,
           \/ NoExecutor(n) \/ LoadFails(n) \/ EndRun(n) \/ EndFails(n) \/ TimesOut(n) \/ WarehouseFails(n)
    PROVE  MigrationInvariant'
<1>1. PICK e \in Executions : e = exec[n]
  BY MigrationParts
<1>2. db = [plans |-> db.plans, runs |-> db.runs]
  BY MigrationParts
<1>3. UNCHANGED <<config, started, data>>
  BY DEF NoExecutor, LoadFails, EndRun, EndFails, TimesOut, WarehouseFails, data
<1>4. db'.plans = db.plans /\ db' = [plans |-> db'.plans, runs |-> db'.runs]
  <2>1. CASE EndRun(n)
    <3>1. PICK runs : db' = [db EXCEPT !.runs = runs]
      BY <2>1 DEF EndRun, FinishRun, Ok
    <3>. QED
      BY <1>2, <3>1
  <2>2. CASE ~EndRun(n)
    <3>1. db' = db
      BY <2>2 DEF NoExecutor, LoadFails, EndFails, TimesOut, WarehouseFails
    <3>. QED
      BY <1>2, <3>1
  <2>. QED
    BY <2>1, <2>2
<1>5. CASE NoExecutor(n) \/ LoadFails(n) \/ EndRun(n) \/ EndFails(n)
  <2>1. PICK at \in {"rejected", "unloaded", "done", "unfinished"} : GoesTo(n, at)
    BY <1>5 DEF NoExecutor, LoadFails, EndRun, EndFails
  <2>2. at \in ExecStages
    BY DEF ExecStages
  <2>3. PICK f \in Executions :
              /\ f = [e EXCEPT !.at = at]
              /\ f.at = at /\ f.tenant = e.tenant /\ f.plan = e.plan /\ f.last = e.last /\ f.alone = e.alone
    BY <2>2, Fields
  <2>4. exec' = [exec EXCEPT ![n] = f]
    BY <1>1, <2>1, <2>3 DEF GoesTo, GoesOnAs
  <2>. QED
    BY <1>1, <1>3, <1>4, <2>3, <2>4, Rests
<1>6. CASE TimesOut(n) \/ WarehouseFails(n)
  <2>1. "finish" \in ExecStages /\ exec[n].at \in Moving
    BY <1>6 DEF ExecStages, Moving, TimesOut, WarehouseFails
  <2>2. PICK f \in Executions :
              /\ f = [e EXCEPT !.at = "finish", !.err = TRUE]
              /\ f.at = "finish" /\ f.tenant = e.tenant /\ f.plan = e.plan /\ f.last = e.last /\ f.alone = e.alone
              /\ f.err = TRUE
    BY <2>1, FieldsWithError
  <2>3. exec' = [exec EXCEPT ![n] = f]
    BY <1>1, <1>6, <2>2 DEF TimesOut, WarehouseFails, GoesOnAs
  <2>. QED
    BY <1>1, <1>3, <1>4, <2>1, <2>2, <2>3, Rests
<1>. QED
  BY <1>5, <1>6

\* The stages at which an execution moves are stages.
LEMMA MovingStages ==
    /\ Moving \subseteq ExecStages
    /\ {"connect", "truncate", "select", "insert", "checkpoint", "save", "finish"} \subseteq Moving
BY DEF Moving, ExecStages

\* Both connections are opened, or the execution has failed.
LEMMA ConnectStep ==
    ASSUME MigrationInvariant, NEW n \in DOMAIN exec, RunSnapshot(n) \/ RunIncremental(n)
    PROVE  MigrationInvariant'
<1>1. PICK e \in Executions : e = exec[n]
  BY MigrationParts
<1>2. /\ config \in Configs /\ source \in 0..Len(config.column) /\ ExecutionSound(e)
      /\ db = [plans |-> db.plans, runs |-> db.runs]
  BY <1>1, MigrationParts
<1>3. /\ UNCHANGED <<config, started, data>> /\ db' = db
      /\ config' = config /\ started' = started /\ source' = source /\ dest' = dest /\ cp' = cp
  BY DEF RunSnapshot, RunIncremental, Connect, data
<1>4. e.at = "connect" /\ e.at \in Moving
  BY <1>1, MovingStages DEF RunSnapshot, RunIncremental, Connect
<1>5. CASE ~Opens(e.tenant, e.plan.src) \/ ~Opens(e.tenant, e.plan.dst)
  <2>0. "finish" \in ExecStages
    BY MovingStages
  <2>1. PICK f \in Executions :
              /\ f = [e EXCEPT !.at = "finish", !.err = TRUE]
              /\ f.at = "finish" /\ f.tenant = e.tenant /\ f.plan = e.plan /\ f.last = e.last /\ f.alone = e.alone
              /\ f.err = TRUE
    BY <2>0, FieldsWithError
  <2>2. exec' = [exec EXCEPT ![n] = f]
    BY <1>1, <1>5, <2>1 DEF RunSnapshot, RunIncremental, Connect, GoesOnAs
  <2>. QED
    BY <1>1, <1>2, <1>3, <1>4, <2>1, <2>2, Rests
<1>6. CASE Opens(e.tenant, e.plan.src) /\ Opens(e.tenant, e.plan.dst)
  <2>1. PICK at \in {"truncate", "select", "checkpoint"} :
              /\ GoesTo(n, at)
              /\ at = "truncate" => e.plan.mode = "snapshot"
              /\ at = "select" => e.plan.mode = "snapshot" /\ e.plan.write # "truncate_and_replace"
              /\ at = "checkpoint" => e.plan.mode = "incremental"
    BY <1>1, <1>6 DEF RunSnapshot, RunIncremental, Connect
  <2>2. at \in ExecStages
    BY MovingStages
  <2>3. PICK f \in Executions :
              /\ f = [e EXCEPT !.at = at]
              /\ f.at = at /\ f.tenant = e.tenant /\ f.plan = e.plan /\ f.last = e.last /\ f.alone = e.alone
    BY <2>2, Fields
  <2>4. exec' = [exec EXCEPT ![n] = f]
    BY <1>1, <2>1, <2>3 DEF GoesTo, GoesOnAs
  <2>5. ExecutionSound(f)
    <3>1. PlanSound(f)
      BY <1>2, <1>6, <2>1, <2>3 DEF ExecutionSound, PlanSound
    <3>2. CursorSound(f)
      BY <1>2, <2>3 DEF ExecutionSound, CursorSound
    <3>3. SnapshotSound(f)
      BY <2>1, <2>3 DEF SnapshotSound
    <3>. QED
      BY <3>1, <3>2, <3>3 DEF ExecutionSound
  <2>6. ExecutionSound(f)'
    BY <1>2, <1>3, <2>5, SoundThroughCopies
  <2>7. Copies(n, f)
    BY <1>3, MigrationParts DEF Copies
  <2>. QED
    BY <1>1, <1>2, <1>3, <1>4, <2>3, <2>4, <2>6, <2>7, OneMoves
<1>. QED
  BY <1>5, <1>6

\* An emptied destination has the first rows, none of them.
LEMMA TruncateStep ==
    ASSUME MigrationInvariant, NEW n \in DOMAIN exec, Truncate(n)
    PROVE  MigrationInvariant'
<1>1. PICK e \in Executions : e = exec[n]
  BY MigrationParts
<1>2. /\ config \in Configs /\ source \in 0..Len(config.column) /\ ExecutionSound(e)
      /\ db = [plans |-> db.plans, runs |-> db.runs] /\ e.plan.id \in Plans
      /\ dest \in [Plans -> [AllRows -> 0..2]]
  BY <1>1, MigrationParts
<1>3. db' = db /\ config' = config /\ started' = started /\ source' = source /\ cp' = cp
  BY DEF Truncate
<1>4. e.at = "truncate" /\ e.at \in Moving /\ e.plan.mode = "snapshot"
  <2>1. e.at = "truncate"
    BY <1>1 DEF Truncate
  <2>. QED
    BY <1>2, <2>1, MovingStages DEF ExecutionSound, PlanSound
<1>5. PICK f \in Executions :
            /\ f = [e EXCEPT !.at = "select"]
            /\ f.at = "select" /\ f.tenant = e.tenant /\ f.plan = e.plan /\ f.last = e.last /\ f.alone = e.alone
  BY MovingStages, Fields
<1>6. exec' = [exec EXCEPT ![n] = f]
  BY <1>1, <1>5 DEF Truncate, GoesTo, GoesOnAs
<1>7. PICK empty \in [AllRows -> 0..2] : empty = [k \in AllRows |-> 0] /\ \A k \in AllRows : empty[k] = 0
  <2>1. [k \in AllRows |-> 0] \in [AllRows -> 0..2]
    OBVIOUS
  <2>. QED
    BY <2>1
<1>8. dest' = [dest EXCEPT ![e.plan.id] = empty]
  BY <1>1, <1>7 DEF Truncate, BuildTruncate
<1>9. dest' \in [Plans -> [AllRows -> 0..2]] /\ dest'[e.plan.id] = empty /\ \A p \in Plans \ {e.plan.id} : dest'[p] = dest[p]
  BY <1>2, <1>8
<1>10. Copies(n, f)
  BY <1>1, <1>3, <1>4, <1>5, <1>9 DEF Copies
<1>11. ExecutionSound(f)'
  <2>1. PlanSound(f)'
    BY <1>2, <1>4, <1>5 DEF ExecutionSound, PlanSound, Moving, Opens, ValidatePlan
  <2>2. CursorSound(f)'
    BY <1>4, <1>5 DEF CursorSound
  <2>3. FirstRows(dest[f.plan.id], 0)'
    <3>1. AllRows' = AllRows /\ \A k \in AllRows : ~(k <= 0)
      BY <1>2, <1>3, ColumnFacts DEF AllRows
    <3>. QED
      BY <1>5, <1>7, <1>9, <3>1 DEF FirstRows
  <2>4. SnapshotSound(f)'
    BY <1>5, <2>3 DEF SnapshotSound
  <2>. QED
    BY <2>1, <2>2, <2>4 DEF ExecutionSound
<1>12. f.plan = exec[n].plan /\ f.alone = exec[n].alone /\ exec[n].at \in Moving
  BY <1>1, <1>4, <1>5
<1>. QED
  BY <1>2, <1>3, <1>6, <1>10, <1>11, <1>12, OneMoves

\* A snapshot holds all the rows that are there, and none is written yet.
LEMMA SelectAllStep ==
    ASSUME MigrationInvariant, NEW n \in DOMAIN exec, SelectAll(n)
    PROVE  MigrationInvariant'
<1>1. PICK e \in Executions : e = exec[n]
  BY MigrationParts
<1>2. /\ config \in Configs /\ source \in 0..Len(config.column) /\ source \in Nat /\ ExecutionSound(e)
      /\ db = [plans |-> db.plans, runs |-> db.runs]
  BY <1>1, MigrationParts
<1>3. /\ db' = db /\ config' = config /\ started' = started /\ source' = source /\ dest' = dest /\ cp' = cp
      /\ e.at = "select" /\ e.plan.mode = "snapshot"
  BY <1>1 DEF SelectAll, data
<1>4. PICK at \in {"finish", "insert"} : /\ at = "finish" => source = 0
                                         /\ exec' = [exec EXCEPT ![n] = [e EXCEPT !.at = at, !.todo = 1..source]]
  <2>1. BuildSelect = 1..source
    BY DEF BuildSelect
  <2>2. BuildSelect = {} => source = 0
    BY <1>2, <2>1
  <2>. QED
    BY <1>1, <2>1, <2>2 DEF SelectAll, GoesOnAs
<1>5. at \in ExecStages /\ at \in Moving /\ e.at \in Moving
  BY <1>3, MovingStages
<1>6. PICK f \in Executions :
            /\ f = [e EXCEPT !.at = at, !.todo = 1..source]
            /\ f.at = at /\ f.tenant = e.tenant /\ f.plan = e.plan /\ f.last = e.last /\ f.alone = e.alone
            /\ f.todo = 1..source
  <2>1. PICK all \in SUBSET (1..source) : all = 1..source
    OBVIOUS
  <2>2. PICK f \in Executions :
            /\ f = [e EXCEPT !.at = at, !.todo = all]
            /\ f.at = at /\ f.tenant = e.tenant /\ f.plan = e.plan /\ f.last = e.last /\ f.alone = e.alone
            /\ f.todo = all
    <3>1. at \in ExecStages
      BY <1>5
    <3>2. PICK f : f = [e EXCEPT !.at = at, !.todo = all]
      OBVIOUS
    <3>3. f \in Executions
      BY <3>1, <3>2, <1>5 DEF Executions
    <3>4. f.at = at /\ f.tenant = e.tenant /\ f.plan = e.plan /\ f.last = e.last /\ f.alone = e.alone /\ f.todo = all
      BY <3>2 DEF Executions
    <3>. QED
      BY <3>2, <3>3, <3>4
  <2>. QED
    BY <2>1, <2>2
<1>7. ExecutionSound(f)
  <2>1. PlanSound(f)
    <3>1. e.at \in Moving \ {"connect", "finish"}
      BY <1>3, <1>5
    <3>. QED
      BY <1>2, <1>6, <3>1 DEF ExecutionSound, PlanSound
  <2>2. CursorSound(f)
    BY <1>3, <1>6 DEF CursorSound
  <2>3. SnapshotSound(f)
    <3>1. ASSUME f.alone, f.plan.write = "truncate_and_replace" PROVE FirstRows(dest[f.plan.id], 0)
      BY <1>2, <1>3, <1>6, <3>1 DEF ExecutionSound, SnapshotSound
    <3>2. 0 \in 0..source /\ source \in 0..source /\ 0 <= source /\ 1..source = (0 + 1)..source
      BY <1>2
    <3>. QED
      BY <1>4, <1>6, <3>1, <3>2 DEF SnapshotSound
  <2>. QED
    BY <2>1, <2>2, <2>3 DEF ExecutionSound
<1>8. ExecutionSound(f)'
  BY <1>2, <1>3, <1>7, SoundThroughCopies
<1>9. Copies(n, f)
  BY <1>3, MigrationParts DEF Copies
<1>10. f.plan = exec[n].plan /\ f.alone = exec[n].alone /\ exec[n].at \in Moving /\ exec' = [exec EXCEPT ![n] = f]
  BY <1>1, <1>4, <1>5, <1>6
<1>. QED
  BY <1>2, <1>3, <1>8, <1>9, <1>10, OneMoves

\* The destination after an INSERT: a row more of each that was in it.
LEMMA InsertAdds ==
    ASSUME dest \in [Plans -> [AllRows -> 0..2]], NEW plan \in Plans, NEW rows, dest' = BuildInsert(dest, plan, rows)
    PROVE  /\ dest' \in [Plans -> [AllRows -> 0..2]]
           /\ \A p \in Plans \ {plan} : dest'[p] = dest[p]
           /\ \A k \in AllRows :
                 dest'[plan][k] = IF k \in rows /\ dest[plan][k] < 2 THEN dest[plan][k] + 1 ELSE dest[plan][k]
           /\ \A k \in AllRows : dest[plan][k] > 0 => dest'[plan][k] > 0
           /\ \A k \in AllRows \cap rows : dest'[plan][k] > 0
<1>1. PICK old \in [AllRows -> 0..2] : old = dest[plan]
  OBVIOUS
<1>2. PICK new : new = [k \in AllRows |-> IF k \in rows /\ old[k] < 2 THEN old[k] + 1 ELSE old[k]]
  OBVIOUS
<1>3. dest' = [dest EXCEPT ![plan] = new]
  BY <1>1, <1>2 DEF BuildInsert
<1>4. \A k \in AllRows : /\ new[k] = IF k \in rows /\ old[k] < 2 THEN old[k] + 1 ELSE old[k]
                         /\ new[k] \in 0..2
                         /\ old[k] > 0 => new[k] > 0
                         /\ k \in rows => new[k] > 0
  BY <1>1, <1>2
<1>5. new \in [AllRows -> 0..2]
  BY <1>2, <1>4
<1>6. dest'[plan] = new /\ \A p \in Plans \ {plan} : dest'[p] = dest[p]
  BY <1>3
<1>7. dest' \in [Plans -> [AllRows -> 0..2]]
  BY <1>3, <1>5
<1>. QED
  BY <1>1, <1>4, <1>6, <1>7

\* A batch of a snapshot is written: the rows up to its last are there.
LEMMA FlushStep ==
    ASSUME MigrationInvariant, NEW n \in DOMAIN exec, Flush(n)
    PROVE  MigrationInvariant'
<1>1. PICK e \in Executions : e = exec[n]
  BY MigrationParts
<1>2. /\ config \in Configs /\ source \in 0..Len(config.column) /\ source \in Nat /\ ExecutionSound(e)
      /\ db = [plans |-> db.plans, runs |-> db.runs] /\ e.plan.id \in Plans
      /\ dest \in [Plans -> [AllRows -> 0..2]]
  BY <1>1, MigrationParts
<1>3. /\ db' = db /\ config' = config /\ started' = started /\ source' = source /\ cp' = cp
      /\ e.at = "insert" /\ e.plan.mode = "snapshot" /\ dest' = BuildInsert(dest, e.plan.id, FirstOf(e.todo))
  BY <1>1 DEF Flush, data
<1>4. PICK rest : rest = e.todo \ FirstOf(e.todo)
  OBVIOUS
<1>5. rest \in SUBSET (1..source) /\ e.at \in Moving \ {"connect", "finish"} /\ e.at \in Moving
  BY <1>3, <1>4, MovingStages DEF Executions
<1>6. PICK f \in Executions :
            /\ exec' = [exec EXCEPT ![n] = f]
            /\ f.at = IF rest = {} THEN "finish" ELSE "insert"
            /\ f.tenant = e.tenant /\ f.plan = e.plan /\ f.last = e.last /\ f.alone = e.alone
            /\ rest # {} => f.todo = rest
  <2>1. CASE rest = {}
    <3>1. exec' = [exec EXCEPT ![n] = [e EXCEPT !.at = "finish"]]
      BY <1>1, <1>4, <2>1 DEF Flush, GoesTo, GoesOnAs
    <3>2. PICK f \in Executions :
              /\ f = [e EXCEPT !.at = "finish"]
              /\ f.at = "finish" /\ f.tenant = e.tenant /\ f.plan = e.plan /\ f.last = e.last /\ f.alone = e.alone
      BY MovingStages, Fields
    <3>. QED
      BY <2>1, <3>1, <3>2
  <2>2. CASE rest # {}
    <3>1. exec' = [exec EXCEPT ![n] = [e EXCEPT !.todo = rest]]
      BY <1>1, <1>4, <2>2 DEF Flush, GoesOnAs
    <3>2. PICK f : f = [e EXCEPT !.todo = rest]
      OBVIOUS
    <3>3. f \in Executions
      BY <1>5, <3>2 DEF Executions
    <3>4. f.at = e.at /\ f.tenant = e.tenant /\ f.plan = e.plan /\ f.last = e.last /\ f.alone = e.alone /\ f.todo = rest
      BY <3>2 DEF Executions
    <3>. QED
      BY <1>3, <2>2, <3>1, <3>2, <3>3, <3>4
  <2>. QED
    BY <2>1, <2>2
<1>7. /\ dest' \in [Plans -> [AllRows -> 0..2]]
      /\ \A p \in Plans \ {e.plan.id} : dest'[p] = dest[p]
      /\ \A k \in AllRows :
            dest'[e.plan.id][k] = IF k \in FirstOf(e.todo) /\ dest[e.plan.id][k] < 2
                                  THEN dest[e.plan.id][k] + 1 ELSE dest[e.plan.id][k]
  BY <1>2, <1>3, InsertAdds
<1>8. Copies(n, f)
  BY <1>1, <1>3, <1>5, <1>6, <1>7 DEF Copies
<1>9. AllRows' = AllRows /\ \A k \in AllRows : k \in Nat
  BY <1>2, <1>3, ColumnFacts DEF AllRows
<1>10. PlanSound(f)'
  <2>1. PlanSound(e)
    BY <1>2 DEF ExecutionSound
  <2>2. f.at \in Moving \ {"connect", "finish"} => e.at \in Moving \ {"connect", "finish"}
    BY <1>5
  <2>. QED
    BY <1>6, <2>1, <2>2, <1>3 DEF PlanSound, Opens, ValidatePlan, Moving
<1>11. CursorSound(f)'
  BY <1>3, <1>6 DEF CursorSound
<1>12. SnapshotSound(f)'
  <2>1. SUFFICES ASSUME f.alone, f.plan.write = "truncate_and_replace"
                 PROVE  /\ f.at = "insert" =>
                              \E count, top \in 0..source :
                                  count <= top /\ FirstRows(dest[f.plan.id], count)' /\ f.todo = (count + 1)..top
                        /\ f.at = "finish" => \E count \in 0..source : FirstRows(dest[f.plan.id], count)'
    BY <1>3, <1>6 DEF SnapshotSound
  <2>2. PICK count \in 0..source, top \in 0..source :
            count <= top /\ FirstRows(dest[e.plan.id], count) /\ e.todo = (count + 1)..top
    BY <1>2, <1>3, <1>6, <2>1 DEF ExecutionSound, SnapshotSound
  <2>3. CASE count = top
    <3>1. e.todo = {}
      BY <1>2, <2>2, <2>3
    <3>2. rest = {} /\ FirstOf(e.todo) = {}
      BY <1>4, <3>1 DEF FirstOf
    <3>3. FirstRows(dest[f.plan.id], count)'
      BY <1>6, <1>7, <1>9, <2>2, <3>2 DEF FirstRows
    <3>. QED
      BY <1>6, <3>2, <3>3
  <2>4. CASE count # top
    <3>1. count \in Nat /\ top \in Nat /\ count < top
      BY <1>2, <2>2, <2>4
    <3>2. PICK next \in Nat : /\ count < next /\ next <= top
                              /\ FirstOf(e.todo) = (count + 1)..next
                              /\ e.todo \ FirstOf(e.todo) = (next + 1)..top
      <4>1. \E next \in Nat : /\ count < next /\ next <= top
                              /\ FirstOf((count + 1)..top) = (count + 1)..next
                              /\ ((count + 1)..top) \ FirstOf((count + 1)..top) = (next + 1)..top
        BY <3>1, FirstOfInterval
      <4>. QED
        BY <2>2, <4>1
    <3>3. next \in 0..source /\ (rest = {} => next = top)
      BY <1>2, <1>4, <2>2, <3>1, <3>2
    <3>4. \A k \in AllRows : dest[e.plan.id][k] = IF k <= count THEN 1 ELSE 0
      BY <2>2 DEF FirstRows
    <3>5. ASSUME NEW k \in AllRows PROVE dest'[e.plan.id][k] = IF k <= next THEN 1 ELSE 0
      <4>1. k \in FirstOf(e.todo) <=> (k > count /\ k <= next)
        BY <1>9, <3>1, <3>2
      <4>2. CASE k <= count
        BY <1>7, <1>9, <3>1, <3>2, <3>4, <4>1, <4>2
      <4>3. CASE k > count /\ k <= next
        BY <1>7, <1>9, <3>1, <3>2, <3>4, <4>1, <4>3
      <4>4. CASE k > next
        BY <1>7, <1>9, <3>1, <3>2, <3>4, <4>1, <4>4
      <4>. QED
        BY <1>9, <3>1, <4>2, <4>3, <4>4
    <3>6. FirstRows(dest[f.plan.id], next)'
      BY <1>6, <1>9, <3>5 DEF FirstRows
    <3>. QED
      BY <1>4, <1>6, <2>2, <3>2, <3>3, <3>6
  <2>. QED
    BY <2>3, <2>4
<1>13. ExecutionSound(f)'
  BY <1>10, <1>11, <1>12 DEF ExecutionSound
<1>14. f.plan = exec[n].plan /\ f.alone = exec[n].alone /\ exec[n].at \in Moving
  BY <1>1, <1>5, <1>6
<1>. QED
  BY <1>2, <1>3, <1>6, <1>8, <1>13, <1>14, OneMoves

\* The checkpoint that is loaded covers what it did.
LEMMA LoadCheckpointStep ==
    ASSUME MigrationInvariant, NEW n \in DOMAIN exec, LoadCheckpoint(n)
    PROVE  MigrationInvariant'
<1>1. PICK e \in Executions : e = exec[n]
  BY MigrationParts
<1>2. /\ config \in Configs /\ source \in 0..Len(config.column) /\ ExecutionSound(e)
      /\ db = [plans |-> db.plans, runs |-> db.runs] /\ e.plan.id \in Plans
      /\ cp \in [Plans -> 0..source] /\ CheckpointsSound
      /\ e.plan.mode = "incremental" => e.plan.write # "truncate_and_replace"
  BY <1>1, MigrationParts DEF MigrationInvariant
<1>3. /\ db' = db /\ config' = config /\ started' = started /\ source' = source /\ dest' = dest /\ cp' = cp
      /\ e.at = "checkpoint"
  BY <1>1 DEF LoadCheckpoint, data
<1>4. PICK last \in 0..source : last = cp[e.plan.id]
  BY <1>2
<1>5. PICK f \in Executions :
            /\ f = [e EXCEPT !.at = "select", !.last = last]
            /\ f.at = "select" /\ f.tenant = e.tenant /\ f.plan = e.plan /\ f.last = last /\ f.alone = e.alone
  <2>1. "select" \in ExecStages
    BY MovingStages
  <2>2. PICK f : f = [e EXCEPT !.at = "select", !.last = last]
    OBVIOUS
  <2>3. f \in Executions
    BY <2>1, <2>2 DEF Executions
  <2>4. f.at = "select" /\ f.tenant = e.tenant /\ f.plan = e.plan /\ f.last = last /\ f.alone = e.alone
    BY <2>2 DEF Executions
  <2>. QED
    BY <2>2, <2>3, <2>4
<1>6. exec' = [exec EXCEPT ![n] = f]
  BY <1>1, <1>4, <1>5 DEF LoadCheckpoint, GoesOnAs
<1>7. ExecutionSound(f)
  <2>1. PlanSound(f) /\ f.plan.mode = "incremental"
    <3>1. e.at \in Moving \ {"connect", "finish"}
      BY <1>3, MovingStages
    <3>. QED
      BY <1>2, <1>3, <1>5, <3>1 DEF ExecutionSound, PlanSound
  <2>2. CursorSound(f)
    <3>1. Covered(f.plan.id, last)
      <4>1. CASE last = 0
        BY <4>1 DEF Covered
      <4>2. CASE last # 0
        BY <1>2, <1>4, <1>5, <4>2 DEF CheckpointsSound
      <4>. QED
        BY <4>1, <4>2
    <3>. QED
      BY <1>5, <3>1 DEF CursorSound
  <2>3. SnapshotSound(f)
    BY <1>2, <1>5, <2>1 DEF SnapshotSound
  <2>. QED
    BY <2>1, <2>2, <2>3 DEF ExecutionSound
<1>8. ExecutionSound(f)'
  BY <1>2, <1>3, <1>7, SoundThroughCopies
<1>9. Copies(n, f)
  BY <1>3, MigrationParts DEF Copies
<1>10. f.plan = exec[n].plan /\ f.alone = exec[n].alone /\ exec[n].at \in Moving
  BY <1>1, <1>3, <1>5, MovingStages
<1>. QED
  BY <1>2, <1>3, <1>6, <1>8, <1>9, <1>10, OneMoves

\* A batch is exact.
LEMMA SelectBatchStep ==
    ASSUME MigrationInvariant, NEW n \in DOMAIN exec, SelectBatch(n)
    PROVE  MigrationInvariant'
<1>1. PICK e \in Executions : e = exec[n]
  BY MigrationParts
<1>2. /\ config \in Configs /\ source \in 0..Len(config.column) /\ ExecutionSound(e)
      /\ db = [plans |-> db.plans, runs |-> db.runs] /\ e.last \in 0..source
      /\ e.plan.mode = "incremental" => e.plan.write # "truncate_and_replace"
  BY <1>1, MigrationParts DEF Executions
<1>3. /\ db' = db /\ config' = config /\ started' = started /\ source' = source /\ dest' = dest /\ cp' = cp
      /\ e.at = "select" /\ e.plan.mode = "incremental"
  BY <1>1 DEF SelectBatch, data
<1>4. PICK batch \in SUBSET (1..source) : batch = BuildIncrementalSelect(e.last)
  BY <1>2, BatchIsExact
<1>5. PICK at \in {"finish", "insert"} : exec' = [exec EXCEPT ![n] = [e EXCEPT !.at = at, !.todo = batch]]
  BY <1>1, <1>4 DEF SelectBatch, GoesOnAs
<1>6. at \in ExecStages
  BY MovingStages
<1>7. PICK f \in Executions :
            /\ f = [e EXCEPT !.at = at, !.todo = batch]
            /\ f.at = at /\ f.tenant = e.tenant /\ f.plan = e.plan /\ f.last = e.last /\ f.alone = e.alone
            /\ f.todo = batch
  <2>1. at \in ExecStages
    BY <1>6
  <2>2. PICK f : f = [e EXCEPT !.at = at, !.todo = batch]
    OBVIOUS
  <2>3. f \in Executions
    BY <2>1, <2>2, <1>6 DEF Executions
  <2>4. f.at = at /\ f.tenant = e.tenant /\ f.plan = e.plan /\ f.last = e.last /\ f.alone = e.alone /\ f.todo = batch
    BY <2>2 DEF Executions
  <2>. QED
    BY <2>2, <2>3, <2>4
<1>8. ExecutionSound(f)
  <2>1. PlanSound(f)
    <3>1. e.at \in Moving \ {"connect", "finish"}
      BY <1>3, MovingStages
    <3>. QED
      BY <1>2, <1>7, <3>1 DEF ExecutionSound, PlanSound
  <2>2. CursorSound(f)
    <3>1. BatchExact(f)
      BY <1>2, <1>4, <1>7, BatchIsExact DEF BatchExact
    <3>. QED
      BY <1>2, <1>7, <3>1 DEF ExecutionSound, CursorSound
  <2>3. SnapshotSound(f)
    BY <1>2, <1>3, <1>7 DEF SnapshotSound
  <2>. QED
    BY <2>1, <2>2, <2>3 DEF ExecutionSound
<1>9. ExecutionSound(f)'
  BY <1>2, <1>3, <1>8, SoundThroughCopies
<1>10. Copies(n, f)
  BY <1>3, MigrationParts DEF Copies
<1>11. f.plan = exec[n].plan /\ f.alone = exec[n].alone /\ exec[n].at \in Moving
  BY <1>1, <1>3, <1>7, MovingStages
<1>. QED
  BY <1>2, <1>3, <1>5, <1>7, <1>9, <1>10, <1>11, OneMoves

\* When the rows of the batch are written, what is up to the new cursor is
\* there, whichever of them has it.
LEMMA InsertBatchStep ==
    ASSUME MigrationInvariant, NEW n \in DOMAIN exec, InsertBatch(n)
    PROVE  MigrationInvariant'
<1>1. PICK e \in Executions : e = exec[n]
  BY MigrationParts
<1>2. /\ config \in Configs /\ source \in 0..Len(config.column) /\ source \in Nat /\ ExecutionSound(e)
      /\ 1..source \subseteq AllRows
      /\ db = [plans |-> db.plans, runs |-> db.runs] /\ e.plan.id \in Plans
      /\ e.last \in 0..source /\ e.todo \in SUBSET (1..source)
      /\ dest \in [Plans -> [AllRows -> 0..2]]
      /\ e.plan.mode = "incremental" => e.plan.write # "truncate_and_replace"
  BY <1>1, MigrationParts DEF Executions
<1>3. /\ db' = db /\ config' = config /\ started' = started /\ source' = source /\ cp' = cp
      /\ e.at = "insert" /\ e.plan.mode = "incremental" /\ dest' = BuildInsert(dest, e.plan.id, e.todo)
  BY <1>1 DEF InsertBatch, data
<1>4. PICK last \in 0..source : last = MaxCursor(e.last, e.todo) /\ last \in e.todo \cup {e.last}
  <2>1. MaxCursor(e.last, e.todo) \in e.todo \cup {e.last}
    BY <1>2, MaxCursorIs
  <2>2. e.todo \cup {e.last} \subseteq 0..source
    BY <1>2
  <2>. QED
    BY <2>1, <2>2
<1>5. PICK f \in Executions :
            /\ f = [e EXCEPT !.at = "save", !.last = last]
            /\ f.at = "save" /\ f.tenant = e.tenant /\ f.plan = e.plan /\ f.last = last /\ f.alone = e.alone
  <2>1. "save" \in ExecStages
    BY MovingStages
  <2>2. PICK f : f = [e EXCEPT !.at = "save", !.last = last]
    OBVIOUS
  <2>3. f \in Executions
    BY <2>1, <2>2 DEF Executions
  <2>4. f.at = "save" /\ f.tenant = e.tenant /\ f.plan = e.plan /\ f.last = last /\ f.alone = e.alone
    BY <2>2 DEF Executions
  <2>. QED
    BY <2>2, <2>3, <2>4
<1>6. exec' = [exec EXCEPT ![n] = f]
  BY <1>1, <1>4, <1>5 DEF InsertBatch, GoesOnAs
<1>7. /\ dest' \in [Plans -> [AllRows -> 0..2]]
      /\ \A p \in Plans \ {e.plan.id} : dest'[p] = dest[p]
      /\ \A k \in AllRows : dest[e.plan.id][k] > 0 => dest'[e.plan.id][k] > 0
      /\ \A k \in AllRows \cap e.todo : dest'[e.plan.id][k] > 0
  BY <1>2, <1>3, InsertAdds
<1>8. Copies(n, f)
  BY <1>1, <1>3, <1>5, <1>7, MovingStages DEF Copies
<1>9. AllRows' = AllRows /\ \A k : Value(k)' = Value(k) /\ Tie(k)' = Tie(k)
  BY <1>3 DEF AllRows, Value, Tie
<1>10. ASSUME NEW k \in 1..source, last # 0, Value(k) <= Value(last)
       PROVE  dest'[e.plan.id][k] > 0 \/ Tie(k)
  <2>1. k \in AllRows /\ Covered(e.plan.id, e.last) /\ BatchExact(e)
    BY <1>2, <1>3 DEF ExecutionSound, CursorSound
  <2>2. CASE k \in e.todo
    BY <1>7, <2>1, <2>2
  <2>3. CASE last = e.last
    BY <1>7, <1>10, <2>1, <2>3 DEF Covered
  <2>4. CASE last # e.last /\ k \in Newer(e.last)
    BY <1>4, <1>7, <1>10, <2>1, <2>4 DEF BatchExact
  <2>5. CASE k \notin Newer(e.last)
    <3>1. e.last # 0 /\ ~(Value(k) > Value(e.last)) /\ e.last \in AllRows
      BY <1>2, <2>5 DEF Newer
    <3>2. Value(k) <= Value(e.last)
      BY <1>2, <2>1, <3>1, ColumnFacts
    <3>. QED
      BY <1>7, <2>1, <3>1, <3>2 DEF Covered
  <2>. QED
    BY <2>3, <2>4, <2>5
<1>11. ExecutionSound(f)'
  <2>1. PlanSound(f)'
    <3>1. e.at \in Moving \ {"connect", "finish"}
      BY <1>3, MovingStages
    <3>. QED
      BY <1>2, <1>3, <1>5, <3>1 DEF ExecutionSound, PlanSound, Moving, Opens, ValidatePlan
  <2>2. CursorSound(f)'
    <3>1. Covered(f.plan.id, f.last)'
      BY <1>3, <1>5, <1>9, <1>10 DEF Covered
    <3>. QED
      BY <1>5, <3>1 DEF CursorSound
  <2>3. SnapshotSound(f)'
    BY <1>2, <1>3, <1>5 DEF SnapshotSound
  <2>. QED
    BY <2>1, <2>2, <2>3 DEF ExecutionSound
<1>12. f.plan = exec[n].plan /\ f.alone = exec[n].alone /\ exec[n].at \in Moving
  BY <1>1, <1>3, <1>5, MovingStages
<1>. QED
  BY <1>2, <1>3, <1>6, <1>8, <1>11, <1>12, OneMoves

\* The checkpoint that is saved covers what the execution has copied; when
\* it is not saved, the execution goes on all the same.
LEMMA SaveSteps ==
    ASSUME MigrationInvariant, NEW n \in DOMAIN exec, SaveCheckpoint(n) \/ SaveFails(n)
    PROVE  MigrationInvariant'
<1>1. PICK e \in Executions : e = exec[n]
  BY MigrationParts
<1>2. /\ config \in Configs /\ source \in 0..Len(config.column) /\ ExecutionSound(e)
      /\ db = [plans |-> db.plans, runs |-> db.runs] /\ dest \in [Plans -> [AllRows -> 0..2]]
      /\ e.plan.mode = "incremental" => e.plan.write # "truncate_and_replace"
  BY <1>1, MigrationParts
<1>3. /\ db' = db /\ config' = config /\ started' = started /\ source' = source /\ dest' = dest
      /\ e.at = "save" /\ cp' \in {cp, [cp EXCEPT ![e.plan.id] = e.last]}
  BY <1>1 DEF SaveCheckpoint, SaveFails, data
<1>4. PICK at \in {"finish", "select"} : exec' = [exec EXCEPT ![n] = [e EXCEPT !.at = at, !.todo = {}]]
  BY <1>1 DEF SaveCheckpoint, SaveFails, GoesOnAs
<1>5. at \in ExecStages /\ {} \in SUBSET (1..source)
  BY MovingStages
<1>6. PICK f \in Executions :
            /\ f = [e EXCEPT !.at = at, !.todo = {}]
            /\ f.at = at /\ f.tenant = e.tenant /\ f.plan = e.plan /\ f.last = e.last /\ f.alone = e.alone
  <2>1. at \in ExecStages
    BY <1>5
  <2>2. PICK f : f = [e EXCEPT !.at = at, !.todo = {}]
    OBVIOUS
  <2>3. f \in Executions
    BY <2>1, <2>2, <1>5 DEF Executions
  <2>4. f.at = at /\ f.tenant = e.tenant /\ f.plan = e.plan /\ f.last = e.last /\ f.alone = e.alone
    BY <2>2 DEF Executions
  <2>. QED
    BY <2>2, <2>3, <2>4
<1>7. PlanSound(f) /\ f.plan.mode = "incremental"
  <2>1. e.at \in Moving \ {"connect", "finish"}
    BY <1>3, MovingStages
  <2>. QED
    BY <1>2, <1>3, <1>6, <2>1 DEF ExecutionSound, PlanSound
<1>8. ExecutionSound(f)
  <2>1. CursorSound(f)
    BY <1>2, <1>6 DEF ExecutionSound, CursorSound
  <2>2. SnapshotSound(f)
    BY <1>2, <1>6, <1>7 DEF SnapshotSound
  <2>. QED
    BY <1>7, <2>1, <2>2 DEF ExecutionSound
<1>9. ExecutionSound(f)'
  BY <1>2, <1>3, <1>8, SoundThroughCopies
<1>10. Copies(n, f)
  BY <1>1, <1>2, <1>3, <1>6, <1>7 DEF Copies
<1>11. f.plan = exec[n].plan /\ f.alone = exec[n].alone /\ exec[n].at \in Moving
  BY <1>1, <1>3, <1>6, MovingStages
<1>. QED
  BY <1>2, <1>3, <1>4, <1>6, <1>9, <1>10, <1>11, OneMoves

\* Nothing that is known of an execution, or of a checkpoint, is about the
\* plans that are stored.
LEMMA KeptExecutions ==
    ASSUME MigrationInvariant, UNCHANGED <<config, data, exec>>, db' = [plans |-> db'.plans, runs |-> db'.runs],
           db'.plans \in Seq(PlanRows), started' \in 0..MaxRequests, PlansFixed',
           (Foreign(db.plans) = Foreign(Seed.plans))'
    PROVE  MigrationInvariant'
<1>1. config' = config /\ source' = source /\ dest' = dest /\ cp' = cp /\ exec' = exec
  BY DEF data
<1>2. MigrationTypes'
  <2>1. Executions' = Executions /\ AllRows' = AllRows
    BY <1>1 DEF Executions, AllRows
  <2>. QED
    BY <1>1, <2>1 DEF MigrationInvariant, MigrationTypes
<1>3. ASSUME NEW m \in DOMAIN exec PROVE ExecutionSound(exec[m])'
  <2>1. PICK e \in Executions : e = exec[m] /\ ExecutionSound(e)
    BY MigrationParts
  <2>2. ExecutionSound(e)'
    BY <1>1, <2>1, MigrationParts, SoundThroughCopies
  <2>. QED
    BY <1>1, <2>1, <2>2
<1>4. CheckpointsSound'
  <2>1. ASSUME NEW plan \in Plans, cp[plan] # 0 PROVE Covered(plan, cp[plan])'
    <3>1. PICK last : last = cp[plan]
      OBVIOUS
    <3>2. Covered(plan, last)
      BY <2>1, <3>1 DEF MigrationInvariant, CheckpointsSound
    <3>3. Covered(plan, last)'
      BY <1>1, <3>2, MigrationParts, CoveredThroughCopies
    <3>. QED
      BY <1>1, <3>1, <3>3
  <2>. QED
    BY <1>1, <2>1 DEF MigrationInvariant, CheckpointsSound
<1>5. AloneMoves'
  BY <1>1 DEF MigrationInvariant, AloneMoves, Same, Moving
<1>. QED
  BY <1>1, <1>2, <1>3, <1>4, <1>5 DEF MigrationInvariant

\* Nothing that counts moves.
LEMMA NothingMoves ==
    ASSUME MigrationInvariant, UNCHANGED <<config, data, exec>>,
           db'.plans = db.plans, db' = [plans |-> db'.plans, runs |-> db'.runs],
           started' \in 0..MaxRequests, started' >= started
    PROVE  MigrationInvariant'
<1>1. exec' = exec /\ started' \in Nat
  BY ConstantFacts
<1>2. PlansFixed'
  BY <1>1, PlansStayFixed
<1>3. (Foreign(db.plans) = Foreign(Seed.plans))'
  BY DEF MigrationInvariant, Foreign, Rows, Where
<1>4. db'.plans \in Seq(PlanRows)
  BY DEF MigrationInvariant, MigrationTypes
<1>. QED
  BY <1>2, <1>3, <1>4, KeptExecutions

\* A run that is handed over moves nothing.
LEMMA EnqueueStep ==
    ASSUME MigrationInvariant, NEW r \in Requests, EnqueueMigrationRun(r)
    PROVE  MigrationInvariant'
<1>1. PICK n : n = req[r].run
  OBVIOUS
<1>2. /\ UNCHANGED <<config, data, started>> /\ db' = db /\ exec' = [exec EXCEPT ![n].at = "queued"]
  BY <1>1 DEF EnqueueMigrationRun, Continue
<1>3. db = [plans |-> db.plans, runs |-> db.runs] /\ exec \in Seq(Executions) /\ started \in 0..MaxRequests
  BY MigrationParts DEF MigrationInvariant, MigrationTypes
<1>4. CASE n \in DOMAIN exec
  <2>1. PICK e \in Executions : e = exec[n]
    BY <1>4, MigrationParts
  <2>2. "queued" \in ExecStages
    BY DEF ExecStages
  <2>3. PICK f \in Executions :
              /\ f = [e EXCEPT !.at = "queued"]
              /\ f.at = "queued" /\ f.tenant = e.tenant /\ f.plan = e.plan /\ f.last = e.last /\ f.alone = e.alone
    BY <2>2, Fields
  <2>4. exec' = [exec EXCEPT ![n] = f]
    BY <1>2, <2>1, <2>3
  <2>. QED
    BY <1>2, <1>3, <1>4, <2>1, <2>3, <2>4, Rests, ZenonT(40)
<1>5. CASE n \notin DOMAIN exec
  <2>1. exec' = exec
    BY <1>2, <1>3, <1>5
  <2>2. started' \in 0..MaxRequests /\ started' >= started
    BY <1>2, <1>3, ConstantFacts
  <2>. QED
    BY <1>2, <1>3, <2>1, <2>2, NothingMoves
<1>. QED
  BY <1>4, <1>5

\* An execution that begins while another of its plan moves is not alone,
\* and the other is not either from then on.
LEMMA LoadRunStep ==
    ASSUME MigrationInvariant, NEW n \in DOMAIN exec, LoadRun(n)
    PROVE  MigrationInvariant'
<1>1. PICK e \in Executions : e = exec[n] /\ ExecutionSound(e)
  BY MigrationParts
<1>2. /\ config \in Configs /\ source \in 0..Len(config.column) /\ exec \in Seq(Executions)
      /\ db = [plans |-> db.plans, runs |-> db.runs] /\ started \in 0..MaxRequests
  BY MigrationParts DEF MigrationInvariant, MigrationTypes
<1>3. /\ UNCHANGED <<config, started, data>> /\ db' = db
      /\ config' = config /\ started' = started /\ source' = source /\ dest' = dest /\ cp' = cp
  BY DEF LoadRun, data
<1>4. PICK others : others = {m \in DOMAIN exec : Same(n, m) /\ exec[m].at \in Moving}
  OBVIOUS
<1>5. CASE GoesTo(n, "unloaded")
  <2>1. PICK f \in Executions :
              /\ f = [e EXCEPT !.at = "unloaded"]
              /\ f.at = "unloaded" /\ f.tenant = e.tenant /\ f.plan = e.plan /\ f.last = e.last /\ f.alone = e.alone
    <3>1. "unloaded" \in ExecStages
      BY DEF ExecStages
    <3>. QED
      BY <3>1, Fields
  <2>2. exec' = [exec EXCEPT ![n] = f]
    BY <1>1, <1>5, <2>1 DEF GoesTo, GoesOnAs
  <2>. QED
    BY <1>1, <1>2, <1>3, <2>1, <2>2, Rests
<1>6. CASE ~GoesTo(n, "unloaded")
  <2>1. exec' = [m \in DOMAIN exec |->
                    IF m = n THEN [e EXCEPT !.at = "connect", !.alone = others = {}]
                    ELSE IF m \in others THEN [exec[m] EXCEPT !.alone = FALSE] ELSE exec[m]]
    BY <1>1, <1>4, <1>6 DEF LoadRun
  <2>2. PICK f : f = [e EXCEPT !.at = "connect", !.alone = others = {}]
    OBVIOUS
  <2>3. /\ f \in Executions /\ f.at = "connect" /\ f.tenant = e.tenant /\ f.plan = e.plan /\ f.last = e.last
        /\ f.alone <=> others = {}
    <3>1. "connect" \in ExecStages
      BY MovingStages
    <3>. QED
      BY <2>2, <3>1 DEF Executions
  <2>4. DOMAIN exec' = DOMAIN exec /\ exec'[n] = f
    BY <2>1, <2>2
  <2>5. ASSUME NEW m \in DOMAIN exec, m # n
        PROVE  /\ exec'[m] \in Executions /\ exec'[m].plan = exec[m].plan /\ exec'[m].at = exec[m].at
               /\ exec'[m].alone => exec[m].alone /\ m \notin others
               /\ ExecutionSound(exec[m])'
    <3>1. PICK d \in Executions : d = exec[m] /\ ExecutionSound(d)
      BY MigrationParts
    <3>2. CASE m \in others
      <4>1. PICK g : g = [d EXCEPT !.alone = FALSE]
        OBVIOUS
      <4>2. exec'[m] = g
        BY <2>1, <2>5, <3>1, <3>2, <4>1
      <4>3. /\ g \in Executions /\ g.at = d.at /\ g.tenant = d.tenant /\ g.plan = d.plan /\ g.last = d.last
            /\ g.todo = d.todo /\ ~g.alone
        BY <4>1 DEF Executions
      <4>4. ExecutionSound(g)
        <5>1. PlanSound(g)
          BY <3>1, <4>3 DEF ExecutionSound, PlanSound
        <5>2. CursorSound(g)
          BY <3>1, <4>3 DEF ExecutionSound, CursorSound, BatchExact
        <5>3. SnapshotSound(g)
          BY <4>3 DEF SnapshotSound
        <5>. QED
          BY <5>1, <5>2, <5>3 DEF ExecutionSound
      <4>5. ExecutionSound(g)'
        BY <1>2, <1>3, <4>3, <4>4, SoundThroughCopies
      <4>. QED
        BY <3>1, <4>2, <4>3, <4>5
    <3>3. CASE m \notin others
      <4>1. exec'[m] = d
        BY <2>1, <2>5, <3>1, <3>3
      <4>2. ExecutionSound(d)'
        BY <1>2, <1>3, <3>1, SoundThroughCopies
      <4>. QED
        BY <3>1, <3>3, <4>1, <4>2
    <3>. QED
      BY <3>2, <3>3
  <2>6. ExecutionSound(exec[n])'
    <3>1. PlanSound(f)
      BY <1>1, <2>3 DEF ExecutionSound, PlanSound
    <3>2. CursorSound(f)
      BY <1>1, <2>3 DEF ExecutionSound, CursorSound
    <3>3. SnapshotSound(f)
      BY <2>3 DEF SnapshotSound
    <3>4. ExecutionSound(f)'
      <4>1. ExecutionSound(f)
        BY <3>1, <3>2, <3>3 DEF ExecutionSound
      <4>. QED
        BY <1>2, <1>3, <2>3, <4>1, SoundThroughCopies
    <3>. QED
      BY <2>4, <3>4
  <2>7. \A m \in DOMAIN exec : exec'[m].plan = exec[m].plan
    BY <1>1, <2>3, <2>4, <2>5
  <2>8. MigrationTypes'
    <3>1. \A m \in DOMAIN exec : exec'[m] \in Executions
      BY <2>3, <2>4, <2>5
    <3>2. Executions' = Executions /\ AllRows' = AllRows
      BY <1>3 DEF Executions, AllRows
    <3>3. exec' \in Seq(Executions)
      <4>1. Len(exec) \in Nat /\ DOMAIN exec = 1..Len(exec)
        BY <1>2
      <4>2. exec' \in [1..Len(exec) -> Executions]
        BY <2>1, <3>1, <4>1
      <4>. QED
        BY <4>1, <4>2
    <3>. QED
      BY <1>3, <3>2, <3>3 DEF MigrationInvariant, MigrationTypes
  <2>9. PlansFixed'
    <3>1. started' \in Nat /\ started' >= started
      BY <1>2, <1>3, ConstantFacts
    <3>. QED
      BY <1>3, <2>4, <2>7, <3>1, PlansStayFixed
  <2>10. CheckpointsSound'
    <3>1. ASSUME NEW plan \in Plans, cp[plan] # 0 PROVE Covered(plan, cp[plan])'
      <4>1. PICK last : last = cp[plan]
        OBVIOUS
      <4>2. Covered(plan, last)
        BY <3>1, <4>1 DEF MigrationInvariant, CheckpointsSound
      <4>3. Covered(plan, last)'
        BY <1>2, <1>3, <4>2, CoveredThroughCopies
      <4>. QED
        BY <1>3, <4>1, <4>3
    <3>2. \A plan \in Plans : cp[plan] # 0 =>
             \E m \in DOMAIN exec : exec[m].plan.id = plan /\ exec[m].plan.mode = "incremental"
      BY DEF MigrationInvariant, CheckpointsSound
    <3>. QED
      BY <1>3, <2>4, <2>7, <3>1, <3>2 DEF CheckpointsSound
  <2>11. AloneMoves'
    <3>1. ASSUME NEW a \in DOMAIN exec, NEW b \in DOMAIN exec, a # b, exec'[a].plan.id = exec'[b].plan.id,
                 exec'[a].at \in Moving, exec'[b].at \in Moving, exec'[a].alone
          PROVE  FALSE
      <4>1. exec[a].plan.id = exec[b].plan.id
        BY <2>7, <3>1
      <4>2. CASE a = n
        <5>1. exec[b].at \in Moving
          BY <2>5, <3>1, <4>2
        <5>2. b \in others
          BY <1>4, <3>1, <4>1, <4>2, <5>1 DEF Same
        <5>. QED
          BY <2>3, <2>4, <3>1, <4>2, <5>2
      <4>3. CASE b = n
        <5>1. exec[a].at \in Moving /\ a \notin others
          BY <2>5, <3>1, <4>3
        <5>. QED
          BY <1>4, <3>1, <4>1, <4>3, <5>1 DEF Same
      <4>4. CASE a # n /\ b # n
        <5>1. exec[a].at \in Moving /\ exec[b].at \in Moving /\ exec[a].alone
          BY <2>5, <3>1, <4>4
        <5>. QED
          BY <3>1, <4>1, <5>1 DEF MigrationInvariant, AloneMoves, Same
      <4>. QED
        BY <4>2, <4>3, <4>4
    <3>. QED
      BY <2>4, <3>1 DEF AloneMoves, Same, Moving
  <2>12. (Foreign(db.plans) = Foreign(Seed.plans))'
    BY <1>3 DEF MigrationInvariant, Foreign, Rows, Where
  <2>. QED
    BY <2>4, <2>5, <2>6, <2>8, <2>9, <2>10, <2>11, <2>12 DEF MigrationInvariant
<1>. QED
  BY <1>5, <1>6

\* A new row in the source has the largest cursor, or that of another row.
LEMMA SourceGrowsStep ==
    ASSUME MigrationInvariant, SourceGrows
    PROVE  MigrationInvariant'
<1>1. /\ config' = config /\ started' = started /\ source' = source + 1 /\ dest' = dest /\ cp' = cp /\ exec' = exec
      /\ db' = db /\ source < Len(config.column)
  BY DEF SourceGrows
<1>2. /\ config \in Configs /\ source \in 0..Len(config.column) /\ source \in Nat /\ Len(config.column) \in Nat
      /\ cp \in [Plans -> 0..source] /\ exec \in Seq(Executions) /\ started \in Nat
      /\ MigrationTypes /\ CheckpointsSound
  BY MigrationParts, ColumnFacts, ConstantFacts DEF MigrationInvariant, MigrationTypes
<1>3. MigrationTypes'
  <2>1. source' \in 0..Len(config.column) /\ 0..source \subseteq 0..source' /\ 1..source \subseteq 1..source'
    BY <1>1, <1>2
  <2>2. \A e \in Executions : e \in Executions'
    BY <2>1 DEF Executions
  <2>3. exec \in Seq(Executions')
    <3>1. exec \in [1..Len(exec) -> Executions'] /\ Len(exec) \in Nat
      BY <1>2, <2>2
    <3>. QED
      BY <3>1
  <2>4. cp \in [Plans -> 0..source']
    BY <1>2, <2>1
  <2>5. AllRows' = AllRows
    BY <1>1 DEF AllRows
  <2>. QED
    BY <1>1, <1>2, <2>1, <2>3, <2>4, <2>5 DEF MigrationTypes
<1>4. ASSUME NEW m \in DOMAIN exec PROVE ExecutionSound(exec[m])'
  <2>1. PICK e \in Executions : e = exec[m] /\ ExecutionSound(e)
    BY MigrationParts
  <2>2. ExecutionSound(e)'
    BY <1>1, <1>2, <2>1, SoundAsSourceGrows
  <2>. QED
    BY <1>1, <2>1, <2>2
<1>5. CheckpointsSound'
  <2>1. ASSUME NEW plan \in Plans, cp[plan] # 0 PROVE Covered(plan, cp[plan])'
    <3>1. PICK last \in 0..source : last = cp[plan]
      BY <1>2
    <3>2. Covered(plan, last)
      BY <1>2, <2>1, <3>1 DEF CheckpointsSound
    <3>3. Covered(plan, last)'
      BY <1>1, <1>2, <3>2, CoveredGrows
    <3>. QED
      BY <1>1, <3>1, <3>3
  <2>. QED
    BY <1>1, <1>2, <2>1 DEF CheckpointsSound
<1>6. started' >= started
  BY <1>1, <1>2
<1>. QED
  BY <1>1, <1>3, <1>4, <1>5, <1>6, KeptPlans

\* A server that dies leaves no execution moving, and no checkpoint ahead.
LEMMA CrashStep ==
    ASSUME MigrationInvariant, Crash
    PROVE  MigrationInvariant'
<1>1. /\ config' = config /\ started' = started /\ source' = source /\ dest' = dest /\ db' = db
      /\ cp' \in {cp, [plan \in Plans |-> 0]}
      /\ exec' = [n \in DOMAIN exec |->
                     IF exec[n].at \in {"new"} \cup Moving \/ (exec[n].at = "queued" /\ config.deployment = "sync")
                     THEN [exec[n] EXCEPT !.at = "dead"] ELSE exec[n]]
  BY DEF Crash
<1>2. /\ config \in Configs /\ source \in 0..Len(config.column) /\ source \in Nat
      /\ cp \in [Plans -> 0..source] /\ exec \in Seq(Executions) /\ started \in Nat
      /\ MigrationTypes /\ CheckpointsSound
  BY MigrationParts, ConstantFacts DEF MigrationInvariant, MigrationTypes
<1>3. ASSUME NEW m \in DOMAIN exec
      PROVE  /\ exec'[m] \in Executions /\ exec'[m].plan = exec[m].plan /\ exec'[m].alone = exec[m].alone
             /\ exec'[m].at \notin Moving
             /\ ExecutionSound(exec[m])'
  <2>1. PICK e \in Executions : e = exec[m] /\ ExecutionSound(e)
    BY MigrationParts
  <2>2. CASE exec'[m] = [e EXCEPT !.at = "dead"]
    <3>1. "dead" \in ExecStages /\ "dead" \notin Moving
      BY DEF ExecStages, Moving
    <3>2. PICK f \in Executions :
              /\ f = [e EXCEPT !.at = "dead"]
              /\ f.at = "dead" /\ f.tenant = e.tenant /\ f.plan = e.plan /\ f.last = e.last /\ f.alone = e.alone
      BY <3>1, Fields
    <3>3. ExecutionSound(f)
      <4>1. PlanSound(f)
        BY <2>1, <3>1, <3>2 DEF ExecutionSound, PlanSound
      <4>2. CursorSound(f)
        BY <2>1, <3>2 DEF ExecutionSound, CursorSound
      <4>3. SnapshotSound(f)
        BY <3>2 DEF SnapshotSound
      <4>. QED
        BY <4>1, <4>2, <4>3 DEF ExecutionSound
    <3>4. ExecutionSound(f)'
      BY <1>1, <1>2, <3>3, SoundThroughCopies
    <3>. QED
      BY <2>1, <2>2, <3>1, <3>2, <3>4
  <2>3. CASE exec'[m] = e /\ e.at \notin Moving
    <3>1. ExecutionSound(e)'
      BY <1>1, <1>2, <2>1, SoundThroughCopies
    <3>. QED
      BY <2>1, <2>3, <3>1
  <2>. QED
    BY <1>1, <2>1, <2>2, <2>3
<1>4. MigrationTypes'
  <2>1. Executions' = Executions /\ AllRows' = AllRows
    BY <1>1 DEF Executions, AllRows
  <2>2. exec' \in Seq(Executions)
    <3>1. Len(exec) \in Nat /\ DOMAIN exec = 1..Len(exec)
      BY <1>2
    <3>2. exec' \in [1..Len(exec) -> Executions]
      BY <1>1, <1>3, <3>1
    <3>. QED
      BY <3>1, <3>2
  <2>3. cp' \in [Plans -> 0..source]
    <3>1. 0 \in 0..source
      BY <1>2
    <3>. QED
      BY <1>1, <1>2, <3>1
  <2>. QED
    BY <1>1, <1>2, <2>1, <2>2, <2>3 DEF MigrationTypes
<1>5. DOMAIN exec' = DOMAIN exec
  BY <1>1
<1>6. CheckpointsSound'
  <2>1. CASE cp' = cp
    <3>1. ASSUME NEW plan \in Plans, cp[plan] # 0 PROVE Covered(plan, cp[plan])'
      <4>1. PICK last : last = cp[plan]
        OBVIOUS
      <4>2. Covered(plan, last)
        BY <1>2, <3>1, <4>1 DEF CheckpointsSound
      <4>3. Covered(plan, last)'
        BY <1>1, <1>2, <4>2, CoveredThroughCopies
      <4>. QED
        BY <2>1, <4>1, <4>3
    <3>2. \A plan \in Plans : cp[plan] # 0 =>
             \E m \in DOMAIN exec : exec[m].plan.id = plan /\ exec[m].plan.mode = "incremental"
      BY <1>2 DEF CheckpointsSound
    <3>. QED
      BY <1>3, <1>5, <2>1, <3>1, <3>2 DEF CheckpointsSound
  <2>2. CASE cp' = [plan \in Plans |-> 0]
    <3>1. \A plan \in Plans : cp'[plan] = 0
      BY <2>2
    <3>. QED
      BY <3>1 DEF CheckpointsSound
  <2>. QED
    BY <1>1, <2>1, <2>2
<1>7. started' >= started
  BY <1>1, <1>2
<1>. QED
  BY <1>1, <1>3, <1>4, <1>5, <1>6, <1>7, KeptPlans

\* rest is drawn from the rows that are kept, in their order ...
Drawn(table, kept, rest) ==
    \A n \in DOMAIN rest : \E i \in kept : RankAmong(kept, i) = n /\ rest[n] = table[i]

\* ... and so has each of them once.
HasOnce(table, kept, rest) ==
    /\ \A i \in kept : \E n \in DOMAIN rest : rest[n] = table[i]
    /\ \A n \in DOMAIN rest : \E i \in kept : rest[n] = table[i]
    /\ \A n, m \in DOMAIN rest : n # m => \E i, j \in kept : i # j /\ rest[n] = table[i] /\ rest[m] = table[j]

\* DELETE leaves the rows that are kept, each once.
LEMMA RestOf ==
    ASSUME NEW S, NEW table \in Seq(S), NEW kept \in SUBSET (DOMAIN table),
           NEW rest \in [1..Cardinality(kept) -> S], Drawn(table, kept, rest)
    PROVE  rest \in Seq(S) /\ HasOnce(table, kept, rest)
<1>1. Len(table) \in Nat /\ DOMAIN table = 1..Len(table) /\ \A i \in DOMAIN table : table[i] \in S
  OBVIOUS
<1>2. /\ IsFiniteSet(kept) /\ Cardinality(kept) \in Nat
      /\ \A i, j \in kept : RankAmong(kept, i) = RankAmong(kept, j) => i = j
      /\ \A k \in 1..Cardinality(kept) : \E i \in kept : RankAmong(kept, i) = k
  BY <1>1, RanksCount
<1> DEFINE at(n) == CHOOSE i \in kept : RankAmong(kept, i) = n /\ rest[n] = table[i]
<1>3. ASSUME NEW n \in DOMAIN rest PROVE at(n) \in kept /\ RankAmong(kept, at(n)) = n /\ rest[n] = table[at(n)]
  <2>1. \E i \in kept : RankAmong(kept, i) = n /\ rest[n] = table[i]
    BY DEF Drawn
  <2>. QED
    BY <2>1, Zenon
<1>4. DOMAIN rest = 1..Cardinality(kept) /\ rest = [n \in DOMAIN rest |-> rest[n]]
  OBVIOUS
<1>5. ASSUME NEW i \in kept PROVE \E n \in DOMAIN rest : rest[n] = table[i]
  <2>1. RankAmong(kept, i) \in 1..Cardinality(kept)
    <3> DEFINE Upto == {j \in kept : j <= i}
    <3>2. Upto \subseteq kept /\ i \in Upto
      BY <1>1
    <3>3. IsFiniteSet(Upto) /\ Cardinality(Upto) \in Nat /\ Cardinality(Upto) <= Cardinality(kept) /\ Cardinality(Upto) # 0
      BY <1>2, <3>2, FS_Subset, FS_CardinalityType, FS_EmptySet
    <3>. QED
      BY <1>2, <3>3 DEF RankAmong
  <2>2. PICK n \in DOMAIN rest : n = RankAmong(kept, i)
    BY <1>4, <2>1
  <2>. QED
    BY <1>2, <1>3, <2>2
<1> HIDE DEF at
<1>6. \A n \in DOMAIN rest : rest[n] \in S
  BY <1>1, <1>3
<1>7. rest \in Seq(S)
  BY <1>2, <1>4, <1>6
<1>8. \A n \in DOMAIN rest : \E i \in kept : rest[n] = table[i]
  BY <1>3
<1>9. ASSUME NEW n \in DOMAIN rest, NEW m \in DOMAIN rest, n # m
      PROVE  \E i, j \in kept : i # j /\ rest[n] = table[i] /\ rest[m] = table[j]
  <2>1. at(n) \in kept /\ at(m) \in kept /\ at(n) # at(m) /\ rest[n] = table[at(n)] /\ rest[m] = table[at(m)]
    BY <1>3, <1>9
  <2>. QED
    BY <2>1
<1>. QED
  BY <1>5, <1>7, <1>8, <1>9 DEF HasOnce

\* The rows of nobody who makes requests.
LEMMA ForeignPlans ==
    ASSUME NEW table
    PROVE  Foreign(table) = {x \in {table[i] : i \in DOMAIN table} : \A p \in People : p.tenant # x.tenant}
BY DEF Foreign, Rows, Where

\* A request that comes in.
LEMMA RequestCounts ==
    ASSUME MigrationInvariant, NEW r \in Requests, NEW p \in People, NEW verb, NEW type, Admitted(r, p, verb, type)
    PROVE  /\ started \in Nat /\ started' = started + 1 /\ started' \in 1..MaxRequests
           /\ Len(Seed.plans) \in Nat /\ Len(Seed.plans) + started' \in Plans
<1>1. started \in 0..MaxRequests /\ started < MaxRequests /\ started' = started + 1
  BY DEF MigrationInvariant, MigrationTypes, Admitted, Begin
<1>2. PICK n \in Nat : n = Len(Seed.plans)
  BY ConstantFacts
<1>3. started \in Nat /\ started' = started + 1 /\ started' \in 1..MaxRequests /\ MaxRequests \in Nat
  BY <1>1, ConstantFacts
<1>4. n + started' \in 1..(n + MaxRequests)
  BY <1>3
<1>. QED
  BY <1>2, <1>3, <1>4 DEF Plans

\* A plan that is made has an id that no plan had before.
LEMMA CreatePlanStep ==
    ASSUME MigrationInvariant, NEW r \in Requests, NEW p \in People, CreatePlanRequest(r, p)
    PROVE  MigrationInvariant'
<1>1. /\ config' = config /\ source' = source /\ dest' = dest /\ cp' = cp /\ exec' = exec
      /\ UNCHANGED <<config, data, exec>>
  BY DEF CreatePlanRequest, data
<1>2. /\ started \in Nat /\ started' = started + 1 /\ started' \in 1..MaxRequests
      /\ Len(Seed.plans) \in Nat /\ Len(Seed.plans) + started' \in Plans
  BY RequestCounts DEF CreatePlanRequest
<1>3. started' \in 0..MaxRequests /\ started' >= started
  BY <1>2
<1>4. db = [plans |-> db.plans, runs |-> db.runs] /\ db.plans \in Seq(PlanRows) /\ PlansFixed
  BY DEF MigrationInvariant, MigrationTypes
<1>5. PICK form \in Forms : db' = MakePlan(NewPlan(Len(Seed.plans) + started', p.tenant, form)).db
  BY DEF CreatePlanRequest, Finish, Then
<1>6. PICK plan \in PlanRows : plan = NewPlan(Len(Seed.plans) + started', p.tenant, form)
  BY <1>2 DEF PlanRows
<1>7. plan.id = Len(Seed.plans) + started' /\ plan.tenant = p.tenant
  BY <1>6 DEF NewPlan
<1>8. CASE ~ValidatePlan(plan)
  <2>1. db' = db
    BY <1>5, <1>6, <1>8 DEF MakePlan, Fails
  <2>. QED
    BY <1>1, <1>3, <1>4, <2>1, NothingMoves
<1>9. CASE ValidatePlan(plan)
  <2>1. db' = [db EXCEPT !.plans = Append(db.plans, plan)]
    BY <1>5, <1>6, <1>9 DEF MakePlan, CreatePlan, Ok
  <2>2. db' = [plans |-> db'.plans, runs |-> db'.runs] /\ db'.plans = Append(db.plans, plan)
    BY <1>4, <2>1
  <2>3. PICK n \in Nat : n = Len(db.plans)
    BY <1>4
  <2>4. /\ db'.plans \in Seq(PlanRows) /\ DOMAIN db.plans = 1..n /\ DOMAIN db'.plans = 1..(n + 1)
        /\ db'.plans[n + 1] = plan /\ \A i \in 1..n : db'.plans[i] = db.plans[i]
    BY <1>4, <2>2, <2>3
  <2>5. \A i \in DOMAIN db'.plans : i \in 1..n \/ i = n + 1
    BY <2>4
  <2>6. ASSUME NEW q \in PlanRows, q.id <= Len(Seed.plans) + started PROVE q.id # plan.id /\ q.id <= plan.id
    <3>1. q.id \in Nat
      BY PlanIds, ConstantFacts DEF Plans
    <3>2. PICK s, k, l : s = Len(Seed.plans) /\ k = started /\ l = plan.id
      OBVIOUS
    <3>3. s \in Nat /\ k \in Nat /\ started' = k + 1
      BY <1>2, <3>2
    <3>4. l = s + (k + 1)
      BY <1>7, <3>2, <3>3
    <3>5. q.id <= s + k
      BY <2>6, <3>2
    <3>6. q.id # l /\ q.id <= l
      BY <3>1, <3>3, <3>4, <3>5
    <3>. QED
      BY <3>2, <3>6
  <2>7. \A i \in 1..n : db.plans[i] \in PlanRows /\ db.plans[i].id <= Len(Seed.plans) + started /\ ValidatePlan(db.plans[i])
    BY <1>4, <2>4 DEF PlansFixed
  <2>8. \A m \in DOMAIN exec : exec[m].plan \in PlanRows /\ exec[m].plan.id <= Len(Seed.plans) + started
    BY <1>4, MigrationParts DEF PlansFixed, Executions
  <2>9. PlansFixed'
    <3>1. ASSUME NEW i \in DOMAIN db'.plans
          PROVE  db'.plans[i].id <= Len(Seed.plans) + started' /\ ValidatePlan(db'.plans[i])
      <4>1. CASE i \in 1..n
        BY <1>7, <2>4, <2>6, <2>7, <4>1
      <4>2. CASE i = n + 1
        <5>1. plan.id \in Nat /\ plan.id <= plan.id
          BY PlanIds, ConstantFacts DEF Plans
        <5>. QED
          BY <1>7, <1>9, <2>4, <4>2, <5>1
      <4>. QED
        BY <2>5, <4>1, <4>2
    <3>2. ASSUME NEW i \in DOMAIN db'.plans, NEW j \in DOMAIN db'.plans, db'.plans[i].id = db'.plans[j].id
          PROVE  i = j
      <4>1. CASE i \in 1..n /\ j \in 1..n
        BY <1>4, <2>4, <3>2, <4>1 DEF PlansFixed
      <4>2. CASE i = n + 1 /\ j \in 1..n
        BY <2>4, <2>6, <2>7, <3>2, <4>2
      <4>3. CASE i \in 1..n /\ j = n + 1
        BY <2>4, <2>6, <2>7, <3>2, <4>3
      <4>. QED
        BY <2>5, <4>1, <4>2, <4>3
    <3>3. ASSUME NEW m \in DOMAIN exec
          PROVE  /\ exec[m].plan.id <= Len(Seed.plans) + started'
                 /\ \A i \in DOMAIN db'.plans : db'.plans[i].id = exec[m].plan.id => db'.plans[i] = exec[m].plan
                 /\ \A l \in DOMAIN exec : exec[l].plan.id = exec[m].plan.id => exec[l].plan = exec[m].plan
      <4>1. exec[m].plan.id <= Len(Seed.plans) + started'
        BY <1>7, <2>6, <2>8
      <4>2. ASSUME NEW i \in DOMAIN db'.plans, db'.plans[i].id = exec[m].plan.id PROVE db'.plans[i] = exec[m].plan
        <5>1. i \in 1..n
          BY <2>4, <2>5, <2>6, <2>8, <4>2
        <5>. QED
          BY <1>4, <2>4, <4>2, <5>1 DEF PlansFixed
      <4>. QED
        BY <1>4, <4>1, <4>2 DEF PlansFixed
    <3>. QED
      BY <1>1, <3>1, <3>2, <3>3 DEF PlansFixed, ValidatePlan
  <2>10. (Foreign(db.plans) = Foreign(Seed.plans))'
    <3>1. PICK old, new : old = db.plans /\ new = db'.plans
      OBVIOUS
    <3>2. {new[i] : i \in DOMAIN new} = {old[i] : i \in DOMAIN old} \cup {plan}
      BY <2>4, <2>5, <3>1
    <3>3. Foreign(new) = Foreign(old)
      BY <1>7, <3>2, ForeignPlans
    <3>4. Foreign(old) = Foreign(Seed.plans)
      BY <3>1 DEF MigrationInvariant
    <3>. QED
      BY <3>1, <3>3, <3>4 DEF Foreign, Rows, Where
  <2>. QED
    BY <1>1, <1>3, <2>2, <2>4, <2>9, <2>10, KeptExecutions
<1>. QED
  BY <1>8, <1>9

\* A tenant deletes its own plans only, and no id comes back.
LEMMA DeletePlanStep ==
    ASSUME MigrationInvariant, NEW r \in Requests, NEW p \in People, DeletePlanRequest(r, p)
    PROVE  MigrationInvariant'
<1>1. /\ UNCHANGED <<config, data, exec>> /\ exec' = exec
      /\ \E id \in Known : db' = DeletePlan(db, p.tenant, id).db
  BY DEF DeletePlanRequest, data, Finish, Then
<1>2. started \in Nat /\ started' \in Nat /\ started' \in 0..MaxRequests /\ started' >= started /\ started' = started + 1
  <2>1. started \in Nat /\ started' = started + 1 /\ started' \in 1..MaxRequests
    BY RequestCounts DEF DeletePlanRequest
  <2>. QED
    BY <2>1
<1>3. db = [plans |-> db.plans, runs |-> db.runs] /\ db.plans \in Seq(PlanRows) /\ PlansFixed
  BY DEF MigrationInvariant, MigrationTypes
<1>4. PICK id : db' = DeletePlan(db, p.tenant, id).db
  BY <1>1
<1>5. CASE GetPlan(db, p.tenant, id) = {}
  <2>1. db' = db
    BY <1>4, <1>5 DEF DeletePlan, Ok
  <2>. QED
    BY <1>1, <1>2, <1>3, <2>1, NothingMoves
<1>6. CASE GetPlan(db, p.tenant, id) # {}
  <2>1. PICK plans \in Seq(PlanRows) : plans = db.plans
    BY <1>3
  <2>2. PICK d \in DOMAIN plans : plans[d].tenant = p.tenant /\ plans[d].id = id
    BY <1>6, <2>1 DEF GetPlan, Rows, Where
  <2> DEFINE kept == {i \in DOMAIN plans : ~(plans[i].id = id)}
             rest == [n \in 1..Cardinality(kept) |-> plans[CHOOSE i \in kept : Cardinality({j \in kept : j <= i}) = n]]
  <2>3. Without(plans, LAMBDA x : x.id = id) = rest
    BY Zenon DEF Without, Where
  <2>4. kept \in SUBSET (DOMAIN plans) /\ \A i \in DOMAIN plans : i \in kept \/ plans[i].id = id
    OBVIOUS
  <2> HIDE DEF kept
  <2>5. ASSUME NEW n \in DOMAIN rest PROVE \E i \in kept : RankAmong(kept, i) = n /\ rest[n] = plans[i]
    <3>1. Len(plans) \in Nat /\ DOMAIN plans = 1..Len(plans)
      OBVIOUS
    <3>2. \E i \in kept : RankAmong(kept, i) = n
      <4>1. n \in 1..Cardinality(kept)
        OBVIOUS
      <4>. QED
        BY <2>4, <3>1, <4>1, RanksCount
    <3> DEFINE at == CHOOSE i \in kept : Cardinality({j \in kept : j <= i}) = n
    <3>3. at \in kept /\ Cardinality({j \in kept : j <= at}) = n
      BY <3>2, Zenon DEF RankAmong
    <3>4. rest[n] = plans[at]
      OBVIOUS
    <3>. QED
      BY <3>3, <3>4, Zenon DEF RankAmong
  <2>6. db'.plans = rest /\ db' = [plans |-> db'.plans, runs |-> db'.runs]
    <3>1. PICK runs : db' = [db EXCEPT !.plans = rest, !.runs = runs]
      BY <1>4, <1>6, <2>1, <2>3, Zenon DEF DeletePlan, Ok
    <3> HIDE DEF rest
    <3>. QED
      BY <1>3, <3>1
  <2>7. DOMAIN rest = 1..Cardinality(kept) /\ rest \in [1..Cardinality(kept) -> PlanRows]
    <3>1. \A i \in DOMAIN plans : plans[i] \in PlanRows
      BY <2>1
    <3>2. ASSUME NEW n \in DOMAIN rest PROVE rest[n] \in PlanRows
      <4>1. PICK i \in kept : rest[n] = plans[i]
        BY <2>5
      <4>. QED
        BY <2>4, <3>1, <4>1
    <3>. QED
      BY <3>2
  <2> HIDE DEF rest
  <2>8. /\ rest \in Seq(PlanRows)
        /\ \A i \in kept : \E n \in DOMAIN rest : rest[n] = plans[i]
        /\ \A n \in DOMAIN rest : \E i \in kept : rest[n] = plans[i]
        /\ \A n, m \in DOMAIN rest : n # m => \E i, j \in kept : i # j /\ rest[n] = plans[i] /\ rest[m] = plans[j]
    <3>1. PICK rows \in [1..Cardinality(kept) -> PlanRows] : rows = rest
      BY <2>7
    <3>2. Drawn(plans, kept, rows) /\ kept \in SUBSET (DOMAIN plans)
      BY <2>4, <2>5, <3>1 DEF Drawn
    <3>3. rows \in Seq(PlanRows) /\ HasOnce(plans, kept, rows)
      BY <3>2, RestOf
    <3>. QED
      BY <3>1, <3>3 DEF HasOnce
  <2>9. /\ \A i \in DOMAIN plans : plans[i].id \in Nat /\ plans[i].id <= Len(Seed.plans) + started /\ ValidatePlan(plans[i])
        /\ \A i, j \in DOMAIN plans : plans[i].id = plans[j].id => i = j
        /\ \A m \in DOMAIN exec :
              /\ exec[m].plan.id \in Nat /\ exec[m].plan.id <= Len(Seed.plans) + started
              /\ \A i \in DOMAIN plans : plans[i].id = exec[m].plan.id => plans[i] = exec[m].plan
              /\ \A l \in DOMAIN exec : exec[l].plan.id = exec[m].plan.id => exec[l].plan = exec[m].plan
    <3>1. \A q \in PlanRows : q.id \in Nat
      BY PlanIds, ConstantFacts DEF Plans
    <3>2. \A i \in DOMAIN plans : plans[i] \in PlanRows
      BY <2>1
    <3>3. \A m \in DOMAIN exec : exec[m].plan.id \in Nat
      BY MigrationParts, ConstantFacts DEF Plans
    <3>. QED
      BY <1>3, <2>1, <3>1, <3>2, <3>3 DEF PlansFixed
  <2>10. PlansFixed'
    <3>1. ASSUME NEW x \in Nat, x <= Len(Seed.plans) + started PROVE x <= Len(Seed.plans) + started'
      <4>1. PICK l \in Nat : l = Len(Seed.plans)
        BY ConstantFacts
      <4>2. started \in Nat /\ started' = started + 1
        BY <1>2
      <4>3. x <= l + started
        BY <3>1, <4>1
      <4>4. x <= l + started'
        BY <4>2, <4>3
      <4>. QED
        BY <4>1, <4>4
    <3>2. ASSUME NEW n \in DOMAIN rest
          PROVE  rest[n].id <= Len(Seed.plans) + started' /\ ValidatePlan(rest[n])
      BY <2>4, <2>8, <2>9, <3>1
    <3>3. ASSUME NEW n \in DOMAIN rest, NEW m \in DOMAIN rest, rest[n].id = rest[m].id, n # m PROVE FALSE
      <4>1. PICK i \in kept, j \in kept : i # j /\ rest[n] = plans[i] /\ rest[m] = plans[j]
        BY <2>8, <3>3
      <4>. QED
        BY <2>4, <2>9, <3>3, <4>1
    <3>4. ASSUME NEW m \in DOMAIN exec
          PROVE  /\ exec[m].plan.id <= Len(Seed.plans) + started'
                 /\ \A n \in DOMAIN rest : rest[n].id = exec[m].plan.id => rest[n] = exec[m].plan
                 /\ \A l \in DOMAIN exec : exec[l].plan.id = exec[m].plan.id => exec[l].plan = exec[m].plan
      BY <2>4, <2>8, <2>9, <3>1
    <3>. QED
      BY <1>1, <2>6, <3>2, <3>3, <3>4 DEF PlansFixed, ValidatePlan
  <2>11. (Foreign(db.plans) = Foreign(Seed.plans))'
    <3>1. \A i \in DOMAIN plans : i \in kept \/ plans[i].tenant = p.tenant
      BY <2>2, <2>4, <2>9
    <3>2. ASSUME NEW x, \A q \in People : q.tenant # x.tenant
          PROVE  x \in {plans[i] : i \in DOMAIN plans} <=> x \in {rest[n] : n \in DOMAIN rest}
      <4>1. ASSUME x \in {plans[i] : i \in DOMAIN plans} PROVE x \in {rest[n] : n \in DOMAIN rest}
        <5>1. PICK i \in DOMAIN plans : x = plans[i]
          BY <4>1
        <5>2. i \in kept
          BY <3>1, <3>2, <5>1
        <5>. QED
          BY <2>8, <5>1, <5>2
      <4>2. ASSUME x \in {rest[n] : n \in DOMAIN rest} PROVE x \in {plans[i] : i \in DOMAIN plans}
        BY <2>4, <2>8, <4>2
      <4>. QED
        BY <4>1, <4>2
    <3>3. Foreign(rest) = Foreign(plans)
      BY <3>2, ForeignPlans
    <3>4. Foreign(plans) = Foreign(Seed.plans)
      BY <2>1 DEF MigrationInvariant
    <3>. QED
      BY <2>6, <3>3, <3>4 DEF Foreign, Rows, Where
  <2>. QED
    BY <1>1, <1>2, <2>6, <2>8, <2>10, <2>11, KeptExecutions
<1>. QED
  BY <1>5, <1>6

\* A run that is started has a plan of its tenant, and knows nothing yet.
LEMMA RunPlanStep ==
    ASSUME MigrationInvariant, NEW r \in Requests, NEW p \in People, RunPlanRequest(r, p)
    PROVE  MigrationInvariant'
<1>1. config' = config /\ source' = source /\ dest' = dest /\ cp' = cp
  BY DEF RunPlanRequest, data
<1>2. started \in Nat /\ started' \in Nat /\ started' \in 0..MaxRequests /\ started' >= started /\ started' = started + 1
  <2>1. started \in Nat /\ started' = started + 1 /\ started' \in 1..MaxRequests
    BY RequestCounts DEF RunPlanRequest
  <2>. QED
    BY <2>1
<1>3. /\ db = [plans |-> db.plans, runs |-> db.runs] /\ db.plans \in Seq(PlanRows) /\ PlansFixed
      /\ exec \in Seq(Executions)
  BY DEF MigrationInvariant, MigrationTypes
<1>4. PICK id : EnqueueRun(r, p.tenant, id)
  BY DEF RunPlanRequest
<1>5. PICK plan : /\ plan \in PlanOf(p.tenant, id) /\ Preflight(plan)
                  /\ db' = StartRun(db, p.tenant, id, Len(exec) + 1).db
                  /\ exec' = Append(exec, [at |-> "new", tenant |-> p.tenant, plan |-> plan, todo |-> {}, last |-> 0,
                                           err |-> FALSE, alone |-> TRUE])
  BY <1>4 DEF EnqueueRun, Then
<1>6. PICK at \in DOMAIN db.plans : plan = db.plans[at] /\ plan.tenant = p.tenant
  BY <1>5 DEF PlanOf, GetPlan, Rows, Where
<1>7. plan \in PlanRows /\ ValidatePlan(plan) /\ plan.mode # "cdc"
  <2>1. plan.mode # "cdc"
    BY <1>5 DEF Preflight
  <2>. QED
    BY <1>3, <1>6, <2>1 DEF PlansFixed
<1>8. db'.plans = db.plans /\ db' = [plans |-> db'.plans, runs |-> db'.runs]
  <2>1. db' = db \/ \E runs : db' = [db EXCEPT !.runs = runs]
    BY <1>5 DEF StartRun, Ok, Fails
  <2>. QED
    BY <1>3, <2>1
<1>9. PICK e : e = [at |-> "new", tenant |-> p.tenant, plan |-> plan, todo |-> {}, last |-> 0, err |-> FALSE, alone |-> TRUE]
  OBVIOUS
<1>10. e \in Executions /\ e.at = "new" /\ e.tenant = p.tenant /\ e.plan = plan /\ e.last = 0
  <2>1. "new" \in ExecStages /\ 0 \in 0..source /\ {} \in SUBSET (1..source)
    BY MigrationParts DEF ExecStages
  <2>. QED
    BY <1>7, <1>9, <2>1 DEF Executions
<1>11. PICK n \in Nat : n = Len(exec)
  BY <1>3
<1>12. /\ exec' \in Seq(Executions) /\ DOMAIN exec = 1..n /\ DOMAIN exec' = 1..(n + 1)
       /\ exec'[n + 1] = e /\ \A m \in 1..n : exec'[m] = exec[m]
  BY <1>3, <1>5, <1>9, <1>10, <1>11
<1>13. \A m \in DOMAIN exec' : m \in 1..n \/ m = n + 1
  BY <1>12
<1>14. 1..n \subseteq 1..(n + 1)
  OBVIOUS
<1>15. MigrationTypes'
  <2>1. Executions' = Executions /\ AllRows' = AllRows
    BY <1>1 DEF Executions, AllRows
  <2>. QED
    BY <1>1, <1>2, <1>8, <1>12, <2>1 DEF MigrationInvariant, MigrationTypes
<1>16. PlansFixed'
  <2>1. ASSUME NEW x \in Nat, x <= Len(Seed.plans) + started PROVE x <= Len(Seed.plans) + started'
    <3>1. PICK l \in Nat : l = Len(Seed.plans)
      BY ConstantFacts
    <3>2. started \in Nat /\ started' = started + 1 /\ x <= l + started
      BY <1>2, <2>1, <3>1
    <3>3. x <= l + started'
      BY <3>2
    <3>. QED
      BY <3>1, <3>3
  <2>2. \A q \in PlanRows : q.id \in Nat
    BY PlanIds, ConstantFacts DEF Plans
  <2>3. \A i \in DOMAIN db.plans : db.plans[i] \in PlanRows
    BY <1>3
  <2>4. \A m \in DOMAIN exec : exec[m].plan.id \in Nat
    BY MigrationParts, ConstantFacts DEF Plans
  <2>5. \A i \in DOMAIN db.plans : db.plans[i].id <= Len(Seed.plans) + started' /\ ValidatePlan(db.plans[i])
    BY <1>3, <2>1, <2>2, <2>3 DEF PlansFixed
  <2>6. \A i, j \in DOMAIN db.plans : db.plans[i].id = db.plans[j].id => i = j
    BY <1>3 DEF PlansFixed
  <2>7. ASSUME NEW m \in DOMAIN exec'
        PROVE  /\ exec'[m].plan.id <= Len(Seed.plans) + started'
               /\ \A i \in DOMAIN db.plans : db.plans[i].id = exec'[m].plan.id => db.plans[i] = exec'[m].plan
               /\ exec'[m].plan.id = plan.id => exec'[m].plan = plan
    <3>1. CASE m \in 1..n
      <4>1. exec'[m] = exec[m] /\ m \in DOMAIN exec
        BY <1>12, <3>1
      <4>. QED
        BY <1>3, <1>6, <2>1, <2>4, <4>1 DEF PlansFixed
    <3>2. CASE m = n + 1
      <4>1. exec'[m].plan = db.plans[at]
        BY <1>6, <1>10, <1>12, <3>2
      <4>. QED
        BY <1>6, <2>5, <2>6, <4>1
    <3>. QED
      BY <1>13, <3>1, <3>2
  <2>8. ASSUME NEW m \in DOMAIN exec', NEW l \in DOMAIN exec', exec'[l].plan.id = exec'[m].plan.id
        PROVE  exec'[l].plan = exec'[m].plan
    <3>1. CASE m \in 1..n /\ l \in 1..n
      BY <1>3, <1>12, <2>8, <3>1 DEF PlansFixed
    <3>2. CASE m = n + 1
      BY <1>10, <1>12, <2>7, <2>8, <3>2
    <3>3. CASE l = n + 1
      BY <1>10, <1>12, <2>7, <2>8, <3>3
    <3>. QED
      BY <1>13, <3>1, <3>2, <3>3
  <2>. QED
    BY <1>8, <2>5, <2>6, <2>7, <2>8 DEF PlansFixed, ValidatePlan
<1>17. ASSUME NEW m \in DOMAIN exec' PROVE ExecutionSound(exec[m])'
  <2>1. CASE m \in 1..n
    <3>1. PICK f \in Executions : f = exec[m] /\ ExecutionSound(f)
      BY <1>12, <2>1, MigrationParts
    <3>2. ExecutionSound(f)'
      BY <1>1, <3>1, MigrationParts, SoundThroughCopies
    <3>. QED
      BY <1>12, <2>1, <3>1, <3>2
  <2>2. CASE m = n + 1
    <3>1. PlanSound(e)
      BY <1>6, <1>7, <1>10 DEF PlanSound, Moving
    <3>2. CursorSound(e)
      BY <1>10 DEF CursorSound, Covered
    <3>3. SnapshotSound(e)
      BY <1>10 DEF SnapshotSound
    <3>4. ExecutionSound(e)
      BY <3>1, <3>2, <3>3 DEF ExecutionSound
    <3>5. ExecutionSound(e)'
      BY <1>1, <1>10, <3>4, MigrationParts, SoundThroughCopies
    <3>. QED
      BY <1>12, <2>2, <3>5
  <2>. QED
    BY <1>13, <2>1, <2>2
<1>18. CheckpointsSound'
  <2>1. ASSUME NEW q \in Plans, cp[q] # 0
        PROVE  Covered(q, cp[q])' /\ \E m \in DOMAIN exec' : exec'[m].plan.id = q /\ exec'[m].plan.mode = "incremental"
    <3>1. PICK last : last = cp[q]
      OBVIOUS
    <3>2. Covered(q, last) /\ \E m \in DOMAIN exec : exec[m].plan.id = q /\ exec[m].plan.mode = "incremental"
      BY <2>1, <3>1 DEF MigrationInvariant, CheckpointsSound
    <3>3. Covered(q, last)'
      BY <1>1, <3>2, MigrationParts, CoveredThroughCopies
    <3>. QED
      BY <1>1, <1>12, <1>14, <3>1, <3>2, <3>3
  <2>. QED
    BY <1>1, <2>1 DEF CheckpointsSound
<1>19. AloneMoves'
  <2>1. "new" \notin Moving
    BY DEF Moving
  <2>2. ASSUME NEW m \in DOMAIN exec', exec'[m].at \in Moving PROVE m \in DOMAIN exec /\ exec'[m] = exec[m]
    BY <1>10, <1>12, <1>13, <2>1, <2>2
  <2>3. ASSUME NEW m \in DOMAIN exec', NEW l \in DOMAIN exec', m # l, exec'[m].plan.id = exec'[l].plan.id,
               exec'[m].at \in Moving, exec'[l].at \in Moving
        PROVE  ~exec'[m].alone
    BY <2>2, <2>3 DEF MigrationInvariant, AloneMoves, Same
  <2>. QED
    BY <2>3 DEF AloneMoves, Same, Moving
<1>20. (Foreign(db.plans) = Foreign(Seed.plans))'
  BY <1>8 DEF MigrationInvariant, Foreign, Rows, Where
<1>. QED
  BY <1>15, <1>16, <1>17, <1>18, <1>19, <1>20 DEF MigrationInvariant

\* Nothing is copied at first.
LEMMA MigrationInit == ASSUME Init PROVE MigrationInvariant
<1>1. /\ db = Seed /\ started = 0 /\ config \in Configs /\ source = Rows0 /\ exec = <<>>
      /\ dest = [plan \in Plans |-> [k \in AllRows |-> 0]] /\ cp = [plan \in Plans |-> 0]
  BY DEF Init, InitRequests
<1>2. source \in 0..Len(config.column) /\ source \in Nat /\ Len(config.column) \in Nat
  BY <1>1, ColumnFacts
<1>3. 0 \in 0..source /\ 0 \in 0..2 /\ 0 \in 0..MaxRequests
  BY <1>2, ConstantFacts
<1>4. exec \in Seq(Executions) /\ DOMAIN exec = {}
  BY <1>1
<1>5. MigrationTypes
  <2>1. db = [plans |-> db.plans, runs |-> db.runs]
    BY <1>1, SeedAssumption
  <2>2. [k \in AllRows |-> 0] \in [AllRows -> 0..2]
    BY <1>3
  <2>. QED
    BY <1>1, <1>2, <1>3, <1>4, <2>1, <2>2, ConstantFacts DEF MigrationTypes
<1>6. PlansFixed
  <2>1. \A i \in DOMAIN Seed.plans : Seed.plans[i].id = i /\ ValidatePlan(Seed.plans[i]) /\ i <= Len(Seed.plans) + 0
    BY ConstantFacts
  <2>. QED
    BY <1>1, <1>4, <2>1 DEF PlansFixed
<1>7. CheckpointsSound
  BY <1>1 DEF CheckpointsSound
<1>. QED
  BY <1>1, <1>4, <1>5, <1>6, <1>7 DEF MigrationInvariant, AloneMoves

\* Every step keeps what is known.
LEMMA MigrationNext == ASSUME MigrationInvariant, [Next]_vars PROVE MigrationInvariant'
<1>1. ASSUME NEW r \in Requests, EnqueueFails(r) PROVE MigrationInvariant'
  <2>1. UNCHANGED <<config, data, exec, started, db>>
    BY <1>1 DEF EnqueueFails, CallFails
  <2>2. db = [plans |-> db.plans, runs |-> db.runs] /\ started' \in 0..MaxRequests /\ started' >= started
    <3>1. started \in 0..MaxRequests
      BY DEF MigrationInvariant, MigrationTypes
    <3>. QED
      BY <2>1, <3>1, MigrationParts, ConstantFacts
  <2>. QED
    BY <2>1, <2>2, NothingMoves
<1>2. ASSUME NEW n \in DOMAIN exec,
             Step(n) \/ TimesOut(n) \/ LoadFails(n) \/ WarehouseFails(n) \/ SaveFails(n) \/ EndFails(n)
      PROVE  MigrationInvariant'
  <2>1. CASE NoExecutor(n) \/ LoadFails(n) \/ EndRun(n) \/ EndFails(n) \/ TimesOut(n) \/ WarehouseFails(n)
    BY <2>1, RestingSteps
  <2>2. CASE LoadRun(n)
    BY <2>2, LoadRunStep
  <2>3. CASE RunSnapshot(n) \/ RunIncremental(n)
    BY <2>3, ConnectStep
  <2>4. CASE Truncate(n) \/ SelectAll(n) \/ Flush(n)
    BY <2>4, TruncateStep, SelectAllStep, FlushStep
  <2>5. CASE LoadCheckpoint(n) \/ SelectBatch(n) \/ InsertBatch(n)
    BY <2>5, LoadCheckpointStep, SelectBatchStep, InsertBatchStep
  <2>6. CASE SaveCheckpoint(n) \/ SaveFails(n)
    BY <2>6, SaveSteps
  <2>. QED
    BY <1>2, <2>1, <2>2, <2>3, <2>4, <2>5, <2>6 DEF Step
<1>3. CASE UNCHANGED vars
  <2>1. UNCHANGED <<config, data, exec, started, db>>
    BY <1>3 DEF vars
  <2>2. db = [plans |-> db.plans, runs |-> db.runs] /\ started' \in 0..MaxRequests /\ started' >= started
    <3>1. started \in 0..MaxRequests
      BY DEF MigrationInvariant, MigrationTypes
    <3>. QED
      BY <2>1, <3>1, MigrationParts, ConstantFacts
  <2>. QED
    BY <2>1, <2>2, NothingMoves
<1>4. CASE Next
  BY <1>1, <1>2, <1>4, CreatePlanStep, DeletePlanStep, RunPlanStep, EnqueueStep, SourceGrowsStep, CrashStep DEF Next
<1>. QED
  BY <1>3, <1>4

\* What is known says that what is copied is what should be.
LEMMA MigrationFaithful == ASSUME MigrationInvariant PROVE TargetFaithful
<1>1. CheckpointCovers
  BY DEF MigrationInvariant, CheckpointsSound, Covered, Tie, CheckpointCovers
<1>2. SnapshotExact
  <2>1. ASSUME NEW n \in DOMAIN exec, exec[n].at = "finish", ~exec[n].err, exec[n].alone,
               exec[n].plan.write = "truncate_and_replace"
        PROVE  \E count \in 0..source : \A k \in AllRows : dest[exec[n].plan.id][k] = IF k <= count THEN 1 ELSE 0
    BY <2>1 DEF MigrationInvariant, ExecutionSound, SnapshotSound, FirstRows
  <2>. QED
    BY <2>1 DEF SnapshotExact
<1>3. MigrationsApart
  <2>1. ASSUME NEW n \in DOMAIN exec
        PROVE  /\ exec[n].plan.tenant = exec[n].tenant
               /\ exec[n].at \in Moving \ {"connect", "finish"} =>
                      \A c \in Conns : c.id \in {exec[n].plan.src, exec[n].plan.dst} => c.tenant = exec[n].tenant
    <3>1. PlanSound(exec[n])
      BY DEF MigrationInvariant, ExecutionSound
    <3>2. \A c, d \in Conns : c.id = d.id => c = d
      BY MigrationAssumption
    <3>. QED
      BY <3>1, <3>2 DEF PlanSound, Opens
  <2>2. ASSUME NEW p \in People,
               NEW row \in ListPlansRequest(p) \cup UNION {GetPlanRequest(p, id) \cup ListRunsRequest(p, id) : id \in Plans}
        PROVE  row.tenant = p.tenant
    BY <2>2 DEF ListPlansRequest, GetPlanRequest, ListRunsRequest, ListPlans, GetPlan, ListRunsOf, Rows, Where
  <2>3. Foreign(db.plans) = Foreign(Seed.plans)
    BY DEF MigrationInvariant
  <2>. QED
    BY <2>1, <2>2, <2>3 DEF MigrationsApart
<1>. QED
  BY <1>1, <1>2, <1>3 DEF TargetFaithful

\* The invariant, for any tables, columns, plans and runs, and any number of
\* faults and crashes.
THEOREM MigrationSound == Spec => []MigrationInvariant
<1>1. Init => MigrationInvariant
  BY MigrationInit
<1>2. MigrationInvariant /\ [Next]_vars => MigrationInvariant'
  BY MigrationNext
<1>. QED
  BY <1>1, <1>2, PTL DEF Spec

\* No checkpoint runs ahead of the rows that were copied, a snapshot that was
\* alone is exact, and tenants are apart.
THEOREM MigrationsFaithful == Spec => []TargetFaithful
<1>1. MigrationInvariant => TargetFaithful
  BY MigrationFaithful
<1>. QED
  BY <1>1, MigrationSound, PTL
=============================================================================
