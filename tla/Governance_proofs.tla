------------------------- MODULE Governance_proofs --------------------------
(***************************************************************************)
(* Proofs about the audit log and about the recycle bin, the holds and the *)
(* certifications.                                                         *)
(***************************************************************************)
EXTENDS Governance, AuditLog, FiniteSetTheorems, FunctionTheorems, SequenceTheorems, WellFoundedInduction, TLAPS

(***************************************************************************)
(* Rows are picked by a largest number; there is one.                      *)
(***************************************************************************)
\* A set of natural numbers that is not empty has a least one.
LEMMA LeastNatural ==
    ASSUME NEW T, T \subseteq Nat, T # {}
    PROVE  \E m \in T : \A n \in T : m <= n
<1> DEFINE Less == {pair \in Nat \X Nat : pair[1] < pair[2]}
<1>1. IsWellFoundedOn(Less, Nat)
  BY NatLessThanWellFounded, Zenon DEF OpToRel
<1>2. PICK m \in T : \A n \in T : ~(<<n, m>> \in Less)
  BY <1>1, WFMin
<1>3. ASSUME NEW n \in T PROVE m <= n
  <2>1. ~(<<n, m>> \in Less)
    BY <1>2
  <2>2. n \in Nat /\ m \in Nat
    OBVIOUS
  <2> QED BY <2>1, <2>2
<1> QED BY <1>3

(***************************************************************************)
(* The audit log                                                           *)
(***************************************************************************)
Outcomes == {"denied", "failure", "success"}
AuditRows == [prev : Nat, start : Nat, outcome : Outcomes, life : Procs \X Nat, settled : SUBSET Nat]

HandlerStates ==
    {Waiting} \cup [at : {"handler"}, proc : Procs, start : Nat]
              \cup [at : {"emit"}, proc : Procs, start : Nat, outcome : Outcomes]
              \cup [at : {"insert"}, proc : Procs, start : Nat, outcome : Outcomes, prev : Nat, settled : SUBSET Nat]
              \cup [at : {"update"}, proc : Procs, row : Nat]

AuditTypeOK ==
    /\ log \in Seq(AuditRows)
    /\ tails \in [Procs -> Nat \cup {Unseeded}]
    /\ life \in [Procs -> Nat]
    /\ handling \in [Handlers -> HandlerStates]
    /\ clock \in Nat
    /\ settled \subseteq DOMAIN log

Inserting(h) == handling[h].at = "insert"
Updating(h) == handling[h].at = "update"

\* The life a process is in, and the rows it has emitted in it.
LifeOf(p) == <<p, life[p]>>
Emitted(p) == {i \in DOMAIN log : log[i].life = LifeOf(p)}

\* Rows link back, to rows of lives that were or are.
Linked ==
    \A i \in DOMAIN log :
        /\ log[i].prev < i
        /\ log[i].settled \subseteq DOMAIN log
        /\ log[i].life[2] <= life[log[i].life[1]]

\* A tail that is not set was never read, and one that is set is no longer the
\* predecessor of a row that settled.
Advanced ==
    \A p \in Procs :
        /\ tails[p] <= Len(log)
        /\ tails[p] = Unseeded => Emitted(p) = {}
        /\ \A i \in Emitted(p) \cap settled : tails[p] # log[i].prev

\* A tail that was read is that of this life, and not that of a row which had
\* settled.
Reads(h) ==
    Inserting(h) =>
        /\ handling[h].prev <= Len(log)
        /\ handling[h].settled \subseteq settled
        /\ tails[handling[h].proc] # Unseeded
        /\ \A i \in Emitted(handling[h].proc) \cap handling[h].settled : log[i].prev # handling[h].prev

Reading == \A h \in Handlers : Reads(h)

\* Nothing links yet to a row that has not settled, within its life.
Settles(h) ==
    Updating(h) =>
        /\ handling[h].row \in Emitted(handling[h].proc) \ settled
        /\ tails[handling[h].proc] \notin {Unseeded, handling[h].row}
        /\ \A i \in Emitted(handling[h].proc) : log[i].prev # handling[h].row
        /\ \A g \in Handlers :
              /\ Inserting(g) /\ handling[g].proc = handling[h].proc => handling[g].prev # handling[h].row
              /\ Updating(g) /\ g # h => handling[g].row # handling[h].row

Unsettled == \A h \in Handlers : Settles(h)

AuditInv == AuditTypeOK /\ Linked /\ Advanced /\ Reading /\ Unsettled /\ ForksExplained

\* What is kept about a request, by where it stands.
LEMMA HandlerFields ==
    ASSUME AuditTypeOK, NEW h \in Handlers
    PROVE  /\ handling[h].at = "handler" => handling[h].proc \in Procs /\ handling[h].start \in Nat
           /\ handling[h].at = "emit" =>
                  handling[h].proc \in Procs /\ handling[h].start \in Nat /\ handling[h].outcome \in Outcomes
           /\ Inserting(h) =>
                  /\ handling[h].proc \in Procs /\ handling[h].start \in Nat /\ handling[h].outcome \in Outcomes
                  /\ handling[h].prev \in Nat /\ handling[h].settled \in SUBSET Nat
           /\ Updating(h) => handling[h].proc \in Procs /\ handling[h].row \in Nat
<1>1. handling[h] \in HandlerStates
  BY DEF AuditTypeOK
<1> QED BY <1>1 DEF HandlerStates, Waiting, Inserting, Updating

\* A request that stands elsewhere neither inserts nor updates.
LEMMA Elsewhere ==
    ASSUME NEW h \in Handlers, NEW state, state.at \notin {"insert", "update"},
           DOMAIN handling = Handlers, Becomes(h, state)
    PROVE  \A g \in Handlers : /\ Inserting(g)' => Inserting(g) /\ g # h /\ handling'[g] = handling[g]
                               /\ Updating(g)' => Updating(g) /\ g # h /\ handling'[g] = handling[g]
BY DEF Becomes, Inserting, Updating

\* Requests that leave the log and the tails alone keep the invariant.
LEMMA AuditQuietStep ==
    ASSUME AuditInv, AuditTypeOK', UNCHANGED <<log, tails, life, settled>>,
           \A g \in Handlers : /\ Inserting(g)' => Inserting(g) /\ handling'[g] = handling[g]
                               /\ Updating(g)' => Updating(g) /\ handling'[g] = handling[g]
    PROVE  AuditInv'
<1> USE DEF AuditInv
<1>0. \A p : LifeOf(p)' = LifeOf(p) /\ Emitted(p)' = Emitted(p)
  BY DEF LifeOf, Emitted
<1>1. Linked' /\ ForksExplained'
  BY DEF Linked, ForksExplained
<1>2. Advanced'
  BY <1>0 DEF Advanced
<1>3. ASSUME NEW h \in Handlers PROVE Reads(h)'
  <2>1. Reads(h)
    BY DEF Reading
  <2>2. CASE ~Inserting(h)'
    BY <2>2 DEF Reads
  <2>3. CASE Inserting(h)'
    BY <1>0, <2>1, <2>3 DEF Reads
  <2> QED BY <2>2, <2>3
<1>4. ASSUME NEW h \in Handlers PROVE Settles(h)'
  <2>1. Settles(h)
    BY DEF Unsettled
  <2>2. CASE ~Updating(h)'
    BY <2>2 DEF Settles
  <2>3. CASE Updating(h)'
    BY <1>0, <2>1, <2>3 DEF Settles
  <2> QED BY <2>2, <2>3
<1> QED BY <1>1, <1>2, <1>3, <1>4 DEF Reading, Unsettled

\* A request arrives.
LEMMA ArriveStep ==
    ASSUME AuditInv, NEW h \in Handlers, NEW p \in Procs, Arrive(h, p)
    PROVE  AuditInv'
<1>1. AuditTypeOK'
  BY DEF AuditInv, AuditTypeOK, Arrive, Becomes, HandlerStates
<1>2. DOMAIN handling = Handlers
  BY DEF AuditInv, AuditTypeOK
<1> QED BY <1>1, <1>2, Elsewhere, AuditQuietStep DEF Arrive

\* A handler answers: what it answers is an outcome.
LEMMA AnsweredStep ==
    ASSUME AuditInv, NEW h \in Handlers, Answered(h)
    PROVE  AuditInv'
<1>1. DOMAIN handling = Handlers
  BY DEF AuditInv, AuditTypeOK
<1>2. handling[h].proc \in Procs /\ handling[h].start \in Nat
  BY HandlerFields DEF AuditInv, Answered
<1>3. CASE Becomes(h, Waiting)
  <2>1. AuditTypeOK'
    BY <1>3 DEF AuditInv, AuditTypeOK, Answered, Becomes, HandlerStates
  <2> QED BY <1>1, <1>3, <2>1, Elsewhere, AuditQuietStep DEF Answered, Waiting
<1>4. ASSUME NEW status \in Statuses,
             Becomes(h, [at |-> "emit", proc |-> handling[h].proc, start |-> handling[h].start, outcome |-> Outcome(status)])
      PROVE  AuditInv'
  <2>1. Outcome(status) \in Outcomes
    BY DEF Outcome, Outcomes
  <2>2. AuditTypeOK'
    BY <1>2, <1>4, <2>1 DEF AuditInv, AuditTypeOK, Answered, Becomes, HandlerStates
  <2> QED BY <1>1, <1>4, <2>2, Elsewhere, AuditQuietStep DEF Answered
<1> QED BY <1>3, <1>4 DEF Answered

\* The INSERT fails: the row is not there, and the tail not moved.
LEMMA InsertFailsStep ==
    ASSUME AuditInv, NEW h \in Handlers, InsertFails(h)
    PROVE  AuditInv'
<1>1. AuditTypeOK'
  BY DEF AuditInv, AuditTypeOK, InsertFails, Becomes, HandlerStates
<1>2. DOMAIN handling = Handlers
  BY DEF AuditInv, AuditTypeOK
<1> QED BY <1>1, <1>2, Elsewhere, AuditQuietStep DEF InsertFails, Waiting

\* A row is added to the log.
LEMMA LogGrows ==
    ASSUME AuditTypeOK, NEW e \in AuditRows, log' = Append(log, e), UNCHANGED life
    PROVE  /\ log' \in Seq(AuditRows)
           /\ Len(log) \in Nat /\ Len(log') = Len(log) + 1
           /\ DOMAIN log = 1..Len(log) /\ DOMAIN log' = 1..(Len(log) + 1)
           /\ \A i \in DOMAIN log : log'[i] = log[i]
           /\ log'[Len(log) + 1] = e
           /\ \A p : LifeOf(p)' = LifeOf(p)
           /\ \A p : e.life = LifeOf(p) => Emitted(p)' = Emitted(p) \cup {Len(log) + 1}
           /\ \A p : e.life # LifeOf(p) => Emitted(p)' = Emitted(p)
<1>1. /\ log' \in Seq(AuditRows)
      /\ Len(log) \in Nat /\ Len(log') = Len(log) + 1
      /\ DOMAIN log = 1..Len(log) /\ DOMAIN log' = 1..(Len(log) + 1)
      /\ \A i \in DOMAIN log : log'[i] = log[i]
      /\ log'[Len(log) + 1] = e
  BY DEF AuditTypeOK
<1>2. \A p : LifeOf(p)' = LifeOf(p)
  BY DEF LifeOf
<1> HIDE DEF LifeOf
<1>3. ASSUME NEW p, e.life = LifeOf(p) PROVE Emitted(p)' = Emitted(p) \cup {Len(log) + 1}
  BY <1>1, <1>2, <1>3 DEF Emitted
<1>4. ASSUME NEW p, e.life # LifeOf(p) PROVE Emitted(p)' = Emitted(p)
  BY <1>1, <1>2, <1>4 DEF Emitted
<1> QED BY <1>1, <1>2, <1>3, <1>4

\* The row that is added links to what its emitter read, which no row that had
\* settled by then links to.
LEMMA RowAdded ==
    ASSUME AuditInv, NEW p \in Procs, NEW e \in AuditRows, log' = Append(log, e), UNCHANGED life,
           e.life = LifeOf(p), e.prev <= Len(log), e.settled \subseteq settled,
           \A i \in Emitted(p) \cap e.settled : log[i].prev # e.prev
    PROVE  Linked' /\ ForksExplained'
<1> DEFINE new == Len(log) + 1
<1>0. AuditTypeOK
  BY DEF AuditInv
<1>1. /\ Len(log) \in Nat
      /\ DOMAIN log = 1..Len(log) /\ DOMAIN log' = 1..new
      /\ \A i \in DOMAIN log : log'[i] = log[i]
      /\ log'[new] = e
  BY <1>0, LogGrows
<1>2. settled \subseteq DOMAIN log
  BY <1>0 DEF AuditTypeOK
<1>3. life \in [Procs -> Nat] /\ e.life = <<p, life[p]>> /\ e.prev \in Nat
  BY <1>0 DEF AuditTypeOK, LifeOf, AuditRows
<1>4. Linked'
  <2> SUFFICES ASSUME NEW i \in DOMAIN log'
               PROVE  /\ log'[i].prev < i
                      /\ log'[i].settled \subseteq DOMAIN log'
                      /\ log'[i].life[2] <= life'[log'[i].life[1]]
    BY DEF Linked
  <2>1. CASE i = new
    BY <1>1, <1>2, <1>3, <2>1
  <2>2. CASE i # new
    BY <1>1, <2>2 DEF AuditInv, Linked
  <2> QED BY <2>1, <2>2
<1>5. ForksExplained'
  <2> SUFFICES ASSUME NEW i \in DOMAIN log', NEW j \in DOMAIN log', i # j,
                      log'[i].prev = log'[j].prev, log'[i].life = log'[j].life
               PROVE  i \notin log'[j].settled
    BY DEF ForksExplained
  <2>1. CASE i = new
    <3>1. j \in DOMAIN log /\ log'[j] = log[j]
      BY <1>1, <2>1
    <3>2. log[j].settled \subseteq DOMAIN log
      BY <3>1 DEF AuditInv, Linked
    <3> QED BY <1>1, <2>1, <3>1, <3>2
  <2>2. CASE j = new
    <3>1. i \in DOMAIN log /\ log'[i] = log[i]
      BY <1>1, <2>2
    <3>2. i \in Emitted(p)
      BY <1>1, <2>2, <3>1 DEF Emitted
    <3> QED BY <1>1, <2>2, <3>1, <3>2
  <2>3. CASE i # new /\ j # new
    BY <1>1, <2>3 DEF AuditInv, ForksExplained
  <2> QED BY <2>1, <2>2, <2>3
<1> QED BY <1>4, <1>5

\* In memory the row is added and the tail moved under one lock.
LEMMA MemoryEmitStep ==
    ASSUME AuditInv, NEW h \in Handlers, MemoryEmit(h)
    PROVE  AuditInv'
<1>0. AuditTypeOK /\ DOMAIN handling = Handlers
  BY DEF AuditInv, AuditTypeOK
<1>1. PICK p \in Procs : p = handling[h].proc /\ handling[h].start \in Nat /\ handling[h].outcome \in Outcomes
  BY <1>0, HandlerFields DEF MemoryEmit
<1> DEFINE prev == IF tails[p] = Unseeded THEN 0 ELSE tails[p]
           new == Len(log) + 1
<1>2. PICK e : e = Event(h, prev, settled)
  OBVIOUS
<1>3. /\ e \in AuditRows /\ e.life = LifeOf(p) /\ e.prev = prev /\ e.settled = settled
      /\ prev \in Nat /\ prev <= Len(log) /\ Len(log) \in Nat
  BY <1>0, <1>1, <1>2, SMTT(20) DEF AuditTypeOK, Event, AuditRows, LifeOf, AuditInv, Advanced
<1>4. /\ log' = Append(log, e) /\ UNCHANGED <<life, clock>>
      /\ tails' = [tails EXCEPT ![p] = Len(log')]
      /\ settled' = settled \cup {Len(log')}
      /\ Becomes(h, Waiting)
  BY <1>1, <1>2 DEF MemoryEmit
<1>5. /\ log' \in Seq(AuditRows)
      /\ Len(log') = new
      /\ DOMAIN log = 1..Len(log) /\ DOMAIN log' = 1..new
      /\ \A i \in DOMAIN log : log'[i] = log[i]
      /\ log'[new] = e
      /\ Emitted(p)' = Emitted(p) \cup {new}
      /\ \A q : e.life # LifeOf(q) => Emitted(q)' = Emitted(q)
  BY <1>0, <1>3, <1>4, LogGrows
<1>6. \A q \in Procs : q # p => Emitted(q)' = Emitted(q)
  BY <1>3, <1>5 DEF LifeOf
<1>7. \A g \in Handlers : /\ Inserting(g)' => Inserting(g) /\ g # h /\ handling'[g] = handling[g]
                          /\ Updating(g)' => Updating(g) /\ g # h /\ handling'[g] = handling[g]
  BY <1>0, <1>4, Elsewhere DEF Waiting
<1>8. \A i \in Emitted(p) \cap settled : log[i].prev # prev
  BY <1>1 DEF AuditInv, Advanced
<1>9. AuditTypeOK'
  BY <1>0, <1>3, <1>4, <1>5 DEF AuditTypeOK, Becomes, HandlerStates
<1>10. Linked' /\ ForksExplained'
  BY <1>1, <1>3, <1>4, <1>8, RowAdded
<1>11. \A i \in DOMAIN log : log[i].prev < i /\ log[i].prev \in Nat
  <2>1. \A i \in DOMAIN log : log[i] \in AuditRows
    BY <1>0 DEF AuditTypeOK
  <2> QED BY <2>1 DEF AuditInv, Linked, AuditRows
<1>12. \A q : Emitted(q) \subseteq DOMAIN log
  BY DEF Emitted
<1>13. tails \in [Procs -> Nat \cup {Unseeded}] /\ settled \subseteq DOMAIN log
  BY <1>0 DEF AuditTypeOK
<1> HIDE DEF prev, new
<1>14. Advanced'
  <2> SUFFICES ASSUME NEW q \in Procs
               PROVE  /\ tails'[q] <= Len(log')
                      /\ tails'[q] = Unseeded => Emitted(q)' = {}
                      /\ \A i \in Emitted(q)' \cap settled' : tails'[q] # log'[i].prev
    BY DEF Advanced
  <2>1. CASE q = p
    BY <1>1, <1>3, <1>4, <1>5, <1>11, <1>12, <1>13, <2>1 DEF new, Unseeded
  <2>2. CASE q # p
    <3>1. tails'[q] = tails[q] /\ Emitted(q)' = Emitted(q)
      BY <1>1, <1>4, <1>6, <1>13, <2>2
    <3> QED BY <1>3, <1>4, <1>5, <1>12, <1>13, <3>1 DEF AuditInv, Advanced, new, Unseeded
  <2> QED BY <2>1, <2>2
<1>15. ASSUME NEW g \in Handlers PROVE Reads(g)'
  <2>1. CASE ~Inserting(g)'
    BY <2>1 DEF Reads
  <2>2. CASE Inserting(g)'
    <3>1. Inserting(g) /\ handling'[g] = handling[g] /\ Reads(g)
      BY <1>7, <2>2 DEF AuditInv, Reading
    <3>2. handling[g].proc \in Procs /\ handling[g].prev \in Nat
      BY <1>0, <3>1, HandlerFields
    <3>3. PICK q \in Procs : q = handling[g].proc
      BY <3>2
    <3>4. tails'[q] # Unseeded
      BY <1>1, <1>3, <1>4, <1>5, <1>13, <3>1, <3>3 DEF Reads, new, Unseeded
    <3>5. Emitted(q)' \subseteq Emitted(q) \cup {new}
      BY <1>5, <1>6
    <3>6. \A i \in Emitted(q)' \cap handling[g].settled : i \in Emitted(q) /\ log'[i] = log[i]
      BY <1>3, <1>5, <1>12, <1>13, <3>1, <3>5 DEF Reads, new
    <3>7. handling[g].prev <= Len(log') /\ handling[g].settled \subseteq settled'
      BY <1>3, <1>4, <1>5, <3>1, <3>2 DEF Reads, new
    <3>8. \A i \in Emitted(q)' \cap handling[g].settled : log'[i].prev # handling[g].prev
      BY <3>1, <3>3, <3>6 DEF Reads
    <3> QED BY <3>1, <3>3, <3>4, <3>7, <3>8 DEF Reads
  <2> QED BY <2>1, <2>2
<1>16. ASSUME NEW g \in Handlers PROVE Settles(g)'
  <2>1. CASE ~Updating(g)'
    BY <2>1 DEF Settles
  <2>2. CASE Updating(g)'
    <3>1. Updating(g) /\ handling'[g] = handling[g] /\ Settles(g)
      BY <1>7, <2>2 DEF AuditInv, Unsettled
    <3>2. PICK q \in Procs : q = handling[g].proc
      BY <1>0, <3>1, HandlerFields
    <3>3. PICK row \in Emitted(q) : row = handling[g].row
      BY <3>1, <3>2 DEF Settles
    <3>4. row \in Emitted(q)' \ settled'
      BY <1>3, <1>4, <1>5, <1>6, <1>12, <3>1, <3>2, <3>3 DEF Settles, new
    <3>5. tails'[q] \notin {Unseeded, row}
      BY <1>1, <1>3, <1>4, <1>5, <1>12, <1>13, <3>1, <3>2, <3>3 DEF Settles, new, Unseeded
    <3>6. ASSUME NEW i \in Emitted(q)' PROVE log'[i].prev # row
      <4>1. CASE i \in Emitted(q)
        BY <1>5, <1>12, <3>1, <3>2, <3>3, <4>1 DEF Settles
      <4>2. CASE i \notin Emitted(q)
        <5>1. q = p /\ i = new
          BY <1>5, <1>6, <4>2
        <5> QED BY <1>3, <1>5, <1>12, <3>1, <3>2, <3>3, <5>1 DEF Settles, prev, Unseeded
      <4> QED BY <4>1, <4>2
    <3> QED BY <1>7, <3>1, <3>2, <3>3, <3>4, <3>5, <3>6 DEF Settles
  <2> QED BY <2>1, <2>2
<1> QED BY <1>9, <1>10, <1>14, <1>15, <1>16 DEF AuditInv, Reading, Unsettled

\* The row is inserted behind the tail that was read; the tail is still
\* that one, or it is a fork.
LEMMA InsertStep ==
    ASSUME AuditInv, NEW h \in Handlers, Insert(h)
    PROVE  AuditInv'
<1>0. AuditTypeOK /\ DOMAIN handling = Handlers
  BY DEF AuditInv, AuditTypeOK
<1>1. PICK p \in Procs : /\ p = handling[h].proc /\ handling[h].start \in Nat /\ handling[h].outcome \in Outcomes
                         /\ handling[h].prev \in Nat /\ handling[h].settled \in SUBSET Nat
  BY <1>0, HandlerFields DEF Insert, Inserting
<1> DEFINE new == Len(log) + 1
<1>2. PICK e : e = Event(h, handling[h].prev, handling[h].settled)
  OBVIOUS
<1>3. /\ e \in AuditRows /\ e.life = LifeOf(p) /\ e.prev = handling[h].prev /\ e.settled = handling[h].settled
      /\ Len(log) \in Nat
  BY <1>0, <1>1, <1>2 DEF AuditTypeOK, Event, AuditRows, LifeOf
<1>4. /\ log' = Append(log, e) /\ UNCHANGED <<tails, life, clock, settled>>
      /\ Becomes(h, [at |-> "update", proc |-> p, row |-> Len(log')])
  BY <1>1, <1>2 DEF Insert
<1>5. /\ log' \in Seq(AuditRows)
      /\ Len(log') = new
      /\ DOMAIN log = 1..Len(log) /\ DOMAIN log' = 1..new
      /\ \A i \in DOMAIN log : log'[i] = log[i]
      /\ log'[new] = e
      /\ Emitted(p)' = Emitted(p) \cup {new}
      /\ \A q : e.life # LifeOf(q) => Emitted(q)' = Emitted(q)
  BY <1>0, <1>3, <1>4, LogGrows
<1>6. \A q \in Procs : q # p => Emitted(q)' = Emitted(q)
  BY <1>3, <1>5 DEF LifeOf
<1>7. /\ handling'[h] = [at |-> "update", proc |-> p, row |-> new] /\ ~Inserting(h)'
      /\ \A g \in Handlers : g # h => /\ handling'[g] = handling[g]
                                      /\ Inserting(g)' = Inserting(g) /\ Updating(g)' = Updating(g)
  BY <1>0, <1>4, <1>5 DEF Becomes, Inserting, Updating
<1>8. /\ Reads(h)
      /\ Inserting(h)
  BY DEF AuditInv, Reading, Insert, Inserting
<1>9. AuditTypeOK'
  <2>1. handling' \in [Handlers -> HandlerStates]
    BY <1>0, <1>1, <1>3, <1>4, <1>5 DEF AuditTypeOK, Becomes, HandlerStates
  <2> QED BY <1>0, <1>3, <1>4, <1>5, <2>1 DEF AuditTypeOK
<1>10. Linked' /\ ForksExplained'
  BY <1>1, <1>3, <1>4, <1>8, RowAdded DEF Reads
<1>11. \A i \in DOMAIN log : log[i].prev < i /\ log[i].prev \in Nat
  <2>1. \A i \in DOMAIN log : log[i] \in AuditRows
    BY <1>0 DEF AuditTypeOK
  <2> QED BY <2>1 DEF AuditInv, Linked, AuditRows
<1>12. \A q : Emitted(q) \subseteq DOMAIN log
  BY DEF Emitted
<1>13. tails \in [Procs -> Nat \cup {Unseeded}] /\ settled \subseteq DOMAIN log
  BY <1>0 DEF AuditTypeOK
<1>14. tails[p] # Unseeded /\ \A q \in Procs : tails[q] <= Len(log)
  BY <1>1, <1>8 DEF Reads, AuditInv, Advanced
<1> HIDE DEF new
<1>15. Advanced'
  <2> SUFFICES ASSUME NEW q \in Procs
               PROVE  /\ tails[q] <= Len(log')
                      /\ tails[q] = Unseeded => Emitted(q)' = {}
                      /\ \A i \in Emitted(q)' \cap settled : tails[q] # log'[i].prev
    BY <1>4 DEF Advanced
  <2>1. \A i \in Emitted(q)' \cap settled : i \in Emitted(q) /\ log'[i] = log[i]
    BY <1>3, <1>5, <1>6, <1>12, <1>13 DEF new
  <2>2. tails[q] <= Len(log')
    BY <1>3, <1>5, <1>13, <1>14 DEF new, Unseeded
  <2>3. tails[q] = Unseeded => Emitted(q)' = {}
    BY <1>6, <1>14 DEF AuditInv, Advanced
  <2> QED BY <2>1, <2>2, <2>3 DEF AuditInv, Advanced
<1>16. ASSUME NEW g \in Handlers PROVE Reads(g)'
  <2>1. CASE ~Inserting(g)'
    BY <2>1 DEF Reads
  <2>2. CASE Inserting(g)'
    <3>1. g # h /\ Inserting(g) /\ handling'[g] = handling[g] /\ Reads(g)
      BY <1>7, <2>2 DEF AuditInv, Reading
    <3>2. PICK q \in Procs : q = handling[g].proc /\ handling[g].prev \in Nat
      BY <1>0, <3>1, HandlerFields
    <3>3. \A i \in Emitted(q)' \cap handling[g].settled : i \in Emitted(q) /\ log'[i] = log[i]
      BY <1>3, <1>5, <1>6, <1>12, <1>13, <3>1 DEF Reads, new
    <3>4. handling[g].prev <= Len(log')
      BY <1>3, <1>5, <3>1, <3>2 DEF Reads, new
    <3>5. \A i \in Emitted(q)' \cap handling[g].settled : log'[i].prev # handling[g].prev
      BY <3>1, <3>2, <3>3 DEF Reads
    <3> QED BY <1>4, <3>1, <3>2, <3>4, <3>5 DEF Reads
  <2> QED BY <2>1, <2>2
<1>17. ASSUME NEW g \in Handlers PROVE Settles(g)'
  <2>1. CASE ~Updating(g)'
    BY <2>1 DEF Settles
  <2>2. CASE g = h
    <3>1. new \in Emitted(p)' \ settled'
      BY <1>3, <1>4, <1>5, <1>13 DEF new
    <3>2. tails'[p] \notin {Unseeded, new}
      BY <1>3, <1>4, <1>13, <1>14 DEF new
    <3>3. \A i \in Emitted(p)' : log'[i].prev # new
      BY <1>3, <1>5, <1>8, <1>11, <1>12 DEF new, Reads
    <3>4. ASSUME NEW f \in Handlers
          PROVE  /\ Inserting(f)' => handling'[f].prev # new
                 /\ Updating(f)' /\ f # h => handling'[f].row # new
      <4>1. Inserting(f)' => f # h
        BY <1>7
      <4>2. CASE f # h
        <5>1. handling'[f] = handling[f] /\ Reads(f) /\ Settles(f) /\ Inserting(f)' = Inserting(f) /\ Updating(f)' = Updating(f)
          BY <1>7, <4>2 DEF AuditInv, Reading, Unsettled
        <5>2. Inserting(f) => handling[f].prev \in Nat /\ handling[f].prev <= Len(log)
          BY <1>0, <5>1, HandlerFields DEF Reads
        <5>3. Updating(f) => handling[f].row \in 1..Len(log)
          BY <1>5, <1>12, <5>1 DEF Settles
        <5> QED BY <1>3, <5>1, <5>2, <5>3 DEF new
      <4> QED BY <4>1, <4>2
    <3> QED BY <1>7, <2>2, <3>1, <3>2, <3>3, <3>4 DEF Settles
  <2>3. CASE g # h /\ Updating(g)'
    <3>1. Updating(g) /\ handling'[g] = handling[g] /\ Settles(g)
      BY <1>7, <2>3 DEF AuditInv, Unsettled
    <3>2. PICK q \in Procs : q = handling[g].proc
      BY <1>0, <3>1, HandlerFields
    <3>3. PICK row \in Emitted(q) : row = handling[g].row
      BY <3>1, <3>2 DEF Settles
    <3>4. row \in Emitted(q)' \ settled'
      BY <1>3, <1>4, <1>5, <1>6, <1>12, <3>1, <3>2, <3>3 DEF Settles, new
    <3>5. tails'[q] \notin {Unseeded, row}
      BY <1>4, <3>1, <3>2, <3>3 DEF Settles
    <3>6. ASSUME NEW i \in Emitted(q)' PROVE log'[i].prev # row
      <4>1. CASE i \in Emitted(q)
        BY <1>5, <1>12, <3>1, <3>2, <3>3, <4>1 DEF Settles
      <4>2. CASE i \notin Emitted(q)
        <5>1. q = p /\ i = new
          BY <1>5, <1>6, <4>2
        <5> QED BY <1>1, <1>3, <1>5, <1>8, <3>1, <3>2, <3>3, <5>1 DEF Settles
      <4> QED BY <4>1, <4>2
    <3>7. row # new
      BY <1>3, <1>5, <1>12, <3>3 DEF new
    <3>8. ASSUME NEW f \in Handlers
          PROVE  /\ Inserting(f)' /\ handling'[f].proc = q => handling'[f].prev # row
                 /\ Updating(f)' /\ f # g => handling'[f].row # row
      BY <1>7, <3>1, <3>2, <3>3, <3>7 DEF Settles
    <3> QED BY <3>1, <3>2, <3>3, <3>4, <3>5, <3>6, <3>8 DEF Settles
  <2> QED BY <2>1, <2>2, <2>3
<1> QED BY <1>9, <1>10, <1>15, <1>16, <1>17 DEF AuditInv, Reading, Unsettled

\* The row with the latest start is one of the log.
LEMMA LastRowType ==
    ASSUME AuditTypeOK
    PROVE  LastRow \in Nat /\ LastRow <= Len(log)
<1>0. log \in Seq(AuditRows) /\ Len(log) \in Nat /\ DOMAIN log = 1..Len(log)
  BY DEF AuditTypeOK
<1>1. \A i \in DOMAIN log : log[i].start \in Nat
  <2>1. \A i \in DOMAIN log : log[i] \in AuditRows
    BY <1>0
  <2> QED BY <2>1 DEF AuditRows
<1>2. CASE log = <<>>
  BY <1>0, <1>2 DEF LastRow
<1>3. CASE log # <<>>
  <2>1. 1 \in DOMAIN log
    BY <1>0, <1>3
  <2> DEFINE Better(i) == {j \in DOMAIN log : log[i].start < log[j].start}
             Counts == {Cardinality(Better(i)) : i \in DOMAIN log}
  <2>2. IsFiniteSet(DOMAIN log)
    BY <1>0, FS_Interval
  <2>3. ASSUME NEW i \in DOMAIN log PROVE IsFiniteSet(Better(i)) /\ Cardinality(Better(i)) \in Nat
    <3>1. IsFiniteSet(Better(i))
      BY <2>2, FS_Subset
    <3> QED BY <3>1, FS_CardinalityType
  <2>4. Counts \subseteq Nat /\ Counts # {}
    BY <2>1, <2>3
  <2> HIDE DEF Better
  <2>5. PICK m \in Counts : \A n \in Counts : m <= n
    BY <2>4, LeastNatural
  <2>6. PICK i \in DOMAIN log : m = Cardinality(Better(i))
    OBVIOUS
  <2>7. ASSUME NEW j \in DOMAIN log, log[i].start < log[j].start PROVE FALSE
    <3>1. Better(j) \subseteq Better(i)
      <4>1. ASSUME NEW k \in Better(j) PROVE k \in Better(i)
        <5>1. k \in DOMAIN log /\ log[j].start < log[k].start
          BY DEF Better
        <5>2. log[i].start < log[k].start
          BY <1>1, <2>7, <5>1
        <5> QED BY <5>1, <5>2 DEF Better
      <4> QED BY <4>1
    <3>2. j \in Better(i) /\ j \notin Better(j)
      BY <1>1, <2>7 DEF Better
    <3>3. Cardinality(Better(j)) < Cardinality(Better(i))
      BY <2>3, <3>1, <3>2, FS_Subset
    <3>4. Cardinality(Better(j)) \in Counts
      OBVIOUS
    <3>5. m <= Cardinality(Better(j))
      BY <2>5, <3>4
    <3> QED BY <2>3, <2>6, <3>3, <3>5
  <2>8. \A j \in DOMAIN log : log[j].start <= log[i].start
    BY <1>1, <2>7
  <2>9. LastRow \in DOMAIN log
    BY <1>3, <2>8 DEF LastRow
  <2> QED BY <1>0, <2>9
<1> QED BY <1>2, <1>3

\* The tail is read: the row it names has settled, or there is none.
LEMMA ReadTailStep ==
    ASSUME AuditInv, NEW h \in Handlers, ReadTail(h)
    PROVE  AuditInv'
<1>0. AuditTypeOK /\ DOMAIN handling = Handlers
  BY DEF AuditInv, AuditTypeOK
<1>1. PICK p \in Procs : p = handling[h].proc /\ handling[h].start \in Nat /\ handling[h].outcome \in Outcomes
  BY <1>0, HandlerFields DEF ReadTail
<1>2. PICK v : /\ tails[p] # Unseeded => v = tails[p]
               /\ tails[p] = Unseeded => v \in {LastRow, 0}
               /\ tails' = [tails EXCEPT ![p] = v]
               /\ Becomes(h, [at |-> "insert", proc |-> p, start |-> handling[h].start,
                              outcome |-> handling[h].outcome, prev |-> v, settled |-> settled])
               /\ UNCHANGED <<log, life, clock, settled>>
  BY <1>1 DEF ReadTail
<1>3. tails \in [Procs -> Nat \cup {Unseeded}] /\ settled \subseteq DOMAIN log /\ Len(log) \in Nat /\ DOMAIN log = 1..Len(log)
  BY <1>0 DEF AuditTypeOK
<1>4. v \in Nat /\ v <= Len(log) /\ v # Unseeded
  BY <1>0, <1>1, <1>2, <1>3, LastRowType DEF AuditInv, Advanced, Unseeded
<1>5. \A q : Emitted(q)' = Emitted(q) /\ Emitted(q) \subseteq DOMAIN log
  BY <1>2 DEF Emitted, LifeOf
<1>6. \A q \in Procs : q # p => tails'[q] = tails[q]
  BY <1>2, <1>3
<1>7. tails'[p] = v
  BY <1>2, <1>3
<1>8. /\ handling'[h] = [at |-> "insert", proc |-> p, start |-> handling[h].start,
                         outcome |-> handling[h].outcome, prev |-> v, settled |-> settled]
      /\ ~Updating(h)'
      /\ \A g \in Handlers : g # h => /\ handling'[g] = handling[g]
                                      /\ Inserting(g)' = Inserting(g) /\ Updating(g)' = Updating(g)
  BY <1>0, <1>2 DEF Becomes, Inserting, Updating
<1>9. AuditTypeOK'
  <2>1. handling' \in [Handlers -> HandlerStates]
    <3>1. [at |-> "insert", proc |-> p, start |-> handling[h].start,
           outcome |-> handling[h].outcome, prev |-> v, settled |-> settled] \in HandlerStates
      BY <1>1, <1>3, <1>4 DEF HandlerStates
    <3> QED BY <1>0, <1>2, <3>1 DEF AuditTypeOK, Becomes
  <2> QED BY <1>0, <1>2, <1>4, <2>1 DEF AuditTypeOK
<1>10. Linked' /\ ForksExplained'
  BY <1>2 DEF AuditInv, Linked, ForksExplained
<1>11. \A i \in Emitted(p) \cap settled : log[i].prev # v
  BY <1>2 DEF AuditInv, Advanced
<1>12. Advanced'
  BY <1>2, <1>4, <1>5, <1>6, <1>7, <1>11 DEF AuditInv, Advanced
<1>13. ASSUME NEW g \in Handlers PROVE Reads(g)'
  <2>1. CASE g = h
    BY <1>2, <1>4, <1>5, <1>7, <1>8, <1>11, <2>1 DEF Reads
  <2>2. CASE g # h /\ ~Inserting(g)'
    BY <2>2 DEF Reads
  <2>3. CASE g # h /\ Inserting(g)'
    <3>1. handling'[g] = handling[g] /\ Inserting(g) /\ Reads(g)
      BY <1>8, <2>3 DEF AuditInv, Reading
    <3>2. handling[g].proc \in Procs
      BY <1>0, <3>1, HandlerFields
    <3> QED BY <1>2, <1>4, <1>5, <1>6, <1>7, <3>1, <3>2 DEF Reads
  <2> QED BY <2>1, <2>2, <2>3
<1>14. ASSUME NEW g \in Handlers PROVE Settles(g)'
  <2>1. CASE ~Updating(g)'
    BY <2>1 DEF Settles
  <2>2. CASE Updating(g)'
    <3>1. g # h /\ Updating(g) /\ handling'[g] = handling[g] /\ Settles(g)
      BY <1>8, <2>2 DEF AuditInv, Unsettled
    <3>2. PICK q \in Procs : q = handling[g].proc
      BY <1>0, <3>1, HandlerFields
    <3>3. PICK row \in Emitted(q) : row = handling[g].row
      BY <3>1, <3>2 DEF Settles
    <3>4. q = p => v # row
      BY <1>2, <3>1, <3>2, <3>3 DEF Settles
    <3>5. tails'[q] \notin {Unseeded, row}
      BY <1>4, <1>6, <1>7, <3>1, <3>2, <3>3, <3>4 DEF Settles
    <3>6. ASSUME NEW f \in Handlers
          PROVE  /\ Inserting(f)' /\ handling'[f].proc = q => handling'[f].prev # row
                 /\ Updating(f)' /\ f # g => handling'[f].row # row
      <4>1. CASE f = h
        BY <1>8, <3>4, <4>1
      <4>2. CASE f # h
        BY <1>8, <3>1, <3>2, <3>3, <4>2 DEF Settles
      <4> QED BY <4>1, <4>2
    <3> QED BY <1>2, <1>5, <3>1, <3>2, <3>3, <3>5, <3>6 DEF Settles
  <2> QED BY <2>1, <2>2
<1> QED BY <1>9, <1>10, <1>12, <1>13, <1>14 DEF AuditInv, Reading, Unsettled

\* The tail moves to the row: the row has settled.
LEMMA UpdateTailStep ==
    ASSUME AuditInv, NEW h \in Handlers, UpdateTail(h)
    PROVE  AuditInv'
<1>0. AuditTypeOK /\ DOMAIN handling = Handlers
  BY DEF AuditInv, AuditTypeOK
<1>1. PICK p \in Procs : p = handling[h].proc
  BY <1>0, HandlerFields DEF UpdateTail, Updating
<1>2. Updating(h) /\ Settles(h)
  BY DEF UpdateTail, Updating, AuditInv, Unsettled
<1>3. PICK row \in Emitted(p) : row = handling[h].row
  BY <1>1, <1>2 DEF Settles
<1>4. /\ tails' = [tails EXCEPT ![p] = row] /\ settled' = settled \cup {row}
      /\ Becomes(h, Waiting)
      /\ UNCHANGED <<log, life, clock>>
  BY <1>1, <1>3 DEF UpdateTail
<1>5. tails \in [Procs -> Nat \cup {Unseeded}] /\ settled \subseteq DOMAIN log /\ Len(log) \in Nat /\ DOMAIN log = 1..Len(log)
  BY <1>0 DEF AuditTypeOK
<1>6. \A q : Emitted(q)' = Emitted(q) /\ Emitted(q) \subseteq DOMAIN log
  BY <1>4 DEF Emitted, LifeOf
<1>7. row \in Nat /\ row <= Len(log) /\ row # Unseeded /\ row \in DOMAIN log
  BY <1>3, <1>5, <1>6 DEF Unseeded
<1>8. tails'[p] = row /\ \A q \in Procs : q # p => tails'[q] = tails[q]
  BY <1>4, <1>5
<1>9. \A g \in Handlers : /\ Inserting(g)' => Inserting(g) /\ g # h /\ handling'[g] = handling[g]
                          /\ Updating(g)' => Updating(g) /\ g # h /\ handling'[g] = handling[g]
  BY <1>0, <1>4, Elsewhere DEF Waiting
<1>10. AuditTypeOK'
  BY <1>0, <1>4, <1>7 DEF AuditTypeOK, Becomes, HandlerStates
<1>11. Linked' /\ ForksExplained'
  BY <1>4 DEF AuditInv, Linked, ForksExplained
<1>12. \A i \in Emitted(p) : log[i].prev # row
  BY <1>1, <1>2, <1>3 DEF Settles
<1>13. \A q \in Procs : q # p => row \notin Emitted(q)
  BY <1>3 DEF Emitted, LifeOf
<1>14. Advanced'
  <2> SUFFICES ASSUME NEW q \in Procs
               PROVE  /\ tails'[q] <= Len(log)
                      /\ tails'[q] = Unseeded => Emitted(q) = {}
                      /\ \A i \in Emitted(q) \cap settled' : tails'[q] # log[i].prev
    BY <1>4, <1>6 DEF Advanced
  <2>1. CASE q = p
    BY <1>7, <1>8, <1>12, <2>1
  <2>2. CASE q # p
    BY <1>4, <1>8, <1>13, <2>2 DEF AuditInv, Advanced
  <2> QED BY <2>1, <2>2
<1>15. ASSUME NEW g \in Handlers PROVE Reads(g)'
  <2>1. CASE ~Inserting(g)'
    BY <2>1 DEF Reads
  <2>2. CASE Inserting(g)'
    <3>1. handling'[g] = handling[g] /\ Inserting(g) /\ Reads(g)
      BY <1>9, <2>2 DEF AuditInv, Reading
    <3>2. handling[g].proc \in Procs
      BY <1>0, <3>1, HandlerFields
    <3> QED BY <1>4, <1>6, <1>7, <1>8, <3>1, <3>2 DEF Reads
  <2> QED BY <2>1, <2>2
<1>16. ASSUME NEW g \in Handlers PROVE Settles(g)'
  <2>1. CASE ~Updating(g)'
    BY <2>1 DEF Settles
  <2>2. CASE Updating(g)'
    <3>1. g # h /\ Updating(g) /\ handling'[g] = handling[g] /\ Settles(g)
      BY <1>9, <2>2 DEF AuditInv, Unsettled
    <3>2. PICK q \in Procs : q = handling[g].proc
      BY <1>0, <3>1, HandlerFields
    <3>3. PICK other \in Emitted(q) : other = handling[g].row /\ other # row /\ other \notin settled
      BY <1>2, <1>3, <3>1, <3>2 DEF Settles
    <3>4. tails'[q] \notin {Unseeded, other}
      BY <1>7, <1>8, <3>1, <3>2, <3>3 DEF Settles
    <3>5. ASSUME NEW f \in Handlers
          PROVE  /\ Inserting(f)' /\ handling'[f].proc = q => handling'[f].prev # other
                 /\ Updating(f)' /\ f # g => handling'[f].row # other
      BY <1>9, <3>1, <3>2, <3>3 DEF Settles
    <3>6. \A i \in Emitted(q) : log[i].prev # other
      BY <3>1, <3>2, <3>3 DEF Settles
    <3> QED BY <1>4, <1>6, <3>1, <3>2, <3>3, <3>4, <3>5, <3>6 DEF Settles
  <2> QED BY <2>1, <2>2
<1> QED BY <1>10, <1>11, <1>14, <1>15, <1>16 DEF AuditInv, Reading, Unsettled

\* A process starts again: its life is another, and nothing is under way in it.
LEMMA RestartStep ==
    ASSUME AuditInv, NEW p \in Procs, Restart(p)
    PROVE  AuditInv'
<1>0. AuditTypeOK /\ DOMAIN handling = Handlers
  BY DEF AuditInv, AuditTypeOK
<1>1. /\ life' = [life EXCEPT ![p] = @ + 1] /\ tails' = [tails EXCEPT ![p] = Unseeded]
      /\ handling' = [h \in Handlers |-> IF handling[h] # Waiting /\ handling[h].proc = p THEN Waiting ELSE handling[h]]
      /\ UNCHANGED <<log, clock, settled>>
  BY DEF Restart
<1>2. tails \in [Procs -> Nat \cup {Unseeded}] /\ life \in [Procs -> Nat] /\ Len(log) \in Nat
  BY <1>0 DEF AuditTypeOK
<1>3. /\ tails'[p] = Unseeded /\ life'[p] = life[p] + 1
      /\ \A q \in Procs : q # p => tails'[q] = tails[q] /\ life'[q] = life[q]
  BY <1>1, <1>2
<1>4. AuditTypeOK'
  <2>1. handling' \in [Handlers -> HandlerStates]
    BY <1>0, <1>1 DEF AuditTypeOK, HandlerStates
  <2> QED BY <1>0, <1>1, <2>1 DEF AuditTypeOK
<1>5. \A i \in DOMAIN log : log[i].life \in Procs \X Nat
  <2>1. \A i \in DOMAIN log : log[i] \in AuditRows
    BY <1>0 DEF AuditTypeOK
  <2> QED BY <2>1 DEF AuditRows
<1>6. Linked'
  <2> SUFFICES ASSUME NEW i \in DOMAIN log PROVE log[i].life[2] <= life'[log[i].life[1]]
    BY <1>1 DEF AuditInv, Linked
  <2>1. PICK q \in Procs, n \in Nat : log[i].life[1] = q /\ log[i].life[2] = n
    BY <1>5
  <2>2. n <= life[q] /\ life[q] \in Nat
    BY <1>2, <2>1 DEF AuditInv, Linked
  <2>3. life'[q] \in {life[q], life[q] + 1}
    BY <1>3
  <2> QED BY <2>1, <2>2, <2>3
<1>7. ForksExplained'
  BY <1>1 DEF AuditInv, ForksExplained
<1>8. Emitted(p)' = {}
  <2> SUFFICES ASSUME NEW i \in DOMAIN log, log[i].life = <<p, life'[p]>> PROVE FALSE
    BY <1>1 DEF Emitted, LifeOf
  <2>1. log[i].life[2] <= life[p]
    BY DEF AuditInv, Linked
  <2> QED BY <1>2, <1>3, <2>1
<1>9. \A q \in Procs : q # p => Emitted(q)' = Emitted(q)
  BY <1>1, <1>3 DEF Emitted, LifeOf
<1>10. Advanced'
  <2> SUFFICES ASSUME NEW q \in Procs
               PROVE  /\ tails'[q] <= Len(log)
                      /\ tails'[q] = Unseeded => Emitted(q)' = {}
                      /\ \A i \in Emitted(q)' \cap settled : tails'[q] # log[i].prev
    BY <1>1 DEF Advanced
  <2>1. CASE q = p
    BY <1>2, <1>3, <1>8, <2>1 DEF Unseeded
  <2>2. CASE q # p
    BY <1>3, <1>9, <2>2 DEF AuditInv, Advanced
  <2> QED BY <2>1, <2>2
<1>11. \A g \in Handlers :
          /\ Inserting(g)' => Inserting(g) /\ handling'[g] = handling[g] /\ handling[g].proc # p
          /\ Updating(g)' => Updating(g) /\ handling'[g] = handling[g] /\ handling[g].proc # p
  BY <1>1 DEF Inserting, Updating, Waiting
<1>12. ASSUME NEW g \in Handlers PROVE Reads(g)'
  <2>1. CASE ~Inserting(g)'
    BY <2>1 DEF Reads
  <2>2. CASE Inserting(g)'
    <3>1. handling'[g] = handling[g] /\ Inserting(g) /\ Reads(g) /\ handling[g].proc # p
      BY <1>11, <2>2 DEF AuditInv, Reading
    <3>2. handling[g].proc \in Procs
      BY <1>0, <3>1, HandlerFields
    <3> QED BY <1>1, <1>3, <1>9, <3>1, <3>2 DEF Reads
  <2> QED BY <2>1, <2>2
<1>13. ASSUME NEW g \in Handlers PROVE Settles(g)'
  <2>1. CASE ~Updating(g)'
    BY <2>1 DEF Settles
  <2>2. CASE Updating(g)'
    <3>1. handling'[g] = handling[g] /\ Updating(g) /\ Settles(g) /\ handling[g].proc # p
      BY <1>11, <2>2 DEF AuditInv, Unsettled
    <3>2. handling[g].proc \in Procs
      BY <1>0, <3>1, HandlerFields
    <3> QED BY <1>1, <1>3, <1>9, <1>11, <3>1, <3>2 DEF Settles
  <2> QED BY <2>1, <2>2
<1> QED BY <1>4, <1>6, <1>7, <1>10, <1>12, <1>13 DEF AuditInv, Reading, Unsettled

\* AuditMW and the writers: two rows of one life of a server process, the
\* second emitted after the first, never name the same predecessor, whatever
\* the number of processes and requests, however they overlap and whenever a
\* process starts again.
THEOREM ForksAreExplained == AuditSpec => []ForksExplained
<1>1. AuditInit => AuditInv
  <2> SUFFICES ASSUME AuditInit PROVE AuditInv
    OBVIOUS
  <2>1. AuditTypeOK
    BY DEF AuditInit, AuditTypeOK, HandlerStates
  <2>2. \A h \in Handlers : ~Inserting(h) /\ ~Updating(h)
    BY DEF AuditInit, Inserting, Updating, Waiting
  <2>3. Linked /\ ForksExplained
    BY DEF AuditInit, Linked, ForksExplained
  <2>4. Advanced
    BY DEF AuditInit, Advanced, Emitted, Unseeded
  <2> QED BY <2>1, <2>2, <2>3, <2>4 DEF AuditInv, Reading, Reads, Unsettled, Settles
<1>2. AuditInv /\ [AuditNext]_avars => AuditInv'
  <2> SUFFICES ASSUME AuditInv, [AuditNext]_avars PROVE AuditInv'
    OBVIOUS
  <2>1. CASE UNCHANGED avars
    <3>1. AuditTypeOK'
      BY <2>1 DEF AuditInv, AuditTypeOK, avars
    <3> QED BY <2>1, <3>1, AuditQuietStep DEF avars, Inserting, Updating
  <2>2. CASE AuditNext
    BY <2>2, ArriveStep, AnsweredStep, MemoryEmitStep, ReadTailStep, InsertStep, InsertFailsStep, UpdateTailStep, RestartStep
       DEF AuditNext
  <2> QED BY <2>1, <2>2
<1>3. AuditInv => ForksExplained
  BY DEF AuditInv
<1> QED BY <1>1, <1>2, <1>3, PTL DEF AuditSpec

(***************************************************************************)
(* Tables                                                                  *)
(***************************************************************************)
\* There are n numbers up to n.
LEMMA CountUpTo ==
    ASSUME NEW n \in Nat
    PROVE  IsFiniteSet(1..n) /\ Cardinality(1..n) = n
<1>1. IsFiniteSet(1..n) /\ Cardinality(1..n) = IF 1 > n THEN 0 ELSE n - 1 + 1
  BY FS_Interval
<1> QED BY <1>1

\* The row a table gets next has a number.
LEMMA NextIDType ==
    ASSUME NEW S, NEW table \in Seq(S)
    PROVE  NextID(table) \in Nat
<1>1. IsFiniteSet(DOMAIN table)
  <2>1. Len(table) \in Nat /\ DOMAIN table = 1..Len(table)
    OBVIOUS
  <2> QED BY <2>1, FS_Interval
<1>2. IsFiniteSet({table[i].id : i \in DOMAIN table})
  <2> DEFINE f == [i \in DOMAIN table |-> table[i].id]
  <2>1. f \in Surjection(DOMAIN table, {table[i].id : i \in DOMAIN table})
    BY DEF Surjection
  <2> QED BY <1>1, <2>1, FS_Surjection
<1> QED BY <1>2, FS_CardinalityType DEF NextID

\* Where rows are numbered by their position, the next one is too.
LEMMA NextIDIsNext ==
    ASSUME NEW S, NEW table \in Seq(S), \A i \in DOMAIN table : table[i].id = i
    PROVE  NextID(table) = Len(table) + 1
<1>1. Len(table) \in Nat /\ DOMAIN table = 1..Len(table)
  OBVIOUS
<1>2. {table[i].id : i \in DOMAIN table} = 1..Len(table)
  BY <1>1
<1>3. Cardinality(1..Len(table)) = Len(table)
  BY <1>1, CountUpTo
<1>4. NextID(table) = 1 + Cardinality(1..Len(table))
  BY <1>2 DEF NextID
<1> QED BY <1>1, <1>3, <1>4

\* The numbers of rows that are kept, counted from the first.
RankIn(kept, i) == Cardinality({j \in kept : j <= i})

\* The rows that are kept are ranked from one to their number.
LEMMA RanksAreCounts ==
    ASSUME NEW n \in Nat, NEW kept \in SUBSET (1..n)
    PROVE  /\ IsFiniteSet(kept) /\ Cardinality(kept) \in Nat
           /\ \A i \in kept : RankIn(kept, i) \in 1..Cardinality(kept)
           /\ \A i, j \in kept : RankIn(kept, i) = RankIn(kept, j) => i = j
           /\ \A k \in 1..Cardinality(kept) : \E i \in kept : RankIn(kept, i) = k
<1>1. IsFiniteSet(kept) /\ Cardinality(kept) \in Nat
  BY CountUpTo, FS_Subset, FS_CardinalityType
<1> DEFINE Upto(i) == {j \in kept : j <= i}
           c == Cardinality(kept)
<1>2. \A i : IsFiniteSet(Upto(i)) /\ Cardinality(Upto(i)) \in Nat /\ Cardinality(Upto(i)) <= c
  BY <1>1, FS_Subset, FS_CardinalityType
<1>3. ASSUME NEW i \in kept, NEW j \in kept, i < j PROVE Cardinality(Upto(i)) < Cardinality(Upto(j))
  <2>1. i \in Nat /\ j \in Nat
    OBVIOUS
  <2>2. \A k \in kept : k \in Nat
    OBVIOUS
  <2>3. \A k \in kept : k <= i => k <= j
    BY <1>3, <2>1, <2>2
  <2>4. j <= j /\ ~(j <= i)
    BY <1>3, <2>1
  <2>5. Upto(i) \in SUBSET Upto(j)
    BY <2>3
  <2>6. j \in Upto(j) /\ j \notin Upto(i)
    BY <2>4
  <2> HIDE DEF Upto
  <2>7. Cardinality(Upto(i)) <= Cardinality(Upto(j)) /\ Cardinality(Upto(j)) # Cardinality(Upto(i))
    BY <1>2, <2>5, <2>6, FS_Subset
  <2> QED BY <1>2, <2>7
<1>4. ASSUME NEW i \in kept PROVE Cardinality(Upto(i)) \in 1..c
  <2>1. i \in Upto(i)
    OBVIOUS
  <2>2. Cardinality(Upto(i)) # 0
    BY <1>2, <2>1, FS_EmptySet
  <2> QED BY <1>1, <1>2, <2>2
<1>5. \A i, j \in kept : Cardinality(Upto(i)) = Cardinality(Upto(j)) => i = j
  BY <1>2, <1>3
<1>6. ASSUME NEW k \in 1..c, \A i \in kept : Cardinality(Upto(i)) # k PROVE FALSE
  <2> DEFINE rest == (1..c) \ {k}
             f == [i \in kept |-> Cardinality(Upto(i))]
  <2>1. IsFiniteSet(1..c) /\ Cardinality(1..c) = c
    BY <1>1, FS_Interval
  <2>2. IsFiniteSet(rest) /\ Cardinality(rest) = c - 1
    BY <2>1, FS_RemoveElement
  <2>3. f \in [kept -> rest]
    BY <1>4, <1>6
  <2>4. Cardinality(rest) < Cardinality(kept)
    BY <1>1, <2>2
  <2> HIDE DEF rest, f
  <2>5. \E x, y \in kept : x # y /\ f[x] = f[y]
    BY <1>1, <2>2, <2>3, <2>4, FS_PigeonHole
  <2> QED BY <1>5, <2>5 DEF f
<1> QED BY <1>1, <1>4, <1>5, <1>6 DEF RankIn

(***************************************************************************)
(* What the methods of the stores do                                       *)
(***************************************************************************)
\* The rows of a table, and those at some positions.
Picked(table, kept) == {table[i] : i \in kept}

\* The stores count as everybody does.
LEMMA SameCount ==
    ASSUME NEW S
    PROVE  Pg!Cardinality(S) = Cardinality(S) /\ Mem!Cardinality(S) = Cardinality(S)
BY Zenon DEF Pg!Cardinality, Mem!Cardinality, Cardinality

\* rest has the rows of the table at the positions in kept, and no other.
Shrinks(table, kept, rest) ==
    \E f \in Bijection(DOMAIN rest, kept) : \A n \in DOMAIN rest : rest[n] = table[f[n]]

\* The rows at some positions that have a key.
Keyed(table, at, k) == {i \in at : KeyOf(table[i]) = k}

\* What is left of a table has the rows kept, each as often.
LEMMA WhatShrinks ==
    ASSUME NEW S, NEW table \in Seq(S), NEW kept \in SUBSET (DOMAIN table), NEW rest, Shrinks(table, kept, rest)
    PROVE  /\ Picked(rest, DOMAIN rest) = Picked(table, kept)
           /\ \A n, m \in DOMAIN rest :
                 n # m => \E i, j \in kept : i # j /\ rest[n] = table[i] /\ rest[m] = table[j]
           /\ \A k : Cardinality(Keyed(rest, DOMAIN rest, k)) = Cardinality(Keyed(table, kept, k))
<1>1. PICK f \in Bijection(DOMAIN rest, kept) : \A n \in DOMAIN rest : rest[n] = table[f[n]]
  BY DEF Shrinks
<1>2. /\ f \in [DOMAIN rest -> kept]
      /\ \A n, m \in DOMAIN rest : f[n] = f[m] => n = m
      /\ \A i \in kept : \E n \in DOMAIN rest : f[n] = i
  BY Fun_BijectionProperties
<1>3. Picked(rest, DOMAIN rest) = Picked(table, kept)
  BY <1>1, <1>2 DEF Picked
<1>4. \A n, m \in DOMAIN rest :
         n # m => \E i, j \in kept : i # j /\ rest[n] = table[i] /\ rest[m] = table[j]
  BY <1>1, <1>2
<1>5. ASSUME NEW k
      PROVE  Cardinality(Keyed(rest, DOMAIN rest, k)) = Cardinality(Keyed(table, kept, k))
  <2> DEFINE A == Keyed(rest, DOMAIN rest, k)
             B == Keyed(table, kept, k)
             g == [n \in A |-> f[n]]
  <2>1. g \in [A -> B]
    BY <1>1, <1>2 DEF Keyed
  <2>2. \A n, m \in A : g[n] = g[m] => n = m
    BY <1>2 DEF Keyed
  <2>3. \A i \in B : \E n \in A : g[n] = i
    BY <1>1, <1>2 DEF Keyed
  <2>4. IsFiniteSet(DOMAIN table)
    <3>1. Len(table) \in Nat /\ DOMAIN table = 1..Len(table)
      OBVIOUS
    <3> QED BY <3>1, CountUpTo
  <2>5. B \in SUBSET (DOMAIN table)
    BY DEF Keyed
  <2> HIDE DEF A, B, g
  <2>6. IsFiniteSet(B)
    BY <2>4, <2>5, FS_Subset
  <2>7. g \in Injection(A, B) /\ g \in Surjection(A, B)
    BY <2>1, <2>2, <2>3, Fun_IsInj, Fun_IsSurj
  <2>8. g \in Bijection(A, B)
    BY <2>7, Zenon DEF Bijection
  <2>9. ExistsBijection(A, B)
    BY <2>8, Zenon DEF ExistsBijection
  <2>10. ExistsBijection(B, A)
    BY <2>9, Fun_ExistsBijSymmetric
  <2>11. Cardinality(A) = Cardinality(B)
    BY <2>6, <2>10, FS_Bijection
  <2> QED BY <2>11 DEF A, B
<1> QED BY <1>3, <1>4, <1>5

\* Drawing the rows of kept in their order is shrinking the table to them.
LEMMA KeptRows ==
    ASSUME NEW S, NEW table \in Seq(S), NEW kept \in SUBSET (DOMAIN table),
           NEW rest, DOMAIN rest = 1..Cardinality(kept), rest = [n \in DOMAIN rest |-> rest[n]],
           \A n \in DOMAIN rest : \E i \in kept : RankIn(kept, i) = n /\ rest[n] = table[i]
    PROVE  rest \in Seq(S) /\ Shrinks(table, kept, rest)
<1>1. Len(table) \in Nat /\ DOMAIN table = 1..Len(table)
  OBVIOUS
<1>2. /\ Cardinality(kept) \in Nat
      /\ \A i \in kept : RankIn(kept, i) \in 1..Cardinality(kept)
      /\ \A i, j \in kept : RankIn(kept, i) = RankIn(kept, j) => i = j
  BY <1>1, RanksAreCounts
<1>3. \A n \in DOMAIN rest : rest[n] \in S
  BY <1>1
<1>4. rest \in Seq(S)
  BY <1>2, <1>3
<1> DEFINE f == [n \in DOMAIN rest |-> CHOOSE i \in kept : RankIn(kept, i) = n /\ rest[n] = table[i]]
<1>5. ASSUME NEW n \in DOMAIN rest
      PROVE  f[n] \in kept /\ RankIn(kept, f[n]) = n /\ rest[n] = table[f[n]]
  <2> DEFINE at == CHOOSE i \in kept : RankIn(kept, i) = n /\ rest[n] = table[i]
  <2>1. \E i \in kept : RankIn(kept, i) = n /\ rest[n] = table[i]
    OBVIOUS
  <2>2. at \in kept /\ RankIn(kept, at) = n /\ rest[n] = table[at]
    BY <2>1, Zenon
  <2>3. f[n] = at
    OBVIOUS
  <2> QED BY <2>2, <2>3, Zenon
<1>6. f \in [DOMAIN rest -> kept]
  <2> DEFINE at(n) == CHOOSE i \in kept : RankIn(kept, i) = n /\ rest[n] = table[i]
  <2>1. \A n \in DOMAIN rest : at(n) \in kept
    BY <1>5
  <2> QED BY <2>1
<1> HIDE DEF f
<1>7. \A n, m \in DOMAIN rest : f[n] = f[m] => n = m
  BY <1>5
<1>8. ASSUME NEW i \in kept PROVE \E n \in DOMAIN rest : f[n] = i
  <2>1. PICK n \in DOMAIN rest : n = RankIn(kept, i)
    BY <1>2
  <2> QED BY <1>2, <1>5, <2>1
<1>9. f \in Injection(DOMAIN rest, kept) /\ f \in Surjection(DOMAIN rest, kept)
  BY <1>6, <1>7, <1>8, Fun_IsInj, Fun_IsSurj
<1>10. f \in Bijection(DOMAIN rest, kept)
  BY <1>9, Zenon DEF Bijection
<1>11. Shrinks(table, kept, rest)
  BY <1>5, <1>10 DEF Shrinks
<1> QED BY <1>4, <1>11

\* A table as it was has all of its rows.
LEMMA NothingShrinks ==
    ASSUME NEW S, NEW table \in Seq(S)
    PROVE  Shrinks(table, DOMAIN table, table)
<1> DEFINE f == [n \in DOMAIN table |-> n]
<1>1. f \in [DOMAIN table -> DOMAIN table] /\ \A n \in DOMAIN table : f[n] = n
  OBVIOUS
<1> HIDE DEF f
<1>2. f \in Injection(DOMAIN table, DOMAIN table) /\ f \in Surjection(DOMAIN table, DOMAIN table)
  BY <1>1, Fun_IsInj, Fun_IsSurj
<1>3. f \in Bijection(DOMAIN table, DOMAIN table)
  BY <1>2, Zenon DEF Bijection
<1> QED BY <1>1, <1>3 DEF Shrinks

\* The positions of the rows with a kind, a tenant and an id.
Hits(table, kind, t, id) == {i \in DOMAIN table : table[i].kind = kind /\ table[i].tenant = t /\ table[i].id = id}

\* DELETE takes the rows with the kind, the tenant and the id.
LEMMA DropEffect ==
    ASSUME NEW d \in Databases, NEW kind, NEW t, NEW id, NEW e, e = Pg!Drop(d, kind, t, id)
    PROVE  /\ Mem!Drop(d, kind, t, id) = e
           /\ e.db \in Databases /\ e.db = [d EXCEPT !.rows = e.db.rows]
           /\ Shrinks(d.rows, DOMAIN d.rows \ Hits(d.rows, kind, t, id), e.db.rows)
<1> DEFINE hits == {i \in DOMAIN d.rows : d.rows[i].kind = kind /\ d.rows[i].tenant = t /\ d.rows[i].id = id}
           kept == {i \in DOMAIN d.rows : ~(d.rows[i].kind = kind /\ d.rows[i].tenant = t /\ d.rows[i].id = id)}
           rest == [n \in 1..Pg!Cardinality(kept) |-> d.rows[CHOOSE i \in kept : Pg!Cardinality({j \in kept : j <= i}) = n]]
<1>1. d.rows \in Seq(LiveRows) /\ Len(d.rows) \in Nat /\ DOMAIN d.rows = 1..Len(d.rows)
  BY DEF Databases
<1>2. Pg!Drop(d, kind, t, id) = IF hits = {} THEN [err |-> "not_found", db |-> d]
                                ELSE [err |-> "ok", db |-> [d EXCEPT !.rows = rest]]
  BY Zenon DEF Pg!Drop, Pg!Affected, Pg!Without, Pg!Where, Pg!Ok, Pg!Fails
<1>3. Mem!Drop(d, kind, t, id) = Pg!Drop(d, kind, t, id)
  BY Zenon DEF Mem!Drop, Mem!Affected, Mem!Without, Mem!Where, Mem!Ok, Mem!Fails, Mem!Cardinality,
               Pg!Drop, Pg!Affected, Pg!Without, Pg!Where, Pg!Ok, Pg!Fails, Pg!Cardinality
<1>5. kept \in SUBSET (DOMAIN d.rows)
  OBVIOUS
<1>0. kept = DOMAIN d.rows \ Hits(d.rows, kind, t, id)
  BY DEF Hits
<1>6. CASE hits = {}
  <2>1. e.db = d
    BY <1>2, <1>6
  <2>2. d = [d EXCEPT !.rows = d.rows]
    BY DEF Databases
  <2>3. kept = DOMAIN d.rows
    BY <1>6
  <2>4. Shrinks(d.rows, DOMAIN d.rows, d.rows)
    BY <1>1, NothingShrinks
  <2> QED BY <1>0, <1>3, <2>1, <2>2, <2>3, <2>4
<1>7. CASE hits # {}
  <2>1. e.db = [d EXCEPT !.rows = rest]
    BY <1>2, <1>7, SMTT(60)
  <2> HIDE DEF kept
  <2>2. \A i : Pg!Cardinality({j \in kept : j <= i}) = RankIn(kept, i)
    BY SameCount, Zenon DEF RankIn
  <2>3. Pg!Cardinality(kept) = Cardinality(kept)
    BY SameCount
  <2>4. \A n \in 1..Cardinality(kept) : \E i \in kept : RankIn(kept, i) = n
    BY <1>1, <1>5, RanksAreCounts
  <2>5. ASSUME NEW n \in 1..Cardinality(kept)
        PROVE  \E i \in kept : RankIn(kept, i) = n /\ rest[n] = d.rows[i]
    <3> DEFINE at == CHOOSE i \in kept : Pg!Cardinality({j \in kept : j <= i}) = n
    <3>1. \E i \in kept : Pg!Cardinality({j \in kept : j <= i}) = n
      BY <2>2, <2>4
    <3>2. at \in kept /\ Pg!Cardinality({j \in kept : j <= at}) = n
      BY <3>1, Zenon
    <3>3. RankIn(kept, at) = n
      BY <2>2, <3>2, Zenon
    <3>4. rest[n] = d.rows[at]
      BY <2>3
    <3> QED BY <3>2, <3>3, <3>4, Zenon
  <2>6. DOMAIN rest = 1..Cardinality(kept) /\ rest = [n \in DOMAIN rest |-> rest[n]]
    BY <2>3
  <2> HIDE DEF rest
  <2>7. \A n \in DOMAIN rest : \E i \in kept : RankIn(kept, i) = n /\ rest[n] = d.rows[i]
    BY <2>5, <2>6
  <2>8. rest \in Seq(LiveRows) /\ Shrinks(d.rows, kept, rest)
    BY <1>1, <1>5, <2>6, <2>7, KeptRows
  <2>9. e.db.rows = rest /\ e.db \in Databases /\ e.db = [d EXCEPT !.rows = e.db.rows]
    BY <2>1, <2>8 DEF Databases
  <2> QED BY <1>0, <1>3, <2>8, <2>9
<1> QED BY <1>6, <1>7

\* slices.Delete of one row.
LEMMA RemoveAtEffect ==
    ASSUME NEW S, NEW table \in Seq(S), NEW first \in DOMAIN table
    PROVE  /\ Mem!RemoveAt(table, first) \in Seq(S)
           /\ Shrinks(table, DOMAIN table \ {first}, Mem!RemoveAt(table, first))
<1> DEFINE rest == Mem!RemoveAt(table, first)
           f == [n \in DOMAIN rest |-> IF n < first THEN n ELSE n + 1]
<1>1. Len(table) \in Nat /\ DOMAIN table = 1..Len(table) /\ first \in 1..Len(table)
  OBVIOUS
<1>2. rest = SubSeq(table, 1, first - 1) \o SubSeq(table, first + 1, Len(table))
  BY DEF Mem!RemoveAt
<1>3. /\ SubSeq(table, 1, first - 1) \in Seq(S) /\ Len(SubSeq(table, 1, first - 1)) = first - 1
      /\ \A n \in 1..first - 1 : SubSeq(table, 1, first - 1)[n] = table[n]
  BY <1>1
<1>4. /\ SubSeq(table, first + 1, Len(table)) \in Seq(S)
      /\ Len(SubSeq(table, first + 1, Len(table))) = Len(table) - first
      /\ \A n \in 1..Len(table) - first : SubSeq(table, first + 1, Len(table))[n] = table[first + n]
  BY <1>1
<1>5. rest \in Seq(S) /\ Len(rest) = Len(table) - 1 /\ DOMAIN rest = 1..Len(table) - 1
  <2> DEFINE a == SubSeq(table, 1, first - 1)
             b == SubSeq(table, first + 1, Len(table))
  <2>1. a \in Seq(S) /\ Len(a) = first - 1 /\ b \in Seq(S) /\ Len(b) = Len(table) - first /\ rest = a \o b
    BY <1>2, <1>3, <1>4
  <2> HIDE DEF a, b, rest
  <2>2. rest \in Seq(S) /\ Len(rest) = Len(a) + Len(b)
    BY <2>1
  <2>3. Len(rest) = Len(table) - 1
    BY <1>1, <2>1, <2>2
  <2> QED BY <2>2, <2>3
<1>6. ASSUME NEW n \in DOMAIN rest PROVE f[n] \in DOMAIN table \ {first} /\ rest[n] = table[f[n]]
  <2>1. n \in 1..Len(table) - 1
    BY <1>5
  <2>2. CASE n < first
    BY <1>1, <1>2, <1>3, <1>4, <2>1, <2>2, SMTT(20)
  <2>3. CASE ~(n < first)
    <3>1. n - (first - 1) \in 1..Len(table) - first
      BY <1>1, <2>1, <2>3
    <3>2. rest[n] = SubSeq(table, first + 1, Len(table))[n - (first - 1)]
      BY <1>1, <1>2, <1>3, <1>4, <2>1, <2>3, SMTT(20)
    <3>3. rest[n] = table[first + (n - (first - 1))]
      BY <1>4, <3>1, <3>2
    <3>4. first + (n - (first - 1)) = n + 1 /\ n + 1 \in 1..Len(table) /\ n + 1 # first
      BY <1>1, <2>1, <2>3
    <3> QED BY <1>1, <2>3, <3>3, <3>4
  <2> QED BY <2>2, <2>3
<1>7. \A n \in DOMAIN rest : f[n] = IF n < first THEN n ELSE n + 1
  OBVIOUS
<1>8. f \in [DOMAIN rest -> DOMAIN table \ {first}]
  BY <1>6
<1> HIDE DEF f, rest
<1>9. \A n, m \in DOMAIN rest : f[n] = f[m] => n = m
  BY <1>1, <1>5, <1>7
<1>10. ASSUME NEW i \in DOMAIN table \ {first} PROVE \E n \in DOMAIN rest : f[n] = i
  <2>1. CASE i < first
    <3>1. i \in DOMAIN rest
      BY <1>1, <1>5, <2>1
    <3> QED BY <1>7, <2>1, <3>1
  <2>2. CASE ~(i < first)
    <3>1. i - 1 \in DOMAIN rest /\ ~(i - 1 < first) /\ (i - 1) + 1 = i
      BY <1>1, <1>5, <2>2
    <3> QED BY <1>7, <3>1
  <2> QED BY <2>1, <2>2
<1>11. f \in Injection(DOMAIN rest, DOMAIN table \ {first}) /\ f \in Surjection(DOMAIN rest, DOMAIN table \ {first})
  BY <1>8, <1>9, <1>10, Fun_IsInj, Fun_IsSurj
<1>12. f \in Bijection(DOMAIN rest, DOMAIN table \ {first})
  BY <1>11, Zenon DEF Bijection
<1>13. Shrinks(table, DOMAIN table \ {first}, rest)
  BY <1>6, <1>12 DEF Shrinks
<1> QED BY <1>5, <1>13 DEF rest

\* What is not the caller's: rows of tenants for which nobody makes requests.
Foreigner(t) == \A p \in People : p.tenant # t
ForeignIn(table) == {table[i] : i \in {i \in DOMAIN table : Foreigner(table[i].tenant)}}
ForeignTombs(table) == {table[i] : i \in {i \in DOMAIN table : Foreigner(table[i].row.tenant)}}

\* The foreign rows, table by table.
LEMMA OthersAre ==
    ASSUME NEW d
    PROVE  OfOthers(d) = [rows  |-> ForeignIn(d.rows), tombs |-> ForeignTombs(d.tombs),
                          holds |-> ForeignIn(d.holds), dsrs |-> ForeignIn(d.dsrs), certs |-> ForeignIn(d.certs)]
BY Zenon DEF OfOthers, Rows, Where, Foreigner, ForeignIn, ForeignTombs

\* Adding or changing rows that are not foreign leaves the foreign ones alone.
LEMMA OwnRowAdded ==
    ASSUME NEW S, NEW table \in Seq(S), NEW x \in S
    PROVE  /\ ~Foreigner(x.tenant) => ForeignIn(Append(table, x)) = ForeignIn(table)
           /\ ~Foreigner(x.row.tenant) => ForeignTombs(Append(table, x)) = ForeignTombs(table)
<1> DEFINE new == Append(table, x)
<1>1. Len(table) \in Nat /\ DOMAIN table = 1..Len(table)
  OBVIOUS
<1>2. DOMAIN new = DOMAIN table \cup {Len(table) + 1} /\ new[Len(table) + 1] = x
  BY <1>1
<1>3. \A i \in DOMAIN table : new[i] = table[i]
  BY <1>1
<1> HIDE DEF new
<1>4. ASSUME ~Foreigner(x.tenant) PROVE ForeignIn(new) = ForeignIn(table)
  BY <1>2, <1>3, <1>4 DEF ForeignIn
<1>5. ASSUME ~Foreigner(x.row.tenant) PROVE ForeignTombs(new) = ForeignTombs(table)
  BY <1>2, <1>3, <1>5 DEF ForeignTombs
<1> QED BY <1>4, <1>5 DEF new

\* The same for rows that are changed.
LEMMA OwnRowsChanged ==
    ASSUME NEW table, NEW new, DOMAIN new = DOMAIN table
    PROVE  /\ (\A i \in DOMAIN table : \/ new[i] = table[i]
                                       \/ ~Foreigner(table[i].tenant) /\ ~Foreigner(new[i].tenant))
              => ForeignIn(new) = ForeignIn(table)
           /\ (\A i \in DOMAIN table : \/ new[i] = table[i]
                                       \/ ~Foreigner(table[i].row.tenant) /\ ~Foreigner(new[i].row.tenant))
              => ForeignTombs(new) = ForeignTombs(table)
BY DEF ForeignIn, ForeignTombs

\* Capture adds a tombstone of the row, neither restored nor purged.
LEMMA CaptureEffect ==
    ASSUME NEW d \in Databases, NEW row \in LiveRows, NEW e \in {Mem!Capture(d, row), Pg!Capture(d, row)}
    PROVE  LET tomb == [id |-> NextID(d.tombs), row |-> row, restored |-> FALSE, purged |-> FALSE]
           IN  /\ e = [err |-> "ok", db |-> [d EXCEPT !.tombs = Append(d.tombs, tomb)]]
               /\ tomb \in Tombstones
               /\ e.db \in Databases
<1> DEFINE tomb == [id |-> NextID(d.tombs), row |-> row, restored |-> FALSE, purged |-> FALSE]
<1>1. d.tombs \in Seq(Tombstones)
  BY DEF Databases
<1>2. tomb \in Tombstones
  BY <1>1, NextIDType DEF Tombstones
<1>3. Pg!NextID(d.tombs) = NextID(d.tombs) /\ Mem!NextID(d.tombs) = NextID(d.tombs)
  BY SameCount DEF Pg!NextID, Mem!NextID, NextID
<1>4. e = [err |-> "ok", db |-> [d EXCEPT !.tombs = Append(d.tombs, tomb)]]
  BY <1>3 DEF Mem!Capture, Pg!Capture, Mem!Ok, Pg!Ok
<1> HIDE DEF tomb
<1>5. Append(d.tombs, tomb) \in Seq(Tombstones)
  BY <1>1, <1>2
<1>6. e.db \in Databases
  BY <1>4, <1>5 DEF Databases
<1> QED BY <1>2, <1>4, <1>6 DEF tomb

(***************************************************************************)
(* The invariant                                                           *)
(***************************************************************************)
\* Where a request may stand.
RequestStates ==
    {Idle}
    \cup [at : {"capture", "remove"}, p : People, row : LiveRows, held : Nat]
    \cup [at : {"recreate", "mark"}, p : People, tomb : Tombstones]
    \cup [at : {"decide"}, p : People, on : CertRows, seen : Nat, status : CertStatuses]

GovTypeOK ==
    /\ backend \in Backends
    /\ db \in Databases
    /\ req \in [Requests -> RequestStates]
    /\ started \in Nat /\ faults \in Nat
    /\ made \subseteq Kinds \X Nat /\ IsFiniteSet(made)
    /\ hollow \subseteq Kinds \X Nat
    /\ raced \subseteq Nat

Deleting(r) == req[r].at \in {"capture", "remove"}
Restoring(r) == req[r].at \in {"recreate", "mark"}

\* Tombstones and certifications are numbered by their position.
Numbered ==
    /\ \A i \in DOMAIN db.tombs : db.tombs[i].id = i
    /\ \A i \in DOMAIN db.certs : db.certs[i].id = i

\* Pipelines and checks are those there were at the start.
FromSeed(row) == row.kind # "policy" => row \in Recorded(Seed)
Original == \A row \in Recorded(db) : FromSeed(row)

\* A request deletes, and restores, rows of its own tenant; what it restores
\* is in the tombstone it has read.
DeletesOwn(r) == Deleting(r) => req[r].row.tenant = req[r].p.tenant /\ FromSeed(req[r].row)
RestoresOwn(r) ==
    Restoring(r) => LET tomb == req[r].tomb
                    IN  /\ tomb.row.tenant = req[r].p.tenant
                        /\ tomb.id \in DOMAIN db.tombs /\ db.tombs[tomb.id].row = tomb.row

\* No hold that was there when the handler looked covers the row.
Clear(r) ==
    Deleting(r) => /\ req[r].held <= Len(db.holds)
                   /\ \A h \in 1..req[r].held :
                         db.holds[h].tenant = req[r].row.tenant => ~Matches(db.holds[h], req[r].row.kind, req[r].row.id, {})

\* The row that is decided on was the latest of its asset.
DecidesLatest(r) ==
    At(r, "decide") =>
        LET c == req[r].on
        IN  /\ c.tenant = req[r].p.tenant
            /\ c.id \in 1..req[r].seen /\ req[r].seen <= Len(db.certs) /\ db.certs[c.id] = c
            /\ \A i \in 1..req[r].seen : db.certs[i].tenant = c.tenant /\ db.certs[i].asset = c.asset => i <= c.id
            /\ \/ req[r].status \in {"certified", "rejected"} /\ c.status = "proposed"
               \/ req[r].status = "revoked" /\ c.status = "certified"

\* Rows by their key: in the tables, in tombstones not restored, and the
\* requests about to take a row away or to say that it was restored.
LiveAt(k) == {i \in DOMAIN db.rows : KeyOf(db.rows[i]) = k}
Binned(k) == {i \in DOMAIN db.tombs : KeyOf(db.tombs[i].row) = k /\ ~db.tombs[i].restored}
Claims(k) == {r \in Requests : \/ At(r, "remove") /\ KeyOf(req[r].row) = k
                               \/ At(r, "mark") /\ KeyOf(req[r].tomb.row) = k}

Known ==
    /\ \A row \in Recorded(db) : KeyOf(row) \in made
    /\ \A r \in Requests : /\ Deleting(r) => KeyOf(req[r].row) \in made
                           /\ Restoring(r) => KeyOf(req[r].tomb.row) \in made

\* Only rules in memory may share a key.
KeysHold ==
    \A i, j \in DOMAIN db.rows :
        KeyOf(db.rows[i]) = KeyOf(db.rows[j]) /\ (backend = "postgres" \/ db.rows[i].kind # "policy") => i = j

Covered == \A k \in made \ hollow : Cardinality(Claims(k)) < Cardinality(LiveAt(k)) + Cardinality(Binned(k))
Honest == backend = "postgres" => \A k \in hollow : k[1] = "policy"

GovInv ==
    /\ GovTypeOK /\ Numbered /\ Original
    /\ \A r \in Requests : DeletesOwn(r) /\ RestoresOwn(r) /\ Clear(r) /\ DecidesLatest(r)
    /\ DecisionsFollow
    /\ OfOthers(db) = OfOthers(Seed)
    /\ Known /\ KeysHold /\ Covered /\ Honest

\* No row goes.
RowsStay == \A i \in DOMAIN db.rows : \E n \in DOMAIN db'.rows : db'.rows[n] = db.rows[i]

(***************************************************************************)
(* What the calls of the handlers do                                       *)
(***************************************************************************)
\* There are two sets of stores.
LEMMA TwoBackends ==
    ASSUME GovTypeOK
    PROVE  backend \in {"memory", "postgres"}
BY GovernanceAssumption DEF GovTypeOK

\* The delete handlers' last call takes rows with the key and of the tenant;
\* a rule in memory that shares its id goes alone.
LEMMA DeleteEffect ==
    ASSUME GovTypeOK, NEW kind \in Kinds, NEW t \in Tenants, NEW id, NEW e, e = Delete(kind, t, id)
    PROVE  /\ e.db \in Databases /\ e.db = [db EXCEPT !.rows = e.db.rows]
           /\ \E gone \in SUBSET Hits(db.rows, kind, t, id) :
                 /\ Shrinks(db.rows, DOMAIN db.rows \ gone, e.db.rows)
                 /\ backend = "postgres" \/ kind # "policy" \/ \E i : gone \subseteq {i}
<1> DEFINE hits == Hits(db.rows, kind, t, id)
<1>1. db \in Databases /\ db.rows \in Seq(LiveRows)
  BY DEF GovTypeOK, Databases
<1>2. CASE e \in {Mem!Drop(db, kind, t, id), Pg!Drop(db, kind, t, id)} /\ (backend = "postgres" \/ kind # "policy")
  <2>1. /\ e.db \in Databases /\ e.db = [db EXCEPT !.rows = e.db.rows]
        /\ Shrinks(db.rows, DOMAIN db.rows \ hits, e.db.rows)
    <3>1. \A x : x = Pg!Drop(db, kind, t, id) =>
              /\ Mem!Drop(db, kind, t, id) = x
              /\ x.db \in Databases /\ x.db = [db EXCEPT !.rows = x.db.rows]
              /\ Shrinks(db.rows, DOMAIN db.rows \ hits, x.db.rows)
      BY <1>1, DropEffect
    <3> QED BY <1>2, <3>1
  <2> QED BY <1>2, <2>1
<1>3. CASE backend = "memory" /\ kind = "policy"
  <2> DEFINE hits2 == {i \in DOMAIN db.rows : db.rows[i].kind = "policy" /\ db.rows[i].id = id /\ db.rows[i].tenant \in {Blank, t}}
             first == CHOOSE i \in hits2 : \A j \in hits2 : i <= j
  <2>1. e = IF hits2 = {} THEN [err |-> "not_found", db |-> db]
            ELSE [err |-> "ok", db |-> [db EXCEPT !.rows = Mem!RemoveAt(db.rows, first)]]
    <3>1. e = Mem!DeleteRule(db, t, id)
      BY <1>3 DEF Delete, Store
    <3> QED BY <3>1, Zenon DEF Mem!DeleteRule, Mem!Where, Mem!Ok, Mem!Fails, Mem!Blank, Blank
  <2>2. \A i \in DOMAIN db.rows : db.rows[i] \in LiveRows
    BY <1>1
  <2>3. hits2 = hits
    BY <1>3, <2>2 DEF LiveRows, Tenants, Hits
  <2>4. CASE hits2 = {}
    <3>1. e.db = db
      BY <2>1, <2>4
    <3>2. db = [db EXCEPT !.rows = db.rows]
      BY <1>1 DEF Databases
    <3>3. DOMAIN db.rows \ {} = DOMAIN db.rows
      OBVIOUS
    <3>4. Shrinks(db.rows, DOMAIN db.rows \ {}, db.rows)
      BY <1>1, <3>3, NothingShrinks
    <3>5. {} \in SUBSET hits /\ {} \subseteq {0}
      OBVIOUS
    <3> QED BY <1>1, <3>1, <3>2, <3>4, <3>5
  <2>5. CASE hits2 # {}
    <3>1. hits2 \subseteq Nat
      <4>1. DOMAIN db.rows \subseteq Nat
        BY <1>1
      <4> QED BY <4>1
    <3>2. \E i \in hits2 : \A j \in hits2 : i <= j
      BY <2>5, <3>1, LeastNatural
    <3>3. first \in hits2
      BY <3>2, Zenon
    <3> HIDE DEF first
    <3>4. first \in DOMAIN db.rows /\ {first} \subseteq hits
      BY <2>3, <3>3
    <3>5. /\ Mem!RemoveAt(db.rows, first) \in Seq(LiveRows)
          /\ Shrinks(db.rows, DOMAIN db.rows \ {first}, Mem!RemoveAt(db.rows, first))
      BY <1>1, <3>4, RemoveAtEffect
    <3>6. e.db = [db EXCEPT !.rows = Mem!RemoveAt(db.rows, first)]
      BY <2>1, <2>5
    <3>7. e.db \in Databases /\ e.db.rows = Mem!RemoveAt(db.rows, first) /\ e.db = [db EXCEPT !.rows = e.db.rows]
      BY <1>1, <3>5, <3>6 DEF Databases
    <3>8. {first} \in SUBSET hits /\ \E i : {first} \subseteq {i}
      BY <3>4
    <3> HIDE DEF hits
    <3> QED BY <3>5, <3>7, <3>8 DEF hits
  <2> QED BY <2>4, <2>5
<1>4. \/ e \in {Mem!Drop(db, kind, t, id), Pg!Drop(db, kind, t, id)} /\ (backend = "postgres" \/ kind # "policy")
      \/ backend = "memory" /\ kind = "policy"
  BY TwoBackends DEF Kinds, Delete, Store, Mem!DeletePipeline, Mem!DeleteCheck, Pg!DeletePipeline, Pg!DeleteCheck, Pg!DeleteRule
<1> QED BY <1>2, <1>3, <1>4

\* The row is appended, or was there.
RowPut(row, e) ==
    /\ e.db \in Databases
    /\ \/ /\ e.db = db
          /\ \E i \in DOMAIN db.rows : KeyOf(db.rows[i]) = KeyOf(row)
          /\ e.err = "ok" /\ backend = "postgres" => row.kind = "policy"
       \/ /\ e.err = "ok"
          /\ e.db = [db EXCEPT !.rows = Append(db.rows, row)]
          /\ backend = "postgres" \/ row.kind # "policy" => \A i \in DOMAIN db.rows : KeyOf(db.rows[i]) # KeyOf(row)

\* PolicyStore and MemoryRuleStore add a rule.
LEMMA AddRuleEffect ==
    ASSUME GovTypeOK, NEW row \in LiveRows, row.kind = "policy"
    PROVE  RowPut(row, AddRule(row))
<1>1. db \in Databases /\ db.rows \in Seq(LiveRows) /\ Append(db.rows, row) \in Seq(LiveRows)
  BY DEF GovTypeOK, Databases
<1>2. [db EXCEPT !.rows = Append(db.rows, row)] \in Databases
  BY <1>1 DEF Databases
<1>3. CASE backend = "memory"
  <2>1. AddRule(row) = [err |-> "ok", db |-> [db EXCEPT !.rows = Append(db.rows, row)]]
    BY <1>3 DEF AddRule, Store, Mem!AddRule, Mem!Ok
  <2> QED BY <1>2, <1>3, <2>1 DEF RowPut
<1>4. CASE backend = "postgres"
  <2> DEFINE same == {i \in DOMAIN db.rows : db.rows[i].kind = row.kind /\ db.rows[i].id = row.id}
  <2>1. AddRule(row) = [err |-> "ok",
                        db  |-> (IF same = {} THEN [err |-> "ok", db |-> [db EXCEPT !.rows = Append(@, row)]]
                                 ELSE [err |-> "duplicate", db |-> db]).db]
    <3>1. AddRule(row) = Pg!AddRule(db, row)
      BY <1>4 DEF AddRule, Store
    <3> QED BY <3>1, Zenon DEF Pg!AddRule, Pg!Insert, Pg!Where, Pg!Ok, Pg!Fails
  <2>2. CASE same = {}
    <3>1. AddRule(row) = [err |-> "ok", db |-> [db EXCEPT !.rows = Append(db.rows, row)]]
      BY <2>1, <2>2
    <3>2. \A i \in DOMAIN db.rows : KeyOf(db.rows[i]) # KeyOf(row)
      BY <2>2 DEF KeyOf
    <3> QED BY <1>2, <3>1, <3>2 DEF RowPut
  <2>3. CASE same # {}
    <3>1. AddRule(row) = [err |-> "ok", db |-> db]
      BY <2>1, <2>3
    <3>2. \E i \in DOMAIN db.rows : KeyOf(db.rows[i]) = KeyOf(row)
      BY <2>3 DEF KeyOf
    <3> QED BY <1>1, <3>1, <3>2 DEF RowPut
  <2> QED BY <2>2, <2>3
<1> QED BY <1>3, <1>4, TwoBackends

\* The restorers put a row back: in memory over the one with its id, which is
\* the same row.
LEMMA RestorerEffect ==
    ASSUME GovTypeOK, Original, NEW row \in LiveRows, FromSeed(row)
    PROVE  RowPut(row, Restorer(row))
<1>1. db \in Databases /\ db.rows \in Seq(LiveRows) /\ Append(db.rows, row) \in Seq(LiveRows)
  BY DEF GovTypeOK, Databases
<1>2. [db EXCEPT !.rows = Append(db.rows, row)] \in Databases
  BY <1>1 DEF Databases
<1>3. CASE row.kind = "policy"
  BY <1>3, AddRuleEffect DEF Restorer, PolicyRestorer
<1> DEFINE same == {i \in DOMAIN db.rows : db.rows[i].kind = row.kind /\ db.rows[i].id = row.id}
<1>4. CASE row.kind # "policy" /\ backend = "memory"
  <2>1. Restorer(row) = [err |-> "ok", db |-> [db EXCEPT !.rows =
            IF same = {} THEN Append(@, row)
            ELSE [i \in DOMAIN @ |-> IF @[i].kind = row.kind /\ @[i].id = row.id THEN row ELSE @[i]]]]
    <3>1. row.kind \in {"pipeline", "check"}
      BY <1>4 DEF LiveRows, Kinds
    <3>2. Restorer(row) = Mem!Put(db, row)
      BY <1>4, <3>1 DEF Restorer, PipelineRestorer, CheckRestorer, Store, Mem!CreatePipeline, Mem!CreateCheck
    <3> QED BY <3>2, Zenon DEF Mem!Put, Mem!Where, Mem!Set, Mem!Ok
  <2>2. CASE same = {}
    <3>1. Restorer(row) = [err |-> "ok", db |-> [db EXCEPT !.rows = Append(db.rows, row)]]
      BY <2>1, <2>2
    <3>2. \A i \in DOMAIN db.rows : KeyOf(db.rows[i]) # KeyOf(row)
      BY <2>2 DEF KeyOf
    <3> QED BY <1>2, <3>1, <3>2 DEF RowPut
  <2>3. CASE same # {}
    <3>1. \A i \in same : db.rows[i] = row
      <4>1. \A i \in DOMAIN db.rows : db.rows[i] \in Recorded(db)
        BY DEF Recorded
      <4>2. row \in Recorded(Seed)
        BY <1>4 DEF FromSeed
      <4> QED BY <1>4, <4>1, <4>2, SeedAssumption DEF Original, FromSeed, KeyOf
    <3>2. [i \in DOMAIN db.rows |-> IF db.rows[i].kind = row.kind /\ db.rows[i].id = row.id THEN row ELSE db.rows[i]] = db.rows
      BY <1>1, <3>1
    <3>3. Restorer(row) = [err |-> "ok", db |-> [db EXCEPT !.rows = db.rows]]
      BY <2>1, <2>3, <3>2
    <3>4. [db EXCEPT !.rows = db.rows] = db
      BY <1>1 DEF Databases
    <3>5. \E i \in DOMAIN db.rows : KeyOf(db.rows[i]) = KeyOf(row)
      BY <2>3 DEF KeyOf
    <3> QED BY <1>1, <1>4, <3>3, <3>4, <3>5 DEF RowPut
  <2> QED BY <2>2, <2>3
<1>5. CASE row.kind # "policy" /\ backend = "postgres"
  <2>1. Restorer(row) = IF same = {} THEN [err |-> "ok", db |-> [db EXCEPT !.rows = Append(@, row)]]
                        ELSE [err |-> "duplicate", db |-> db]
    <3>1. row.kind \in {"pipeline", "check"}
      BY <1>5 DEF LiveRows, Kinds
    <3>2. Restorer(row) = Pg!Insert(db, row)
      BY <1>5, <3>1 DEF Restorer, PipelineRestorer, CheckRestorer, Store, Pg!CreatePipeline, Pg!CreateCheck
    <3> QED BY <3>2, Zenon DEF Pg!Insert, Pg!Where, Pg!Ok, Pg!Fails
  <2>2. CASE same = {}
    <3>1. Restorer(row) = [err |-> "ok", db |-> [db EXCEPT !.rows = Append(db.rows, row)]]
      BY <2>1, <2>2
    <3>2. \A i \in DOMAIN db.rows : KeyOf(db.rows[i]) # KeyOf(row)
      BY <2>2 DEF KeyOf
    <3> QED BY <1>2, <3>1, <3>2 DEF RowPut
  <2>3. CASE same # {}
    <3>1. Restorer(row) = [err |-> "duplicate", db |-> db]
      BY <2>1, <2>3
    <3>2. \E i \in DOMAIN db.rows : KeyOf(db.rows[i]) = KeyOf(row)
      BY <2>3 DEF KeyOf
    <3> QED BY <1>1, <3>1, <3>2 DEF RowPut
  <2> QED BY <2>2, <2>3
<1> QED BY <1>3, <1>4, <1>5, TwoBackends

\* UPDATE keeps a table a table.
LEMMA UpdatedTable ==
    ASSUME NEW S, NEW table \in Seq(S), NEW new, DOMAIN new = DOMAIN table, new = [i \in DOMAIN new |-> new[i]],
           \A i \in DOMAIN table : new[i] \in S
    PROVE  new \in Seq(S) /\ Len(new) = Len(table)
<1>1. Len(table) \in Nat /\ DOMAIN new = 1..Len(table)
  OBVIOUS
<1> QED BY <1>1

\* A tombstone and a hold with a flag set.
Restored(tomb) == [tomb EXCEPT !.restored = TRUE]
Purged(tomb) == [tomb EXCEPT !.purged = TRUE]
Released(hold) == [hold EXCEPT !.released = TRUE]

\* MarkRestored sets a flag of the tenant's tombstone.
LEMMA MarkRestoredEffect ==
    ASSUME GovTypeOK, NEW t, NEW id, NEW e, e = MarkRestored(t, id)
    PROVE  /\ e.db \in Databases /\ e.db = [db EXCEPT !.tombs = e.db.tombs] /\ DOMAIN e.db.tombs = DOMAIN db.tombs
           /\ \A i \in DOMAIN db.tombs :
                 \/ e.db.tombs[i] = db.tombs[i]
                 \/ /\ db.tombs[i].row.tenant = t /\ db.tombs[i].id = id
                    /\ e.db.tombs[i] = Restored(db.tombs[i])
<1>1. db \in Databases /\ db.tombs \in Seq(Tombstones)
  BY DEF GovTypeOK, Databases
<1> DEFINE PMem(r) == r.id = id /\ r.row.tenant = t
           PPg(r) == r.row.tenant = t /\ r.id = id /\ ~r.purged
           NewMem == [i \in DOMAIN db.tombs |-> IF PMem(db.tombs[i]) THEN Restored(db.tombs[i]) ELSE db.tombs[i]]
           NewPg == [i \in DOMAIN db.tombs |-> IF PPg(db.tombs[i]) THEN Restored(db.tombs[i]) ELSE db.tombs[i]]
<1>2. \/ e.db = db
      \/ e.db = [db EXCEPT !.tombs = NewMem]
      \/ e.db = [db EXCEPT !.tombs = NewPg]
  <2>1. CASE backend = "memory"
    <3>1. e = Mem!MarkRestored(db, t, id)
      BY <2>1 DEF MarkRestored, Store
    <3>2. e \in {[err |-> "ok", db |-> [db EXCEPT !.tombs = NewMem]], [err |-> "not_found", db |-> db]}
      BY <3>1 DEF Mem!MarkRestored, Mem!Set, Mem!Ok, Mem!Fails, Restored
    <3> HIDE DEF NewMem, NewPg
    <3> QED BY <3>2
  <2>2. CASE backend = "postgres"
    <3>1. e = Pg!MarkRestored(db, t, id)
      BY <2>2 DEF MarkRestored, Store
    <3>2. e \in {[err |-> "ok", db |-> [db EXCEPT !.tombs = NewPg]], [err |-> "not_found", db |-> db]}
      BY <3>1 DEF Pg!MarkRestored, Pg!Set, Pg!Affected, Pg!Ok, Pg!Fails, Restored
    <3> HIDE DEF NewMem, NewPg
    <3> QED BY <3>2
  <2> QED BY <2>1, <2>2, TwoBackends
<1>3. \A tomb \in Tombstones : Restored(tomb) \in Tombstones
  BY DEF Tombstones, Restored, Purged
<1>4. CASE e.db = db
  <2>1. db = [db EXCEPT !.tombs = db.tombs]
    BY <1>1 DEF Databases
  <2> QED BY <1>1, <1>4, <2>1
<1>5. CASE e.db = [db EXCEPT !.tombs = NewMem]
  <2>1. NewMem \in Seq(Tombstones) /\ DOMAIN NewMem = DOMAIN db.tombs
    BY <1>1, <1>3, UpdatedTable
  <2>2. ASSUME NEW i \in DOMAIN db.tombs
        PROVE  NewMem[i] = db.tombs[i] \/ (PMem(db.tombs[i]) /\ NewMem[i] = Restored(db.tombs[i]))
    <3>1. NewMem[i] = IF PMem(db.tombs[i]) THEN Restored(db.tombs[i]) ELSE db.tombs[i]
      OBVIOUS
    <3> HIDE DEF NewMem, PMem
    <3> QED BY <3>1
  <2> HIDE DEF NewMem
  <2>3. e.db \in Databases /\ e.db.tombs = NewMem /\ e.db = [db EXCEPT !.tombs = e.db.tombs]
    BY <1>1, <1>5, <2>1 DEF Databases
  <2> QED BY <2>1, <2>2, <2>3
<1>6. CASE e.db = [db EXCEPT !.tombs = NewPg]
  <2>1. NewPg \in Seq(Tombstones) /\ DOMAIN NewPg = DOMAIN db.tombs
    BY <1>1, <1>3, UpdatedTable
  <2>2. ASSUME NEW i \in DOMAIN db.tombs
        PROVE  NewPg[i] = db.tombs[i] \/ (PPg(db.tombs[i]) /\ NewPg[i] = Restored(db.tombs[i]))
    <3>1. NewPg[i] = IF PPg(db.tombs[i]) THEN Restored(db.tombs[i]) ELSE db.tombs[i]
      OBVIOUS
    <3> HIDE DEF NewPg, PPg
    <3> QED BY <3>1
  <2> HIDE DEF NewPg
  <2>3. e.db \in Databases /\ e.db.tombs = NewPg /\ e.db = [db EXCEPT !.tombs = e.db.tombs]
    BY <1>1, <1>6, <2>1 DEF Databases
  <2> QED BY <2>1, <2>2, <2>3
<1> QED BY <1>2, <1>4, <1>5, <1>6

\* MarkPurged sets the other one.
LEMMA MarkPurgedEffect ==
    ASSUME GovTypeOK, NEW t, NEW id, NEW e, e = MarkPurged(t, id)
    PROVE  /\ e.db \in Databases /\ e.db = [db EXCEPT !.tombs = e.db.tombs] /\ DOMAIN e.db.tombs = DOMAIN db.tombs
           /\ \A i \in DOMAIN db.tombs :
                 \/ e.db.tombs[i] = db.tombs[i]
                 \/ db.tombs[i].row.tenant = t /\ e.db.tombs[i] = Purged(db.tombs[i])
<1>1. db \in Databases /\ db.tombs \in Seq(Tombstones)
  BY DEF GovTypeOK, Databases
<1> DEFINE P(r) == r.id = id /\ r.row.tenant = t
           new == [i \in DOMAIN db.tombs |-> IF P(db.tombs[i]) THEN Purged(db.tombs[i]) ELSE db.tombs[i]]
<1>2. e.db = db \/ e.db = [db EXCEPT !.tombs = new]
  <2>1. CASE backend = "memory"
    <3>1. e = Mem!MarkPurged(db, t, id)
      BY <2>1 DEF MarkPurged, Store
    <3>2. e \in {[err |-> "ok", db |-> [db EXCEPT !.tombs = new]], [err |-> "not_found", db |-> db]}
      BY <3>1 DEF Mem!MarkPurged, Mem!Set, Mem!Affected, Mem!Ok, Mem!Fails, Purged
    <3> HIDE DEF new
    <3> QED BY <3>2
  <2>2. CASE backend = "postgres"
    <3>1. e = Pg!MarkPurged(db, t, id)
      BY <2>2 DEF MarkPurged, Store
    <3>2. e \in {[err |-> "ok", db |-> [db EXCEPT !.tombs = new]], [err |-> "not_found", db |-> db]}
      BY <3>1 DEF Pg!MarkPurged, Pg!Set, Pg!Affected, Pg!Ok, Pg!Fails, Purged
    <3> HIDE DEF new
    <3> QED BY <3>2
  <2> QED BY <2>1, <2>2, TwoBackends
<1>3. \A tomb \in Tombstones : Purged(tomb) \in Tombstones
  BY DEF Tombstones, Restored, Purged
<1>4. CASE e.db = db
  <2>1. db = [db EXCEPT !.tombs = db.tombs]
    BY <1>1 DEF Databases
  <2> QED BY <1>1, <1>4, <2>1
<1>5. CASE e.db = [db EXCEPT !.tombs = new]
  <2>1. new \in Seq(Tombstones) /\ DOMAIN new = DOMAIN db.tombs
    BY <1>1, <1>3, UpdatedTable
  <2>2. ASSUME NEW i \in DOMAIN db.tombs
        PROVE  new[i] = db.tombs[i] \/ (P(db.tombs[i]) /\ new[i] = Purged(db.tombs[i]))
    <3>1. new[i] = IF P(db.tombs[i]) THEN Purged(db.tombs[i]) ELSE db.tombs[i]
      OBVIOUS
    <3> HIDE DEF new, P
    <3> QED BY <3>1
  <2> HIDE DEF new
  <2>3. e.db \in Databases /\ e.db.tombs = new /\ e.db = [db EXCEPT !.tombs = e.db.tombs]
    BY <1>1, <1>5, <2>1 DEF Databases
  <2> QED BY <2>1, <2>2, <2>3
<1> QED BY <1>2, <1>4, <1>5

\* Issue adds a hold.
LEMMA IssueEffect ==
    ASSUME GovTypeOK, NEW h \in HoldRows, NEW e, e = Issue(h)
    PROVE  /\ e.db \in Databases
           /\ \E hold \in HoldRows : hold.tenant = h.tenant /\ e.db = [db EXCEPT !.holds = Append(db.holds, hold)]
<1>1. db \in Databases /\ db.holds \in Seq(HoldRows)
  BY DEF GovTypeOK, Databases
<1>2. NextID(db.holds) \in Nat /\ Pg!NextID(db.holds) = NextID(db.holds) /\ Mem!NextID(db.holds) = NextID(db.holds)
  BY <1>1, NextIDType, SameCount DEF Pg!NextID, Mem!NextID, NextID
<1>3. \E hold \in HoldRows : hold.tenant = h.tenant /\ e.db = [db EXCEPT !.holds = Append(db.holds, hold)]
  <2>1. CASE backend = "memory"
    <3>1. e.db = [db EXCEPT !.holds = Append(db.holds, [h EXCEPT !.id = NextID(db.holds)])]
      BY <1>2, <2>1 DEF Issue, Store, Mem!Issue, Mem!Ok
    <3>2. [h EXCEPT !.id = NextID(db.holds)] \in HoldRows /\ [h EXCEPT !.id = NextID(db.holds)].tenant = h.tenant
      BY <1>2 DEF HoldRows
    <3> QED BY <3>1, <3>2
  <2>2. CASE backend = "postgres"
    <3>1. e.db = [db EXCEPT !.holds = Append(db.holds, [h EXCEPT !.id = NextID(db.holds), !.released = FALSE])]
      BY <1>2, <2>2 DEF Issue, Store, Pg!Issue, Pg!Ok
    <3>2. /\ [h EXCEPT !.id = NextID(db.holds), !.released = FALSE] \in HoldRows
          /\ [h EXCEPT !.id = NextID(db.holds), !.released = FALSE].tenant = h.tenant
      BY <1>2 DEF HoldRows
    <3> QED BY <3>1, <3>2
  <2> QED BY <2>1, <2>2, TwoBackends
<1>4. \A hold \in HoldRows : Append(db.holds, hold) \in Seq(HoldRows)
  BY <1>1
<1>5. \A hold \in HoldRows : [db EXCEPT !.holds = Append(db.holds, hold)] \in Databases
  BY <1>1, <1>4 DEF Databases
<1> QED BY <1>3, <1>5

\* Release ends one of the tenant's.
LEMMA ReleaseEffect ==
    ASSUME GovTypeOK, NEW t, NEW id, NEW e, e = Release(t, id)
    PROVE  /\ e.db \in Databases /\ e.db = [db EXCEPT !.holds = e.db.holds]
           /\ DOMAIN e.db.holds = DOMAIN db.holds /\ Len(e.db.holds) = Len(db.holds)
           /\ \A i \in DOMAIN db.holds :
                 \/ e.db.holds[i] = db.holds[i]
                 \/ db.holds[i].tenant = t /\ e.db.holds[i] = Released(db.holds[i])
<1>1. db \in Databases /\ db.holds \in Seq(HoldRows)
  BY DEF GovTypeOK, Databases
<1> DEFINE P(h) == h.tenant = t /\ h.id = id /\ ~h.released
           new == [i \in DOMAIN db.holds |-> IF P(db.holds[i]) THEN Released(db.holds[i]) ELSE db.holds[i]]
<1>2. e.db = db \/ e.db = [db EXCEPT !.holds = new]
  <2>1. CASE backend = "memory"
    <3>1. e = Mem!Release(db, t, id)
      BY <2>1 DEF Release, Store
    <3>2. e \in {[err |-> "ok", db |-> [db EXCEPT !.holds = new]], [err |-> "not_found", db |-> db]}
      BY <3>1 DEF Mem!Release, Mem!Set, Mem!Affected, Mem!Ok, Mem!Fails, Released
    <3> HIDE DEF new
    <3> QED BY <3>2
  <2>2. CASE backend = "postgres"
    <3>1. e = Pg!Release(db, t, id)
      BY <2>2 DEF Release, Store
    <3>2. e \in {[err |-> "ok", db |-> [db EXCEPT !.holds = new]], [err |-> "not_found", db |-> db]}
      BY <3>1 DEF Pg!Release, Pg!Set, Pg!Affected, Pg!Ok, Pg!Fails, Released
    <3> HIDE DEF new
    <3> QED BY <3>2
  <2> QED BY <2>1, <2>2, TwoBackends
<1>3. \A hold \in HoldRows : Released(hold) \in HoldRows
  BY DEF HoldRows, Released
<1>4. CASE e.db = db
  <2>1. db = [db EXCEPT !.holds = db.holds]
    BY <1>1 DEF Databases
  <2> QED BY <1>1, <1>4, <2>1
<1>5. CASE e.db = [db EXCEPT !.holds = new]
  <2>1. new \in Seq(HoldRows) /\ DOMAIN new = DOMAIN db.holds /\ Len(new) = Len(db.holds)
    BY <1>1, <1>3, UpdatedTable
  <2>2. ASSUME NEW i \in DOMAIN db.holds
        PROVE  new[i] = db.holds[i] \/ (P(db.holds[i]) /\ new[i] = Released(db.holds[i]))
    <3>1. new[i] = IF P(db.holds[i]) THEN Released(db.holds[i]) ELSE db.holds[i]
      OBVIOUS
    <3> HIDE DEF new, P
    <3> QED BY <3>1
  <2> HIDE DEF new
  <2>3. e.db \in Databases /\ e.db.holds = new /\ e.db = [db EXCEPT !.holds = e.db.holds]
    BY <1>1, <1>5, <2>1 DEF Databases
  <2> QED BY <2>1, <2>2, <2>3
<1> QED BY <1>2, <1>4, <1>5

\* CreateRequest adds a data subject request.
LEMMA CreateRequestEffect ==
    ASSUME GovTypeOK, NEW t \in Tenants, NEW e, e = CreateRequest(t)
    PROVE  /\ e.db \in Databases
           /\ \E dsr \in DSRRows : dsr.tenant = t /\ e.db = [db EXCEPT !.dsrs = Append(db.dsrs, dsr)]
<1> DEFINE dsr == [id |-> NextID(db.dsrs), tenant |-> t, status |-> "received", completed |-> 0]
<1>1. db \in Databases /\ db.dsrs \in Seq(DSRRows)
  BY DEF GovTypeOK, Databases
<1>2. NextID(db.dsrs) \in Nat /\ Pg!NextID(db.dsrs) = NextID(db.dsrs) /\ Mem!NextID(db.dsrs) = NextID(db.dsrs)
  BY <1>1, NextIDType, SameCount DEF Pg!NextID, Mem!NextID, NextID
<1>3. e.db = [db EXCEPT !.dsrs = Append(db.dsrs, dsr)]
  BY <1>2, TwoBackends DEF CreateRequest, Store, Mem!CreateRequest, Pg!CreateRequest, Mem!Ok, Pg!Ok
<1>4. dsr \in DSRRows /\ dsr.tenant = t
  BY <1>2 DEF DSRRows, DSRStatuses, Tenants
<1> HIDE DEF dsr
<1>5. Append(db.dsrs, dsr) \in Seq(DSRRows)
  BY <1>1, <1>4
<1>6. e.db \in Databases
  BY <1>1, <1>3, <1>5 DEF Databases
<1> QED BY <1>3, <1>4, <1>6

\* A data subject request with another status.
WithStatus(dsr, status, completed) == [dsr EXCEPT !.status = status, !.completed = completed]

\* What UpdateStatus answers at a time.
IsStatusUpdate(e, t, id, status, now) ==
    e \in {Mem!UpdateStatus(db, t, id, status, now), Pg!UpdateStatus(db, t, id, status, now)}

\* UpdateStatus changes one of the tenant's.
LEMMA UpdateStatusEffect ==
    ASSUME GovTypeOK, NEW now \in Nat, NEW t, NEW id, NEW status \in DSRStatuses,
           NEW e, IsStatusUpdate(e, t, id, status, now)
    PROVE  /\ e.db \in Databases /\ e.db = [db EXCEPT !.dsrs = e.db.dsrs] /\ DOMAIN e.db.dsrs = DOMAIN db.dsrs
           /\ \A i \in DOMAIN db.dsrs : \/ e.db.dsrs[i] = db.dsrs[i]
                                        \/ db.dsrs[i].tenant = t /\ e.db.dsrs[i].tenant = t
<1>1. db \in Databases /\ db.dsrs \in Seq(DSRRows)
  BY DEF GovTypeOK, Databases
<1> DEFINE P(d) == d.tenant = t /\ d.id = id
           ByMem(d) == WithStatus(d, status, IF status = "completed" /\ d.completed = 0 THEN now ELSE d.completed)
           ByPg(d) == WithStatus(d, status, IF status = "completed" THEN now ELSE d.completed)
           NewMem == [i \in DOMAIN db.dsrs |-> IF P(db.dsrs[i]) THEN ByMem(db.dsrs[i]) ELSE db.dsrs[i]]
           NewPg == [i \in DOMAIN db.dsrs |-> IF P(db.dsrs[i]) THEN ByPg(db.dsrs[i]) ELSE db.dsrs[i]]
<1>2. \/ e.db = db
      \/ e.db = [db EXCEPT !.dsrs = NewMem]
      \/ e.db = [db EXCEPT !.dsrs = NewPg]
  <2>1. CASE e = Mem!UpdateStatus(db, t, id, status, now)
    <3>1. e \in {[err |-> "ok", db |-> [db EXCEPT !.dsrs = NewMem]], [err |-> "not_found", db |-> db]}
      BY <2>1 DEF Mem!UpdateStatus, Mem!Set, Mem!Affected, Mem!Ok, Mem!Fails, WithStatus
    <3> HIDE DEF NewMem
    <3> QED BY <3>1
  <2>2. CASE e = Pg!UpdateStatus(db, t, id, status, now)
    <3>1. e \in {[err |-> "ok", db |-> [db EXCEPT !.dsrs = NewPg]], [err |-> "not_found", db |-> db]}
      BY <2>2 DEF Pg!UpdateStatus, Pg!Set, Pg!Affected, Pg!Ok, Pg!Fails, WithStatus
    <3> HIDE DEF NewPg
    <3> QED BY <3>1
  <2> QED BY <2>1, <2>2 DEF IsStatusUpdate
<1>3. \A d \in DSRRows, n \in Nat : WithStatus(d, status, n) \in DSRRows /\ WithStatus(d, status, n).tenant = d.tenant
  BY DEF DSRRows, WithStatus
<1>4. \A d \in DSRRows : d.completed \in Nat
  BY DEF DSRRows
<1>5. \A d \in DSRRows : /\ ByMem(d) \in DSRRows /\ ByMem(d).tenant = d.tenant
                         /\ ByPg(d) \in DSRRows /\ ByPg(d).tenant = d.tenant
  BY <1>3, <1>4
<1>6. CASE e.db = db
  <2>1. db = [db EXCEPT !.dsrs = db.dsrs]
    BY <1>1 DEF Databases
  <2> QED BY <1>1, <1>6, <2>1
<1>7. CASE e.db = [db EXCEPT !.dsrs = NewMem]
  <2> HIDE DEF ByMem
  <2>1. NewMem \in Seq(DSRRows) /\ DOMAIN NewMem = DOMAIN db.dsrs
    <3>1. \A i \in DOMAIN db.dsrs : NewMem[i] \in DSRRows
      BY <1>1, <1>5
    <3>2. DOMAIN NewMem = DOMAIN db.dsrs /\ NewMem = [i \in DOMAIN NewMem |-> NewMem[i]]
      OBVIOUS
    <3> HIDE DEF NewMem
    <3> QED BY <1>1, <3>1, <3>2, UpdatedTable
  <2>2. ASSUME NEW i \in DOMAIN db.dsrs
        PROVE  NewMem[i] = db.dsrs[i] \/ (db.dsrs[i].tenant = t /\ NewMem[i].tenant = t)
    <3>1. db.dsrs[i] \in DSRRows
      BY <1>1
    <3>2. NewMem[i] = IF P(db.dsrs[i]) THEN ByMem(db.dsrs[i]) ELSE db.dsrs[i]
      OBVIOUS
    <3> HIDE DEF NewMem
    <3> QED BY <1>5, <3>1, <3>2
  <2> HIDE DEF NewMem
  <2>3. e.db \in Databases /\ e.db.dsrs = NewMem /\ e.db = [db EXCEPT !.dsrs = e.db.dsrs]
    BY <1>1, <1>7, <2>1 DEF Databases
  <2> QED BY <2>1, <2>2, <2>3
<1>8. CASE e.db = [db EXCEPT !.dsrs = NewPg]
  <2> HIDE DEF ByPg
  <2>1. NewPg \in Seq(DSRRows) /\ DOMAIN NewPg = DOMAIN db.dsrs
    <3>1. \A i \in DOMAIN db.dsrs : NewPg[i] \in DSRRows
      BY <1>1, <1>5
    <3>2. DOMAIN NewPg = DOMAIN db.dsrs /\ NewPg = [i \in DOMAIN NewPg |-> NewPg[i]]
      OBVIOUS
    <3> HIDE DEF NewPg
    <3> QED BY <1>1, <3>1, <3>2, UpdatedTable
  <2>2. ASSUME NEW i \in DOMAIN db.dsrs
        PROVE  NewPg[i] = db.dsrs[i] \/ (db.dsrs[i].tenant = t /\ NewPg[i].tenant = t)
    <3>1. db.dsrs[i] \in DSRRows
      BY <1>1
    <3>2. NewPg[i] = IF P(db.dsrs[i]) THEN ByPg(db.dsrs[i]) ELSE db.dsrs[i]
      OBVIOUS
    <3> HIDE DEF NewPg
    <3> QED BY <1>5, <3>1, <3>2
  <2> HIDE DEF NewPg
  <2>3. e.db \in Databases /\ e.db.dsrs = NewPg /\ e.db = [db EXCEPT !.dsrs = e.db.dsrs]
    BY <1>1, <1>8, <2>1 DEF Databases
  <2> QED BY <2>1, <2>2, <2>3
<1> QED BY <1>2, <1>6, <1>7, <1>8

\* CreateCertification adds a row, numbered by its position.
LEMMA CertificationEffect ==
    ASSUME GovTypeOK, Numbered, NEW t \in Tenants, NEW asset \in Nat, NEW status \in CertStatuses,
           NEW e, e = Pg!CreateCertification(db, t, asset, status)
    PROVE  LET cert == [id |-> Len(db.certs) + 1, tenant |-> t, asset |-> asset, status |-> status]
           IN  cert \in CertRows /\ e.db \in Databases /\ e.db = [db EXCEPT !.certs = Append(db.certs, cert)]
<1> DEFINE cert == [id |-> Len(db.certs) + 1, tenant |-> t, asset |-> asset, status |-> status]
<1>1. db \in Databases /\ db.certs \in Seq(CertRows) /\ Len(db.certs) \in Nat
  BY DEF GovTypeOK, Databases
<1>2. Pg!NextID(db.certs) = Len(db.certs) + 1
  <2>1. Pg!NextID(db.certs) = NextID(db.certs)
    BY SameCount DEF Pg!NextID, NextID
  <2> QED BY <1>1, <2>1, NextIDIsNext DEF Numbered
<1>3. e.db = [db EXCEPT !.certs = Append(db.certs, cert)]
  BY <1>2 DEF Pg!CreateCertification, Pg!Ok
<1>4. cert \in CertRows
  BY <1>1 DEF CertRows, Tenants
<1> HIDE DEF cert
<1>5. Append(db.certs, cert) \in Seq(CertRows)
  BY <1>1, <1>4
<1>6. e.db \in Databases
  BY <1>1, <1>3, <1>5 DEF Databases
<1> QED BY <1>3, <1>4, <1>6 DEF cert

(***************************************************************************)
(* The invariant, part by part: what is enough for a step to preserve it   *)
(***************************************************************************)
\* What a handler knows about its row, its tombstone or its certification
\* stays what it was.
DeletesOn(q) ==
    Deleting(q)' => /\ Deleting(q)
                    /\ req'[q].p = req[q].p /\ req'[q].row = req[q].row /\ req'[q].held = req[q].held
RestoresOn(q) == Restoring(q)' => Restoring(q) /\ req'[q].p = req[q].p /\ req'[q].tomb = req[q].tomb
DecidesOn(q) == At(q, "decide")' => At(q, "decide") /\ req'[q] = req[q]

\* One request moves.
LEMMA OneMoves ==
    ASSUME GovTypeOK, NEW r \in Requests, NEW s \in RequestStates, Goto(r, s)
    PROVE  /\ req' \in [Requests -> RequestStates] /\ req'[r] = s
           /\ \A q \in Requests : q # r => /\ req'[q] = req[q]
                                           /\ DeletesOn(q) /\ RestoresOn(q) /\ DecidesOn(q)
<1>1. req' \in [Requests -> RequestStates] /\ req'[r] = s /\ \A q \in Requests : q # r => req'[q] = req[q]
  BY DEF GovTypeOK, Goto
<1>2. \A q \in Requests : q # r => DeletesOn(q) /\ RestoresOn(q) /\ DecidesOn(q)
  BY <1>1 DEF DeletesOn, RestoresOn, DecidesOn, Deleting, Restoring, At
<1> QED BY <1>1, <1>2

\* What a request is at tells what it knows.
LEMMA RequestFields ==
    ASSUME GovTypeOK, NEW r \in Requests
    PROVE  /\ req[r].at \in {"idle", "capture", "remove", "recreate", "mark", "decide"}
           /\ req[r].at = "idle" => req[r] = Idle
           /\ Deleting(r) => /\ req[r] = [at |-> req[r].at, p |-> req[r].p, row |-> req[r].row, held |-> req[r].held]
                             /\ req[r].p \in People /\ req[r].row \in LiveRows /\ req[r].held \in Nat
           /\ Restoring(r) => /\ req[r] = [at |-> req[r].at, p |-> req[r].p, tomb |-> req[r].tomb]
                              /\ req[r].p \in People /\ req[r].tomb \in Tombstones /\ req[r].tomb.row \in LiveRows
           /\ At(r, "decide") => /\ req[r].p \in People /\ req[r].on \in CertRows /\ req[r].seen \in Nat
                                 /\ req[r].status \in CertStatuses
<1>1. req[r] \in RequestStates
  BY DEF GovTypeOK
<1>2. CASE req[r] = Idle
  BY <1>2 DEF Idle, Deleting, Restoring, At
<1>3. CASE req[r] \in [at : {"capture", "remove"}, p : People, row : LiveRows, held : Nat]
  BY <1>3 DEF Deleting, Restoring, At
<1>4. CASE req[r] \in [at : {"recreate", "mark"}, p : People, tomb : Tombstones]
  BY <1>4 DEF Deleting, Restoring, At, Tombstones
<1>5. CASE req[r] \in [at : {"decide"}, p : People, on : CertRows, seen : Nat, status : CertStatuses]
  BY <1>5 DEF Deleting, Restoring, At
<1> QED BY <1>1, <1>2, <1>3, <1>4, <1>5 DEF RequestStates

\* The principals have tenants.
LEMMA PeopleFields ==
    ASSUME NEW p \in People
    PROVE  p.tenant \in Tenants /\ ~Foreigner(p.tenant)
BY GovernanceAssumption DEF Foreigner

\* No certification is added, and no review begins.
LEMMA CertsQuiet ==
    ASSUME GovInv, db'.certs = db.certs, raced' = raced
    PROVE  /\ \A i \in DOMAIN db'.certs : db'.certs[i].id = i
           /\ DecisionsFollow'
           /\ \A q \in Requests : DecidesOn(q) => DecidesLatest(q)'
<1>1. \A i \in DOMAIN db'.certs : db'.certs[i].id = i
  BY DEF GovInv, Numbered
<1>2. DecisionsFollow'
  BY DEF GovInv, DecisionsFollow
<1>3. ASSUME NEW q \in Requests, DecidesOn(q) PROVE DecidesLatest(q)'
  <2>1. CASE ~At(q, "decide")'
    BY <2>1 DEF DecidesLatest
  <2>2. CASE At(q, "decide")'
    <3>1. At(q, "decide") /\ req'[q] = req[q] /\ DecidesLatest(q)
      BY <1>3, <2>2 DEF DecidesOn, GovInv
    <3> QED BY <3>1 DEF DecidesLatest, At
  <2> QED BY <2>1, <2>2
<1> QED BY <1>1, <1>2, <1>3

\* Holds are only added and released, and no delete begins.
LEMMA HoldsQuiet ==
    ASSUME GovInv, Len(db.holds) <= Len(db'.holds), Len(db'.holds) \in Nat, Len(db.holds) \in Nat,
           \A h \in 1..Len(db.holds) : db'.holds[h] = db.holds[h] \/ db'.holds[h] = Released(db.holds[h]),
           db.holds \in Seq(HoldRows)
    PROVE  \A q \in Requests : DeletesOn(q) => Clear(q)'
<1> SUFFICES ASSUME NEW q \in Requests, DeletesOn(q), Deleting(q)'
             PROVE  /\ req'[q].held <= Len(db'.holds)
                    /\ \A h \in 1..req'[q].held :
                          db'.holds[h].tenant = req'[q].row.tenant
                              => ~Matches(db'.holds[h], req'[q].row.kind, req'[q].row.id, {})
  BY DEF Clear
<1>1. Deleting(q) /\ req'[q].row = req[q].row /\ req'[q].held = req[q].held /\ Clear(q)
  BY DEF DeletesOn, GovInv
<1>2. req[q].held \in Nat /\ req[q].held <= Len(db.holds)
  BY <1>1, RequestFields DEF Clear, GovInv
<1>3. req'[q].held <= Len(db'.holds)
  BY <1>1, <1>2
<1>4. ASSUME NEW h \in 1..req[q].held, db'.holds[h].tenant = req[q].row.tenant
      PROVE  ~Matches(db'.holds[h], req[q].row.kind, req[q].row.id, {})
  <2>1. h \in 1..Len(db.holds) /\ db.holds[h] \in HoldRows
    BY <1>2
  <2>2. CASE db'.holds[h] = db.holds[h]
    BY <1>1, <1>4, <2>2 DEF Clear
  <2>3. CASE db'.holds[h] = Released(db.holds[h])
    BY <2>1, <2>3 DEF Released, HoldRows, Matches
  <2> QED BY <2>1, <2>2, <2>3
<1> QED BY <1>1, <1>3, <1>4

\* Tombstones are only added and flagged, what is recorded was recorded or
\* comes from the seed, and no delete or restore begins.
LEMMA OwningQuiet ==
    ASSUME GovInv,
           \A row \in Recorded(db)' : row \in Recorded(db) \/ FromSeed(row),
           \A i \in DOMAIN db.tombs : i \in DOMAIN db'.tombs /\ db'.tombs[i].row = db.tombs[i].row
    PROVE  /\ Original'
           /\ \A q \in Requests : /\ DeletesOn(q) => DeletesOwn(q)'
                                  /\ RestoresOn(q) => RestoresOwn(q)'
<1>1. Original'
  BY DEF GovInv, Original
<1>2. ASSUME NEW q \in Requests, DeletesOn(q) PROVE DeletesOwn(q)'
  BY <1>2 DEF GovInv, DeletesOwn, DeletesOn
<1>3. ASSUME NEW q \in Requests, RestoresOn(q) PROVE RestoresOwn(q)'
  BY <1>3 DEF GovInv, RestoresOwn, RestoresOn
<1> QED BY <1>1, <1>2, <1>3

\* No row of a foreign tenant changes.
LEMMA ApartQuiet ==
    ASSUME GovInv,
           ForeignIn(db'.rows) = ForeignIn(db.rows), ForeignTombs(db'.tombs) = ForeignTombs(db.tombs),
           ForeignIn(db'.holds) = ForeignIn(db.holds), ForeignIn(db'.dsrs) = ForeignIn(db.dsrs),
           ForeignIn(db'.certs) = ForeignIn(db.certs)
    PROVE  OfOthers(db)' = OfOthers(Seed)
<1>1. OfOthers(db') = OfOthers(db)
  BY OthersAre
<1> QED BY <1>1 DEF GovInv

\* What is counted is finite.
LEMMA Sizes ==
    ASSUME GovTypeOK, NEW k
    PROVE  /\ IsFiniteSet(Claims(k)) /\ Cardinality(Claims(k)) \in Nat
           /\ IsFiniteSet(LiveAt(k)) /\ Cardinality(LiveAt(k)) \in Nat
           /\ IsFiniteSet(Binned(k)) /\ Cardinality(Binned(k)) \in Nat
<1>1. db.rows \in Seq(LiveRows) /\ db.tombs \in Seq(Tombstones)
  BY DEF GovTypeOK, Databases
<1>2. Len(db.rows) \in Nat /\ DOMAIN db.rows = 1..Len(db.rows) /\ Len(db.tombs) \in Nat /\ DOMAIN db.tombs = 1..Len(db.tombs)
  BY <1>1
<1>3. IsFiniteSet(DOMAIN db.rows) /\ IsFiniteSet(DOMAIN db.tombs) /\ IsFiniteSet(Requests)
  BY <1>2, CountUpTo, GovernanceAssumption
<1>4. Claims(k) \in SUBSET Requests /\ LiveAt(k) \in SUBSET (DOMAIN db.rows) /\ Binned(k) \in SUBSET (DOMAIN db.tombs)
  BY DEF Claims, LiveAt, Binned
<1> QED BY <1>3, <1>4, FS_Subset, FS_CardinalityType

\* About to take a row with key k away, or to say that it was restored.
Claiming(s, k) ==
    \/ s.at = "remove" /\ KeyOf(s.row) = k
    \/ s.at = "mark" /\ KeyOf(s.tomb.row) = k

\* The claims on a key when one request moves.
LEMMA ClaimsMove ==
    ASSUME GovTypeOK, NEW r \in Requests, NEW s \in RequestStates, Goto(r, s), NEW k
    PROVE  /\ Cardinality(Claims(k)') \in Nat
           /\ Cardinality(Claims(k)') <= Cardinality(Claims(k)) + 1
           /\ ~Claiming(s, k) => Cardinality(Claims(k)') <= Cardinality(Claims(k))
           /\ ~Claiming(s, k) /\ Claiming(req[r], k) => Cardinality(Claims(k)') = Cardinality(Claims(k)) - 1
<1> DEFINE rest == Claims(k) \ {r}
<1>1. req'[r] = s /\ \A q \in Requests : q # r => req'[q] = req[q]
  BY OneMoves
<1>2. r \in Claims(k) <=> Claiming(req[r], k)
  BY DEF Claims, Claiming, At
<1>3. Claims(k)' = IF Claiming(s, k) THEN rest \cup {r} ELSE rest
  BY <1>1 DEF Claims, Claiming, At
<1> HIDE DEF Claiming
<1>4. IsFiniteSet(Claims(k)) /\ Cardinality(Claims(k)) \in Nat
  BY Sizes
<1>5. IsFiniteSet(rest) /\ Cardinality(rest) = IF r \in Claims(k) THEN Cardinality(Claims(k)) - 1 ELSE Cardinality(Claims(k))
  BY <1>4, FS_RemoveElement
<1>6. Cardinality(rest) \in Nat
  BY <1>5, FS_CardinalityType
<1>7. r \notin rest
  OBVIOUS
<1> HIDE DEF rest
<1>8. Cardinality(rest \cup {r}) = Cardinality(rest) + 1
  BY <1>5, <1>7, FS_AddElement
<1>9. CASE Claiming(s, k)
  BY <1>3, <1>4, <1>5, <1>6, <1>8, <1>9
<1>10. CASE ~Claiming(s, k)
  BY <1>2, <1>3, <1>4, <1>5, <1>6, <1>10
<1> QED BY <1>9, <1>10

\* Rows and tombstones keep their keys, none is restored, and no request
\* comes to claim a key.
LEMMA KeptQuiet ==
    ASSUME GovInv, NEW r \in Requests, NEW s \in RequestStates, Goto(r, s), \A k : ~Claiming(s, k),
           Deleting(r)' => KeyOf(s.row) \in made, Restoring(r)' => KeyOf(s.tomb.row) \in made,
           db'.rows = db.rows, DOMAIN db'.tombs = DOMAIN db.tombs,
           \A i \in DOMAIN db.tombs : db'.tombs[i].row = db.tombs[i].row /\ db'.tombs[i].restored = db.tombs[i].restored,
           made' = made, hollow' = hollow, backend' = backend
    PROVE  Known' /\ KeysHold' /\ Covered' /\ Honest'
<1>0. GovTypeOK
  BY DEF GovInv
<1>1. req'[r] = s /\ \A q \in Requests : q # r => req'[q] = req[q]
  BY <1>0, OneMoves
<1>2. Recorded(db)' = Recorded(db)
  BY DEF Recorded
<1>3. Known'
  <2>1. ASSUME NEW q \in Requests
        PROVE  /\ Deleting(q)' => KeyOf(req'[q].row) \in made
               /\ Restoring(q)' => KeyOf(req'[q].tomb.row) \in made
    <3>1. CASE q = r
      BY <1>1, <3>1
    <3>2. CASE q # r
      BY <1>1, <3>2 DEF GovInv, Known, Deleting, Restoring
    <3> QED BY <3>1, <3>2
  <2>2. \A row \in Recorded(db) : KeyOf(row) \in made
    BY DEF GovInv, Known
  <2> QED BY <1>2, <2>1, <2>2 DEF Known
<1>4. KeysHold'
  BY DEF GovInv, KeysHold
<1>5. ASSUME NEW k \in made \ hollow
      PROVE  Cardinality(Claims(k)') < Cardinality(LiveAt(k)') + Cardinality(Binned(k)')
  <2>1. LiveAt(k)' = LiveAt(k)
    BY DEF LiveAt
  <2>2. Binned(k)' = Binned(k)
    BY DEF Binned
  <2>3. Cardinality(Claims(k)') <= Cardinality(Claims(k)) /\ Cardinality(Claims(k)') \in Nat
    BY <1>0, ClaimsMove
  <2>4. Cardinality(Claims(k)) < Cardinality(LiveAt(k)) + Cardinality(Binned(k))
    BY DEF GovInv, Covered
  <2> QED BY <1>0, <2>1, <2>2, <2>3, <2>4, Sizes
<1>6. Honest'
  BY DEF GovInv, Honest
<1> QED BY <1>3, <1>4, <1>5, <1>6 DEF Covered

\* The parts of the invariant about one request.
Sound(q) == DeletesOwn(q) /\ RestoresOwn(q) /\ Clear(q) /\ DecidesLatest(q)

\* They hold of a request that stays as it is when certifications do, holds
\* are only added and released, and tombstones keep their rows.
LEMMA QuietRequests ==
    ASSUME GovInv,
           db'.certs = db.certs, raced' = raced,
           Len(db'.holds) \in Nat, Len(db.holds) <= Len(db'.holds),
           \A h \in 1..Len(db.holds) : db'.holds[h] = db.holds[h] \/ db'.holds[h] = Released(db.holds[h]),
           \A row \in Recorded(db)' : row \in Recorded(db) \/ FromSeed(row),
           \A i \in DOMAIN db.tombs : i \in DOMAIN db'.tombs /\ db'.tombs[i].row = db.tombs[i].row
    PROVE  \A q \in Requests : DeletesOn(q) /\ RestoresOn(q) /\ DecidesOn(q) => Sound(q)'
<1>1. db.holds \in Seq(HoldRows) /\ Len(db.holds) \in Nat
  BY DEF GovInv, GovTypeOK, Databases
<1>3. \A q \in Requests : /\ DeletesOn(q) => DeletesOwn(q)'
                          /\ RestoresOn(q) => RestoresOwn(q)'
  BY OwningQuiet, Zenon
<1>2. ASSUME NEW q \in Requests, DeletesOn(q), RestoresOn(q), DecidesOn(q) PROVE Sound(q)'
  <2>1. DeletesOwn(q)' /\ RestoresOwn(q)'
    BY <1>2, <1>3
  <2>2. Clear(q)'
    BY <1>1, <1>2, HoldsQuiet
  <2>3. DecidesLatest(q)'
    BY <1>2, CertsQuiet
  <2> QED BY <2>1, <2>2, <2>3 DEF Sound
<1> QED BY <1>2

\* What a handler may remember when it begins.
Opens(s) ==
    \/ s = Idle
    \/ /\ s \in [at : {"capture"}, p : People, row : LiveRows, held : Nat]
       /\ s.row.tenant = s.p.tenant /\ FromSeed(s.row) /\ KeyOf(s.row) \in made
       /\ s.held <= Len(db.holds)
       /\ \A h \in 1..s.held : db.holds[h].tenant = s.row.tenant => ~Matches(db.holds[h], s.row.kind, s.row.id, {})
    \/ /\ s \in [at : {"recreate"}, p : People, tomb : Tombstones]
       /\ s.tomb.row.tenant = s.p.tenant /\ KeyOf(s.tomb.row) \in made
       /\ s.tomb.id \in DOMAIN db.tombs /\ db.tombs[s.tomb.id].row = s.tomb.row
    \/ /\ s \in [at : {"decide"}, p : People, on : CertRows, seen : Nat, status : CertStatuses]
       /\ s.on.tenant = s.p.tenant
       /\ s.on.id \in 1..s.seen /\ s.seen <= Len(db.certs) /\ db.certs[s.on.id] = s.on
       /\ \A i \in 1..s.seen : db.certs[i].tenant = s.on.tenant /\ db.certs[i].asset = s.on.asset => i <= s.on.id
       /\ \/ s.status \in {"certified", "rejected"} /\ s.on.status = "proposed"
          \/ s.status = "revoked" /\ s.on.status = "certified"

\* A handler begins, or answers, and the tables stay as they are.
LEMMA OpenStep ==
    ASSUME GovInv, NEW r \in Requests, NEW s, Goto(r, s), Opens(s),
           db' = db, backend' = backend, made' = made, hollow' = hollow, raced' = raced, started' \in Nat, faults' \in Nat
    PROVE  GovInv' /\ RowsStay
<1>0. GovTypeOK
  BY DEF GovInv
<1>1. s \in RequestStates
  BY DEF Opens, RequestStates
<1>2. /\ req' \in [Requests -> RequestStates] /\ req'[r] = s
      /\ \A q \in Requests : q # r => req'[q] = req[q] /\ DeletesOn(q) /\ RestoresOn(q) /\ DecidesOn(q)
  BY <1>0, <1>1, OneMoves
<1>3. GovTypeOK'
  BY <1>0, <1>2 DEF GovTypeOK
<1>4. Numbered' /\ Original' /\ DecisionsFollow' /\ OfOthers(db)' = OfOthers(Seed)
  BY DEF GovInv, Numbered, Original, DecisionsFollow
<1>5. Known' /\ KeysHold' /\ Covered' /\ Honest'
  <2>1. \A k : ~Claiming(s, k)
    BY DEF Opens, Claiming, Idle
  <2>2. Deleting(r)' => KeyOf(s.row) \in made
    BY <1>2 DEF Opens, Deleting, Idle
  <2>3. Restoring(r)' => KeyOf(s.tomb.row) \in made
    BY <1>2 DEF Opens, Restoring, Idle
  <2> QED BY <1>1, <2>1, <2>2, <2>3, KeptQuiet
<1>6. ASSUME NEW q \in Requests PROVE Sound(q)'
  <2>1. CASE q # r
    <3>1. Len(db.holds) \in Nat
      BY <1>0 DEF GovTypeOK, Databases
    <3>2. Recorded(db)' = Recorded(db)
      BY DEF Recorded
    <3> QED BY <1>2, <2>1, <3>1, <3>2, QuietRequests
  <2>2. CASE q = r
    <3>1. DeletesOwn(r)'
      BY <1>2 DEF Opens, DeletesOwn, Deleting, Idle
    <3>2. RestoresOwn(r)'
      BY <1>2 DEF Opens, RestoresOwn, Restoring, Idle
    <3>3. Clear(r)'
      BY <1>2 DEF Opens, Clear, Deleting, Idle
    <3>4. DecidesLatest(r)'
      BY <1>2 DEF Opens, DecidesLatest, At, Idle
    <3> QED BY <2>2, <3>1, <3>2, <3>3, <3>4 DEF Sound
  <2> QED BY <2>1, <2>2
<1>7. RowsStay
  BY DEF RowsStay
<1> QED BY <1>3, <1>4, <1>5, <1>6, <1>7 DEF GovInv, Sound

(***************************************************************************)
(* The handlers, up to their first write                                   *)
(***************************************************************************)
\* A request begins, or goes on.
LEMMA RequestBegins ==
    ASSUME GovTypeOK, NEW r \in Requests, NEW p, NEW verb, NEW type, Allowed(r, p, verb, type)
    PROVE  backend' = backend /\ started' \in Nat /\ faults' \in Nat
BY DEF GovTypeOK, Allowed, Begin

\* A request makes its next call.
LEMMA RequestProceeds ==
    ASSUME GovTypeOK, NEW r \in Requests, NEW call, Proceed(r, call)
    PROVE  backend' = backend /\ started' \in Nat /\ faults' \in Nat /\ req[r].at = call
BY DEF GovTypeOK, Proceed, Continue, At

\* What a handler finds is a row of the table, with the kind, the id and the
\* tenant asked for.
LEMMA ExistingRow ==
    ASSUME GovTypeOK, NEW kind \in Kinds, NEW t \in Tenants, NEW id, NEW row \in Existing(kind, t, id)
    PROVE  row \in LiveRows /\ row \in Recorded(db) /\ row.kind = kind /\ row.id = id /\ row.tenant = t
<1>1. db.rows \in Seq(LiveRows) /\ \A i \in DOMAIN db.rows : db.rows[i] \in LiveRows
  BY DEF GovTypeOK, Databases
<1>2. row.tenant = t
  BY DEF Existing
<1> SUFFICES \E i \in DOMAIN db.rows : row = db.rows[i] /\ row.kind = kind /\ row.id = id
  BY <1>1, <1>2 DEF Recorded
<1>3. CASE kind = "pipeline"
  <2>1. row \in Store(Mem!GetPipeline(db, id), Pg!GetPipeline(db, t, id))
    BY <1>3, Zenon DEF Existing
  <2>2. row \in Mem!GetPipeline(db, id) \/ row \in Pg!GetPipeline(db, t, id)
    BY <2>1 DEF Store
  <2> QED BY <1>3, <2>2, Zenon DEF Mem!GetPipeline, Pg!GetPipeline, Mem!Rows, Mem!Where, Pg!Rows, Pg!Where
<1>4. CASE kind = "check"
  <2>1. row \in Store(Mem!GetCheck(db, id), Pg!GetCheck(db, t, id))
    BY <1>4 DEF Existing
  <2>2. row \in Mem!GetCheck(db, id) \/ row \in Pg!GetCheck(db, t, id)
    BY <2>1 DEF Store
  <2> QED BY <1>4, <2>2, Zenon DEF Mem!GetCheck, Pg!GetCheck, Mem!Rows, Mem!Where, Pg!Rows, Pg!Where
<1>5. CASE kind = "policy"
  <2>1. row \in ListRules(t) /\ row.id = id
    BY <1>5 DEF Existing
  <2>2. row \in Mem!ListRules(db, t) \/ row \in Pg!ListRules(db, t)
    BY <2>1 DEF ListRules, Store
  <2>3. \E i \in DOMAIN db.rows : row = db.rows[i] /\ row.kind = "policy"
    BY <2>2, Zenon DEF Mem!ListRules, Pg!ListRules, Mem!Rows, Mem!Where, Pg!Rows, Pg!Where
  <2> QED BY <1>5, <2>1, <2>3
<1> QED BY <1>3, <1>4, <1>5 DEF Kinds

\* A resource that is not held is covered by no hold of its tenant.
LEMMA NotHeld ==
    ASSUME GovTypeOK, NEW t, NEW kind, NEW id, ~Check(t, kind, id)
    PROVE  \A h \in DOMAIN db.holds : db.holds[h].tenant = t => ~Matches(db.holds[h], kind, id, {})
<1> SUFFICES ASSUME NEW h \in DOMAIN db.holds, db.holds[h].tenant = t, Matches(db.holds[h], kind, id, {}) PROVE FALSE
  OBVIOUS
<1>1. ~db.holds[h].released
  BY DEF Matches
<1>2. Mem!Matches(db.holds[h], kind, id, {}) /\ Pg!Matches(db.holds[h], kind, id, {})
  BY Zenon DEF Matches, Mem!Matches, Pg!Matches
<1>3. db.holds[h] \in Mem!ListHolds(db, t)
  BY DEF Mem!ListHolds, Mem!Rows, Mem!Where
<1>4. Mem!Check(db, t, kind, id, {})
  BY <1>2, <1>3 DEF Mem!Check
<1>5. db.holds[h] \in Pg!Rows(db.holds, LAMBDA x : x.tenant = t /\ ~x.released)
  BY <1>1 DEF Pg!Rows, Pg!Where
<1>6. Pg!Check(db, t, kind, id, {})
  BY <1>2, <1>5 DEF Pg!Check
<1> QED BY <1>4, <1>6, TwoBackends DEF Check, Store

\* The three delete handlers.
LEMMA StartDeleteStep ==
    ASSUME GovInv, NEW r \in Requests, NEW p \in People, NEW kind \in Kinds, NEW verb, StartDelete(r, p, kind, verb)
    PROVE  GovInv' /\ RowsStay
<1>0. GovTypeOK
  BY DEF GovInv
<1>1. db' = db /\ made' = made /\ hollow' = hollow /\ raced' = raced /\ Allowed(r, p, verb, kind)
  BY DEF StartDelete, history
<1>2. PICK id, row :
         /\ row \in Existing(kind, p.tenant, id)
         /\ ~Check(p.tenant, kind, id)
         /\ Goto(r, [at |-> "capture", p |-> p, row |-> row, held |-> Len(db.holds)])
  BY DEF StartDelete
<1> DEFINE s == [at |-> "capture", p |-> p, row |-> row, held |-> Len(db.holds)]
<1>3. row \in LiveRows /\ row \in Recorded(db) /\ row.kind = kind /\ row.id = id /\ row.tenant = p.tenant
  BY <1>0, <1>2, PeopleFields, ExistingRow
<1>4. FromSeed(row) /\ KeyOf(row) \in made
  BY <1>3 DEF GovInv, Original, Known
<1>5. Len(db.holds) \in Nat /\ DOMAIN db.holds = 1..Len(db.holds)
  BY <1>0 DEF GovTypeOK, Databases
<1>6. \A h \in DOMAIN db.holds : db.holds[h].tenant = p.tenant => ~Matches(db.holds[h], kind, id, {})
  BY <1>0, <1>2, NotHeld
<1>7. Opens(s)
  BY <1>3, <1>4, <1>5, <1>6 DEF Opens
<1>8. Goto(r, s)
  BY <1>2
<1> HIDE DEF s
<1> QED BY <1>0, <1>1, <1>7, <1>8, RequestBegins, OpenStep

\* The restore handler finds a tombstone of the caller's tenant.
LEMMA RestoreStep ==
    ASSUME GovInv, NEW r \in Requests, NEW p \in People, Restore(r, p)
    PROVE  GovInv' /\ RowsStay
<1>0. GovTypeOK /\ db.tombs \in Seq(Tombstones)
  BY DEF GovInv, GovTypeOK, Databases
<1>1. db' = db /\ made' = made /\ hollow' = hollow /\ raced' = raced /\ Allowed(r, p, "admin", "recycle_bin_entry")
  BY DEF Restore, history
<1>2. PICK id, tomb : tomb \in GetRecord(p.tenant, id) /\ Goto(r, [at |-> "recreate", p |-> p, tomb |-> tomb])
  BY DEF Restore
<1> DEFINE s == [at |-> "recreate", p |-> p, tomb |-> tomb]
<1>3. PICK i \in DOMAIN db.tombs : tomb = db.tombs[i] /\ tomb.row.tenant = p.tenant
  <2>1. tomb \in Mem!GetRecord(db, p.tenant, id) \/ tomb \in Pg!GetRecord(db, p.tenant, id)
    BY <1>2 DEF GetRecord, Store
  <2> QED BY <2>1, Zenon DEF Mem!GetRecord, Pg!GetRecord, Mem!Rows, Mem!Where, Pg!Rows, Pg!Where
<1>4. tomb \in Tombstones /\ tomb.id = i
  BY <1>0, <1>3 DEF GovInv, Numbered
<1>5. KeyOf(tomb.row) \in made
  BY <1>3 DEF GovInv, Known, Recorded
<1>6. Opens(s)
  BY <1>3, <1>4, <1>5 DEF Opens
<1>7. Goto(r, s)
  BY <1>2
<1> HIDE DEF s
<1> QED BY <1>0, <1>1, <1>6, <1>7, RequestBegins, OpenStep

\* The latest certification of an asset.
LEMMA LatestIsLast ==
    ASSUME GovInv, NEW t, NEW asset, NEW c \in Pg!Latest(db, t, asset)
    PROVE  /\ c \in CertRows /\ c.tenant = t /\ c.asset = asset
           /\ c.id \in DOMAIN db.certs /\ db.certs[c.id] = c
           /\ \A i \in DOMAIN db.certs : db.certs[i].tenant = t /\ db.certs[i].asset = asset => i <= c.id
<1> DEFINE W == {i \in DOMAIN db.certs : db.certs[i].tenant = t /\ db.certs[i].asset = asset}
<1>1. Pg!Latest(db, t, asset) = {db.certs[i] : i \in {i \in W : \A j \in W : j <= i}}
  BY Zenon DEF Pg!Latest, Pg!Last, Pg!Where
<1>2. PICK m \in DOMAIN db.certs : m \in W /\ c = db.certs[m] /\ \A j \in W : j <= m
  BY <1>1
<1>3. c \in CertRows /\ c.id = m
  BY <1>2 DEF GovInv, GovTypeOK, Databases, Numbered
<1> QED BY <1>2, <1>3

\* Approving, rejecting and revoking begin with the latest row of an asset.
LEMMA ReviewStep ==
    ASSUME GovInv, NEW r \in Requests, NEW p \in People, ApproveCert(r, p) \/ RejectCert(r, p) \/ RevokeCert(r, p)
    PROVE  GovInv' /\ RowsStay
<1>0. GovTypeOK
  BY DEF GovInv
<1>1. /\ db' = db /\ made' = made /\ hollow' = hollow /\ raced' = raced
      /\ Allowed(r, p, "certify", "certification")
  BY DEF ApproveCert, RejectCert, RevokeCert, history
<1>2. PICK c, asset, status :
         /\ c \in Pg!Latest(db, p.tenant, asset)
         /\ \/ status \in {"certified", "rejected"} /\ c.status = "proposed"
            \/ status = "revoked" /\ c.status = "certified"
         /\ Goto(r, [at |-> "decide", p |-> p, on |-> c, seen |-> Len(db.certs), status |-> status])
  <2>1. CASE ApproveCert(r, p)
    <3>1. PICK c : /\ c.status = "proposed" /\ Pg!Latest(db, p.tenant, c.asset) = {c}
                   /\ Goto(r, [at |-> "decide", p |-> p, on |-> c, seen |-> Len(db.certs), status |-> "certified"])
      BY <2>1 DEF ApproveCert, Approve, RequireActiveProposal
    <3>2. c \in Pg!Latest(db, p.tenant, c.asset)
      BY <3>1
    <3> QED BY <3>1, <3>2
  <2>2. CASE RejectCert(r, p)
    <3>1. PICK c : /\ c.status = "proposed" /\ Pg!Latest(db, p.tenant, c.asset) = {c}
                   /\ Goto(r, [at |-> "decide", p |-> p, on |-> c, seen |-> Len(db.certs), status |-> "rejected"])
      BY <2>2 DEF RejectCert, Reject, RequireActiveProposal
    <3>2. c \in Pg!Latest(db, p.tenant, c.asset)
      BY <3>1
    <3> QED BY <3>1, <3>2
  <2>3. CASE RevokeCert(r, p)
    BY <2>3 DEF RevokeCert, Revoke
  <2> QED BY <2>1, <2>2, <2>3
<1> DEFINE s == [at |-> "decide", p |-> p, on |-> c, seen |-> Len(db.certs), status |-> status]
<1>3. Len(db.certs) \in Nat /\ DOMAIN db.certs = 1..Len(db.certs)
  BY <1>0 DEF GovTypeOK, Databases
<1>4. /\ c \in CertRows /\ c.tenant = p.tenant /\ c.asset = asset
      /\ c.id \in DOMAIN db.certs /\ db.certs[c.id] = c
      /\ \A i \in DOMAIN db.certs : db.certs[i].tenant = p.tenant /\ db.certs[i].asset = asset => i <= c.id
  BY <1>2, LatestIsLast
<1>5. status \in CertStatuses
  BY <1>2 DEF CertStatuses
<1>6. s \in [at : {"decide"}, p : People, on : CertRows, seen : Nat, status : CertStatuses]
  BY <1>3, <1>4, <1>5
<1>7. Opens(s)
  BY <1>2, <1>3, <1>4, <1>6 DEF Opens
<1>8. Goto(r, s)
  BY <1>2
<1> HIDE DEF s
<1> QED BY <1>0, <1>1, <1>7, <1>8, RequestBegins, OpenStep

\* A handler whose statement fails answers with the error.
LEMMA StatementFailsStep ==
    ASSUME GovInv, NEW r \in Requests, StatementFails(r)
    PROVE  GovInv' /\ RowsStay
<1>1. /\ Goto(r, Idle) /\ db' = db /\ backend' = backend
      /\ made' = made /\ hollow' = hollow /\ raced' = raced
      /\ started' \in Nat /\ faults' \in Nat
  BY DEF StatementFails, CallFails, Answer, history, GovInv, GovTypeOK
<1>2. Opens(Idle)
  BY DEF Opens
<1> QED BY <1>1, <1>2, OpenStep

(***************************************************************************)
(* The writes                                                              *)
(***************************************************************************)
\* Adding to a table keeps what is in it.
LEMMA Appended ==
    ASSUME NEW S, NEW table \in Seq(S), NEW x \in S, NEW new, new = Append(table, x)
    PROVE  /\ Len(table) \in Nat /\ DOMAIN table = 1..Len(table)
           /\ new \in Seq(S) /\ Len(new) = Len(table) + 1 /\ DOMAIN new = DOMAIN table \cup {Len(table) + 1}
           /\ Len(table) + 1 \notin DOMAIN table
           /\ new[Len(table) + 1] = x /\ \A i \in DOMAIN table : new[i] = table[i]
OBVIOUS

\* The tombstone of a row is written before the row goes.
LEMMA CaptureStep ==
    ASSUME GovInv, NEW r \in Requests, CaptureTombstone(r)
    PROVE  GovInv' /\ RowsStay
<1>0. GovTypeOK /\ db \in Databases /\ db.tombs \in Seq(Tombstones) /\ Len(db.holds) \in Nat
  BY DEF GovInv, GovTypeOK, Databases
<1>1. /\ backend' = backend /\ started' \in Nat /\ faults' \in Nat /\ req[r].at = "capture"
      /\ made' = made /\ hollow' = hollow /\ raced' = raced
  BY <1>0, RequestProceeds DEF CaptureTombstone, history
<1> DEFINE row == req[r].row
           tomb == [id |-> NextID(db.tombs), row |-> row, restored |-> FALSE, purged |-> FALSE]
           s == [req[r] EXCEPT !.at = "remove"]
           key == KeyOf(row)
<1>2. Deleting(r) /\ DeletesOwn(r)
  BY <1>1 DEF Deleting, GovInv
<1>3. /\ req[r] = [at |-> req[r].at, p |-> req[r].p, row |-> row, held |-> req[r].held]
      /\ req[r].p \in People /\ row \in LiveRows /\ req[r].held \in Nat
      /\ row.tenant = req[r].p.tenant /\ FromSeed(row) /\ key \in made
  BY <1>0, <1>2, RequestFields DEF DeletesOwn, GovInv, Known
<1>4. Capture(row) = [err |-> "ok", db |-> [db EXCEPT !.tombs = Append(db.tombs, tomb)]] /\ tomb \in Tombstones
  <2>1. Capture(row) \in {Mem!Capture(db, row), Pg!Capture(db, row)}
    BY DEF Capture, Store
  <2> QED BY <1>0, <1>3, <2>1, CaptureEffect
<1>5. db' = [db EXCEPT !.tombs = Append(db.tombs, tomb)] /\ Goto(r, s)
  BY <1>4 DEF CaptureTombstone, Then
<1>6. NextID(db.tombs) = Len(db.tombs) + 1
  BY <1>0, NextIDIsNext DEF GovInv, Numbered
<1>7. s = [at |-> "remove", p |-> req[r].p, row |-> row, held |-> req[r].held]
  BY <1>3
<1>8. s \in RequestStates /\ s.at = "remove" /\ s.p = req[r].p /\ s.row = row /\ s.held = req[r].held
  BY <1>3, <1>7 DEF RequestStates
<1>9. tomb.row = row /\ ~tomb.restored /\ tomb.id = Len(db.tombs) + 1
  BY <1>6
<1> HIDE DEF tomb, s, row
<1>10. /\ db'.tombs = Append(db.tombs, tomb) /\ db'.rows = db.rows /\ db'.holds = db.holds
       /\ db'.dsrs = db.dsrs /\ db'.certs = db.certs
  BY <1>0, <1>5 DEF Databases
<1>11. /\ DOMAIN db'.tombs = DOMAIN db.tombs \cup {Len(db.tombs) + 1} /\ db'.tombs[Len(db.tombs) + 1] = tomb
       /\ Len(db.tombs) + 1 \notin DOMAIN db.tombs
       /\ \A i \in DOMAIN db.tombs : db'.tombs[i] = db.tombs[i]
       /\ db'.tombs \in Seq(Tombstones)
  BY <1>0, <1>4, <1>10, Appended
<1>12. db' \in Databases
  BY <1>0, <1>5, <1>10, <1>11 DEF Databases
<1>13. /\ req' \in [Requests -> RequestStates] /\ req'[r] = s
       /\ \A q \in Requests : q # r => req'[q] = req[q] /\ DeletesOn(q) /\ RestoresOn(q) /\ DecidesOn(q)
  BY <1>0, <1>5, <1>8, OneMoves
<1>14. DeletesOn(r) /\ RestoresOn(r) /\ DecidesOn(r)
  BY <1>2, <1>8, <1>13 DEF row, DeletesOn, RestoresOn, DecidesOn, Restoring, At
<1>15. GovTypeOK'
  BY <1>0, <1>1, <1>12, <1>13 DEF GovTypeOK
<1>16. \A x \in Recorded(db)' : x \in Recorded(db) \/ x = row
  BY <1>9, <1>10, <1>11 DEF Recorded
<1>17. Numbered' /\ DecisionsFollow'
  BY <1>1, <1>9, <1>10, <1>11, CertsQuiet DEF GovInv, Numbered
<1>18. \A i \in DOMAIN db.tombs : i \in DOMAIN db'.tombs /\ db'.tombs[i].row = db.tombs[i].row
  BY <1>11
<1>19. \A x \in Recorded(db)' : x \in Recorded(db) \/ FromSeed(x)
  BY <1>3, <1>16
<1>20. Original'
  BY <1>18, <1>19, OwningQuiet
<1>21. \A q \in Requests : Sound(q)'
  BY <1>0, <1>1, <1>10, <1>13, <1>14, <1>18, <1>19, QuietRequests
<1>22. OfOthers(db)' = OfOthers(Seed)
  <2>1. ForeignTombs(db'.tombs) = ForeignTombs(db.tombs)
    BY <1>0, <1>3, <1>4, <1>9, <1>10, PeopleFields, OwnRowAdded
  <2> QED BY <1>10, <2>1, ApartQuiet
<1>23. Known'
  <2>1. \A x \in Recorded(db)' : KeyOf(x) \in made
    BY <1>3, <1>16 DEF GovInv, Known
  <2>2. ASSUME NEW q \in Requests
        PROVE  /\ Deleting(q)' => KeyOf(req'[q].row) \in made
               /\ Restoring(q)' => KeyOf(req'[q].tomb.row) \in made
    BY <1>13, <1>14 DEF DeletesOn, RestoresOn, GovInv, Known
  <2> QED BY <1>1, <2>1, <2>2 DEF Known
<1>24. KeysHold' /\ Honest'
  BY <1>1, <1>10 DEF GovInv, KeysHold, Honest
<1>25. ASSUME NEW k \in made \ hollow
       PROVE  Cardinality(Claims(k)') < Cardinality(LiveAt(k)') + Cardinality(Binned(k)')
  <2>1. LiveAt(k)' = LiveAt(k)
    BY <1>10 DEF LiveAt
  <2>2. Cardinality(Claims(k)) < Cardinality(LiveAt(k)) + Cardinality(Binned(k))
    BY DEF GovInv, Covered
  <2>3. /\ Cardinality(Claims(k)') \in Nat /\ Cardinality(Claims(k)') <= Cardinality(Claims(k)) + 1
        /\ ~Claiming(s, k) => Cardinality(Claims(k)') <= Cardinality(Claims(k))
    BY <1>0, <1>5, <1>8, ClaimsMove
  <2>4. CASE k = key
    <3>1. Binned(k)' = Binned(k) \cup {Len(db.tombs) + 1} /\ Len(db.tombs) + 1 \notin Binned(k)
      BY <1>9, <1>11, <2>4 DEF Binned
    <3>2. Cardinality(Binned(k)') = Cardinality(Binned(k)) + 1
      BY <1>0, <3>1, Sizes, FS_AddElement
    <3> QED BY <1>0, <2>1, <2>2, <2>3, <3>2, Sizes
  <2>5. CASE k # key
    <3>1. Binned(k)' = Binned(k)
      BY <1>9, <1>11, <2>5 DEF Binned
    <3>2. ~Claiming(s, k)
      BY <1>8, <2>5 DEF Claiming
    <3> QED BY <1>0, <2>1, <2>2, <2>3, <3>1, <3>2, Sizes
  <2> QED BY <2>4, <2>5
<1>26. RowsStay
  BY <1>10 DEF RowsStay
<1> QED BY <1>1, <1>15, <1>17, <1>20, <1>21, <1>22, <1>23, <1>24, <1>25, <1>26 DEF GovInv, Sound, Covered

\* Flags set in tombstones leave requests, other tables and other tenants be.
LEMMA FlagStep ==
    ASSUME GovInv, NEW r \in Requests, NEW t, ~Foreigner(t), Goto(r, Idle),
           db' \in Databases, db' = [db EXCEPT !.tombs = db'.tombs], DOMAIN db'.tombs = DOMAIN db.tombs,
           \A i \in DOMAIN db.tombs : \/ db'.tombs[i] = db.tombs[i]
                                     \/ /\ db.tombs[i].row.tenant = t
                                        /\ db'.tombs[i] = Restored(db.tombs[i]) \/ db'.tombs[i] = Purged(db.tombs[i]),
           backend' = backend, made' = made, hollow' = hollow, raced' = raced, started' \in Nat, faults' \in Nat
    PROVE  /\ GovTypeOK' /\ Numbered' /\ Original' /\ DecisionsFollow' /\ OfOthers(db)' = OfOthers(Seed)
           /\ \A q \in Requests : Sound(q)'
           /\ Known' /\ KeysHold' /\ Honest'
           /\ \A k : LiveAt(k)' = LiveAt(k)
           /\ RowsStay
<1>0. GovTypeOK /\ db \in Databases /\ db.tombs \in Seq(Tombstones) /\ Len(db.holds) \in Nat
  BY SMTT(20) DEF GovInv, GovTypeOK, Databases
<1>1. db'.rows = db.rows /\ db'.holds = db.holds /\ db'.dsrs = db.dsrs /\ db'.certs = db.certs
  BY <1>0 DEF Databases
<1>2. \A tomb \in Tombstones : /\ Restored(tomb).row = tomb.row /\ Restored(tomb).id = tomb.id
                              /\ Purged(tomb).row = tomb.row /\ Purged(tomb).id = tomb.id
  BY DEF Tombstones, Restored, Purged
<1>3. \A i \in DOMAIN db.tombs : db.tombs[i] \in Tombstones
  BY <1>0
<1>4. \A i \in DOMAIN db.tombs : db'.tombs[i].row = db.tombs[i].row /\ db'.tombs[i].id = db.tombs[i].id
  BY <1>2, <1>3
<1>5. Idle \in RequestStates /\ Idle.at = "idle"
  BY DEF RequestStates, Idle
<1>6. /\ req' \in [Requests -> RequestStates] /\ req'[r] = Idle
      /\ \A q \in Requests : q # r => req'[q] = req[q] /\ DeletesOn(q) /\ RestoresOn(q) /\ DecidesOn(q)
  BY <1>0, <1>5, OneMoves
<1>7. DeletesOn(r) /\ RestoresOn(r) /\ DecidesOn(r)
  BY <1>5, <1>6 DEF DeletesOn, RestoresOn, DecidesOn, Deleting, Restoring, At
<1>8. GovTypeOK'
  BY <1>0, <1>6 DEF GovTypeOK
<1>9. Recorded(db)' = Recorded(db)
  BY <1>1, <1>4 DEF Recorded
<1>10. Numbered' /\ DecisionsFollow'
  BY <1>1, <1>4, CertsQuiet DEF GovInv, Numbered
<1>11. Original'
  BY <1>4, <1>9, OwningQuiet
<1>12. \A q \in Requests : Sound(q)'
  BY <1>0, <1>1, <1>4, <1>6, <1>7, <1>9, QuietRequests
<1>13. OfOthers(db)' = OfOthers(Seed)
  <2>1. ForeignTombs(db'.tombs) = ForeignTombs(db.tombs)
    <3>1. ASSUME NEW i \in DOMAIN db.tombs, db'.tombs[i] # db.tombs[i]
          PROVE  ~Foreigner(db.tombs[i].row.tenant) /\ ~Foreigner(db'.tombs[i].row.tenant)
      <4>1. db.tombs[i].row.tenant = t /\ db'.tombs[i].row = db.tombs[i].row
        BY <1>4, <3>1
      <4> QED BY <4>1
    <3> QED BY <3>1, OwnRowsChanged
  <2> QED BY <1>1, <2>1, ApartQuiet
<1>14. Known'
  <2>1. ASSUME NEW q \in Requests
        PROVE  /\ Deleting(q)' => KeyOf(req'[q].row) \in made
               /\ Restoring(q)' => KeyOf(req'[q].tomb.row) \in made
    BY <1>6, <1>7 DEF DeletesOn, RestoresOn, GovInv, Known
  <2>2. \A row \in Recorded(db) : KeyOf(row) \in made
    BY DEF GovInv, Known
  <2> QED BY <1>9, <2>1, <2>2 DEF Known
<1>15. KeysHold' /\ Honest' /\ \A k : LiveAt(k)' = LiveAt(k)
  BY <1>1 DEF GovInv, KeysHold, Honest, LiveAt
<1>16. RowsStay
  BY <1>1 DEF RowsStay
<1> QED BY <1>8, <1>10, <1>11, <1>12, <1>13, <1>14, <1>15, <1>16

\* The restore handler's last call takes the tombstone out of the bin; the row
\* it claimed is there.
LEMMA MarkStep ==
    ASSUME GovInv, NEW r \in Requests, Mark(r)
    PROVE  GovInv' /\ RowsStay
<1>0. GovTypeOK /\ db.tombs \in Seq(Tombstones)
  BY DEF GovInv, GovTypeOK, Databases
<1>1. /\ backend' = backend /\ started' \in Nat /\ faults' \in Nat /\ req[r].at = "mark"
      /\ made' = made /\ hollow' = hollow /\ raced' = raced
  BY <1>0, RequestProceeds DEF Mark, history
<1> DEFINE t == req[r].p.tenant
           id == req[r].tomb.id
           e == MarkRestored(t, id)
           key == KeyOf(req[r].tomb.row)
<1>2. Restoring(r) /\ RestoresOwn(r) /\ req[r].p \in People
  BY <1>0, <1>1, RequestFields DEF Restoring, GovInv
<1>3. db' = e.db /\ Goto(r, Idle)
  BY DEF Mark, Finish, Then
<1>4. /\ e.db \in Databases /\ e.db = [db EXCEPT !.tombs = e.db.tombs] /\ DOMAIN e.db.tombs = DOMAIN db.tombs
      /\ \A i \in DOMAIN db.tombs :
            \/ e.db.tombs[i] = db.tombs[i]
            \/ /\ db.tombs[i].row.tenant = t /\ db.tombs[i].id = id
               /\ e.db.tombs[i] = Restored(db.tombs[i])
  BY <1>0, MarkRestoredEffect
<1>5. ~Foreigner(t)
  BY <1>2, PeopleFields
<1>6. id \in DOMAIN db.tombs /\ db.tombs[id].row = req[r].tomb.row /\ \A i \in DOMAIN db.tombs : db.tombs[i].id = i
  BY <1>2 DEF RestoresOwn, GovInv, Numbered
<1> HIDE DEF e, id, t, key
<1>7. /\ db' \in Databases /\ db' = [db EXCEPT !.tombs = db'.tombs] /\ DOMAIN db'.tombs = DOMAIN db.tombs
      /\ \A i \in DOMAIN db.tombs : db'.tombs[i] = db.tombs[i] \/ (i = id /\ db'.tombs[i] = Restored(db.tombs[i]))
      /\ \A i \in DOMAIN db.tombs : \/ db'.tombs[i] = db.tombs[i]
                                    \/ /\ db.tombs[i].row.tenant = t
                                       /\ db'.tombs[i] = Restored(db.tombs[i]) \/ db'.tombs[i] = Purged(db.tombs[i])
  BY <1>3, <1>4, <1>6
<1>8. /\ GovTypeOK' /\ Numbered' /\ Original' /\ DecisionsFollow' /\ OfOthers(db)' = OfOthers(Seed)
      /\ \A q \in Requests : Sound(q)'
      /\ Known' /\ KeysHold' /\ Honest'
      /\ RowsStay /\ \A k : LiveAt(k)' = LiveAt(k)
  BY <1>1, <1>3, <1>5, <1>7, FlagStep
<1>9. ASSUME NEW k \in made \ hollow
      PROVE  Cardinality(Claims(k)') < Cardinality(LiveAt(k)') + Cardinality(Binned(k)')
  <2>1. Idle \in RequestStates /\ ~Claiming(Idle, k)
    BY DEF RequestStates, Idle, Claiming
  <2>2. Claiming(req[r], key)
    BY <1>1 DEF Claiming, key
  <2>3. /\ Cardinality(Claims(k)') \in Nat /\ Cardinality(Claims(k)') <= Cardinality(Claims(k))
        /\ k = key => Cardinality(Claims(k)') = Cardinality(Claims(k)) - 1
    BY <1>0, <1>3, <2>1, <2>2, ClaimsMove
  <2>4. Cardinality(Claims(k)) < Cardinality(LiveAt(k)) + Cardinality(Binned(k))
    BY DEF GovInv, Covered
  <2>5. \A i \in DOMAIN db.tombs : db'.tombs[i].row = db.tombs[i].row /\ (i # id => db'.tombs[i] = db.tombs[i])
    <3>1. \A i \in DOMAIN db.tombs : db.tombs[i] \in Tombstones
      BY <1>0
    <3> QED BY <1>7, <3>1 DEF Tombstones, Restored
  <2>6. CASE k # key
    <3>1. Binned(k)' = Binned(k)
      BY <1>6, <1>7, <2>5, <2>6 DEF Binned, key
    <3> QED BY <1>0, <1>8, <2>3, <2>4, <3>1, Sizes
  <2>7. CASE k = key
    <3>1. Binned(k) \ {id} \in SUBSET (Binned(k)')
      BY <1>7, <2>5 DEF Binned
    <3>2. IsFiniteSet(Binned(k)')
      <4>1. Binned(k)' \in SUBSET (DOMAIN db.tombs)
        BY <1>7 DEF Binned
      <4>2. IsFiniteSet(DOMAIN db.tombs)
        <5>1. Len(db.tombs) \in Nat /\ DOMAIN db.tombs = 1..Len(db.tombs)
          BY <1>0
        <5> QED BY <5>1, CountUpTo
      <4> QED BY <4>1, <4>2, FS_Subset
    <3>3. Cardinality(Binned(k)') \in Nat
      BY <3>2, FS_CardinalityType
    <3>4. IsFiniteSet(Binned(k)) /\ Cardinality(Binned(k)) \in Nat /\ Cardinality(LiveAt(k)) \in Nat /\ Cardinality(Claims(k)) \in Nat
      BY <1>0, Sizes
    <3>5. Cardinality(Binned(k) \ {id}) >= Cardinality(Binned(k)) - 1 /\ Cardinality(Binned(k) \ {id}) \in Int
      <4>1. Cardinality(Binned(k) \ {id}) = IF id \in Binned(k) THEN Cardinality(Binned(k)) - 1 ELSE Cardinality(Binned(k))
        BY <3>4, FS_RemoveElement
      <4> QED BY <3>4, <4>1
    <3>6. Cardinality(Binned(k) \ {id}) <= Cardinality(Binned(k)')
      BY <3>1, <3>2, FS_Subset
    <3> QED BY <1>8, <2>3, <2>4, <2>7, <3>3, <3>4, <3>5, <3>6
  <2> QED BY <2>6, <2>7
<1>10. Covered'
  BY <1>1, <1>9 DEF Covered
<1> QED BY <1>8, <1>10 DEF GovInv, Sound

\* What is purged is not restored.
LEMMA PurgeStep ==
    ASSUME GovInv, NEW r \in Requests, NEW p \in People, Purge(r, p)
    PROVE  GovInv' /\ RowsStay
<1>0. GovTypeOK /\ db.tombs \in Seq(Tombstones)
  BY DEF GovInv, GovTypeOK, Databases
<1>1. /\ backend' = backend /\ started' \in Nat /\ faults' \in Nat
      /\ made' = made /\ hollow' = hollow /\ raced' = raced
  BY <1>0, RequestBegins DEF Purge, history
<1>2. PICK id : Finish(r, MarkPurged(p.tenant, id))
  BY DEF Purge
<1> DEFINE e == MarkPurged(p.tenant, id)
<1>3. db' = e.db /\ Goto(r, Idle)
  BY <1>2 DEF Finish, Then
<1>4. /\ e.db \in Databases /\ e.db = [db EXCEPT !.tombs = e.db.tombs] /\ DOMAIN e.db.tombs = DOMAIN db.tombs
      /\ \A i \in DOMAIN db.tombs :
            \/ e.db.tombs[i] = db.tombs[i]
            \/ db.tombs[i].row.tenant = p.tenant /\ e.db.tombs[i] = Purged(db.tombs[i])
  BY <1>0, MarkPurgedEffect
<1> HIDE DEF e
<1>5. ~Foreigner(p.tenant)
  BY PeopleFields
<1>6. /\ db' \in Databases /\ db' = [db EXCEPT !.tombs = db'.tombs] /\ DOMAIN db'.tombs = DOMAIN db.tombs
      /\ \A i \in DOMAIN db.tombs : db'.tombs[i] = db.tombs[i] \/ db'.tombs[i] = Purged(db.tombs[i])
      /\ \A i \in DOMAIN db.tombs : \/ db'.tombs[i] = db.tombs[i]
                                    \/ /\ db.tombs[i].row.tenant = p.tenant
                                       /\ db'.tombs[i] = Restored(db.tombs[i]) \/ db'.tombs[i] = Purged(db.tombs[i])
  BY <1>3, <1>4
<1>7. /\ GovTypeOK' /\ Numbered' /\ Original' /\ DecisionsFollow' /\ OfOthers(db)' = OfOthers(Seed)
      /\ RowsStay /\ \A q \in Requests : Sound(q)'
  BY <1>1, <1>3, <1>5, <1>6, FlagStep
<1>8. Known' /\ KeysHold' /\ Covered' /\ Honest'
  <2>1. \A i \in DOMAIN db.tombs : db'.tombs[i].row = db.tombs[i].row /\ db'.tombs[i].restored = db.tombs[i].restored
    <3>1. \A i \in DOMAIN db.tombs : db.tombs[i] \in Tombstones
      BY <1>0
    <3> QED BY <1>6, <3>1 DEF Tombstones, Purged
  <2>2. Idle \in RequestStates /\ \A k : ~Claiming(Idle, k)
    BY DEF RequestStates, Idle, Claiming
  <2>3. ~Deleting(r)' /\ ~Restoring(r)'
    <3>1. req'[r] = Idle
      BY <1>0, <1>3, <2>2, OneMoves
    <3> QED BY <3>1 DEF Deleting, Restoring, Idle
  <2>4. db'.rows = db.rows
    BY <1>0, <1>6 DEF GovTypeOK, Databases
  <2> QED BY <1>1, <1>3, <1>6, <2>1, <2>2, <2>3, <2>4, KeptQuiet
<1> QED BY <1>7, <1>8 DEF GovInv, Sound

\* Rows come and go: requests, other tables and other tenants are left alone.
LEMMA RowsStep ==
    ASSUME GovInv, NEW r \in Requests, NEW s \in RequestStates, Goto(r, s), DeletesOn(r), RestoresOn(r), DecidesOn(r),
           db' \in Databases, db' = [db EXCEPT !.rows = db'.rows],
           \A x \in Picked(db'.rows, DOMAIN db'.rows) : x \in Recorded(db) \/ FromSeed(x),
           ForeignIn(db'.rows) = ForeignIn(db.rows),
           backend' = backend, raced' = raced, started' \in Nat, faults' \in Nat,
           made' \subseteq Kinds \X Nat, IsFiniteSet(made'), hollow' \subseteq Kinds \X Nat
    PROVE  /\ GovTypeOK' /\ Numbered' /\ Original' /\ DecisionsFollow' /\ OfOthers(db)' = OfOthers(Seed)
           /\ \A q \in Requests : Sound(q)'
           /\ db'.tombs = db.tombs /\ \A k : Binned(k)' = Binned(k)
<1>0. GovTypeOK /\ db \in Databases /\ Len(db.holds) \in Nat
  BY SMTT(20) DEF GovInv, GovTypeOK, Databases
<1>1. db'.tombs = db.tombs /\ db'.holds = db.holds /\ db'.dsrs = db.dsrs /\ db'.certs = db.certs
  BY <1>0 DEF Databases
<1>2. /\ req' \in [Requests -> RequestStates]
      /\ \A q \in Requests : DeletesOn(q) /\ RestoresOn(q) /\ DecidesOn(q)
  BY <1>0, OneMoves
<1>3. GovTypeOK'
  BY <1>0, <1>2 DEF GovTypeOK
<1>4. \A x \in Recorded(db)' : x \in Recorded(db) \/ FromSeed(x)
  <2>1. ASSUME NEW x \in Recorded(db)' PROVE x \in Recorded(db) \/ x \in Picked(db'.rows, DOMAIN db'.rows)
    BY <1>1 DEF Recorded, Picked
  <2> QED BY <2>1
<1>5. Numbered' /\ DecisionsFollow'
  BY <1>1, CertsQuiet DEF GovInv, Numbered
<1>6. Original'
  BY <1>1, <1>4, OwningQuiet
<1>7. \A q \in Requests : Sound(q)'
  BY <1>0, <1>1, <1>2, <1>4, QuietRequests
<1>8. OfOthers(db)' = OfOthers(Seed)
  BY <1>1, ApartQuiet
<1>9. \A k : Binned(k)' = Binned(k)
  BY <1>1 DEF Binned
<1> QED BY <1>1, <1>3, <1>5, <1>6, <1>7, <1>8, <1>9

\* The row goes; of those that share its key no other.
LEMMA RemoveStep ==
    ASSUME GovInv, NEW r \in Requests, Remove(r)
    PROVE  GovInv' /\ HeldRowsStay
<1>0. GovTypeOK /\ db \in Databases /\ db.rows \in Seq(LiveRows)
  BY DEF GovInv, GovTypeOK, Databases
<1>1. /\ backend' = backend /\ started' \in Nat /\ faults' \in Nat /\ req[r].at = "remove"
      /\ made' = made /\ hollow' = hollow /\ raced' = raced
  BY <1>0, RequestProceeds DEF Remove, history
<1> DEFINE row == req[r].row
           t == req[r].p.tenant
           e == Delete(row.kind, t, row.id)
<1>2. Deleting(r) /\ row \in LiveRows /\ req[r].p \in People /\ t \in Tenants /\ ~Foreigner(t)
  BY <1>0, <1>1, RequestFields, PeopleFields DEF Deleting
<1>3. db' = e.db /\ Goto(r, Idle)
  BY DEF Remove, Finish, Then
<1>4. row.kind \in Kinds
  BY <1>2 DEF LiveRows
<1> HIDE DEF row, t
<1>5. /\ e.db \in Databases /\ e.db = [db EXCEPT !.rows = e.db.rows]
      /\ \E gone \in SUBSET Hits(db.rows, row.kind, t, row.id) :
            /\ Shrinks(db.rows, DOMAIN db.rows \ gone, e.db.rows)
            /\ backend = "postgres" \/ row.kind # "policy" \/ \E i : gone \subseteq {i}
  <2> DEFINE Taken(kind, id, x) ==
                 /\ x.db \in Databases /\ x.db = [db EXCEPT !.rows = x.db.rows]
                 /\ \E gone \in SUBSET Hits(db.rows, kind, t, id) :
                       /\ Shrinks(db.rows, DOMAIN db.rows \ gone, x.db.rows)
                       /\ backend = "postgres" \/ kind # "policy" \/ \E i : gone \subseteq {i}
  <2>1. \A kind \in Kinds : \A id : \A x : x = Delete(kind, t, id) => Taken(kind, id, x)
    BY <1>0, <1>2, DeleteEffect
  <2>2. e = Delete(row.kind, t, row.id)
    OBVIOUS
  <2> HIDE DEF e, Taken
  <2>3. Taken(row.kind, row.id, e)
    BY <1>4, <2>1, <2>2
  <2> QED BY <2>3 DEF Taken
<1> HIDE DEF e
<1>6. PICK gone \in SUBSET Hits(db.rows, row.kind, t, row.id) :
         /\ Shrinks(db.rows, DOMAIN db.rows \ gone, e.db.rows)
         /\ backend = "postgres" \/ row.kind # "policy" \/ \E i : gone \subseteq {i}
  BY <1>5
<1>7. db' \in Databases /\ db' = [db EXCEPT !.rows = db'.rows] /\ Shrinks(db.rows, DOMAIN db.rows \ gone, db'.rows)
  BY <1>3, <1>5, <1>6
<1>8. \A i \in gone : i \in DOMAIN db.rows /\ KeyOf(db.rows[i]) = KeyOf(row) /\ db.rows[i].tenant = t /\ db.rows[i].kind = row.kind
  BY <1>6 DEF Hits, KeyOf
<1> DEFINE kept == DOMAIN db.rows \ gone
<1>9. /\ Picked(db'.rows, DOMAIN db'.rows) = Picked(db.rows, kept)
      /\ \A n, m \in DOMAIN db'.rows :
            n # m => \E i, j \in kept : i # j /\ db'.rows[n] = db.rows[i] /\ db'.rows[m] = db.rows[j]
      /\ \A k : Cardinality(Keyed(db'.rows, DOMAIN db'.rows, k)) = Cardinality(Keyed(db.rows, kept, k))
  <2>1. kept \in SUBSET (DOMAIN db.rows)
    OBVIOUS
  <2> HIDE DEF kept
  <2>2. Shrinks(db.rows, kept, db'.rows)
    BY <1>7 DEF kept
  <2>3. PICK table : table = db.rows /\ table \in Seq(LiveRows)
    BY <1>0
  <2>4. PICK rest : rest = db'.rows
    OBVIOUS
  <2>5. kept \in SUBSET (DOMAIN table) /\ Shrinks(table, kept, rest)
    BY <2>1, <2>2, <2>3, <2>4
  <2>6. /\ Picked(rest, DOMAIN rest) = Picked(table, kept)
        /\ \A n, m \in DOMAIN rest :
              n # m => \E i, j \in kept : i # j /\ rest[n] = table[i] /\ rest[m] = table[j]
        /\ \A k : Cardinality(Keyed(rest, DOMAIN rest, k)) = Cardinality(Keyed(table, kept, k))
    BY <2>3, <2>5, WhatShrinks
  <2> QED BY <2>3, <2>4, <2>6
<1>10. Idle \in RequestStates /\ Idle.at = "idle" /\ \A k : ~Claiming(Idle, k)
  BY DEF RequestStates, Idle, Claiming
<1>11. /\ req'[r] = Idle
       /\ \A q \in Requests : q # r => req'[q] = req[q] /\ DeletesOn(q) /\ RestoresOn(q) /\ DecidesOn(q)
  BY <1>0, <1>3, <1>10, OneMoves
<1>12. DeletesOn(r) /\ RestoresOn(r) /\ DecidesOn(r)
  BY <1>10, <1>11 DEF DeletesOn, RestoresOn, DecidesOn, Deleting, Restoring, At
<1>13. \A x \in Picked(db'.rows, DOMAIN db'.rows) : x \in Recorded(db)
  BY <1>9 DEF Picked, Recorded
<1>14. ForeignIn(db'.rows) = ForeignIn(db.rows)
  <2>1. \A table : ForeignIn(table) = {x \in Picked(table, DOMAIN table) : Foreigner(x.tenant)}
    BY DEF ForeignIn, Picked
  <2>2. {x \in Picked(db.rows, kept) : Foreigner(x.tenant)} = {x \in Picked(db.rows, DOMAIN db.rows) : Foreigner(x.tenant)}
    BY <1>2, <1>8 DEF Picked
  <2> QED BY <1>9, <2>1, <2>2
<1>15. made' \subseteq Kinds \X Nat /\ IsFiniteSet(made') /\ hollow' \subseteq Kinds \X Nat
  BY <1>0, <1>1 DEF GovTypeOK
<1>16. /\ GovTypeOK' /\ Numbered' /\ Original' /\ DecisionsFollow' /\ OfOthers(db)' = OfOthers(Seed)
       /\ \A q \in Requests : Sound(q)'
       /\ db'.tombs = db.tombs /\ \A k : Binned(k)' = Binned(k)
  BY <1>1, <1>3, <1>7, <1>10, <1>12, <1>13, <1>14, <1>15, RowsStep
<1>17. Known'
  <2>1. ASSUME NEW x \in Recorded(db)' PROVE KeyOf(x) \in made
    <3>1. x \in Recorded(db)
      BY <1>13, <1>16, <2>1 DEF Recorded, Picked
    <3> QED BY <3>1 DEF GovInv, Known
  <2>2. ASSUME NEW q \in Requests
        PROVE  /\ Deleting(q)' => KeyOf(req'[q].row) \in made
               /\ Restoring(q)' => KeyOf(req'[q].tomb.row) \in made
    BY <1>11, <1>12 DEF DeletesOn, RestoresOn, GovInv, Known
  <2> QED BY <1>1, <2>1, <2>2 DEF Known
<1>18. KeysHold'
  BY <1>1, <1>9 DEF GovInv, KeysHold
<1>19. \E i : gone \subseteq {i}
  <2>1. CASE backend = "postgres" \/ row.kind # "policy"
    <3>1. \A i, j \in gone : i = j
      BY <1>8, <2>1 DEF GovInv, KeysHold
    <3>2. CASE gone = {}
      BY <3>2
    <3>3. CASE gone # {}
      BY <3>1, <3>3
    <3> QED BY <3>2, <3>3
  <2> QED BY <1>6, <2>1
<1>20. ASSUME NEW k \in made \ hollow
       PROVE  Cardinality(Claims(k)') < Cardinality(LiveAt(k)') + Cardinality(Binned(k)')
  <2>1. Claiming(req[r], KeyOf(row))
    BY <1>1 DEF Claiming, row
  <2>2. /\ Cardinality(Claims(k)') \in Nat /\ Cardinality(Claims(k)') <= Cardinality(Claims(k))
        /\ k = KeyOf(row) => Cardinality(Claims(k)') = Cardinality(Claims(k)) - 1
    BY <1>0, <1>3, <1>10, <2>1, ClaimsMove
  <2>3. Cardinality(Claims(k)) < Cardinality(LiveAt(k)) + Cardinality(Binned(k))
    BY DEF GovInv, Covered
  <2>4. /\ IsFiniteSet(LiveAt(k)) /\ Cardinality(LiveAt(k)) \in Nat
        /\ Cardinality(Binned(k)) \in Nat /\ Cardinality(Claims(k)) \in Nat
    BY <1>0, Sizes
  <2>5. Keyed(db.rows, kept, k) = LiveAt(k) \ gone
    BY DEF LiveAt, Keyed
  <2>6. Cardinality(LiveAt(k)') = Cardinality(LiveAt(k) \ gone)
    <3>1. LiveAt(k)' = Keyed(db'.rows, DOMAIN db'.rows, k)
      BY DEF LiveAt, Keyed
    <3> QED BY <1>9, <2>5, <3>1
  <2>7. CASE k # KeyOf(row)
    <3>1. LiveAt(k) \ gone = LiveAt(k)
      BY <1>8, <2>7 DEF LiveAt
    <3>2. Cardinality(LiveAt(k)') = Cardinality(LiveAt(k)) /\ Binned(k)' = Binned(k)
      BY <1>16, <2>6, <3>1
    <3> QED BY <2>2, <2>3, <2>4, <3>2
  <2>8. CASE k = KeyOf(row)
    <3>1. PICK i : gone \subseteq {i}
      BY <1>19
    <3>2. LiveAt(k) \ {i} \in SUBSET (LiveAt(k) \ gone) /\ LiveAt(k) \ gone \in SUBSET LiveAt(k)
      BY <3>1
    <3>3. IsFiniteSet(LiveAt(k) \ gone)
      BY <2>4, <3>2, FS_Subset
    <3>4. Cardinality(LiveAt(k) \ gone) \in Nat /\ Cardinality(LiveAt(k) \ {i}) <= Cardinality(LiveAt(k) \ gone)
      BY <3>2, <3>3, FS_Subset, FS_CardinalityType
    <3>5. Cardinality(LiveAt(k) \ {i}) = IF i \in LiveAt(k) THEN Cardinality(LiveAt(k)) - 1 ELSE Cardinality(LiveAt(k))
      BY <2>4, FS_RemoveElement
    <3> QED BY <1>16, <2>2, <2>3, <2>4, <2>6, <2>8, <3>4, <3>5
  <2> QED BY <2>7, <2>8
<1>21. Covered' /\ Honest'
  BY <1>1, <1>20 DEF Covered, Honest, GovInv
<1>22. ASSUME NEW i \in DOMAIN db.rows, Where(db'.rows, LAMBDA x : x = db.rows[i]) = {}, NEW h \in DOMAIN db.holds,
              db.holds[h].tenant = db.rows[i].tenant, Matches(db.holds[h], db.rows[i].kind, db.rows[i].id, {})
       PROVE  At(r, "remove") /\ h > req[r].held /\ KeyOf(req[r].row) = KeyOf(db.rows[i])
  <2>1. \A n \in DOMAIN db'.rows : db'.rows[n] # db.rows[i]
    BY <1>22 DEF Where
  <2>2. i \notin kept
    BY <1>9, <2>1 DEF Picked
  <2>3. KeyOf(db.rows[i]) = KeyOf(row) /\ db.rows[i].tenant = t
    BY <1>8, <2>2
  <2>4. db.rows[i].kind = row.kind /\ db.rows[i].id = row.id /\ row.tenant = t
    BY <1>2, <2>3 DEF KeyOf, GovInv, DeletesOwn, row, t
  <2>5. Clear(r)
    BY DEF GovInv
  <2>6. h \in 1..Len(db.holds) /\ Len(db.holds) \in Nat
    BY <1>0, <1>22 DEF Databases
  <2>7. req[r].held \in Nat
    BY <1>0, <1>2, RequestFields
  <2>8. h \notin 1..req[r].held
    BY <1>2, <1>22, <2>3, <2>4, <2>5 DEF Clear, row
  <2>9. h > req[r].held
    BY <2>6, <2>7, <2>8
  <2> QED BY <1>1, <2>3, <2>9 DEF At, row
<1>23. HeldRowsStay
  BY <1>22 DEF HeldRowsStay
<1> QED BY <1>16, <1>17, <1>18, <1>21, <1>23 DEF GovInv, Sound

\* A row is added, by the restorer or by the handler that makes rules.
LEMMA RowAddedStep ==
    ASSUME GovInv, NEW r \in Requests, NEW s \in RequestStates, Goto(r, s), DeletesOn(r), RestoresOn(r), DecidesOn(r),
           NEW row \in LiveRows, ~Foreigner(row.tenant), FromSeed(row),
           db' = [db EXCEPT !.rows = Append(db.rows, row)],
           backend = "postgres" \/ row.kind # "policy" => \A i \in DOMAIN db.rows : KeyOf(db.rows[i]) # KeyOf(row),
           \A k : Claiming(s, k) => k = KeyOf(row) /\ k \in made,
           made' = made \cup {KeyOf(row)}, hollow' = hollow,
           backend' = backend, raced' = raced, started' \in Nat, faults' \in Nat
    PROVE  GovInv' /\ RowsStay
<1>0. GovTypeOK /\ db \in Databases /\ db.rows \in Seq(LiveRows)
  BY DEF GovInv, GovTypeOK, Databases
<1> DEFINE last == Len(db.rows) + 1
           key == KeyOf(row)
<1>1. db'.rows = Append(db.rows, row) /\ db' = [db EXCEPT !.rows = db'.rows]
  BY <1>0 DEF Databases
<1>2. /\ Len(db.rows) \in Nat /\ DOMAIN db'.rows = DOMAIN db.rows \cup {last}
      /\ last \notin DOMAIN db.rows /\ db'.rows[last] = row
      /\ \A i \in DOMAIN db.rows : db'.rows[i] = db.rows[i]
      /\ db'.rows \in Seq(LiveRows)
  BY <1>0, <1>1, Appended
<1>3. db' \in Databases
  BY <1>0, <1>1, <1>2 DEF Databases
<1> HIDE DEF last
<1>4. \A x \in Picked(db'.rows, DOMAIN db'.rows) : x \in Recorded(db) \/ x = row
  BY <1>2 DEF Picked, Recorded
<1>5. ForeignIn(db'.rows) = ForeignIn(db.rows)
  BY <1>0, <1>1, OwnRowAdded
<1>6. made' \subseteq Kinds \X Nat /\ IsFiniteSet(made') /\ hollow' \subseteq Kinds \X Nat
  <2>1. key \in Kinds \X Nat
    BY DEF LiveRows, KeyOf
  <2> HIDE DEF key
  <2>2. made \subseteq Kinds \X Nat /\ IsFiniteSet(made) /\ made' = made \cup {key} /\ hollow' \subseteq Kinds \X Nat
    BY <1>0 DEF GovTypeOK, key
  <2>3. IsFiniteSet(made \cup {key})
    BY <2>2, FS_AddElement
  <2> QED BY <2>1, <2>2, <2>3
<1>7. \A x \in Picked(db'.rows, DOMAIN db'.rows) : x \in Recorded(db) \/ FromSeed(x)
  BY <1>4
<1>8. /\ GovTypeOK' /\ Numbered' /\ Original' /\ DecisionsFollow' /\ OfOthers(db)' = OfOthers(Seed)
      /\ \A q \in Requests : Sound(q)'
      /\ db'.tombs = db.tombs /\ \A k : Binned(k)' = Binned(k)
  BY <1>1, <1>3, <1>5, <1>6, <1>7, RowsStep
<1>9. \A q \in Requests : DeletesOn(q) /\ RestoresOn(q)
  BY <1>0, OneMoves
<1>10. Known'
  <2>1. ASSUME NEW x \in Recorded(db)' PROVE KeyOf(x) \in made'
    <3>1. x \in Recorded(db) \/ x = row
      BY <1>4, <1>8, <2>1 DEF Recorded, Picked
    <3> QED BY <3>1 DEF GovInv, Known
  <2>2. ASSUME NEW q \in Requests
        PROVE  /\ Deleting(q)' => KeyOf(req'[q].row) \in made'
               /\ Restoring(q)' => KeyOf(req'[q].tomb.row) \in made'
    BY <1>9 DEF DeletesOn, RestoresOn, GovInv, Known
  <2> QED BY <2>1, <2>2 DEF Known
<1>11. KeysHold'
  <2>1. ASSUME NEW i \in DOMAIN db'.rows, NEW j \in DOMAIN db'.rows, KeyOf(db'.rows[i]) = KeyOf(db'.rows[j]),
               backend = "postgres" \/ db'.rows[i].kind # "policy"
        PROVE  i = j
    <3>1. CASE i \in DOMAIN db.rows /\ j \in DOMAIN db.rows
      BY <1>2, <2>1, <3>1 DEF GovInv, KeysHold
    <3>2. CASE i = last /\ j \in DOMAIN db.rows
      BY <1>2, <2>1, <3>2
    <3>3. CASE i \in DOMAIN db.rows /\ j = last
      <4>1. KeyOf(db.rows[i]) = KeyOf(row) /\ (backend = "postgres" \/ db.rows[i].kind # "policy")
        BY <1>2, <2>1, <3>3
      <4>2. db.rows[i].kind = row.kind
        BY <4>1 DEF KeyOf
      <4> QED BY <3>3, <4>1, <4>2
    <3> QED BY <1>2, <2>1, <3>1, <3>2, <3>3
  <2> QED BY <2>1 DEF KeysHold
<1>12. ASSUME NEW k \in made' \ hollow
       PROVE  Cardinality(Claims(k)') < Cardinality(LiveAt(k)') + Cardinality(Binned(k)')
  <2>1. /\ Cardinality(Claims(k)') \in Nat /\ Cardinality(Claims(k)') <= Cardinality(Claims(k)) + 1
        /\ ~Claiming(s, k) => Cardinality(Claims(k)') <= Cardinality(Claims(k))
    BY <1>0, ClaimsMove
  <2>2. /\ IsFiniteSet(LiveAt(k)) /\ Cardinality(LiveAt(k)) \in Nat
        /\ Cardinality(Binned(k)) \in Nat /\ Cardinality(Claims(k)) \in Nat
    BY <1>0, Sizes
  <2>3. k \in made => Cardinality(Claims(k)) < Cardinality(LiveAt(k)) + Cardinality(Binned(k))
    BY <1>12 DEF GovInv, Covered
  <2>4. CASE k # key
    <3>1. LiveAt(k)' = LiveAt(k)
      BY <1>2, <2>4 DEF LiveAt
    <3>2. k \in made /\ ~Claiming(s, k)
      BY <1>12, <2>4
    <3> QED BY <1>8, <2>1, <2>2, <2>3, <3>1, <3>2
  <2>5. CASE k = key
    <3>1. LiveAt(k)' = LiveAt(k) \cup {last} /\ last \notin LiveAt(k)
      BY <1>2, <2>5 DEF LiveAt
    <3>2. Cardinality(LiveAt(k)') = Cardinality(LiveAt(k)) + 1
      BY <2>2, <3>1, FS_AddElement
    <3>3. CASE k \in made
      BY <1>8, <2>1, <2>2, <2>3, <3>2, <3>3
    <3>4. CASE k \notin made
      <4>1. Claims(k) = {}
        BY <3>4 DEF Claims, GovInv, Known, Deleting, Restoring, At
      <4>2. Cardinality(Claims(k)) = 0
        BY <4>1, FS_EmptySet
      <4>3. ~Claiming(s, k)
        BY <3>4
      <4> QED BY <1>8, <2>1, <2>2, <3>2, <4>2, <4>3
    <3> QED BY <3>3, <3>4
  <2> QED BY <2>4, <2>5
<1>13. Covered' /\ Honest'
  BY <1>12 DEF Covered, Honest, GovInv
<1>14. RowsStay
  BY <1>2 DEF RowsStay
<1> QED BY <1>8, <1>10, <1>11, <1>13, <1>14 DEF GovInv, Sound

\* A rule counts as restored, and so does a row in memory that is there.
LEMMA NothingAddedStep ==
    ASSUME GovInv, NEW r \in Requests, At(r, "recreate"), Goto(r, [req[r] EXCEPT !.at = "mark"]), db' = db,
           backend = "postgres" => req[r].tomb.row.kind = "policy",
           made' = made, hollow' = hollow \cup {KeyOf(req[r].tomb.row)},
           backend' = backend, raced' = raced, started' \in Nat, faults' \in Nat
    PROVE  GovInv' /\ RowsStay
<1>0. GovTypeOK /\ db \in Databases
  BY DEF GovInv, GovTypeOK
<1> DEFINE row == req[r].tomb.row
           s == [req[r] EXCEPT !.at = "mark"]
           key == KeyOf(row)
<1>1. Restoring(r) /\ req[r].p \in People /\ req[r].tomb \in Tombstones /\ row \in LiveRows /\ key \in made
  BY <1>0, RequestFields DEF Restoring, At, GovInv, Known
<1>2. s = [at |-> "mark", p |-> req[r].p, tomb |-> req[r].tomb]
  <2>1. req[r] = [at |-> req[r].at, p |-> req[r].p, tomb |-> req[r].tomb]
    BY <1>0, <1>1, RequestFields
  <2> QED BY <2>1
<1>3. s \in RequestStates /\ s.at = "mark" /\ s.p = req[r].p /\ s.tomb = req[r].tomb
  BY <1>1, <1>2 DEF RequestStates
<1>4. \A k : Claiming(s, k) => k = key
  BY <1>3 DEF Claiming
<1> HIDE DEF s
<1>5. Goto(r, s)
  BY DEF s
<1>6. /\ req'[r] = s
      /\ \A q \in Requests : q # r => req'[q] = req[q] /\ DeletesOn(q) /\ RestoresOn(q) /\ DecidesOn(q)
  BY <1>0, <1>3, <1>5, OneMoves
<1>7. DeletesOn(r) /\ RestoresOn(r) /\ DecidesOn(r)
  BY <1>1, <1>3, <1>6 DEF DeletesOn, RestoresOn, DecidesOn, Deleting, At
<1>8. key \in Kinds \X Nat /\ key[1] = row.kind
  BY <1>1 DEF LiveRows, KeyOf
<1> HIDE DEF key, row
<1>9. made' \subseteq Kinds \X Nat /\ IsFiniteSet(made') /\ hollow' \subseteq Kinds \X Nat
  BY <1>0, <1>8 DEF GovTypeOK, key, row
<1>10. db = [db EXCEPT !.rows = db.rows]
  BY <1>0 DEF Databases
<1>11. \A x \in Picked(db.rows, DOMAIN db.rows) : x \in Recorded(db)
  BY DEF Picked, Recorded
<1>12. /\ GovTypeOK' /\ Numbered' /\ Original' /\ DecisionsFollow' /\ OfOthers(db)' = OfOthers(Seed)
       /\ \A q \in Requests : Sound(q)'
       /\ \A k : Binned(k)' = Binned(k)
  BY <1>0, <1>3, <1>5, <1>7, <1>9, <1>10, <1>11, RowsStep
<1>13. Known'
  <2>1. Recorded(db)' = Recorded(db)
    BY DEF Recorded
  <2>2. ASSUME NEW q \in Requests
        PROVE  /\ Deleting(q)' => KeyOf(req'[q].row) \in made
               /\ Restoring(q)' => KeyOf(req'[q].tomb.row) \in made
    BY <1>6, <1>7 DEF DeletesOn, RestoresOn, GovInv, Known
  <2> QED BY <2>1, <2>2 DEF GovInv, Known
<1>14. KeysHold'
  BY DEF GovInv, KeysHold
<1>15. ASSUME NEW k \in made \ hollow'
       PROVE  Cardinality(Claims(k)') < Cardinality(LiveAt(k)') + Cardinality(Binned(k)')
  <2>1. ~Claiming(s, k) /\ k \in made \ hollow
    BY <1>4, <1>15 DEF key, row
  <2>2. Cardinality(Claims(k)') \in Nat /\ Cardinality(Claims(k)') <= Cardinality(Claims(k))
    BY <1>0, <1>3, <1>5, <2>1, ClaimsMove
  <2>3. Cardinality(Claims(k)) < Cardinality(LiveAt(k)) + Cardinality(Binned(k))
    BY <2>1 DEF GovInv, Covered
  <2>4. LiveAt(k)' = LiveAt(k)
    BY DEF LiveAt
  <2> QED BY <1>0, <1>12, <2>2, <2>3, <2>4, Sizes
<1>16. Covered'
  BY <1>15 DEF Covered
<1>17. Honest'
  BY <1>8 DEF Honest, GovInv, key, row
<1>18. RowsStay
  BY DEF RowsStay
<1> QED BY <1>12, <1>13, <1>14, <1>16, <1>17, <1>18 DEF GovInv, Sound

\* The restore handler's second call.
LEMMA RecreateStep ==
    ASSUME GovInv, NEW r \in Requests, Recreate(r)
    PROVE  GovInv' /\ RowsStay
<1>0. GovTypeOK /\ Original /\ db \in Databases /\ db.rows \in Seq(LiveRows) /\ db.tombs \in Seq(Tombstones)
  BY DEF GovInv, GovTypeOK, Databases
<1>1. /\ backend' = backend /\ started' \in Nat /\ faults' \in Nat /\ req[r].at = "recreate"
      /\ made' = made /\ raced' = raced
  BY <1>0, RequestProceeds DEF Recreate
<1> DEFINE row == req[r].tomb.row
           s == [req[r] EXCEPT !.at = "mark"]
           key == KeyOf(row)
           e == Restorer(row)
<1>2. /\ Restoring(r) /\ RestoresOwn(r) /\ req[r].p \in People /\ req[r].tomb \in Tombstones /\ row \in LiveRows
      /\ key \in made
  BY <1>0, <1>1, RequestFields DEF Restoring, GovInv, Known
<1>3. row \in Recorded(db) /\ row.tenant = req[r].p.tenant
  BY <1>2 DEF RestoresOwn, Recorded
<1>4. FromSeed(row) /\ ~Foreigner(row.tenant)
  BY <1>0, <1>2, <1>3, PeopleFields DEF Original
<1>5. RowPut(row, e)
  BY <1>0, <1>2, <1>4, RestorerEffect
<1>6. /\ db' = e.db /\ Goto(r, IF e.err = "ok" THEN s ELSE Idle)
      /\ hollow' = IF e.err = "ok" /\ Len(db'.rows) = Len(db.rows) THEN hollow \cup {key} ELSE hollow
  BY DEF Recreate, Then
<1> HIDE DEF e
<1>7. CASE e.db = db /\ e.err = "ok"
  <2>1. Len(db'.rows) = Len(db.rows) /\ Goto(r, s) /\ hollow' = hollow \cup {key} /\ db' = db
    BY <1>6, <1>7
  <2>2. backend = "postgres" => row.kind = "policy"
    <3>1. Append(db.rows, row) # db.rows
      BY <1>0
    <3>2. [db EXCEPT !.rows = Append(db.rows, row)].rows = Append(db.rows, row)
      BY <1>0 DEF Databases
    <3> QED BY <1>5, <1>7, <3>1, <3>2 DEF RowPut
  <2> QED BY <1>1, <2>1, <2>2, NothingAddedStep DEF At
<1>8. CASE e.db = db /\ e.err # "ok"
  <2>1. Goto(r, Idle) /\ hollow' = hollow /\ db' = db
    BY <1>6, <1>8
  <2>2. Opens(Idle)
    BY DEF Opens
  <2> QED BY <1>1, <2>1, <2>2, OpenStep
<1>9. CASE e.db # db
  <2>1. /\ e.err = "ok" /\ e.db = [db EXCEPT !.rows = Append(db.rows, row)]
        /\ backend = "postgres" \/ row.kind # "policy" => \A i \in DOMAIN db.rows : KeyOf(db.rows[i]) # KeyOf(row)
    BY <1>5, <1>9 DEF RowPut
  <2>2. Goto(r, s) /\ db' = [db EXCEPT !.rows = Append(db.rows, row)]
    BY <1>6, <2>1
  <2>3. s = [at |-> "mark", p |-> req[r].p, tomb |-> req[r].tomb]
    <3>1. req[r] = [at |-> req[r].at, p |-> req[r].p, tomb |-> req[r].tomb]
      BY <1>0, <1>2, RequestFields
    <3> QED BY <3>1
  <2>4. s \in RequestStates /\ s.at = "mark" /\ s.p = req[r].p /\ s.tomb = req[r].tomb
    BY <1>2, <2>3 DEF RequestStates
  <2>5. \A k : Claiming(s, k) => k = key /\ k \in made
    BY <1>2, <2>4 DEF Claiming
  <2> HIDE DEF s
  <2>6. req'[r] = s
    BY <1>0, <2>2, <2>4, OneMoves
  <2>7. DeletesOn(r) /\ RestoresOn(r) /\ DecidesOn(r)
    BY <1>2, <2>4, <2>6 DEF DeletesOn, RestoresOn, DecidesOn, Deleting, At
  <2>8. hollow' = hollow
    <3>1. Len(Append(db.rows, row)) # Len(db.rows)
      BY <1>0
    <3>2. db'.rows = Append(db.rows, row)
      BY <1>0, <2>2 DEF Databases
    <3> QED BY <1>6, <3>1, <3>2
  <2>9. made' = made \cup {key}
    BY <1>1, <1>2
  <2> QED BY <1>1, <1>2, <1>4, <2>1, <2>2, <2>4, <2>5, <2>7, <2>8, <2>9, RowAddedStep
<1> QED BY <1>7, <1>8, <1>9

\* The same for a rule whose INSERT fails.
LEMMA RuleNotRestoredStep ==
    ASSUME GovInv, NEW r \in Requests, RuleNotRestored(r)
    PROVE  GovInv' /\ RowsStay
<1>1. faults' \in Nat /\ started' \in Nat
  BY DEF RuleNotRestored, GovInv, GovTypeOK
<1> QED BY <1>1, NothingAddedStep DEF RuleNotRestored

\* A new rule.
LEMMA CreatePolicyStep ==
    ASSUME GovInv, NEW r \in Requests, NEW p \in People, CreatePolicy(r, p)
    PROVE  GovInv' /\ RowsStay
<1>0. GovTypeOK /\ db \in Databases /\ db.rows \in Seq(LiveRows) /\ Original
  BY DEF GovInv, GovTypeOK, Databases
<1>1. backend' = backend /\ started' \in Nat /\ faults' \in Nat /\ hollow' = hollow /\ raced' = raced
  BY <1>0, RequestBegins DEF CreatePolicy
<1>2. PICK body \in DOMAIN Bodies, id \in {1 + Cardinality(made)} \cup {k[2] : k \in {k \in made : k[1] = "policy"}} :
         /\ Finish(r, AddRule([kind |-> "policy", tenant |-> p.tenant, id |-> id, body |-> body]))
         /\ made' = made \cup {<<"policy", id>>}
  BY DEF CreatePolicy
<1> DEFINE row == [kind |-> "policy", tenant |-> p.tenant, id |-> id, body |-> body]
           e == AddRule(row)
<1>3. id \in Nat
  <2>1. Cardinality(made) \in Nat
    BY <1>0, FS_CardinalityType DEF GovTypeOK
  <2>2. \A k \in made : k[2] \in Nat
    BY <1>0 DEF GovTypeOK
  <2> QED BY <2>1, <2>2
<1>4. row \in LiveRows /\ row.kind = "policy" /\ row.tenant = p.tenant /\ KeyOf(row) = <<"policy", id>>
  BY <1>3, PeopleFields, GovernanceAssumption DEF LiveRows, Kinds, KeyOf
<1>5. RowPut(row, e)
  BY <1>0, <1>4, AddRuleEffect
<1>6. db' = e.db /\ Goto(r, Idle) /\ made' = made \cup {KeyOf(row)}
  BY <1>2, <1>4 DEF Finish, Then
<1> HIDE DEF e, row
<1>7. Idle \in RequestStates /\ Idle.at = "idle" /\ \A k : ~Claiming(Idle, k)
  BY DEF RequestStates, Idle, Claiming
<1>8. CASE e.db = db
  <2>1. \E i \in DOMAIN db.rows : KeyOf(db.rows[i]) = KeyOf(row)
    BY <1>0, <1>5, <1>8, <1>4 DEF RowPut, Databases
  <2>2. KeyOf(row) \in made
    BY <2>1 DEF GovInv, Known, Recorded
  <2>3. made' = made
    BY <1>6, <2>2
  <2>4. Opens(Idle)
    BY DEF Opens
  <2> QED BY <1>1, <1>6, <1>8, <2>3, <2>4, OpenStep
<1>9. CASE e.db # db
  <2>1. /\ e.db = [db EXCEPT !.rows = Append(db.rows, row)]
        /\ backend = "postgres" \/ row.kind # "policy" => \A i \in DOMAIN db.rows : KeyOf(db.rows[i]) # KeyOf(row)
    BY <1>5, <1>9 DEF RowPut
  <2>2. FromSeed(row) /\ ~Foreigner(row.tenant)
    BY <1>4, PeopleFields DEF FromSeed
  <2>3. req'[r] = Idle
    BY <1>0, <1>6, <1>7, OneMoves
  <2>4. DeletesOn(r) /\ RestoresOn(r) /\ DecidesOn(r)
    BY <1>7, <2>3 DEF DeletesOn, RestoresOn, DecidesOn, Deleting, Restoring, At
  <2>5. db' = [db EXCEPT !.rows = Append(db.rows, row)]
    BY <1>6, <2>1
  <2> QED BY <1>1, <1>4, <1>6, <1>7, <2>1, <2>2, <2>4, <2>5, RowAddedStep
<1> QED BY <1>8, <1>9

(***************************************************************************)
(* Holds, data subject requests and certifications                         *)
(***************************************************************************)
\* A handler's only call changes the holds or the data subject requests.
LEMMA OtherTableStep ==
    ASSUME GovInv, NEW r \in Requests, Goto(r, Idle), db' \in Databases,
           db'.rows = db.rows, db'.tombs = db.tombs, db'.certs = db.certs,
           Len(db.holds) <= Len(db'.holds),
           \A h \in 1..Len(db.holds) : db'.holds[h] = db.holds[h] \/ db'.holds[h] = Released(db.holds[h]),
           ForeignIn(db'.holds) = ForeignIn(db.holds), ForeignIn(db'.dsrs) = ForeignIn(db.dsrs),
           backend' = backend, made' = made, hollow' = hollow, raced' = raced, started' \in Nat, faults' \in Nat
    PROVE  GovInv' /\ RowsStay
<1>0. GovTypeOK /\ Len(db'.holds) \in Nat
  BY DEF GovInv, Databases
<1>1. Idle \in RequestStates /\ Idle.at = "idle" /\ \A k : ~Claiming(Idle, k)
  BY DEF RequestStates, Idle, Claiming
<1>2. /\ req' \in [Requests -> RequestStates] /\ req'[r] = Idle
      /\ \A q \in Requests : q # r => req'[q] = req[q] /\ DeletesOn(q) /\ RestoresOn(q) /\ DecidesOn(q)
  BY <1>0, <1>1, OneMoves
<1>3. DeletesOn(r) /\ RestoresOn(r) /\ DecidesOn(r) /\ ~Deleting(r)' /\ ~Restoring(r)'
  BY <1>1, <1>2 DEF DeletesOn, RestoresOn, DecidesOn, Deleting, Restoring, At
<1>4. GovTypeOK'
  BY <1>0, <1>2 DEF GovTypeOK
<1>5. Recorded(db)' = Recorded(db)
  BY DEF Recorded
<1>6. Numbered' /\ DecisionsFollow'
  BY CertsQuiet DEF GovInv, Numbered
<1>7. Original'
  BY <1>5, OwningQuiet
<1>8. \A q \in Requests : Sound(q)'
  BY <1>0, <1>2, <1>3, <1>5, QuietRequests
<1>9. OfOthers(db)' = OfOthers(Seed)
  BY ApartQuiet
<1>10. Known' /\ KeysHold' /\ Covered' /\ Honest'
  BY <1>1, <1>3, KeptQuiet
<1>11. RowsStay
  BY DEF RowsStay
<1> QED BY <1>4, <1>6, <1>7, <1>8, <1>9, <1>10, <1>11 DEF GovInv, Sound

\* A new hold.
LEMMA IssueHoldStep ==
    ASSUME GovInv, NEW r \in Requests, NEW p \in People, IssueHold(r, p)
    PROVE  GovInv' /\ RowsStay
<1>0. GovTypeOK /\ db \in Databases /\ db.holds \in Seq(HoldRows)
  BY DEF GovInv, GovTypeOK, Databases
<1>1. /\ backend' = backend /\ started' \in Nat /\ faults' \in Nat
      /\ made' = made /\ hollow' = hollow /\ raced' = raced
  BY <1>0, RequestBegins DEF IssueHold, history
<1>2. PICK s \in Scopes, released \in BOOLEAN :
         Finish(r, Issue([id |-> 0, tenant |-> p.tenant, types |-> s.types, ids |-> s.ids, tags |-> s.tags,
                          released |-> released]))
  BY DEF IssueHold
<1> DEFINE h == [id |-> 0, tenant |-> p.tenant, types |-> s.types, ids |-> s.ids, tags |-> s.tags, released |-> released]
           e == Issue(h)
<1>3. h \in HoldRows /\ h.tenant = p.tenant
  BY PeopleFields, GovernanceAssumption DEF HoldRows
<1>4. db' = e.db /\ Goto(r, Idle)
  BY <1>2 DEF Finish, Then
<1> HIDE DEF h
<1>5. /\ e.db \in Databases
      /\ \E hold \in HoldRows : hold.tenant = h.tenant /\ e.db = [db EXCEPT !.holds = Append(db.holds, hold)]
  BY <1>0, <1>3, IssueEffect, ZenonT(40)
<1> HIDE DEF e
<1>6. PICK hold \in HoldRows : hold.tenant = p.tenant /\ e.db = [db EXCEPT !.holds = Append(db.holds, hold)]
  BY <1>3, <1>5
<1>7. /\ db'.holds = Append(db.holds, hold) /\ db'.rows = db.rows /\ db'.tombs = db.tombs
      /\ db'.dsrs = db.dsrs /\ db'.certs = db.certs /\ db' \in Databases
  BY <1>0, <1>4, <1>5, <1>6 DEF Databases
<1>8. ~Foreigner(hold.tenant)
  BY <1>6, PeopleFields
<1>9. ForeignIn(db'.holds) = ForeignIn(db.holds)
  BY <1>0, <1>7, <1>8, OwnRowAdded
<1>10. /\ Len(db.holds) <= Len(db'.holds)
       /\ \A i \in 1..Len(db.holds) : db'.holds[i] = db.holds[i]
  BY <1>0, <1>7
<1> QED BY <1>1, <1>4, <1>7, <1>9, <1>10, OtherTableStep

\* The end of a hold.
LEMMA ReleaseHoldStep ==
    ASSUME GovInv, NEW r \in Requests, NEW p \in People, ReleaseHold(r, p)
    PROVE  GovInv' /\ RowsStay
<1>0. GovTypeOK /\ db \in Databases /\ db.holds \in Seq(HoldRows)
  BY DEF GovInv, GovTypeOK, Databases
<1>1. /\ backend' = backend /\ started' \in Nat /\ faults' \in Nat
      /\ made' = made /\ hollow' = hollow /\ raced' = raced
  BY <1>0, RequestBegins DEF ReleaseHold, history
<1>2. PICK id : Finish(r, Release(p.tenant, id))
  BY DEF ReleaseHold
<1> DEFINE t == p.tenant
           e == Release(t, id)
<1>3. db' = e.db /\ Goto(r, Idle)
  BY <1>2 DEF Finish, Then
<1>4. /\ e.db \in Databases /\ e.db = [db EXCEPT !.holds = e.db.holds]
      /\ DOMAIN e.db.holds = DOMAIN db.holds /\ Len(e.db.holds) = Len(db.holds)
      /\ \A i \in DOMAIN db.holds :
            \/ e.db.holds[i] = db.holds[i]
            \/ db.holds[i].tenant = t /\ e.db.holds[i] = Released(db.holds[i])
  BY <1>0, ReleaseEffect
<1>5. ~Foreigner(t)
  BY PeopleFields
<1> HIDE DEF e, t
<1>6. /\ db'.rows = db.rows /\ db'.tombs = db.tombs /\ db'.dsrs = db.dsrs /\ db'.certs = db.certs
      /\ db' \in Databases
  BY <1>0, <1>3, <1>4 DEF Databases
<1>7. /\ DOMAIN db'.holds = DOMAIN db.holds
      /\ \A i \in DOMAIN db.holds : \/ db'.holds[i] = db.holds[i]
                                    \/ db.holds[i].tenant = t /\ db'.holds[i] = Released(db.holds[i])
      /\ Len(db.holds) <= Len(db'.holds)
      /\ DOMAIN db.holds = 1..Len(db.holds)
  BY <1>0, <1>3, <1>4
<1>8. \A h \in HoldRows : Released(h).tenant = h.tenant
  BY DEF HoldRows, Released
<1>9. ForeignIn(db'.holds) = ForeignIn(db.holds)
  <2>1. \A i \in DOMAIN db.holds : db.holds[i] \in HoldRows
    BY <1>0
  <2>2. \A i \in DOMAIN db.holds : \/ db'.holds[i] = db.holds[i]
                                   \/ ~Foreigner(db.holds[i].tenant) /\ ~Foreigner(db'.holds[i].tenant)
    BY <1>5, <1>7, <1>8, <2>1
  <2> QED BY <1>7, <2>2, OwnRowsChanged
<1> QED BY <1>1, <1>3, <1>6, <1>7, <1>9, OtherTableStep

\* A new data subject request.
LEMMA CreateDSRStep ==
    ASSUME GovInv, NEW r \in Requests, NEW p \in People, CreateDSR(r, p)
    PROVE  GovInv' /\ RowsStay
<1>0. GovTypeOK /\ db \in Databases /\ db.dsrs \in Seq(DSRRows) /\ Len(db.holds) \in Nat
  BY DEF GovInv, GovTypeOK, Databases
<1>1. /\ backend' = backend /\ started' \in Nat /\ faults' \in Nat
      /\ made' = made /\ hollow' = hollow /\ raced' = raced
  BY <1>0, RequestBegins DEF CreateDSR, history
<1> DEFINE t == p.tenant
           e == CreateRequest(t)
<1>2. t \in Tenants /\ ~Foreigner(t)
  BY PeopleFields
<1>3. db' = e.db /\ Goto(r, Idle)
  BY DEF CreateDSR, Finish, Then
<1> HIDE DEF t
<1>4. /\ e.db \in Databases
      /\ \E dsr \in DSRRows : dsr.tenant = t /\ e.db = [db EXCEPT !.dsrs = Append(db.dsrs, dsr)]
  <2> DEFINE Made(x) == /\ x.db \in Databases
                        /\ \E dsr \in DSRRows : dsr.tenant = t /\ x.db = [db EXCEPT !.dsrs = Append(db.dsrs, dsr)]
  <2>1. \A x : x = CreateRequest(t) => Made(x)
    BY <1>0, <1>2, CreateRequestEffect
  <2>2. e = CreateRequest(t)
    OBVIOUS
  <2> HIDE DEF e, Made
  <2>3. Made(e)
    BY <2>1, <2>2
  <2> QED BY <2>3 DEF Made
<1> HIDE DEF e
<1>5. PICK dsr \in DSRRows : dsr.tenant = t /\ e.db = [db EXCEPT !.dsrs = Append(db.dsrs, dsr)]
  BY <1>4
<1>6. /\ db'.dsrs = Append(db.dsrs, dsr) /\ db'.rows = db.rows /\ db'.tombs = db.tombs
      /\ db'.holds = db.holds /\ db'.certs = db.certs /\ db' \in Databases
  BY <1>0, <1>3, <1>4, <1>5 DEF Databases
<1>7. ForeignIn(db'.dsrs) = ForeignIn(db.dsrs)
  BY <1>0, <1>2, <1>5, <1>6, OwnRowAdded
<1> QED BY <1>0, <1>1, <1>3, <1>6, <1>7, OtherTableStep

\* A data subject request gets another status.
LEMMA UpdateDSRStatusStep ==
    ASSUME GovInv, NEW r \in Requests, NEW p \in People, UpdateDSRStatus(r, p)
    PROVE  GovInv' /\ RowsStay
<1>0. GovTypeOK /\ db \in Databases /\ db.dsrs \in Seq(DSRRows) /\ Len(db.holds) \in Nat
  BY DEF GovInv, GovTypeOK, Databases
<1>1. /\ backend' = backend /\ started' \in Nat /\ faults' \in Nat
      /\ made' = made /\ hollow' = hollow /\ raced' = raced
  BY <1>0, RequestBegins DEF UpdateDSRStatus, history
<1>2. PICK i \in DOMAIN db.dsrs, status \in DSRStatuses : Finish(r, UpdateStatus(p.tenant, db.dsrs[i].id, status))
  BY DEF UpdateDSRStatus
<1>3. PICK now \in Nat : now = started'
  BY <1>1
<1> DEFINE t == p.tenant
           id == db.dsrs[i].id
<1>4. PICK e : e = Store(Mem!UpdateStatus(db, t, id, status, now), Pg!UpdateStatus(db, t, id, status, now))
  OBVIOUS
<1>5. db' = e.db /\ Goto(r, Idle)
  BY <1>2, <1>3, <1>4 DEF UpdateStatus, Finish, Then
<1>6. ~Foreigner(t)
  BY PeopleFields
<1>7. IsStatusUpdate(e, t, id, status, now)
  BY <1>4 DEF Store, IsStatusUpdate
<1> HIDE DEF t, id
<1>8. /\ e.db \in Databases /\ e.db = [db EXCEPT !.dsrs = e.db.dsrs] /\ DOMAIN e.db.dsrs = DOMAIN db.dsrs
      /\ \A n \in DOMAIN db.dsrs : \/ e.db.dsrs[n] = db.dsrs[n]
                                   \/ db.dsrs[n].tenant = t /\ e.db.dsrs[n].tenant = t
  <2>1. GovTypeOK
    BY <1>0
  <2> QED BY <1>7, <2>1, UpdateStatusEffect
<1>9. /\ db'.rows = db.rows /\ db'.tombs = db.tombs /\ db'.holds = db.holds /\ db'.certs = db.certs
      /\ db' \in Databases
  BY <1>0, <1>5, <1>8 DEF Databases
<1>10. ForeignIn(db'.dsrs) = ForeignIn(db.dsrs)
  BY <1>5, <1>6, <1>8, OwnRowsChanged
<1> QED BY <1>0, <1>1, <1>5, <1>9, <1>10, OtherTableStep

\* Adding a certification leaves the earlier ones as justified as they were.
LEMMA FollowsStays ==
    ASSUME NEW S, NEW certs \in Seq(S), NEW x \in S, NEW i \in DOMAIN certs
    PROVE  Follows(Append(certs, x), i) <=> Follows(certs, i)
<1> DEFINE By(c, earlier) ==
               LET before == Last(earlier, LAMBDA d : d.tenant = c.tenant /\ d.asset = c.asset)
               IN  /\ c.status \in {"certified", "rejected"} => \E d \in before : d.status = "proposed"
                   /\ c.status = "revoked" => \E d \in before : d.status = "certified"
<1>1. \A all : Follows(all, i) <=> By(all[i], SubSeq(all, 1, i - 1))
  BY Zenon DEF Follows
<1>2. Append(certs, x)[i] = certs[i]
  OBVIOUS
<1>3. SubSeq(Append(certs, x), 1, i - 1) = SubSeq(certs, 1, i - 1)
  OBVIOUS
<1> HIDE DEF By
<1> QED BY <1>1, <1>2, <1>3

\* A certification is added by a request that answers.
LEMMA CertAddedStep ==
    ASSUME GovInv, NEW r \in Requests, Goto(r, Idle),
           NEW cert \in CertRows, cert.id = Len(db.certs) + 1, ~Foreigner(cert.tenant),
           db' = [db EXCEPT !.certs = Append(db.certs, cert)],
           raced' = raced \/ raced' = raced \cup {Len(db.certs) + 1},
           Len(db.certs) + 1 \in raced' \/ Follows(Append(db.certs, cert), Len(db.certs) + 1),
           backend' = backend, made' = made, hollow' = hollow, started' \in Nat, faults' \in Nat
    PROVE  GovInv' /\ RowsStay
<1>0. /\ GovTypeOK /\ db \in Databases /\ db.certs \in Seq(CertRows) /\ Len(db.certs) \in Nat
      /\ Len(db.holds) \in Nat /\ db.holds \in Seq(HoldRows)
  BY SMTT(20) DEF GovInv, GovTypeOK, Databases
<1> DEFINE last == Len(db.certs) + 1
<1>1. /\ db'.certs = Append(db.certs, cert) /\ db'.rows = db.rows /\ db'.tombs = db.tombs
      /\ db'.holds = db.holds /\ db'.dsrs = db.dsrs
  BY <1>0 DEF Databases
<1>2. /\ DOMAIN db.certs = 1..Len(db.certs) /\ Len(db'.certs) = last /\ last \in Nat
      /\ db'.certs \in Seq(CertRows) /\ DOMAIN db'.certs = DOMAIN db.certs \cup {last}
      /\ db'.certs[last] = cert /\ \A i \in DOMAIN db.certs : db'.certs[i] = db.certs[i]
  BY <1>0, <1>1, Appended
<1>3. db' \in Databases
  BY <1>0, <1>1, <1>2 DEF Databases
<1>4. Idle \in RequestStates /\ Idle.at = "idle" /\ \A k : ~Claiming(Idle, k)
  BY DEF RequestStates, Idle, Claiming
<1>5. /\ req' \in [Requests -> RequestStates] /\ req'[r] = Idle
      /\ \A q \in Requests : q # r => req'[q] = req[q] /\ DeletesOn(q) /\ RestoresOn(q) /\ DecidesOn(q)
  BY <1>0, <1>4, OneMoves
<1>6. DeletesOn(r) /\ RestoresOn(r) /\ ~Deleting(r)' /\ ~Restoring(r)' /\ ~At(r, "decide")'
  BY <1>4, <1>5 DEF DeletesOn, RestoresOn, Deleting, Restoring, At
<1>7. GovTypeOK'
  BY <1>0, <1>2, <1>3, <1>5 DEF GovTypeOK
<1>8. Recorded(db)' = Recorded(db)
  BY <1>1 DEF Recorded
<1>9. Numbered'
  BY <1>1, <1>2 DEF GovInv, Numbered
<1>10. Original' /\ \A q \in Requests : DeletesOwn(q)' /\ RestoresOwn(q)'
  BY <1>1, <1>5, <1>6, <1>8, OwningQuiet
<1>11. \A q \in Requests : Clear(q)'
  BY <1>0, <1>1, <1>5, <1>6, HoldsQuiet
<1>12. ASSUME NEW q \in Requests PROVE DecidesLatest(q)'
  <2>1. CASE q = r
    BY <1>6, <2>1 DEF DecidesLatest
  <2>2. CASE ~At(q, "decide")'
    BY <2>2 DEF DecidesLatest
  <2>3. CASE q # r /\ At(q, "decide")'
    <3>1. req'[q] = req[q] /\ At(q, "decide") /\ DecidesLatest(q)
      BY <1>5, <2>3 DEF At, GovInv
    <3>2. req[q].seen \in Nat /\ req[q].seen <= Len(db.certs)
      BY <1>0, <3>1, RequestFields DEF DecidesLatest
    <3>3. \A i \in 1..req[q].seen : i \in DOMAIN db.certs
      BY <1>2, <3>2
    <3>4. req[q].seen <= Len(db'.certs)
      BY <1>0, <1>2, <3>2
    <3> QED BY <1>2, <3>1, <3>3, <3>4 DEF DecidesLatest
  <2> QED BY <2>1, <2>2, <2>3
<1>13. DecisionsFollow'
  <2>1. ASSUME NEW i \in DOMAIN db'.certs \ raced' PROVE Follows(db'.certs, i)
    <3>1. CASE i = last
      BY <1>1, <2>1, <3>1
    <3>2. CASE i # last
      <4>1. i \in DOMAIN db.certs /\ i \notin raced
        BY <1>2, <2>1, <3>2
      <4>2. Follows(db.certs, i)
        BY <4>1 DEF GovInv, DecisionsFollow
      <4> QED BY <1>0, <1>1, <4>1, <4>2, FollowsStays
    <3> QED BY <3>1, <3>2
  <2> QED BY <2>1 DEF DecisionsFollow
<1>14. OfOthers(db)' = OfOthers(Seed)
  <2>1. ForeignIn(db'.certs) = ForeignIn(db.certs)
    BY <1>0, <1>1, OwnRowAdded
  <2> QED BY <1>1, <2>1, ApartQuiet
<1>15. Known' /\ KeysHold' /\ Covered' /\ Honest'
  BY <1>1, <1>4, <1>6, KeptQuiet
<1>16. RowsStay
  BY <1>1 DEF RowsStay
<1> QED BY <1>7, <1>9, <1>10, <1>11, <1>12, <1>13, <1>14, <1>15, <1>16 DEF GovInv

\* A proposal needs nothing before it.
LEMMA ProposeCertStep ==
    ASSUME GovInv, NEW r \in Requests, NEW p \in People, ProposeCert(r, p)
    PROVE  GovInv' /\ RowsStay
<1>0. GovTypeOK /\ Numbered /\ db \in Databases /\ db.certs \in Seq(CertRows) /\ Len(db.certs) \in Nat
  BY DEF GovInv, GovTypeOK, Databases
<1>1. /\ backend' = backend /\ started' \in Nat /\ faults' \in Nat
      /\ made' = made /\ hollow' = hollow /\ raced' = raced
  BY <1>0, RequestBegins DEF ProposeCert, history
<1>2. PICK a \in Assets : Finish(r, Propose(p.tenant, a))
  BY DEF ProposeCert
<1> DEFINE t == p.tenant
           e == Pg!CreateCertification(db, t, a, "proposed")
           cert == [id |-> Len(db.certs) + 1, tenant |-> t, asset |-> a, status |-> "proposed"]
<1>3. db' = e.db /\ Goto(r, Idle)
  BY <1>2 DEF Propose, Finish, Then
<1>4. t \in Tenants /\ ~Foreigner(t) /\ a \in Nat /\ "proposed" \in CertStatuses
  BY PeopleFields, GovernanceAssumption DEF CertStatuses
<1> HIDE DEF t
<1>5. cert \in CertRows /\ e.db = [db EXCEPT !.certs = Append(db.certs, cert)]
  BY <1>0, <1>4, CertificationEffect
<1> HIDE DEF e
<1>6. cert.id = Len(db.certs) + 1 /\ cert.tenant = t /\ cert.status = "proposed"
  OBVIOUS
<1> HIDE DEF cert
<1>7. Append(db.certs, cert)[Len(db.certs) + 1] = cert
  BY <1>0, <1>5
<1>8. Follows(Append(db.certs, cert), Len(db.certs) + 1)
  BY <1>6, <1>7 DEF Follows
<1> QED BY <1>1, <1>3, <1>4, <1>5, <1>6, <1>8, CertAddedStep

\* The decision is on what was the latest row when the reviewer looked; a row
\* that came between is noticed by its number.
LEMMA DecideStep ==
    ASSUME GovInv, NEW r \in Requests, Decide(r)
    PROVE  GovInv' /\ RowsStay
<1>0. GovTypeOK /\ Numbered /\ db \in Databases /\ db.certs \in Seq(CertRows) /\ Len(db.certs) \in Nat
  BY DEF GovInv, GovTypeOK, Databases
<1>1. /\ backend' = backend /\ started' \in Nat /\ faults' \in Nat /\ At(r, "decide")
      /\ made' = made /\ hollow' = hollow
  BY <1>0, RequestProceeds DEF Decide, At
<1> DEFINE t == req[r].p.tenant
           on == req[r].on
           status == req[r].status
           e == Pg!CreateCertification(db, t, on.asset, status)
           cert == [id |-> Len(db.certs) + 1, tenant |-> t, asset |-> on.asset, status |-> status]
           late == \E c \in Pg!History(db, t, on.asset) : c.id > req[r].seen
<1>2. /\ t \in Tenants /\ ~Foreigner(t) /\ on \in CertRows /\ on.asset \in Nat /\ status \in CertStatuses
      /\ req[r].seen \in Nat
  BY <1>0, <1>1, RequestFields, PeopleFields DEF CertRows
<1>3. /\ on.tenant = t /\ on.id \in 1..req[r].seen /\ req[r].seen <= Len(db.certs) /\ db.certs[on.id] = on
      /\ \A i \in 1..req[r].seen : db.certs[i].tenant = t /\ db.certs[i].asset = on.asset => i <= on.id
      /\ \/ status \in {"certified", "rejected"} /\ on.status = "proposed"
         \/ status = "revoked" /\ on.status = "certified"
  BY <1>1 DEF GovInv, DecidesLatest
<1>4. /\ db' = e.db /\ Goto(r, Idle)
      /\ raced' = IF late THEN raced \cup {Len(db'.certs)} ELSE raced
  BY DEF Decide, Finish, Then
<1>5. late <=> \E i \in DOMAIN db.certs : db.certs[i].tenant = t /\ db.certs[i].asset = on.asset /\ i > req[r].seen
  <2>1. Pg!History(db, t, on.asset) = {db.certs[i] : i \in {i \in DOMAIN db.certs : db.certs[i].tenant = t /\ db.certs[i].asset = on.asset}}
    BY Zenon DEF Pg!History, Pg!Rows, Pg!Where
  <2> QED BY <1>0, <2>1 DEF Numbered
<1> HIDE DEF late, t, on, status
<1>6. cert \in CertRows /\ e.db = [db EXCEPT !.certs = Append(db.certs, cert)]
  BY <1>0, <1>2, CertificationEffect
<1> HIDE DEF e
<1>7. cert.id = Len(db.certs) + 1 /\ cert.tenant = t /\ cert.asset = on.asset /\ cert.status = status
  OBVIOUS
<1> HIDE DEF cert
<1>8. /\ Append(db.certs, cert)[Len(db.certs) + 1] = cert
      /\ Len(Append(db.certs, cert)) = Len(db.certs) + 1
      /\ SubSeq(Append(db.certs, cert), 1, Len(db.certs) + 1 - 1) = db.certs
  BY <1>0, <1>6
<1>9. Len(db'.certs) = Len(db.certs) + 1
  BY <1>0, <1>4, <1>6, <1>8 DEF Databases
<1>10. CASE late
  BY <1>1, <1>2, <1>4, <1>6, <1>7, <1>9, <1>10, CertAddedStep
<1>11. CASE ~late
  <2> DEFINE W == {i \in DOMAIN db.certs : db.certs[i].tenant = cert.tenant /\ db.certs[i].asset = cert.asset}
             before == {db.certs[i] : i \in {i \in W : \A j \in W : j <= i}}
  <2>1. on \in before
    <3>1. on.id \in W
      BY <1>0, <1>2, <1>3, <1>7
    <3>2. ASSUME NEW j \in W PROVE j <= on.id
      <4>1. j \in 1..Len(db.certs) /\ db.certs[j].tenant = t /\ db.certs[j].asset = on.asset
        BY <1>0, <1>7
      <4>2. j \in 1..req[r].seen
        BY <1>0, <1>2, <1>5, <1>11, <4>1
      <4> QED BY <1>3, <4>1, <4>2
    <3> HIDE DEF W
    <3> QED BY <1>3, <3>1, <3>2
  <2>2. Last(db.certs, LAMBDA d : d.tenant = cert.tenant /\ d.asset = cert.asset) = before
    BY Zenon DEF Last, Where
  <2>3. Follows(Append(db.certs, cert), Len(db.certs) + 1) <=>
            /\ cert.status \in {"certified", "rejected"} => \E d \in before : d.status = "proposed"
            /\ cert.status = "revoked" => \E d \in before : d.status = "certified"
    <3> DEFINE By(c, earlier) ==
                   LET known == Last(earlier, LAMBDA d : d.tenant = c.tenant /\ d.asset = c.asset)
                   IN  /\ c.status \in {"certified", "rejected"} => \E d \in known : d.status = "proposed"
                       /\ c.status = "revoked" => \E d \in known : d.status = "certified"
    <3>1. \A all, i : Follows(all, i) <=> By(all[i], SubSeq(all, 1, i - 1))
      BY Zenon DEF Follows
    <3>2. By(cert, db.certs) <=> /\ cert.status \in {"certified", "rejected"} => \E d \in before : d.status = "proposed"
                                 /\ cert.status = "revoked" => \E d \in before : d.status = "certified"
      BY <2>2, Zenon
    <3> HIDE DEF By, before
    <3>3. Follows(Append(db.certs, cert), Len(db.certs) + 1) <=> By(cert, db.certs)
      <4>1. PICK all, i : all = Append(db.certs, cert) /\ i = Len(db.certs) + 1
        OBVIOUS
      <4>2. all[i] = cert /\ SubSeq(all, 1, i - 1) = db.certs
        BY <1>8, <4>1
      <4> QED BY <3>1, <4>1, <4>2
    <3> QED BY <3>2, <3>3
  <2> HIDE DEF before
  <2>4. Follows(Append(db.certs, cert), Len(db.certs) + 1)
    BY <1>3, <1>7, <2>1, <2>3
  <2> QED BY <1>1, <1>2, <1>4, <1>6, <1>7, <1>11, <2>4, CertAddedStep
<1> QED BY <1>10, <1>11

(***************************************************************************)
(* The theorems                                                            *)
(***************************************************************************)
\* What there is at the start is recorded, its decisions follow, and nobody
\* claims anything.
LEMMA GovInit ==
    ASSUME Init
    PROVE  GovInv
<1>1. /\ db = Seed /\ req = [q \in Requests |-> Idle] /\ started = 0 /\ faults = 0
      /\ backend \in Backends /\ made = {KeyOf(row) : row \in Recorded(Seed)} /\ hollow = {} /\ raced = {}
  BY DEF Init, InitRequests
<1>2. Seed \in Databases /\ Seed.rows \in Seq(LiveRows) /\ Seed.tombs \in Seq(Tombstones)
  BY SeedAssumption DEF Databases
<1>3. \A q \in Requests : req[q] = Idle
  BY <1>1
<1>4. \A row \in Recorded(Seed) : row \in LiveRows
  <2>1. /\ \A i \in DOMAIN Seed.rows : Seed.rows[i] \in LiveRows
        /\ \A i \in DOMAIN Seed.tombs : Seed.tombs[i] \in Tombstones
    BY <1>2
  <2>2. \A tomb \in Tombstones : tomb.row \in LiveRows
    BY DEF Tombstones
  <2> QED BY <2>1, <2>2 DEF Recorded
<1>5. made \subseteq Kinds \X Nat
  BY <1>1, <1>4 DEF LiveRows, KeyOf
<1>6. IsFiniteSet(made)
  <2> DEFINE D1 == DOMAIN Seed.rows
             D2 == DOMAIN Seed.tombs
             f1 == [i \in D1 |-> KeyOf(Seed.rows[i])]
             f2 == [i \in D2 |-> KeyOf(Seed.tombs[i].row)]
             T1 == {f1[i] : i \in D1}
             T2 == {f2[i] : i \in D2}
  <2>1. IsFiniteSet(D1) /\ IsFiniteSet(D2)
    <3>1. /\ Len(Seed.rows) \in Nat /\ D1 = 1..Len(Seed.rows)
          /\ Len(Seed.tombs) \in Nat /\ D2 = 1..Len(Seed.tombs)
      BY <1>2
    <3> QED BY <3>1, CountUpTo
  <2>2. made = T1 \cup T2
    BY <1>1 DEF Recorded
  <2>3. f1 \in Surjection(D1, T1) /\ f2 \in Surjection(D2, T2)
    BY DEF Surjection
  <2> HIDE DEF D1, D2, f1, f2, T1, T2
  <2>4. IsFiniteSet(T1) /\ IsFiniteSet(T2)
    BY <2>1, <2>3, FS_Surjection
  <2> QED BY <2>2, <2>4, FS_Union
<1>7. Idle \in RequestStates /\ Idle.at = "idle"
  BY DEF RequestStates, Idle
<1>8. GovTypeOK
  BY <1>1, <1>2, <1>5, <1>6, <1>7 DEF GovTypeOK
<1>9. Numbered /\ DecisionsFollow
  BY <1>1, SeedAssumption DEF Numbered, DecisionsFollow
<1>10. Original
  BY <1>1 DEF Original, FromSeed
<1>11. \A q \in Requests : DeletesOwn(q) /\ RestoresOwn(q) /\ Clear(q) /\ DecidesLatest(q)
  BY <1>3, <1>7 DEF DeletesOwn, RestoresOwn, Clear, DecidesLatest, Deleting, Restoring, At
<1>12. Known
  BY <1>1, <1>3, <1>7 DEF Known, Deleting, Restoring
<1>13. KeysHold
  BY <1>1, SeedAssumption DEF KeysHold
<1>14. ASSUME NEW k \in made PROVE Cardinality(Claims(k)) < Cardinality(LiveAt(k)) + Cardinality(Binned(k))
  <2>1. Claims(k) = {}
    BY <1>3, <1>7 DEF Claims, At
  <2>2. LiveAt(k) # {} \/ Binned(k) # {}
    BY <1>1, SeedAssumption DEF LiveAt, Binned
  <2>3. /\ IsFiniteSet(LiveAt(k)) /\ Cardinality(LiveAt(k)) \in Nat
        /\ IsFiniteSet(Binned(k)) /\ Cardinality(Binned(k)) \in Nat
    BY <1>8, Sizes
  <2>4. Cardinality(Claims(k)) = 0
    BY <2>1, FS_EmptySet
  <2>5. Cardinality(LiveAt(k)) # 0 \/ Cardinality(Binned(k)) # 0
    BY <2>2, <2>3, FS_EmptySet
  <2> QED BY <2>3, <2>4, <2>5
<1>15. Covered /\ Honest
  BY <1>1, <1>14 DEF Covered, Honest
<1> QED BY <1>1, <1>8, <1>9, <1>10, <1>11, <1>12, <1>13, <1>15 DEF GovInv

\* A step that changes nothing.
LEMMA GovStutters ==
    ASSUME GovInv, UNCHANGED vars
    PROVE  GovInv'
<1>1. /\ backend' = backend /\ db' = db /\ req' = req /\ started' = started /\ faults' = faults
      /\ made' = made /\ hollow' = hollow /\ raced' = raced
  BY DEF vars, history
<1>2. GovTypeOK'
  BY <1>1 DEF GovInv, GovTypeOK
<1>3. Numbered' /\ Original' /\ DecisionsFollow' /\ OfOthers(db)' = OfOthers(Seed)
  BY <1>1 DEF GovInv, Numbered, Original, DecisionsFollow
<1>4. \A q \in Requests : DeletesOwn(q)' /\ RestoresOwn(q)' /\ Clear(q)' /\ DecidesLatest(q)'
  BY <1>1 DEF GovInv, DeletesOwn, RestoresOwn, Clear, DecidesLatest, Deleting, Restoring, At
<1>5. Known' /\ KeysHold' /\ Honest'
  BY <1>1 DEF GovInv, Known, KeysHold, Honest, Deleting, Restoring
<1>6. \A k : Claims(k)' = Claims(k) /\ LiveAt(k)' = LiveAt(k) /\ Binned(k)' = Binned(k)
  BY <1>1 DEF Claims, LiveAt, Binned, At
<1>7. Covered'
  BY <1>1, <1>6 DEF GovInv, Covered
<1> QED BY <1>2, <1>3, <1>4, <1>5, <1>7 DEF GovInv

\* Every request keeps the invariant, and takes no row away but one that no
\* hold keeps.
LEMMA GovStep ==
    ASSUME GovInv, Next
    PROVE  GovInv' /\ HeldRowsStay
<1>1. PICK r \in Requests :
         \/ \E p \in People :
               \/ DeletePipeline(r, p) \/ DeleteCheck(r, p) \/ DeletePolicy(r, p)
               \/ Restore(r, p) \/ Purge(r, p)
               \/ IssueHold(r, p) \/ ReleaseHold(r, p)
               \/ CreateDSR(r, p) \/ UpdateDSRStatus(r, p) \/ CreatePolicy(r, p)
               \/ ProposeCert(r, p) \/ ApproveCert(r, p) \/ RejectCert(r, p) \/ RevokeCert(r, p)
         \/ CaptureTombstone(r) \/ Remove(r)
         \/ Recreate(r) \/ RuleNotRestored(r) \/ Mark(r)
         \/ Decide(r)
         \/ StatementFails(r)
  BY DEF Next
<1>2. ASSUME RowsStay PROVE HeldRowsStay
  BY <1>2 DEF RowsStay, HeldRowsStay, Where
<1>3. CASE Remove(r)
  BY <1>3, RemoveStep
<1>4. ASSUME NEW p \in People, DeletePipeline(r, p) \/ DeleteCheck(r, p) \/ DeletePolicy(r, p)
      PROVE  GovInv' /\ RowsStay
  BY <1>4, StartDeleteStep DEF DeletePipeline, DeleteCheck, DeletePolicy, Kinds
<1>5. ASSUME NEW p \in People, Restore(r, p) \/ Purge(r, p) \/ IssueHold(r, p) \/ ReleaseHold(r, p)
      PROVE  GovInv' /\ RowsStay
  BY <1>5, RestoreStep, PurgeStep, IssueHoldStep, ReleaseHoldStep
<1>6. ASSUME NEW p \in People, CreateDSR(r, p) \/ UpdateDSRStatus(r, p) \/ CreatePolicy(r, p)
      PROVE  GovInv' /\ RowsStay
  BY <1>6, CreateDSRStep, UpdateDSRStatusStep, CreatePolicyStep
<1>7. ASSUME NEW p \in People, ProposeCert(r, p) \/ ApproveCert(r, p) \/ RejectCert(r, p) \/ RevokeCert(r, p)
      PROVE  GovInv' /\ RowsStay
  BY <1>7, ProposeCertStep, ReviewStep
<1>8. CASE CaptureTombstone(r) \/ Recreate(r) \/ RuleNotRestored(r) \/ Mark(r)
  BY <1>2, <1>8, CaptureStep, RecreateStep, RuleNotRestoredStep, MarkStep
<1>9. CASE Decide(r) \/ StatementFails(r)
  BY <1>2, <1>9, DecideStep, StatementFailsStep
<1> QED BY <1>1, <1>2, <1>3, <1>4, <1>5, <1>6, <1>7, <1>8, <1>9

\* The invariant holds for any tenants, people, number of requests, rows at
\* the start and sets of stores.
LEMMA GovAlways == Spec => []GovInv
<1>1. Init => GovInv
  BY GovInit
<1>2. GovInv /\ [Next]_vars => GovInv'
  BY GovStep, GovStutters
<1> QED BY <1>1, <1>2, PTL DEF Spec

\* Decisions on certifications follow what they decide on (certifications.go,
\* requireActiveProposal), unless a row came in between.
THEOREM DecisionsAreJustified == Spec => []DecisionsFollow
<1>1. GovInv => DecisionsFollow
  BY DEF GovInv
<1> QED BY <1>1, GovAlways, PTL

\* The stores' methods show a caller the rows of the caller's tenant.
LEMMA ListsAreOwn ==
    ASSUME GovTypeOK, NEW p \in People
    PROVE  /\ \A tomb \in ListDeleted(p) \cup (UNION {GetDeleted(p, i) : i \in DOMAIN db.tombs}) : tomb.row.tenant = p.tenant
           /\ \A row \in ListLegalHolds(p) \cup ListDSR(p) \cup ListPolicies(p) \cup PendingCerts(p)
                         \cup (UNION {ListAssetCerts(p, a) : a \in Assets})
                         \cup (UNION {GetDSR(p, i) : i \in DOMAIN db.dsrs}) : row.tenant = p.tenant
<1> DEFINE t == p.tenant
<1>1. \A i \in DOMAIN db.rows : db.rows[i].tenant # Blank
  <2>1. db.rows \in Seq(LiveRows)
    BY DEF GovTypeOK, Databases
  <2>2. \A i \in DOMAIN db.rows : db.rows[i] \in LiveRows
    BY <2>1
  <2> QED BY <2>2 DEF LiveRows, Tenants
<1>2. \A tomb \in ListDeleted(p) : tomb.row.tenant = t
  <2>1. \A tomb \in Mem!ListRecords(db, t, "", TRUE, TRUE, 0) : tomb.row.tenant = t
    BY Zenon DEF Mem!ListRecords, Mem!Newest, Mem!Where
  <2>2. \A tomb \in Pg!ListRecords(db, t, "", TRUE, TRUE, 0) : tomb.row.tenant = t
    BY Zenon DEF Pg!ListRecords, Pg!Newest, Pg!Where
  <2> QED BY <2>1, <2>2 DEF ListDeleted, Store
<1>3. \A i : \A tomb \in GetDeleted(p, i) : tomb.row.tenant = t
  <2>1. \A i : \A tomb \in Mem!GetRecord(db, t, i) : tomb.row.tenant = t
    BY Zenon DEF Mem!GetRecord, Mem!Rows, Mem!Where
  <2>2. \A i : \A tomb \in Pg!GetRecord(db, t, i) : tomb.row.tenant = t
    BY Zenon DEF Pg!GetRecord, Pg!Rows, Pg!Where
  <2> QED BY <2>1, <2>2 DEF GetDeleted, GetRecord, Store
<1>4. \A row \in ListLegalHolds(p) : row.tenant = t
  <2>1. \A row \in Mem!ListHolds(db, t) : row.tenant = t
    BY Zenon DEF Mem!ListHolds, Mem!Rows, Mem!Where
  <2>2. \A row \in Pg!ListHolds(db, t) : row.tenant = t
    BY Zenon DEF Pg!ListHolds, Pg!Rows, Pg!Where
  <2> QED BY <2>1, <2>2 DEF ListLegalHolds, Store
<1>5. \A row \in ListDSR(p) : row.tenant = t
  <2>1. \A row \in Mem!ListRequests(db, t) : row.tenant = t
    BY Zenon DEF Mem!ListRequests, Mem!Rows, Mem!Where
  <2>2. \A row \in Pg!ListRequests(db, t) : row.tenant = t
    BY Zenon DEF Pg!ListRequests, Pg!Rows, Pg!Where
  <2> QED BY <2>1, <2>2 DEF ListDSR, Store
<1>6. \A i : \A row \in GetDSR(p, i) : row.tenant = t
  <2>1. \A i : \A row \in Mem!GetRequest(db, t, i) : row.tenant = t
    BY Zenon DEF Mem!GetRequest, Mem!Rows, Mem!Where
  <2>2. \A i : \A row \in Pg!GetRequest(db, t, i) : row.tenant = t
    BY Zenon DEF Pg!GetRequest, Pg!Rows, Pg!Where
  <2> QED BY <2>1, <2>2 DEF GetDSR, Store
<1>7. \A row \in ListPolicies(p) : row.tenant = t
  <2>1. ASSUME NEW row \in Mem!ListRules(db, t) PROVE row.tenant = t
    <3>1. PICK i \in DOMAIN db.rows : row = db.rows[i] /\ db.rows[i].tenant \in {Mem!Blank, t}
      BY Zenon DEF Mem!ListRules, Mem!Rows, Mem!Where
    <3> QED BY <1>1, <3>1 DEF Mem!Blank, Blank
  <2>2. \A row \in Pg!ListRules(db, t) : row.tenant = t
    BY Zenon DEF Pg!ListRules, Pg!Rows, Pg!Where
  <2> QED BY <2>1, <2>2 DEF ListPolicies, ListRules, Store
<1>8. \A a : \A c \in Pg!Latest(db, t, a) : c.tenant = t
  BY Zenon DEF Pg!Latest, Pg!Last, Pg!Where
<1>9. \A c \in PendingCerts(p) : c.tenant = t
  <2>1. \A c \in PendingCerts(p) : c \in UNION {Pg!Latest(db, t, db.certs[i].asset) : i \in DOMAIN db.certs}
    BY Zenon DEF PendingCerts, Pg!ListPending
  <2> QED BY <1>8, <2>1
<1>10. \A a : \A c \in ListAssetCerts(p, a) : c.tenant = t
  <2>1. \A a : \A c \in Pg!History(db, t, a) : c.tenant = t
    BY Zenon DEF Pg!History, Pg!Rows, Pg!Where
  <2> QED BY <1>8, <2>1 DEF ListAssetCerts
<1>11. \A tomb \in UNION {GetDeleted(p, i) : i \in DOMAIN db.tombs} : tomb.row.tenant = t
  BY <1>3
<1>12. \A row \in UNION {ListAssetCerts(p, a) : a \in Assets} : row.tenant = t
  BY <1>10
<1>13. \A row \in UNION {GetDSR(p, i) : i \in DOMAIN db.dsrs} : row.tenant = t
  BY <1>6
<1> QED BY <1>2, <1>4, <1>5, <1>7, <1>9, <1>11, <1>12, <1>13

\* Whatever is requested, the rows of a tenant nobody works for stay as they
\* were, and no list shows a caller another tenant's rows (the handlers hand the
\* caller's tenant to every store method).
THEOREM TenantsAreApart == Spec => []TenantsApart
<1>1. GovInv => TenantsApart
  BY ListsAreOwn DEF GovInv, TenantsApart
<1> QED BY <1>1, GovAlways, PTL

\* What is deleted is in the recycle bin until somebody restores it
\* (deleted.go, captureTombstone), and what a legal hold covers stays.
THEOREM DeletionsAreSafe == Spec => DeletionsSafe
<1>1. GovInv => NothingLost
  <2> SUFFICES ASSUME GovInv PROVE NothingLost
    OBVIOUS
  <2>1. ASSUME NEW k \in made, k \notin hollow
        PROVE  k \in Live \/ \E i \in DOMAIN db.tombs : KeyOf(db.tombs[i].row) = k /\ ~db.tombs[i].restored
    <3>1. Cardinality(Claims(k)) < Cardinality(LiveAt(k)) + Cardinality(Binned(k))
      BY <2>1 DEF GovInv, Covered
    <3>2. Cardinality(Claims(k)) \in Nat /\ Cardinality(LiveAt(k)) \in Nat /\ Cardinality(Binned(k)) \in Nat
      BY Sizes DEF GovInv
    <3>3. Cardinality(LiveAt(k)) # 0 \/ Cardinality(Binned(k)) # 0
      BY <3>1, <3>2
    <3>4. LiveAt(k) # {} \/ Binned(k) # {}
      BY <3>3, FS_EmptySet
    <3> QED BY <3>4 DEF LiveAt, Binned, Live
  <2> QED BY <2>1 DEF NothingLost, GovInv, Honest
<1>2. GovInv /\ [Next]_vars => [HeldRowsStay]_vars
  BY GovStep
<1> QED BY <1>1, <1>2, GovAlways, PTL DEF DeletionsSafe, HoldBinds, Spec
=============================================================================
