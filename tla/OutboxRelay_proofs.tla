------------------------- MODULE OutboxRelay_proofs -------------------------
(***************************************************************************)
(* The outbox for any number of events, relays and faults.  That a row     *)
(* leaves the outbox only when it was published follows from what a relay  *)
(* has in done.  That repetitions are excused needs to know who may hold a *)
(* row: an event that is not excused is held by one relay at most (Owners) *)
(* and, once published, is processed or still in that relay's done.        *)
(***************************************************************************)
EXTENDS OutboxRelay, FiniteSetTheorems, TLAPS

\* A tick starts with nothing in hand, and publishes a row of its batch once.
Ticks ==
    \A r \in Relays :
        /\ pc[r] = "idle" => batch[r] = {}
        /\ pc[r] # "publishing" => done[r] = {}
        /\ batch[r] \cap done[r] = {}

\* What a relay counts as published was published.
DoneSent == \A r \in Relays : \A e \in done[r] : sent[e] > 0

\* Nobody but its holder touches a row that is not excused.
Owners ==
    \A e \in Events \ excused :
        /\ \A r, q \in Relays : e \in Held(r) /\ e \in Held(q) => r = q
        /\ \A r \in Relays : e \in Held(r) => e \notin processed
        /\ sent[e] > 0 => e \in processed \/ \E r \in Relays : e \in done[r]

IInv ==
    /\ TypeOK
    /\ Ticks
    /\ DoneSent
    /\ ProcessedMeansSent
    /\ Owners
    /\ RepeatsExcused

\* The empty outbox satisfies the invariant.
LEMMA InitInv == Init => IInv
BY DEF Init, IInv, TypeOK, Ticks, DoneSent, ProcessedMeansSent, Owners, RepeatsExcused, Held

\* A writer takes the clock before its insert.
LEMMA StampInv ==
    ASSUME IInv, NEW e \in Events, Stamp(e)
    PROVE  IInv'
<1>1. Cardinality({f \in Events : occurred[f] # 0}) \in Nat
  <2>1. IsFiniteSet(Events)
    BY OutboxAssumption
  <2>2. IsFiniteSet({f \in Events : occurred[f] # 0})
    BY <2>1, FS_Subset
  <2> QED
    BY <2>2, FS_CardinalityType
<1>2. TypeOK'
  BY <1>1 DEF IInv, TypeOK, Stamp
<1> QED
  BY <1>2 DEF IInv, Ticks, DoneSent, ProcessedMeansSent, Owners, RepeatsExcused, Held, Stamp

\* A new row is pending, and no relay holds it.
LEMMA InsertInv ==
    ASSUME IInv, NEW e \in Events, Insert(e)
    PROVE  IInv'
BY DEF IInv, TypeOK, Ticks, DoneSent, ProcessedMeansSent, Owners, RepeatsExcused, Held, Insert

\* A relay takes pending rows; those another relay holds already are excused.
LEMMA NextBatchInv ==
    ASSUME IInv, NEW r \in Relays, NextBatch(r)
    PROVE  IInv'
<1>1. PICK B \in SUBSET (Unprocessed \ Locked) :
          /\ batch' = [batch EXCEPT ![r] = B]
          /\ excused' = excused \cup Overlaps(r, B)
  BY DEF NextBatch
<1>2. B \subseteq Events /\ B \cap processed = {}
  BY DEF IInv, TypeOK, Unprocessed
<1>3. batch[r] = {} /\ done[r] = {}
  BY DEF IInv, Ticks, NextBatch
<1>4. TypeOK'
  BY <1>1, <1>2 DEF IInv, TypeOK, NextBatch, Overlaps
<1>5. Ticks'
  BY <1>1, <1>2, <1>3 DEF IInv, TypeOK, Ticks, NextBatch
<1>6. DoneSent' /\ ProcessedMeansSent'
  BY DEF IInv, DoneSent, ProcessedMeansSent, NextBatch
<1>7. RepeatsExcused'
  BY <1>1 DEF IInv, RepeatsExcused, NextBatch
<1>8. Owners'
  <2> SUFFICES ASSUME NEW e \in Events \ excused'
               PROVE  /\ \A p, q \in Relays : e \in Held(p)' /\ e \in Held(q)' => p = q
                      /\ \A p \in Relays : e \in Held(p)' => e \notin processed'
                      /\ sent'[e] > 0 => e \in processed' \/ \E p \in Relays : e \in done'[p]
    BY DEF Owners
  <2>1. e \in Events \ excused
    BY <1>1
  <2>2. done' = done /\ processed' = processed /\ sent' = sent
    BY DEF NextBatch
  <2>3. Held(r)' = B
    BY <1>1, <1>3, <2>2 DEF Held, IInv, TypeOK
  <2>4. \A p \in Relays \ {r} : Held(p)' = Held(p)
    BY <1>1, <2>2 DEF Held, IInv, TypeOK
  <2>5. e \in B => \A p \in Relays \ {r} : e \notin Held(p)
    BY <1>1 DEF Overlaps
  <2> QED
    BY <1>2, <2>1, <2>2, <2>3, <2>4, <2>5 DEF IInv, Owners
<1> QED
  BY <1>4, <1>5, <1>6, <1>7, <1>8 DEF IInv

\* A relay publishes a row of its own batch, and keeps it as done.
LEMMA PublishInv ==
    ASSUME IInv, NEW r \in Relays, Publish(r)
    PROVE  IInv'
<1>1. PICK e \in batch[r] :
          /\ batch' = [batch EXCEPT ![r] = @ \ {e}]
          /\ done' = [done EXCEPT ![r] = @ \cup {e}]
          /\ sent' = [sent EXCEPT ![e] = @ + 1]
  BY DEF Publish
<1>2. e \in Events /\ sent[e] \in Nat
  BY DEF IInv, TypeOK
<1>3. TypeOK'
  BY <1>1, <1>2 DEF IInv, TypeOK, Publish
<1>4. Ticks'
  BY <1>1 DEF IInv, TypeOK, Ticks, Publish
<1>5. \A f \in Events : sent[f] > 0 => sent'[f] > 0
  BY <1>1, <1>2 DEF IInv, TypeOK
<1>6. sent'[e] > 0
  BY <1>1, <1>2 DEF IInv, TypeOK
<1>7. DoneSent'
  BY <1>1, <1>5, <1>6 DEF IInv, TypeOK, DoneSent
<1>8. ProcessedMeansSent'
  BY <1>5 DEF IInv, TypeOK, ProcessedMeansSent, Publish
<1>9. \A p \in Relays : Held(p)' = Held(p)
  BY <1>1 DEF Held, IInv, TypeOK
<1>10. Owners'
  <2> SUFFICES ASSUME NEW f \in Events \ excused
               PROVE  /\ \A p, q \in Relays : f \in Held(p)' /\ f \in Held(q)' => p = q
                      /\ \A p \in Relays : f \in Held(p)' => f \notin processed'
                      /\ sent'[f] > 0 => f \in processed' \/ \E p \in Relays : f \in done'[p]
    BY DEF Owners, Publish
  <2>1. CASE f = e
    BY <1>1, <1>9, <2>1 DEF IInv, TypeOK, Owners, Publish
  <2>2. CASE f # e
    <3>1. sent'[f] = sent[f]
      BY <1>1, <2>2 DEF IInv, TypeOK
    <3>2. \A p \in Relays : f \in done[p] => f \in done'[p]
      BY <1>1 DEF IInv, TypeOK
    <3> QED
      BY <1>9, <3>1, <3>2 DEF IInv, Owners, Publish
  <2> QED
    BY <2>1, <2>2
<1>11. RepeatsExcused'
  <2>1. ASSUME e \notin excused
        PROVE  sent[e] = 0
    <3>1. e \in Held(r)
      BY DEF Held
    <3>2. e \notin processed
      BY <1>2, <2>1, <3>1 DEF IInv, Owners
    <3>3. ASSUME NEW p \in Relays, e \in done[p]
          PROVE  FALSE
      <4>1. e \in Held(p)
        BY <3>3 DEF Held
      <4>2. p = r
        BY <1>2, <2>1, <3>1, <4>1 DEF IInv, Owners
      <4> QED
        BY <3>3, <4>2 DEF IInv, Ticks
    <3> QED
      BY <1>2, <2>1, <3>2, <3>3 DEF IInv, Owners
  <2>2. \A f \in Events : f # e => sent'[f] = sent[f]
    BY <1>1 DEF IInv, TypeOK
  <2>3. sent'[e] = sent[e] + 1
    BY <1>1, <1>2 DEF IInv, TypeOK
  <2> QED
    BY <1>2, <2>1, <2>2, <2>3 DEF IInv, RepeatsExcused, Publish
<1> QED
  BY <1>3, <1>4, <1>7, <1>8, <1>10, <1>11 DEF IInv

\* A relay that lets go of rows without publishing or marking anything.
LEMMA ReleaseInv ==
    ASSUME IInv, NEW r \in Relays, NEW D \in SUBSET batch[r],
           batch' = [batch EXCEPT ![r] = D], done' = done,
           pc' \in [Relays -> {"idle", "reading", "publishing"}],
           \A p \in Relays : p # r => pc'[p] = pc[p],
           pc'[r] = "idle" => D = {} /\ done[r] = {},
           pc'[r] = "reading" => pc[r] = "reading",
           faults' \in Nat,
           UNCHANGED <<occurred, rows, processed, sent, excused>>
    PROVE  IInv'
<1>1. TypeOK'
  BY DEF IInv, TypeOK
<1>2. Ticks'
  BY DEF IInv, TypeOK, Ticks
<1>3. DoneSent' /\ ProcessedMeansSent' /\ RepeatsExcused'
  BY DEF IInv, DoneSent, ProcessedMeansSent, RepeatsExcused
<1>4. \A p \in Relays : Held(p)' \subseteq Held(p)
  BY DEF IInv, TypeOK, Held
<1>5. Owners'
  BY <1>4 DEF IInv, Owners
<1> QED
  BY <1>1, <1>2, <1>3, <1>5 DEF IInv

\* A row is marked processed only after its relay sent it.
LEMMA MarkProcessedInv ==
    ASSUME IInv, NEW r \in Relays, MarkProcessed(r)
    PROVE  IInv'
<1>1. TypeOK'
  BY DEF IInv, TypeOK, MarkProcessed
<1>2. Ticks'
  BY DEF IInv, TypeOK, Ticks, MarkProcessed
<1>3. DoneSent' /\ ProcessedMeansSent' /\ RepeatsExcused'
  BY DEF IInv, TypeOK, DoneSent, ProcessedMeansSent, RepeatsExcused, MarkProcessed
<1>4. Held(r)' = {} /\ \A p \in Relays : p # r => Held(p)' = Held(p)
  BY DEF IInv, TypeOK, Held, MarkProcessed
<1>5. Owners'
  <2> SUFFICES ASSUME NEW e \in Events \ excused
               PROVE  /\ \A p, q \in Relays : e \in Held(p)' /\ e \in Held(q)' => p = q
                      /\ \A p \in Relays : e \in Held(p)' => e \notin processed'
                      /\ sent'[e] > 0 => e \in processed' \/ \E p \in Relays : e \in done'[p]
    BY DEF Owners, MarkProcessed
  <2>1. \A p, q \in Relays : e \in Held(p)' /\ e \in Held(q)' => p = q
    BY <1>4 DEF IInv, Owners
  <2>2. ASSUME NEW p \in Relays, e \in Held(p)'
        PROVE  e \notin processed'
    <3>1. p # r /\ e \in Held(p)
      BY <1>4, <2>2
    <3>2. e \notin processed
      BY <3>1 DEF IInv, Owners
    <3>3. e \notin done[r]
      BY <3>1 DEF IInv, Owners, Held
    <3> QED
      BY <3>2, <3>3 DEF MarkProcessed
  <2>3. sent'[e] > 0 => e \in processed' \/ \E p \in Relays : e \in done'[p]
    <3>1. \A p \in Relays : e \in done[p] => e \in processed' \/ e \in done'[p]
      BY DEF IInv, TypeOK, MarkProcessed
    <3>2. processed \subseteq processed' /\ sent' = sent
      BY DEF MarkProcessed
    <3> QED
      BY <3>1, <3>2 DEF IInv, Owners
  <2> QED
    BY <2>1, <2>2, <2>3
<1> QED
  BY <1>1, <1>2, <1>3, <1>5 DEF IInv

\* A relay that loses track of what it has published.
LEMMA ForgetInv ==
    ASSUME IInv, NEW r \in Relays, MarkFails(r) \/ Crash(r)
    PROVE  IInv'
<1>1. /\ batch' = [batch EXCEPT ![r] = {}]
      /\ done' = [done EXCEPT ![r] = {}]
      /\ pc' = [pc EXCEPT ![r] = "idle"]
      /\ excused' = excused \cup done[r]
      /\ faults' = faults + 1
      /\ UNCHANGED <<occurred, rows, processed, sent>>
  BY DEF IInv, TypeOK, MarkFails, Crash, Fault
<1>2. TypeOK'
  BY <1>1 DEF IInv, TypeOK
<1>3. Ticks'
  BY <1>1 DEF IInv, TypeOK, Ticks
<1>4. DoneSent' /\ ProcessedMeansSent' /\ RepeatsExcused'
  BY <1>1 DEF IInv, TypeOK, DoneSent, ProcessedMeansSent, RepeatsExcused
<1>5. Owners'
  <2>1. \A p \in Relays : Held(p)' \subseteq Held(p)
    BY <1>1 DEF IInv, TypeOK, Held
  <2>2. \A e \in Events \ excused', p \in Relays : e \in done[p] => e \in done'[p]
    BY <1>1 DEF IInv, TypeOK
  <2> QED
    BY <1>1, <2>1, <2>2 DEF IInv, Owners
<1> QED
  BY <1>2, <1>3, <1>4, <1>5 DEF IInv

\* Every step of the writers, relays and faults keeps the invariant.
LEMMA StepInv == IInv /\ [Next]_vars => IInv'
<1> SUFFICES ASSUME IInv, [Next]_vars
             PROVE  IInv'
  OBVIOUS
<1>1. ASSUME NEW e \in Events, Stamp(e) \/ Insert(e)
      PROVE  IInv'
  BY <1>1, StampInv, InsertInv
<1>2. ASSUME NEW r \in Relays, BatchRead(r)
      PROVE  IInv'
  <2>1. batch' = [batch EXCEPT ![r] = batch[r]] /\ done' = done
    BY <1>2 DEF IInv, TypeOK, BatchRead
  <2>2. /\ pc' \in [Relays -> {"idle", "reading", "publishing"}]
        /\ \A p \in Relays : p # r => pc'[p] = pc[p]
        /\ pc'[r] = "publishing"
    BY <1>2 DEF IInv, TypeOK, BatchRead
  <2>3. faults' \in Nat /\ UNCHANGED <<occurred, rows, processed, sent, excused>>
    BY <1>2 DEF IInv, TypeOK, BatchRead
  <2> QED
    BY <2>1, <2>2, <2>3, ReleaseInv
<1>3. ASSUME NEW r \in Relays, BatchFails(r)
      PROVE  IInv'
  <2>1. batch' = [batch EXCEPT ![r] = {}] /\ done' = done /\ done[r] = {}
    BY <1>3 DEF IInv, Ticks, BatchFails
  <2>2. /\ pc' \in [Relays -> {"idle", "reading", "publishing"}]
        /\ \A p \in Relays : p # r => pc'[p] = pc[p]
        /\ pc'[r] = "idle"
    BY <1>3 DEF IInv, TypeOK, BatchFails
  <2>3. faults' \in Nat /\ UNCHANGED <<occurred, rows, processed, sent, excused>>
    BY <1>3 DEF IInv, TypeOK, BatchFails, Fault
  <2> QED
    BY <2>1, <2>2, <2>3, ReleaseInv
<1>4. ASSUME NEW r \in Relays, PublishFails(r)
      PROVE  IInv'
  <2>1. PICK e \in batch[r] : batch' = [batch EXCEPT ![r] = @ \ {e}]
    BY <1>4 DEF PublishFails
  <2>2. batch' = [batch EXCEPT ![r] = batch[r] \ {e}] /\ done' = done
    BY <1>4, <2>1 DEF IInv, TypeOK, PublishFails
  <2>3. /\ pc' \in [Relays -> {"idle", "reading", "publishing"}]
        /\ \A p \in Relays : p # r => pc'[p] = pc[p]
        /\ pc'[r] = "publishing"
    BY <1>4 DEF IInv, TypeOK, PublishFails
  <2>4. faults' \in Nat
    BY <1>4 DEF IInv, TypeOK, PublishFails, Fault
  <2>5. UNCHANGED <<occurred, rows, processed, sent, excused>>
    BY <1>4 DEF PublishFails
  <2> QED
    BY <2>2, <2>3, <2>4, <2>5, ReleaseInv
<1>5. CASE UNCHANGED vars
  BY <1>5 DEF vars, IInv, TypeOK, Ticks, DoneSent, ProcessedMeansSent, Owners, RepeatsExcused, Held
<1> QED
  BY <1>1, <1>2, <1>3, <1>4, <1>5, NextBatchInv, PublishInv, MarkProcessedInv, ForgetInv
  DEF Next, Tick

\* The outbox keeps to IInv: at any moment every relay's hand, the table and the
\* record of what was published agree (Relay.tick against OutboxStore).
THEOREM Invariance == Spec => []IInv
BY InitInv, StepInv, PTL DEF Spec

\* A row is marked processed only after its event was published, for any number
\* of relays that overlap, crash and fail (Relay.tick, MarkProcessed).
THEOREM NothingSkipped == Spec => []ProcessedMeansSent
BY Invariance, PTL DEF IInv

\* An event is published again only where two relays overlap, or a relay stops
\* or fails between Publish and MarkProcessed (Relay.tick).
THEOREM RepeatsAreExcused == Spec => []RepeatsExcused
BY Invariance, PTL DEF IInv
=============================================================================
