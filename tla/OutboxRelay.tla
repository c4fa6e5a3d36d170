----------------------------- MODULE OutboxRelay -----------------------------
(***************************************************************************)
(* The transactional outbox (internal/core/outbox over                     *)
(* storage/postgres/outbox.go): writers insert events, and the relay of    *)
(* every API process polls for unprocessed rows, publishes them one by one *)
(* and marks the batch processed at the end.                               *)
(*                                                                         *)
(* A row is stamped (occurred_at) before its INSERT commits, so rows can   *)
(* become visible out of stamp order.  NextBatch locks rows with FOR       *)
(* UPDATE SKIP LOCKED, but outside a transaction: the locks end with the   *)
(* statement, before the first event is published.                         *)
(*                                                                         *)
(* Publish succeeds when the publisher returns nil.  What a broker does    *)
(* with the bytes afterwards is outside of this module.                    *)
(***************************************************************************)
EXTENDS Integers, FiniteSets

CONSTANTS
    Events,     \* events the application writes
    Relays,     \* API processes, each with a relay
    BatchSize,  \* Config.BatchSize
    Poison,     \* events the publisher never accepts
    FaultBound  \* bound on crashes, on failed statements and on failed publishes

ASSUME OutboxAssumption ==
    /\ IsFiniteSet(Events)
    /\ BatchSize \in Nat \ {0}
    /\ Poison \subseteq Events
    /\ FaultBound \in Nat

VARIABLES
    occurred,   \* event -> occurred_at; 0 while the event has not been stamped
    rows,       \* events whose row is committed
    processed,  \* rows with processed_at set
    pc,         \* relay -> where its tick is
    batch,      \* relay -> rows of its batch it has not tried yet
    done,       \* relay -> rows of its batch it has published
    sent,       \* history: event -> number of successful Publish calls
    excused,    \* history: events two ticks may both publish (see Overlaps)
    faults      \* faults so far

vars == <<occurred, rows, processed, pc, batch, done, sent, excused, faults>>

Unprocessed == rows \ processed

\* Rows under the lock of a NextBatch that is still reading.
Locked == UNION {batch[q] : q \in {p \in Relays : pc[p] = "reading"}}

Held(r) == batch[r] \cup done[r]

\* Up to BatchSize of the free rows, those stamped first.
IsNextBatch(B, free) ==
    /\ B \subseteq free
    /\ Cardinality(B) <= BatchSize
    /\ B # free => Cardinality(B) = BatchSize
    /\ \A e \in B, f \in free \ B : occurred[e] <= occurred[f]

\* The row to publish next: the batch is in stamp order.
IsNext(r, e) == e \in batch[r] /\ \A f \in batch[r] : occurred[e] <= occurred[f]

Init ==
    /\ occurred = [e \in Events |-> 0]
    /\ rows = {}
    /\ processed = {}
    /\ pc = [r \in Relays |-> "idle"]
    /\ batch = [r \in Relays |-> {}]
    /\ done = [r \in Relays |-> {}]
    /\ sent = [e \in Events |-> 0]
    /\ excused = {}
    /\ faults = 0

Fault == faults < FaultBound /\ faults' = faults + 1

(***************************************************************************)
(* Writers                                                                 *)
(***************************************************************************)

\* Write takes the time of the event ...
Stamp(e) ==
    /\ occurred[e] = 0
    /\ occurred' = [occurred EXCEPT ![e] =
                        1 + Cardinality({f \in Events : occurred[f] # 0})]
    /\ UNCHANGED <<rows, processed, pc, batch, done, sent, excused, faults>>

\* ... and inserts the row; it becomes visible with the commit.
Insert(e) ==
    /\ occurred[e] # 0
    /\ e \notin rows
    /\ rows' = rows \cup {e}
    /\ UNCHANGED <<occurred, processed, pc, batch, done, sent, excused, faults>>

(***************************************************************************)
(* The relay's tick                                                        *)
(***************************************************************************)

\* Rows the batch has in common with what other relays hold.
Overlaps(r, B) == B \cap UNION {Held(q) : q \in Relays \ {r}}

NextBatch(r) ==
    /\ pc[r] = "idle"
    /\ \E B \in SUBSET (Unprocessed \ Locked) :
           /\ IsNextBatch(B, Unprocessed \ Locked)
           /\ B # {}
           /\ batch' = [batch EXCEPT ![r] = B]
           /\ excused' = excused \cup Overlaps(r, B)
    /\ pc' = [pc EXCEPT ![r] = "reading"]
    /\ UNCHANGED <<occurred, rows, processed, done, sent, faults>>

\* The statement has been read to its end: its locks are gone.
BatchRead(r) ==
    /\ pc[r] = "reading"
    /\ pc' = [pc EXCEPT ![r] = "publishing"]
    /\ UNCHANGED <<occurred, rows, processed, batch, done, sent, excused, faults>>

\* The read fails: the tick is over.
BatchFails(r) ==
    /\ pc[r] = "reading"
    /\ Fault
    /\ pc' = [pc EXCEPT ![r] = "idle"]
    /\ batch' = [batch EXCEPT ![r] = {}]
    /\ UNCHANGED <<occurred, rows, processed, done, sent, excused>>

Publish(r) ==
    /\ pc[r] = "publishing"
    /\ \E e \in batch[r] \ Poison :
           /\ IsNext(r, e)
           /\ batch' = [batch EXCEPT ![r] = @ \ {e}]
           /\ done' = [done EXCEPT ![r] = @ \cup {e}]
           /\ sent' = [sent EXCEPT ![e] = @ + 1]
    /\ UNCHANGED <<occurred, rows, processed, pc, excused, faults>>

\* Mutant: a failed row is listed with the published ones.
FailureListed(r) ==
    /\ pc[r] = "publishing"
    /\ \E e \in batch[r] :
           /\ IsNext(r, e)
           /\ IF e \in Poison THEN UNCHANGED faults ELSE Fault
           /\ batch' = [batch EXCEPT ![r] = @ \ {e}]
           /\ done' = [done EXCEPT ![r] = @ \cup {e}]
    /\ UNCHANGED <<occurred, rows, processed, pc, sent, excused>>

\* Mutant: a failure ends the loop over the batch.
FailureEndsTick(r) ==
    /\ pc[r] = "publishing"
    /\ \E e \in batch[r] :
           /\ IsNext(r, e)
           /\ IF e \in Poison THEN UNCHANGED faults ELSE Fault
           /\ batch' = [batch EXCEPT ![r] = {}]
    /\ UNCHANGED <<occurred, rows, processed, pc, done, sent, excused>>

\* Publish returns an error: the relay goes on with the next row.  MarkFailed
\* counts the attempt in process_attempts, which nothing reads: Config's
\* MaxAttempts has no use, so a row is retried for ever.
PublishFails(r) ==
    /\ pc[r] = "publishing"
    /\ \E e \in batch[r] :
           /\ IsNext(r, e)
           /\ IF e \in Poison THEN UNCHANGED faults ELSE Fault
           /\ batch' = [batch EXCEPT ![r] = @ \ {e}]
    /\ UNCHANGED <<occurred, rows, processed, pc, done, sent, excused>>

\* Mutant: the published rows are not marked.
MarkNothing(r) ==
    /\ pc[r] = "publishing"
    /\ batch[r] = {}
    /\ done' = [done EXCEPT ![r] = {}]
    /\ pc' = [pc EXCEPT ![r] = "idle"]
    /\ UNCHANGED <<occurred, rows, processed, batch, sent, excused, faults>>

\* The end of the tick: what was published is marked in one statement; with
\* nothing published the statement is not run.
MarkProcessed(r) ==
    /\ pc[r] = "publishing"
    /\ batch[r] = {}
    /\ processed' = processed \cup done[r]
    /\ done' = [done EXCEPT ![r] = {}]
    /\ pc' = [pc EXCEPT ![r] = "idle"]
    /\ UNCHANGED <<occurred, rows, batch, sent, excused, faults>>

\* The statement fails and is only logged: the next tick publishes them again.
MarkFails(r) ==
    /\ pc[r] = "publishing"
    /\ batch[r] = {}
    /\ done[r] # {}
    /\ Fault
    /\ excused' = excused \cup done[r]
    /\ done' = [done EXCEPT ![r] = {}]
    /\ pc' = [pc EXCEPT ![r] = "idle"]
    /\ UNCHANGED <<occurred, rows, processed, batch, sent>>

\* The process stops in the middle of a tick and is started again.
Crash(r) ==
    /\ pc[r] # "idle"
    /\ Fault
    /\ excused' = excused \cup done[r]
    /\ batch' = [batch EXCEPT ![r] = {}]
    /\ done' = [done EXCEPT ![r] = {}]
    /\ pc' = [pc EXCEPT ![r] = "idle"]
    /\ UNCHANGED <<occurred, rows, processed, sent>>

Tick(r) ==
    NextBatch(r) \/ BatchRead(r) \/ Publish(r) \/ PublishFails(r) \/ MarkProcessed(r)

Next ==
    \/ \E e \in Events : Stamp(e) \/ Insert(e)
    \/ \E r \in Relays : Tick(r) \/ BatchFails(r) \/ MarkFails(r) \/ Crash(r)

Spec == Init /\ [][Next]_vars

(***************************************************************************)
(* Fairness: a ticker fires every TickInterval and a tick has no blocking  *)
(* call without a timeout, so a relay takes its steps; a writer that has   *)
(* the time of its event commits its row.                                  *)
(***************************************************************************)
FairSpec ==
    /\ Spec
    /\ \A e \in Events : WF_vars(Insert(e))
    /\ \A r \in Relays : WF_vars(Tick(r))

-----------------------------------------------------------------------------
(***************************************************************************)
(* Properties                                                              *)
(***************************************************************************)

TypeOK ==
    /\ occurred \in [Events -> Nat]
    /\ rows \subseteq Events
    /\ processed \subseteq Events
    /\ pc \in [Relays -> {"idle", "reading", "publishing"}]
    /\ batch \in [Relays -> SUBSET Events]
    /\ done \in [Relays -> SUBSET Events]
    /\ sent \in [Events -> Nat]
    /\ excused \subseteq Events
    /\ faults \in Nat

\* A row leaves the outbox only after the publisher has accepted it, whatever
\* relays crash, overlap or fail to mark (outbox.go:55-57, tick).
ProcessedMeansSent == \A e \in processed : sent[e] > 0

\* An event is published twice only if two relays held its row at the same
\* time, or the relay that published it stopped or failed before MarkProcessed:
\* a single relay without faults publishes every event once (tick).
RepeatsExcused == \A e \in Events : sent[e] > 1 => e \in excused

\* Every event that is written is published, however many relays compete and
\* whatever fails, as long as the rows that never go through do not fill a
\* batch: nothing ever sets them aside (tick, NextBatch).
EveryEventSent ==
    Cardinality(Poison) < BatchSize =>
        \A e \in Events \ Poison : (occurred[e] # 0) ~> (sent[e] > 0)
=============================================================================
