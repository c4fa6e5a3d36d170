------------------------------ MODULE AuditLog ------------------------------
(***************************************************************************)
(* The audit trail: AuditMW (internal/api/http/audit_mw.go) emits one      *)
(* event per request once its handler has answered, and the writer links   *)
(* the event's row to the row before it, by its hash.  MemoryWriter does   *)
(* so under one lock.  AuditStore (internal/storage/postgres/audit.go)     *)
(* keeps the last hash of a tenant in the process and reads it, inserts    *)
(* the row and writes it back in three steps.  One tenant; several server  *)
(* processes; a row's hash is its number, 0 stands for no hash.            *)
(***************************************************************************)
EXTENDS Integers, Sequences, FiniteSets

CONSTANTS
    Writers,       \* writers to consider: "memory", "postgres"
    Statuses,      \* of the answers of handlers
    Procs,         \* server processes
    Handlers,      \* requests that may be under way at a time
    MaxEvents,     \* bound: requests in all
    MaxRestarts,   \* bound: restarts of processes
    MaxLost        \* bound: statements that fail

ASSUME AuditAssumption == {MaxEvents, MaxRestarts, MaxLost} \subseteq Nat

VARIABLES
    writer,     \* the writer the servers were built with
    log,        \* audit_events: [prev, start, outcome, life, settled]
    tails,      \* process -> chainTail of the tenant, or Unseeded
    life,       \* process -> number of its restarts
    handling,   \* request -> [at, ...]
    clock,      \* requests so far
    lost,       \* statements that failed so far
    settled     \* history: rows whose emitter has written the tail

avars == <<writer, log, tails, life, handling, clock, lost, settled>>

Unseeded == -1
Waiting == [at |-> "idle"]

\* The outcome of a request, by the status of its answer.
Outcome(status) ==
    CASE status \in {401, 403} -> "denied"
      [] status >= 400         -> "failure"
      [] OTHER                 -> "success"

AuditInit ==
    /\ writer \in Writers
    /\ log = <<>>
    /\ tails = [p \in Procs |-> Unseeded]
    /\ life = [p \in Procs |-> 0]
    /\ handling = [h \in Handlers |-> Waiting]
    /\ clock = 0
    /\ lost = 0
    /\ settled = {}

Becomes(h, state) == handling' = [handling EXCEPT ![h] = state]

\* A request arrives at process p; the event will carry this time.
Arrive(h, p) ==
    /\ handling[h] = Waiting
    /\ clock < MaxEvents
    /\ clock' = clock + 1
    /\ Becomes(h, [at |-> "handler", proc |-> p, start |-> clock'])
    /\ UNCHANGED <<writer, log, tails, life, lost, settled>>

\* The handler has answered.  A request without a principal, or under a
\* prefix to skip, leaves no event.
Answered(h) ==
    /\ handling[h].at = "handler"
    /\ \/ Becomes(h, Waiting)
       \/ \E status \in Statuses :
              Becomes(h, [at |-> "emit", proc |-> handling[h].proc, start |-> handling[h].start,
                          outcome |-> Outcome(status)])
    /\ UNCHANGED <<writer, log, tails, life, clock, lost, settled>>

Event(h, prev, ghost) ==
    [prev |-> prev, start |-> handling[h].start, outcome |-> handling[h].outcome,
     life |-> <<handling[h].proc, life[handling[h].proc]>>, settled |-> ghost]

\* MemoryWriter.Emit.
MemoryEmit(h) ==
    LET p == handling[h].proc
        prev == IF tails[p] = Unseeded THEN 0 ELSE tails[p]
    IN  /\ writer = "memory"
        /\ handling[h].at = "emit"
        /\ log' = Append(log, Event(h, prev, settled))
        /\ tails' = [tails EXCEPT ![p] = Len(log')]
        /\ settled' = settled \cup {Len(log')}
        /\ Becomes(h, Waiting)
        /\ UNCHANGED <<writer, life, clock, lost>>

\* SELECT row_hash ... ORDER BY created_at DESC LIMIT 1.
LastRow ==
    IF log = <<>> THEN 0
    ELSE CHOOSE i \in DOMAIN log : \A j \in DOMAIN log : log[j].start <= log[i].start

\* AuditStore.tail, under the mutex.  The query for a process that has no
\* tail yet may fail, and nil is then the tail for good.
ReadTail(h) ==
    LET p == handling[h].proc
        Reads(v) == /\ tails' = [tails EXCEPT ![p] = v]
                    /\ Becomes(h, [at |-> "insert", proc |-> p, start |-> handling[h].start,
                                   outcome |-> handling[h].outcome, prev |-> v, settled |-> settled])
    IN  /\ writer = "postgres"
        /\ handling[h].at = "emit"
        /\ \/ tails[p] # Unseeded /\ Reads(tails[p]) /\ UNCHANGED lost
           \/ tails[p] = Unseeded /\ Reads(LastRow) /\ UNCHANGED lost
           \/ tails[p] = Unseeded /\ lost < MaxLost /\ lost' = lost + 1 /\ Reads(0)
        /\ UNCHANGED <<writer, log, life, clock, settled>>

Insert(h) ==
    /\ handling[h].at = "insert"
    /\ log' = Append(log, Event(h, handling[h].prev, handling[h].settled))
    /\ Becomes(h, [at |-> "update", proc |-> handling[h].proc, row |-> Len(log')])
    /\ UNCHANGED <<writer, tails, life, clock, lost, settled>>

\* The event is lost: AuditMW drops the error.
InsertFails(h) ==
    /\ handling[h].at = "insert"
    /\ lost < MaxLost
    /\ lost' = lost + 1
    /\ Becomes(h, Waiting)
    /\ UNCHANGED <<writer, log, tails, life, clock, settled>>

UpdateNothing(h) ==  \* mutant: the tail stays what it was
    /\ handling[h].at = "update"
    /\ settled' = settled \cup {handling[h].row}
    /\ Becomes(h, Waiting)
    /\ UNCHANGED <<writer, log, tails, life, clock, lost>>

UpdateTail(h) ==
    /\ handling[h].at = "update"
    /\ tails' = [tails EXCEPT ![handling[h].proc] = handling[h].row]
    /\ settled' = settled \cup {handling[h].row}
    /\ Becomes(h, Waiting)
    /\ UNCHANGED <<writer, log, life, clock, lost>>

\* A process starts again: its requests are gone, its tails too.  With the
\* memory writer so is the log, which is left out.
Restart(p) ==
    /\ writer = "postgres"
    /\ life[p] < MaxRestarts
    /\ life' = [life EXCEPT ![p] = @ + 1]
    /\ tails' = [tails EXCEPT ![p] = Unseeded]
    /\ handling' = [h \in Handlers |->
                       IF handling[h] # Waiting /\ handling[h].proc = p THEN Waiting ELSE handling[h]]
    /\ UNCHANGED <<writer, log, clock, lost, settled>>

AuditNext ==
    \/ \E h \in Handlers :
          \/ \E p \in Procs : Arrive(h, p)
          \/ Answered(h) \/ MemoryEmit(h) \/ ReadTail(h) \/ Insert(h) \/ InsertFails(h) \/ UpdateTail(h)
    \/ \E p \in Procs : Restart(p)

AuditSpec == AuditInit /\ [][AuditNext]_avars

(***************************************************************************)
(* Properties                                                              *)
(***************************************************************************)
\* The rows of a tenant form one chain, but for three things: rows of two
\* processes, or of two lives of one, and rows whose emits overlapped.  Two
\* rows of one life of a process, the second emitted after the first, never
\* have the same predecessor.
ForksExplained ==
    \A i, j \in DOMAIN log :
        i # j /\ log[i].prev = log[j].prev /\ log[i].life = log[j].life
            => i \notin log[j].settled /\ j \notin log[i].settled
=============================================================================
