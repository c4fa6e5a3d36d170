------------------------ MODULE Orchestration_proofs ------------------------
(***************************************************************************)
(* The safety of Orchestration for any number of schedulers, pipelines,    *)
(* runs and workers.  The properties are not inductive alone:              *)
(*                                                                         *)
(*  - a tick is fired once because the ticks in the run table never lie    *)
(*    ahead of lastFired (Ticks), which holds only as long as the copies   *)
(*    the reaper writes back name the tick of their run (Copies);          *)
(*  - a run is not forgotten because nobody but its one worker touches its *)
(*    job (Leases), which needs that a run is enqueued once, by its one    *)
(*    creator (Creation).                                                  *)
(***************************************************************************)
EXTENDS Orchestration, TLAPS

\* Where the reaper may write, its rows belong to runs that exist, with their tick.
Copies ==
    SystemActorMayWrite => \A s \in Schedulers : \A c \in sched[s].list :
        /\ Exists(c.id)
        /\ c.row.pipe = runs[c.id].pipe
        /\ c.row.tick = runs[c.id].tick

\* Scheduled runs exist only where the scheduler may write, and none of them
\* is for a tick later than the last one fired.
Ticks ==
    \A r \in RunIds : Exists(r) /\ runs[r].tick # Manual =>
        /\ Backend = "memory"
        /\ runs[r].pipe \in Pipes
        /\ \A s \in Schedulers : runs[r].tick <= lastFired[s][runs[r].pipe]

\* The id has been given to a run, deleted or not.
Used(r) == runs[r].status # "none"

\* A run that waits for its creator to enqueue it has no job yet, and has one
\* creator.
Creation ==
    /\ \A r \in RunIds : jobs[r].state # "none" => Used(r)
    /\ \A r \in unsent : Used(r) /\ jobs[r].state = "none"
    /\ \A s \in Schedulers : sched[s].pc = "enqueue" =>
          /\ sched[s].run \in RunIds \ unsent
          /\ Used(sched[s].run)
          /\ jobs[sched[s].run].state = "none"
    /\ \A s, u \in Schedulers :
          sched[s].pc = "enqueue" /\ sched[u].pc = "enqueue" /\ sched[s].run = sched[u].run => s = u

\* A worker's run has a job; unless its lease was ever lost, it is leased to
\* this worker and to no other.
Leases ==
    /\ \A w \in Workers : workers[w].pc # "idle" =>
          workers[w].run \in RunIds /\ jobs[workers[w].run].state # "none"
    /\ \A w \in Workers : workers[w].pc # "idle" /\ workers[w].run \notin disputed =>
          HoldsLease(w)
    /\ \A v, w \in Workers :
          /\ workers[v].pc # "idle" /\ workers[w].pc # "idle"
          /\ workers[v].run = workers[w].run
          /\ workers[v].run \notin disputed
          => v = w

IInv ==
    /\ TypeOK
    /\ Copies
    /\ Ticks
    /\ Creation
    /\ Leases
    /\ OneRunPerTick
    /\ NoRunForgotten
    /\ ExecutionShown

-----------------------------------------------------------------------------

\* The firing time after an integer time is an integer.
LEMMA CronNextInt == \A x \in Int : CronNext(x) \in Int
BY OrchestrationAssumption DEF CronNext

\* So is the time at which a pipeline is due.
LEMMA DueAtInt ==
    ASSUME TypeOK, NEW s \in Schedulers, NEW p \in Pipes
    PROVE  DueAt(s, p) \in Int
BY OrchestrationAssumption, CronNextInt DEF TypeOK, DueAt

\* The initial state: no run, no job, nobody busy.
LEMMA InitInv == Init => IInv
<1> SUFFICES ASSUME Init PROVE IInv
  OBVIOUS
<1>1. TypeOK
  BY OrchestrationAssumption DEF Init, TypeOK, RowType, Absent, Idle, NoDelivery, NoJob, Manual, Terminal
<1>2. Copies /\ Ticks /\ Creation /\ Leases
  BY DEF Init, Copies, SystemActorMayWrite, Ticks, Creation, Used, Leases, Absent, Idle, NoDelivery, NoJob, Exists
<1>3. OneRunPerTick /\ NoRunForgotten /\ ExecutionShown
  BY DEF Init, OneRunPerTick, NoRunForgotten, ExecutionShown, Absent, Idle, NoDelivery, NoJob, Exists
<1>. QED
  BY <1>1, <1>2, <1>3 DEF IInv

\* The tick is later than every tick in the table, and the row is new.
LEMMA FireDueInv ==
    ASSUME IInv, NEW s \in Schedulers, NEW p \in Pipes, FireDue(s, p)
    PROVE  IInv'
<1>0. /\ TypeOK /\ Copies /\ Ticks /\ Creation /\ Leases
      /\ OneRunPerTick /\ NoRunForgotten /\ ExecutionShown
  BY DEF IInv
<1>t. DueAt(s, p) \in Nat /\ lastFired[s][p] < DueAt(s, p) /\ DueAt(s, p) # Manual
  BY <1>0, DueAtInt DEF FireDue, TypeOK, Manual
<1>r. PICK r \in RunIds : /\ ~Used(r)
                          /\ runs' = [runs EXCEPT ![r] = Row(p, DueAt(s, p))]
                          /\ sched' = [sched EXCEPT ![s] = [pc |-> "enqueue", run |-> r, list |-> {}]]
  BY DEF FireDue, IsFresh, Used
<1>f. /\ runs'[r] = Row(p, DueAt(s, p))
      /\ \A q \in RunIds \ {r} : runs'[q] = runs[q]
  BY <1>0, <1>r DEF TypeOK
<1>g. \A v \in Workers : workers[v].pc # "idle" => workers[v].run \in RunIds \ {r}
  BY <1>0, <1>r DEF Leases, Creation, Used
<1>1. TypeOK'
  <2>1. runs' \in [RunIds -> RowType]
    BY <1>0, <1>r, <1>t DEF TypeOK, RowType, Row
  <2>2. lastFired' \in [Schedulers -> [Pipes -> Nat]]
    BY <1>0, <1>t DEF FireDue, TypeOK
  <2>3. sched' \in [Schedulers -> [pc : {"idle", "enqueue", "reap"}, run : RunIds \cup {0},
                                  list : SUBSET [id : RunIds, row : RowType]]]
    BY <1>0, <1>r DEF TypeOK
  <2>. QED
    BY <1>0, <2>1, <2>2, <2>3 DEF FireDue, TypeOK
<1>2. Copies'
  BY <1>0 DEF FireDue, Row, IsFresh, Manual, Terminal, SystemActorMayWrite, Copies,
          Exists, TypeOK, RowType
<1>3. Ticks'
  <2>1. Backend = "memory" /\ \A u \in Schedulers : u = s
    BY OrchestrationAssumption DEF FireDue, SystemActorMayWrite
  <2>2. lastFired'[s][p] = DueAt(s, p) /\ \A q \in Pipes : lastFired[s][q] <= lastFired'[s][q]
    BY <1>0, <1>t DEF FireDue, TypeOK
  <2>3. \A q \in RunIds : runs[q].tick \in Nat
    BY <1>0 DEF TypeOK, RowType
  <2>4. ASSUME NEW q \in RunIds, Exists(q)', runs'[q].tick # Manual
        PROVE  runs'[q].pipe \in Pipes /\ runs'[q].tick <= lastFired'[s][runs'[q].pipe]
    <3>1. CASE q = r
      BY <1>f, <1>t, <2>2, <3>1 DEF Row
    <3>2. CASE q # r
      <4>1. runs'[q] = runs[q] /\ Exists(q)
        BY <1>f, <2>4, <3>2 DEF Exists
      <4>2. runs[q].pipe \in Pipes /\ runs[q].tick <= lastFired[s][runs[q].pipe]
        BY <1>0, <2>4, <4>1 DEF Ticks
      <4>3. /\ runs[q].tick \in Nat
            /\ lastFired[s][runs[q].pipe] \in Nat /\ lastFired'[s][runs[q].pipe] \in Nat
            /\ lastFired[s][runs[q].pipe] <= lastFired'[s][runs[q].pipe]
        BY <1>0, <1>1, <2>2, <2>3, <4>2 DEF TypeOK
      <4>. QED
        BY <4>1, <4>2, <4>3
    <3>. QED
      BY <3>1, <3>2
  <2>. QED
    BY <2>1, <2>4 DEF Ticks
<1>4. Creation'
  BY <1>0 DEF FireDue, Row, IsFresh, Manual, Terminal, SystemActorMayWrite, Creation, Used,
          Exists, TypeOK, RowType
<1>5. Leases'
  BY <1>0 DEF FireDue, Row, IsFresh, Manual, Terminal, SystemActorMayWrite, Leases,
          HoldsLease, TypeOK, RowType
<1>6. OneRunPerTick'
  <2>1. \A q \in RunIds : Exists(q) /\ runs[q].tick # Manual /\ runs[q].pipe = p =>
          runs[q].tick # DueAt(s, p)
    BY <1>0, <1>t DEF Ticks, TypeOK, RowType
  <2>. QED
    BY <1>0, <1>f, <1>t, <2>1 DEF OneRunPerTick, Exists, Row
<1>7. NoRunForgotten'
  BY <1>0 DEF FireDue, Row, IsFresh, Manual, Terminal, SystemActorMayWrite,
          NoRunForgotten, Exists, TypeOK, RowType
<1>8. ExecutionShown'
  <2>1. \A v \in Workers : workers[v].pc = "exec" => runs'[workers[v].run] = runs[workers[v].run]
    BY <1>f, <1>g
  <2>. QED
    BY <1>0, <2>1 DEF FireDue, ExecutionShown, Exists
<1>. QED
  BY <1>1, <1>2, <1>3, <1>4, <1>5, <1>6, <1>7, <1>8 DEF IInv

\* Only lastFired moves, and only forward.
LEMMA FireRefusedInv ==
    ASSUME IInv, NEW s \in Schedulers, NEW p \in Pipes, FireRefused(s, p)
    PROVE  IInv'
<1>0. /\ TypeOK /\ Copies /\ Ticks /\ Creation /\ Leases
      /\ OneRunPerTick /\ NoRunForgotten /\ ExecutionShown
  BY DEF IInv
<1>1. TypeOK'
  <2>1. lastFired' \in [Schedulers -> [Pipes -> Nat]]
    BY <1>0, DueAtInt DEF FireRefused, TypeOK
  <2>. QED
    BY <1>0, <2>1 DEF FireRefused, TypeOK
<1>2. Copies'
  BY <1>0 DEF FireRefused, Copies, SystemActorMayWrite, Exists, TypeOK, RowType
<1>3. Ticks'
  <2>1. \A u \in Schedulers, q \in Pipes : lastFired[u][q] <= lastFired'[u][q]
    BY <1>0, DueAtInt DEF FireRefused, TypeOK
  <2>2. \A q \in RunIds : runs[q].tick \in Nat
    BY <1>0 DEF TypeOK, RowType
  <2>3. lastFired' \in [Schedulers -> [Pipes -> Nat]]
    BY <1>1 DEF TypeOK
  <2>. QED
    BY <1>0, <2>1, <2>2, <2>3 DEF FireRefused, Ticks, Exists, TypeOK
<1>4. Creation'
  BY <1>0 DEF FireRefused, Creation, Used, Exists, TypeOK, RowType
<1>5. Leases'
  BY <1>0 DEF FireRefused, Leases, HoldsLease, TypeOK, RowType
<1>6. OneRunPerTick'
  BY <1>0 DEF FireRefused, OneRunPerTick, Exists, TypeOK, RowType
<1>7. NoRunForgotten'
  BY <1>0 DEF FireRefused, NoRunForgotten, Exists, TypeOK, RowType
<1>8. ExecutionShown'
  BY <1>0 DEF FireRefused, ExecutionShown, Exists, TypeOK, RowType
<1>. QED
  BY <1>1, <1>2, <1>3, <1>4, <1>5, <1>6, <1>7, <1>8 DEF IInv

\* The creator hands its run to the queue.
LEMMA ScheduleEnqueueInv ==
    ASSUME IInv, NEW s \in Schedulers, ScheduleEnqueue(s)
    PROVE  IInv'
<1>0. /\ TypeOK /\ Copies /\ Ticks /\ Creation /\ Leases
      /\ OneRunPerTick /\ NoRunForgotten /\ ExecutionShown
  BY DEF IInv
<1>e. sched[s].run \in RunIds /\ jobs[sched[s].run].state = "none"
  BY <1>0 DEF ScheduleEnqueue, Creation, Used
<1>f. \A v \in Workers : workers[v].pc # "idle" => jobs'[workers[v].run] = jobs[workers[v].run]
  BY <1>0, <1>e DEF ScheduleEnqueue, EnqueueJob, Leases, TypeOK
<1>1. TypeOK'
  BY <1>0, <1>e, OrchestrationAssumption DEF ScheduleEnqueue, EnqueueJob, Idle, TypeOK
<1>2. Copies'
  BY <1>0 DEF ScheduleEnqueue, EnqueueJob, Idle, Copies, SystemActorMayWrite, Exists, TypeOK, RowType
<1>3. Ticks'
  BY <1>0 DEF ScheduleEnqueue, EnqueueJob, Idle, Ticks, Exists, TypeOK, RowType
<1>4. Creation'
  BY <1>0 DEF ScheduleEnqueue, EnqueueJob, Idle, Creation, Used, Exists, TypeOK, RowType
<1>5. Leases'
  BY <1>0, <1>f DEF ScheduleEnqueue, Leases, HoldsLease
<1>6. OneRunPerTick'
  BY <1>0 DEF ScheduleEnqueue, EnqueueJob, Idle, OneRunPerTick, Exists, TypeOK, RowType
<1>7. NoRunForgotten'
  BY <1>0 DEF ScheduleEnqueue, EnqueueJob, Idle, NoRunForgotten, Exists, TypeOK, RowType
<1>8. ExecutionShown'
  BY <1>0 DEF ScheduleEnqueue, EnqueueJob, Idle, ExecutionShown, Exists, TypeOK, RowType
<1>. QED
  BY <1>1, <1>2, <1>3, <1>4, <1>5, <1>6, <1>7, <1>8 DEF IInv

\* The list copies rows as they are.
LEMMA ReapListInv ==
    ASSUME IInv, NEW s \in Schedulers, ReapList(s)
    PROVE  IInv'
<1>0. /\ TypeOK /\ Copies /\ Ticks /\ Creation /\ Leases
      /\ OneRunPerTick /\ NoRunForgotten /\ ExecutionShown
  BY DEF IInv
<1>1. TypeOK'
  BY <1>0 DEF ReapList, Stuck, Terminal, TypeOK, RowType
<1>2. Copies'
  BY <1>0 DEF ReapList, Stuck, Terminal, Copies, SystemActorMayWrite, Exists, TypeOK, RowType
<1>3. Ticks'
  BY <1>0 DEF ReapList, Stuck, Terminal, Ticks, Exists, TypeOK, RowType
<1>4. Creation'
  BY <1>0 DEF ReapList, Stuck, Terminal, Creation, Used, Exists, TypeOK, RowType
<1>5. Leases'
  BY <1>0 DEF ReapList, Stuck, Terminal, Leases, HoldsLease, TypeOK, RowType
<1>6. OneRunPerTick'
  BY <1>0 DEF ReapList, Stuck, Terminal, OneRunPerTick, Exists, TypeOK, RowType
<1>7. NoRunForgotten'
  BY <1>0 DEF ReapList, Stuck, Terminal, NoRunForgotten, Exists, TypeOK, RowType
<1>8. ExecutionShown'
  BY <1>0 DEF ReapList, Stuck, Terminal, ExecutionShown, Exists, TypeOK, RowType
<1>. QED
  BY <1>1, <1>2, <1>3, <1>4, <1>5, <1>6, <1>7, <1>8 DEF IInv

\* The row is written back with its own tick, and finished.
LEMMA ReapOneInv ==
    ASSUME IInv, NEW s \in Schedulers, ReapOne(s)
    PROVE  IInv'
<1>0. /\ TypeOK /\ Copies /\ Ticks /\ Creation /\ Leases
      /\ OneRunPerTick /\ NoRunForgotten /\ ExecutionShown
  BY DEF IInv
<1>c. PICK c \in sched[s].list :
        /\ sched' = [sched EXCEPT ![s].list = @ \ {c}]
        /\ IF SystemActorMayWrite
           THEN /\ runs' = [runs EXCEPT ![c.id] = [c.row EXCEPT !.status = "failed"]]
                /\ reaped' = reaped \cup {c.id}
           ELSE UNCHANGED <<runs, reaped>>
  BY DEF ReapOne
<1>d. c.id \in RunIds /\ c.row \in RowType
  BY <1>0 DEF TypeOK
<1>e. \A u \in Schedulers : /\ sched'[u].pc = sched[u].pc
                            /\ sched'[u].run = sched[u].run
                            /\ sched'[u].list \subseteq sched[u].list
  BY <1>0, <1>c DEF TypeOK
<1>r. runs' \in [RunIds -> RowType]
  <2>1. [c.row EXCEPT !.status = "failed"] \in RowType
    BY <1>d DEF RowType, Terminal
  <2>. QED
    BY <1>0, <1>c, <1>d, <2>1 DEF TypeOK
<1>f. \A q \in RunIds : /\ runs'[q].pipe = runs[q].pipe
                        /\ runs'[q].tick = runs[q].tick
                        /\ runs'[q].status = "none" <=> runs[q].status = "none"
                        /\ runs'[q].status = "deleted" <=> runs[q].status = "deleted"
  <2>1. SystemActorMayWrite => /\ runs[c.id].status \notin {"none", "deleted"}
                               /\ c.row.pipe = runs[c.id].pipe
                               /\ c.row.tick = runs[c.id].tick
    BY <1>0, <1>c DEF Copies, Exists
  <2>2. \/ runs' = runs
        \/ SystemActorMayWrite /\ runs' = [runs EXCEPT ![c.id] = [c.row EXCEPT !.status = "failed"]]
    BY <1>c
  <2>3. CASE SystemActorMayWrite /\ runs' = [runs EXCEPT ![c.id] = [c.row EXCEPT !.status = "failed"]]
    <3>1. /\ runs'[c.id] = [c.row EXCEPT !.status = "failed"]
          /\ \A q \in RunIds \ {c.id} : runs'[q] = runs[q]
      BY <1>0, <1>d, <2>3 DEF TypeOK
    <3>2. runs'[c.id].status = "failed" /\ runs'[c.id].pipe = c.row.pipe /\ runs'[c.id].tick = c.row.tick
      BY <1>d, <3>1 DEF RowType
    <3>. QED
      BY <2>1, <2>3, <3>1, <3>2
  <2>. QED
    BY <2>2, <2>3
<1>g. \A q \in RunIds : runs'[q] = runs[q] \/ (q \in reaped' /\ runs'[q].status = "failed")
  BY <1>0, <1>c, <1>d DEF TypeOK, RowType
<1>h. reaped \subseteq reaped' /\ reaped' \subseteq RunIds
  BY <1>0, <1>c, <1>d DEF TypeOK
<1>1. TypeOK'
  <2>. DEFINE Proc == [pc : {"idle", "enqueue", "reap"}, run : RunIds \cup {0},
                       list : SUBSET [id : RunIds, row : RowType]]
  <2>1. sched \in [Schedulers -> Proc]
    BY <1>0 DEF TypeOK
  <2>2. [sched[s] EXCEPT !.list = @ \ {c}] \in Proc
    <3>1. sched[s] \in Proc
      BY <2>1
    <3>. QED
      BY <3>1
  <2>3. sched' = [sched EXCEPT ![s] = [sched[s] EXCEPT !.list = @ \ {c}]]
    BY <1>c
  <2>4. sched' \in [Schedulers -> Proc]
    <3>. HIDE DEF Proc
    <3>. QED
      BY <2>1, <2>2, <2>3
  <2>. QED
    BY <1>0, <1>r, <1>h, <2>4 DEF ReapOne, TypeOK
<1>2. Copies'
  <2>1. \A u \in Schedulers : \A d \in sched'[u].list : d \in sched[u].list /\ d.id \in RunIds
    BY <1>0, <1>e DEF TypeOK
  <2>. QED
    BY <1>0, <1>f, <2>1 DEF Copies, SystemActorMayWrite, Exists
<1>3. Ticks'
  BY <1>0, <1>f DEF ReapOne, Ticks, Exists
<1>4. Creation'
  <2>1. jobs' = jobs /\ unsent' = unsent /\ unsent \subseteq RunIds
    BY <1>0 DEF ReapOne, TypeOK
  <2>. QED
    BY <1>0, <1>e, <1>f, <2>1 DEF Creation, Used, Exists
<1>5. Leases'
  BY <1>0 DEF ReapOne, Terminal, Leases, HoldsLease, TypeOK, RowType
<1>6. OneRunPerTick'
  BY <1>0, <1>f DEF OneRunPerTick, Exists
<1>7. NoRunForgotten'
  BY <1>0, <1>e, <1>g DEF ReapOne, NoRunForgotten
<1>8. ExecutionShown'
  <2>1. \A w \in Workers : workers[w].pc = "exec" => workers[w].run \in RunIds
    BY <1>0 DEF Leases
  <2>. QED
    BY <1>0, <1>g, <1>h, <2>1 DEF ReapOne, ExecutionShown, Exists
<1>. QED
  BY <1>1, <1>2, <1>3, <1>4, <1>5, <1>6, <1>7, <1>8 DEF IInv

\* The reaper forgets its list.
LEMMA ReapDoneInv ==
    ASSUME IInv, NEW s \in Schedulers, ReapDone(s)
    PROVE  IInv'
<1>0. /\ TypeOK /\ Copies /\ Ticks /\ Creation /\ Leases
      /\ OneRunPerTick /\ NoRunForgotten /\ ExecutionShown
  BY DEF IInv
<1>1. TypeOK'
  BY <1>0 DEF ReapDone, Idle, TypeOK, RowType
<1>2. Copies'
  BY <1>0 DEF ReapDone, Idle, Copies, SystemActorMayWrite, Exists, TypeOK, RowType
<1>3. Ticks'
  BY <1>0 DEF ReapDone, Idle, Ticks, Exists, TypeOK, RowType
<1>4. Creation'
  BY <1>0 DEF ReapDone, Idle, Creation, Used, Exists, TypeOK, RowType
<1>5. Leases'
  BY <1>0 DEF ReapDone, Idle, Leases, HoldsLease, TypeOK, RowType
<1>6. OneRunPerTick'
  BY <1>0 DEF ReapDone, Idle, OneRunPerTick, Exists, TypeOK, RowType
<1>7. NoRunForgotten'
  BY <1>0 DEF ReapDone, Idle, NoRunForgotten, Exists, TypeOK, RowType
<1>8. ExecutionShown'
  BY <1>0 DEF ReapDone, Idle, ExecutionShown, Exists, TypeOK, RowType
<1>. QED
  BY <1>1, <1>2, <1>3, <1>4, <1>5, <1>6, <1>7, <1>8 DEF IInv

\* A manual run is new and its creator's.
LEMMA TriggerPipelineInv ==
    ASSUME IInv, NEW p \in Pipes, TriggerPipeline(p)
    PROVE  IInv'
<1>0. /\ TypeOK /\ Copies /\ Ticks /\ Creation /\ Leases
      /\ OneRunPerTick /\ NoRunForgotten /\ ExecutionShown
  BY DEF IInv
<1>r. PICK r \in RunIds : /\ ~Used(r)
                          /\ runs' = [runs EXCEPT ![r] = Row(p, Manual)]
                          /\ unsent' = unsent \cup {r}
  BY DEF TriggerPipeline, IsFresh, Used
<1>f. /\ runs'[r] = Row(p, Manual)
      /\ \A q \in RunIds \ {r} : runs'[q] = runs[q]
  BY <1>0, <1>r DEF TypeOK
<1>g. \A v \in Workers : workers[v].pc # "idle" => workers[v].run \in RunIds \ {r}
  BY <1>0, <1>r DEF Leases, Creation, Used
<1>1. TypeOK'
  BY <1>0 DEF TriggerPipeline, Row, IsFresh, Manual, Terminal, TypeOK, RowType
<1>2. Copies'
  BY <1>0 DEF TriggerPipeline, Row, IsFresh, Manual, Terminal, Copies, SystemActorMayWrite, Exists,
          TypeOK, RowType
<1>3. Ticks'
  BY <1>0 DEF TriggerPipeline, Row, IsFresh, Manual, Terminal, Ticks, Exists, TypeOK,
          RowType
<1>4. Creation'
  BY <1>0 DEF TriggerPipeline, Row, IsFresh, Manual, Terminal, Creation, Used, Exists,
          TypeOK, RowType
<1>5. Leases'
  BY <1>0 DEF TriggerPipeline, Row, IsFresh, Manual, Terminal, Leases, HoldsLease,
          TypeOK, RowType
<1>6. OneRunPerTick'
  BY <1>0 DEF TriggerPipeline, Row, IsFresh, Manual, Terminal, OneRunPerTick, Exists,
          TypeOK, RowType
<1>7. NoRunForgotten'
  BY <1>0 DEF TriggerPipeline, Row, IsFresh, Manual, Terminal, NoRunForgotten,
          Exists, TypeOK, RowType
<1>8. ExecutionShown'
  <2>1. \A v \in Workers : workers[v].pc = "exec" => runs'[workers[v].run] = runs[workers[v].run]
    BY <1>f, <1>g
  <2>. QED
    BY <1>0, <2>1 DEF TriggerPipeline, ExecutionShown, Exists
<1>. QED
  BY <1>1, <1>2, <1>3, <1>4, <1>5, <1>6, <1>7, <1>8 DEF IInv

\* The rows that are left are as they were.
LEMMA PipelineInv ==
    ASSUME IInv, NEW p \in Pipes, CreatePipeline(p) \/ DeletePipeline(p)
    PROVE  IInv'
<1>0. /\ TypeOK /\ Copies /\ Ticks /\ Creation /\ Leases
      /\ OneRunPerTick /\ NoRunForgotten /\ ExecutionShown
  BY DEF IInv
<1>r. runs' \in [RunIds -> RowType]
  <2>1. runs \in [RunIds -> RowType]
    BY <1>0 DEF TypeOK
  <2>2. Deleted \in RowType
    BY DEF Deleted, Absent, Manual, RowType
  <2>3. \/ runs' = runs
        \/ runs' = [r \in RunIds |-> IF Exists(r) /\ runs[r].pipe = p THEN Deleted ELSE runs[r]]
    BY DEF CreatePipeline, DeletePipeline
  <2>. QED
    BY <2>1, <2>2, <2>3
<1>f. \A r \in RunIds : runs'[r] = runs[r] \/ (Backend = "postgres" /\ Exists(r) /\ runs'[r] = Deleted)
  BY <1>0, OrchestrationAssumption DEF CreatePipeline, DeletePipeline, TypeOK
<1>g. \A r \in RunIds : Exists(r)' => runs'[r] = runs[r]
  BY <1>f DEF Exists, Deleted, Absent
<1>h. \A r \in RunIds : Used(r) => Used(r)'
  BY <1>f DEF Used, Deleted, Absent
<1>u. UNCHANGED <<now, lastFired, sched, unsent, jobs, workers, dropped, reaped, disputed>>
  BY DEF CreatePipeline, DeletePipeline
<1>1. TypeOK'
  BY <1>0, <1>r, <1>u DEF CreatePipeline, DeletePipeline, TypeOK
<1>2. Copies'
  <2>1. SystemActorMayWrite => \A r \in RunIds : runs'[r] = runs[r]
    BY <1>f DEF SystemActorMayWrite
  <2>2. \A s \in Schedulers : \A c \in sched[s].list : c.id \in RunIds
    BY <1>0 DEF TypeOK
  <2>. QED
    BY <1>0, <1>u, <2>1, <2>2 DEF Copies, Exists, SystemActorMayWrite
<1>3. Ticks'
  BY <1>0, <1>g, <1>u DEF Ticks, Exists
<1>4. Creation'
  <2>1. unsent \subseteq RunIds
    BY <1>0 DEF TypeOK
  <2>. QED
    BY <1>0, <1>h, <1>u, <2>1 DEF Creation
<1>5. Leases'
  BY <1>0, <1>u DEF Leases, HoldsLease
<1>6. OneRunPerTick'
  BY <1>0, <1>g DEF OneRunPerTick, Exists
<1>7. NoRunForgotten'
  <2>1. \A r \in RunIds : runs'[r].status \in {"queued", "running"} => runs'[r] = runs[r]
    BY <1>f DEF Deleted, Absent
  <2>. QED
    BY <1>0, <1>u, <2>1 DEF NoRunForgotten
<1>8. ExecutionShown'
  <2>1. \A w \in Workers : workers[w].pc = "exec" => workers[w].run \in RunIds
    BY <1>0 DEF Leases
  <2>. QED
    BY <1>0, <1>g, <1>u, <2>1 DEF ExecutionShown, Exists
<1>. QED
  BY <1>1, <1>2, <1>3, <1>4, <1>5, <1>6, <1>7, <1>8 DEF IInv

\* The creator hands its run to the queue.
LEMMA TriggerEnqueueInv ==
    ASSUME IInv, NEW r \in RunIds, TriggerEnqueue(r)
    PROVE  IInv'
<1>0. /\ TypeOK /\ Copies /\ Ticks /\ Creation /\ Leases
      /\ OneRunPerTick /\ NoRunForgotten /\ ExecutionShown
  BY DEF IInv
<1>e. r \in RunIds /\ jobs[r].state = "none"
  BY <1>0 DEF TriggerEnqueue, Creation, Used
<1>f. \A v \in Workers : workers[v].pc # "idle" => jobs'[workers[v].run] = jobs[workers[v].run]
  BY <1>0, <1>e DEF TriggerEnqueue, EnqueueJob, Leases, TypeOK
<1>1. TypeOK'
  BY <1>0, OrchestrationAssumption DEF TriggerEnqueue, EnqueueJob, TypeOK
<1>2. Copies'
  BY <1>0 DEF TriggerEnqueue, EnqueueJob, Copies, SystemActorMayWrite, Exists, TypeOK, RowType
<1>3. Ticks'
  BY <1>0 DEF TriggerEnqueue, EnqueueJob, Ticks, Exists, TypeOK, RowType
<1>4. Creation'
  BY <1>0 DEF TriggerEnqueue, EnqueueJob, Creation, Used, Exists, TypeOK, RowType
<1>5. Leases'
  BY <1>0, <1>f DEF TriggerEnqueue, Leases, HoldsLease
<1>6. OneRunPerTick'
  BY <1>0 DEF TriggerEnqueue, EnqueueJob, OneRunPerTick, Exists, TypeOK, RowType
<1>7. NoRunForgotten'
  BY <1>0 DEF TriggerEnqueue, EnqueueJob, NoRunForgotten, Exists, TypeOK, RowType
<1>8. ExecutionShown'
  BY <1>0 DEF TriggerEnqueue, EnqueueJob, ExecutionShown, Exists, TypeOK, RowType
<1>. QED
  BY <1>1, <1>2, <1>3, <1>4, <1>5, <1>6, <1>7, <1>8 DEF IInv

\* The run is given up, and known to be.
LEMMA TriggerEnqueueFailsInv ==
    ASSUME IInv, NEW r \in RunIds, TriggerEnqueueFails(r)
    PROVE  IInv'
<1>0. /\ TypeOK /\ Copies /\ Ticks /\ Creation /\ Leases
      /\ OneRunPerTick /\ NoRunForgotten /\ ExecutionShown
  BY DEF IInv
<1>1. TypeOK'
  BY <1>0 DEF TriggerEnqueueFails, TypeOK, RowType
<1>2. Copies'
  BY <1>0 DEF TriggerEnqueueFails, Copies, SystemActorMayWrite, Exists, TypeOK, RowType
<1>3. Ticks'
  BY <1>0 DEF TriggerEnqueueFails, Ticks, Exists, TypeOK, RowType
<1>4. Creation'
  BY <1>0 DEF TriggerEnqueueFails, Creation, Used, Exists, TypeOK, RowType
<1>5. Leases'
  BY <1>0 DEF TriggerEnqueueFails, Leases, HoldsLease, TypeOK, RowType
<1>6. OneRunPerTick'
  BY <1>0 DEF TriggerEnqueueFails, OneRunPerTick, Exists, TypeOK, RowType
<1>7. NoRunForgotten'
  BY <1>0 DEF TriggerEnqueueFails, NoRunForgotten, Exists, TypeOK, RowType
<1>8. ExecutionShown'
  BY <1>0 DEF TriggerEnqueueFails, ExecutionShown, Exists, TypeOK, RowType
<1>. QED
  BY <1>1, <1>2, <1>3, <1>4, <1>5, <1>6, <1>7, <1>8 DEF IInv

\* A pending job has no worker but those that lost its lease.
LEMMA TakeInv ==
    ASSUME IInv, NEW w \in Workers, NEW r \in RunIds, Take(w, r)
    PROVE  IInv'
<1>0. /\ TypeOK /\ Copies /\ Ticks /\ Creation /\ Leases
      /\ OneRunPerTick /\ NoRunForgotten /\ ExecutionShown
  BY DEF IInv
<1>1. TypeOK'
  BY <1>0 DEF Take, TypeOK, RowType
<1>2. Copies'
  BY <1>0 DEF Take, Copies, SystemActorMayWrite, Exists, TypeOK, RowType
<1>3. Ticks'
  BY <1>0 DEF Take, Ticks, Exists, TypeOK, RowType
<1>4. Creation'
  BY <1>0 DEF Take, Creation, Used, Exists, TypeOK, RowType
<1>5. Leases'
  BY <1>0 DEF Take, Leases, HoldsLease, TypeOK, RowType
<1>6. OneRunPerTick'
  BY <1>0 DEF Take, OneRunPerTick, Exists, TypeOK, RowType
<1>7. NoRunForgotten'
  BY <1>0 DEF Take, NoRunForgotten, Exists, TypeOK, RowType
<1>8. ExecutionShown'
  BY <1>0 DEF Take, ExecutionShown, Exists, TypeOK, RowType
<1>. QED
  BY <1>1, <1>2, <1>3, <1>4, <1>5, <1>6, <1>7, <1>8 DEF IInv

\* Nothing shared changes.
LEMMA LoadRunInv ==
    ASSUME IInv, NEW w \in Workers, LoadRun(w)
    PROVE  IInv'
<1>0. /\ TypeOK /\ Copies /\ Ticks /\ Creation /\ Leases
      /\ OneRunPerTick /\ NoRunForgotten /\ ExecutionShown
  BY DEF IInv
<1>1. TypeOK'
  BY <1>0 DEF LoadRun, TypeOK, RowType
<1>2. Copies'
  BY <1>0 DEF LoadRun, Copies, SystemActorMayWrite, Exists, TypeOK, RowType
<1>3. Ticks'
  BY <1>0 DEF LoadRun, Ticks, Exists, TypeOK, RowType
<1>4. Creation'
  BY <1>0 DEF LoadRun, Creation, Used, Exists, TypeOK, RowType
<1>5. Leases'
  BY <1>0 DEF LoadRun, Leases, HoldsLease, TypeOK, RowType
<1>6. OneRunPerTick'
  BY <1>0 DEF LoadRun, OneRunPerTick, Exists, TypeOK, RowType
<1>7. NoRunForgotten'
  BY <1>0 DEF LoadRun, NoRunForgotten, Exists, TypeOK, RowType
<1>8. ExecutionShown'
  BY <1>0 DEF LoadRun, ExecutionShown, Exists, TypeOK, RowType
<1>. QED
  BY <1>1, <1>2, <1>3, <1>4, <1>5, <1>6, <1>7, <1>8 DEF IInv

\* The job of a finished run is acknowledged.
LEMMA LoadTerminalInv ==
    ASSUME IInv, NEW w \in Workers, LoadTerminal(w)
    PROVE  IInv'
<1>0. /\ TypeOK /\ Copies /\ Ticks /\ Creation /\ Leases
      /\ OneRunPerTick /\ NoRunForgotten /\ ExecutionShown
  BY DEF IInv
<1>1. TypeOK'
  <2>1. jobs' \in [RunIds -> [state : {"none", "pending", "leased", "acked", "archived"},
                             retried : 0..MaxRetry]]
    BY <1>0, ZenonT(60) DEF LoadTerminal, Ack, TypeOK
  <2>2. workers' \in [Workers -> [pc : {"idle", "load", "start", "exec"}, run : RunIds \cup {0},
                                 lease : 0..MaxRetry, startedAt : Nat]]
    BY <1>0, OrchestrationAssumption DEF LoadTerminal, NoDelivery, TypeOK
  <2>. QED
    BY <1>0, <2>1, <2>2 DEF LoadTerminal, TypeOK
<1>2. Copies'
  BY <1>0 DEF LoadTerminal, Ack, NoDelivery, Terminal, HoldsLease, Copies, SystemActorMayWrite, Exists,
          TypeOK, RowType
<1>3. Ticks'
  BY <1>0 DEF LoadTerminal, Ack, NoDelivery, Terminal, HoldsLease, Ticks, Exists,
          TypeOK, RowType
<1>4. Creation'
  BY <1>0 DEF LoadTerminal, Ack, NoDelivery, Terminal, HoldsLease, Creation, Used, Exists,
          TypeOK, RowType
<1>5. Leases'
  BY <1>0 DEF LoadTerminal, Ack, NoDelivery, Terminal, HoldsLease, Leases, TypeOK,
          RowType
<1>6. OneRunPerTick'
  BY <1>0 DEF LoadTerminal, Ack, NoDelivery, Terminal, HoldsLease, OneRunPerTick,
          Exists, TypeOK, RowType
<1>7. NoRunForgotten'
  BY <1>0 DEF LoadTerminal, Ack, NoDelivery, Terminal, HoldsLease, NoRunForgotten,
          Exists, TypeOK, RowType
<1>8. ExecutionShown'
  BY <1>0 DEF LoadTerminal, Ack, NoDelivery, Terminal, HoldsLease, ExecutionShown, Exists,
          TypeOK, RowType
<1>. QED
  BY <1>1, <1>2, <1>3, <1>4, <1>5, <1>6, <1>7, <1>8 DEF IInv

\* The row of a run with a job is dated.
LEMMA StartRunInv ==
    ASSUME IInv, NEW w \in Workers, StartRun(w)
    PROVE  IInv'
<1>0. /\ TypeOK /\ Copies /\ Ticks /\ Creation /\ Leases
      /\ OneRunPerTick /\ NoRunForgotten /\ ExecutionShown
  BY DEF IInv
<1>e. workers[w].pc # "idle" /\ workers[w].run \in RunIds /\ Exists(workers[w].run)
  BY <1>0 DEF StartRun, Leases
<1>f. \A q \in RunIds : /\ runs'[q].pipe = runs[q].pipe
                        /\ runs'[q].tick = runs[q].tick
                        /\ runs'[q].status = "none" <=> runs[q].status = "none"
                        /\ runs'[q].status = "deleted" <=> runs[q].status = "deleted"
  BY <1>0, <1>e DEF StartRun, TypeOK, Exists
<1>g. \A v \in Workers \ {w} : workers[v].pc # "idle" /\ workers[w].run \notin disputed =>
        workers[v].run # workers[w].run
  BY <1>0, <1>e DEF Leases
<1>1. TypeOK'
  <2>1. [runs[workers[w].run] EXCEPT !.status = "running", !.startedAt = now] \in RowType
    <3>1. runs[workers[w].run] \in RowType /\ now \in Nat
      BY <1>0, <1>e DEF TypeOK
    <3>. QED
      BY <3>1 DEF RowType
  <2>2. runs' = [runs EXCEPT ![workers[w].run] =
                   [runs[workers[w].run] EXCEPT !.status = "running", !.startedAt = now]]
    BY <1>0, <1>e DEF StartRun, TypeOK
  <2>3. runs' \in [RunIds -> RowType]
    BY <1>0, <2>1, <2>2 DEF TypeOK
  <2>4. workers' \in [Workers -> [pc : {"idle", "load", "start", "exec"}, run : RunIds \cup {0},
                                 lease : 0..MaxRetry, startedAt : Nat]]
    <3>1. /\ workers[w] \in [pc : {"idle", "load", "start", "exec"}, run : RunIds \cup {0},
                             lease : 0..MaxRetry, startedAt : Nat]
          /\ now \in Nat
      BY <1>0 DEF TypeOK
    <3>2. [workers[w] EXCEPT !.pc = "exec", !.startedAt = now]
            \in [pc : {"idle", "load", "start", "exec"}, run : RunIds \cup {0},
                 lease : 0..MaxRetry, startedAt : Nat]
      BY <3>1
    <3>3. workers' = [workers EXCEPT ![w] = [workers[w] EXCEPT !.pc = "exec", !.startedAt = now]]
      BY <1>0 DEF StartRun, TypeOK
    <3>. QED
      BY <1>0, <3>2, <3>3 DEF TypeOK
  <2>. QED
    BY <1>0, <2>3, <2>4 DEF StartRun, TypeOK
<1>2. Copies'
  BY <1>0 DEF StartRun, Terminal, Copies, SystemActorMayWrite, Exists, TypeOK, RowType
<1>3. Ticks'
  BY <1>0, <1>f DEF Ticks, Exists, StartRun
<1>4. Creation'
  BY <1>0 DEF StartRun, Terminal, Creation, Used, Exists, TypeOK, RowType
<1>5. Leases'
  BY <1>0 DEF StartRun, Terminal, Leases, HoldsLease, TypeOK, RowType
<1>6. OneRunPerTick'
  BY <1>0, <1>f DEF OneRunPerTick, Exists
<1>7. NoRunForgotten'
  BY <1>0, <1>e DEF StartRun, NoRunForgotten, Leases, HoldsLease, TypeOK
<1>8. ExecutionShown'
  <2> SUFFICES ASSUME NEW v \in Workers, workers'[v].pc = "exec", Exists(workers[v].run)',
                      workers'[v].run \notin (reaped \cup disputed)'
               PROVE  /\ runs'[workers'[v].run].status = "running"
                      /\ runs'[workers'[v].run].startedAt = workers'[v].startedAt
    BY DEF ExecutionShown
  <2>1. CASE v = w
    BY <1>0, <1>e, <2>1 DEF StartRun, TypeOK, RowType
  <2>2. CASE v # w
    <3>1. workers'[v] = workers[v] /\ workers[v].pc # "idle"
      BY <1>0, <2>2 DEF StartRun, TypeOK
    <3>2. workers[v].run # workers[w].run
      BY <1>0, <1>e, <2>2, <3>1 DEF StartRun, Leases
    <3>3. runs'[workers[v].run] = runs[workers[v].run]
      BY <1>0, <1>e, <3>1, <3>2 DEF StartRun, TypeOK, Leases
    <3>. QED
      BY <1>0, <3>1, <3>3 DEF StartRun, ExecutionShown, Exists
  <2>. QED
    BY <2>1, <2>2
<1>. QED
  BY <1>1, <1>2, <1>3, <1>4, <1>5, <1>6, <1>7, <1>8 DEF IInv

\* The run is finished and its job acknowledged.
LEMMA FinishRunInv ==
    ASSUME IInv, NEW w \in Workers, NEW o \in Terminal, FinishRun(w, o)
    PROVE  IInv'
<1>0. /\ TypeOK /\ Copies /\ Ticks /\ Creation /\ Leases
      /\ OneRunPerTick /\ NoRunForgotten /\ ExecutionShown
  BY DEF IInv
<1>e. workers[w].pc # "idle" /\ workers[w].run \in RunIds /\ Exists(workers[w].run)
  BY <1>0 DEF FinishRun, Leases
<1>f. \A q \in RunIds : /\ runs'[q].pipe = runs[q].pipe
                        /\ runs'[q].tick = runs[q].tick
                        /\ runs'[q].status = "none" <=> runs[q].status = "none"
                        /\ runs'[q].status = "deleted" <=> runs[q].status = "deleted"
  BY <1>0, <1>e DEF FinishRun, Terminal, TypeOK, Exists
<1>g. \A v \in Workers \ {w} : workers[v].pc # "idle" /\ workers[w].run \notin disputed =>
        workers[v].run # workers[w].run
  BY <1>0, <1>e DEF Leases
<1>1. TypeOK'
  <2>1. [runs[workers[w].run] EXCEPT !.status = o, !.startedAt = workers[w].startedAt] \in RowType
    <3>1. runs[workers[w].run] \in RowType /\ workers[w].startedAt \in Nat
      BY <1>0, <1>e DEF TypeOK
    <3>. QED
      BY <3>1 DEF RowType
  <2>2. runs' = [runs EXCEPT ![workers[w].run] =
                   [runs[workers[w].run] EXCEPT !.status = o, !.startedAt = workers[w].startedAt]]
    BY <1>0, <1>e DEF FinishRun, TypeOK
  <2>3. runs' \in [RunIds -> RowType]
    BY <1>0, <2>1, <2>2 DEF TypeOK
  <2>4. jobs' \in [RunIds -> [state : {"none", "pending", "leased", "acked", "archived"},
                             retried : 0..MaxRetry]]
    BY <1>0 DEF FinishRun, Ack, TypeOK
  <2>5. workers' \in [Workers -> [pc : {"idle", "load", "start", "exec"}, run : RunIds \cup {0},
                                 lease : 0..MaxRetry, startedAt : Nat]]
    BY <1>0, OrchestrationAssumption DEF FinishRun, NoDelivery, TypeOK
  <2>. QED
    BY <1>0, <2>3, <2>4, <2>5 DEF FinishRun, TypeOK
<1>2. Copies'
  BY <1>0 DEF FinishRun, Ack, NoDelivery, Terminal, HoldsLease, Copies, SystemActorMayWrite, Exists,
          TypeOK, RowType
<1>3. Ticks'
  BY <1>0, <1>f DEF Ticks, Exists, FinishRun
<1>4. Creation'
  BY <1>0 DEF FinishRun, Ack, NoDelivery, Terminal, HoldsLease, Creation, Used, Exists,
          TypeOK, RowType
<1>5. Leases'
  BY <1>0 DEF FinishRun, Ack, NoDelivery, Terminal, HoldsLease, Leases, TypeOK, RowType
<1>6. OneRunPerTick'
  BY <1>0, <1>f DEF OneRunPerTick, Exists
<1>7. NoRunForgotten'
  BY <1>0 DEF FinishRun, Ack, NoDelivery, Terminal, HoldsLease, NoRunForgotten,
          Exists, TypeOK, RowType
<1>8. ExecutionShown'
  <2> SUFFICES ASSUME NEW v \in Workers, workers'[v].pc = "exec", Exists(workers[v].run)',
                      workers'[v].run \notin (reaped \cup disputed)'
               PROVE  /\ runs'[workers'[v].run].status = "running"
                      /\ runs'[workers'[v].run].startedAt = workers'[v].startedAt
    BY DEF ExecutionShown
  <2>1. CASE v = w
    BY <1>0, <1>e, <2>1 DEF FinishRun, NoDelivery, TypeOK
  <2>2. CASE v # w
    <3>1. workers'[v] = workers[v] /\ workers[v].pc # "idle"
      BY <1>0, <2>2 DEF FinishRun, TypeOK
    <3>2. workers[v].run # workers[w].run
      BY <1>0, <1>e, <2>2, <3>1 DEF FinishRun, Leases
    <3>3. runs'[workers[v].run] = runs[workers[v].run]
      BY <1>0, <1>e, <3>1, <3>2 DEF FinishRun, TypeOK, Leases
    <3>. QED
      BY <1>0, <3>1, <3>3 DEF FinishRun, ExecutionShown, Exists
  <2>. QED
    BY <2>1, <2>2
<1>. QED
  BY <1>1, <1>2, <1>3, <1>4, <1>5, <1>6, <1>7, <1>8 DEF IInv

\* The job goes back to the queue, or the run is known to be dropped.
LEMMA DeliveryFailsInv ==
    ASSUME IInv, NEW w \in Workers, workers[w].pc # "idle", DeliveryFails(w)
    PROVE  IInv'
<1>0. /\ TypeOK /\ Copies /\ Ticks /\ Creation /\ Leases
      /\ OneRunPerTick /\ NoRunForgotten /\ ExecutionShown
  BY DEF IInv
<1>e. workers[w].pc # "idle" /\ workers[w].run \in RunIds
  BY <1>0 DEF DeliveryFails, Leases
<1>f. \A q \in RunIds : /\ jobs'[q].state # "none" <=> jobs[q].state # "none"
                        /\ q # workers[w].run => jobs'[q] = jobs[q]
  BY <1>0, <1>e DEF DeliveryFails, GiveBack, HoldsLease, Leases, TypeOK
<1>1. TypeOK'
  <2>1. jobs' \in [RunIds -> [state : {"none", "pending", "leased", "acked", "archived"},
                             retried : 0..MaxRetry]]
    BY <1>0, OrchestrationAssumption, SMTT(30) DEF DeliveryFails, GiveBack, TypeOK
  <2>2. workers' \in [Workers -> [pc : {"idle", "load", "start", "exec"}, run : RunIds \cup {0},
                                 lease : 0..MaxRetry, startedAt : Nat]]
    BY <1>0, OrchestrationAssumption DEF DeliveryFails, NoDelivery, TypeOK
  <2>3. dropped' \subseteq RunIds
    BY <1>0 DEF DeliveryFails, GiveBack, TypeOK, Leases
  <2>. QED
    BY <1>0, <2>1, <2>2, <2>3 DEF DeliveryFails, TypeOK
<1>2. Copies'
  BY <1>0 DEF DeliveryFails, GiveBack, NoDelivery, HoldsLease, Copies, SystemActorMayWrite, Exists, TypeOK,
          RowType
<1>3. Ticks'
  BY <1>0 DEF DeliveryFails, GiveBack, NoDelivery, HoldsLease, Ticks, Exists, TypeOK,
          RowType
<1>4. Creation'
  BY <1>0, ZenonT(60) DEF DeliveryFails, GiveBack, NoDelivery, HoldsLease, Creation, Used, Exists,
          TypeOK, RowType
<1>5. Leases'
  <2>1. \A v \in Workers : workers'[v].pc # "idle" => v # w /\ workers'[v] = workers[v]
    BY <1>0 DEF DeliveryFails, NoDelivery, TypeOK
  <2>2. \A v \in Workers : workers'[v].pc # "idle" /\ workers[v].run \notin disputed =>
          jobs'[workers[v].run] = jobs[workers[v].run]
    <3> SUFFICES ASSUME NEW v \in Workers, workers'[v].pc # "idle", workers[v].run \notin disputed
                 PROVE  jobs'[workers[v].run] = jobs[workers[v].run]
      OBVIOUS
    <3>1. workers[v].pc # "idle" /\ v # w
      BY <2>1
    <3>2. workers[v].run \in RunIds /\ workers[v].run # workers[w].run
      BY <1>0, <1>e, <3>1 DEF Leases
    <3>. QED
      BY <1>f, <3>2
  <2>3. disputed' = disputed
    BY DEF DeliveryFails
  <2>4. \A v \in Workers : workers'[v].pc # "idle" =>
          workers'[v].run \in RunIds /\ jobs'[workers'[v].run].state # "none"
    BY <1>0, <1>f, <2>1 DEF Leases
  <2>5. \A v \in Workers : workers'[v].pc # "idle" /\ workers'[v].run \notin disputed' =>
          HoldsLease(v)'
    BY <1>0, <2>1, <2>2, <2>3 DEF Leases, HoldsLease
  <2>6. \A u, v \in Workers :
          /\ workers'[u].pc # "idle" /\ workers'[v].pc # "idle"
          /\ workers'[u].run = workers'[v].run
          /\ workers'[u].run \notin disputed'
          => u = v
    BY <1>0, <2>1, <2>3 DEF Leases
  <2>. QED
    BY <2>4, <2>5, <2>6 DEF Leases
<1>6. OneRunPerTick'
  BY <1>0 DEF DeliveryFails, GiveBack, NoDelivery, HoldsLease, OneRunPerTick, Exists,
          TypeOK, RowType
<1>7. NoRunForgotten'
  BY <1>0 DEF DeliveryFails, GiveBack, NoDelivery, HoldsLease, NoRunForgotten, Exists,
          TypeOK, RowType
<1>8. ExecutionShown'
  BY <1>0 DEF DeliveryFails, GiveBack, NoDelivery, HoldsLease, ExecutionShown, Exists, TypeOK,
          RowType
<1>. QED
  BY <1>1, <1>2, <1>3, <1>4, <1>5, <1>6, <1>7, <1>8 DEF IInv

\* From now on the run is disputed.
LEMMA LeaseExpiresInv ==
    ASSUME IInv, NEW w \in Workers, LeaseExpires(w)
    PROVE  IInv'
<1>0. /\ TypeOK /\ Copies /\ Ticks /\ Creation /\ Leases
      /\ OneRunPerTick /\ NoRunForgotten /\ ExecutionShown
  BY DEF IInv
<1>e. workers[w].pc # "idle" /\ workers[w].run \in RunIds
  BY <1>0 DEF LeaseExpires, Leases
<1>f. \A q \in RunIds : /\ jobs'[q].state # "none" <=> jobs[q].state # "none"
                        /\ q # workers[w].run => jobs'[q] = jobs[q]
  BY <1>0, <1>e DEF LeaseExpires, GiveBack, HoldsLease, Leases, TypeOK
<1>1. TypeOK'
  <2>1. jobs' \in [RunIds -> [state : {"none", "pending", "leased", "acked", "archived"},
                             retried : 0..MaxRetry]]
    BY <1>0, OrchestrationAssumption DEF LeaseExpires, GiveBack, TypeOK
  <2>2. dropped' \subseteq RunIds /\ disputed' \subseteq RunIds
    BY <1>0 DEF LeaseExpires, GiveBack, TypeOK, Leases
  <2>. QED
    BY <1>0, <2>1, <2>2 DEF LeaseExpires, TypeOK
<1>2. Copies'
  BY <1>0 DEF LeaseExpires, GiveBack, HoldsLease, Copies, SystemActorMayWrite, Exists, TypeOK, RowType
<1>3. Ticks'
  BY <1>0 DEF LeaseExpires, GiveBack, HoldsLease, Ticks, Exists, TypeOK, RowType
<1>4. Creation'
  <2>1. runs' = runs /\ unsent' = unsent /\ sched' = sched
    BY DEF LeaseExpires
  <2>2. unsent \subseteq RunIds
    BY <1>0 DEF TypeOK
  <2>. QED
    BY <1>0, <1>f, <2>1, <2>2 DEF Creation, Used, Exists
<1>5. Leases'
  <2>1. workers' = workers /\ disputed' = disputed \cup {workers[w].run}
    BY DEF LeaseExpires
  <2>2. \A v \in Workers : workers[v].pc # "idle" /\ workers[v].run \notin disputed' =>
          jobs'[workers[v].run] = jobs[workers[v].run]
    BY <1>0, <1>f, <2>1 DEF Leases
  <2>3. \A v \in Workers : workers'[v].pc # "idle" =>
          workers'[v].run \in RunIds /\ jobs'[workers'[v].run].state # "none"
    BY <1>0, <1>f, <2>1 DEF Leases
  <2>4. \A v \in Workers : workers'[v].pc # "idle" /\ workers'[v].run \notin disputed' =>
          HoldsLease(v)'
    BY <1>0, <2>1, <2>2 DEF Leases, HoldsLease
  <2>5. \A u, v \in Workers :
          /\ workers'[u].pc # "idle" /\ workers'[v].pc # "idle"
          /\ workers'[u].run = workers'[v].run
          /\ workers'[u].run \notin disputed'
          => u = v
    BY <1>0, <2>1 DEF Leases
  <2>. QED
    BY <2>3, <2>4, <2>5 DEF Leases
<1>6. OneRunPerTick'
  BY <1>0 DEF LeaseExpires, GiveBack, HoldsLease, OneRunPerTick, Exists, TypeOK, RowType
<1>7. NoRunForgotten'
  BY <1>0 DEF LeaseExpires, GiveBack, HoldsLease, NoRunForgotten, Exists, TypeOK,
          RowType
<1>8. ExecutionShown'
  BY <1>0 DEF LeaseExpires, GiveBack, HoldsLease, ExecutionShown, Exists, TypeOK, RowType
<1>. QED
  BY <1>1, <1>2, <1>3, <1>4, <1>5, <1>6, <1>7, <1>8 DEF IInv

\* Only the clock moves.
LEMMA TickInv ==
    ASSUME IInv, Tick
    PROVE  IInv'
<1>0. /\ TypeOK /\ Copies /\ Ticks /\ Creation /\ Leases
      /\ OneRunPerTick /\ NoRunForgotten /\ ExecutionShown
  BY DEF IInv
<1>1. TypeOK'
  BY <1>0 DEF Tick, TypeOK, RowType
<1>2. Copies'
  BY <1>0 DEF Tick, Copies, SystemActorMayWrite, Exists, TypeOK, RowType
<1>3. Ticks'
  BY <1>0 DEF Tick, Ticks, Exists, TypeOK, RowType
<1>4. Creation'
  BY <1>0 DEF Tick, Creation, Used, Exists, TypeOK, RowType
<1>5. Leases'
  BY <1>0 DEF Tick, Leases, HoldsLease, TypeOK, RowType
<1>6. OneRunPerTick'
  BY <1>0 DEF Tick, OneRunPerTick, Exists, TypeOK, RowType
<1>7. NoRunForgotten'
  BY <1>0 DEF Tick, NoRunForgotten, Exists, TypeOK, RowType
<1>8. ExecutionShown'
  BY <1>0 DEF Tick, ExecutionShown, Exists, TypeOK, RowType
<1>. QED
  BY <1>1, <1>2, <1>3, <1>4, <1>5, <1>6, <1>7, <1>8 DEF IInv

-----------------------------------------------------------------------------

\* Nothing in IInv can change without a step.
LEMMA StutterInv == IInv /\ UNCHANGED vars => IInv'
<1> SUFFICES ASSUME IInv, UNCHANGED vars PROVE IInv'
  OBVIOUS
<1>1. TypeOK' /\ Copies' /\ Ticks' /\ OneRunPerTick'
  BY DEF IInv, vars, TypeOK, Copies, SystemActorMayWrite, Ticks, OneRunPerTick, Exists
<1>2. Creation' /\ Leases' /\ NoRunForgotten' /\ ExecutionShown'
  BY DEF IInv, vars, Creation, Used, Leases, HoldsLease, NoRunForgotten, ExecutionShown, Exists
<1>. QED
  BY <1>1, <1>2 DEF IInv

\* Every step preserves the invariant.
LEMMA StepInv == IInv /\ [Next]_vars => IInv'
<1> SUFFICES ASSUME IInv, Next PROVE IInv'
  BY StutterInv
<1>1. ASSUME NEW s \in Schedulers, SchedulerStep(s) PROVE IInv'
  BY <1>1, FireDueInv, FireRefusedInv, ScheduleEnqueueInv, ReapListInv, ReapOneInv, ReapDoneInv
     DEF SchedulerStep
<1>2. ASSUME NEW p \in Pipes, CreatePipeline(p) \/ DeletePipeline(p) \/ TriggerPipeline(p) PROVE IInv'
  BY <1>2, PipelineInv, TriggerPipelineInv
<1>3. ASSUME NEW r \in RunIds, TriggerEnqueue(r) \/ TriggerEnqueueFails(r) PROVE IInv'
  BY <1>3, TriggerEnqueueInv, TriggerEnqueueFailsInv
<1>4. ASSUME NEW w \in Workers, WorkerStep(w) PROVE IInv'
  <2>1. ASSUME LoadFails(w) \/ RunIsGone(w) PROVE workers[w].pc # "idle" /\ DeliveryFails(w)
    BY <2>1 DEF LoadFails, RunIsGone
  <2>. QED
    BY <1>4, <2>1, TakeInv, LoadRunInv, LoadTerminalInv, DeliveryFailsInv, StartRunInv, FinishRunInv DEF WorkerStep
<1>5. ASSUME NEW w \in Workers, WorkerCrash(w) \/ LeaseExpires(w) PROVE IInv'
  BY <1>5, DeliveryFailsInv, LeaseExpiresInv DEF WorkerCrash
<1>6. CASE Tick
  BY <1>6, TickInv
<1>. QED
  BY <1>1, <1>2, <1>3, <1>4, <1>5, <1>6 DEF Next

\* The inductive invariant holds throughout.
THEOREM Invariance == Spec => []IInv
BY InitInv, StepInv, PTL DEF Spec

\* The run table, the queue, the schedulers and the workers keep their types;
\* in particular no job is redelivered more often than the queue allows.
THEOREM TypeCorrect == Spec => []TypeOK
<1>1. IInv => TypeOK
  BY DEF IInv
<1>. QED
  BY <1>1, Invariance, PTL

\* fireDue starts at most one run per pipeline and tick, for any number of
\* pipelines, scans and concurrent writers of the run table.
THEOREM TickFiredOnce == Spec => []OneRunPerTick
<1>1. IInv => OneRunPerTick
  BY DEF IInv
<1>. QED
  BY <1>1, Invariance, PTL

\* Between trigger, scanner, queue and workers an unfinished run is never lost
\* without being known as dropped or disputed, whatever crashes.
THEOREM NothingForgotten == Spec => []NoRunForgotten
<1>1. IInv => NoRunForgotten
  BY DEF IInv
<1>. QED
  BY <1>1, Invariance, PTL

\* The row of a run under execution says "running" with the start of that
\* execution, unless the reaper or a second delivery interfered.
THEOREM ExecutionIsShown == Spec => []ExecutionShown
<1>1. IInv => ExecutionShown
  BY DEF IInv
<1>. QED
  BY <1>1, Invariance, PTL

-----------------------------------------------------------------------------
(* Where nothing is redelivered: one process, jobs as goroutines. *)

\* Only StartRun writes "running", and the worker that wrote it leaves
\* "exec" by FinishRun alone, which writes a final status over it.
LEMMA RunningStep ==
    ASSUME Backend = "memory", IInv, RunningMeansExecuting, [Next]_vars
    PROVE  RunningMeansExecuting'
<1>0. TypeOK /\ Leases
  BY DEF IInv
<1>1. CASE UNCHANGED vars
  BY <1>1 DEF RunningMeansExecuting, vars
<1>2. ASSUME NEW s \in Schedulers, SchedulerStep(s) PROVE RunningMeansExecuting'
  <2>1. workers' = workers
    BY <1>2 DEF SchedulerStep, FireDue, FireRefused, ScheduleEnqueue, ReapList, ReapOne, ReapDone
  <2>2. \A r \in RunIds : runs'[r] = runs[r] \/ runs'[r].status # "running"
    <3>1. ASSUME NEW p \in Pipes, FireDue(s, p) PROVE \A r \in RunIds : runs'[r] = runs[r] \/ runs'[r].status # "running"
      BY <1>0, <3>1 DEF FireDue, Row, TypeOK
    <3>2. ASSUME ReapOne(s) PROVE \A r \in RunIds : runs'[r] = runs[r] \/ runs'[r].status # "running"
      <4>1. \A c \in sched[s].list : c.row \in RowType
        BY <1>0 DEF TypeOK
      <4>. QED
        BY <1>0, <3>2, <4>1 DEF ReapOne, TypeOK, RowType
    <3>3. ASSUME UNCHANGED runs PROVE \A r \in RunIds : runs'[r] = runs[r] \/ runs'[r].status # "running"
      BY <3>3
    <3>. QED
      BY <1>2, <3>1, <3>2, <3>3 DEF SchedulerStep, FireRefused, ScheduleEnqueue, ReapList, ReapDone
  <2>. QED
    BY <2>1, <2>2 DEF RunningMeansExecuting
<1>8. ASSUME NEW p \in Pipes, CreatePipeline(p) \/ DeletePipeline(p) PROVE RunningMeansExecuting'
  BY <1>8 DEF CreatePipeline, DeletePipeline, RunningMeansExecuting
<1>3. ASSUME NEW p \in Pipes, TriggerPipeline(p) PROVE RunningMeansExecuting'
  BY <1>0, <1>3 DEF TriggerPipeline, Row, RunningMeansExecuting, TypeOK
<1>4. ASSUME NEW r \in RunIds, TriggerEnqueue(r) \/ TriggerEnqueueFails(r) PROVE RunningMeansExecuting'
  BY <1>4 DEF TriggerEnqueue, TriggerEnqueueFails, RunningMeansExecuting
<1>5. ASSUME NEW w \in Workers, WorkerStep(w) PROVE RunningMeansExecuting'
  <2>1. ASSUME NEW r \in RunIds, Take(w, r) PROVE RunningMeansExecuting'
    BY <1>0, <2>1 DEF Take, RunningMeansExecuting, TypeOK
  <2>2. CASE LoadRun(w)
    BY <1>0, <2>2 DEF LoadRun, RunningMeansExecuting, TypeOK
  <2>3. CASE LoadTerminal(w)
    BY <1>0, <2>3 DEF LoadTerminal, RunningMeansExecuting, TypeOK
  <2>4. CASE StartRun(w)
    BY <1>0, <2>4, SMTT(30) DEF StartRun, RunningMeansExecuting, TypeOK, RowType
  <2>5. ASSUME NEW o \in Terminal, FinishRun(w, o) PROVE RunningMeansExecuting'
    <3>1. workers[w].run \in RunIds
      BY <1>0, <2>5 DEF FinishRun, Leases
    <3>2. /\ runs'[workers[w].run].status = o
          /\ \A r \in RunIds \ {workers[w].run} : runs'[r] = runs[r]
          /\ \A v \in Workers \ {w} : workers'[v] = workers[v]
      BY <1>0, <2>5, <3>1 DEF FinishRun, TypeOK, RowType
    <3>. QED
      BY <3>2 DEF RunningMeansExecuting, Terminal
  <2>6. CASE LoadFails(w) \/ RunIsGone(w)
    <3>1. /\ runs' = runs
          /\ \A v \in Workers \ {w} : workers'[v] = workers[v]
          /\ workers[w].pc = "exec" => runs[workers[w].run].status = "deleted"
      BY <1>0, <2>6 DEF LoadFails, RunIsGone, DeliveryFails, TypeOK
    <3>. QED
      BY <3>1 DEF RunningMeansExecuting
  <2>. QED
    BY <1>5, <2>1, <2>2, <2>3, <2>4, <2>5, <2>6 DEF WorkerStep
<1>6. ASSUME NEW w \in Workers, WorkerCrash(w) \/ LeaseExpires(w) PROVE FALSE
  BY <1>6 DEF WorkerCrash, LeaseExpires
<1>7. CASE Tick
  BY <1>7 DEF Tick, RunningMeansExecuting
<1>. QED
  BY <1>1, <1>2, <1>3, <1>4, <1>5, <1>6, <1>7, <1>8 DEF Next

\* In a process that runs its own jobs a row says "running" only while a
\* worker executes its run: the reaper finds nothing that was left behind.
THEOREM RunningIsExecuting ==
    ASSUME Backend = "memory"
    PROVE  Spec => []RunningMeansExecuting
<1>1. Init => RunningMeansExecuting
  BY DEF Init, RunningMeansExecuting, Absent
<1>2. RunningMeansExecuting /\ IInv /\ [Next]_vars => RunningMeansExecuting'
  BY RunningStep
<1>. QED
  BY <1>1, <1>2, Invariance, PTL DEF Spec
=============================================================================
