---------------------------- MODULE PipelineApi ----------------------------
(***************************************************************************)
(* Pipelines, their runs and the logs of the runs over HTTP (internal/api/ *)
(* http: orchestration.go, run_logs.go), on either store (core/pipeline/   *)
(* memstore.go, storage/postgres: orchestration.go, task_run_logs.go).     *)
(* What a run does is PipelineRunner's: here a runner only writes its row, *)
(* its task runs and its lines.  Holds, and restoring what was deleted,    *)
(* are Governance's.  Logs are kept in Postgres only.                      *)
(***************************************************************************)
EXTENDS HttpRequests

CONSTANTS
    PipelineStores,  \* stores to consider
    PipelineBodies,  \* what clients send, [id, name, cyclic, cron, enabled]; id 0 is left out
    LogPage,         \* lines a poll of a stream asks for
    MaxLines         \* bound: lines of a run between its first and its last

VARIABLES
    pipelineStore,  \* the store the server was built with
    execs,          \* jobs and runs under execution, [run, tenant, lines, at]
    dropped,        \* history: pipelines deleted and not created since
    ended,          \* history: streams that said done, [run, first, sent, known]
    taken           \* history: pipelines of a tenant that a creation by another one replaced

pvars == <<pipelineStore, execs, dropped, ended, taken>>

InPostgres == pipelineStore = "postgres"
PipelineIds == {db.pipelines[i].id : i \in DOMAIN db.pipelines}
RunIds == {db.pipelineRuns[i].id : i \in DOMAIN db.pipelineRuns}

(***************************************************************************)
(* The stores                                                              *)
(***************************************************************************)
\* In memory a pipeline with the same id is replaced.
CreatePipelineMemory(d, p) == Ok([d EXCEPT !.pipelines = Append(Without(@, LAMBDA x : x.id = p.id), p)])
CreatePipelinePostgres(d, p) ==
    IF Rows(d.pipelines, LAMBDA x : x.id = p.id \/ (x.tenant = p.tenant /\ x.name = p.name)) # {} THEN Fails("exists", d)
    ELSE Ok([d EXCEPT !.pipelines = Append(@, p)])

Upserts(d, p) == CreatePipelineMemory(d, p)  \* mutant: an update of what is gone creates it
UpdatePipelineMemory(d, p) ==
    LET Same(x) == x.id = p.id
    IN  Affected(d, d.pipelines, Same, [d EXCEPT !.pipelines = Set(@, Same, LAMBDA x : p)])
UpdatePipelinePostgres(d, p) ==
    LET Same(x) == x.tenant = p.tenant /\ x.id = p.id
    IN  IF Rows(d.pipelines, Same) # {} /\ Rows(d.pipelines, LAMBDA x : x.tenant = p.tenant /\ x.name = p.name /\ x.id # p.id) # {}
        THEN Fails("exists", d)
        ELSE Affected(d, d.pipelines, Same, [d EXCEPT !.pipelines = Set(@, Same, LAMBDA x : p)])

\* In memory "runs are kept for audit"; in Postgres they go with the pipeline.
DeletePipelineMemory(d, t, id) ==
    LET Same(x) == x.id = id /\ x.tenant = t
    IN  Affected(d, d.pipelines, Same, [d EXCEPT !.pipelines = Without(@, Same)])
DeletePipelinePostgres(d, t, id) ==
    LET Same(x) == x.tenant = t /\ x.id = id
        gone == {x.id : x \in Rows(d.pipelineRuns, LAMBDA x : x.pipeline = id)}
    IN  Affected(d, d.pipelines, Same, [d EXCEPT !.pipelines = Without(@, Same),
                                                 !.pipelineRuns = Without(@, LAMBDA x : x.id \in gone),
                                                 !.taskRuns = Without(@, LAMBDA x : x.run \in gone)])

GetPipelineMemory(d, id) == Rows(d.pipelines, LAMBDA x : x.id = id)
GetPipelinePostgres(d, t, id) == Rows(d.pipelines, LAMBDA x : x.tenant = t /\ x.id = id)
ListPipelinesMemory(d, t) == Rows(d.pipelines, LAMBDA x : x.tenant = t)
ListPipelinesPostgres(d, t) == Rows(d.pipelines, LAMBDA x : x.tenant = t)

CreateRunMemory(d, run) == Ok([d EXCEPT !.pipelineRuns = Append(@, run)])
CreateRunPostgres(d, run) ==
    IF Rows(d.pipelines, LAMBDA x : x.id = run.pipeline) = {} THEN Fails("foreign_key", d)
    ELSE Ok([d EXCEPT !.pipelineRuns = Append(@, run)])
GetRunMemory(d, id) == Rows(d.pipelineRuns, LAMBDA x : x.id = id)
GetRunPostgres(d, t, id) == Rows(d.pipelineRuns, LAMBDA x : x.tenant = t /\ x.id = id)

\* The whole row, or its status and dates; a runner changes no more of it.
UpdateRunMemory(d, t, id, status) ==
    LET Same(x) == x.id = id
    IN  Affected(d, d.pipelineRuns, Same, [d EXCEPT !.pipelineRuns = Set(@, Same, LAMBDA x : [x EXCEPT !.status = status])])
UpdateRunPostgres(d, t, id, status) ==
    LET Same(x) == x.tenant = t /\ x.id = id
    IN  Affected(d, d.pipelineRuns, Same, [d EXCEPT !.pipelineRuns = Set(@, Same, LAMBDA x : [x EXCEPT !.status = status])])

\* Newest first.  No limit, or one above 500 in Postgres, is 50.
ListRunsMemory(d, t, pid, limit) ==
    Newest(d.pipelineRuns, LAMBDA x : x.tenant = t /\ pid \in {0, x.pipeline}, IF limit <= 0 THEN 50 ELSE limit)
ListRunsPostgres(d, t, pid, limit) ==
    Newest(d.pipelineRuns, LAMBDA x : x.tenant = t /\ pid \in {0, x.pipeline}, IF limit <= 0 \/ limit > 500 THEN 50 ELSE limit)

CreateTaskRunMemory(d, tr) == Ok([d EXCEPT !.taskRuns = Append(@, tr)])
CreateTaskRunPostgres(d, tr) ==
    IF Rows(d.pipelineRuns, LAMBDA x : x.id = tr.run) = {} THEN Fails("foreign_key", d)
    ELSE Ok([d EXCEPT !.taskRuns = Append(@, tr)])
UpdateTaskRunMemory(d, t, id, status) ==
    LET Same(x) == x.id = id
    IN  Affected(d, d.taskRuns, Same, [d EXCEPT !.taskRuns = Set(@, Same, LAMBDA x : [x EXCEPT !.status = status])])
UpdateTaskRunPostgres(d, t, id, status) ==
    LET Same(x) == x.tenant = t /\ x.id = id
    IN  Affected(d, d.taskRuns, Same, [d EXCEPT !.taskRuns = Set(@, Same, LAMBDA x : [x EXCEPT !.status = status])])
ListTaskRunsMemory(d, run) == Rows(d.taskRuns, LAMBDA x : x.run = run)
ListTaskRunsPostgres(d, t, run) == Rows(d.taskRuns, LAMBDA x : x.tenant = t /\ x.run = run)

\* LogStore: BIGSERIAL ids over all runs, and the oldest lines after sinceID.
AppendLine(d, t, run) == [d EXCEPT !.logs = Append(@, [id |-> 1 + Len(@), tenant |-> t, run |-> run])]
LinesAfter(d, run, sinceID) == SelectSeq(d.logs, LAMBDA x : x.run = run /\ x.id > sinceID)
ListLogs(d, run, sinceID, limit) ==
    LET all == LinesAfter(d, run, sinceID) IN SubSeq(all, 1, IF Len(all) < limit THEN Len(all) ELSE limit)

\* pipeline.Repo: the store in use.
InStore(inMemory, inPostgres) == IF InPostgres THEN inPostgres ELSE inMemory
GetPipeline(t, id) == InStore(GetPipelineMemory(db, id), GetPipelinePostgres(db, t, id))
GetRun(t, id) == InStore(GetRunMemory(db, id), GetRunPostgres(db, t, id))

(***************************************************************************)
(* Pipelines                                                               *)
(***************************************************************************)
\* "when a schedule is enabled, the cron expression must be present AND parse"
ValidateSchedule(b) == ~(b.enabled /\ b.cron = "") /\ b.cron # "unparsable"
Acceptable(b) == ~b.cyclic /\ ValidateSchedule(b)
PipelineRow(b, id, t) == [id |-> id, tenant |-> t, name |-> b.name, cyclic |-> b.cyclic, cron |-> b.cron, enabled |-> b.enabled]

CreatePipelineRequest(r, p) ==
    /\ Admitted(r, p, "edit", "pipeline")
    /\ \E b \in PipelineBodies :
           LET row == PipelineRow(b, IF b.id = 0 THEN 100 + started' ELSE b.id, p.tenant)
           IN  IF b.name = 0 \/ ~Acceptable(b) THEN UNCHANGED <<db, dropped, taken>> /\ Answer(r)
               ELSE LET answer == InStore(CreatePipelineMemory(db, row), CreatePipelinePostgres(db, row))
                        theirs == Rows(db.pipelines, LAMBDA x : x.id = row.id /\ x.tenant # p.tenant)
                    IN  /\ Finish(r, answer)
                        /\ dropped' = IF answer.err = "ok" THEN dropped \ {row.id} ELSE dropped
                        /\ taken' = IF answer.err = "ok" THEN taken \cup theirs ELSE taken
    /\ UNCHANGED <<pipelineStore, execs, ended>>

\* PATCH replaces the whole row.
UpdatePipelineRequest(r, p) ==
    /\ Admitted(r, p, "edit", "pipeline")
    /\ \E id \in PipelineIds, b \in PipelineBodies :
           IF /\ \E x \in GetPipeline(p.tenant, id) : x.tenant = p.tenant
              /\ Acceptable(b)
           THEN Goto(r, [at |-> "update", row |-> PipelineRow(b, id, p.tenant)]) ELSE Answer(r)
    /\ UNCHANGED <<db, pvars>>

UpdateRow(r) ==
    /\ Continue(r, "update")
    /\ Finish(r, InStore(UpdatePipelineMemory(db, req[r].row), UpdatePipelinePostgres(db, req[r].row)))
    /\ UNCHANGED pvars

\* "Capture the row into the recycle bin BEFORE deleting it".
DeletePipelineRequest(r, p) ==
    /\ Admitted(r, p, "delete", "pipeline")
    /\ \E id \in PipelineIds :
           IF \E x \in GetPipeline(p.tenant, id) : x.tenant = p.tenant
           THEN Goto(r, [at |-> "capture", id |-> id, tenant |-> p.tenant]) ELSE Answer(r)
    /\ UNCHANGED <<db, pvars>>

CapturePipeline(r) ==
    /\ Continue(r, "capture")
    /\ db' = [db EXCEPT !.tombs = @ \cup {req[r].id}]
    /\ Goto(r, [req[r] EXCEPT !.at = "remove"])
    /\ UNCHANGED pvars

RemovePipeline(r) ==
    /\ Continue(r, "remove")
    /\ LET w == req[r]
           answer == InStore(DeletePipelineMemory(db, w.tenant, w.id), DeletePipelinePostgres(db, w.tenant, w.id))
       IN  Finish(r, answer) /\ dropped' = IF answer.err = "ok" THEN dropped \cup {w.id} ELSE dropped
    /\ UNCHANGED <<pipelineStore, execs, ended, taken>>

ListPipelinesRequest(p) ==
    IF Gate(p, "read", "pipeline") THEN InStore(ListPipelinesMemory(db, p.tenant), ListPipelinesPostgres(db, p.tenant)) ELSE {}
GetPipelineRequest(p) ==
    {x \in UNION {GetPipeline(p.tenant, id) : id \in PipelineIds} : Gate(p, "read", "pipeline") /\ x.tenant = p.tenant}

(***************************************************************************)
(* Runs                                                                    *)
(***************************************************************************)
TriggerRequest(r, p) ==
    /\ Admitted(r, p, "run", "pipeline")
    /\ \E id \in PipelineIds :
           IF \E x \in GetPipeline(p.tenant, id) : x.tenant = p.tenant
           THEN Goto(r, [at |-> "create_run", run |-> [id |-> 100 + started', tenant |-> p.tenant, pipeline |-> id, status |-> "queued"]])
           ELSE Answer(r)
    /\ UNCHANGED <<db, pvars>>

\* The job is enqueued best effort.
CreateRun(r) ==
    /\ Continue(r, "create_run")
    /\ LET run == req[r].run
           answer == InStore(CreateRunMemory(db, run), CreateRunPostgres(db, run))
       IN  /\ Finish(r, answer)
           /\ \/ answer.err = "ok" /\ execs' = execs \cup {[run |-> run.id, tenant |-> run.tenant, lines |-> 0, at |-> "queued"]}
              \/ UNCHANGED execs
    /\ UNCHANGED <<pipelineStore, dropped, ended, taken>>

\* What a client may see of a run: nothing when it is another tenant's.
VisibleRun(t, id) == {x \in GetRun(t, id) : x.tenant = t}
GetRunRequest(p) == IF Gate(p, "read", "pipeline") THEN UNION {VisibleRun(p.tenant, id) : id \in RunIds} ELSE {}
ListPipelineRunsRequest(p, pid, limit) ==
    IF Gate(p, "read", "pipeline") THEN InStore(ListRunsMemory(db, p.tenant, pid, limit), ListRunsPostgres(db, p.tenant, pid, limit)) ELSE {}
ListTaskRunsRequest(p) ==
    IF Gate(p, "read", "pipeline")
    THEN UNION {InStore(ListTaskRunsMemory(db, x.id), ListTaskRunsPostgres(db, p.tenant, x.id)) : x \in GetRunRequest(p)} ELSE {}

(***************************************************************************)
(* A runner, as far as clients can see it: one task and its attempts.      *)
(* Lines are appended, and task runs written, whatever becomes of them.    *)
(***************************************************************************)
Proceeds(x, y) == execs' = (execs \ {x}) \cup {y}
Line(d, x) == IF InPostgres THEN AppendLine(d, x.tenant, x.run) ELSE d
SetRun(x, status) == InStore(UpdateRunMemory(db, x.tenant, x.run, status), UpdateRunPostgres(db, x.tenant, x.run, status))
SetTaskRun(x, status) == InStore(UpdateTaskRunMemory(db, x.tenant, x.run, status), UpdateTaskRunPostgres(db, x.tenant, x.run, status)).db

\* The run or its pipeline may be gone.
BeginRun(x) ==
    /\ x.at = "queued"
    /\ IF \E y \in GetRun(x.tenant, x.run) : GetPipeline(x.tenant, y.pipeline) # {}
       THEN db' = Line(SetRun(x, "running").db, x) /\ Proceeds(x, [x EXCEPT !.at = "running"])
       ELSE UNCHANGED db /\ execs' = execs \ {x}
    /\ UNCHANGED <<req, started, faults, pipelineStore, dropped, ended, taken>>

StartTaskRun(x) ==
    /\ x.at = "running"
    /\ LET tr == [id |-> x.run, run |-> x.run, tenant |-> x.tenant, status |-> "running"]
       IN  db' = InStore(CreateTaskRunMemory(db, tr), CreateTaskRunPostgres(db, tr)).db
    /\ Proceeds(x, [x EXCEPT !.at = "attempts"])
    /\ UNCHANGED <<req, started, faults, pipelineStore, dropped, ended, taken>>

Attempt(x) ==
    /\ x.at = "attempts" /\ x.lines < MaxLines
    /\ db' = Line(IF x.lines > 0 THEN SetTaskRun(x, "retrying") ELSE db, x)
    /\ Proceeds(x, [x EXCEPT !.lines = @ + 1])
    /\ UNCHANGED <<req, started, faults, pipelineStore, dropped, ended, taken>>

EndTaskRun(x) ==
    /\ x.at = "attempts" /\ x.lines > 0
    /\ \E status \in {"succeeded", "failed"} :
           db' = SetTaskRun(x, status) /\ Proceeds(x, [x EXCEPT !.at = status])
    /\ UNCHANGED <<req, started, faults, pipelineStore, dropped, ended, taken>>

\* The last line comes before the row.
LastLine(x) ==
    /\ x.at \in {"succeeded", "failed"} /\ x.lines <= MaxLines
    /\ db' = Line(db, x)
    /\ Proceeds(x, [x EXCEPT !.lines = MaxLines + 1])
    /\ UNCHANGED <<req, started, faults, pipelineStore, dropped, ended, taken>>

EndRun(x) ==
    /\ x.at \in {"succeeded", "failed"} /\ x.lines > MaxLines
    /\ db' = SetRun(x, x.at).db
    /\ execs' = execs \ {x}
    /\ UNCHANGED <<req, started, faults, pipelineStore, dropped, ended, taken>>

(***************************************************************************)
(* Logs: pages, and streams of server-sent events                          *)
(***************************************************************************)
RunVisibleToTenant(t, id) == VisibleRun(t, id) # {}
RunIsTerminal(t, id) == \A x \in GetRun(t, id) : x.status \in {"succeeded", "failed", "cancelled"}

ListRunLogsRequest(p, since, limit) ==
    IF InPostgres /\ Gate(p, "read", "pipeline")
    THEN {line \in Rows(db.logs, LAMBDA x : TRUE) : /\ RunVisibleToTenant(p.tenant, line.run)
                                                    /\ LET page == ListLogs(db, line.run, since, limit)
                                                       IN  \E i \in DOMAIN page : page[i] = line} ELSE {}

StreamRunLogsRequest(r, p) ==
    /\ Admitted(r, p, "read", "pipeline") /\ InPostgres
    /\ \E id \in RunIds, since \in 0..1 :
           IF RunVisibleToTenant(p.tenant, id)
           THEN Goto(r, [at |-> "poll", tenant |-> p.tenant, run |-> id, first |-> since, since |-> since, idle |-> 0, sent |-> <<>>, known |-> 0])
           ELSE Answer(r)
    /\ UNCHANGED <<db, pvars>>

\* One turn of the loop up to the question whether the run is over.
Poll(r) ==
    /\ Continue(r, "poll")
    /\ LET w == req[r]
           lines == ListLogs(db, w.run, w.since, LogPage)
           idle == IF lines = <<>> THEN IF w.idle < 2 THEN w.idle + 1 ELSE 2 ELSE 0
       IN  Goto(r, [w EXCEPT !.at = IF idle > 1 THEN "over" ELSE "wait",
                             !.since = IF lines = <<>> THEN @ ELSE lines[Len(lines)].id,
                             !.idle = idle,
                             !.sent = @ \o lines,
                             !.known = Len(LinesAfter(db, w.run, w.first))])
    /\ UNCHANGED <<db, pvars>>

\* "event: done", or on to the ticker.
SayDone(r) ==
    Answer(r) /\ ended' = ended \cup {[run |-> req[r].run, first |-> req[r].first, sent |-> req[r].sent, known |-> req[r].known]}

IsOver(r) ==
    /\ Continue(r, "over")
    /\ IF RunIsTerminal(req[r].tenant, req[r].run) THEN SayDone(r)
       ELSE Goto(r, [req[r] EXCEPT !.at = "wait"]) /\ UNCHANGED ended
    /\ UNCHANGED <<db, pipelineStore, execs, dropped, taken>>

\* A run that cannot be read is taken for one that is over.
LookFails(r) ==
    /\ At(r, "over")
    /\ faults < MaxFaults /\ faults' = faults + 1
    /\ SayDone(r)
    /\ UNCHANGED <<db, started, pipelineStore, execs, dropped, taken>>

TickerFires(r) ==
    /\ Continue(r, "wait")
    /\ Goto(r, [req[r] EXCEPT !.at = "poll"])
    /\ UNCHANGED <<db, pvars>>

\* The connection breaks and what was on its way is lost; the browser comes
\* back with the id of the last event it has.
Reconnect(r) ==
    /\ At(r, "wait") /\ faults < MaxFaults /\ faults' = faults + 1
    /\ \E k \in 0..Len(req[r].sent) :
           LET has == SubSeq(req[r].sent, 1, k)
           IN  Goto(r, IF RunVisibleToTenant(req[r].tenant, req[r].run)
                       THEN [req[r] EXCEPT !.at = "poll", !.idle = 0, !.sent = has,
                                           !.since = IF k = 0 THEN req[r].first ELSE has[k].id]
                       ELSE Idle)
    /\ UNCHANGED <<db, started, pvars>>

(***************************************************************************)
(* The specification                                                       *)
(***************************************************************************)
InitPipelines ==
    /\ pipelineStore \in PipelineStores
    /\ execs = {}
    /\ dropped = {}
    /\ ended = {}
    /\ taken = {}

PipelinesNext ==
    \/ \E r \in Requests :
           \/ \E p \in People :
                  \/ CreatePipelineRequest(r, p) \/ UpdatePipelineRequest(r, p) \/ DeletePipelineRequest(r, p)
                  \/ TriggerRequest(r, p) \/ StreamRunLogsRequest(r, p)
           \/ UpdateRow(r) \/ CapturePipeline(r) \/ RemovePipeline(r) \/ CreateRun(r)
           \/ Poll(r) \/ IsOver(r) \/ LookFails(r) \/ TickerFires(r) \/ Reconnect(r)
           \/ CallFails(r) /\ UNCHANGED pvars
    \/ \E x \in execs : BeginRun(x) \/ StartTaskRun(x) \/ Attempt(x) \/ EndTaskRun(x) \/ LastLine(x) \/ EndRun(x)

(***************************************************************************)
(* Properties                                                              *)
(***************************************************************************)
\* However creations, edits, triggers and deletions overlap, what is stored
\* can be scheduled and run, an edit does not bring back what was deleted,
\* and a run without a pipeline is one the memory store kept.
PipelinesStand ==
    /\ \A i \in DOMAIN db.pipelines : Acceptable(db.pipelines[i]) /\ db.pipelines[i].id \notin dropped
    /\ \A i \in DOMAIN db.pipelineRuns : db.pipelineRuns[i].pipeline \in PipelineIds \/ (~InPostgres /\ db.pipelineRuns[i].pipeline \in dropped)
    /\ \A i \in DOMAIN db.taskRuns : db.taskRuns[i].run \in RunIds

\* What a client of a stream has received, over all its connections, are the
\* first lines of the run after its starting point, each once and in order;
\* a stream that said done had delivered all there was at its last poll.  It
\* may lack lines written after that poll: the run is looked at after the
\* poll, and one that cannot be read is taken for one that is over.
StreamFaithful ==
    LET Prefix(w) == w.sent = SubSeq(LinesAfter(db, w.run, w.first), 1, Len(w.sent))
    IN  /\ \A r \in Requests : req[r].at \in {"poll", "over", "wait"} => Prefix(req[r])
        /\ \A w \in ended : Prefix(w) /\ Len(w.sent) = w.known
=============================================================================
