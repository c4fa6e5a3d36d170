-------------------------- MODULE NotifyDispatcher --------------------------
(***************************************************************************)
(* The notification dispatcher (internal/core/notify/dispatcher.go): a     *)
(* subscriber of the event bus that finds the rules an event matches and   *)
(* hands one job per rule to a pool of workers over a bounded channel, or  *)
(* delivers it in the publisher's own goroutine when the channel is full.  *)
(* The bus calls OnEvent synchronously, so a publisher waits for it.       *)
(*                                                                         *)
(* Store "memory" is notify.MemoryStore, which the tests use; "postgres"   *)
(* is NotifyStore, which the server is wired with.                         *)
(***************************************************************************)
EXTENDS Integers, Sequences, FiniteSets

CONSTANTS
    Stores,     \* stores to consider
    Notices,    \* publications on the bus
    Event(_),   \* notice -> its event, [type, severity]
    Rules,      \* ids of rules
    RuleConfs,  \* what a rule may say, [enabled, types, min, channel]
    Workers,    \* goroutines of the pool
    QueueSize,  \* capacity of the channel
    None, Exited

ASSUME DispatcherAssumption ==
    /\ Stores \subseteq {"memory", "postgres"}
    /\ QueueSize \in Nat \ {0}
    /\ Notices \cap Workers = {}
    /\ {None, Exited} \cap (Rules \X Notices) = {}
    /\ None # Exited

Jobs == Rules \X Notices
Carriers == Notices \cup Workers  \* goroutines that may be in deliverOne

VARIABLES
    store,      \* the store the dispatcher was built with
    rules,      \* rule table: id -> configuration, or None
    onEvent,    \* notice -> "new", "looping", "done" or "panicked"
    todo,       \* notice -> matching rules its OnEvent has not handed off yet
    jobs,       \* the channel
    closed,     \* the channel is closed
    cancelled,  \* the context given to Start is cancelled
    hand,       \* carrier -> job it delivers, None, or Exited
    delivery,   \* job -> status of its row
    dropped,    \* history: jobs deliverOne gave up before it had a row
    due         \* history: jobs that OnEvent found to be due

vars == <<store, rules, onEvent, todo, jobs, closed, cancelled, hand, delivery, dropped, due>>

(***************************************************************************)
(* Which rules an event concerns                                           *)
(***************************************************************************)

\* Pipeline and task events are published without a severity; an unknown or
\* empty one counts as info.
SeverityRank(s) ==
    CASE s = "critical" -> 4
      [] s = "error"    -> 3
      [] s = "warning"  -> 2
      [] OTHER          -> 1

\* Rules and events are those of one tenant: the store lists no others.
RuleMatches(conf, e) ==
    /\ conf.enabled
    /\ conf.types # {} => e.type \in conf.types
    /\ conf.min # "" => SeverityRank(e.severity) >= SeverityRank(conf.min)

Listed == {r \in Rules : rules[r] # None}

Init ==
    /\ store \in Stores
    /\ rules = [r \in Rules |-> None]
    /\ onEvent = [n \in Notices |-> "new"]
    /\ todo = [n \in Notices |-> {}]
    /\ jobs = <<>>
    /\ closed = FALSE
    /\ cancelled = FALSE
    /\ hand = [c \in Carriers |-> None]
    /\ delivery = [j \in Jobs |-> "none"]
    /\ dropped = {}
    /\ due = {}

\* createNotifyRuleHandler: rules are added and never changed.  Over Postgres
\* a rule is stored only when the client chose its id; the insert of one with
\* a generated id fails unnoticed.
AddRule(r) ==
    /\ rules[r] = None
    /\ \E conf \in RuleConfs : rules' = [rules EXCEPT ![r] = conf]
    /\ UNCHANGED <<store, onEvent, todo, jobs, closed, cancelled, hand, delivery, dropped, due>>

(***************************************************************************)
(* OnEvent, in the goroutine of the publisher                              *)
(***************************************************************************)

OnEvent(n) ==
    /\ onEvent[n] = "new"
    /\ onEvent' = [onEvent EXCEPT ![n] = "looping"]
    /\ LET matching == {r \in Listed : RuleMatches(rules[r], Event(n))}
       IN  /\ todo' = [todo EXCEPT ![n] = matching]
           /\ due' = due \cup (matching \X {n})
    /\ UNCHANGED <<store, rules, jobs, closed, cancelled, hand, delivery, dropped>>

\* The rules cannot be read: the event is logged and nothing is delivered.
ListFails(n) ==
    /\ store = "postgres"
    /\ onEvent[n] = "new"
    /\ onEvent' = [onEvent EXCEPT ![n] = "done"]
    /\ UNCHANGED <<store, rules, todo, jobs, closed, cancelled, hand, delivery, dropped, due>>

\* The loop is at a rule: the one before has been handed off or delivered.
AtRule(n, r) == onEvent[n] = "looping" /\ hand[n] = None /\ r \in todo[n]

Enqueue(n, r) ==
    /\ AtRule(n, r)
    /\ ~closed
    /\ Len(jobs) < QueueSize
    /\ jobs' = Append(jobs, <<r, n>>)
    /\ todo' = [todo EXCEPT ![n] = @ \ {r}]
    /\ UNCHANGED <<store, rules, onEvent, closed, cancelled, hand, delivery, dropped, due>>

\* Mutant: a full channel loses the job, as the comment on QueueSize has it.
DropWhenFull(n, r) ==
    /\ AtRule(n, r)
    /\ ~closed
    /\ Len(jobs) = QueueSize
    /\ todo' = [todo EXCEPT ![n] = @ \ {r}]
    /\ UNCHANGED <<store, rules, onEvent, jobs, closed, cancelled, hand, delivery, dropped, due>>

\* The channel is full: the publisher delivers.
DeliverInline(n, r) ==
    /\ AtRule(n, r)
    /\ ~closed
    /\ Len(jobs) = QueueSize
    /\ hand' = [hand EXCEPT ![n] = <<r, n>>]
    /\ todo' = [todo EXCEPT ![n] = @ \ {r}]
    /\ UNCHANGED <<store, rules, onEvent, jobs, closed, cancelled, delivery, dropped, due>>

\* d.jobs stays set after the pool has stopped, and a send on a closed channel panics.
SendOnClosed(n, r) ==
    /\ AtRule(n, r)
    /\ closed
    /\ onEvent' = [onEvent EXCEPT ![n] = "panicked"]
    /\ todo' = [todo EXCEPT ![n] = {}]
    /\ UNCHANGED <<store, rules, jobs, closed, cancelled, hand, delivery, dropped, due>>

Return(n) ==
    /\ onEvent[n] = "looping"
    /\ todo[n] = {}
    /\ hand[n] = None
    /\ onEvent' = [onEvent EXCEPT ![n] = "done"]
    /\ UNCHANGED <<store, rules, todo, jobs, closed, cancelled, hand, delivery, dropped, due>>

(***************************************************************************)
(* The worker pool                                                         *)
(***************************************************************************)

\* A closed channel still yields what is buffered in it.
Take(w) ==
    /\ hand[w] = None
    /\ jobs # <<>>
    /\ hand' = [hand EXCEPT ![w] = Head(jobs)]
    /\ jobs' = Tail(jobs)
    /\ UNCHANGED <<store, rules, onEvent, todo, closed, cancelled, delivery, dropped, due>>

\* Mutant: a worker that finds no job leaves.
ExitWhenIdle(w) ==
    /\ hand[w] = None
    /\ cancelled \/ jobs = <<>>
    /\ hand' = [hand EXCEPT ![w] = Exited]
    /\ UNCHANGED <<store, rules, onEvent, todo, jobs, closed, cancelled, delivery, dropped, due>>

\* Once the context is cancelled a worker between two jobs may leave, with
\* jobs in the channel or not: select chooses among the ready cases.
Exit(w) ==
    /\ hand[w] = None
    /\ cancelled
    /\ hand' = [hand EXCEPT ![w] = Exited]
    /\ UNCHANGED <<store, rules, onEvent, todo, jobs, closed, cancelled, delivery, dropped, due>>

Cancel ==
    /\ ~cancelled
    /\ cancelled' = TRUE
    /\ UNCHANGED <<store, rules, onEvent, todo, jobs, closed, hand, delivery, dropped, due>>

Close ==
    /\ cancelled
    /\ ~closed
    /\ closed' = TRUE
    /\ UNCHANGED <<store, rules, onEvent, todo, jobs, cancelled, hand, delivery, dropped, due>>

(***************************************************************************)
(* deliverOne, in a worker or in a publisher                               *)
(***************************************************************************)

\* newID gives 24 hexadecimal digits; the id column of notify_deliveries is a
\* UUID, which takes 32, so NotifyStore refuses every row.
CreateRefused == store = "postgres"

Holds(c) == hand[c] \in Jobs

\* The channel is there and the row is created, queued and at once sending.
CreateDelivery(c) ==
    /\ Holds(c)
    /\ delivery[hand[c]] = "none"
    /\ rules[hand[c][1]].channel
    /\ ~CreateRefused
    /\ delivery' = [delivery EXCEPT ![hand[c]] = "sending"]
    /\ UNCHANGED <<store, rules, onEvent, todo, jobs, closed, cancelled, hand, dropped, due>>

\* The rule's channel is missing or of an unregistered kind, or the row is
\* refused: the job is logged and given up.
GiveUp(c) ==
    /\ Holds(c)
    /\ delivery[hand[c]] = "none"
    /\ ~rules[hand[c][1]].channel \/ CreateRefused
    /\ dropped' = dropped \cup {hand[c]}
    /\ hand' = [hand EXCEPT ![c] = None]
    /\ UNCHANGED <<store, rules, onEvent, todo, jobs, closed, cancelled, delivery, due>>

\* The channel answers, or its client times out; there is one attempt.
Deliver(c) ==
    /\ Holds(c)
    /\ delivery[hand[c]] = "sending"
    /\ \E s \in {"delivered", "failed"} : delivery' = [delivery EXCEPT ![hand[c]] = s]
    /\ hand' = [hand EXCEPT ![c] = None]
    /\ UNCHANGED <<store, rules, onEvent, todo, jobs, closed, cancelled, dropped, due>>

DeliverOne(c) == CreateDelivery(c) \/ GiveUp(c) \/ Deliver(c)

HandOff(n, r) == Enqueue(n, r) \/ DeliverInline(n, r) \/ SendOnClosed(n, r)

Next ==
    \/ \E r \in Rules : AddRule(r)
    \/ \E n \in Notices :
           \/ OnEvent(n) \/ ListFails(n) \/ Return(n)
           \/ \E r \in Rules : HandOff(n, r)
    \/ \E w \in Workers : Take(w) \/ Exit(w)
    \/ \E c \in Carriers : DeliverOne(c)
    \/ Cancel
    \/ Close

Spec == Init /\ [][Next]_vars

(***************************************************************************)
(* Fairness: goroutines are scheduled, and every channel's client has a    *)
(* timeout, so that a delivery ends.                                       *)
(***************************************************************************)
FairSpec ==
    /\ Spec
    /\ \A n \in Notices : WF_vars(Return(n) \/ \E r \in Rules : HandOff(n, r))
    /\ \A w \in Workers : WF_vars(Take(w) \/ Exit(w))
    /\ \A c \in Carriers : WF_vars(DeliverOne(c))

-----------------------------------------------------------------------------
(***************************************************************************)
(* Properties                                                              *)
(***************************************************************************)

TypeOK ==
    /\ store \in Stores
    /\ rules \in [Rules -> RuleConfs \cup {None}]
    /\ onEvent \in [Notices -> {"new", "looping", "done", "panicked"}]
    /\ todo \in [Notices -> SUBSET Rules]
    /\ jobs \in Seq(Jobs)
    /\ closed \in BOOLEAN
    /\ cancelled \in BOOLEAN
    /\ hand \in [Carriers -> Jobs \cup {None, Exited}]
    /\ delivery \in [Jobs -> {"none", "sending", "delivered", "failed"}]
    /\ dropped \subseteq Jobs
    /\ due \subseteq Jobs

\* The places a job can be in.
Waiting(j) == j[1] \in todo[j[2]]
QueuedAt(j) == {i \in DOMAIN jobs : jobs[i] = j}
CarriedBy(j) == {c \in Carriers : hand[c] = j}
Ended(j) == j \in dropped \/ delivery[j] \in {"delivered", "failed"}

\* A job that is due is in one place: with its publisher, in the channel, in the
\* hand of one goroutine, or over, each of which excludes the others; only a
\* publisher that runs into the closed channel loses any.  So a full channel
\* loses no event and no rule fires twice (OnEvent, dispatcher.go:107-111).
OnePlace ==
    \A j \in due : onEvent[j[2]] # "panicked" =>
        (IF Waiting(j) THEN 1 ELSE 0) + Cardinality(QueuedAt(j))
            + Cardinality(CarriedBy(j)) + (IF Ended(j) THEN 1 ELSE 0) = 1

\* As long as the dispatcher is not stopped, a job that is due comes to its end,
\* in the pool or inline (Start, OnEvent, deliverOne).
DueIsSettled == \A j \in Jobs : (j \in due) ~> (Ended(j) \/ cancelled)
=============================================================================
