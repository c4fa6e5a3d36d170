----------------------- MODULE NotifyDispatcher_proofs -----------------------
(***************************************************************************)
(* No job of the dispatcher is lost or doubled, for any number of rules,   *)
(* publications and workers and any size of the channel.  The count of     *)
(* OnePlace is replaced by four predicates on jobs, and every action moves *)
(* one job from one of them to the next; that nothing moves twice needs    *)
(* that the channel and the hands hold no job twice (Distinct).            *)
(***************************************************************************)
EXTENDS NotifyDispatcher, FiniteSetTheorems, SequenceTheorems, TLAPS

Queued(j) == \E i \in DOMAIN jobs : jobs[i] = j
Carried(j) == \E c \in Carriers : hand[c] = j

\* The places exclude each other; a job is somewhere only if it is due, and
\* is somewhere if it is due, unless its publisher ran into the closed channel.
PlaceOf(j) ==
    /\ Waiting(j) => onEvent[j[2]] = "looping" /\ ~Queued(j) /\ ~Carried(j) /\ ~Ended(j)
    /\ Queued(j) => ~Carried(j) /\ ~Ended(j)
    /\ Carried(j) => ~Ended(j)
    /\ Waiting(j) \/ Queued(j) \/ Carried(j) \/ Ended(j) => j \in due
    /\ j \in due => onEvent[j[2]] # "new"
    /\ j \in due /\ onEvent[j[2]] # "panicked" => Waiting(j) \/ Queued(j) \/ Carried(j) \/ Ended(j)

Places == \A j \in Jobs : PlaceOf(j)

\* No job is twice in the channel or in two hands.
Distinct ==
    /\ \A i, k \in DOMAIN jobs : jobs[i] = jobs[k] => i = k
    /\ \A c, d \in Carriers : hand[c] = hand[d] /\ hand[c] \in Jobs => c = d

IInv == TypeOK /\ Places /\ Distinct

-----------------------------------------------------------------------------

\* A job is a rule and a notice.
LEMMA JobParts ==
    ASSUME NEW j \in Jobs
    PROVE  /\ j[1] \in Rules /\ j[2] \in Notices /\ j = <<j[1], j[2]>>
           /\ \A r, n : j = <<r, n>> <=> j[1] = r /\ j[2] = n
BY DEF Jobs

\* The marks for an idle and for an exited worker are not jobs.
LEMMA NoJob == None \notin Jobs /\ Exited \notin Jobs /\ None # Exited
BY DispatcherAssumption DEF Jobs

\* Before the first event no job is anywhere.
LEMMA InitInv == Init => IInv
<1> SUFFICES ASSUME Init PROVE IInv
  OBVIOUS
<1>1. TypeOK
  <2>1. jobs \in Seq(Jobs)
    BY EmptySeq DEF Init
  <2>. QED
    BY <2>1 DEF Init, TypeOK
<1>2. \A j \in Jobs : ~Waiting(j) /\ ~Queued(j) /\ ~Carried(j) /\ ~Ended(j) /\ j \notin due
  BY JobParts, NoJob DEF Init, Waiting, Queued, Carried, Ended
<1>3. Places
  BY <1>2 DEF Places, PlaceOf
<1>4. Distinct
  BY NoJob DEF Init, Distinct
<1>. QED
  BY <1>1, <1>3, <1>4 DEF IInv

-----------------------------------------------------------------------------
(* OnEvent *)

\* The rules of a notice become due at once, and none of them was before.
LEMMA OnEventInv == ASSUME IInv, NEW n \in Notices, OnEvent(n) PROVE IInv'
<1>0. TypeOK /\ Places /\ Distinct
  BY DEF IInv
<1>1. PICK matching \in SUBSET Rules :
          /\ todo' = [todo EXCEPT ![n] = matching]
          /\ due' = due \cup (matching \X {n})
  BY DEF OnEvent, Listed
<1>2. /\ onEvent[n] = "new" /\ onEvent' = [onEvent EXCEPT ![n] = "looping"]
      /\ UNCHANGED <<store, rules, jobs, closed, cancelled, hand, delivery, dropped>>
  BY DEF OnEvent
<1>3. TypeOK'
  BY <1>0, <1>1, <1>2 DEF TypeOK, Jobs
<1>4. ASSUME NEW j \in Jobs PROVE PlaceOf(j)'
  <2>1. j[1] \in Rules /\ j[2] \in Notices /\ j = <<j[1], j[2]>>
    BY JobParts
  <2>2. (Queued(j)' <=> Queued(j)) /\ (Carried(j)' <=> Carried(j)) /\ (Ended(j)' <=> Ended(j))
    BY <1>2 DEF Queued, Carried, Ended
  <2>3. CASE j[2] = n
    <3>1. j \notin due /\ ~Waiting(j) /\ ~Queued(j) /\ ~Carried(j) /\ ~Ended(j)
      BY <1>0, <1>2, <2>3 DEF Places, PlaceOf
    <3>2. (Waiting(j)' <=> j[1] \in matching) /\ (j \in due' <=> j[1] \in matching) /\ onEvent'[j[2]] = "looping"
      BY <1>0, <1>1, <1>2, <2>1, <2>3, <3>1 DEF Waiting, TypeOK
    <3>. QED
      BY <2>2, <3>1, <3>2 DEF PlaceOf
  <2>4. CASE j[2] # n
    <3>1. (Waiting(j)' <=> Waiting(j)) /\ (j \in due' <=> j \in due) /\ onEvent'[j[2]] = onEvent[j[2]]
      BY <1>0, <1>1, <1>2, <2>1, <2>4 DEF Waiting, TypeOK
    <3>. QED
      BY <1>0, <2>2, <3>1 DEF Places, PlaceOf
  <2>. QED
    BY <2>3, <2>4
<1>5. Distinct'
  BY <1>0, <1>2 DEF Distinct
<1>. QED
  BY <1>3, <1>4, <1>5 DEF IInv, Places

\* A publisher whose rules cannot be read has nothing due, and one that returns
\* has nothing left to hand off.
LEMMA OnEventEndsInv == ASSUME IInv, NEW n \in Notices, ListFails(n) \/ Return(n) PROVE IInv'
<1>0. TypeOK /\ Places /\ Distinct
  BY DEF IInv
<1>1. /\ onEvent[n] \in {"new", "looping"} /\ onEvent' = [onEvent EXCEPT ![n] = "done"]
      /\ onEvent[n] = "looping" => todo[n] = {}
      /\ UNCHANGED <<store, rules, todo, jobs, closed, cancelled, hand, delivery, dropped, due>>
  BY DEF ListFails, Return
<1>2. TypeOK'
  BY <1>0, <1>1 DEF TypeOK
<1>3. ASSUME NEW j \in Jobs PROVE PlaceOf(j)'
  <2>1. j[1] \in Rules /\ j[2] \in Notices
    BY JobParts
  <2>2. /\ Waiting(j)' <=> Waiting(j)
        /\ Queued(j)' <=> Queued(j)
        /\ Carried(j)' <=> Carried(j)
        /\ Ended(j)' <=> Ended(j)
    BY <1>1 DEF Waiting, Queued, Carried, Ended
  <2>3. CASE j[2] = n
    <3>1. onEvent'[j[2]] = "done" /\ ~Waiting(j)
      BY <1>0, <1>1, <2>1, <2>3 DEF TypeOK, Waiting, Places, PlaceOf
    <3>. QED
      BY <1>0, <1>1, <2>2, <2>3, <3>1 DEF Places, PlaceOf
  <2>4. CASE j[2] # n
    <3>1. onEvent'[j[2]] = onEvent[j[2]]
      BY <1>0, <1>1, <2>1, <2>4 DEF TypeOK
    <3>. QED
      BY <1>0, <1>1, <2>2, <3>1 DEF Places, PlaceOf
  <2>. QED
    BY <2>3, <2>4
<1>4. Distinct'
  BY <1>0, <1>1 DEF Distinct
<1>. QED
  BY <1>2, <1>3, <1>4 DEF IInv, Places

\* From the publisher into the channel.
LEMMA EnqueueInv == ASSUME IInv, NEW n \in Notices, NEW r \in Rules, Enqueue(n, r) PROVE IInv'
<1>0. TypeOK /\ Places /\ Distinct
  BY DEF IInv
<1> DEFINE job == <<r, n>>
<1>1. /\ onEvent[n] = "looping" /\ r \in todo[n] /\ job \in Jobs
      /\ jobs' = Append(jobs, job) /\ todo' = [todo EXCEPT ![n] = @ \ {r}]
      /\ UNCHANGED <<store, rules, onEvent, closed, cancelled, hand, delivery, dropped, due>>
  BY DEF Enqueue, AtRule, Jobs
<1>2. /\ jobs' \in Seq(Jobs) /\ Len(jobs) \in Nat
      /\ DOMAIN jobs = 1..Len(jobs) /\ DOMAIN jobs' = 1..(Len(jobs) + 1)
      /\ \A i \in DOMAIN jobs : jobs'[i] = jobs[i]
      /\ jobs'[Len(jobs) + 1] = job
  BY <1>0, <1>1 DEF TypeOK
<1>3. TypeOK'
  BY <1>0, <1>1, <1>2 DEF TypeOK
<1>4. Waiting(job) /\ ~Queued(job)
  BY <1>0, <1>1 DEF Waiting, Places, PlaceOf
<1>5. \A j \in Jobs : Queued(j)' <=> Queued(j) \/ j = job
  <2> SUFFICES ASSUME NEW j \in Jobs PROVE Queued(j)' <=> Queued(j) \/ j = job
    OBVIOUS
  <2>1. Queued(j) => Queued(j)'
    BY <1>2 DEF Queued
  <2>2. j = job => Queued(j)'
    BY <1>2 DEF Queued
  <2>3. \A i \in 1..(Len(jobs) + 1) : i \in 1..Len(jobs) \/ i = Len(jobs) + 1
    BY <1>2
  <2>4. Queued(j)' => Queued(j) \/ j = job
    BY <1>2, <2>3 DEF Queued
  <2>. QED
    BY <2>1, <2>2, <2>4
<1>6. \A j \in Jobs : Waiting(j)' <=> Waiting(j) /\ j # job
  <2> SUFFICES ASSUME NEW j \in Jobs PROVE Waiting(j)' <=> Waiting(j) /\ j # job
    OBVIOUS
  <2>1. j[1] \in Rules /\ j[2] \in Notices /\ (j = job <=> j[1] = r /\ j[2] = n)
    BY JobParts
  <2>. QED
    BY <1>0, <1>1, <2>1 DEF Waiting, TypeOK
<1>7. \A j \in Jobs : (Carried(j)' <=> Carried(j)) /\ (Ended(j)' <=> Ended(j))
  BY <1>1 DEF Carried, Ended
<1>8. Places'
  BY <1>0, <1>1, <1>4, <1>5, <1>6, <1>7 DEF Places, PlaceOf
<1>9. Distinct'
  <2>1. \A i, k \in DOMAIN jobs' : jobs'[i] = jobs'[k] => i = k
    BY <1>0, <1>2, <1>4 DEF Distinct, Queued
  <2>. QED
    BY <1>0, <1>1, <2>1 DEF Distinct
<1>. QED
  BY <1>3, <1>8, <1>9 DEF IInv

\* From the publisher's list into its hand.
LEMMA DeliverInlineInv == ASSUME IInv, NEW n \in Notices, NEW r \in Rules, DeliverInline(n, r) PROVE IInv'
<1>0. TypeOK /\ Places /\ Distinct
  BY DEF IInv
<1> DEFINE job == <<r, n>>
<1>1. /\ onEvent[n] = "looping" /\ r \in todo[n] /\ job \in Jobs /\ hand[n] = None /\ n \in Carriers
      /\ hand' = [hand EXCEPT ![n] = job] /\ todo' = [todo EXCEPT ![n] = @ \ {r}]
      /\ UNCHANGED <<store, rules, onEvent, jobs, closed, cancelled, delivery, dropped, due>>
  BY DEF DeliverInline, AtRule, Jobs, Carriers
<1>2. hand'[n] = job /\ \A c \in Carriers \ {n} : hand'[c] = hand[c]
  BY <1>0, <1>1 DEF TypeOK
<1>3. TypeOK'
  BY <1>0, <1>1 DEF TypeOK
<1>4. Waiting(job) /\ ~Carried(job)
  BY <1>0, <1>1 DEF Waiting, Places, PlaceOf
<1>5. \A j \in Jobs : Carried(j)' <=> Carried(j) \/ j = job
  BY <1>1, <1>2, NoJob DEF Carried
<1>6. \A j \in Jobs : Waiting(j)' <=> Waiting(j) /\ j # job
  <2> SUFFICES ASSUME NEW j \in Jobs PROVE Waiting(j)' <=> Waiting(j) /\ j # job
    OBVIOUS
  <2>1. j[1] \in Rules /\ j[2] \in Notices /\ (j = job <=> j[1] = r /\ j[2] = n)
    BY JobParts
  <2>. QED
    BY <1>0, <1>1, <2>1 DEF Waiting, TypeOK
<1>7. \A j \in Jobs : (Queued(j)' <=> Queued(j)) /\ (Ended(j)' <=> Ended(j))
  BY <1>1 DEF Queued, Ended
<1>8. Places'
  BY <1>0, <1>1, <1>4, <1>5, <1>6, <1>7 DEF Places, PlaceOf
<1>9. Distinct'
  <2>1. \A c \in Carriers : hand[c] # job
    BY <1>4 DEF Carried
  <2>2. \A c, d \in Carriers : hand'[c] = hand'[d] /\ hand'[c] \in Jobs => c = d
    BY <1>0, <1>2, <2>1 DEF Distinct
  <2>. QED
    BY <1>0, <1>1, <2>2 DEF Distinct
<1>. QED
  BY <1>3, <1>8, <1>9 DEF IInv

\* The publisher panics: what it had not handed off is lost.
LEMMA SendOnClosedInv == ASSUME IInv, NEW n \in Notices, NEW r \in Rules, SendOnClosed(n, r) PROVE IInv'
<1>0. TypeOK /\ Places /\ Distinct
  BY DEF IInv
<1>1. /\ onEvent[n] = "looping" /\ onEvent' = [onEvent EXCEPT ![n] = "panicked"]
      /\ todo' = [todo EXCEPT ![n] = {}]
      /\ UNCHANGED <<store, rules, jobs, closed, cancelled, hand, delivery, dropped, due>>
  BY DEF SendOnClosed, AtRule
<1>2. TypeOK'
  BY <1>0, <1>1 DEF TypeOK
<1>3. ASSUME NEW j \in Jobs PROVE PlaceOf(j)'
  <2>1. j[1] \in Rules /\ j[2] \in Notices
    BY JobParts
  <2>2. (Queued(j)' <=> Queued(j)) /\ (Carried(j)' <=> Carried(j)) /\ (Ended(j)' <=> Ended(j))
    BY <1>1 DEF Queued, Carried, Ended
  <2>3. CASE j[2] = n
    <3>1. onEvent'[j[2]] = "panicked" /\ ~Waiting(j)'
      BY <1>0, <1>1, <2>1, <2>3 DEF TypeOK, Waiting
    <3>. QED
      BY <1>0, <1>1, <2>2, <2>3, <3>1 DEF Places, PlaceOf
  <2>4. CASE j[2] # n
    <3>1. onEvent'[j[2]] = onEvent[j[2]] /\ (Waiting(j)' <=> Waiting(j))
      BY <1>0, <1>1, <2>1, <2>4 DEF TypeOK, Waiting
    <3>. QED
      BY <1>0, <1>1, <2>2, <3>1 DEF Places, PlaceOf
  <2>. QED
    BY <2>3, <2>4
<1>4. Distinct'
  BY <1>0, <1>1 DEF Distinct
<1>. QED
  BY <1>2, <1>3, <1>4 DEF IInv, Places

-----------------------------------------------------------------------------
(* The pool *)

\* From the channel into a worker's hand.
LEMMA TakeInv == ASSUME IInv, NEW w \in Workers, Take(w) PROVE IInv'
<1>0. TypeOK /\ Places /\ Distinct
  BY DEF IInv
<1> DEFINE job == Head(jobs)
<1>1. /\ hand[w] = None /\ w \in Carriers /\ jobs # <<>> /\ jobs \in Seq(Jobs)
      /\ hand' = [hand EXCEPT ![w] = job] /\ jobs' = Tail(jobs)
      /\ UNCHANGED <<store, rules, onEvent, todo, closed, cancelled, delivery, dropped, due>>
  BY <1>0 DEF Take, Carriers, TypeOK
<1>2. /\ job \in Jobs /\ jobs' \in Seq(Jobs) /\ Len(jobs) \in Nat /\ Len(jobs) > 0
      /\ DOMAIN jobs = 1..Len(jobs) /\ DOMAIN jobs' = 1..(Len(jobs) - 1)
      /\ \A i \in 1..(Len(jobs) - 1) : jobs'[i] = jobs[i + 1]
      /\ jobs[1] = job
  BY <1>1, HeadTailProperties, LenProperties, EmptySeq
<1>3. hand'[w] = job /\ \A c \in Carriers \ {w} : hand'[c] = hand[c]
  BY <1>0, <1>1 DEF TypeOK
<1>4. TypeOK'
  BY <1>0, <1>1, <1>2 DEF TypeOK
<1>5. Queued(job) /\ ~Carried(job)
  BY <1>0, <1>2 DEF Queued, Places, PlaceOf
<1>6. \A j \in Jobs : Queued(j)' <=> Queued(j) /\ j # job
  <2> SUFFICES ASSUME NEW j \in Jobs PROVE Queued(j)' <=> Queued(j) /\ j # job
    OBVIOUS
  <2>1. ASSUME Queued(j)' PROVE Queued(j) /\ j # job
    <3>1. PICK i \in 1..(Len(jobs) - 1) : jobs[i + 1] = j
      BY <1>2, <2>1 DEF Queued
    <3>2. i + 1 \in DOMAIN jobs /\ 1 \in DOMAIN jobs /\ i + 1 # 1
      BY <1>2, <3>1
    <3>. QED
      BY <1>0, <1>2, <3>1, <3>2 DEF Queued, Distinct
  <2>2. ASSUME Queued(j), j # job PROVE Queued(j)'
    <3>1. PICK k \in 1..Len(jobs) : jobs[k] = j
      BY <1>2, <2>2 DEF Queued
    <3>2. k # 1 /\ k - 1 \in 1..(Len(jobs) - 1) /\ (k - 1) + 1 = k
      BY <1>2, <2>2, <3>1
    <3>. QED
      BY <1>2, <3>1, <3>2 DEF Queued
  <2>. QED
    BY <2>1, <2>2
<1>7. \A j \in Jobs : Carried(j)' <=> Carried(j) \/ j = job
  BY <1>1, <1>3, NoJob DEF Carried
<1>8. \A j \in Jobs : (Waiting(j)' <=> Waiting(j)) /\ (Ended(j)' <=> Ended(j))
  BY <1>1 DEF Waiting, Ended
<1>9. Places'
  BY <1>0, <1>1, <1>2, <1>5, <1>6, <1>7, <1>8 DEF Places, PlaceOf
<1>10. Distinct'
  <2>1. \A i, k \in 1..(Len(jobs) - 1) : jobs[i + 1] = jobs[k + 1] => i = k
    <3> SUFFICES ASSUME NEW i \in 1..(Len(jobs) - 1), NEW k \in 1..(Len(jobs) - 1), jobs[i + 1] = jobs[k + 1]
                 PROVE  i = k
      OBVIOUS
    <3>1. i + 1 \in DOMAIN jobs /\ k + 1 \in DOMAIN jobs
      BY <1>2
    <3>2. i + 1 = k + 1
      BY <1>0, <3>1 DEF Distinct
    <3>. QED
      BY <1>2, <3>2
  <2>2. \A c \in Carriers : hand[c] # job
    BY <1>5 DEF Carried
  <2>3. \A c, d \in Carriers : hand'[c] = hand'[d] /\ hand'[c] \in Jobs => c = d
    BY <1>0, <1>3, <2>2 DEF Distinct
  <2>. QED
    BY <1>2, <2>1, <2>3 DEF Distinct
<1>. QED
  BY <1>4, <1>9, <1>10 DEF IInv

\* A worker leaves empty-handed.
LEMMA ExitInv == ASSUME IInv, NEW w \in Workers, Exit(w) PROVE IInv'
<1>0. TypeOK /\ Places /\ Distinct
  BY DEF IInv
<1>1. /\ hand[w] = None /\ w \in Carriers /\ hand' = [hand EXCEPT ![w] = Exited]
      /\ UNCHANGED <<store, rules, onEvent, todo, jobs, closed, cancelled, delivery, dropped, due>>
  BY DEF Exit, Carriers
<1>2. hand'[w] = Exited /\ \A c \in Carriers \ {w} : hand'[c] = hand[c]
  BY <1>0, <1>1 DEF TypeOK
<1>3. TypeOK'
  BY <1>0, <1>1 DEF TypeOK
<1>4. \A j \in Jobs : Carried(j)' <=> Carried(j)
  BY <1>1, <1>2, NoJob DEF Carried
<1>5. \A j \in Jobs : (Waiting(j)' <=> Waiting(j)) /\ (Queued(j)' <=> Queued(j)) /\ (Ended(j)' <=> Ended(j))
  BY <1>1 DEF Waiting, Queued, Ended
<1>6. Places'
  BY <1>0, <1>1, <1>4, <1>5 DEF Places, PlaceOf
<1>7. Distinct'
  BY <1>0, <1>1, <1>2, NoJob DEF Distinct
<1>. QED
  BY <1>3, <1>6, <1>7 DEF IInv

-----------------------------------------------------------------------------
(* deliverOne *)

\* The row of a job in hand is created: the job stays where it is.
LEMMA CreateDeliveryInv == ASSUME IInv, NEW c \in Carriers, CreateDelivery(c) PROVE IInv'
<1>0. TypeOK /\ Places /\ Distinct
  BY DEF IInv
<1>1. /\ hand[c] \in Jobs /\ delivery[hand[c]] = "none"
      /\ delivery' = [delivery EXCEPT ![hand[c]] = "sending"]
      /\ UNCHANGED <<store, rules, onEvent, todo, jobs, closed, cancelled, hand, dropped, due>>
  BY DEF CreateDelivery, Holds
<1>2. TypeOK'
  BY <1>0, <1>1 DEF TypeOK
<1>3. \A j \in Jobs : Ended(j)' <=> Ended(j)
  BY <1>0, <1>1 DEF Ended, TypeOK
<1>4. \A j \in Jobs : (Waiting(j)' <=> Waiting(j)) /\ (Queued(j)' <=> Queued(j)) /\ (Carried(j)' <=> Carried(j))
  BY <1>1 DEF Waiting, Queued, Carried
<1>5. Places' /\ Distinct'
  BY <1>0, <1>1, <1>3, <1>4 DEF Places, PlaceOf, Distinct
<1>. QED
  BY <1>2, <1>5 DEF IInv

\* From a hand to the end, given up or delivered or failed.
LEMMA EndsInv == ASSUME IInv, NEW c \in Carriers, GiveUp(c) \/ Deliver(c) PROVE IInv'
<1>0. TypeOK /\ Places /\ Distinct
  BY DEF IInv
<1> DEFINE job == hand[c]
<1>1. /\ job \in Jobs /\ hand' = [hand EXCEPT ![c] = None]
      /\ UNCHANGED <<store, rules, onEvent, todo, jobs, closed, cancelled, due>>
      /\ \/ dropped' = dropped \cup {job} /\ delivery' = delivery
         \/ /\ dropped' = dropped
            /\ \E s \in {"delivered", "failed"} : delivery' = [delivery EXCEPT ![job] = s]
  BY DEF GiveUp, Deliver, Holds
<1>2. hand'[c] = None /\ \A d \in Carriers \ {c} : hand'[d] = hand[d]
  BY <1>0, <1>1 DEF TypeOK
<1>3. TypeOK'
  <2>1. delivery' \in [Jobs -> {"none", "sending", "delivered", "failed"}] /\ dropped' \subseteq Jobs
    BY <1>0, <1>1 DEF TypeOK
  <2>. QED
    BY <1>0, <1>1, <2>1 DEF TypeOK
<1>4. Carried(job) /\ ~Ended(job)
  BY <1>0, <1>1 DEF Carried, Places, PlaceOf
<1>5. \A j \in Jobs : Carried(j)' <=> Carried(j) /\ j # job
  BY <1>0, <1>1, <1>2, NoJob DEF Carried, Distinct
<1>6. \A j \in Jobs : Ended(j)' <=> Ended(j) \/ j = job
  BY <1>0, <1>1 DEF Ended, TypeOK
<1>7. \A j \in Jobs : (Waiting(j)' <=> Waiting(j)) /\ (Queued(j)' <=> Queued(j))
  BY <1>1 DEF Waiting, Queued
<1>8. Places'
  BY <1>0, <1>1, <1>4, <1>5, <1>6, <1>7 DEF Places, PlaceOf
<1>9. Distinct'
  BY <1>0, <1>1, <1>2, NoJob DEF Distinct
<1>. QED
  BY <1>3, <1>8, <1>9 DEF IInv

-----------------------------------------------------------------------------
(* The theorems *)

\* Rules are added, the context is cancelled, the channel is closed: no job moves.
LEMMA OthersInv ==
    ASSUME IInv, (\E r \in Rules : AddRule(r)) \/ Cancel \/ Close \/ UNCHANGED vars
    PROVE  IInv'
<1>0. TypeOK /\ Places /\ Distinct
  BY DEF IInv
<1>1. UNCHANGED <<store, onEvent, todo, jobs, hand, delivery, dropped, due>>
  BY DEF AddRule, Cancel, Close, vars
<1>2. rules' \in [Rules -> RuleConfs \cup {None}] /\ closed' \in BOOLEAN /\ cancelled' \in BOOLEAN
  BY <1>0 DEF AddRule, Cancel, Close, vars, TypeOK
<1>3. TypeOK'
  BY <1>0, <1>1, <1>2 DEF TypeOK
<1>4. \A j \in Jobs :
          /\ Waiting(j)' <=> Waiting(j)
          /\ Queued(j)' <=> Queued(j)
          /\ Carried(j)' <=> Carried(j)
          /\ Ended(j)' <=> Ended(j)
  BY <1>1 DEF Waiting, Queued, Carried, Ended
<1>5. Places' /\ Distinct'
  BY <1>0, <1>1, <1>4 DEF Places, PlaceOf, Distinct
<1>. QED
  BY <1>3, <1>5 DEF IInv

\* Every step of a publisher, a worker or the shutdown keeps the invariant.
LEMMA StepInv == IInv /\ [Next]_vars => IInv'
<1> SUFFICES ASSUME IInv, [Next]_vars PROVE IInv'
  OBVIOUS
<1>1. ASSUME NEW n \in Notices, OnEvent(n) \/ ListFails(n) \/ Return(n) PROVE IInv'
  BY <1>1, OnEventInv, OnEventEndsInv
<1>2. ASSUME NEW n \in Notices, NEW r \in Rules, HandOff(n, r) PROVE IInv'
  BY <1>2, EnqueueInv, DeliverInlineInv, SendOnClosedInv DEF HandOff
<1>3. ASSUME NEW w \in Workers, Take(w) \/ Exit(w) PROVE IInv'
  BY <1>3, TakeInv, ExitInv
<1>4. ASSUME NEW c \in Carriers, DeliverOne(c) PROVE IInv'
  BY <1>4, CreateDeliveryInv, EndsInv DEF DeliverOne
<1>. QED
  BY <1>1, <1>2, <1>3, <1>4, OthersInv DEF Next

\* The inductive invariant holds throughout the dispatcher's life.
THEOREM Invariance == Spec => []IInv
BY InitInv, StepInv, PTL DEF Spec

\* Every variable of the dispatcher keeps its type, for any number of rules,
\* publications and workers and any size of the channel.
THEOREM TypeCorrect == Spec => []TypeOK
<1>1. IInv => TypeOK
  BY DEF IInv
<1>. QED
  BY <1>1, Invariance, PTL

\* A set of at most one element has as many as there are.
LEMMA AtMostOne ==
    ASSUME NEW S, \A x, y \in S : x = y
    PROVE  Cardinality(S) = IF S = {} THEN 0 ELSE 1
<1>1. CASE S = {}
  BY <1>1, FS_EmptySet
<1>2. CASE S # {}
  <2>1. PICK x : x \in S
    BY <1>2
  <2>2. S = {x}
    BY <2>1
  <2>. QED
    BY <1>2, <2>2, FS_Singleton
<1>. QED
  BY <1>1, <1>2

\* A job that is due is in exactly one place as long as its publisher does not
\* run into the closed channel (OnEvent, deliverOne).
THEOREM JobsInOnePlace == Spec => []OnePlace
<1>1. IInv => OnePlace
  <2> SUFFICES ASSUME IInv, NEW j \in due, onEvent[j[2]] # "panicked"
               PROVE  (IF Waiting(j) THEN 1 ELSE 0) + Cardinality(QueuedAt(j))
                        + Cardinality(CarriedBy(j)) + (IF Ended(j) THEN 1 ELSE 0) = 1
    BY DEF OnePlace
  <2>0. TypeOK /\ Places /\ Distinct /\ j \in Jobs
    BY DEF IInv, TypeOK
  <2>1. PlaceOf(j)
    BY <2>0 DEF Places
  <2>2. Cardinality(QueuedAt(j)) = IF Queued(j) THEN 1 ELSE 0
    <3>1. \A x, y \in QueuedAt(j) : x = y
      BY <2>0 DEF Distinct, QueuedAt
    <3>2. QueuedAt(j) = {} <=> ~Queued(j)
      BY DEF QueuedAt, Queued
    <3>. QED
      BY <3>1, <3>2, AtMostOne
  <2>3. Cardinality(CarriedBy(j)) = IF Carried(j) THEN 1 ELSE 0
    <3>1. \A x, y \in CarriedBy(j) : x = y
      BY <2>0 DEF Distinct, CarriedBy
    <3>2. CarriedBy(j) = {} <=> ~Carried(j)
      BY DEF CarriedBy, Carried
    <3>. QED
      BY <3>1, <3>2, AtMostOne
  <2>. QED
    BY <2>1, <2>2, <2>3 DEF PlaceOf
<1>. QED
  BY <1>1, Invariance, PTL
=============================================================================
