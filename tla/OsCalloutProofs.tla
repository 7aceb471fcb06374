-------------------------- MODULE OsCalloutProofs --------------------------
(***************************************************************************)
(* Event queues and callouts, for any tasks, queues, events, callouts and  *)
(* arguments: no wake-up is lost, no armed callout is lost and no stopped  *)
(* one delivered, and each expires at the tick it was set for.             *)
(***************************************************************************)
EXTENDS OsCallout, OsSchedProofs

\* The task of the queue sleeps in os_eventq_get.
Asleep(q) ==
    sched.t_state[Consumer[q]] = "SLEEP" /\ ret[Consumer[q]] = "os_eventq_get" /\ pc[Consumer[q]] # "app"

\* NoLostWakeup, and what it rests on: such a task sleeps for ever, so that the
\* tick, which does not look at evq_task, cannot wake it.
WakeInv ==
    \A q \in Evq :
        /\ Asleep(q) => /\ evq_list[q] = <<>> /\ evq_task[q] = Consumer[q]
                        /\ sched.no_timeout[Consumer[q]] = TRUE
        /\ evq_task[q] # NULL => evq_task[q] = Consumer[q] /\ Asleep(q)

\* Each queue holds exactly its queued events, each once.
QueueExact ==
    \A q \in Evq : /\ Injective(evq_list[q])
                   /\ \A e \in Event : e \in Range(evq_list[q]) <=> EvqOf[e] = q /\ ev_queued[e] = TRUE

Places == {"app", "os_sched", "os_arch_ctx_sw", "os_eventq_get"}
Returns == {"app", "os_eventq_get"}

CallTypes ==
    /\ isr \in {"none", "callout_tick", "timer_exp"} /\ pendsv \in BOOLEAN
    /\ pc \in [Task -> Places] /\ next_t \in [Task -> Task \cup {NULL}] /\ ret \in [Task -> Returns]

\* The inductive invariant of the event queues.
EvqInv == KernelInv /\ CallTypes /\ EvqType /\ QueueExact /\ WakeInv

LEMMA EvqFacts ==
    /\ EvqOf \in [Event -> Evq] /\ Consumer \in [Evq -> Task] /\ NULL \notin Task /\ Callout \subseteq Event
    /\ \A q \in Evq : Consumer[q] # Idle
    /\ \A p, q \in Evq : Consumer[p] = Consumer[q] => p = q
  BY EvqAssumption, CalloutAssumption, NullIsNothing

-----------------------------------------------------------------------------
(* The operations on the queues.                                           *)

\* os_eventq_put2 on an event that is not queued: the queue is exact again.
LEMMA EnqueueQueue ==
    ASSUME EvqType, QueueExact, NEW e \in Event, ~ev_queued[e], Enqueue(e)
    PROVE  /\ EvqType' /\ QueueExact' /\ evq_list'[EvqOf[e]] # <<>>
           /\ \A q \in Evq \ {EvqOf[e]} : evq_list'[q] = evq_list[q] /\ evq_task'[q] = evq_task[q]
           /\ evq_task'[EvqOf[e]] = NULL
           /\ \A x \in Event : ev_queued'[x] = IF x = e THEN TRUE ELSE ev_queued[x]
  <1>1. PICK p \in Evq : p = EvqOf[e]
    BY EvqFacts
  <1>2. /\ evq_list \in [Evq -> Seq(Event)] /\ evq_task \in [Evq -> Task \cup {NULL}]
        /\ ev_queued \in [Event -> BOOLEAN] /\ ev_queued[e] = FALSE
    BY DEF EvqType
  <1>3. PICK l : l = Append(evq_list[p], e)
    OBVIOUS
  <1>4. /\ ev_queued' = [ev_queued EXCEPT ![e] = TRUE]
        /\ evq_list' = [evq_list EXCEPT ![p] = l]
        /\ evq_task' = [evq_task EXCEPT ![p] = NULL]
    BY <1>1, <1>3 DEF Enqueue
  <1>5. evq_list[p] \in Seq(Event) /\ Injective(evq_list[p]) /\ e \notin Range(evq_list[p])
    BY <1>1, <1>2 DEF QueueExact
  <1>6. l \in Seq(Event) /\ Injective(l) /\ l # <<>> /\ \A y : y \in Range(l) <=> y \in Range(evq_list[p]) \/ y = e
    BY <1>3, <1>5, AppendProps
  <1>7. \A x \in Event : ev_queued'[x] = IF x = e THEN TRUE ELSE ev_queued[x]
    BY Zenon, <1>2, <1>4
  <1>8. ev_queued' \in [Event -> BOOLEAN]
    BY Zenon, <1>2, <1>4
  <1>9. evq_list' \in [Evq -> Seq(Event)] /\ evq_task' \in [Evq -> Task \cup {NULL}]
    BY <1>2, <1>4, <1>6
  <1>10. /\ evq_list'[p] = l /\ evq_task'[p] = NULL
         /\ \A q \in Evq \ {p} : evq_list'[q] = evq_list[q] /\ evq_task'[q] = evq_task[q]
    BY <1>2, <1>4
  <1>11. QueueExact'
    <2> SUFFICES ASSUME NEW q \in Evq
                 PROVE  /\ Injective(evq_list'[q])
                        /\ \A x \in Event : x \in Range(evq_list'[q]) <=> EvqOf[x] = q /\ ev_queued'[x] = TRUE
      BY DEF QueueExact
    <2>1. CASE q = p
      BY <1>1, <1>6, <1>7, <1>10, <2>1 DEF QueueExact
    <2>2. CASE q # p
      BY <1>1, <1>7, <1>10, <2>2 DEF QueueExact
    <2> QED
      BY <2>1, <2>2
  <1> QED
    BY <1>1, <1>6, <1>7, <1>8, <1>9, <1>10, <1>11 DEF EvqType

\* os_eventq_remove.
LEMMA DequeueQueue ==
    ASSUME EvqType, QueueExact, NEW e \in Event, Dequeue(e)
    PROVE  /\ EvqType' /\ QueueExact' /\ evq_task' = evq_task
           /\ \A q \in Evq : evq_list[q] = <<>> => evq_list'[q] = <<>>
           /\ \A x \in Event : ev_queued'[x] = IF x = e THEN FALSE ELSE ev_queued[x]
  <1>1. PICK p \in Evq : p = EvqOf[e]
    BY EvqFacts
  <1>2. /\ evq_list \in [Evq -> Seq(Event)] /\ evq_task \in [Evq -> Task \cup {NULL}]
        /\ ev_queued \in [Event -> BOOLEAN]
    BY DEF EvqType
  <1>3. PICK l : l = Remove(evq_list[p], e)
    OBVIOUS
  <1>4. evq_list[p] \in Seq(Event) /\ Injective(evq_list[p])
    BY <1>2 DEF QueueExact
  <1>5. l \in Seq(Event) /\ Injective(l) /\ \A y : y \in Range(l) <=> y \in Range(evq_list[p]) /\ y # e
    BY <1>3, <1>4, RemoveAny
  <1>6. evq_list' = [evq_list EXCEPT ![p] = l]
    <2>1. CASE ev_queued[e]
      BY <1>1, <1>3, <2>1 DEF Dequeue
    <2>2. CASE ~ev_queued[e]
      <3>1. e \notin Range(evq_list[p])
        BY <1>1, <2>2 DEF QueueExact
      <3>2. l = evq_list[p]
        BY <1>3, <3>1 DEF Remove
      <3> QED
        BY <1>2, <2>2, <3>2 DEF Dequeue
    <2> QED
      BY <2>1, <2>2
  <1>7. evq_task' = evq_task /\ ev_queued' = [ev_queued EXCEPT ![e] = FALSE]
    BY DEF Dequeue
  <1>8. \A x \in Event : ev_queued'[x] = IF x = e THEN FALSE ELSE ev_queued[x]
    BY Zenon, <1>2, <1>7
  <1>9. ev_queued' \in [Event -> BOOLEAN]
    BY Zenon, <1>2, <1>7
  <1>10. evq_list' \in [Evq -> Seq(Event)] /\ evq_list'[p] = l /\ \A q \in Evq \ {p} : evq_list'[q] = evq_list[q]
    BY <1>2, <1>5, <1>6
  <1>11. QueueExact'
    <2> SUFFICES ASSUME NEW q \in Evq
                 PROVE  /\ Injective(evq_list'[q])
                        /\ \A x \in Event : x \in Range(evq_list'[q]) <=> EvqOf[x] = q /\ ev_queued'[x] = TRUE
      BY DEF QueueExact
    <2>1. CASE q = p
      BY <1>1, <1>5, <1>8, <1>10, <2>1 DEF QueueExact
    <2>2. CASE q # p
      <3>1. evq_list'[q] = evq_list[q] /\ EvqOf[e] # q
        BY <1>1, <1>10, <2>2
      <3>2. /\ Injective(evq_list[q])
            /\ \A x \in Event : x \in Range(evq_list[q]) <=> EvqOf[x] = q /\ ev_queued[x] = TRUE
        BY DEF QueueExact
      <3> QED
        BY <1>8, <3>1, <3>2
    <2> QED
      BY <2>1, <2>2
  <1>12. evq_list[p] = <<>> => l = <<>>
    BY <1>3 DEF Remove, Range
  <1> QED
    BY <1>2, <1>7, <1>8, <1>9, <1>10, <1>11, <1>12 DEF EvqType

\* os_eventq_get takes the first event.
LEMMA PullQueue ==
    ASSUME EvqType, QueueExact, NEW t \in Task, NEW q \in Evq, Pull(t, q), NEW h, h = Head(evq_list[q]),
           evq_task' \in [Evq -> Task \cup {NULL}]
    PROVE  /\ EvqType' /\ QueueExact' /\ h \in Event /\ ev_queued[h] = TRUE
           /\ \A p \in Evq \ {q} : evq_list'[p] = evq_list[p]
           /\ \A x \in Event : ev_queued'[x] = IF x = h THEN FALSE ELSE ev_queued[x]
  <1>1. /\ evq_list \in [Evq -> Seq(Event)] /\ ev_queued \in [Event -> BOOLEAN] /\ evq_list[q] # <<>>
    BY DEF EvqType, Pull
  <1>2. PICK l : l = Tail(evq_list[q])
    OBVIOUS
  <1>3. evq_list[q] \in Seq(Event) /\ Injective(evq_list[q])
    BY <1>1 DEF QueueExact
  <1>4. /\ h \in Event /\ h \in Range(evq_list[q]) /\ l \in Seq(Event) /\ Injective(l)
        /\ \A y : y \in Range(l) <=> y \in Range(evq_list[q]) /\ y # h
    BY <1>1, <1>2, <1>3, TailProps
  <1>5. evq_list' = [evq_list EXCEPT ![q] = l] /\ ev_queued' = [ev_queued EXCEPT ![h] = FALSE]
    BY <1>2 DEF Pull
  <1>6. \A x \in Event : ev_queued'[x] = IF x = h THEN FALSE ELSE ev_queued[x]
    BY Zenon, <1>1, <1>5
  <1>7. ev_queued' \in [Event -> BOOLEAN]
    BY Zenon, <1>1, <1>5
  <1>8. evq_list' \in [Evq -> Seq(Event)] /\ evq_list'[q] = l /\ \A p \in Evq \ {q} : evq_list'[p] = evq_list[p]
    BY <1>1, <1>4, <1>5
  <1>9. ev_queued[h] = TRUE /\ EvqOf[h] = q
    BY <1>4 DEF QueueExact
  <1>10. QueueExact'
    <2> SUFFICES ASSUME NEW p \in Evq
                 PROVE  /\ Injective(evq_list'[p])
                        /\ \A x \in Event : x \in Range(evq_list'[p]) <=> EvqOf[x] = p /\ ev_queued'[x] = TRUE
      BY DEF QueueExact
    <2>1. CASE p = q
      BY <1>4, <1>6, <1>8, <1>9, <2>1 DEF QueueExact
    <2>2. CASE p # q
      <3>1. evq_list'[p] = evq_list[p] /\ \A x \in Event : EvqOf[x] = p => ev_queued'[x] = ev_queued[x]
        BY <1>6, <1>8, <1>9, <2>2
      <3> QED
        BY <3>1 DEF QueueExact
    <2> QED
      BY <2>1, <2>2
  <1> QED
    BY <1>4, <1>6, <1>7, <1>8, <1>9, <1>10 DEF EvqType

-----------------------------------------------------------------------------
(* The scheduler's steps, and the queues.                                  *)

\* A step of the scheduler leaves a task alone that is in a call and, if it sleeps,
\* sleeps for ever.
LEMMA SchedStepStates ==
    ASSUME KernelInv, SchedStep, NEW u \in Task, pc[u] # "app",
           sched.t_state[u] = "SLEEP" => sched.no_timeout[u] = TRUE
    PROVE  /\ sched'.t_state[u] = sched.t_state[u]
           /\ sched.t_state[u] = "SLEEP" => sched'.no_timeout[u] = TRUE
  <1>0. Good(sched) /\ SchedType(sched)
    BY DEF KernelInv, Good
  <1>1. ASSUME NEW t \in Task, os_time_delay(t)
        PROVE  sched'.t_state[u] = sched.t_state[u] /\ sched'.no_timeout[u] = sched.no_timeout[u]
    <2>1. sched.t_state[t] = "READY" /\ u # t
      BY <1>1 DEF KernelInv, os_time_delay, InApp, Running
    <2>2. PICK n \in Delays : sched' = os_sched_sleep(sched, t, n)
      BY <1>1 DEF os_time_delay
    <2>3. n \in 0 .. NEVER
      BY DelaysFit
    <2>4. GoodToSleep(sched, t) /\ now \in 0 .. TimeMod - 1
      BY <2>1 DEF KernelInv, Good, GoodToSleep, ListsConsistent
    <2>5. \A v \in Task : sched'.t_state[v] = IF v = t THEN "SLEEP" ELSE sched.t_state[v]
      BY <2>2, <2>3, <2>4, SleepGood
    <2>6. \A v \in Task \ {t} : sched'.no_timeout[v] = sched.no_timeout[v]
      BY <1>0, <2>2, SleepFlag
    <2> QED
      BY <2>1, <2>5, <2>6
  <1>2. ASSUME os_sched_os_timer_exp
        PROVE  sched'.t_state[u] = sched.t_state[u] /\ sched'.no_timeout[u] = sched.no_timeout[u]
    <2>1. PICK h \in Task : h = Head(sched.sleep) /\ sched.t_state[h] = "SLEEP"
      BY <1>2, TimerExpSleeps
    <2>2. ~sched.no_timeout[h] /\ sched' = os_sched_wakeup(sched, h)
      BY <1>2, <2>1 DEF os_sched_os_timer_exp, Expired
    <2>3. h # u
      BY <2>1, <2>2
    <2>4. \A v \in Task : sched'.t_state[v] = IF v = h THEN "READY" ELSE sched.t_state[v]
      BY <1>0, <2>1, <2>2, WakeupGood
    <2>5. sched'.no_timeout = [sched.no_timeout EXCEPT ![h] = FALSE]
      BY <1>0, <2>2, WakeupTimes
    <2>6. DOMAIN sched.no_timeout = Task
      BY <1>0 DEF SchedType
    <2>7. sched'.no_timeout[u] = sched.no_timeout[u]
      BY Zenon, <2>3, <2>5, <2>6
    <2> QED
      BY <2>3, <2>4, <2>7
  <1>3. CASE UNCHANGED sched
    BY <1>3
  <1> QED
    BY <1>1, <1>2, <1>3 DEF SchedStep, os_sched, os_arch_ctx_sw, PendSV_read, PendSV_switch, timer_handler_end

LEMMA EvqSchedStep ==
    ASSUME EvqInv, SchedStepOnly
    PROVE  /\ EvqInv' /\ now' = now
           /\ isr # "callout_tick" /\ isr' # "callout_tick"
  <1>1. SchedStep /\ UNCHANGED evqVars /\ KernelInv /\ CallTypes /\ WakeInv
    BY DEF SchedStepOnly, EvqInv
  <1>2. isr \in {"none", "timer_exp"} /\ now' = now
    BY <1>1 DEF SchedStep, os_sched, os_arch_ctx_sw, os_time_delay, InApp, Running, PendSV_read, PendSV_switch,
       os_sched_os_timer_exp, timer_handler_end
  <1>3. KernelInv'
    BY <1>1, SchedNextInv DEF CallTypes, SchedNext
  <1>4. /\ pc' \in [Task -> Places] /\ ret' \in [Task -> Returns] /\ next_t' \in [Task -> Task \cup {NULL}]
        /\ isr' \in {"none", "timer_exp"} /\ pendsv' \in BOOLEAN
        /\ \A u \in Task :
              \/ pc'[u] = pc[u] /\ ret'[u] = ret[u]
              \/ pc[u] = "app" /\ pc'[u] = "os_sched" /\ ret'[u] = "app"
              \/ /\ pc[u] \in {"os_sched", "os_arch_ctx_sw"} /\ ret'[u] = ret[u]
                 /\ pc'[u] \in {"os_arch_ctx_sw", ret[u]}
    <2>1. {"app", "os_sched", "os_arch_ctx_sw"} \subseteq Places /\ Returns \subseteq Places /\ "app" \in Returns
      BY DEF Places, Returns
    <2>2. SchedNext
      BY <1>1 DEF SchedNext
    <2> QED
      BY <1>1, <1>2, <2>1, <2>2, SchedNextCalls DEF CallTypes
  <1>5. CallTypes'
    BY <1>4 DEF CallTypes
  <1>6. ASSUME NEW q \in Evq
        PROVE  /\ Asleep(q)' <=> Asleep(q)
               /\ Asleep(q)' => sched'.no_timeout[Consumer[q]] = TRUE
    <2>1. PICK u \in Task : u = Consumer[q]
      BY EvqFacts
    <2>2. Asleep(q) <=> sched.t_state[u] = "SLEEP" /\ ret[u] = "os_eventq_get" /\ pc[u] # "app"
      BY <2>1 DEF Asleep
    <2>3. Asleep(q)' <=> sched'.t_state[u] = "SLEEP" /\ ret'[u] = "os_eventq_get" /\ pc'[u] # "app"
      BY <2>1 DEF Asleep
    <2>4. CASE ret[u] = "os_eventq_get" /\ pc[u] # "app"
      <3>1. sched.t_state[u] = "SLEEP" => sched.no_timeout[u] = TRUE
        BY <1>1, <2>1, <2>2, <2>4 DEF WakeInv
      <3>2. sched'.t_state[u] = sched.t_state[u] /\ (sched.t_state[u] = "SLEEP" => sched'.no_timeout[u] = TRUE)
        BY <1>1, <2>4, <3>1, SchedStepStates
      <3> QED
        BY <1>4, <2>1, <2>2, <2>3, <2>4, <3>2
    <2>5. CASE ~(ret[u] = "os_eventq_get" /\ pc[u] # "app")
      BY <1>4, <2>2, <2>3, <2>5
    <2> QED
      BY <2>4, <2>5
  <1>7. WakeInv'
    BY <1>1, <1>6 DEF WakeInv, evqVars
  <1>8. EvqType' /\ QueueExact'
    BY <1>1 DEF EvqInv, EvqType, QueueExact, evqVars
  <1> QED
    BY <1>2, <1>3, <1>4, <1>5, <1>7, <1>8 DEF EvqInv

-----------------------------------------------------------------------------
(* The steps of os_eventq.c.                                               *)

\* The wake-up of os_eventq_put2: only the task that waits for the queue is woken.
LEMMA EnqueueSched ==
    ASSUME EvqInv, NEW e \in Event, Enqueue(e)
    PROVE  /\ Good(sched') /\ sched'.t_state[Idle] = "READY"
           /\ \A u \in Task : sched'.t_state[u] = IF u = evq_task[EvqOf[e]] THEN "READY" ELSE sched.t_state[u]
           /\ \A u \in Task : u # evq_task[EvqOf[e]] => sched'.no_timeout[u] = sched.no_timeout[u]
           /\ \A u \in Task : u = evq_task[EvqOf[e]] => u = Consumer[EvqOf[e]] /\ sched.t_state[u] = "SLEEP"
  <1>1. PICK q \in Evq : q = EvqOf[e]
    BY EvqFacts
  <1>2. Good(sched) /\ SchedType(sched) /\ sched.t_state[Idle] = "READY" /\ Idle \in Task
    BY SchedAssumption DEF EvqInv, KernelInv, Good
  <1>3. CASE evq_task[q] = NULL
    <2>1. sched' = sched
      BY <1>1, <1>3 DEF Enqueue
    <2> QED
      BY <1>1, <1>2, <1>3, <2>1, EvqFacts
  <1>4. CASE evq_task[q] # NULL
    <2>1. PICK h \in Task : h = evq_task[q] /\ h = Consumer[q] /\ sched.t_state[h] = "SLEEP"
      BY <1>4, EvqFacts DEF EvqInv, WakeInv, Asleep
    <2>2. sched' = os_sched_wakeup(sched, h)
      BY <1>1, <1>4, <2>1 DEF Enqueue
    <2>3. Good(sched') /\ \A u \in Task : sched'.t_state[u] = IF u = h THEN "READY" ELSE sched.t_state[u]
      BY <1>2, <2>1, <2>2, WakeupGood
    <2>4. sched'.no_timeout = [sched.no_timeout EXCEPT ![h] = FALSE]
      BY <1>2, <2>2, WakeupTimes
    <2>5. DOMAIN sched.no_timeout = Task
      BY <1>2 DEF SchedType
    <2>6. \A u \in Task : u # h => sched'.no_timeout[u] = sched.no_timeout[u]
      BY Zenon, <2>4, <2>5
    <2>7. sched'.t_state[Idle] = "READY"
      BY <1>2, <2>3
    <2> QED
      BY <1>1, <2>1, <2>3, <2>6, <2>7
  <1> QED
    BY <1>3, <1>4

\* After it the invariant of the wake-ups holds again, if the tasks that sleep in
\* os_eventq_get stay in their calls.
LEMMA EnqueueWake ==
    ASSUME EvqInv, NEW e \in Event, ~ev_queued[e], Enqueue(e),
           \A u \in Task : sched.t_state[u] = "SLEEP" => pc'[u] = pc[u] /\ ret'[u] = ret[u]
    PROVE  WakeInv'
  <1>1. PICK p \in Evq : p = EvqOf[e]
    BY EvqFacts
  <1>2. /\ \A u \in Task : sched'.t_state[u] = IF u = evq_task[p] THEN "READY" ELSE sched.t_state[u]
        /\ \A u \in Task : u # evq_task[p] => sched'.no_timeout[u] = sched.no_timeout[u]
        /\ \A u \in Task : u = evq_task[p] => u = Consumer[p] /\ sched.t_state[u] = "SLEEP"
    BY <1>1, EnqueueSched
  <1>3. /\ \A q \in Evq \ {p} : evq_list'[q] = evq_list[q] /\ evq_task'[q] = evq_task[q]
        /\ evq_task'[p] = NULL
    BY <1>1, EnqueueQueue DEF EvqInv
  <1> SUFFICES ASSUME NEW q \in Evq
               PROVE  /\ Asleep(q)' => /\ evq_list'[q] = <<>> /\ evq_task'[q] = Consumer[q]
                                       /\ sched'.no_timeout[Consumer[q]] = TRUE
                      /\ evq_task'[q] # NULL => evq_task'[q] = Consumer[q] /\ Asleep(q)'
    BY DEF WakeInv
  <1>4. PICK u \in Task : u = Consumer[q]
    BY EvqFacts
  <1>5. Asleep(q) <=> sched.t_state[u] = "SLEEP" /\ ret[u] = "os_eventq_get" /\ pc[u] # "app"
    BY <1>4 DEF Asleep
  <1>6. Asleep(q)' <=> sched'.t_state[u] = "SLEEP" /\ ret'[u] = "os_eventq_get" /\ pc'[u] # "app"
    BY <1>4 DEF Asleep
  <1>7. /\ Asleep(q) => /\ evq_list[q] = <<>> /\ evq_task[q] = u /\ sched.no_timeout[u] = TRUE
        /\ evq_task[q] # NULL => evq_task[q] = u /\ Asleep(q)
    BY <1>4 DEF EvqInv, WakeInv
  <1>8. CASE q = p
    <2>1. ~Asleep(q)'
      BY <1>2, <1>5, <1>6, <1>7, <1>8
    <2> QED
      BY <1>3, <1>8, <2>1
  <1>9. CASE q # p
    <2>1. u # evq_task[p]
      BY <1>2, <1>4, <1>9, EvqFacts
    <2>2. Asleep(q)' <=> Asleep(q)
      BY <1>2, <1>5, <1>6, <2>1
    <2>3. sched'.no_timeout[u] = sched.no_timeout[u]
      BY <1>2, <2>1
    <2>4. evq_list'[q] = evq_list[q] /\ evq_task'[q] = evq_task[q]
      BY <1>3, <1>9
    <2> QED
      BY <1>4, <1>7, <2>2, <2>3, <2>4
  <1> QED
    BY <1>8, <1>9

LEMMA EvqPut ==
    ASSUME EvqInv, NEW t \in Task, NEW e \in Event, os_eventq_put(t, e)
    PROVE  EvqInv' /\ now' = now /\ isr' = isr
  <1>1. /\ Running(t) /\ pc[t] = "app" /\ ~ev_queued[e] /\ Enqueue(e)
        /\ \/ CallSched(t, NULL, "app") \/ UNCHANGED <<pc, next_t, ret>>
        /\ UNCHANGED <<cur, now, isr, pendsv, psv>>
    BY DEF os_eventq_put, InApp
  <1>2. KernelInv /\ CallTypes /\ sched.t_state[t] = "READY" /\ EvqType /\ QueueExact
    BY <1>1, RunningFree DEF EvqInv
  <1>3. EvqType' /\ QueueExact'
    BY <1>1, <1>2, EnqueueQueue
  <1>4. Good(sched') /\ sched'.t_state[Idle] = "READY" /\ sched'.t_state[t] = "READY"
    BY <1>1, <1>2, EnqueueSched
  <1>5. KernelInv'
    BY <1>1, <1>2, <1>4, TaskCallInv, NullIsNothing
  <1>6. CallTypes'
    BY <1>1, <1>2 DEF CallTypes, CallSched, Places, Returns
  <1>7. \A u \in Task : sched.t_state[u] = "SLEEP" => pc'[u] = pc[u] /\ ret'[u] = ret[u]
    BY <1>1, <1>2 DEF CallSched, CallTypes
  <1>8. WakeInv'
    BY <1>1, <1>7, EnqueueWake
  <1> QED
    BY <1>1, <1>3, <1>5, <1>6, <1>8 DEF EvqInv

\* os_eventq_remove, and what os_callout_stop and os_callout_reset do to the queue.
LEMMA EvqDequeue ==
    ASSUME EvqInv, NEW e \in Event, Dequeue(e), UNCHANGED schedVars
    PROVE  EvqInv' /\ now' = now /\ isr' = isr
  <1>1. /\ EvqType' /\ QueueExact' /\ evq_task' = evq_task
        /\ \A q \in Evq : evq_list[q] = <<>> => evq_list'[q] = <<>>
    BY DequeueQueue DEF EvqInv
  <1>2. KernelInv'
    BY KernelStutter DEF EvqInv
  <1>3. CallTypes'
    BY DEF EvqInv, CallTypes, schedVars
  <1>4. \A q \in Evq : Asleep(q)' <=> Asleep(q)
    BY DEF Asleep, schedVars
  <1>5. WakeInv'
    BY <1>1, <1>4 DEF EvqInv, WakeInv, schedVars
  <1> QED
    BY <1>1, <1>2, <1>3, <1>5 DEF EvqInv, schedVars

\* A turn of os_eventq_get that finds an event, or goes to sleep.
LEMMA EvqPull ==
    ASSUME EvqInv, NEW t \in Task, NEW q \in Evq, t = Consumer[q], Running(t),
           pc[t] \in {"app", "os_eventq_get"}, Pull(t, q),
           evq_task' = evq_task \/ evq_task' = [evq_task EXCEPT ![q] = NULL],
           UNCHANGED <<cur, now, isr, crit, pendsv, psv>>
    PROVE  EvqInv'
  <1>1. /\ KernelInv /\ CallTypes /\ sched.t_state[t] = "READY" /\ EvqType /\ QueueExact
        /\ sched' = sched /\ next_t' = next_t /\ ret' = ret /\ pc' = [pc EXCEPT ![t] = "app"]
    BY RunningFree DEF EvqInv, Pull
  <1>2. evq_task' \in [Evq -> Task \cup {NULL}]
    BY <1>1 DEF EvqType
  <1>3. EvqType' /\ QueueExact' /\ \A p \in Evq \ {q} : evq_list'[p] = evq_list[p]
    BY <1>1, <1>2, PullQueue
  <1>4. KernelInv'
    BY <1>1, TaskQuietInv
  <1>5. CallTypes'
    BY <1>1 DEF CallTypes, Places
  <1>6. ~Asleep(q) /\ ~Asleep(q)' /\ evq_task[q] = NULL
    BY <1>1 DEF Asleep, EvqInv, WakeInv
  <1>7. evq_task' = evq_task
    BY <1>1, <1>6 DEF EvqType
  <1>8. \A p \in Evq \ {q} : Asleep(p)' <=> Asleep(p)
    <2> SUFFICES ASSUME NEW p \in Evq \ {q} PROVE Asleep(p)' <=> Asleep(p)
      OBVIOUS
    <2>1. PICK u \in Task : u = Consumer[p] /\ u # t
      BY EvqFacts
    <2>2. pc'[u] = pc[u]
      BY <1>1, <2>1 DEF CallTypes
    <2> QED
      BY <1>1, <2>1, <2>2 DEF Asleep
  <1>9. WakeInv'
    BY <1>1, <1>3, <1>6, <1>7, <1>8 DEF EvqInv, WakeInv
  <1> QED
    BY <1>3, <1>4, <1>5, <1>9 DEF EvqInv

LEMMA EvqWait ==
    ASSUME EvqInv, NEW t \in Task, NEW q \in Evq, t = Consumer[q], Running(t),
           pc[t] \in {"app", "os_eventq_get"}, Wait(t, q), evq_task' = [evq_task EXCEPT ![q] = t],
           UNCHANGED <<cur, now, isr, crit, pendsv, psv>>
    PROVE  EvqInv'
  <1>1. /\ KernelInv /\ CallTypes /\ sched.t_state[t] = "READY" /\ EvqType /\ QueueExact
        /\ SchedType(sched) /\ now \in 0 .. TimeMod - 1 /\ t # Idle
    BY RunningFree, EvqFacts DEF EvqInv, KernelInv, Good
  <1>2. /\ evq_list[q] = <<>> /\ sched' = os_sched_sleep(sched, t, NEVER)
        /\ CallSched(t, NULL, "os_eventq_get") /\ evq_list' = evq_list /\ ev_queued' = ev_queued
    BY DEF Wait
  <1>3. GoodToSleep(sched, t)
    BY <1>1 DEF KernelInv, Good, GoodToSleep, ListsConsistent
  <1>4. NEVER \in 0 .. NEVER
    BY DelaysFit
  <1>5. Good(sched') /\ \A u \in Task : sched'.t_state[u] = IF u = t THEN "SLEEP" ELSE sched.t_state[u]
    BY <1>1, <1>2, <1>3, <1>4, SleepGood
  <1>6. sched'.no_timeout[t] = TRUE
    BY <1>1, <1>2, SleepForEver
  <1>7. \A u \in Task \ {t} : sched'.no_timeout[u] = sched.no_timeout[u]
    BY <1>1, <1>2, SleepFlag
  <1>8. sched'.t_state[Idle] = "READY"
    BY <1>1, <1>5, SchedAssumption DEF KernelInv
  <1>9. /\ DOMAIN pc' = Task /\ DOMAIN next_t' = Task /\ pc'[t] = "os_sched"
        /\ \A u \in Task : next_t'[u] # u
    BY <1>1, <1>2, NullIsNothing, CallSchedKeeps
  <1>10. KernelInv'
    BY <1>1, <1>5, <1>8, <1>9, TaskStepInv
  <1>11. CallTypes'
    BY <1>1, <1>2 DEF CallTypes, CallSched, Places, Returns
  <1>12. EvqType' /\ QueueExact'
    BY <1>1, <1>2 DEF EvqType, QueueExact
  <1>13. /\ pc'[t] = "os_sched" /\ ret'[t] = "os_eventq_get"
         /\ \A u \in Task \ {t} : pc'[u] = pc[u] /\ ret'[u] = ret[u]
    BY <1>1, <1>2 DEF CallTypes, CallSched
  <1>14. evq_task'[q] = t /\ \A p \in Evq \ {q} : evq_task'[p] = evq_task[p]
    BY <1>1 DEF EvqType
  <1>15. Asleep(q)'
    BY <1>5, <1>13 DEF Asleep
  <1>16. ASSUME NEW p \in Evq \ {q}
         PROVE  /\ Asleep(p)' <=> Asleep(p)
                /\ sched'.no_timeout[Consumer[p]] = sched.no_timeout[Consumer[p]]
    <2>1. PICK u \in Task : u = Consumer[p] /\ u # t
      BY EvqFacts
    <2> QED
      BY <1>5, <1>7, <1>13, <2>1 DEF Asleep
  <1>17. WakeInv'
    BY <1>2, <1>6, <1>14, <1>15, <1>16 DEF EvqInv, WakeInv
  <1> QED
    BY <1>10, <1>11, <1>12, <1>17 DEF EvqInv

LEMMA EvqStepInv ==
    ASSUME EvqInv, EvqStep
    PROVE  EvqInv' /\ now' = now /\ isr' = isr
  <1>1. ASSUME NEW t \in Task, NEW e \in Event \ Callout, os_eventq_put(t, e)
        PROVE  EvqInv' /\ now' = now /\ isr' = isr
    BY <1>1, EvqPut
  <1>2. ASSUME NEW t \in Task, NEW e \in Event \ Callout, os_eventq_remove(t, e)
        PROVE  EvqInv' /\ now' = now /\ isr' = isr
    BY <1>2, EvqDequeue DEF os_eventq_remove
  <1>3. ASSUME NEW t \in Task, NEW q \in Evq, os_eventq_get(t, q)
        PROVE  EvqInv' /\ now' = now /\ isr' = isr
    <2>1. Running(t) /\ pc[t] = "app" /\ t = Consumer[q] /\ UNCHANGED <<cur, now, isr, crit, pendsv, psv>>
      BY <1>3 DEF os_eventq_get, InApp
    <2>2. \/ Pull(t, q) /\ UNCHANGED evq_task
          \/ Wait(t, q) /\ evq_task' = [evq_task EXCEPT ![q] = t]
      BY <1>3 DEF os_eventq_get
    <2> QED
      BY <2>1, <2>2, EvqPull, EvqWait
  <1>4. ASSUME NEW t \in Task, NEW q \in Evq, os_eventq_get_again(t, q)
        PROVE  EvqInv' /\ now' = now /\ isr' = isr
    <2>1. /\ Running(t) /\ pc[t] = "os_eventq_get" /\ t = Consumer[q]
          /\ UNCHANGED <<cur, now, isr, crit, pendsv, psv>>
      BY <1>4 DEF os_eventq_get_again
    <2>2. \/ Pull(t, q) /\ evq_task' = [evq_task EXCEPT ![q] = NULL]
          \/ Wait(t, q) /\ evq_task' = [evq_task EXCEPT ![q] = t]
      BY <1>4 DEF os_eventq_get_again
    <2> QED
      BY <2>1, <2>2, EvqPull, EvqWait
  <1> QED
    BY <1>1, <1>2, <1>3, <1>4 DEF EvqStep

-----------------------------------------------------------------------------
(* The tick.                                                               *)

LEMMA EvqTickStart ==
    ASSUME EvqInv, TickStart PROVE EvqInv'
  <1>1. os_time_tick("callout_tick") /\ UNCHANGED evqVars
    BY DEF TickStart
  <1>2. KernelInv'
    BY <1>1, os_time_tickInv DEF EvqInv
  <1>3. CallTypes'
    BY <1>1 DEF EvqInv, CallTypes, os_time_tick
  <1>4. \A q \in Evq : Asleep(q)' <=> Asleep(q)
    BY <1>1 DEF Asleep, os_time_tick
  <1>5. WakeInv'
    BY <1>1, <1>4 DEF EvqInv, WakeInv, evqVars, os_time_tick
  <1>6. EvqType' /\ QueueExact'
    BY <1>1 DEF EvqInv, EvqType, QueueExact, evqVars
  <1> QED
    BY <1>2, <1>3, <1>5, <1>6 DEF EvqInv

LEMMA EvqTickEnd ==
    ASSUME EvqInv, os_callout_tick_end PROVE EvqInv'
  <1>1. /\ UNCHANGED <<sched, cur, now, pendsv, psv, pc, next_t, ret>> /\ UNCHANGED evqVars
        /\ isr' = "timer_exp"
    BY DEF os_callout_tick_end
  <1>2. KernelInv'
    BY <1>1 DEF EvqInv, KernelInv
  <1>3. CallTypes'
    BY <1>1 DEF EvqInv, CallTypes
  <1>4. \A q \in Evq : Asleep(q)' <=> Asleep(q)
    BY <1>1 DEF Asleep
  <1>5. WakeInv'
    BY <1>1, <1>4 DEF EvqInv, WakeInv, evqVars
  <1>6. EvqType' /\ QueueExact'
    BY <1>1 DEF EvqInv, EvqType, QueueExact, evqVars
  <1> QED
    BY <1>2, <1>3, <1>5, <1>6 DEF EvqInv

\* The first callout's event is put in its queue.
LEMMA EvqTick ==
    ASSUME EvqInv, NEW c \in Event, c = Head(g_callout_list), os_callout_tick
    PROVE  EvqInv'
  <1>1. UNCHANGED <<cur, now, isr, crit, psv, pc, next_t, ret>>
    BY DEF os_callout_tick
  <1>2. CASE ev_queued[c]
    <2>1. UNCHANGED <<sched, evqVars, pendsv>>
      BY <1>2 DEF os_callout_tick
    <2>2. KernelInv'
      BY <1>1, <2>1 DEF EvqInv, KernelInv
    <2>3. CallTypes'
      BY <1>1, <2>1 DEF EvqInv, CallTypes
    <2>4. \A q \in Evq : Asleep(q)' <=> Asleep(q)
      BY <1>1, <2>1 DEF Asleep
    <2>5. WakeInv'
      BY <2>1, <2>4 DEF EvqInv, WakeInv, evqVars
    <2>6. EvqType' /\ QueueExact'
      BY <2>1 DEF EvqInv, EvqType, QueueExact, evqVars
    <2> QED
      BY <2>2, <2>3, <2>5, <2>6 DEF EvqInv
  <1>3. CASE ~ev_queued[c]
    <2>1. /\ Enqueue(c)
          /\ pendsv' = (pendsv \/ (evq_task[EvqOf[c]] # NULL /\ os_sched_next_task(sched') # cur))
      BY <1>3 DEF os_callout_tick
    <2>2. EvqType' /\ QueueExact'
      BY <1>3, <2>1, EnqueueQueue DEF EvqInv
    <2>3. WakeInv'
      BY <1>1, <1>3, <2>1, EnqueueWake
    <2>4. /\ Good(sched') /\ sched'.t_state[Idle] = "READY"
          /\ \A u \in Task : sched.t_state[u] = "READY" => sched'.t_state[u] = "READY"
      BY <2>1, EnqueueSched
    <2>5. KernelInv'
      <3>1. pendsv = TRUE => pendsv' = TRUE
        BY <2>1
      <3> QED
        BY <1>1, <2>4, <3>1 DEF EvqInv, KernelInv
    <2>6. CallTypes'
      BY <1>1, <2>1 DEF EvqInv, CallTypes
    <2> QED
      BY <2>2, <2>3, <2>5, <2>6 DEF EvqInv
  <1> QED
    BY <1>2, <1>3

LEMMA EvqInvInit == Init => EvqInv
  <1> SUFFICES ASSUME Init PROVE EvqInv
    OBVIOUS
  <1>1. KernelInv
    BY KernelInit DEF Init
  <1>2. CallTypes
    BY DEF Init, SchedInit, CallTypes, Places, Returns
  <1>3. EvqType
    BY DEF Init, EvqInit, EvqType
  <1>4. QueueExact
    BY DEF Init, EvqInit, QueueExact, Injective, Range
  <1>5. WakeInv
    <2>1. \A q \in Evq : evq_task[q] = NULL /\ ~Asleep(q)
      BY EvqFacts DEF Init, EvqInit, SchedInit, Asleep
    <2> QED
      BY <2>1 DEF WakeInv
  <1> QED
    BY <1>1, <1>2, <1>3, <1>4, <1>5 DEF EvqInv

-----------------------------------------------------------------------------
(* The list of callouts.                                                   *)

ListTypes ==
    g_callout_list \in Seq(Callout) /\ c_ticks \in [Callout -> Time] /\ armed \in [Callout -> BOOLEAN]

\* The list is in the order of the times, all of them less than half the clock
\* ahead, and outside os_callout_tick none has come.
OnTime ==
    /\ Clocked(g_callout_list, c_ticks, now)
    /\ isr # "callout_tick" => \A c \in Range(g_callout_list) : Diff(c_ticks[c], now) > 0

CalloutInv == EvqInv /\ ListTypes /\ ArmedExactly /\ OnTime

LEMMA NowIsTime == EvqInv => now \in Time
  BY DEF EvqInv, KernelInv, Time

LEMMA CalloutInvInit == Init => CalloutInv
  <1> SUFFICES ASSUME Init PROVE CalloutInv
    OBVIOUS
  <1>1. /\ g_callout_list = <<>> /\ c_ticks = [c \in Callout |-> 0] /\ armed = [c \in Callout |-> FALSE]
        /\ ev_queued = [e \in Event |-> FALSE]
    BY DEF Init, EvqInit
  <1>2. Range(g_callout_list) = {} /\ DOMAIN g_callout_list = {}
    BY <1>1 DEF Range
  <1>3. ListTypes
    <2>1. 0 \in Time
      BY ZeroIsTime DEF Time
    <2> QED
      BY <1>1, <2>1 DEF ListTypes
  <1>4. ArmedExactly
    BY <1>1, <1>2, EvqFacts DEF ArmedExactly, Injective
  <1>5. OnTime
    BY <1>2 DEF OnTime, Clocked, Ordered
  <1> QED
    BY <1>3, <1>4, <1>5, EvqInvInit DEF CalloutInv

\* Steps that leave the list, its times and the events of the callouts alone.
LEMMA CalloutQuiet ==
    ASSUME CalloutInv, EvqInv', UNCHANGED <<g_callout_list, c_ticks, armed, now, ev_queued>>,
           isr' # "callout_tick" => isr # "callout_tick"
    PROVE  CalloutInv'
  BY DEF CalloutInv, ListTypes, ArmedExactly, OnTime

\* Which events of callouts a step of the event queues can take out: the one
\* os_eventq_get delivers.
LEMMA CalloutEvq ==
    ASSUME CalloutInv, EvqStep
    PROVE  CalloutInv'
  <1>1. /\ EvqInv /\ EvqInv' /\ now' = now /\ isr' = isr /\ ListTypes /\ ArmedExactly /\ OnTime
        /\ g_callout_list' = g_callout_list /\ c_ticks' = c_ticks /\ Delivered
    BY EvqStepInv DEF CalloutInv, EvqStep
  <1>2. /\ ev_queued \in [Event -> BOOLEAN] /\ ev_queued' \in [Event -> BOOLEAN]
        /\ armed \in [Callout -> BOOLEAN]
    BY <1>1 DEF EvqInv, EvqType, ListTypes
  <1>3. armed' \in [Callout -> BOOLEAN]
    BY <1>1 DEF Delivered
  <1>4. \A c \in Callout : ev_queued'[c] = TRUE => ev_queued[c] = TRUE
    <2>1. ASSUME NEW t \in Task, NEW e \in Event \ Callout, os_eventq_put(t, e) \/ os_eventq_remove(t, e)
          PROVE  \A c \in Callout : ev_queued'[c] = ev_queued[c]
      <3>1. \E b \in BOOLEAN : ev_queued' = [ev_queued EXCEPT ![e] = b]
        BY <2>1 DEF os_eventq_put, os_eventq_remove, Enqueue, Dequeue
      <3>2. \A c \in Callout : c \in Event /\ c # e
        BY EvqFacts
      <3> QED
        BY Zenon, <1>2, <3>1, <3>2
    <2>2. ASSUME NEW t \in Task, NEW q \in Evq, Pull(t, q)
          PROVE  \A c \in Callout : ev_queued'[c] = TRUE => ev_queued[c] = TRUE
      <3>1. ev_queued' = [ev_queued EXCEPT ![Head(evq_list[q])] = FALSE]
        BY <2>2 DEF Pull
      <3> QED
        BY <1>2, <3>1, EvqFacts
    <2>3. ASSUME NEW t \in Task, NEW q \in Evq, Wait(t, q)
          PROVE  ev_queued' = ev_queued
      BY <2>3 DEF Wait
    <2> QED
      BY <2>1, <2>2, <2>3 DEF EvqStep, os_eventq_get, os_eventq_get_again
  <1>5. ASSUME NEW c \in Callout
        PROVE  armed'[c] <=> c \in Range(g_callout_list) \/ ev_queued'[c]
    <2>1. armed'[c] <=> armed[c] /\ ~(ev_queued[c] /\ ~ev_queued'[c])
      BY <1>1 DEF Delivered
    <2>2. /\ armed[c] <=> c \in Range(g_callout_list) \/ ev_queued[c]
          /\ ~(c \in Range(g_callout_list) /\ ev_queued[c])
      BY <1>1 DEF ArmedExactly
    <2>3. c \in Event /\ ev_queued[c] \in BOOLEAN /\ ev_queued'[c] \in BOOLEAN
      BY <1>2, EvqFacts
    <2> QED
      BY <1>4, <2>1, <2>2, <2>3
  <1>6. ASSUME NEW c \in Callout
        PROVE  ~(c \in Range(g_callout_list) /\ ev_queued'[c])
    <2>1. c \in Event /\ ev_queued'[c] \in BOOLEAN
      BY <1>2, EvqFacts
    <2> QED
      BY <1>1, <1>4, <2>1 DEF ArmedExactly
  <1>7. ArmedExactly'
    BY <1>1, <1>5, <1>6 DEF ArmedExactly
  <1>8. ListTypes' /\ OnTime'
    BY <1>1, <1>3 DEF ListTypes, OnTime
  <1> QED
    BY <1>1, <1>7, <1>8 DEF CalloutInv

LEMMA CalloutTickStart ==
    ASSUME CalloutInv, TickStart PROVE CalloutInv'
  <1>1. /\ now' = (now + 1) % TimeMod /\ isr = "none" /\ isr' = "callout_tick"
        /\ UNCHANGED <<g_callout_list, c_ticks, armed, ev_queued>>
    BY DEF TickStart, os_time_tick, evqVars
  <1>2. /\ g_callout_list \in Seq(Callout) /\ c_ticks \in [Callout -> Time] /\ now \in Time
        /\ Clocked(g_callout_list, c_ticks, now)
        /\ \A c \in Range(g_callout_list) : Diff(c_ticks[c], now) > 0
    BY <1>1, NowIsTime DEF CalloutInv, ListTypes, OnTime
  <1>3. Clocked(g_callout_list, c_ticks, now')
    BY <1>1, <1>2, ClockedTick
  <1>4. OnTime'
    BY <1>1, <1>3 DEF OnTime
  <1>5. EvqInv'
    BY EvqTickStart DEF CalloutInv
  <1>6. ListTypes' /\ ArmedExactly'
    BY <1>1 DEF CalloutInv, ListTypes, ArmedExactly
  <1> QED
    BY <1>4, <1>5, <1>6 DEF CalloutInv

LEMMA CalloutTickEnd ==
    ASSUME CalloutInv, os_callout_tick_end PROVE CalloutInv'
  <1>1. /\ ~CalloutDue /\ now' = now /\ isr' = "timer_exp"
        /\ UNCHANGED <<g_callout_list, c_ticks, armed, ev_queued>>
    BY DEF os_callout_tick_end, evqVars
  <1>2. /\ g_callout_list \in Seq(Callout) /\ c_ticks \in [Callout -> Time] /\ now \in Time
        /\ Clocked(g_callout_list, c_ticks, now)
    BY NowIsTime DEF CalloutInv, ListTypes, OnTime
  <1>3. \A c \in Range(g_callout_list) : Diff(c_ticks[c], now) > 0
    <2>1. CASE g_callout_list = <<>>
      BY <2>1 DEF Range
    <2>2. CASE g_callout_list # <<>>
      BY <1>1, <1>2, <2>2, ClockedHead DEF CalloutDue
    <2> QED
      BY <2>1, <2>2
  <1>4. OnTime'
    BY <1>1, <1>2, <1>3 DEF OnTime
  <1>5. EvqInv'
    BY EvqTickEnd DEF CalloutInv
  <1>6. ListTypes' /\ ArmedExactly'
    BY <1>1 DEF CalloutInv, ListTypes, ArmedExactly
  <1> QED
    BY <1>4, <1>5, <1>6 DEF CalloutInv

\* The first callout goes from the list to the queue of its event.
LEMMA CalloutTick ==
    ASSUME CalloutInv, os_callout_tick PROVE CalloutInv'
  <1>1. /\ isr = "callout_tick" /\ isr' = isr /\ now' = now /\ armed' = armed /\ g_callout_list # <<>>
        /\ g_callout_list' = Tail(g_callout_list)
        /\ c_ticks' = [c_ticks EXCEPT ![Head(g_callout_list)] = 0]
    BY DEF os_callout_tick, CalloutDue
  <1>2. /\ g_callout_list \in Seq(Callout) /\ c_ticks \in [Callout -> Time] /\ now \in Time
        /\ Clocked(g_callout_list, c_ticks, now) /\ Injective(g_callout_list)
        /\ EvqInv /\ EvqType /\ QueueExact
    BY NowIsTime DEF CalloutInv, ListTypes, OnTime, ArmedExactly, EvqInv
  <1>3. PICK l : l = Tail(g_callout_list)
    OBVIOUS
  <1>4. PICK c \in Callout : c = Head(g_callout_list) /\ c \in Range(g_callout_list)
    BY <1>1, <1>2, TailProps
  <1>5. l \in Seq(Callout) /\ Injective(l) /\ \A y : y \in Range(l) <=> y \in Range(g_callout_list) /\ y # c
    BY <1>1, <1>2, <1>3, <1>4, TailProps
  <1>6. c \in Event /\ ~ev_queued[c]
    BY <1>4, EvqFacts DEF CalloutInv, ArmedExactly
  <1>7. EvqInv'
    BY <1>2, <1>4, <1>6, EvqTick
  <1>8. Enqueue(c)
    BY <1>4, <1>6 DEF os_callout_tick
  <1>9. \A x \in Event : ev_queued'[x] = IF x = c THEN TRUE ELSE ev_queued[x]
    BY <1>2, <1>6, <1>8, EnqueueQueue
  <1>10. ListTypes'
    <2>1. 0 \in Time
      BY ZeroIsTime DEF Time
    <2> QED
      BY <1>1, <1>2, <1>3, <1>5, <2>1 DEF CalloutInv, ListTypes
  <1>11. ArmedExactly'
    <2>1. ASSUME NEW x \in Callout
          PROVE  /\ armed[x] <=> x \in Range(l) \/ ev_queued'[x]
                 /\ ~(x \in Range(l) /\ ev_queued'[x])
      <3>1. /\ armed[x] <=> x \in Range(g_callout_list) \/ ev_queued[x]
            /\ ~(x \in Range(g_callout_list) /\ ev_queued[x])
        BY DEF CalloutInv, ArmedExactly
      <3>2. CASE x = c
        BY <1>4, <1>5, <1>6, <1>9, <3>1, <3>2
      <3>3. CASE x # c
        <4>1. ev_queued'[x] = ev_queued[x]
          BY <1>9, <3>3, EvqFacts
        <4> QED
          BY <1>5, <3>1, <3>3, <4>1
      <3> QED
        BY <3>2, <3>3
    <2> QED
      BY <1>1, <1>3, <1>5, <2>1 DEF ArmedExactly
  <1>12. OnTime'
    <2>1. Clocked(l, c_ticks, now)
      BY <1>1, <1>2, <1>3, ClockedTail
    <2>2. \A x \in Range(l) : x \in Callout /\ x # c
      BY <1>5 DEF Range
    <2>3. \A x \in Range(l) : c_ticks'[x] = c_ticks[x]
      BY <1>1, <1>2, <1>4, <2>2
    <2>4. c_ticks' \in [Callout -> Time]
      BY <1>10 DEF ListTypes
    <2>5. Clocked(l, c_ticks', now)
      BY <1>2, <1>5, <2>1, <2>3, <2>4, ClockedByTimes
    <2> QED
      BY <1>1, <1>3, <2>5 DEF OnTime
  <1> QED
    BY <1>7, <1>10, <1>11, <1>12 DEF CalloutInv

\* os_callout_stop takes it off the list and its event off the queue.
LEMMA CalloutStop ==
    ASSUME CalloutInv, NEW t \in Task, NEW c \in Callout, os_callout_stop(t, c) PROVE CalloutInv'
  <1>1. /\ Dequeue(c) /\ UNCHANGED schedVars /\ g_callout_list' = Remove(g_callout_list, c)
        /\ armed' = [armed EXCEPT ![c] = FALSE] /\ c_ticks' = [c_ticks EXCEPT ![c] = 0]
    BY DEF os_callout_stop
  <1>2. /\ g_callout_list \in Seq(Callout) /\ c_ticks \in [Callout -> Time] /\ now \in Time
        /\ Clocked(g_callout_list, c_ticks, now) /\ Injective(g_callout_list)
        /\ EvqInv /\ EvqType /\ QueueExact /\ c \in Event /\ armed \in [Callout -> BOOLEAN]
    BY NowIsTime, EvqFacts DEF CalloutInv, ListTypes, OnTime, ArmedExactly, EvqInv
  <1>3. PICK l : l = Remove(g_callout_list, c)
    OBVIOUS
  <1>4. l \in Seq(Callout) /\ Injective(l) /\ \A y : y \in Range(l) <=> y \in Range(g_callout_list) /\ y # c
    BY <1>2, <1>3, RemoveAny
  <1>5. EvqInv' /\ now' = now /\ isr' = isr
    BY <1>1, <1>2, EvqDequeue
  <1>6. \A x \in Event : ev_queued'[x] = IF x = c THEN FALSE ELSE ev_queued[x]
    BY <1>1, <1>2, DequeueQueue
  <1>7. armed' \in [Callout -> BOOLEAN] /\ \A x \in Callout : armed'[x] = IF x = c THEN FALSE ELSE armed[x]
    BY Zenon, <1>1, <1>2
  <1>8. ListTypes'
    <2>1. 0 \in Time
      BY ZeroIsTime DEF Time
    <2> QED
      BY <1>1, <1>2, <1>3, <1>4, <1>7, <2>1 DEF ListTypes
  <1>9. ArmedExactly'
    <2>1. ASSUME NEW x \in Callout
          PROVE  /\ armed'[x] <=> x \in Range(l) \/ ev_queued'[x]
                 /\ ~(x \in Range(l) /\ ev_queued'[x])
      <3>1. /\ armed[x] <=> x \in Range(g_callout_list) \/ ev_queued[x]
            /\ ~(x \in Range(g_callout_list) /\ ev_queued[x])
        BY DEF CalloutInv, ArmedExactly
      <3>2. CASE x = c
        BY <1>2, <1>4, <1>6, <1>7, <3>2
      <3>3. CASE x # c
        <4>1. ev_queued'[x] = ev_queued[x] /\ armed'[x] = armed[x]
          BY <1>6, <1>7, <3>3, EvqFacts
        <4> QED
          BY <1>4, <3>1, <3>3, <4>1
      <3> QED
        BY <3>2, <3>3
    <2> QED
      BY <1>1, <1>3, <1>4, <2>1 DEF ArmedExactly
  <1>10. OnTime'
    <2>1. Clocked(l, c_ticks, now)
      BY <1>2, <1>3, ClockedRemove
    <2>2. \A x \in Range(l) : x \in Callout /\ x # c /\ x \in Range(g_callout_list)
      BY <1>4 DEF Range
    <2>3. \A x \in Range(l) : c_ticks'[x] = c_ticks[x]
      BY <1>1, <1>2, <2>2
    <2>4. c_ticks' \in [Callout -> Time]
      BY <1>8 DEF ListTypes
    <2>5. Clocked(l, c_ticks', now)
      BY <1>2, <1>4, <2>1, <2>3, <2>4, ClockedByTimes
    <2>6. isr # "callout_tick" => \A x \in Range(l) : Diff(c_ticks'[x], now) > 0
      BY <2>2, <2>3 DEF CalloutInv, OnTime
    <2> QED
      BY <1>1, <1>3, <1>5, <2>5, <2>6 DEF OnTime
  <1> QED
    BY <1>5, <1>8, <1>9, <1>10 DEF CalloutInv

\* os_callout_reset puts it on the list again, at its place.
LEMMA CalloutReset ==
    ASSUME CalloutInv, NEW t \in Task, NEW c \in Callout, os_callout_reset(t, c) PROVE CalloutInv'
  <1>1. /\ Dequeue(c) /\ UNCHANGED schedVars /\ armed' = [armed EXCEPT ![c] = TRUE] /\ isr = "none"
    BY DEF os_callout_reset, InApp, Running
  <1>2. /\ g_callout_list \in Seq(Callout) /\ c_ticks \in [Callout -> Time] /\ now \in Time
        /\ Clocked(g_callout_list, c_ticks, now) /\ Injective(g_callout_list)
        /\ EvqInv /\ EvqType /\ QueueExact /\ c \in Event /\ armed \in [Callout -> BOOLEAN]
        /\ \A x \in Range(g_callout_list) : Diff(c_ticks[x], now) > 0
    BY <1>1, NowIsTime, EvqFacts DEF CalloutInv, ListTypes, OnTime, ArmedExactly, EvqInv
  <1>3. PICK l : l = Remove(g_callout_list, c)
    OBVIOUS
  <1>4. /\ l \in Seq(Callout) /\ Injective(l) /\ c \notin Range(l)
        /\ \A y : y \in Range(l) <=> y \in Range(g_callout_list) /\ y # c
    BY <1>2, <1>3, RemoveAny
  <1>5. PICK n \in Resets :
            /\ c_ticks' = [c_ticks EXCEPT ![c] = (now + (IF n = 0 THEN 1 ELSE n)) % TimeMod]
            /\ g_callout_list' = InsertBefore(l, {i \in DOMAIN l : OS_TIME_TICK_LT(
                                      (now + (IF n = 0 THEN 1 ELSE n)) % TimeMod, c_ticks[l[i]])}, c)
    BY <1>3 DEF os_callout_reset
  <1>6. PICK m : m = IF n = 0 THEN 1 ELSE n
    OBVIOUS
  <1>7. PICK at : at = (now + m) % TimeMod
    OBVIOUS
  <1>8. at \in Time /\ Diff(at, now) < Half /\ Diff(at, now) > 0
    <2>1. n \in 0 .. Half - 1
      BY CalloutAssumption DEF Half
    <2>2. m \in 0 .. TimeMod - 1 /\ m < Half /\ m > 0
      BY <1>6, <2>1, HalfFacts
    <2> QED
      BY <1>2, <1>7, <2>2, AheadBy
  <1>9. PICK w : w = [c_ticks EXCEPT ![c] = at]
    OBVIOUS
  <1>10. /\ w \in [Callout -> Time] /\ w[c] = at
         /\ \A x \in Range(l) : x \in Callout /\ w[x] = c_ticks[x]
    <2>1. \A x \in Range(l) : x \in Callout /\ x # c
      BY <1>4 DEF Range
    <2> QED
      BY <1>2, <1>8, <1>9, <2>1
  <1>11. PICK I : I = {i \in DOMAIN l : OS_TIME_TICK_LT(at, c_ticks[l[i]])}
    OBVIOUS
  <1>12. I = {i \in DOMAIN l : OS_TIME_TICK_LT(w[c], w[l[i]])}
    <2>1. \A i \in DOMAIN l : w[l[i]] = c_ticks[l[i]]
      BY <1>10 DEF Range
    <2> QED
      BY <1>10, <1>11, <2>1
  <1>13. c_ticks' = w /\ g_callout_list' = InsertBefore(l, I, c)
    BY <1>5, <1>6, <1>7, <1>9, <1>11
  <1>14. PICK r : r = InsertBefore(l, I, c)
    OBVIOUS
  <1>15. I \in SUBSET DOMAIN l
    BY <1>11
  <1>16. r \in Seq(Callout) /\ Injective(r) /\ \A y : y \in Range(r) <=> y \in Range(l) \/ y = c
    BY <1>4, <1>14, <1>15, InsertBeforeProps
  <1>17. EvqInv' /\ now' = now /\ isr' = isr
    BY <1>1, <1>2, EvqDequeue
  <1>18. \A x \in Event : ev_queued'[x] = IF x = c THEN FALSE ELSE ev_queued[x]
    BY <1>1, <1>2, DequeueQueue
  <1>19. armed' \in [Callout -> BOOLEAN] /\ \A x \in Callout : armed'[x] = IF x = c THEN TRUE ELSE armed[x]
    BY Zenon, <1>1, <1>2
  <1>20. ListTypes'
    BY <1>10, <1>13, <1>14, <1>16, <1>19 DEF ListTypes
  <1>21. ArmedExactly'
    <2>1. ASSUME NEW x \in Callout
          PROVE  /\ armed'[x] <=> x \in Range(r) \/ ev_queued'[x]
                 /\ ~(x \in Range(r) /\ ev_queued'[x])
      <3>1. /\ armed[x] <=> x \in Range(g_callout_list) \/ ev_queued[x]
            /\ ~(x \in Range(g_callout_list) /\ ev_queued[x])
        BY DEF CalloutInv, ArmedExactly
      <3>2. CASE x = c
        BY <1>2, <1>16, <1>18, <1>19, <3>2
      <3>3. CASE x # c
        <4>1. ev_queued'[x] = ev_queued[x] /\ armed'[x] = armed[x]
          BY <1>18, <1>19, <3>3, EvqFacts
        <4> QED
          BY <1>4, <1>16, <3>1, <3>3, <4>1
      <3> QED
        BY <3>2, <3>3
    <2> QED
      BY <1>13, <1>14, <1>16, <2>1 DEF ArmedExactly
  <1>22. OnTime'
    <2>1. Clocked(l, c_ticks, now)
      BY <1>2, <1>3, ClockedRemove
    <2>2. Clocked(l, w, now)
      BY <1>2, <1>4, <1>10, <2>1, ClockedByTimes
    <2>3. Diff(w[c], now) < Half
      BY <1>8, <1>10
    <2>4. Clocked(InsertBefore(l, I, c), w, now)
      BY <1>2, <1>4, <1>10, <1>12, <2>2, <2>3, ClockedInsert
    <2>5. \A x \in Range(r) : Diff(w[x], now) > 0
      BY <1>2, <1>4, <1>8, <1>10, <1>16
    <2> QED
      BY <1>13, <1>14, <1>17, <2>4, <2>5 DEF OnTime
  <1> QED
    BY <1>17, <1>20, <1>21, <1>22 DEF CalloutInv

-----------------------------------------------------------------------------
LEMMA CalloutInvNext == CalloutInv /\ [Next]_vars => CalloutInv'
  <1> SUFFICES ASSUME CalloutInv, [Next]_vars PROVE CalloutInv'
    OBVIOUS
  <1>1. CASE SchedStepOnly
    <2>1. EvqInv' /\ now' = now /\ isr # "callout_tick"
      BY <1>1, EvqSchedStep DEF CalloutInv
    <2> QED
      BY <1>1, <2>1, CalloutQuiet DEF SchedStepOnly, evqVars
  <1>2. CASE EvqStep
    BY <1>2, CalloutEvq
  <1>3. CASE CalloutStep
    BY <1>3, CalloutStop, CalloutReset, CalloutTickStart, CalloutTick, CalloutTickEnd DEF CalloutStep
  <1>4. CASE UNCHANGED vars
    <2>1. UNCHANGED schedVars /\ UNCHANGED evqVars
      BY <1>4 DEF vars, schedVars, evqVars
    <2>2. KernelInv'
      BY <2>1, KernelStutter DEF CalloutInv, EvqInv
    <2>3. \A q \in Evq : Asleep(q)' <=> Asleep(q)
      BY <2>1 DEF Asleep, schedVars
    <2>4. WakeInv'
      BY <2>1, <2>3 DEF CalloutInv, EvqInv, WakeInv, schedVars, evqVars
    <2>5. CallTypes' /\ EvqType' /\ QueueExact'
      BY <2>1 DEF CalloutInv, EvqInv, CallTypes, EvqType, QueueExact, schedVars, evqVars
    <2>6. EvqInv'
      BY <2>2, <2>4, <2>5 DEF EvqInv
    <2> QED
      BY <1>4, <2>6, CalloutQuiet DEF vars
  <1> QED
    BY <1>1, <1>2, <1>3, <1>4 DEF Next

LEMMA CalloutInvHolds == Spec => []CalloutInv
  BY CalloutInvInit, CalloutInvNext, PTL DEF Spec

\* The scheduler's lists stay consistent under event queues and callouts.
THEOREM EvqListsStayConsistent == Spec => []SchedConsistent
  <1>1. CalloutInv => SchedConsistent
    BY DEF CalloutInv, EvqInv, KernelInv, Good, SchedConsistent
  <1> QED
    BY <1>1, CalloutInvHolds, PTL

\* No wake-up is lost: whenever the task of a queue sleeps in os_eventq_get, its
\* queue is empty and the next os_eventq_put will wake it.
THEOREM NoWakeupIsLost == Spec => []NoLostWakeup
  <1>1. CalloutInv => NoLostWakeup
    BY DEF CalloutInv, EvqInv, WakeInv, Asleep, NoLostWakeup
  <1> QED
    BY <1>1, CalloutInvHolds, PTL

\* No callout that os_callout_reset armed is lost, and none that os_callout_stop
\* stopped is delivered, wherever the tick falls.
THEOREM CalloutsAreArmedExactly == Spec => []ArmedExactly
  <1>1. CalloutInv => ArmedExactly
    BY DEF CalloutInv
  <1> QED
    BY <1>1, CalloutInvHolds, PTL

\* The list of callouts is in the order of their times across the wrap of the clock,
\* and each is put in its queue at the very tick it was set for.
THEOREM CalloutsExpireOnTime == Spec => []CalloutOnTime
  <1>1. ASSUME CalloutInv PROVE CalloutOnTime
    <2>1. /\ g_callout_list \in Seq(Callout) /\ c_ticks \in [Callout -> Time] /\ now \in Time
          /\ Clocked(g_callout_list, c_ticks, now)
      BY <1>1, NowIsTime DEF CalloutInv, ListTypes, OnTime
    <2>2. \A i \in DOMAIN g_callout_list : g_callout_list[i] \in Callout /\ g_callout_list[i] \in Range(g_callout_list)
      BY <2>1 DEF Range
    <2>3. ASSUME NEW i \in DOMAIN g_callout_list, NEW j \in DOMAIN g_callout_list, i < j
          PROVE  Diff(c_ticks[g_callout_list[i]], now) <= Diff(c_ticks[g_callout_list[j]], now)
      <3>1. Left(c_ticks, now)[g_callout_list[i]] <= Left(c_ticks, now)[g_callout_list[j]]
        BY <2>1, <2>3 DEF Clocked, Ordered
      <3> QED
        BY <2>1, <2>2, <3>1 DEF Left
    <2>4. CalloutDue => now = c_ticks[Head(g_callout_list)]
      BY <2>1, ClockedHead DEF CalloutDue
    <2>5. isr # "callout_tick" => \A i \in DOMAIN g_callout_list : Diff(c_ticks[g_callout_list[i]], now) > 0
      BY <1>1, <2>2 DEF CalloutInv, OnTime
    <2> QED
      BY <2>3, <2>4, <2>5 DEF CalloutOnTime
  <1> QED
    BY <1>1, CalloutInvHolds, PTL
=============================================================================
