------------------------------ MODULE OsEventq ------------------------------
(***************************************************************************)
(* Event queues, os_eventq.c.  Each queue has one task that takes events   *)
(* from it, as every queue of the repository has; any task, and the tick,  *)
(* puts them in.  An event belongs to one queue and is in it at most once. *)
(***************************************************************************)
EXTENDS OsSched

CONSTANTS
    Evq, Event,     \* the queues and the events
    EvqOf,          \* the queue each event is put in
    Consumer        \* the task that gets the events of each queue

ASSUME EvqAssumption ==
    /\ EvqOf \in [Event -> Evq]
    /\ Consumer \in [Evq -> Task \ {Idle}]
    /\ \A p, q \in Evq : Consumer[p] = Consumer[q] => p = q

VARIABLES
    evq_list,       \* the events of each queue
    evq_task,       \* the task that waits for each queue, or NULL
    ev_queued       \* the flag of each event

evqVars == <<evq_list, evq_task, ev_queued>>

EvqInit ==
    /\ evq_list = [q \in Evq |-> <<>>]
    /\ evq_task = [q \in Evq |-> NULL]
    /\ ev_queued = [e \in Event |-> FALSE]

\* Bug: the task that waits for the queue is not woken.
Enqueue_silent(e) ==
    /\ ev_queued' = [ev_queued EXCEPT ![e] = TRUE]
    /\ evq_list' = [evq_list EXCEPT ![EvqOf[e]] = Append(@, e)]
    /\ UNCHANGED <<sched, evq_task>>

\* The critical section of os_eventq_put2 on an event that is not queued.
Enqueue(e) ==
    LET q == EvqOf[e]
    IN
    /\ ev_queued' = [ev_queued EXCEPT ![e] = TRUE]
    /\ evq_list' = [evq_list EXCEPT ![q] = Append(@, e)]
    /\ evq_task' = [evq_task EXCEPT ![q] = NULL]
    /\ sched' = IF evq_task[q] = NULL THEN sched ELSE os_sched_wakeup(sched, evq_task[q])

\* os_eventq_put by a task.  (It does nothing to an event that is queued.)
os_eventq_put(t, e) ==
    /\ InApp(t) /\ ~ev_queued[e]
    /\ Enqueue(e)
    /\ IF evq_task[EvqOf[e]] # NULL THEN CallSched(t, NULL, "app")
       ELSE UNCHANGED <<pc, next_t, ret>>
    /\ UNCHANGED <<cur, now, isr, crit, pendsv, psv>>

\* os_eventq_get, a turn of its loop: the queue's first event is returned,
Pull(t, q) ==
    /\ evq_list[q] # <<>>
    /\ evq_list' = [evq_list EXCEPT ![q] = Tail(@)]
    /\ ev_queued' = [ev_queued EXCEPT ![Head(evq_list[q])] = FALSE]
    /\ pc' = [pc EXCEPT ![t] = "app"]
    /\ UNCHANGED <<sched, next_t, ret>>

\* or the caller goes to sleep.
Wait(t, q) ==
    /\ evq_list[q] = <<>>
    /\ sched' = os_sched_sleep(sched, t, NEVER)
    /\ CallSched(t, NULL, "os_eventq_get")
    /\ UNCHANGED <<evq_list, ev_queued>>

os_eventq_get(t, q) ==
    /\ InApp(t) /\ t = Consumer[q]
    /\ \/ Pull(t, q) /\ UNCHANGED evq_task
       \/ Wait(t, q) /\ evq_task' = [evq_task EXCEPT ![q] = t]
    /\ UNCHANGED <<cur, now, isr, crit, pendsv, psv>>

\* It is awake again.
os_eventq_get_again(t, q) ==
    /\ Running(t) /\ pc[t] = "os_eventq_get" /\ t = Consumer[q]
    /\ \/ Pull(t, q) /\ evq_task' = [evq_task EXCEPT ![q] = NULL]
       \/ Wait(t, q) /\ evq_task' = [evq_task EXCEPT ![q] = t]
    /\ UNCHANGED <<cur, now, isr, crit, pendsv, psv>>

\* The critical section of os_eventq_remove.
Dequeue(e) ==
    /\ evq_list' = IF ev_queued[e] THEN [evq_list EXCEPT ![EvqOf[e]] = Remove(@, e)] ELSE evq_list
    /\ ev_queued' = [ev_queued EXCEPT ![e] = FALSE]
    /\ UNCHANGED evq_task

os_eventq_remove(t, e) ==
    /\ InApp(t)
    /\ Dequeue(e)
    /\ UNCHANGED schedVars

-----------------------------------------------------------------------------
(* Properties.                                                             *)

EvqType ==
    /\ evq_list \in [Evq -> Seq(Event)]
    /\ evq_task \in [Evq -> Task \cup {NULL}]
    /\ ev_queued \in [Event -> BOOLEAN]

\* No wake-up is lost: while the queue's task sleeps in os_eventq_get the queue is
\* empty and evq_task names the task, so that the next put wakes it; and evq_task
\* names nobody else.
NoLostWakeup ==
    \A q \in Evq :
        LET asleep == sched.t_state[Consumer[q]] = "SLEEP" /\ ret[Consumer[q]] = "os_eventq_get"
                      /\ pc[Consumer[q]] # "app"
        IN  /\ asleep => evq_list[q] = <<>> /\ evq_task[q] = Consumer[q]
            /\ evq_task[q] # NULL => evq_task[q] = Consumer[q] /\ asleep
=============================================================================
