------------------------------ MODULE OsCallout ------------------------------
(***************************************************************************)
(* Callouts, os_callout.c, on top of the event queues: the tick puts the   *)
(* event of each callout whose time has come in its queue.                 *)
(***************************************************************************)
EXTENDS OsEventq

CONSTANTS
    Callout,        \* the events that are callouts' events
    Resets          \* the arguments os_callout_reset is called with, an int32_t >= 0

ASSUME CalloutAssumption ==
    /\ Callout \subseteq Event
    /\ Resets \subseteq 0 .. TimeMod \div 2 - 1

VARIABLES
    g_callout_list, \* the armed callouts
    c_ticks,        \* the time of each (0 off the list, where it is not read)
    armed           \* history: reset, and neither stopped nor delivered since

vars == <<sched, cur, now, isr, crit, pendsv, psv, pc, next_t, ret,
          evq_list, evq_task, ev_queued, g_callout_list, c_ticks, armed>>

Init ==
    /\ SchedInit /\ EvqInit
    /\ g_callout_list = <<>>
    /\ c_ticks = [c \in Callout |-> 0]
    /\ armed = [c \in Callout |-> FALSE]

\* The callouts whose event left its queue other than through os_callout_stop
\* have been delivered.
Delivered == armed' = [c \in Callout |-> armed[c] /\ ~(ev_queued[c] /\ ~ev_queued'[c])]

SchedStepOnly == SchedStep /\ UNCHANGED <<evqVars, g_callout_list, c_ticks, armed>>

EvqStep ==
    /\ \E t \in Task :
          \/ \E e \in Event \ Callout : os_eventq_put(t, e) \/ os_eventq_remove(t, e)
          \/ \E q \in Evq : os_eventq_get(t, q) \/ os_eventq_get_again(t, q)
    /\ Delivered
    /\ UNCHANGED <<g_callout_list, c_ticks>>

\* Bug: an event that is in the queue already stays there.
os_callout_stop_queued(t, c) ==
    /\ InApp(t)
    /\ g_callout_list' = Remove(g_callout_list, c)
    /\ armed' = [armed EXCEPT ![c] = FALSE]
    /\ UNCHANGED <<schedVars, evqVars, c_ticks>>

\* os_callout_stop takes the callout off the list and its event off the queue.
os_callout_stop(t, c) ==
    /\ InApp(t)
    /\ g_callout_list' = Remove(g_callout_list, c)
    /\ Dequeue(c)
    /\ armed' = [armed EXCEPT ![c] = FALSE]
    /\ c_ticks' = [c_ticks EXCEPT ![c] = 0]
    /\ UNCHANGED schedVars

\* os_callout_reset stops it and puts it on the list again, by time; 0 ticks
\* are 1.
os_callout_reset(t, c) ==
    /\ InApp(t)
    /\ \E n \in Resets :
         LET at == (now + (IF n = 0 THEN 1 ELSE n)) % TimeMod
             others == Remove(g_callout_list, c)
             later == {i \in DOMAIN others : OS_TIME_TICK_LT(at, c_ticks[others[i]])}
         IN  /\ c_ticks' = [c_ticks EXCEPT ![c] = at]
             /\ g_callout_list' = InsertBefore(others, later, c)
    /\ Dequeue(c)
    /\ armed' = [armed EXCEPT ![c] = TRUE]
    /\ UNCHANGED schedVars

CalloutDue == g_callout_list # <<>> /\ OS_TIME_TICK_GEQ(now, c_ticks[Head(g_callout_list)])

\* The tick, and one turn of the loop of os_callout_tick: the first callout goes
\* off the list and os_eventq_put2 puts its event in, with os_sched(NULL, 1) if it
\* has woken a task.
TickStart == os_time_tick("callout_tick") /\ UNCHANGED <<evqVars, g_callout_list, c_ticks, armed>>

os_callout_tick ==
    LET c == Head(g_callout_list)
    IN
    /\ isr = "callout_tick" /\ CalloutDue
    /\ g_callout_list' = Tail(g_callout_list)
    /\ c_ticks' = [c_ticks EXCEPT ![c] = 0]
    /\ IF ev_queued[c] THEN UNCHANGED <<sched, evqVars, pendsv>>
       ELSE /\ Enqueue(c)
            /\ pendsv' = (pendsv \/ (evq_task[EvqOf[c]] # NULL /\ os_sched_next_task(sched') # cur))
    /\ UNCHANGED <<cur, now, isr, crit, psv, pc, next_t, ret, armed>>

os_callout_tick_end ==
    /\ isr = "callout_tick" /\ ~CalloutDue
    /\ isr' = "timer_exp"
    /\ UNCHANGED <<sched, cur, now, crit, pendsv, psv, pc, next_t, ret,
                   evqVars, g_callout_list, c_ticks, armed>>

CalloutStep ==
    \/ \E t \in Task, c \in Callout : os_callout_stop(t, c) \/ os_callout_reset(t, c)
    \/ TickStart \/ os_callout_tick \/ os_callout_tick_end

Next == SchedStepOnly \/ EvqStep \/ CalloutStep
Spec == Init /\ [][Next]_vars

\* A task that has the processor again and again goes on in kernel code, and a
\* consumer calls os_eventq_get again after each event, as every one of the
\* repository's does.
FairSpec ==
    /\ Spec
    /\ WF_vars(\/ TickStart \/ os_callout_tick \/ os_callout_tick_end
               \/ /\ os_sched_os_timer_exp \/ timer_handler_end
                  /\ UNCHANGED <<evqVars, g_callout_list, c_ticks, armed>>)
    /\ SF_schedVars(PendSV_read \/ PendSV_switch)
    /\ \A t \in Task \ {Idle} : SF_schedVars(SchedSteps(t))
    /\ \A q \in Evq : SF_vars((os_eventq_get(Consumer[q], q) \/ os_eventq_get_again(Consumer[q], q))
                              /\ Delivered /\ UNCHANGED <<g_callout_list, c_ticks>>)

-----------------------------------------------------------------------------
(* Properties.                                                             *)

TypeOK ==
    /\ SchedType(sched) /\ EvqType
    /\ cur \in Task /\ now \in 0 .. TimeMod - 1
    /\ isr \in {"none", "callout_tick", "timer_exp"} /\ crit \in BOOLEAN /\ pendsv \in BOOLEAN
    /\ psv \in Task \cup {NULL}
    /\ pc \in [Task -> {"app", "os_sched", "os_arch_ctx_sw", "os_eventq_get"}]
    /\ next_t \in [Task -> Task \cup {NULL}] /\ ret \in [Task -> {"app", "os_eventq_get"}]
    /\ g_callout_list \in Seq(Callout) /\ c_ticks \in [Callout -> 0 .. TimeMod - 1]
    /\ armed \in [Callout -> BOOLEAN]

\* The lists are consistent whatever the tasks do with the event queues.
SchedConsistent == ListsConsistent(sched)

\* A callout that was reset is on the list, once, or has its event in the queue,
\* never both, until it is delivered or stopped; after os_callout_stop it is in
\* neither, so that no stopped callout is delivered and no armed one is lost.
ArmedExactly ==
    /\ Injective(g_callout_list)
    /\ \A c \in Callout :
          /\ armed[c] <=> c \in Range(g_callout_list) \/ ev_queued[c]
          /\ ~(c \in Range(g_callout_list) /\ ev_queued[c])

\* The list is in the order of the times left, across the wrap of the clock, and
\* a callout's event is put in at the very tick it was set for.
CalloutOnTime ==
    LET left(c) == Diff(c_ticks[c], now)
    IN  /\ \A i, j \in DOMAIN g_callout_list : i < j =>
              left(g_callout_list[i]) <= left(g_callout_list[j])
        /\ isr = "callout_tick" /\ CalloutDue => now = c_ticks[Head(g_callout_list)]
        /\ isr # "callout_tick" => \A i \in DOMAIN g_callout_list : left(g_callout_list[i]) > 0

\* The event of an expired callout, in the queue of the most urgent task, is
\* taken out of the queue (os_callout_tick, os_eventq_put, os_eventq_get).
EventDelivered ==
    \A e \in Callout : (\A u \in Task \ {Consumer[EvqOf[e]]} : Prio[Consumer[EvqOf[e]]] < Prio[u]) =>
        (ev_queued[e] ~> ~ev_queued[e])
=============================================================================
