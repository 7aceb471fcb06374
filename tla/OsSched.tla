------------------------------- MODULE OsSched -------------------------------
(***************************************************************************)
(* The scheduler of libs/os on a Cortex-M: the run list and the sleep list *)
(* (os_sched.c), the tick and delays (os_time.c, timer_handler), and the   *)
(* context switch through the PendSV exception (HAL_CM4.s).                *)
(*                                                                         *)
(* The processor has one core.  A task's code between two critical         *)
(* sections may be interrupted; a critical section may not.  So a step is  *)
(* a critical section, or a stretch of code whose effect no interrupt can  *)
(* observe half done.  The tick interrupt preempts task code and also      *)
(* PendSV_Handler, which has the lowest priority and masks nothing.        *)
(*                                                                         *)
(* The lists and the tasks' fields are one record, sched, because the      *)
(* operations of os_sched.c are called one after the other inside larger   *)
(* critical sections (mutexes, semaphores, event queues): here they are    *)
(* operators from a record to a record.                                    *)
(***************************************************************************)
EXTENDS Lists

CONSTANTS
    Task,           \* the tasks, the idle task included
    Idle,           \* the idle task
    Prio,           \* the priority each task was created with; lower is more urgent
    Obj,            \* what a task can wait for: mutexes and semaphores
    NULL,           \* the null pointer
    InitRun,        \* the run list when the OS starts
    TimeMod,        \* os_time_t counts modulo this (2^32 in the code)
    Delays          \* the arguments os_time_delay is called with

NEVER == TimeMod - 1        \* OS_TIMEOUT_NEVER

ASSUME SchedAssumption ==
    /\ Idle \in Task /\ NULL \notin Task \cup Obj
    /\ Prio \in [Task -> Nat] /\ \A t \in Task \ {Idle} : Prio[t] < Prio[Idle]
    /\ InitRun \in Seq(Task)
    /\ \A t \in Task : \E i \in DOMAIN InitRun : InitRun[i] = t
    /\ \A i, j \in DOMAIN InitRun : i < j =>
          InitRun[i] # InitRun[j] /\ Prio[InitRun[i]] <= Prio[InitRun[j]]
    /\ TimeMod \in Nat /\ TimeMod > 3
    /\ Delays \subseteq 1 .. TimeMod \div 2 - 1

VARIABLES
    sched,          \* the lists and the tasks
    cur,            \* g_current_task
    now,            \* g_os_time
    isr,            \* the tick interrupt: "none", or where it is
    crit,           \* a task is in a critical section of several steps
    pendsv,         \* the PendSV exception is pending
    psv,            \* the task PendSV_Handler has read from the run list, or NULL
    pc,             \* what each task does next
    next_t,         \* the argument of the os_sched a task is in
    ret             \* where a task goes on after os_sched

schedVars == <<sched, cur, now, isr, crit, pendsv, psv, pc, next_t, ret>>

-----------------------------------------------------------------------------
(* Time, modulo TimeMod: the difference of two times is a signed number.   *)

\* Bugs: times compared as plain numbers.
OS_TIME_TICK_LT_plain(a, b) == a < b
OS_TIME_TICK_GEQ_plain(a, b) == a >= b

Diff(a, b) == (a - b) % TimeMod
OS_TIME_TICK_LT(a, b) == Diff(a, b) >= TimeMod \div 2
OS_TIME_TICK_GT(a, b) == Diff(a, b) > 0 /\ Diff(a, b) < TimeMod \div 2
OS_TIME_TICK_GEQ(a, b) == Diff(a, b) < TimeMod \div 2

-----------------------------------------------------------------------------
(* os_sched.c.                                                             *)

\* The positions of a list of tasks that a task of urgency p goes before.
LessUrgent(K, s, p) == {i \in DOMAIN s : p < K.t_prio[s[i]]}

os_sched_insert(K, t) ==
    IF K.t_state[t] # "READY" THEN K
    ELSE [K EXCEPT !.run = InsertBefore(@, LessUrgent(K, K.run, K.t_prio[t]), t)]

\* Called with interrupts disabled, on a task of the run list.  (The wake-up time
\* of a task that waits for ever is never read, and not kept here.)
os_sched_sleep(K, t, nticks) ==
    LET wakeup == (now + nticks) % TimeMod
        later == {i \in DOMAIN K.sleep :
                    \/ K.no_timeout[K.sleep[i]]
                    \/ OS_TIME_TICK_GT(K.t_next_wakeup[K.sleep[i]], wakeup)}
    IN  [K EXCEPT !.run = Remove(@, t),
                  !.t_state[t] = "SLEEP",
                  !.t_next_wakeup[t] = IF nticks = NEVER THEN @ ELSE wakeup,
                  !.no_timeout[t] = @ \/ nticks = NEVER,
                  !.sleep = InsertBefore(@, IF nticks = NEVER THEN {} ELSE later, t)]

\* Bugs: the task is left on the sleep list; on the list of its object.
os_sched_wakeup_sleeping(K, t) ==
    os_sched_insert([K EXCEPT !.t_state[t] = "READY", !.no_timeout[t] = FALSE], t)
os_sched_wakeup_waiting(K, t) ==
    os_sched_insert([K EXCEPT !.t_state[t] = "READY", !.no_timeout[t] = FALSE, !.t_obj[t] = NULL,
                              !.sleep = Remove(@, t)], t)

\* Off the list of the object it waits for, off the sleep list, on the run list.
os_sched_wakeup(K, t) ==
    os_sched_insert(
        [K EXCEPT !.obj_head = [o \in Obj |-> IF o = K.t_obj[t] THEN Remove(@[o], t) ELSE @[o]],
                  !.t_obj[t] = NULL,
                  !.t_state[t] = "READY",
                  !.t_next_wakeup[t] = 0,
                  !.no_timeout[t] = FALSE,
                  !.sleep = Remove(@, t)], t)

os_sched_resort(K, t) ==
    IF K.t_state[t] = "READY" THEN os_sched_insert([K EXCEPT !.run = Remove(@, t)], t) ELSE K

os_sched_next_task(K) == Head(K.run)

\* A change of priority: by the mutexes' priority inheritance, and back.
SetPrio(K, t, p) ==
    IF K.t_prio[t] = p THEN K ELSE os_sched_resort([K EXCEPT !.t_prio[t] = p], t)

\* The task waits for object o: the list is in the order of priority.
WaitFor(K, t, o) ==
    [K EXCEPT !.obj_head[o] = InsertBefore(@, LessUrgent(K, K.obj_head[o], K.t_prio[t]), t),
              !.t_obj[t] = o]

-----------------------------------------------------------------------------
SchedInit ==
    /\ sched = [run |-> InitRun, sleep |-> <<>>,
                t_state |-> [t \in Task |-> "READY"], t_prio |-> Prio,
                t_next_wakeup |-> [t \in Task |-> 0], no_timeout |-> [t \in Task |-> FALSE],
                t_obj |-> [t \in Task |-> NULL], obj_head |-> [o \in Obj |-> <<>>]]
    /\ cur = Head(InitRun)
    /\ now = 0
    /\ isr = "none" /\ crit = FALSE /\ pendsv = FALSE /\ psv = NULL
    /\ pc = [t \in Task |-> "app"]
    /\ next_t = [t \in Task |-> NULL]
    /\ ret = [t \in Task |-> "app"]

\* The code of task t executes: no exception is pending or active.
Running(t) == t = cur /\ isr = "none" /\ ~pendsv /\ psv = NULL

\* Task t executes its own code, where it can call anything.  The idle task only
\* counts.
InApp(t) == Running(t) /\ pc[t] = "app" /\ t # Idle

\* Task t leaves its critical section and calls os_sched(n, 0); afterwards it
\* goes on at r.
CallSched(t, n, r) ==
    /\ pc' = [pc EXCEPT ![t] = "os_sched"]
    /\ next_t' = [next_t EXCEPT ![t] = n]
    /\ ret' = [ret EXCEPT ![t] = r]

\* The critical section of os_sched.
os_sched(t) ==
    LET n == IF next_t[t] = NULL THEN os_sched_next_task(sched) ELSE next_t[t]
    IN
    /\ Running(t) /\ pc[t] = "os_sched"
    /\ pc' = [pc EXCEPT ![t] = IF n # cur THEN "os_arch_ctx_sw" ELSE ret[t]]
    /\ next_t' = [next_t EXCEPT ![t] = IF n # cur THEN n ELSE NULL]
    /\ UNCHANGED <<sched, cur, now, isr, pendsv, psv, ret, crit>>

\* Bug: the exception is not set pending.
os_arch_ctx_sw_unset(t) ==
    /\ Running(t) /\ pc[t] = "os_arch_ctx_sw"
    /\ pc' = [pc EXCEPT ![t] = ret[t]]
    /\ next_t' = [next_t EXCEPT ![t] = NULL]
    /\ UNCHANGED <<sched, cur, now, isr, pendsv, psv, ret, crit>>

\* Sets the PendSV exception pending; it is taken at once.
os_arch_ctx_sw(t) ==
    /\ Running(t) /\ pc[t] = "os_arch_ctx_sw"
    /\ pendsv' = TRUE
    /\ pc' = [pc EXCEPT ![t] = ret[t]]
    /\ next_t' = [next_t EXCEPT ![t] = NULL]
    /\ UNCHANGED <<sched, cur, now, isr, psv, ret, crit>>

\* PendSV_Handler reads the head of the run list and compares it with
\* g_current_task.
PendSV_read ==
    /\ pendsv /\ isr = "none" /\ psv = NULL
    /\ pendsv' = FALSE
    /\ psv' = IF Head(sched.run) = cur THEN NULL ELSE Head(sched.run)
    /\ UNCHANGED <<sched, cur, now, isr, pc, next_t, ret, crit>>

\* It stores what it has read and loads that task's context.
PendSV_switch ==
    /\ psv # NULL /\ isr = "none"
    /\ cur' = psv /\ psv' = NULL
    /\ UNCHANGED <<sched, now, isr, pendsv, pc, next_t, ret, crit>>

\* The tick: os_time_tick.  The handler goes on with phase p; without callouts
\* os_callout_tick does nothing, and os_sched_os_timer_exp comes next.
os_time_tick(p) ==
    /\ isr = "none" /\ ~crit
    /\ now' = (now + 1) % TimeMod
    /\ isr' = p
    /\ UNCHANGED <<sched, cur, pendsv, psv, pc, next_t, ret, crit>>

SysTick == os_time_tick("timer_exp")

Expired(K) ==
    /\ K.sleep # <<>> /\ ~K.no_timeout[Head(K.sleep)]
    /\ OS_TIME_TICK_GEQ(now, K.t_next_wakeup[Head(K.sleep)])

\* One turn of its loop.
os_sched_os_timer_exp ==
    /\ isr = "timer_exp" /\ Expired(sched)
    /\ sched' = os_sched_wakeup(sched, Head(sched.sleep))
    /\ UNCHANGED <<cur, now, isr, pendsv, psv, pc, next_t, ret, crit>>

\* Bug: timer_handler without os_sched(NULL, 1).
timer_handler_end_unscheduled ==
    /\ isr = "timer_exp" /\ ~Expired(sched)
    /\ isr' = "none"
    /\ UNCHANGED <<sched, cur, now, pendsv, psv, pc, next_t, ret, crit>>

\* The end of the loop and os_sched(NULL, 1), the end of timer_handler.
timer_handler_end ==
    /\ isr = "timer_exp" /\ ~Expired(sched)
    /\ isr' = "none"
    /\ pendsv' = (pendsv \/ os_sched_next_task(sched) # cur)
    /\ UNCHANGED <<sched, cur, now, psv, pc, next_t, ret, crit>>

os_time_delay(t) ==
    /\ InApp(t)
    /\ \E n \in Delays : sched' = os_sched_sleep(sched, t, n)
    /\ CallSched(t, NULL, "app")
    /\ UNCHANGED <<cur, now, isr, pendsv, psv, crit>>

\* The scheduler's steps, and with the tick.
SchedStep ==
    \/ \E t \in Task : os_sched(t) \/ os_arch_ctx_sw(t) \/ os_time_delay(t)
    \/ PendSV_read \/ PendSV_switch
    \/ os_sched_os_timer_exp \/ timer_handler_end

SchedNext == SchedStep \/ SysTick

\* The tick keeps coming and handlers run to their end.  There is time between
\* two ticks, so that an exception or a task that has the processor again and
\* again between ticks goes on: strong fairness.
SchedFairness ==
    /\ WF_schedVars(SysTick \/ os_sched_os_timer_exp \/ timer_handler_end)
    /\ SF_schedVars(PendSV_read \/ PendSV_switch)

SchedSteps(t) == os_sched(t) \/ os_arch_ctx_sw(t)

-----------------------------------------------------------------------------
(* Properties.                                                             *)

SchedType(K) ==
    K \in [run : Seq(Task), sleep : Seq(Task),
           t_state : [Task -> {"READY", "SLEEP"}], t_prio : [Task -> Nat],
           t_next_wakeup : [Task -> 0 .. TimeMod - 1], no_timeout : [Task -> BOOLEAN],
           t_obj : [Task -> Obj \cup {NULL}], obj_head : [Obj -> Seq(Task)]]

\* The run list holds the READY tasks, each once;
RunExact(K) ==
    Injective(K.run) /\ \A t \in Task : t \in Range(K.run) <=> K.t_state[t] = "READY"

\* the sleep list the others, each once;
SleepExact(K) ==
    Injective(K.sleep) /\ \A t \in Task : t \in Range(K.sleep) <=> K.t_state[t] = "SLEEP"

\* the list of an object the tasks that wait for it, each once.
WaitExact(K) ==
    \A o \in Obj : /\ Injective(K.obj_head[o])
                   /\ \A t \in Task : t \in Range(K.obj_head[o]) <=> K.t_obj[t] = o

\* Only tasks that sleep wait for an object.  The assertions of os_sched_wakeup and
\* the unchecked list removals of os_sched.c rely on the four.
ListsConsistent(K) ==
    /\ RunExact(K) /\ SleepExact(K) /\ WaitExact(K)
    /\ \A t \in Task : K.t_obj[t] # NULL => K.t_state[t] = "SLEEP"

\* The run list is in the order of priority, so that its head is a task that
\* should run.
RunListSorted == Ordered(sched.run, sched.t_prio)

\* A task that executes anything but the call of os_sched that follows its going
\* to sleep is READY: PendSV_Handler never leaves a sleeping task running.
RunningIsReady ==
    \A t \in Task : Running(t) /\ pc[t] \notin {"os_sched", "os_arch_ctx_sw"} =>
                        sched.t_state[t] = "READY"

\* The tick wakes a task at the very tick it asked for: "put the current task to
\* sleep for the specified number of os ticks", a pend "Timeout, in os ticks".
WokenOnTime ==
    isr = "timer_exp" /\ Expired(sched) => now = sched.t_next_wakeup[Head(sched.sleep)]

\* Whenever another task heads the run list, at some later moment the processor
\* has the head of the run list: nothing keeps it for good.
HeadGetsProcessor == cur # Head(sched.run) ~> cur = Head(sched.run)
=============================================================================
