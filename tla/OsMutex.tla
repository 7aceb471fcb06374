------------------------------- MODULE OsMutex -------------------------------
(***************************************************************************)
(* Mutexes, os_mutex.c: recursive, with priority inheritance and time-outs.*)
(* A mutex that is released with tasks waiting for it is handed to the     *)
(* first of them.                                                          *)
(*                                                                         *)
(* os_mutex_release decrements mu_level before it enters its critical      *)
(* section.  ReleaseGap says whether an interrupt may fall between the two;*)
(* with ReleaseGap = FALSE it never does.                                  *)
(***************************************************************************)
EXTENDS OsSched

CONSTANTS
    Users,          \* the tasks that use mutexes
    Timeouts,       \* the time-outs os_mutex_pend is called with
    MaxLevel,       \* how deep tasks nest a mutex
    Nested,         \* may a task hold one mutex and pend on another?
    Deletes,        \* are mutexes deleted and initialised again?
    ReleaseGap

Mutex == Obj

ASSUME MutexAssumption ==
    /\ Users \subseteq Task \ {Idle}
    /\ Timeouts \subseteq 0 .. NEVER
    /\ MaxLevel \in Nat \ {0}
    /\ Nested \in BOOLEAN /\ Deletes \in BOOLEAN /\ ReleaseGap \in BOOLEAN

VARIABLES
    mu_owner, mu_level, mu_prio,    \* the fields of each mutex
    live,           \* the mutex is initialised and not deleted
    on,             \* the mutex of the call a task is in
    held            \* history: how often a task has been granted a mutex it has not released

muVars == <<mu_owner, mu_level, mu_prio, live, on, held>>
vars == <<sched, cur, now, isr, crit, pendsv, psv, pc, next_t, ret,
          mu_owner, mu_level, mu_prio, live, on, held>>

Init ==
    /\ SchedInit
    /\ mu_owner = [m \in Mutex |-> NULL]
    /\ mu_level = [m \in Mutex |-> 0]
    /\ mu_prio = [m \in Mutex |-> 0]
    /\ live = [m \in Mutex |-> TRUE]
    /\ on = [t \in Task |-> NULL]
    /\ held = [t \in Task |-> [m \in Mutex |-> 0]]

\* The kernel's own steps.
KernelStep == SchedNext /\ UNCHANGED muVars

\* The caller uses the mutex as its documentation allows.
MayPend(t, m) == live[m] /\ (Nested \/ \A n \in Mutex \ {m} : held[t][n] = 0)

\* os_mutex_init on a mutex nobody uses.
os_mutex_init(t, m) ==
    /\ InApp(t) /\ Deletes /\ ~live[m] /\ \A u \in Task : on[u] # m
    /\ mu_owner' = [mu_owner EXCEPT ![m] = NULL]
    /\ mu_level' = [mu_level EXCEPT ![m] = 0]
    /\ mu_prio' = [mu_prio EXCEPT ![m] = 0]
    /\ live' = [live EXCEPT ![m] = TRUE]
    /\ UNCHANGED <<schedVars, on, held>>

\* os_mutex_pend: the mutex is free.
os_mutex_pend_free(t, m) ==
    /\ InApp(t) /\ MayPend(t, m)
    /\ mu_level[m] = 0
    /\ mu_owner' = [mu_owner EXCEPT ![m] = t]
    /\ mu_prio' = [mu_prio EXCEPT ![m] = sched.t_prio[t]]
    /\ mu_level' = [mu_level EXCEPT ![m] = 1]
    /\ held' = [held EXCEPT ![t][m] = @ + 1]
    /\ UNCHANGED <<schedVars, live, on>>

\* os_mutex_pend: the caller owns it.
os_mutex_pend_own(t, m) ==
    /\ InApp(t) /\ MayPend(t, m)
    /\ mu_level[m] \in 1 .. MaxLevel - 1 /\ mu_owner[m] = t
    /\ mu_level' = [mu_level EXCEPT ![m] = @ + 1]
    /\ held' = [held EXCEPT ![t][m] = @ + 1]
    /\ UNCHANGED <<schedVars, mu_owner, mu_prio, live, on>>

\* Bug: no priority inheritance.
Inherit_none(K, o, t) == K

\* The owner o inherits the priority of t, if that is more urgent.
Inherit(K, o, t) == IF K.t_prio[o] > K.t_prio[t] THEN SetPrio(K, o, K.t_prio[t]) ELSE K

\* os_mutex_pend: another task owns it.  The owner inherits the caller's
\* priority, the caller is put among the waiters and goes to sleep.  (With a
\* time-out of 0 it returns OS_TIMEOUT and changes nothing.)
os_mutex_pend_wait(t, m) ==
    /\ InApp(t) /\ MayPend(t, m)
    /\ mu_level[m] # 0 /\ mu_owner[m] # t /\ mu_owner[m] # NULL
    /\ \E timeout \in Timeouts \ {0} :
         sched' = os_sched_sleep(WaitFor(Inherit(sched, mu_owner[m], t), t, m), t, timeout)
    /\ CallSched(t, NULL, "os_mutex_pend")
    /\ on' = [on EXCEPT ![t] = m]
    /\ UNCHANGED <<cur, now, isr, crit, pendsv, psv, mu_owner, mu_level, mu_prio, live, held>>

\* Bug: OS_OK after a time-out too.
os_mutex_pend_return_ok(t) ==
    /\ Running(t) /\ pc[t] = "os_mutex_pend"
    /\ pc' = [pc EXCEPT ![t] = "app"]
    /\ held' = [held EXCEPT ![t][on[t]] = 1]
    /\ on' = [on EXCEPT ![t] = NULL]
    /\ UNCHANGED <<sched, cur, now, isr, crit, pendsv, psv, next_t, ret, mu_owner, mu_level, mu_prio, live>>

\* os_mutex_pend returns: OS_OK when the caller is the owner by now, else
\* OS_TIMEOUT.
os_mutex_pend_return(t) ==
    /\ Running(t) /\ pc[t] = "os_mutex_pend"
    /\ pc' = [pc EXCEPT ![t] = "app"]
    /\ held' = IF mu_owner[on[t]] = t /\ live[on[t]] THEN [held EXCEPT ![t][on[t]] = 1] ELSE held
    /\ on' = [on EXCEPT ![t] = NULL]
    /\ UNCHANGED <<sched, cur, now, isr, crit, pendsv, psv, next_t, ret, mu_owner, mu_level, mu_prio, live>>

\* os_mutex_release up to its critical section.  (A caller that is not the owner
\* gets OS_BAD_MUTEX and changes nothing.)
os_mutex_release(t, m) ==
    /\ InApp(t) /\ live[m]
    /\ mu_level[m] # 0 /\ mu_owner[m] = t
    /\ mu_level' = [mu_level EXCEPT ![m] = @ - 1]
    /\ held' = [held EXCEPT ![t][m] = @ - 1]
    /\ IF mu_level[m] = 1
       THEN /\ pc' = [pc EXCEPT ![t] = "os_mutex_release"]
            /\ on' = [on EXCEPT ![t] = m]
            /\ crit' = ~ReleaseGap
       ELSE UNCHANGED <<pc, on, crit>>
    /\ UNCHANGED <<sched, cur, now, isr, pendsv, psv, next_t, ret, mu_owner, mu_prio, live>>

\* os_sched(rdy, 0) if the head of the run list K is not the caller.
Resched(t, K) ==
    IF os_sched_next_task(K) # t
    THEN CallSched(t, os_sched_next_task(K), "app")
    ELSE pc' = [pc EXCEPT ![t] = "app"] /\ UNCHANGED <<next_t, ret>>

\* Bug: the priority is kept.
Restored_not(t, m) == sched

\* Task t gets back the priority it had when it was granted m.
Restored(t, m) == SetPrio(sched, t, mu_prio[m])

FirstWaiter(m) == IF sched.obj_head[m] = <<>> THEN NULL ELSE Head(sched.obj_head[m])

\* The critical section of os_mutex_release: the caller gets its priority back
\* and the first waiter, if there is one, the mutex.
os_mutex_release_crit(t) ==
    LET m == on[t]
        rdy == FirstWaiter(m)
        after == IF rdy = NULL THEN Restored(t, m) ELSE os_sched_wakeup(Restored(t, m), rdy)
    IN
    /\ Running(t) /\ pc[t] = "os_mutex_release"
    /\ sched' = after
    /\ mu_owner' = [mu_owner EXCEPT ![m] = rdy]
    /\ mu_level' = IF rdy = NULL THEN mu_level ELSE [mu_level EXCEPT ![m] = 1]
    /\ mu_prio' = IF rdy = NULL THEN mu_prio ELSE [mu_prio EXCEPT ![m] = after.t_prio[rdy]]
    /\ Resched(t, after)
    /\ crit' = FALSE
    /\ on' = [on EXCEPT ![t] = NULL]
    /\ UNCHANGED <<cur, now, isr, pendsv, psv, live, held>>

\* os_mutex_delete, the start of its critical section: the owner gets its
\* priority back.
os_mutex_delete(t, m) ==
    /\ InApp(t) /\ Deletes /\ live[m]
    /\ sched' = IF mu_level[m] # 0 /\ mu_owner[m] # NULL
                THEN Restored(mu_owner[m], m) ELSE sched
    /\ live' = [live EXCEPT ![m] = FALSE]
    /\ held' = [u \in Task |-> [held[u] EXCEPT ![m] = 0]]
    /\ pc' = [pc EXCEPT ![t] = "os_mutex_delete"]
    /\ on' = [on EXCEPT ![t] = m]
    /\ crit' = TRUE
    /\ UNCHANGED <<cur, now, isr, pendsv, psv, next_t, ret, mu_owner, mu_level, mu_prio>>

\* One turn of its loop over the waiters.
os_mutex_delete_wake(t) ==
    /\ Running(t) /\ pc[t] = "os_mutex_delete" /\ sched.obj_head[on[t]] # <<>>
    /\ sched' = os_sched_wakeup(sched, Head(sched.obj_head[on[t]]))
    /\ UNCHANGED <<cur, now, isr, crit, pendsv, psv, pc, next_t, ret, muVars>>

\* The end of its critical section.
os_mutex_delete_end(t) ==
    /\ Running(t) /\ pc[t] = "os_mutex_delete" /\ sched.obj_head[on[t]] = <<>>
    /\ Resched(t, sched)
    /\ crit' = FALSE
    /\ on' = [on EXCEPT ![t] = NULL]
    /\ UNCHANGED <<sched, cur, now, isr, pendsv, psv, mu_owner, mu_level, mu_prio, live, held>>

MutexStep ==
    \E t \in Users :
        \/ \E m \in Mutex :
              \/ os_mutex_init(t, m) \/ os_mutex_pend_free(t, m) \/ os_mutex_pend_own(t, m)
              \/ os_mutex_pend_wait(t, m) \/ os_mutex_release(t, m) \/ os_mutex_delete(t, m)
        \/ os_mutex_pend_return(t) \/ os_mutex_release_crit(t)
        \/ os_mutex_delete_wake(t) \/ os_mutex_delete_end(t)

Next == KernelStep \/ MutexStep
Spec == Init /\ [][Next]_vars

\* A task that has the processor again and again goes on in os_mutex_pend and
\* os_mutex_release, and does not keep a mutex for ever.
FairSpec ==
    /\ Spec /\ SchedFairness
    /\ \A t \in Task \ {Idle} :
          SF_schedVars(\/ SchedSteps(t) \/ os_mutex_pend_return(t) \/ os_mutex_release_crit(t)
                       \/ os_mutex_delete_wake(t) \/ os_mutex_delete_end(t))
    /\ \A t \in Users, m \in Mutex : SF_vars(os_mutex_release(t, m))

-----------------------------------------------------------------------------
(* Properties.                                                             *)

TypeOK ==
    /\ SchedType(sched)
    /\ cur \in Task /\ now \in 0 .. TimeMod - 1
    /\ isr \in {"none", "timer_exp"} /\ crit \in BOOLEAN /\ pendsv \in BOOLEAN
    /\ psv \in Task \cup {NULL}
    /\ pc \in [Task -> {"app", "os_sched", "os_arch_ctx_sw", "os_mutex_pend",
                        "os_mutex_release", "os_mutex_delete"}]
    /\ next_t \in [Task -> Task \cup {NULL}] /\ ret \in [Task -> {"app", "os_mutex_pend"}]
    /\ mu_owner \in [Mutex -> Task \cup {NULL}]
    /\ mu_level \in [Mutex -> 0 .. MaxLevel] /\ mu_prio \in [Mutex -> Nat]
    /\ live \in [Mutex -> BOOLEAN] /\ on \in [Task -> Mutex \cup {NULL}]
    /\ held \in [Task -> [Mutex -> 0 .. MaxLevel]]

\* The lists are consistent whatever the tasks do with the mutexes.
SchedConsistent == ListsConsistent(sched)

\* A task to which os_mutex_pend has granted a mutex n times more often than it
\* has released it is the owner, at level n, so that its os_mutex_release does
\* not return OS_BAD_MUTEX; and no two tasks have been granted the same mutex.
MutualExclusion ==
    \A t \in Task, m \in Mutex : held[t][m] # 0 =>
        mu_owner[m] = t /\ mu_level[m] = held[t][m]

\* Priority inheritance: the owner is at least as urgent as each task that waits
\* for the mutex, whoever times out, is handed the mutex or is woken meanwhile.
Inheritance ==
    \A m \in Mutex : live[m] /\ mu_level[m] # 0 =>
        \A i \in DOMAIN sched.obj_head[m] :
            sched.t_prio[mu_owner[m]] <= sched.t_prio[sched.obj_head[m][i]]

\* A task that owns no mutex has the priority it was created with.
PriorityRestored ==
    \A t \in Task : sched.t_prio[t] # Prio[t] =>
        \E m \in Mutex : mu_owner[m] = t /\ (mu_level[m] # 0 \/ on[t] = m)

\* No unbounded priority inversion: a task no other is more urgent than, once it
\* waits for a mutex without time-out, gets it, though less urgent tasks that
\* want no mutex never give up the processor by themselves.
UrgentTaskServed ==
    \A t \in Users, m \in Mutex : (\A u \in Task \ {t} : Prio[t] < Prio[u]) =>
        (sched.t_obj[t] = m /\ sched.no_timeout[t] ~> held[t][m] # 0)
=============================================================================
