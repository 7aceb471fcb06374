-------------------------------- MODULE OsSem --------------------------------
(***************************************************************************)
(* Counting semaphores, os_sem.c, with time-outs and deletion.  A release  *)
(* with tasks waiting hands its token to the first of them: the token      *)
(* counter stays 0 and the flag OS_TASK_FLAG_SEM_WAIT, cleared, tells the  *)
(* task that it did not time out.                                          *)
(***************************************************************************)
EXTENDS OsSched, FiniteSets

CONSTANTS
    Timeouts,       \* the time-outs os_sem_pend is called with
    InitTokens,     \* the tokens os_sem_init is called with
    MaxTokens,      \* a bound on sem_tokens (2^16 - 1 in the code)
    Deletes         \* are semaphores deleted and initialised again?

Sem == Obj

ASSUME SemAssumption ==
    /\ Timeouts \subseteq 0 .. NEVER
    /\ MaxTokens \in Nat /\ InitTokens \in 0 .. MaxTokens
    /\ Deletes \in BOOLEAN

VARIABLES
    sem_tokens,     \* the tokens of each semaphore
    sem_wait,       \* OS_TASK_FLAG_SEM_WAIT of each task
    live,           \* the semaphore is initialised and not deleted
    on,             \* the semaphore of the call a task is in
    resched,        \* os_sem_delete's local variable
    credit          \* history: tokens put in and not yet returned by os_sem_pend

semVars == <<sem_tokens, sem_wait, live, on, resched, credit>>
vars == <<sched, cur, now, isr, crit, pendsv, psv, pc, next_t, ret,
          sem_tokens, sem_wait, live, on, resched, credit>>

Init ==
    /\ SchedInit
    /\ sem_tokens = [s \in Sem |-> InitTokens]
    /\ sem_wait = [t \in Task |-> FALSE]
    /\ live = [s \in Sem |-> TRUE]
    /\ on = [t \in Task |-> NULL]
    /\ resched = FALSE
    /\ credit = [s \in Sem |-> InitTokens]

\* The kernel's own steps.
KernelStep == SchedNext /\ UNCHANGED semVars

\* os_sem_init on a semaphore nobody uses.
os_sem_init(t, s) ==
    /\ InApp(t) /\ Deletes /\ ~live[s] /\ \A u \in Task : on[u] # s
    /\ sem_tokens' = [sem_tokens EXCEPT ![s] = InitTokens]
    /\ live' = [live EXCEPT ![s] = TRUE]
    /\ credit' = [credit EXCEPT ![s] = InitTokens]
    /\ UNCHANGED <<schedVars, sem_wait, on, resched>>

\* Bug: the counter goes up though tasks wait.
os_sem_release_token_waiting(t, s) ==
    /\ InApp(t) /\ live[s]
    /\ sem_tokens[s] < MaxTokens
    /\ sem_tokens' = [sem_tokens EXCEPT ![s] = @ + 1]
    /\ credit' = [credit EXCEPT ![s] = @ + 1]
    /\ UNCHANGED <<schedVars, sem_wait, live, on, resched>>

\* os_sem_release: nobody waits.
os_sem_release_token(t, s) ==
    /\ InApp(t) /\ live[s]
    /\ sched.obj_head[s] = <<>>
    /\ sem_tokens[s] < MaxTokens
    /\ sem_tokens' = [sem_tokens EXCEPT ![s] = @ + 1]
    /\ credit' = [credit EXCEPT ![s] = @ + 1]
    /\ UNCHANGED <<schedVars, sem_wait, live, on, resched>>

\* os_sem_release: the first waiter is woken, and scheduled if it is more urgent
\* than the caller.
os_sem_release_wake(t, s) ==
    LET rdy == Head(sched.obj_head[s])
    IN
    /\ InApp(t) /\ live[s]
    /\ sched.obj_head[s] # <<>>
    /\ sem_wait' = [sem_wait EXCEPT ![rdy] = FALSE]
    /\ sched' = os_sched_wakeup(sched, rdy)
    /\ credit' = [credit EXCEPT ![s] = @ + 1]
    /\ IF sched.t_prio[t] > sched.t_prio[rdy] THEN CallSched(t, rdy, "app")
       ELSE UNCHANGED <<pc, next_t, ret>>
    /\ UNCHANGED <<cur, now, isr, crit, pendsv, psv, sem_tokens, live, on, resched>>

\* os_sem_pend: there is a token.
os_sem_pend_token(t, s) ==
    /\ InApp(t) /\ live[s]
    /\ sem_tokens[s] # 0
    /\ sem_tokens' = [sem_tokens EXCEPT ![s] = @ - 1]
    /\ credit' = [credit EXCEPT ![s] = @ - 1]
    /\ UNCHANGED <<schedVars, sem_wait, live, on, resched>>

\* os_sem_pend: there is none, and the caller goes to sleep among the waiters.
\* (With a time-out of 0 it returns OS_TIMEOUT and changes nothing.)
os_sem_pend_wait(t, s) ==
    /\ InApp(t) /\ live[s]
    /\ sem_tokens[s] = 0
    /\ \E timeout \in Timeouts \ {0} : sched' = os_sched_sleep(WaitFor(sched, t, s), t, timeout)
    /\ sem_wait' = [sem_wait EXCEPT ![t] = TRUE]
    /\ on' = [on EXCEPT ![t] = s]
    /\ CallSched(t, NULL, "os_sem_pend")
    /\ UNCHANGED <<cur, now, isr, crit, pendsv, psv, sem_tokens, live, resched, credit>>

\* Bug: OS_OK after a time-out too.
os_sem_pend_return_ok(t) ==
    /\ Running(t) /\ pc[t] = "os_sem_pend"
    /\ pc' = [pc EXCEPT ![t] = "app"]
    /\ sem_wait' = [sem_wait EXCEPT ![t] = FALSE]
    /\ credit' = [credit EXCEPT ![on[t]] = @ - 1]
    /\ on' = [on EXCEPT ![t] = NULL]
    /\ UNCHANGED <<sched, cur, now, isr, crit, pendsv, psv, next_t, ret, sem_tokens, live, resched>>

\* os_sem_pend returns: OS_TIMEOUT if the flag is still set, else OS_OK.
os_sem_pend_return(t) ==
    /\ Running(t) /\ pc[t] = "os_sem_pend"
    /\ pc' = [pc EXCEPT ![t] = "app"]
    /\ sem_wait' = [sem_wait EXCEPT ![t] = FALSE]
    /\ credit' = IF sem_wait[t] THEN credit ELSE [credit EXCEPT ![on[t]] = @ - 1]
    /\ on' = [on EXCEPT ![t] = NULL]
    /\ UNCHANGED <<sched, cur, now, isr, crit, pendsv, psv, next_t, ret, sem_tokens, live, resched>>

\* os_sem_delete, the start of its critical section.
os_sem_delete(t, s) ==
    /\ InApp(t) /\ Deletes /\ live[s]
    /\ credit' = [credit EXCEPT ![s] = @ - sem_tokens[s]]
    /\ sem_tokens' = [sem_tokens EXCEPT ![s] = 0]
    /\ resched' = (sched.obj_head[s] # <<>> /\ sched.t_prio[t] > sched.t_prio[Head(sched.obj_head[s])])
    /\ live' = [live EXCEPT ![s] = FALSE]
    /\ on' = [on EXCEPT ![t] = s]
    /\ pc' = [pc EXCEPT ![t] = "os_sem_delete"]
    /\ crit' = TRUE
    /\ UNCHANGED <<sched, cur, now, isr, pendsv, psv, next_t, ret, sem_wait>>

\* One turn of its loop over the waiters.
os_sem_delete_wake(t) ==
    /\ Running(t) /\ pc[t] = "os_sem_delete" /\ sched.obj_head[on[t]] # <<>>
    /\ sched' = os_sched_wakeup(sched, Head(sched.obj_head[on[t]]))
    /\ UNCHANGED <<cur, now, isr, crit, pendsv, psv, pc, next_t, ret, semVars>>

\* The end of its critical section; rdy is NULL by then.
os_sem_delete_end(t) ==
    /\ Running(t) /\ pc[t] = "os_sem_delete" /\ sched.obj_head[on[t]] = <<>>
    /\ IF resched THEN CallSched(t, NULL, "app")
       ELSE pc' = [pc EXCEPT ![t] = "app"] /\ UNCHANGED <<next_t, ret>>
    /\ crit' = FALSE
    /\ resched' = FALSE
    /\ on' = [on EXCEPT ![t] = NULL]
    /\ UNCHANGED <<sched, cur, now, isr, pendsv, psv, sem_tokens, sem_wait, live, credit>>

SemStep ==
    \E t \in Task :
        \/ \E s \in Sem :
              \/ os_sem_init(t, s) \/ os_sem_release_token(t, s) \/ os_sem_release_wake(t, s)
              \/ os_sem_pend_token(t, s) \/ os_sem_pend_wait(t, s) \/ os_sem_delete(t, s)
        \/ os_sem_pend_return(t) \/ os_sem_delete_wake(t) \/ os_sem_delete_end(t)

Next == KernelStep \/ SemStep
Spec == Init /\ [][Next]_vars

\* A task that has the processor again and again goes on in kernel code.
FairSpec ==
    /\ Spec /\ SchedFairness
    /\ \A t \in Task \ {Idle} :
          SF_schedVars(\/ SchedSteps(t) \/ os_sem_pend_return(t)
                       \/ os_sem_delete_wake(t) \/ os_sem_delete_end(t))

-----------------------------------------------------------------------------
(* Properties.                                                             *)

TypeOK ==
    /\ SchedType(sched)
    /\ cur \in Task /\ now \in 0 .. TimeMod - 1
    /\ isr \in {"none", "timer_exp"} /\ crit \in BOOLEAN /\ pendsv \in BOOLEAN
    /\ psv \in Task \cup {NULL}
    /\ pc \in [Task -> {"app", "os_sched", "os_arch_ctx_sw", "os_sem_pend", "os_sem_delete"}]
    /\ next_t \in [Task -> Task \cup {NULL}] /\ ret \in [Task -> {"app", "os_sem_pend"}]
    /\ sem_tokens \in [Sem -> 0 .. MaxTokens] /\ sem_wait \in [Task -> BOOLEAN]
    /\ live \in [Sem -> BOOLEAN] /\ on \in [Task -> Sem \cup {NULL}]
    /\ resched \in BOOLEAN /\ credit \in [Sem -> Int]

\* The lists are consistent whatever the tasks do with the semaphores.
SchedConsistent == ListsConsistent(sched)

\* No task waits for a semaphore that has tokens.
NoTokenWhileWaiting ==
    \A s \in Sem : sem_tokens[s] # 0 => sched.obj_head[s] = <<>>

\* The tasks that have been handed a token and not yet returned with it.
Granted(s) ==
    {t \in Task : on[t] = s /\ ~sem_wait[t] /\ pc[t] # "os_sem_delete"}

\* Each release lets exactly one os_sem_pend return OS_OK: the tokens put in and
\* not yet taken out are the counter's and those handed to woken tasks, however
\* releases race with time-outs.
TokensConserved ==
    \A s \in Sem : credit[s] = sem_tokens[s] + Cardinality(Granted(s))

\* The most urgent task comes back from every call with a time-out, whether or
\* not a release comes.
TimedPendReturns ==
    \A t \in Task \ {Idle} : (\A u \in Task \ {t} : Prio[t] < Prio[u]) =>
        (pc[t] # "app" /\ ~sched.no_timeout[t] ~> pc[t] = "app")
=============================================================================
