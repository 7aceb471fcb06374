----------------------------- MODULE OsSemProofs -----------------------------
(***************************************************************************)
(* Semaphores, for any tasks, semaphores, time-outs and numbers of tokens: *)
(* no task waits for a token that is there, and none is lost or doubled.   *)
(***************************************************************************)
EXTENDS OsSem, OsSchedProofs, FiniteSetTheorems

\* Where a task can be in os_sem.c, and what it then has: `on` is set exactly in a
\* call; a task on the list of a semaphore has its flag set and is in os_sem_pend.
CallsMatch ==
    \A t \in Task :
        /\ pc[t] = "app" => on[t] = NULL
        /\ pc[t] \in {"os_sem_pend", "os_sem_delete"} => on[t] # NULL
        /\ pc[t] \in {"os_sched", "os_arch_ctx_sw"} => (on[t] = NULL <=> ret[t] = "app")
        /\ sched.t_obj[t] # NULL =>
               on[t] = sched.t_obj[t] /\ sem_wait[t] = TRUE /\ pc[t] # "os_sem_delete"

\* The inductive invariant, without the two properties it is for.
SemInv == TypeOK /\ KernelInv /\ CallsMatch

LEMMA TaskFinite == IsFiniteSet(Task)
  <1>1. /\ InitRun \in Seq(Task)
        /\ \A t \in Task : \E i \in DOMAIN InitRun : InitRun[i] = t
    BY SchedAssumption
  <1>2. Len(InitRun) \in Nat /\ DOMAIN InitRun = 1 .. Len(InitRun)
    BY <1>1
  <1>3. IsFiniteSet(1 .. Len(InitRun))
    BY <1>2, FS_Interval
  <1>4. InitRun \in Surjection(1 .. Len(InitRun), Task)
    BY <1>1, <1>2 DEF Surjection
  <1> QED
    BY <1>3, <1>4, FS_Surjection

LEMMA SemTypes ==
    ASSUME SemInv
    PROVE  /\ KernelInv /\ CallsMatch /\ NULL \notin Sem /\ MaxTokens \in Nat
           /\ pc \in [Task -> {"app", "os_sched", "os_arch_ctx_sw", "os_sem_pend", "os_sem_delete"}]
           /\ next_t \in [Task -> Task \cup {NULL}] /\ ret \in [Task -> {"app", "os_sem_pend"}]
           /\ sem_tokens \in [Sem -> 0 .. MaxTokens] /\ sem_wait \in [Task -> BOOLEAN]
           /\ on \in [Task -> Sem \cup {NULL}] /\ credit \in [Sem -> Int]
  BY NullIsNothing, SemAssumption DEF SemInv, TypeOK, Sem

-----------------------------------------------------------------------------
(* The lists of os_sched.c are kept.                                       *)

LEMMA ReleaseWakeKernel ==
    ASSUME SemInv, NEW t \in Task, NEW s \in Sem, os_sem_release_wake(t, s),
           NEW r, r = Head(sched.obj_head[s])
    PROVE  /\ KernelInv' /\ r \in Task /\ r # t /\ sched.t_obj[r] = s
           /\ \A u \in Task : sched'.t_obj[u] = IF u = r THEN NULL ELSE sched.t_obj[u]
           /\ \A o \in Sem : sched.obj_head[o] = <<>> => sched'.obj_head[o] = <<>>
  <1>0. /\ KernelInv /\ s \in Obj /\ Running(t) /\ pc[t] = "app" /\ sched.obj_head[s] # <<>>
        /\ sched' = os_sched_wakeup(sched, r)
        /\ CallSched(t, r, "app") \/ UNCHANGED <<pc, next_t, ret>>
        /\ UNCHANGED <<cur, now, psv>>
    BY DEF SemInv, os_sem_release_wake, InApp, Sem
  <1>1. r \in Task /\ sched.t_obj[r] = s /\ sched.t_state[r] = "SLEEP"
    BY <1>0, FirstWaits
  <1>2. sched.t_state[t] = "READY" /\ Good(sched)
    BY <1>0, RunningFree DEF KernelInv
  <1>3. /\ Good(sched') /\ sched'.t_state[Idle] = "READY"
        /\ \A u \in Task : sched'.t_state[u] = IF u = r THEN "READY" ELSE sched.t_state[u]
        /\ \A u \in Task : sched'.t_obj[u] = IF u = r THEN NULL ELSE sched.t_obj[u]
        /\ \A x \in Obj : sched.obj_head[x] = <<>> => sched'.obj_head[x] = <<>>
    BY <1>0, <1>2, WakeFirst
  <1>4. r # t /\ sched'.t_state[t] = "READY"
    BY <1>1, <1>2, <1>3
  <1>5. KernelInv'
    BY <1>0, <1>3, <1>4, TaskCallInv
  <1> QED
    BY <1>1, <1>3, <1>4, <1>5 DEF Sem

LEMMA PendWaitKernel ==
    ASSUME SemInv, NEW t \in Task, NEW s \in Sem, os_sem_pend_wait(t, s)
    PROVE  /\ KernelInv'
           /\ \A u \in Task : sched'.t_obj[u] = IF u = t THEN s ELSE sched.t_obj[u]
           /\ \A o \in Sem \ {s} : sched'.obj_head[o] = sched.obj_head[o]
  <1>0. /\ KernelInv /\ s \in Obj /\ Running(t) /\ pc[t] = "app" /\ t # Idle
        /\ CallSched(t, NULL, "os_sem_pend")
        /\ UNCHANGED <<cur, now, psv>>
    BY DEF SemInv, os_sem_pend_wait, InApp, Sem
  <1>1. sched.t_state[t] = "READY" /\ Good(sched) /\ now \in 0 .. TimeMod - 1
    BY <1>0, RunningFree DEF KernelInv
  <1>2. PICK n \in Timeouts \ {0} : sched' = os_sched_sleep(WaitFor(sched, t, s), t, n)
    BY DEF os_sem_pend_wait
  <1>3. n \in 0 .. NEVER
    BY SemAssumption
  <1>4. /\ Good(sched')
        /\ \A u \in Task : sched'.t_state[u] = IF u = t THEN "SLEEP" ELSE sched.t_state[u]
        /\ \A u \in Task : sched'.t_obj[u] = IF u = t THEN s ELSE sched.t_obj[u]
        /\ \A o \in Obj \ {s} : sched'.obj_head[o] = sched.obj_head[o]
    BY <1>0, <1>1, <1>2, <1>3, WaitAndSleepGood
  <1>5. sched'.t_state[Idle] = "READY"
    BY <1>0, <1>4, SchedAssumption DEF KernelInv
  <1>6. /\ DOMAIN pc' = Task /\ DOMAIN next_t' = Task /\ pc'[t] = "os_sched"
        /\ \A u \in Task : next_t'[u] # u
    BY <1>0, NullIsNothing, CallSchedKeeps
  <1>7. KernelInv'
    BY <1>0, <1>4, <1>5, <1>6, TaskStepInv
  <1> QED
    BY <1>4, <1>7 DEF Sem

LEMMA DeleteWakeKernel ==
    ASSUME SemInv, NEW t \in Task, os_sem_delete_wake(t)
    PROVE  /\ KernelInv'
           /\ \A u \in Task : sched'.t_obj[u] \in {sched.t_obj[u], NULL}
           /\ \A o \in Sem : sched.obj_head[o] = <<>> => sched'.obj_head[o] = <<>>
  <1> DEFINE s == on[t]
             r == Head(sched.obj_head[s])
  <1>0. /\ Running(t) /\ pc[t] = "os_sem_delete" /\ sched.obj_head[s] # <<>>
        /\ sched' = os_sched_wakeup(sched, r)
        /\ UNCHANGED <<cur, now, psv, pc, next_t>>
    BY DEF os_sem_delete_wake
  <1>1. s \in Obj /\ KernelInv
    BY <1>0, SemTypes DEF CallsMatch, Sem
  <1> HIDE DEF s, r
  <1>2. sched.t_state[t] = "READY" /\ Good(sched)
    BY <1>0, <1>1, RunningFree DEF KernelInv
  <1>3. /\ Good(sched') /\ sched'.t_state[Idle] = "READY"
        /\ \A u \in Task : sched'.t_state[u] = IF u = r THEN "READY" ELSE sched.t_state[u]
        /\ \A u \in Task : sched'.t_obj[u] = IF u = r THEN NULL ELSE sched.t_obj[u]
        /\ \A x \in Obj : sched.obj_head[x] = <<>> => sched'.obj_head[x] = <<>>
    BY <1>0, <1>1, <1>2, WakeFirst DEF r
  <1>4. DOMAIN pc' = Task /\ DOMAIN next_t' = Task /\ \A u \in Task : next_t'[u] # u
    BY <1>0, <1>1 DEF KernelInv
  <1>5. KernelInv'
    BY <1>0, <1>1, <1>2, <1>3, <1>4, TaskStepInv
  <1> QED
    BY <1>3, <1>5 DEF Sem

-----------------------------------------------------------------------------
(* SemInv is inductive.                                                    *)

LEMMA SemInvInit == Init => SemInv
  <1> SUFFICES ASSUME Init PROVE SemInv
    OBVIOUS
  <1>1. KernelInv
    BY KernelInit DEF Init
  <1>2. InitTokens \in 0 .. MaxTokens /\ MaxTokens \in Nat
    BY SemAssumption
  <1>3. TypeOK
    <2>1. SchedType(sched) /\ cur \in Task /\ now \in 0 .. TimeMod - 1
      BY <1>1 DEF KernelInv, Good
    <2>2. /\ sem_tokens \in [Sem -> 0 .. MaxTokens] /\ credit \in [Sem -> Int]
          /\ sem_wait \in [Task -> BOOLEAN] /\ live \in [Sem -> BOOLEAN]
          /\ on \in [Task -> Sem \cup {NULL}] /\ resched \in BOOLEAN
      <3>1. sem_tokens \in [Sem -> 0 .. MaxTokens] /\ credit \in [Sem -> Int]
        BY <1>2 DEF Init
      <3>2. /\ sem_wait \in [Task -> BOOLEAN] /\ live \in [Sem -> BOOLEAN]
            /\ on \in [Task -> Sem \cup {NULL}] /\ resched \in BOOLEAN
        BY DEF Init
      <3> QED
        BY <3>1, <3>2
    <2>3. /\ isr = "none" /\ crit = FALSE /\ pendsv = FALSE /\ psv = NULL
          /\ pc \in [Task -> {"app"}] /\ next_t \in [Task -> {NULL}] /\ ret \in [Task -> {"app"}]
      BY DEF Init, SchedInit
    <2> QED
      BY <2>1, <2>2, <2>3 DEF TypeOK
  <1>4. CallsMatch
    BY DEF Init, SchedInit, CallsMatch
  <1> QED
    BY <1>1, <1>3, <1>4 DEF SemInv

LEMMA KernelStepInv ==
    ASSUME SemInv, KernelStep
    PROVE  /\ SemInv'
           /\ \A u \in Task : pc'[u] = "os_sem_delete" <=> pc[u] = "os_sem_delete"
  <1> DEFINE P == {"app", "os_sched", "os_arch_ctx_sw", "os_sem_pend", "os_sem_delete"}
             Q == {"app", "os_sem_pend"}
  <1>0. KernelInv /\ SchedNext /\ UNCHANGED semVars
    BY DEF SemInv, KernelStep
  <1>1. KernelInv'
    BY <1>0, SchedNextInv DEF SemInv, TypeOK
  <1>2. SchedType(sched') /\ cur' \in Task /\ now' \in 0 .. TimeMod - 1 /\ psv' \in Task \cup {NULL}
    BY <1>1 DEF KernelInv, Good
  <1>3. \A u \in Task : sched'.t_obj[u] \in {sched.t_obj[u], NULL}
    BY <1>0, SchedNextObjs
  <1>4. isr \in {"none", "timer_exp"} /\ crit \in BOOLEAN /\ pendsv \in BOOLEAN
    BY DEF SemInv, TypeOK
  <1>5. /\ pc' \in [Task -> P] /\ ret' \in [Task -> Q] /\ next_t' \in [Task -> Task \cup {NULL}]
        /\ isr' \in {"none", "timer_exp"} /\ pendsv' \in BOOLEAN /\ crit' = crit
        /\ \A u \in Task :
              \/ pc'[u] = pc[u] /\ ret'[u] = ret[u]
              \/ pc[u] = "app" /\ pc'[u] = "os_sched" /\ ret'[u] = "app"
              \/ /\ pc[u] \in {"os_sched", "os_arch_ctx_sw"} /\ ret'[u] = ret[u]
                 /\ pc'[u] \in {"os_arch_ctx_sw", ret[u]}
    <2>1. {"app", "os_sched", "os_arch_ctx_sw"} \subseteq P /\ Q \subseteq P /\ "app" \in Q
      OBVIOUS
    <2> HIDE DEF P, Q
    <2>2. pc \in [Task -> P] /\ ret \in [Task -> Q] /\ next_t \in [Task -> Task \cup {NULL}]
      BY SemTypes DEF P, Q
    <2> QED
      BY <1>0, <1>4, <2>1, <2>2, SchedNextCalls
  <1>6. ret \in [Task -> Q] /\ CallsMatch
    BY SemTypes
  <1>7. TypeOK'
    BY <1>0, <1>2, <1>4, <1>5 DEF SemInv, TypeOK, semVars
  <1>8. CallsMatch'
    BY <1>0, <1>3, <1>5, <1>6 DEF CallsMatch, semVars
  <1> QED
    BY <1>1, <1>5, <1>6, <1>7, <1>8 DEF SemInv

LEMMA SemStepInv ==
    ASSUME SemInv, SemStep PROVE SemInv'
  <1> USE DEF Sem
  <1> DEFINE P == {"app", "os_sched", "os_arch_ctx_sw", "os_sem_pend", "os_sem_delete"}
  <1>0. NULL \notin Obj /\ MaxTokens \in Nat /\ InitTokens \in 0 .. MaxTokens
        /\ KernelInv /\ CallsMatch
    BY NullIsNothing, SemAssumption DEF SemInv
  <1>1. ASSUME NEW t \in Task, NEW s \in Sem, os_sem_init(t, s) PROVE SemInv'
    <2>1. KernelInv'
      BY <1>0, <1>1, KernelStutter DEF os_sem_init
    <2>2. TypeOK'
      BY <1>0, <1>1 DEF SemInv, TypeOK, os_sem_init, schedVars
    <2>3. CallsMatch'
      BY <1>0, <1>1 DEF CallsMatch, os_sem_init, schedVars
    <2> QED
      BY <2>1, <2>2, <2>3 DEF SemInv
  <1>2. ASSUME NEW t \in Task, NEW s \in Sem, os_sem_release_token(t, s) PROVE SemInv'
    <2>1. KernelInv'
      BY <1>0, <1>2, KernelStutter DEF os_sem_release_token
    <2>2. TypeOK'
      BY <1>0, <1>2 DEF SemInv, TypeOK, os_sem_release_token, schedVars
    <2>3. CallsMatch'
      BY <1>0, <1>2 DEF CallsMatch, os_sem_release_token, schedVars
    <2> QED
      BY <2>1, <2>2, <2>3 DEF SemInv
  <1>3. ASSUME NEW t \in Task, NEW s \in Sem, os_sem_pend_token(t, s) PROVE SemInv'
    <2>1. KernelInv'
      BY <1>0, <1>3, KernelStutter DEF os_sem_pend_token
    <2>2. TypeOK'
      BY <1>0, <1>3 DEF SemInv, TypeOK, os_sem_pend_token, schedVars
    <2>3. CallsMatch'
      BY <1>0, <1>3 DEF CallsMatch, os_sem_pend_token, schedVars
    <2> QED
      BY <2>1, <2>2, <2>3 DEF SemInv
  <1>4. ASSUME NEW t \in Task, NEW s \in Sem, os_sem_release_wake(t, s) PROVE SemInv'
    <2> DEFINE r == Head(sched.obj_head[s])
    <2>1. /\ KernelInv' /\ r \in Task /\ r # t
          /\ \A u \in Task : sched'.t_obj[u] = IF u = r THEN NULL ELSE sched.t_obj[u]
      BY <1>4, ReleaseWakeKernel
    <2>2. /\ sem_wait' = [sem_wait EXCEPT ![r] = FALSE]
          /\ credit' = [credit EXCEPT ![s] = @ + 1]
          /\ \/ CallSched(t, r, "app") \/ UNCHANGED <<pc, next_t, ret>>
          /\ pc[t] = "app"
          /\ UNCHANGED <<cur, now, isr, crit, pendsv, psv, sem_tokens, live, on, resched>>
      BY <1>4 DEF os_sem_release_wake, InApp
    <2>3. SchedType(sched')
      BY <2>1 DEF KernelInv, Good
    <2> HIDE DEF r
    <2>4. /\ pc' \in [Task -> P] /\ ret' \in [Task -> {"app", "os_sem_pend"}]
          /\ next_t' \in [Task -> Task \cup {NULL}]
          /\ \A u \in Task : u # t => pc'[u] = pc[u] /\ ret'[u] = ret[u]
          /\ pc'[t] # "app" => pc'[t] = "os_sched" /\ ret'[t] = "app"
      BY <2>1, <2>2, SemTypes DEF CallSched
    <2>5. TypeOK'
      <3>0. sem_wait \in [Task -> BOOLEAN] /\ credit \in [Sem -> Int]
        BY SemTypes
      <3>1. sem_wait' \in [Task -> BOOLEAN]
        BY Zenon, <2>2, <3>0
      <3>2. credit' \in [Sem -> Int]
        BY <2>2, <3>0
      <3> QED
        BY <2>2, <2>3, <2>4, <3>1, <3>2 DEF SemInv, TypeOK
    <2>6. CallsMatch'
      BY <1>0, <2>1, <2>2, <2>4, SemTypes DEF CallsMatch
    <2> QED
      BY <2>1, <2>5, <2>6 DEF SemInv
  <1>5. ASSUME NEW t \in Task, NEW s \in Sem, os_sem_pend_wait(t, s) PROVE SemInv'
    <2>1. /\ KernelInv'
          /\ \A u \in Task : sched'.t_obj[u] = IF u = t THEN s ELSE sched.t_obj[u]
      BY <1>5, PendWaitKernel
    <2>2. SchedType(sched')
      BY <2>1 DEF KernelInv, Good
    <2>3. TypeOK'
      BY <1>5, <2>2 DEF SemInv, TypeOK, os_sem_pend_wait, CallSched
    <2>4. CallsMatch'
      <3>1. /\ pc' = [pc EXCEPT ![t] = "os_sched"] /\ ret' = [ret EXCEPT ![t] = "os_sem_pend"]
            /\ sem_wait' = [sem_wait EXCEPT ![t] = TRUE] /\ on' = [on EXCEPT ![t] = s]
        BY <1>5 DEF os_sem_pend_wait, CallSched
      <3>2. /\ pc'[t] = "os_sched" /\ ret'[t] = "os_sem_pend" /\ sem_wait'[t] = TRUE /\ on'[t] = s
            /\ s # NULL
        BY <3>1, SemTypes
      <3>3. \A u \in Task \ {t} : /\ pc'[u] = pc[u] /\ ret'[u] = ret[u]
                                 /\ sem_wait'[u] = sem_wait[u] /\ on'[u] = on[u]
        BY <3>1, SemTypes
      <3>4. CallsMatch
        BY SemTypes
      <3> QED
        BY <2>1, <3>2, <3>3, <3>4 DEF CallsMatch
    <2> QED
      BY <2>1, <2>3, <2>4 DEF SemInv
  <1>6. ASSUME NEW t \in Task, NEW s \in Sem, os_sem_delete(t, s) PROVE SemInv'
    <2>0. Running(t) /\ pc[t] = "app" /\ pc' = [pc EXCEPT ![t] = "os_sem_delete"]
      BY <1>6 DEF os_sem_delete, InApp
    <2>1. KernelInv'
      BY <1>0, <1>6, <2>0, TaskQuietInv DEF os_sem_delete
    <2>2. sched.t_obj[t] = NULL
      BY <1>0, <2>0, RunningFree
    <2>3. TypeOK'
      BY <1>0, <1>6 DEF SemInv, TypeOK, os_sem_delete
    <2>4. CallsMatch'
      BY <1>0, <1>6, <2>2, SemTypes DEF CallsMatch, os_sem_delete
    <2> QED
      BY <2>1, <2>3, <2>4 DEF SemInv
  <1>7. ASSUME NEW t \in Task, os_sem_pend_return(t) PROVE SemInv'
    <2>0. Running(t) /\ pc[t] = "os_sem_pend" /\ pc' = [pc EXCEPT ![t] = "app"]
      BY <1>7 DEF os_sem_pend_return
    <2>1. KernelInv'
      BY <1>0, <1>7, <2>0, TaskQuietInv DEF os_sem_pend_return
    <2>2. sched.t_obj[t] = NULL
      BY <1>0, <2>0, RunningFree
    <2>3. on[t] \in Sem
      BY <1>0, <2>0, SemTypes DEF CallsMatch
    <2>4. TypeOK'
      BY <1>0, <1>7, <2>3 DEF SemInv, TypeOK, os_sem_pend_return
    <2>5. CallsMatch'
      BY <1>0, <1>7, <2>2, SemTypes DEF CallsMatch, os_sem_pend_return
    <2> QED
      BY <2>1, <2>4, <2>5 DEF SemInv
  <1>8. ASSUME NEW t \in Task, os_sem_delete_wake(t) PROVE SemInv'
    <2>1. KernelInv' /\ \A u \in Task : sched'.t_obj[u] \in {sched.t_obj[u], NULL}
      BY <1>8, DeleteWakeKernel
    <2>2. SchedType(sched')
      BY <2>1 DEF KernelInv, Good
    <2>3. TypeOK'
      BY <1>8, <2>2 DEF SemInv, TypeOK, os_sem_delete_wake, semVars
    <2>4. CallsMatch'
      BY <1>0, <1>8, <2>1 DEF CallsMatch, os_sem_delete_wake, semVars
    <2> QED
      BY <2>1, <2>3, <2>4 DEF SemInv
  <1>9. ASSUME NEW t \in Task, os_sem_delete_end(t) PROVE SemInv'
    <2>0. /\ Running(t) /\ pc[t] = "os_sem_delete"
          /\ \/ CallSched(t, NULL, "app")
             \/ pc' = [pc EXCEPT ![t] = "app"] /\ UNCHANGED <<next_t, ret>>
      BY <1>9 DEF os_sem_delete_end
    <2>1. KernelInv'
      BY <1>0, <1>9, <2>0, TaskQuietInv, NullIsNothing DEF os_sem_delete_end
    <2>2. sched.t_obj[t] = NULL
      BY <1>0, <2>0, RunningFree
    <2>3. TypeOK'
      BY <1>9, <2>0 DEF SemInv, TypeOK, os_sem_delete_end, CallSched
    <2>4. CallsMatch'
      BY <1>0, <1>9, <2>0, <2>2, SemTypes DEF CallsMatch, os_sem_delete_end, CallSched
    <2> QED
      BY <2>1, <2>3, <2>4 DEF SemInv
  <1> QED
    BY <1>1, <1>2, <1>3, <1>4, <1>5, <1>6, <1>7, <1>8, <1>9 DEF SemStep

-----------------------------------------------------------------------------
(* No task waits for a semaphore that has tokens.                          *)

LEMMA NoTokenStep ==
    ASSUME SemInv, NoTokenWhileWaiting, Next PROVE NoTokenWhileWaiting'
  <1> USE DEF Sem
  <1>1. CASE KernelStep
    <2>1. \A o \in Obj : sched.obj_head[o] = <<>> => sched'.obj_head[o] = <<>>
      BY <1>1, SchedNextObjs DEF SemInv, KernelStep
    <2> QED
      BY <1>1, <2>1 DEF NoTokenWhileWaiting, KernelStep, semVars
  <1>2. ASSUME NEW t \in Task, NEW s \in Sem, os_sem_init(t, s) PROVE NoTokenWhileWaiting'
    <2>1. \A u \in Task : sched.t_obj[u] # s
      BY <1>2, NullIsNothing DEF SemInv, CallsMatch, os_sem_init
    <2>2. sched.obj_head[s] = <<>>
      <3>1. SUFFICES ASSUME sched.obj_head[s] # <<>> PROVE FALSE
        OBVIOUS
      <3> QED
        BY <2>1, <3>1, FirstWaits DEF SemInv
    <2> QED
      BY <1>2, <2>2 DEF NoTokenWhileWaiting, os_sem_init, schedVars, SemInv, TypeOK
  <1>3. ASSUME NEW t \in Task, NEW s \in Sem, os_sem_release_token(t, s) PROVE NoTokenWhileWaiting'
    BY <1>3 DEF NoTokenWhileWaiting, os_sem_release_token, schedVars, SemInv, TypeOK
  <1>4. ASSUME NEW t \in Task, NEW s \in Sem, os_sem_pend_token(t, s) PROVE NoTokenWhileWaiting'
    BY <1>4 DEF NoTokenWhileWaiting, os_sem_pend_token, schedVars, SemInv, TypeOK
  <1>5. ASSUME NEW t \in Task, NEW s \in Sem, os_sem_release_wake(t, s) PROVE NoTokenWhileWaiting'
    <2>1. \A o \in Sem : sched.obj_head[o] = <<>> => sched'.obj_head[o] = <<>>
      BY <1>5, ReleaseWakeKernel
    <2>2. UNCHANGED sem_tokens
      BY <1>5 DEF os_sem_release_wake
    <2> QED
      BY <2>1, <2>2 DEF NoTokenWhileWaiting
  <1>6. ASSUME NEW t \in Task, NEW s \in Sem, os_sem_pend_wait(t, s) PROVE NoTokenWhileWaiting'
    <2>1. \A o \in Sem \ {s} : sched'.obj_head[o] = sched.obj_head[o]
      BY <1>6, PendWaitKernel
    <2> QED
      BY <1>6, <2>1 DEF NoTokenWhileWaiting, os_sem_pend_wait
  <1>7. ASSUME NEW t \in Task, NEW s \in Sem, os_sem_delete(t, s) PROVE NoTokenWhileWaiting'
    BY <1>7 DEF NoTokenWhileWaiting, os_sem_delete, SemInv, TypeOK
  <1>8. ASSUME NEW t \in Task, os_sem_delete_wake(t) PROVE NoTokenWhileWaiting'
    <2>1. \A o \in Sem : sched.obj_head[o] = <<>> => sched'.obj_head[o] = <<>>
      BY <1>8, DeleteWakeKernel
    <2> QED
      BY <1>8, <2>1 DEF NoTokenWhileWaiting, os_sem_delete_wake, semVars
  <1>9. ASSUME NEW t \in Task, os_sem_pend_return(t) \/ os_sem_delete_end(t) PROVE NoTokenWhileWaiting'
    BY <1>9 DEF NoTokenWhileWaiting, os_sem_pend_return, os_sem_delete_end
  <1> QED
    BY <1>1, <1>2, <1>3, <1>4, <1>5, <1>6, <1>7, <1>8, <1>9 DEF Next, SemStep

-----------------------------------------------------------------------------
(* Tokens are conserved.                                                   *)

LEMMA GrantedFinite ==
    ASSUME NEW s \in Sem
    PROVE  IsFiniteSet(Granted(s)) /\ Cardinality(Granted(s)) \in Nat
  <1>1. Granted(s) \in SUBSET Task
    BY DEF Granted
  <1>2. IsFiniteSet(Granted(s))
    BY <1>1, TaskFinite, FS_Subset
  <1> QED
    BY <1>2, FS_CardinalityType

LEMMA TokensStep ==
    ASSUME SemInv, SemInv', TokensConserved, Next PROVE TokensConserved'
  <1> SUFFICES ASSUME NEW x \in Sem
               PROVE  credit'[x] = sem_tokens'[x] + Cardinality(Granted(x)')
    BY DEF TokensConserved, Sem
  <1> USE DEF Sem
  <1>0. /\ credit[x] = sem_tokens[x] + Cardinality(Granted(x))
        /\ Cardinality(Granted(x)) \in Nat /\ IsFiniteSet(Granted(x))
        /\ credit \in [Sem -> Int] /\ sem_tokens \in [Sem -> 0 .. MaxTokens]
        /\ MaxTokens \in Nat /\ InitTokens \in 0 .. MaxTokens
    BY GrantedFinite, SemAssumption DEF TokensConserved, SemInv, TypeOK
  <1>1. CASE KernelStep
    <2>1. Granted(x)' = Granted(x)
      <3>1. UNCHANGED semVars /\ \A u \in Task : pc'[u] = "os_sem_delete" <=> pc[u] = "os_sem_delete"
        BY <1>1, KernelStepInv DEF KernelStep
      <3> QED
        BY <3>1 DEF Granted, semVars
    <2> QED
      BY <1>0, <1>1, <2>1 DEF KernelStep, semVars
  <1>2. ASSUME NEW t \in Task, NEW s \in Sem, os_sem_init(t, s)
        PROVE  credit'[x] = sem_tokens'[x] + Cardinality(Granted(x)')
    <2>1. Granted(x)' = Granted(x)
      BY <1>2 DEF Granted, os_sem_init, schedVars
    <2>2. CASE x = s
      <3>1. Granted(x) = {}
        BY <1>2, <2>2 DEF Granted, os_sem_init
      <3>2. Cardinality(Granted(x)) = 0
        BY <3>1, FS_EmptySet
      <3> QED
        BY <1>0, <1>2, <2>1, <2>2, <3>2 DEF os_sem_init
    <2>3. CASE x # s
      BY <1>0, <1>2, <2>1, <2>3 DEF os_sem_init
    <2> QED
      BY <2>2, <2>3
  <1>3. ASSUME NEW t \in Task, NEW s \in Sem, os_sem_release_token(t, s) \/ os_sem_pend_token(t, s)
        PROVE  credit'[x] = sem_tokens'[x] + Cardinality(Granted(x)')
    <2>0. UNCHANGED <<on, sem_wait, pc>>
      BY <1>3 DEF os_sem_release_token, os_sem_pend_token, schedVars
    <2>1. Granted(x)' = Granted(x)
      BY <2>0 DEF Granted
    <2>2. \E d \in {1, -1} :
             /\ credit' = [credit EXCEPT ![s] = @ + d]
             /\ sem_tokens' = [sem_tokens EXCEPT ![s] = @ + d]
      BY <1>0, <1>3 DEF os_sem_release_token, os_sem_pend_token
    <2> QED
      BY <1>0, <2>1, <2>2
  <1>4. ASSUME NEW t \in Task, NEW s \in Sem, os_sem_release_wake(t, s)
        PROVE  credit'[x] = sem_tokens'[x] + Cardinality(Granted(x)')
    <2> DEFINE r == Head(sched.obj_head[s])
    <2>1. r \in Task /\ r # t /\ sched.t_obj[r] = s
      BY <1>4, ReleaseWakeKernel
    <2>2. /\ sem_wait' = [sem_wait EXCEPT ![r] = FALSE] /\ credit' = [credit EXCEPT ![s] = @ + 1]
          /\ UNCHANGED <<on, sem_tokens>>
      BY <1>4 DEF os_sem_release_wake
    <2> HIDE DEF r
    <2>3. on[r] = s /\ sem_wait[r] = TRUE /\ pc[r] # "os_sem_delete"
      BY <2>1, NullIsNothing DEF SemInv, CallsMatch
    <2>4. \A u \in Task : pc'[u] = "os_sem_delete" <=> pc[u] = "os_sem_delete"
      BY <1>4 DEF os_sem_release_wake, InApp, CallSched, SemInv, TypeOK
    <2>5. Granted(x)' = IF x = s THEN Granted(x) \cup {r} ELSE Granted(x)
      BY <2>1, <2>2, <2>3, <2>4 DEF Granted, SemInv, TypeOK
    <2>6. r \notin Granted(x)
      BY <2>3 DEF Granted
    <2>7. Cardinality(Granted(x) \cup {r}) = Cardinality(Granted(x)) + 1
      BY <1>0, <2>6, FS_AddElement
    <2> QED
      BY <1>0, <2>2, <2>5, <2>7
  <1>5. ASSUME NEW t \in Task, NEW s \in Sem, os_sem_pend_wait(t, s)
        PROVE  credit'[x] = sem_tokens'[x] + Cardinality(Granted(x)')
    <2>1. on[t] = NULL
      BY <1>5 DEF SemInv, CallsMatch, os_sem_pend_wait, InApp
    <2>2. Granted(x)' = Granted(x)
      BY <1>5, <2>1, NullIsNothing DEF Granted, os_sem_pend_wait, CallSched, InApp, SemInv, TypeOK
    <2> QED
      BY <1>0, <1>5, <2>2 DEF os_sem_pend_wait
  <1>6. ASSUME NEW t \in Task, NEW s \in Sem, os_sem_delete(t, s)
        PROVE  credit'[x] = sem_tokens'[x] + Cardinality(Granted(x)')
    <2>1. on[t] = NULL
      BY <1>6 DEF SemInv, CallsMatch, os_sem_delete, InApp
    <2>2. Granted(x)' = Granted(x)
      BY <1>6, <2>1, NullIsNothing DEF Granted, os_sem_delete, SemInv, TypeOK
    <2>3. /\ credit'[x] = IF x = s THEN credit[x] - sem_tokens[x] ELSE credit[x]
          /\ sem_tokens'[x] = IF x = s THEN 0 ELSE sem_tokens[x]
      BY <1>0, <1>6 DEF os_sem_delete
    <2> QED
      BY <1>0, <2>2, <2>3
  <1>7. ASSUME NEW t \in Task, os_sem_pend_return(t)
        PROVE  credit'[x] = sem_tokens'[x] + Cardinality(Granted(x)')
    <2>0. /\ pc[t] = "os_sem_pend"
          /\ pc' = [pc EXCEPT ![t] = "app"] /\ on' = [on EXCEPT ![t] = NULL]
          /\ sem_wait' = [sem_wait EXCEPT ![t] = FALSE] /\ UNCHANGED sem_tokens
          /\ credit' = IF sem_wait[t] THEN credit ELSE [credit EXCEPT ![on[t]] = @ - 1]
      BY <1>7 DEF os_sem_pend_return
    <2>1. on[t] \in Sem /\ on[t] # NULL
      BY <2>0, SemTypes DEF CallsMatch
    <2>2. Granted(x)' = Granted(x) \ {t}
      BY <2>0, NullIsNothing DEF Granted, SemInv, TypeOK
    <2>3. t \in Granted(x) <=> x = on[t] /\ ~sem_wait[t]
      BY <2>0 DEF Granted
    <2>4. Cardinality(Granted(x) \ {t}) =
             IF t \in Granted(x) THEN Cardinality(Granted(x)) - 1 ELSE Cardinality(Granted(x))
      BY <1>0, FS_RemoveElement
    <2> QED
      BY <1>0, <2>0, <2>1, <2>2, <2>3, <2>4
  <1>8. ASSUME NEW t \in Task, os_sem_delete_wake(t)
        PROVE  credit'[x] = sem_tokens'[x] + Cardinality(Granted(x)')
    <2>1. Granted(x)' = Granted(x)
      BY <1>8 DEF Granted, os_sem_delete_wake, semVars
    <2> QED
      BY <1>0, <1>8, <2>1 DEF os_sem_delete_wake, semVars
  <1>9. ASSUME NEW t \in Task, os_sem_delete_end(t)
        PROVE  credit'[x] = sem_tokens'[x] + Cardinality(Granted(x)')
    <2>1. Granted(x)' = Granted(x)
      BY <1>9, NullIsNothing DEF Granted, os_sem_delete_end, CallSched, SemInv, TypeOK
    <2> QED
      BY <1>0, <1>9, <2>1 DEF os_sem_delete_end
  <1> QED
    BY <1>1, <1>2, <1>3, <1>4, <1>5, <1>6, <1>7, <1>8, <1>9 DEF Next, SemStep

-----------------------------------------------------------------------------
LEMMA AllHold == Spec => [](SemInv /\ NoTokenWhileWaiting /\ TokensConserved)
  <1>1. Init => SemInv /\ NoTokenWhileWaiting /\ TokensConserved
    <2> SUFFICES ASSUME Init PROVE SemInv /\ NoTokenWhileWaiting /\ TokensConserved
      OBVIOUS
    <2>1. SemInv
      BY SemInvInit
    <2>2. NoTokenWhileWaiting
      BY DEF Init, SchedInit, NoTokenWhileWaiting, Sem
    <2>3. ASSUME NEW s \in Sem PROVE credit[s] = sem_tokens[s] + Cardinality(Granted(s))
      <3>1. Granted(s) = {}
        BY <2>3, NullIsNothing DEF Init, Granted, Sem
      <3>2. Cardinality(Granted(s)) = 0
        BY <3>1, FS_EmptySet
      <3> QED
        BY <2>3, <3>2, SemAssumption DEF Init
    <2> QED
      BY <2>1, <2>2, <2>3 DEF TokensConserved
  <1>2. ASSUME SemInv, NoTokenWhileWaiting, TokensConserved, [Next]_vars
        PROVE  SemInv' /\ NoTokenWhileWaiting' /\ TokensConserved'
    <2>1. CASE Next
      <3>1. SemInv'
        BY <1>2, <2>1, KernelStepInv, SemStepInv DEF Next
      <3> QED
        BY <1>2, <2>1, <3>1, NoTokenStep, TokensStep
    <2>2. CASE UNCHANGED vars
      <3>1. KernelInv'
        BY <1>2, <2>2, KernelStutter DEF SemInv, vars, schedVars
      <3>2. TypeOK' /\ CallsMatch'
        BY <1>2, <2>2 DEF SemInv, vars, TypeOK, CallsMatch
      <3>3. NoTokenWhileWaiting' /\ TokensConserved'
        BY <1>2, <2>2 DEF vars, NoTokenWhileWaiting, TokensConserved, Granted
      <3> QED
        BY <3>1, <3>2, <3>3 DEF SemInv
    <2> QED
      BY <1>2, <2>1, <2>2
  <1> QED
    BY <1>1, <1>2, PTL DEF Spec

\* The lists of the scheduler and of the semaphores stay exact, whatever tasks do
\* with semaphores and whenever time-outs strike.
THEOREM SemListsStayConsistent == Spec => []SchedConsistent
  <1>1. SemInv => SchedConsistent
    BY DEF SemInv, KernelInv, Good, SchedConsistent
  <1> QED
    BY <1>1, AllHold, PTL

\* os_sem_release gives a token to the counter only when nobody waits: for any
\* number of tasks and semaphores no task sleeps beside a token.
THEOREM NobodyWaitsForATokenThatIsThere == Spec => []NoTokenWhileWaiting
  BY AllHold, PTL

\* For any number of tasks, semaphores and tokens, each os_sem_release lets exactly
\* one os_sem_pend return OS_OK, however it races with time-outs and deletion.
THEOREM TokensAreConserved == Spec => []TokensConserved
  BY AllHold, PTL
=============================================================================
