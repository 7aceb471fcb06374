---------------------------- MODULE OsMutexProofs ----------------------------
(***************************************************************************)
(* Mutexes, for any tasks, mutexes, priorities and time-outs: the lists    *)
(* stay consistent; a mutex excludes; and, when tasks hold one mutex at a  *)
(* time, the owner inherits the priority of its waiters and gets its own   *)
(* back.                                                                   *)
(***************************************************************************)
EXTENDS OsMutexPrioProofs, OsSchedProofs

-----------------------------------------------------------------------------
(* The lists, the order of the waiters and the calls.                      *)

Base == MuType /\ KernelInv /\ CallsMatch

LEMMA WakeupOrdered ==
    ASSUME NEW K, NEW t \in Task, Good(K), K.t_state[t] = "SLEEP", WaitOrdered(K),
           NEW R, R = os_sched_wakeup(K, t)
    PROVE  WaitOrdered(R)
  <1> SUFFICES ASSUME NEW o \in Obj PROVE Ordered(R.obj_head[o], R.t_prio)
    BY DEF WaitOrdered
  <1>1. /\ R.t_prio = K.t_prio
        /\ R.obj_head[o] = IF o = K.t_obj[t] THEN Remove(K.obj_head[o], t) ELSE K.obj_head[o]
    BY WakeupGood
  <1>2. Ordered(K.obj_head[o], K.t_prio)
    BY DEF WaitOrdered
  <1>3. ASSUME o = K.t_obj[t] PROVE Ordered(Remove(K.obj_head[o], t), K.t_prio)
    <2>1. /\ K.obj_head[o] \in Seq(Task) /\ t \in Range(K.obj_head[o]) /\ Injective(K.obj_head[o])
          /\ K.t_prio \in [Task -> Nat]
      BY <1>3 DEF Good, SchedType, ListsConsistent, WaitExact
    <2> QED
      BY <1>2, <2>1, RemoveOrdered
  <1> QED
    BY <1>1, <1>2, <1>3

\* A change of the priority of a task that waits for nothing.
LEMMA SetPrioOrdered ==
    ASSUME NEW K, NEW t \in Task, NEW p \in Nat, Good(K), WaitOrdered(K), K.t_obj[t] = NULL,
           NEW R, R = SetPrio(K, t, p)
    PROVE  WaitOrdered(R)
  <1> SUFFICES ASSUME NEW o \in Obj PROVE Ordered(R.obj_head[o], R.t_prio)
    BY DEF WaitOrdered
  <1>1. /\ \A u \in Task : R.t_prio[u] = IF u = t THEN p ELSE K.t_prio[u]
        /\ R.obj_head = K.obj_head
    BY SetPrioGood
  <1>2. Ordered(K.obj_head[o], K.t_prio)
    BY DEF WaitOrdered
  <1>3. \A u \in Range(K.obj_head[o]) : u \in Task
    BY DEF Good, SchedType, Range
  <1>4. \A u \in Range(K.obj_head[o]) : u # t
    BY NullIsNothing DEF Good, ListsConsistent, WaitExact
  <1> QED
    BY <1>1, <1>2, <1>3, <1>4, OrderedByRestriction

\* The kernel state after task o gets back the priority it had before mutex m.
LEMMA RestoredGood ==
    ASSUME Base, NEW o \in Task, NEW m \in Mutex, NEW R, R = Restored(o, m)
    PROVE  /\ Good(R) /\ R.t_state = sched.t_state /\ R.t_obj = sched.t_obj /\ R.obj_head = sched.obj_head
           /\ \A u \in Task : R.t_prio[u] = IF u = o THEN mu_prio[m] ELSE sched.t_prio[u]
           /\ sched.t_obj[o] = NULL /\ WaitOrdered(sched) => WaitOrdered(R)
  <1>0. PICK p \in Nat : p = mu_prio[m]
    BY DEF Base, MuType
  <1>1. R = SetPrio(sched, o, p) /\ Good(sched)
    BY <1>0 DEF Restored, Base, KernelInv
  <1>2. Good(R)
    BY <1>1, SetPrioGood
  <1>3. R.t_state = sched.t_state
    BY <1>1, SetPrioGood
  <1>4. R.t_obj = sched.t_obj /\ R.obj_head = sched.obj_head
    BY <1>1, SetPrioGood
  <1>5. \A u \in Task : R.t_prio[u] = IF u = o THEN p ELSE sched.t_prio[u]
    BY <1>1, SetPrioGood
  <1>6. sched.t_obj[o] = NULL /\ WaitOrdered(sched) => WaitOrdered(R)
    BY <1>1, SetPrioOrdered
  <1> QED
    BY <1>0, <1>2, <1>3, <1>4, <1>5, <1>6

\* The first waiter, if there is one, is the most urgent of them.
LEMMA FirstWaiterFacts ==
    ASSUME KernelInv, NEW m \in Mutex
    PROVE  /\ FirstWaiter(m) # NULL =>
                 /\ FirstWaiter(m) \in Task /\ sched.t_obj[FirstWaiter(m)] = m
                 /\ sched.t_state[FirstWaiter(m)] = "SLEEP"
                 /\ sched.obj_head[m] # <<>> /\ FirstWaiter(m) = Head(sched.obj_head[m])
                 /\ WaitOrdered(sched) =>
                       \A u \in Task : sched.t_obj[u] = m => sched.t_prio[FirstWaiter(m)] <= sched.t_prio[u]
           /\ FirstWaiter(m) = NULL => \A u \in Task : sched.t_obj[u] # m
  <1>0. /\ sched.obj_head[m] \in Seq(Task) /\ sched.t_prio \in [Task -> Nat] /\ m \in Obj
        /\ \A u \in Task : sched.t_obj[u] = m => u \in Range(sched.obj_head[m])
    BY NullIsNothing DEF KernelInv, Good, SchedType, ListsConsistent, WaitExact, Mutex
  <1>1. CASE sched.obj_head[m] = <<>>
    <2>1. Range(sched.obj_head[m]) = {}
      BY <1>1 DEF Range
    <2> QED
      BY <1>0, <1>1, <2>1 DEF FirstWaiter
  <1>2. CASE sched.obj_head[m] # <<>>
    <2>1. PICK r : r = Head(sched.obj_head[m])
      OBVIOUS
    <2>2. r \in Task /\ sched.t_obj[r] = m /\ sched.t_state[r] = "SLEEP"
      BY <1>0, <1>2, <2>1, FirstWaits
    <2>3. FirstWaiter(m) = r /\ r # NULL
      BY <1>2, <2>1, <2>2, NullIsNothing DEF FirstWaiter
    <2>4. ASSUME WaitOrdered(sched), NEW u \in Task, sched.t_obj[u] = m
          PROVE  sched.t_prio[r] <= sched.t_prio[u]
      <3>1. PICK i \in DOMAIN sched.obj_head[m] : sched.obj_head[m][i] = u
        BY <1>0, <2>4 DEF Range
      <3>2. 1 \in DOMAIN sched.obj_head[m] /\ i \in Nat /\ i >= 1 /\ sched.obj_head[m][1] = r
        BY <1>0, <1>2, <2>1
      <3>3. Ordered(sched.obj_head[m], sched.t_prio)
        BY <1>0, <2>4 DEF WaitOrdered
      <3>4. CASE i = 1
        BY <1>0, <2>2, <3>1, <3>2, <3>4
      <3>5. CASE i # 1
        BY <3>1, <3>2, <3>3, <3>5 DEF Ordered
      <3> QED
        BY <3>4, <3>5
    <2> QED
      BY <1>2, <2>1, <2>2, <2>3, <2>4
  <1> QED
    BY <1>1, <1>2

\* After Resched a task is at its own code or in os_sched.
LEMMA ReschedTypes ==
    ASSUME Base, NEW t \in Task, NEW K, Good(K), K.t_state[Idle] = "READY", Resched(t, K)
    PROVE  /\ pc' \in [Task -> MuPc] /\ next_t' \in [Task -> Task \cup {NULL}] /\ ret' \in [Task -> MuRet]
           /\ \A u \in Task \ {t} : pc'[u] = pc[u] /\ ret'[u] = ret[u]
           /\ pc'[t] \in {"app", "os_sched"}
           /\ pc'[t] = "os_sched" => ret'[t] = "app"
           /\ \/ \E n, r : n # t /\ CallSched(t, n, r)
              \/ UNCHANGED next_t /\ \E p : pc' = [pc EXCEPT ![t] = p]
  <1>1. Head(K.run) \in Task
    BY HeadReady
  <1>2. pc \in [Task -> MuPc] /\ next_t \in [Task -> Task \cup {NULL}] /\ ret \in [Task -> MuRet]
    BY DEF Base, MuType
  <1>3. CASE Head(K.run) # t /\ CallSched(t, Head(K.run), "app")
    <2>1. \E n, r : n # t /\ CallSched(t, n, r)
      BY <1>3
    <2> QED
      BY <1>1, <1>2, <1>3, <2>1, MuFacts DEF CallSched
  <1>4. CASE pc' = [pc EXCEPT ![t] = "app"] /\ UNCHANGED <<next_t, ret>>
    BY <1>2, <1>4, MuFacts
  <1> QED
    BY <1>3, <1>4 DEF Resched, os_sched_next_task

\* The critical section of os_mutex_release, with what it does to priorities and
\* waiters.
LEMMA BaseReleaseCrit ==
    ASSUME Base, NEW t \in Users, os_mutex_release_crit(t),
           NEW m, m = on[t], NEW rdy, rdy = FirstWaiter(m)
    PROVE  Base' /\ ReleaseMoves(t)
  <1>0. KernelInv /\ MuType /\ CallsMatch /\ t \in Task
    BY MuFacts DEF Base
  <1>a. PICK K : K = Restored(t, m)
    OBVIOUS
  <1>b. PICK R : R = IF rdy = NULL THEN K ELSE os_sched_wakeup(K, rdy)
    OBVIOUS
  <1>1. /\ Running(t) /\ pc[t] = "os_mutex_release" /\ sched' = R /\ Resched(t, R)
        /\ mu_owner' = [mu_owner EXCEPT ![m] = rdy]
        /\ mu_level' = IF rdy = NULL THEN mu_level ELSE [mu_level EXCEPT ![m] = 1]
        /\ mu_prio' = IF rdy = NULL THEN mu_prio ELSE [mu_prio EXCEPT ![m] = R.t_prio[rdy]]
        /\ crit' = FALSE /\ on' = [on EXCEPT ![t] = NULL]
        /\ UNCHANGED <<cur, now, isr, pendsv, psv, live>>
    BY <1>a, <1>b DEF os_mutex_release_crit
  <1>2. m \in Mutex /\ m \in Obj
    BY <1>0, <1>1 DEF CallsMatch, MuType, Mutex
  <1>3. sched.t_state[t] = "READY" /\ sched.t_obj[t] = NULL /\ sched.t_state[Idle] = "READY"
    BY <1>0, <1>1, RunningFree DEF KernelInv
  <1>4. /\ Good(K) /\ K.t_state = sched.t_state /\ K.t_obj = sched.t_obj /\ K.obj_head = sched.obj_head
        /\ \A u \in Task : K.t_prio[u] = IF u = t THEN mu_prio[m] ELSE sched.t_prio[u]
        /\ sched.t_obj[t] = NULL /\ WaitOrdered(sched) => WaitOrdered(K)
    BY <1>0, <1>2, <1>a, RestoredGood
  <1>5. rdy # NULL =>
           /\ rdy \in Task /\ sched.t_obj[rdy] = m /\ sched.t_state[rdy] = "SLEEP"
           /\ sched.obj_head[m] # <<>> /\ rdy = Head(sched.obj_head[m])
    BY <1>0, <1>2, FirstWaiterFacts
  <1>6. /\ Good(R) /\ R.t_state[Idle] = "READY" /\ R.t_prio = K.t_prio
        /\ \A u \in Task : R.t_state[u] = IF u = rdy THEN "READY" ELSE sched.t_state[u]
        /\ \A u \in Task : R.t_obj[u] = IF u = rdy THEN NULL ELSE sched.t_obj[u]
        /\ WaitOrdered(sched) => WaitOrdered(R)
    <2>1. CASE rdy = NULL
      <3>1. R = K /\ NULL \notin Task
        BY <1>b, <2>1, NullIsNothing
      <3> QED
        BY <1>3, <1>4, <2>1, <3>1
    <2>2. CASE rdy # NULL
      <3>1. R = os_sched_wakeup(K, rdy)
        BY <1>b, <2>2
      <3>2. /\ Good(R) /\ R.t_state[Idle] = "READY" /\ R.t_prio = K.t_prio
            /\ \A u \in Task : R.t_state[u] = IF u = rdy THEN "READY" ELSE sched.t_state[u]
            /\ \A u \in Task : R.t_obj[u] = IF u = rdy THEN NULL ELSE sched.t_obj[u]
        BY <1>0, <1>2, <1>4, <1>5, <2>2, <3>1, WakeFirst
      <3>3. WaitOrdered(K) => WaitOrdered(R)
        BY <1>4, <1>5, <2>2, <3>1, WakeupOrdered
      <3> QED
        BY <1>3, <1>4, <3>2, <3>3
    <2> QED
      BY <2>1, <2>2
  <1>7. rdy # t
    BY <1>0, <1>2, <1>3, <1>5, MuFacts
  <1>8. R.t_state[t] = "READY"
    BY <1>0, <1>3, <1>6
  <1>9. /\ pc' \in [Task -> MuPc] /\ next_t' \in [Task -> Task \cup {NULL}] /\ ret' \in [Task -> MuRet]
        /\ \A u \in Task \ {t} : pc'[u] = pc[u] /\ ret'[u] = ret[u]
        /\ pc'[t] \in {"app", "os_sched"}
        /\ pc'[t] = "os_sched" => ret'[t] = "app"
        /\ \/ \E n, r : n # t /\ CallSched(t, n, r)
           \/ UNCHANGED next_t /\ \E p : pc' = [pc EXCEPT ![t] = p]
    BY <1>0, <1>1, <1>6, ReschedTypes
  <1>10. KernelInv'
    BY <1>0, <1>1, <1>6, <1>8, <1>9, TaskCallInv
  <1>11. R.t_prio \in [Task -> Nat]
    BY <1>6 DEF Good, SchedType
  <1>12. mu_owner' \in [Mutex -> Task \cup {NULL}] /\ on' \in [Task -> Mutex \cup {NULL}]
    BY <1>0, <1>1, <1>2, <1>5 DEF MuType
  <1>13. mu_prio' \in [Mutex -> Nat]
    BY <1>0, <1>1, <1>2, <1>5, <1>11 DEF MuType
  <1>14. mu_level' \in [Mutex -> 0 .. MaxLevel]
    BY <1>0, <1>1, <1>2, MuFacts DEF MuType
  <1>15. MuType'
    BY <1>0, <1>1, <1>9, <1>12, <1>13, <1>14 DEF MuType
  <1>16. CallsMatch'
    <2>1. on'[t] = NULL /\ \A u \in Task \ {t} : on'[u] = on[u]
      BY <1>0, <1>1 DEF MuType
    <2>2. \A u \in Task : sched'.t_obj[u] \in {sched.t_obj[u], NULL}
      BY <1>1, <1>6
    <2>3. sched'.t_obj[t] = NULL
      BY <1>0, <1>3, <2>2
    <2> QED
      BY <1>0, <1>9, <2>1, <2>2, <2>3 DEF CallsMatch, Scheds, Pends
  <1>17. rdy # NULL => mu_prio' = [mu_prio EXCEPT ![m] = sched.t_prio[rdy]]
    BY <1>1, <1>4, <1>5, <1>6, <1>7
  <1>18. ReleaseMoves(t)
    <2>1. \A u \in Task : sched'.t_prio[u] = IF u = t THEN mu_prio[m] ELSE sched.t_prio[u]
      BY <1>1, <1>4, <1>6
    <2>2. /\ \A u \in Task : sched'.t_obj[u] = IF u = rdy THEN NULL ELSE sched.t_obj[u]
          /\ WaitOrdered(sched) => WaitOrdered(sched')
      BY <1>1, <1>6
    <2>3. pc'[t] \in {"app", "os_sched"} /\ \A u \in Task \ {t} : pc'[u] = pc[u]
      BY <1>9
    <2>4. rdy \in Task \cup {NULL} /\ sched.t_obj[t] = NULL
      BY <1>3, <1>5
    <2> QED
      BY <1>2, <1>7, <1>17, <2>1, <2>2, <2>3, <2>4 DEF ReleaseMoves
  <1> QED
    BY <1>10, <1>15, <1>16, <1>18 DEF Base

-----------------------------------------------------------------------------
(* The lists, for every value of the constants.                            *)

LEMMA WaitAndSleepOrdered ==
    ASSUME NEW K, NEW t \in Task, NEW o \in Obj, NEW n, Good(K), WaitOrdered(K),
           NEW R, R = os_sched_sleep(WaitFor(K, t, o), t, n)
    PROVE  WaitOrdered(R)
  <1> DEFINE I == LessUrgent(K, K.obj_head[o], K.t_prio[t])
             l == InsertBefore(K.obj_head[o], I, t)
             W == WaitFor(K, t, o)
  <1>1. SchedType(K)
    BY DEF Good
  <1>2. I = {i \in DOMAIN K.obj_head[o] : K.t_prio[t] < K.t_prio[K.obj_head[o][i]]}
    BY DEF LessUrgent
  <1>3. Ordered(l, K.t_prio)
    <2>1. /\ K.obj_head[o] \in Seq(Task) /\ K.t_prio \in [Task -> Nat]
          /\ Ordered(K.obj_head[o], K.t_prio)
      BY <1>1 DEF SchedType, WaitOrdered
    <2> QED
      BY <1>2, <2>1, InsertBeforeOrdered
  <1>4. W = [K EXCEPT !.obj_head[o] = l, !.t_obj[t] = o]
    BY DEF WaitFor
  <1> HIDE DEF I, l
  <1>5. W.t_prio = K.t_prio /\ W.obj_head = [K.obj_head EXCEPT ![o] = l]
        /\ DOMAIN W = DOMAIN K
    BY <1>1, <1>4 DEF SchedType
  <1>6. R.t_prio = W.t_prio /\ R.obj_head = W.obj_head
    <2> HIDE DEF W
    <2>1. {"t_prio", "obj_head"} \subseteq DOMAIN W
      BY <1>1, <1>5 DEF SchedType
    <2>2. R = os_sched_sleep(W, t, n)
      BY DEF W
    <2> QED
      BY <2>1, <2>2 DEF os_sched_sleep
  <1>7. \A x \in Obj : R.obj_head[x] = IF x = o THEN l ELSE K.obj_head[x]
    BY <1>1, <1>5, <1>6 DEF SchedType
  <1> QED
    BY <1>3, <1>5, <1>6, <1>7 DEF WaitOrdered

\* The kernel state after the owner o inherits the priority of t.
LEMMA InheritGood ==
    ASSUME NEW K, Good(K), NEW o \in Task, NEW t \in Task, NEW R, R = Inherit(K, o, t)
    PROVE  /\ Good(R) /\ R.t_state = K.t_state /\ R.t_obj = K.t_obj /\ R.obj_head = K.obj_head
           /\ \A u \in Task \ {o} : R.t_prio[u] = K.t_prio[u]
           /\ R.t_prio[o] = IF K.t_prio[o] > K.t_prio[t] THEN K.t_prio[t] ELSE K.t_prio[o]
           /\ K.t_obj[o] = NULL /\ WaitOrdered(K) => WaitOrdered(R)
  <1>0. K.t_prio[t] \in Nat
    BY DEF Good, SchedType
  <1>1. CASE K.t_prio[o] > K.t_prio[t]
    <2>0. PICK p \in Nat : p = K.t_prio[t]
      BY <1>0
    <2>1. R = SetPrio(K, o, p)
      BY <1>1, <2>0 DEF Inherit
    <2>2. /\ Good(R) /\ R.t_state = K.t_state /\ R.t_obj = K.t_obj /\ R.obj_head = K.obj_head
          /\ \A u \in Task : R.t_prio[u] = IF u = o THEN p ELSE K.t_prio[u]
      <3>1. Good(R)
        BY <2>1, SetPrioGood
      <3>2. R.t_state = K.t_state
        BY <2>1, SetPrioGood
      <3>3. R.t_obj = K.t_obj /\ R.obj_head = K.obj_head
        BY <2>1, SetPrioGood
      <3>4. \A u \in Task : R.t_prio[u] = IF u = o THEN p ELSE K.t_prio[u]
        BY <2>1, SetPrioGood
      <3> QED
        BY <3>1, <3>2, <3>3, <3>4
    <2>3. K.t_obj[o] = NULL /\ WaitOrdered(K) => WaitOrdered(R)
      BY <2>1, SetPrioOrdered
    <2>4. R.t_prio[o] = K.t_prio[t]
      BY <2>0, <2>2
    <2> QED
      BY <1>1, <2>2, <2>3, <2>4
  <1>2. CASE ~ (K.t_prio[o] > K.t_prio[t])
    BY <1>2 DEF Inherit
  <1> QED
    BY <1>1, <1>2

\* os_mutex_pend on a mutex another task owns, with the change of priorities.
LEMMA BasePendWait ==
    ASSUME Base, NEW t \in Users, NEW m \in Mutex, os_mutex_pend_wait(t, m)
    PROVE  Base' /\ WaitMoves(t, m)
  <1>0. KernelInv /\ MuType /\ CallsMatch /\ t \in Task /\ m \in Obj /\ t # Idle
    BY MuFacts DEF Base, Mutex
  <1> DEFINE o == mu_owner[m]
             K == Inherit(sched, o, t)
  <1>1. /\ Running(t) /\ pc[t] = "app" /\ o # t /\ o # NULL
        /\ CallSched(t, NULL, "os_mutex_pend") /\ on' = [on EXCEPT ![t] = m]
        /\ UNCHANGED <<cur, now, isr, crit, pendsv, psv, mu_owner, mu_level, mu_prio, live>>
    BY DEF os_mutex_pend_wait, InApp
  <1>2. o \in Task
    BY <1>0, <1>1 DEF MuType
  <1>3. PICK n \in Timeouts \ {0} : sched' = os_sched_sleep(WaitFor(K, t, m), t, n)
    BY DEF os_mutex_pend_wait
  <1>4. n \in 0 .. NEVER
    BY MutexAssumption
  <1>5. sched.t_state[t] = "READY" /\ sched.t_obj[t] = NULL
    BY <1>0, <1>1, RunningFree
  <1>6. Good(sched) /\ now \in 0 .. TimeMod - 1 /\ sched.t_state[Idle] = "READY" /\ Idle \in Task
    BY <1>0, SchedAssumption DEF KernelInv
  <1>7. /\ Good(K) /\ K.t_state = sched.t_state /\ K.t_obj = sched.t_obj
        /\ \A u \in Task \ {o} : K.t_prio[u] = sched.t_prio[u]
        /\ K.t_prio[o] = IF sched.t_prio[o] > sched.t_prio[t] THEN sched.t_prio[t] ELSE sched.t_prio[o]
        /\ sched.t_obj[o] = NULL /\ WaitOrdered(sched) => WaitOrdered(K)
    <2> HIDE DEF o
    <2> QED
      BY <1>0, <1>2, <1>6, InheritGood
  <1> HIDE DEF K
  <1>8. /\ Good(sched') /\ sched'.t_prio = K.t_prio
        /\ \A u \in Task : sched'.t_state[u] = IF u = t THEN "SLEEP" ELSE K.t_state[u]
        /\ \A u \in Task : sched'.t_obj[u] = IF u = t THEN m ELSE K.t_obj[u]
    BY <1>0, <1>3, <1>4, <1>5, <1>6, <1>7, WaitAndSleepGood
  <1>9. WaitOrdered(K) => WaitOrdered(sched')
    BY <1>0, <1>3, <1>4, <1>5, <1>6, <1>7, WaitAndSleepOrdered
  <1>10. KernelInv'
    <2>1. NULL # t /\ sched'.t_state[Idle] = "READY"
      BY <1>0, <1>6, <1>7, <1>8, MuFacts
    <2>2. DOMAIN pc' = Task /\ DOMAIN next_t' = Task /\ pc'[t] = "os_sched" /\ \A u \in Task : next_t'[u] # u
      BY <1>0, <1>1, <2>1, CallSchedKeeps
    <2> QED
      BY <1>0, <1>1, <1>8, <2>1, <2>2, TaskStepInv
  <1>11. /\ pc' = [pc EXCEPT ![t] = "os_sched"] /\ next_t' = [next_t EXCEPT ![t] = NULL]
         /\ ret' = [ret EXCEPT ![t] = "os_mutex_pend"]
    BY <1>1 DEF CallSched
  <1>12. pc' \in [Task -> MuPc] /\ next_t' \in [Task -> Task \cup {NULL}] /\ ret' \in [Task -> MuRet]
         /\ on' \in [Task -> Mutex \cup {NULL}]
    BY <1>0, <1>1, <1>11 DEF MuType, MuPc, MuRet
  <1>13. MuType'
    BY <1>0, <1>1, <1>12 DEF MuType
  <1>14. CallsMatch'
    <2>1. pc'[t] = "os_sched" /\ ret'[t] = "os_mutex_pend" /\ on'[t] = m /\ sched'.t_obj[t] = m /\ m # NULL
      BY <1>0, <1>1, <1>8, <1>11, MuFacts DEF MuType
    <2>2. \A u \in Task \ {t} : /\ pc'[u] = pc[u] /\ ret'[u] = ret[u] /\ on'[u] = on[u]
                               /\ sched'.t_obj[u] = sched.t_obj[u]
      BY <1>0, <1>1, <1>7, <1>8, <1>11 DEF MuType
    <2> QED
      BY <1>0, <2>1, <2>2 DEF CallsMatch, Scheds, Pends
  <1>15. WaitMoves(t, m)
    BY <1>1, <1>2, <1>7, <1>8, <1>9, <1>11 DEF WaitMoves
  <1> QED
    BY <1>10, <1>13, <1>14, <1>15 DEF Base

LEMMA BaseDeleteWake ==
    ASSUME Base, NEW t \in Users, os_mutex_delete_wake(t)
    PROVE  Base' /\ WakeMoves
  <1>0. KernelInv /\ MuType /\ CallsMatch /\ t \in Task
    BY MuFacts DEF Base
  <1>1. /\ Running(t) /\ pc[t] = "os_mutex_delete" /\ sched.obj_head[on[t]] # <<>>
        /\ sched' = os_sched_wakeup(sched, Head(sched.obj_head[on[t]]))
        /\ UNCHANGED <<cur, now, isr, crit, pendsv, psv, pc, next_t, ret, muVars>>
    BY DEF os_mutex_delete_wake
  <1>2. PICK m \in Obj : m = on[t]
    BY <1>0, <1>1 DEF CallsMatch, MuType, Mutex
  <1>3. PICK r : r = Head(sched.obj_head[m])
    OBVIOUS
  <1>4. sched.t_state[t] = "READY" /\ Good(sched)
    BY <1>0, <1>1, RunningFree DEF KernelInv
  <1>5. r \in Task /\ sched.t_obj[r] = m /\ sched.t_state[r] = "SLEEP"
    BY <1>0, <1>1, <1>2, <1>3, FirstWaits
  <1>6. /\ Good(sched') /\ sched'.t_state[Idle] = "READY"
        /\ \A u \in Task : sched'.t_state[u] = IF u = r THEN "READY" ELSE sched.t_state[u]
        /\ sched'.t_prio = sched.t_prio
        /\ \A u \in Task : sched'.t_obj[u] = IF u = r THEN NULL ELSE sched.t_obj[u]
    <2>1. KernelInv /\ sched.obj_head[m] # <<>> /\ sched' = os_sched_wakeup(sched, r)
      BY <1>0, <1>1, <1>2, <1>3
    <2> QED
      BY <1>3, <1>4, <2>1, WakeFirst
  <1>7. WaitOrdered(sched) => WaitOrdered(sched')
    BY <1>1, <1>2, <1>3, <1>4, <1>5, WakeupOrdered
  <1>8. sched'.t_state[t] = "READY"
    BY <1>0, <1>4, <1>6
  <1>9. KernelInv'
    BY <1>0, <1>1, <1>6, <1>8, TaskCallInv
  <1>10. MuType'
    BY <1>0, <1>1 DEF MuType, muVars
  <1>11. CallsMatch'
    BY <1>0, <1>1, <1>6 DEF CallsMatch, muVars
  <1>12. WakeMoves
    BY <1>6, <1>7 DEF WakeMoves
  <1> QED
    BY <1>9, <1>10, <1>11, <1>12 DEF Base

LEMMA BaseDelete ==
    ASSUME Base, NEW t \in Users, NEW m \in Mutex, os_mutex_delete(t, m)
    PROVE  Base' /\ DeleteMoves(m)
  <1>0. KernelInv /\ MuType /\ CallsMatch /\ t \in Task
    BY MuFacts DEF Base
  <1>1. /\ Running(t) /\ pc[t] = "app" /\ crit' = TRUE
        /\ pc' = [pc EXCEPT ![t] = "os_mutex_delete"] /\ on' = [on EXCEPT ![t] = m]
        /\ live' = [live EXCEPT ![m] = FALSE]
        /\ UNCHANGED <<cur, now, isr, pendsv, psv, next_t, ret, mu_owner, mu_level, mu_prio>>
    BY DEF os_mutex_delete, InApp
  <1>2. sched.t_state[t] = "READY" /\ sched.t_obj[t] = NULL /\ on[t] = NULL
    BY <1>0, <1>1, RunningFree DEF CallsMatch
  <1>3. /\ Good(sched') /\ sched'.t_state = sched.t_state
        /\ sched'.t_obj = sched.t_obj /\ sched'.obj_head = sched.obj_head
        /\ \A u \in Task : sched'.t_prio[u] =
              IF u = mu_owner[m] /\ mu_level[m] # 0 THEN mu_prio[m] ELSE sched.t_prio[u]
        /\ \/ mu_owner[m] \in Task /\ sched.t_obj[mu_owner[m]] = NULL
           \/ mu_owner[m] \notin Task
           => (WaitOrdered(sched) => WaitOrdered(sched'))
    <2>1. CASE mu_level[m] # 0 /\ mu_owner[m] # NULL
      <3>1. PICK o \in Task : o = mu_owner[m]
        BY <1>0, <2>1 DEF MuType
      <3>2. sched' = Restored(o, m)
        BY <2>1, <3>1 DEF os_mutex_delete
      <3>3. /\ Good(sched') /\ sched'.t_state = sched.t_state
            /\ sched'.t_obj = sched.t_obj /\ sched'.obj_head = sched.obj_head
            /\ \A u \in Task : sched'.t_prio[u] = IF u = o THEN mu_prio[m] ELSE sched.t_prio[u]
            /\ sched.t_obj[o] = NULL /\ WaitOrdered(sched) => WaitOrdered(sched')
        BY <3>2, RestoredGood
      <3> QED
        BY <2>1, <3>1, <3>3
    <2>2. CASE ~ (mu_level[m] # 0 /\ mu_owner[m] # NULL)
      <3>1. sched' = sched
        BY <2>2 DEF os_mutex_delete
      <3> QED
        BY <1>0, <2>2, <3>1, MuFacts DEF KernelInv
    <2> QED
      BY <2>1, <2>2
  <1>4. KernelInv'
    <2>1. sched'.t_state[Idle] = "READY" /\ sched'.t_state[t] = "READY"
      BY <1>0, <1>2, <1>3 DEF KernelInv
    <2> QED
      BY <1>0, <1>1, <1>3, <2>1, TaskCallInv
  <1>5. live' \in [Mutex -> BOOLEAN]
    <2>1. live \in [Mutex -> BOOLEAN]
      BY <1>0 DEF MuType
    <2> QED
      BY <1>1, <2>1, Zenon
  <1>6. pc' \in [Task -> MuPc] /\ on' \in [Task -> Mutex \cup {NULL}]
    BY <1>0, <1>1 DEF MuType, MuPc
  <1>7. MuType'
    BY <1>0, <1>1, <1>5, <1>6 DEF MuType
  <1>8. CallsMatch'
    BY <1>0, <1>1, <1>2, <1>3, MuFacts DEF CallsMatch, MuType, Scheds
  <1>9. DeleteMoves(m)
    BY <1>3 DEF DeleteMoves
  <1> QED
    BY <1>4, <1>7, <1>8, <1>9 DEF Base

LEMMA BaseDeleteEnd ==
    ASSUME Base, NEW t \in Users, os_mutex_delete_end(t)
    PROVE  Base' /\ EndMoves(t)
  <1>0. KernelInv /\ MuType /\ CallsMatch /\ t \in Task
    BY MuFacts DEF Base
  <1>1. /\ Running(t) /\ pc[t] = "os_mutex_delete" /\ Resched(t, sched) /\ crit' = FALSE
        /\ on' = [on EXCEPT ![t] = NULL]
        /\ UNCHANGED <<sched, cur, now, isr, pendsv, psv, mu_owner, mu_level, mu_prio, live>>
    BY DEF os_mutex_delete_end
  <1>2. /\ pc' \in [Task -> MuPc] /\ next_t' \in [Task -> Task \cup {NULL}] /\ ret' \in [Task -> MuRet]
        /\ \A u \in Task \ {t} : pc'[u] = pc[u] /\ ret'[u] = ret[u]
        /\ pc'[t] \in {"app", "os_sched"}
        /\ pc'[t] = "os_sched" => ret'[t] = "app"
        /\ \/ \E n, r : n # t /\ CallSched(t, n, r)
           \/ UNCHANGED next_t /\ \E p : pc' = [pc EXCEPT ![t] = p]
    BY <1>0, <1>1, ReschedTypes DEF KernelInv
  <1>3. KernelInv'
    BY <1>0, <1>1, <1>2, TaskQuietInv
  <1>4. sched.t_obj[t] = NULL
    BY <1>0, <1>1, RunningFree
  <1>5. MuType'
    BY <1>0, <1>1, <1>2 DEF MuType
  <1>6. CallsMatch'
    BY <1>0, <1>1, <1>2, <1>4 DEF CallsMatch, MuType, Scheds
  <1> QED
    BY <1>2, <1>3, <1>5, <1>6 DEF Base, EndMoves

\* The scheduler's own steps change no priority and keep the order.
LEMMA SchedNextPrio ==
    ASSUME KernelInv, SchedNext
    PROVE  sched'.t_prio = sched.t_prio /\ (WaitOrdered(sched) => WaitOrdered(sched'))
  <1>0. Good(sched) /\ now \in 0 .. TimeMod - 1
    BY DEF KernelInv
  <1>1. CASE UNCHANGED sched
    BY <1>1 DEF WaitOrdered
  <1>2. ASSUME NEW t \in Task, os_time_delay(t)
        PROVE  sched'.t_prio = sched.t_prio /\ sched'.obj_head = sched.obj_head
    <2>1. PICK n \in Delays : sched' = os_sched_sleep(sched, t, n)
      BY <1>2 DEF os_time_delay
    <2>2. {"t_prio", "obj_head"} \subseteq DOMAIN sched
      BY <1>0 DEF Good, SchedType
    <2> QED
      BY <2>1, <2>2 DEF os_sched_sleep
  <1>3. CASE \E t \in Task : os_time_delay(t)
    BY <1>2, <1>3 DEF WaitOrdered
  <1>4. CASE os_sched_os_timer_exp
    <2>1. /\ Head(sched.sleep) \in Task /\ sched.t_state[Head(sched.sleep)] = "SLEEP"
          /\ sched' = os_sched_wakeup(sched, Head(sched.sleep))
      BY <1>4, TimerExpSleeps DEF os_sched_os_timer_exp
    <2> QED
      BY <1>0, <2>1, WakeupGood, WakeupOrdered
  <1> QED
    BY <1>1, <1>3, <1>4 DEF SchedNext, SchedStep, SysTick, os_sched, os_arch_ctx_sw, PendSV_read,
       PendSV_switch, timer_handler_end, os_time_tick

LEMMA BaseKernelStep ==
    ASSUME Base, KernelStep
    PROVE  Base' /\ KernelMoves
  <1>0. KernelInv /\ SchedNext /\ UNCHANGED muVars /\ MuType /\ CallsMatch
    BY DEF Base, KernelStep
  <1>1. KernelInv'
    BY <1>0, SchedNextInv DEF MuType
  <1>2. \A u \in Task : sched'.t_obj[u] \in {sched.t_obj[u], NULL}
    BY <1>0, SchedNextObjs
  <1>3. /\ pc' \in [Task -> MuPc] /\ ret' \in [Task -> MuRet] /\ next_t' \in [Task -> Task \cup {NULL}]
        /\ isr' \in {"none", "timer_exp"} /\ pendsv' \in BOOLEAN /\ crit' = crit
        /\ \A u \in Task :
              \/ pc'[u] = pc[u] /\ ret'[u] = ret[u]
              \/ pc[u] = "app" /\ pc'[u] = "os_sched" /\ ret'[u] = "app"
              \/ /\ pc[u] \in {"os_sched", "os_arch_ctx_sw"} /\ ret'[u] = ret[u]
                 /\ pc'[u] \in {"os_arch_ctx_sw", ret[u]}
    BY <1>0, MuFacts, SchedNextCalls DEF MuType
  <1>4. MuType'
    BY <1>0, <1>3 DEF MuType, muVars
  <1>5. \A u \in Task : ret[u] \in {"app", "os_mutex_pend"}
    BY <1>0 DEF MuType, MuRet
  <1>6. CallsMatch'
    BY <1>0, <1>2, <1>3, <1>5 DEF CallsMatch, Scheds, Pends, muVars
  <1>7. \A u \in Task :
           \/ pc'[u] = pc[u]
           \/ pc[u] = "app" /\ pc'[u] = "os_sched"
           \/ pc[u] \in Scheds /\ pc'[u] \in {"os_arch_ctx_sw", "app", "os_mutex_pend"}
    BY <1>3, <1>5 DEF Scheds
  <1>8. sched'.t_prio = sched.t_prio /\ (WaitOrdered(sched) => WaitOrdered(sched'))
    BY <1>0, SchedNextPrio
  <1>9. KernelMoves
    BY <1>2, <1>3, <1>6, <1>7, <1>8 DEF KernelMoves
  <1> QED
    BY <1>1, <1>4, <1>6, <1>9 DEF Base

LEMMA BaseRelease ==
    ASSUME Base, NEW t \in Users, NEW m \in Mutex, os_mutex_release(t, m)
    PROVE  Base'
  <1>0. KernelInv /\ MuType /\ CallsMatch /\ t \in Task
    BY MuFacts DEF Base
  <1>1. /\ Running(t) /\ pc[t] = "app" /\ mu_level[m] # 0
        /\ mu_level' = [mu_level EXCEPT ![m] = @ - 1]
        /\ \/ pc' = [pc EXCEPT ![t] = "os_mutex_release"] /\ on' = [on EXCEPT ![t] = m]
           \/ UNCHANGED <<pc, on>>
        /\ UNCHANGED <<sched, cur, now, isr, pendsv, psv, next_t, ret, mu_owner, mu_prio, live>>
    BY DEF os_mutex_release, InApp
  <1>2. crit' \in BOOLEAN
    BY <1>0, MutexAssumption DEF MuType, os_mutex_release
  <1>3. KernelInv'
    BY <1>0, <1>1, TaskQuietInv
  <1>4. sched.t_obj[t] = NULL /\ on[t] = NULL
    BY <1>0, <1>1, RunningFree DEF CallsMatch
  <1>5. pc' \in [Task -> MuPc] /\ on' \in [Task -> Mutex \cup {NULL}]
    BY <1>0, <1>1 DEF MuType, MuPc
  <1>6. mu_level' \in [Mutex -> 0 .. MaxLevel]
    BY <1>0, <1>1, MuFacts DEF MuType
  <1>7. MuType'
    BY <1>0, <1>1, <1>2, <1>5, <1>6 DEF MuType
  <1>8. CallsMatch'
    <2>1. CASE UNCHANGED <<pc, on>>
      BY <1>0, <1>1, <2>1 DEF CallsMatch
    <2>2. CASE pc' = [pc EXCEPT ![t] = "os_mutex_release"] /\ on' = [on EXCEPT ![t] = m]
      BY <1>0, <1>1, <1>4, <2>2, MuFacts DEF CallsMatch, MuType, Scheds
    <2> QED
      BY <1>1, <2>1, <2>2
  <1> QED
    BY <1>1, <1>3, <1>4, <1>7, <1>8 DEF Base

LEMMA BasePendReturn ==
    ASSUME Base, NEW t \in Users, os_mutex_pend_return(t)
    PROVE  Base'
  <1>0. KernelInv /\ MuType /\ CallsMatch /\ t \in Task
    BY MuFacts DEF Base
  <1>1. /\ Running(t) /\ pc[t] = "os_mutex_pend" /\ pc' = [pc EXCEPT ![t] = "app"]
        /\ on' = [on EXCEPT ![t] = NULL]
        /\ UNCHANGED <<sched, cur, now, isr, crit, pendsv, psv, next_t, ret, mu_owner, mu_level, mu_prio, live>>
    BY DEF os_mutex_pend_return
  <1>2. KernelInv'
    BY <1>0, <1>1, TaskQuietInv
  <1>3. sched.t_obj[t] = NULL
    BY <1>0, <1>1, RunningFree
  <1>4. on[t] \in Mutex
    BY <1>0, <1>1 DEF CallsMatch, MuType
  <1>5. MuType'
    <2>1. pc' \in [Task -> MuPc] /\ on' \in [Task -> Mutex \cup {NULL}]
      BY <1>0, <1>1 DEF MuType, MuPc
    <2> QED
      BY <1>0, <1>1, <2>1 DEF MuType
  <1>6. CallsMatch'
    BY <1>0, <1>1, <1>3 DEF CallsMatch, MuType, Scheds
  <1> QED
    BY <1>2, <1>3, <1>4, <1>5, <1>6 DEF Base

\* The running task leaves the kernel alone.
LEMMA BaseQuiet ==
    ASSUME Base, NEW t \in Users, NEW m \in Mutex,
           os_mutex_init(t, m) \/ os_mutex_pend_free(t, m) \/ os_mutex_pend_own(t, m)
    PROVE  Base'
  <1>0. KernelInv /\ MuType /\ CallsMatch /\ t \in Task
    BY MuFacts DEF Base
  <1>1. UNCHANGED <<schedVars, on>> /\ InApp(t)
    BY DEF os_mutex_init, os_mutex_pend_free, os_mutex_pend_own
  <1>2. KernelInv'
    BY <1>0, <1>1, KernelStutter
  <1>3. CallsMatch'
    BY <1>0, <1>1 DEF CallsMatch, schedVars
  <1>4. sched.t_prio[t] \in Nat
    BY <1>0 DEF KernelInv, Good, SchedType
  <1>5. /\ mu_owner' \in [Mutex -> Task \cup {NULL}] /\ mu_prio' \in [Mutex -> Nat]
        /\ live' \in [Mutex -> BOOLEAN]
    <2>1. live' = live \/ live' = [live EXCEPT ![m] = TRUE]
      BY DEF os_mutex_init, os_mutex_pend_free, os_mutex_pend_own
    <2>2. live \in [Mutex -> BOOLEAN]
      BY <1>0 DEF MuType
    <2>3. live' \in [Mutex -> BOOLEAN]
      BY <2>1, <2>2, Zenon
    <2>4. mu_owner' \in [Mutex -> Task \cup {NULL}] /\ mu_prio' \in [Mutex -> Nat]
      BY <1>0, <1>4 DEF MuType, os_mutex_init, os_mutex_pend_free, os_mutex_pend_own
    <2> QED
      BY <2>3, <2>4
  <1>6. mu_level' \in [Mutex -> 0 .. MaxLevel]
    BY <1>0, MuFacts DEF MuType, os_mutex_init, os_mutex_pend_free, os_mutex_pend_own
  <1>7. MuType'
    BY <1>0, <1>1, <1>5, <1>6 DEF MuType, schedVars
  <1> QED
    BY <1>1, <1>2, <1>3, <1>7 DEF Base

LEMMA BaseInit == Init => Base
  <1> SUFFICES ASSUME Init PROVE Base
    OBVIOUS
  <1>1. KernelInv
    BY KernelInit DEF Init
  <1>2. /\ sched.t_obj = [t \in Task |-> NULL] /\ isr = "none" /\ crit = FALSE /\ pendsv = FALSE
        /\ pc = [t \in Task |-> "app"] /\ next_t = [t \in Task |-> NULL] /\ ret = [t \in Task |-> "app"]
    BY DEF Init, SchedInit
  <1>3. /\ isr \in {"none", "timer_exp"} /\ crit \in BOOLEAN /\ pendsv \in BOOLEAN
        /\ pc \in [Task -> MuPc] /\ next_t \in [Task -> Task \cup {NULL}] /\ ret \in [Task -> MuRet]
    BY <1>2 DEF MuPc, MuRet
  <1>4. /\ mu_owner \in [Mutex -> Task \cup {NULL}] /\ mu_level \in [Mutex -> 0 .. MaxLevel]
        /\ mu_prio \in [Mutex -> Nat]
    BY MuFacts DEF Init
  <1>5. live \in [Mutex -> BOOLEAN] /\ on \in [Task -> Mutex \cup {NULL}] /\ on = [t \in Task |-> NULL]
    BY DEF Init
  <1>6. CallsMatch
    BY <1>2, <1>5 DEF CallsMatch, Scheds
  <1> QED
    BY <1>1, <1>3, <1>4, <1>5, <1>6 DEF Base, MuType

\* Inductive: every step of the kernel and of every call on a mutex.
LEMMA BaseStep ==
    ASSUME Base, [Next]_vars
    PROVE  Base'
  <1>1. CASE KernelStep
    BY <1>1, BaseKernelStep
  <1>2. CASE MutexStep
    <2>1. PICK t \in Users :
            \/ \E m \in Mutex :
                  \/ os_mutex_init(t, m) \/ os_mutex_pend_free(t, m) \/ os_mutex_pend_own(t, m)
                  \/ os_mutex_pend_wait(t, m) \/ os_mutex_release(t, m) \/ os_mutex_delete(t, m)
            \/ os_mutex_pend_return(t) \/ os_mutex_release_crit(t)
            \/ os_mutex_delete_wake(t) \/ os_mutex_delete_end(t)
      BY <1>2 DEF MutexStep
    <2> QED
      BY <2>1, BaseQuiet, BasePendWait, BaseRelease, BaseDelete, BasePendReturn, BaseReleaseCrit,
         BaseDeleteWake, BaseDeleteEnd
  <1>3. CASE UNCHANGED vars
    <2>1. KernelInv'
      BY <1>3, KernelStutter DEF vars, schedVars, Base
    <2>2. MuType'
      BY <1>3 DEF vars, MuType, Base
    <2>3. CallsMatch'
      BY <1>3 DEF vars, CallsMatch, Base
    <2> QED
      BY <2>1, <2>2, <2>3 DEF Base
  <1> QED
    BY <1>1, <1>2, <1>3 DEF Next

\* The lists of the kernel are consistent whatever tasks do with mutexes: however
\* pends, time-outs, inheritance, releases and deletions of os_mutex.c interleave
\* with the scheduler, and with or without an interrupt between the decrement of
\* mu_level and the critical section of os_mutex_release.
THEOREM MutexListsStayConsistent == Spec => []SchedConsistent
  <1>1. Init => Base
    BY BaseInit
  <1>2. Base /\ [Next]_vars => Base'
    BY BaseStep
  <1>3. Base => SchedConsistent
    BY DEF Base, KernelInv, Good, SchedConsistent
  <1> QED
    BY <1>1, <1>2, <1>3, PTL DEF Spec

-----------------------------------------------------------------------------
(* What a step does to priorities, waits and program counters.             *)

LEMMA BaseCalls == Base => Calls
  <1> SUFFICES ASSUME Base PROVE Calls
    OBVIOUS
  <1>0. KernelInv /\ MuType /\ CallsMatch
    BY DEF Base
  <1>1. sched.t_prio \in [Task -> Nat]
    BY <1>0 DEF KernelInv, Good, SchedType
  <1>2. ASSUME NEW t \in Task, InApp(t) PROVE sched.t_obj[t] = NULL
    BY <1>0, <1>2, RunningFree DEF InApp
  <1> QED
    BY <1>0, <1>1, <1>2, FirstWaiterFacts DEF Calls, Kernel

LEMMA BaseMoves == Base => Moves
  <1> SUFFICES ASSUME Base PROVE Moves
    OBVIOUS
  <1>1. ASSUME KernelStep PROVE KernelMoves
    BY <1>1, BaseKernelStep
  <1>2. ASSUME NEW t \in Users, NEW m \in Mutex, os_mutex_pend_wait(t, m) PROVE WaitMoves(t, m)
    BY <1>2, BasePendWait
  <1>3. ASSUME NEW t \in Users, NEW m \in Mutex, os_mutex_delete(t, m) PROVE DeleteMoves(m)
    BY <1>3, BaseDelete
  <1>4. ASSUME NEW t \in Users, os_mutex_release_crit(t) PROVE ReleaseMoves(t)
    BY <1>4, BaseReleaseCrit
  <1>5. ASSUME NEW t \in Users, os_mutex_delete_wake(t) PROVE WakeMoves
    BY <1>5, BaseDeleteWake
  <1>6. ASSUME NEW t \in Users, os_mutex_delete_end(t) PROVE EndMoves(t)
    BY <1>6, BaseDeleteEnd
  <1> QED
    BY <1>1, <1>2, <1>3, <1>4, <1>5, <1>6 DEF Moves

-----------------------------------------------------------------------------
(* Exclusion and priorities, for every value of the constants.             *)

\* A mutex excludes: a task to which os_mutex_pend has granted it is its owner, at
\* the level it has been granted and not released, through nested pends, hand-over,
\* time-outs and deletion.  It rests on the interrupt that may not fall between the
\* decrement of mu_level and the critical section of os_mutex_release.
THEOREM MutexExcludes == ReleaseGap = FALSE => (Spec => []MutualExclusion)
  <1> SUFFICES ASSUME ReleaseGap = FALSE PROVE Spec => []MutualExclusion
    OBVIOUS
  <1> DEFINE Inv == Base /\ CritAlone /\ Ownership
  <1>1. Init => Inv
    BY BaseInit, CritInit, OwnershipInit
  <1>2. Inv /\ [Next]_vars => Inv'
    BY BaseStep, BaseCalls, BaseMoves, CritStep, OwnershipStep
  <1>3. Inv => MutualExclusion
    BY DEF Ownership, HolderOwns, MutualExclusion
  <1> QED
    BY <1>1, <1>2, <1>3, PTL DEF Spec

MutexInv == Base /\ CritAlone /\ Ownership /\ Prios

LEMMA MutexInvHolds ==
    ASSUME ReleaseGap = FALSE, Nested = FALSE
    PROVE  Spec => []MutexInv
  <1>1. Init => MutexInv
    BY BaseInit, CritInit, OwnershipInit, PriosInit DEF MutexInv
  <1>2. MutexInv /\ [Next]_vars => MutexInv'
    BY BaseStep, BaseCalls, BaseMoves, CritStep, OwnershipStep, PriosStep DEF MutexInv
  <1> QED
    BY <1>1, <1>2, PTL DEF Spec

\* Priority inheritance of os_mutex_pend: when tasks hold one mutex at a time, the
\* owner of a mutex is never less urgent than a task that waits for it, whoever
\* comes, times out, is handed the mutex or has it deleted.
THEOREM OwnerInheritsPriority ==
    ReleaseGap = FALSE /\ Nested = FALSE => (Spec => []Inheritance)
  <1> SUFFICES ASSUME ReleaseGap = FALSE, Nested = FALSE PROVE Spec => []Inheritance
    OBVIOUS
  <1>1. MutexInv => Inheritance
    <2> SUFFICES ASSUME MutexInv, NEW m \in Mutex, live[m], mu_level[m] # 0,
                        NEW i \in DOMAIN sched.obj_head[m]
                 PROVE  sched.t_prio[mu_owner[m]] <= sched.t_prio[sched.obj_head[m][i]]
      BY DEF Inheritance
    <2>1. OwnerKnown(m) /\ mu_level[m] \in Nat
      BY DEF MutexInv, Ownership, Base, MuType
    <2>2. mu_owner[m] \in Task /\ Owns(mu_owner[m], m)
      BY <2>1 DEF OwnerKnown, Owns
    <2>3. PICK u \in Task : u = sched.obj_head[m][i]
      BY DEF MutexInv, Base, KernelInv, Good, SchedType, Mutex
    <2>4. sched.t_obj[u] = m
      <3>1. WaitExact(sched) /\ m \in Obj
        BY DEF MutexInv, Base, KernelInv, Good, ListsConsistent, Mutex
      <3>2. u \in Range(sched.obj_head[m])
        BY <2>3 DEF Range
      <3> QED
        BY <3>1, <3>2, NullIsNothing DEF WaitExact
    <2> QED
      BY <2>2, <2>3, <2>4 DEF MutexInv, Prios, OwnerUrgent
  <1> QED
    BY <1>1, MutexInvHolds, PTL

\* os_mutex_release and os_mutex_delete give priorities back: a task whose priority
\* is not its own owns a mutex, or is just releasing it.
THEOREM PriorityIsGivenBack ==
    ReleaseGap = FALSE /\ Nested = FALSE => (Spec => []PriorityRestored)
  <1> SUFFICES ASSUME ReleaseGap = FALSE, Nested = FALSE PROVE Spec => []PriorityRestored
    OBVIOUS
  <1>1. MutexInv => PriorityRestored
    <2> SUFFICES ASSUME MutexInv, NEW t \in Task, sched.t_prio[t] # Prio[t]
                 PROVE  \E m \in Mutex : mu_owner[m] = t /\ (mu_level[m] # 0 \/ on[t] = m)
      BY DEF PriorityRestored
    <2>1. PICK m \in Mutex : live[m] /\ mu_owner[m] = t
      BY DEF MutexInv, Prios, BoostedOwns, Owns
    <2>2. OwnerKnown(m) /\ t # NULL
      BY MuFacts DEF MutexInv, Ownership
    <2> QED
      BY <2>1, <2>2 DEF OwnerKnown
  <1> QED
    BY <1>1, MutexInvHolds, PTL
=============================================================================
