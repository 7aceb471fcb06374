------------------------- MODULE OsMutexOwnerProofs -------------------------
(***************************************************************************)
(* Who owns a mutex, and at what priority: the part of the argument about  *)
(* os_mutex.c that does not look into the lists of the scheduler.  What    *)
(* the lists contribute to a step is stated by Kernel and Moves, which     *)
(* OsMutexProofs proves from the invariant of the lists.                   *)
(***************************************************************************)
EXTENDS OsMutex

-----------------------------------------------------------------------------
(* Where tasks are, with or without the gap of os_mutex_release.           *)

MuPc == {"app", "os_sched", "os_arch_ctx_sw", "os_mutex_pend", "os_mutex_release", "os_mutex_delete"}
MuRet == {"app", "os_mutex_pend"}

\* A task in a call that goes through os_sched.
Scheds == {"os_sched", "os_arch_ctx_sw"}
Pends == {"os_sched", "os_arch_ctx_sw", "os_mutex_pend"}

\* The variables' types, those of the kernel's that KernelInv has and the history's
\* excepted.
MuType ==
    /\ isr \in {"none", "timer_exp"} /\ crit \in BOOLEAN /\ pendsv \in BOOLEAN
    /\ pc \in [Task -> MuPc] /\ next_t \in [Task -> Task \cup {NULL}] /\ ret \in [Task -> MuRet]
    /\ mu_owner \in [Mutex -> Task \cup {NULL}]
    /\ mu_level \in [Mutex -> 0 .. MaxLevel] /\ mu_prio \in [Mutex -> Nat]
    /\ live \in [Mutex -> BOOLEAN] /\ on \in [Task -> Mutex \cup {NULL}]

\* `on` is set exactly in a call; a task on the list of a mutex is in os_mutex_pend.
CallsMatch ==
    \A t \in Task :
        /\ pc[t] = "app" => on[t] = NULL
        /\ pc[t] \in {"os_mutex_pend", "os_mutex_release", "os_mutex_delete"} => on[t] # NULL
        /\ pc[t] \in Scheds => (on[t] = NULL <=> ret[t] = "app")
        /\ sched.t_obj[t] # NULL => on[t] = sched.t_obj[t] /\ pc[t] \in Pends

\* The waiters of each object are in the order of priority.
WaitOrdered(K) == \A o \in Obj : Ordered(K.obj_head[o], K.t_prio)

\* What the lists say: a running task waits for nothing, and the first waiter of a
\* mutex is the most urgent of the tasks that wait for it.
Kernel ==
    /\ sched.t_prio \in [Task -> Nat]
    /\ \A t \in Task : InApp(t) => sched.t_obj[t] = NULL
    /\ \A m \in Mutex :
          /\ FirstWaiter(m) # NULL =>
                /\ FirstWaiter(m) \in Task /\ sched.t_obj[FirstWaiter(m)] = m
                /\ WaitOrdered(sched) =>
                      \A u \in Task : sched.t_obj[u] = m => sched.t_prio[FirstWaiter(m)] <= sched.t_prio[u]
          /\ FirstWaiter(m) = NULL => \A u \in Task : sched.t_obj[u] # m

Calls == MuType /\ CallsMatch /\ Kernel

-----------------------------------------------------------------------------
(* What a step does to the tasks' priorities, waits and program counters.  *)

KernelMoves ==
    /\ CallsMatch' /\ crit' = crit /\ sched'.t_prio = sched.t_prio
    /\ WaitOrdered(sched) => WaitOrdered(sched')
    /\ \A u \in Task : sched'.t_obj[u] \in {sched.t_obj[u], NULL}
    /\ \A u \in Task :
          \/ pc'[u] = pc[u]
          \/ pc[u] = "app" /\ pc'[u] = "os_sched"
          \/ pc[u] \in Scheds /\ pc'[u] \in {"os_arch_ctx_sw", "app", "os_mutex_pend"}

WaitMoves(t, m) ==
    /\ t # mu_owner[m] /\ mu_owner[m] \in Task
    /\ \A u \in Task : sched'.t_obj[u] = IF u = t THEN m ELSE sched.t_obj[u]
    /\ \A u \in Task \ {mu_owner[m]} : sched'.t_prio[u] = sched.t_prio[u]
    /\ sched'.t_prio[mu_owner[m]] = IF sched.t_prio[mu_owner[m]] > sched.t_prio[t]
                                    THEN sched.t_prio[t] ELSE sched.t_prio[mu_owner[m]]
    /\ sched.t_obj[mu_owner[m]] = NULL /\ WaitOrdered(sched) => WaitOrdered(sched')
    /\ pc' = [pc EXCEPT ![t] = "os_sched"]

ReleaseMoves(t) ==
    \E m \in Mutex, rdy \in Task \cup {NULL} :
        /\ m = on[t] /\ rdy = FirstWaiter(m) /\ rdy # t
        /\ \A u \in Task : sched'.t_prio[u] = IF u = t THEN mu_prio[m] ELSE sched.t_prio[u]
        /\ \A u \in Task : sched'.t_obj[u] = IF u = rdy THEN NULL ELSE sched.t_obj[u]
        /\ sched.t_obj[t] = NULL
        /\ WaitOrdered(sched) => WaitOrdered(sched')
        /\ pc'[t] \in {"app", "os_sched"} /\ \A u \in Task \ {t} : pc'[u] = pc[u]
        /\ rdy # NULL => mu_prio' = [mu_prio EXCEPT ![m] = sched.t_prio[rdy]]

DeleteMoves(m) ==
    /\ sched'.t_obj = sched.t_obj
    /\ \A u \in Task : sched'.t_prio[u] =
          IF u = mu_owner[m] /\ mu_level[m] # 0 THEN mu_prio[m] ELSE sched.t_prio[u]
    /\ \/ mu_owner[m] \in Task /\ sched.t_obj[mu_owner[m]] = NULL
       \/ mu_owner[m] \notin Task
       => (WaitOrdered(sched) => WaitOrdered(sched'))

WakeMoves ==
    /\ sched'.t_prio = sched.t_prio
    /\ \A u \in Task : sched'.t_obj[u] \in {sched.t_obj[u], NULL}
    /\ WaitOrdered(sched) => WaitOrdered(sched')

EndMoves(t) == pc'[t] \in {"app", "os_sched"} /\ \A u \in Task \ {t} : pc'[u] = pc[u]

Moves ==
    /\ KernelStep => KernelMoves
    /\ \A t \in Users :
          /\ \A m \in Mutex : (os_mutex_pend_wait(t, m) => WaitMoves(t, m))
                             /\ (os_mutex_delete(t, m) => DeleteMoves(m))
          /\ os_mutex_release_crit(t) => ReleaseMoves(t)
          /\ os_mutex_delete_wake(t) => WakeMoves
          /\ os_mutex_delete_end(t) => EndMoves(t)

LEMMA MuFacts ==
    /\ NULL \notin Task /\ NULL \notin Mutex /\ Users \subseteq Task /\ Idle \notin Users
    /\ MaxLevel \in Nat /\ 1 <= MaxLevel
    /\ {"app", "os_sched", "os_arch_ctx_sw"} \subseteq MuPc /\ MuRet \subseteq MuPc /\ "app" \in MuRet
  BY SchedAssumption, MutexAssumption DEF Mutex, MuPc, MuRet

-----------------------------------------------------------------------------
(* Exclusion, when no interrupt falls between the decrement of mu_level and   *)
(* the critical section of os_mutex_release.                               *)

Crits == {"os_mutex_release", "os_mutex_delete"}

\* Interrupts are off exactly while the running task is in a critical section of
\* more than one step.
CritAlone ==
    /\ crit => isr = "none" /\ ~pendsv /\ psv = NULL /\ pc[cur] \in Crits
    /\ \A t \in Task : pc[t] \in Crits => t = cur /\ crit

\* A mutex is free, being released, granted to its owner, or handed to a task
\* that has yet to return from os_mutex_pend.
OwnerKnown(m) ==
    live[m] =>
        \/ mu_level[m] = 0 /\ mu_owner[m] = NULL
        \/ /\ mu_level[m] = 0 /\ mu_owner[m] \in Task
           /\ pc[mu_owner[m]] = "os_mutex_release" /\ on[mu_owner[m]] = m
        \/ mu_level[m] # 0 /\ mu_owner[m] \in Task /\ held[mu_owner[m]][m] = mu_level[m]
        \/ /\ mu_level[m] = 1 /\ mu_owner[m] \in Task /\ on[mu_owner[m]] = m
           /\ sched.t_obj[mu_owner[m]] = NULL /\ pc[mu_owner[m]] \in Pends

ReleaserOwns(t) ==
    pc[t] = "os_mutex_release" => live[on[t]] /\ mu_level[on[t]] = 0 /\ mu_owner[on[t]] = t

HolderOwns(t, m) ==
    held[t][m] # 0 => live[m] /\ mu_owner[m] = t /\ mu_level[m] = held[t][m] /\ on[t] # m

Ownership ==
    /\ held \in [Task -> [Mutex -> Nat]]
    /\ \A m \in Mutex : OwnerKnown(m)
    /\ \A t \in Task : ReleaserOwns(t)
    /\ \A t \in Task, m \in Mutex : HolderOwns(t, m)

\* An owner whose own task does not move stays known.
LEMMA OwnerStays ==
    ASSUME NEW n \in Mutex, OwnerKnown(n), live'[n] => live[n], NEW o, o = mu_owner[n],
           mu_owner'[n] = o, mu_level'[n] = mu_level[n],
           o \in Task => /\ held'[o][n] = held[o][n] /\ on'[o] = on[o] /\ pc'[o] = pc[o]
                         /\ sched'.t_obj[o] \in {sched.t_obj[o], NULL}
    PROVE  OwnerKnown(n)'
  BY DEF OwnerKnown

LEMMA OwnershipReleaseCrit ==
    ASSUME Calls, CritAlone, Ownership, NEW t \in Users, os_mutex_release_crit(t), ReleaseMoves(t)
    PROVE  Ownership'
  <1>0. PICK m \in Mutex, rdy \in Task \cup {NULL} :
           /\ m = on[t] /\ rdy = FirstWaiter(m) /\ rdy # t
           /\ \A u \in Task : sched'.t_obj[u] = IF u = rdy THEN NULL ELSE sched.t_obj[u]
           /\ pc'[t] \in {"app", "os_sched"} /\ \A u \in Task \ {t} : pc'[u] = pc[u]
    BY DEF ReleaseMoves
  <1>1. /\ t \in Task /\ m \in Mutex /\ NULL \notin Mutex /\ NULL \notin Task /\ rdy # t
        /\ \A u \in Task : sched'.t_obj[u] = IF u = rdy THEN NULL ELSE sched.t_obj[u]
        /\ pc'[t] \in {"app", "os_sched"} /\ \A u \in Task \ {t} : pc'[u] = pc[u]
    BY <1>0, MuFacts
  <1>2. /\ pc[t] = "os_mutex_release" /\ UNCHANGED <<live, held>> /\ on' = [on EXCEPT ![t] = NULL]
        /\ mu_owner' = [mu_owner EXCEPT ![m] = rdy]
        /\ mu_level' = IF rdy = NULL THEN mu_level ELSE [mu_level EXCEPT ![m] = 1]
    BY <1>0 DEF os_mutex_release_crit
  <1>3. live[m] /\ mu_level[m] = 0 /\ mu_owner[m] = t
    BY <1>0, <1>1, <1>2 DEF Ownership, ReleaserOwns
  <1>4. \A u \in Task \ {t} : pc[u] # "os_mutex_release"
    BY <1>1, <1>2 DEF CritAlone, Crits
  <1>5. on'[t] = NULL /\ \A u \in Task \ {t} : on'[u] = on[u]
    BY <1>1, <1>2 DEF Calls, MuType
  <1>6. /\ mu_owner'[m] = rdy
        /\ \A n \in Mutex \ {m} : mu_owner'[n] = mu_owner[n] /\ mu_level'[n] = mu_level[n]
        /\ mu_level'[m] = IF rdy = NULL THEN 0 ELSE 1
    BY <1>1, <1>2, <1>3 DEF Calls, MuType
  <1>7. rdy # NULL => /\ rdy \in Task /\ on[rdy] = m /\ pc[rdy] \in Pends
                     /\ sched'.t_obj[rdy] = NULL
    <2>1. rdy # NULL => rdy \in Task /\ sched.t_obj[rdy] = m
      BY <1>0 DEF Calls, Kernel
    <2> QED
      BY <1>1, <2>1 DEF Calls, CallsMatch
  <1>8. ASSUME NEW n \in Mutex PROVE OwnerKnown(n)'
    <2>1. OwnerKnown(n)
      BY DEF Ownership
    <2>2. CASE n = m /\ rdy = NULL
      BY <1>6, <2>2 DEF OwnerKnown
    <2>3. CASE n = m /\ rdy # NULL
      BY <1>1, <1>5, <1>6, <1>7, <2>3 DEF OwnerKnown
    <2>4. CASE n # m /\ mu_owner[n] = t
      BY <1>0, <1>1, <1>2, <1>6, <2>1, <2>4 DEF OwnerKnown
    <2>5. CASE n # m /\ mu_owner[n] # t
      <3>1. PICK o : o = mu_owner[n]
        OBVIOUS
      <3>2. o \in Task => on'[o] = on[o] /\ pc'[o] = pc[o] /\ sched'.t_obj[o] \in {sched.t_obj[o], NULL}
        BY <1>1, <1>5, <2>5, <3>1
      <3>3. /\ live' = live /\ held' = held /\ mu_owner'[n] = o /\ mu_level'[n] = mu_level[n]
        BY <1>2, <1>6, <2>5, <3>1
      <3> QED
        BY <2>1, <3>1, <3>2, <3>3, OwnerStays
    <2> QED
      BY <2>2, <2>3, <2>4, <2>5
  <1>9. ASSUME NEW u \in Task, NEW n \in Mutex PROVE HolderOwns(u, n)'
    <2>1. HolderOwns(u, n)
      BY DEF Ownership
    <2>2. CASE n = m
      BY <1>2, <1>3, <2>1, <2>2 DEF HolderOwns
    <2>3. CASE n # m
      BY <1>1, <1>2, <1>5, <1>6, <2>1, <2>3 DEF HolderOwns
    <2> QED
      BY <2>2, <2>3
  <1>10. \A u \in Task : pc'[u] # "os_mutex_release"
    BY <1>1, <1>4
  <1> QED
    BY <1>2, <1>8, <1>9, <1>10 DEF Ownership, ReleaserOwns

\* The turns of the loop of os_mutex_delete, and its end.
LEMMA OwnershipDeleted ==
    ASSUME Calls, CritAlone, Ownership, NEW t \in Users,
           \/ os_mutex_delete_wake(t) /\ WakeMoves
           \/ os_mutex_delete_end(t) /\ EndMoves(t)
    PROVE  Ownership'
  <1>0. t \in Task /\ Running(t) /\ pc[t] = "os_mutex_delete" /\ UNCHANGED <<mu_owner, mu_level, live, held>>
    BY MuFacts DEF os_mutex_delete_wake, os_mutex_delete_end, muVars
  <1>1. \A u \in Task : pc[u] # "os_mutex_release"
    BY <1>0 DEF CritAlone, Crits
  <1>2. \A u \in Task : sched'.t_obj[u] \in {sched.t_obj[u], NULL}
    BY DEF WakeMoves, os_mutex_delete_end
  <1>3. /\ \A u \in Task \ {t} : on'[u] = on[u] /\ pc'[u] = pc[u]
        /\ on'[t] \in {on[t], NULL} /\ pc'[t] # "os_mutex_release"
    <2>1. CASE os_mutex_delete_wake(t)
      BY <1>0, <2>1 DEF os_mutex_delete_wake, muVars
    <2>2. CASE os_mutex_delete_end(t) /\ EndMoves(t)
      <3>1. pc'[t] \in {"app", "os_sched"} /\ \A u \in Task \ {t} : pc'[u] = pc[u]
        BY <2>2 DEF EndMoves
      <3>2. on' = [on EXCEPT ![t] = NULL] /\ on \in [Task -> Mutex \cup {NULL}]
        BY <2>2 DEF os_mutex_delete_end, Calls, MuType
      <3> QED
        BY <1>0, <3>1, <3>2
    <2> QED
      BY <2>1, <2>2
  <1>4. ASSUME NEW n \in Mutex PROVE OwnerKnown(n)'
    <2>1. OwnerKnown(n)
      BY DEF Ownership
    <2>2. CASE mu_owner[n] = t
      BY <1>0, <2>1, <2>2 DEF OwnerKnown, Pends
    <2>3. CASE mu_owner[n] # t
      <3>1. PICK o : o = mu_owner[n]
        OBVIOUS
      <3>2. o \in Task => on'[o] = on[o] /\ pc'[o] = pc[o] /\ sched'.t_obj[o] \in {sched.t_obj[o], NULL}
        BY <1>2, <1>3, <2>3, <3>1
      <3>3. live' = live /\ held' = held /\ mu_owner'[n] = o /\ mu_level' = mu_level
        BY <1>0, <3>1
      <3> QED
        BY <2>1, <3>1, <3>2, <3>3, OwnerStays
    <2> QED
      BY <2>2, <2>3
  <1>5. ASSUME NEW u \in Task, NEW n \in Mutex PROVE HolderOwns(u, n)'
    <2>1. HolderOwns(u, n) /\ n # NULL
      BY MuFacts DEF Ownership
    <2> QED
      BY <1>0, <1>3, <2>1 DEF HolderOwns
  <1>6. \A u \in Task : pc'[u] # "os_mutex_release"
    BY <1>1, <1>3
  <1> QED
    BY <1>0, <1>4, <1>5, <1>6 DEF Ownership, ReleaserOwns

\* A task that executes its own code is in no critical section, and nobody else is.
LEMMA AppNoCrit ==
    ASSUME CritAlone, NEW t \in Task, Running(t), pc[t] = "app"
    PROVE  ~crit /\ \A u \in Task : pc[u] \notin Crits
  BY DEF CritAlone, Crits, Running

LEMMA OwnershipDelete ==
    ASSUME Calls, CritAlone, Ownership, NEW t \in Users, NEW m \in Mutex, os_mutex_delete(t, m),
           DeleteMoves(m)
    PROVE  Ownership'
  <1>0. t \in Task /\ Running(t) /\ pc[t] = "app"
    BY MuFacts DEF os_mutex_delete, InApp
  <1>1. \A u \in Task : pc[u] # "os_mutex_release"
    BY <1>0, AppNoCrit DEF Crits
  <1>2. on[t] = NULL /\ sched'.t_obj = sched.t_obj /\ NULL \notin Mutex
    BY <1>0, MuFacts DEF DeleteMoves, Calls, CallsMatch
  <1>3. /\ UNCHANGED <<mu_owner, mu_level>> /\ live' = [live EXCEPT ![m] = FALSE]
        /\ held' = [u \in Task |-> [held[u] EXCEPT ![m] = 0]]
        /\ pc' = [pc EXCEPT ![t] = "os_mutex_delete"] /\ on' = [on EXCEPT ![t] = m]
    BY DEF os_mutex_delete
  <1>4. held \in [Task -> [Mutex -> Nat]]
    BY DEF Ownership
  <1>5. /\ held' \in [Task -> [Mutex -> Nat]]
        /\ \A u \in Task : held'[u][m] = 0 /\ \A n \in Mutex \ {m} : held'[u][n] = held[u][n]
    BY <1>3, <1>4
  <1>6. ~live'[m] /\ \A n \in Mutex \ {m} : live'[n] = live[n]
    BY <1>3 DEF Calls, MuType
  <1>7. /\ on'[t] = m /\ pc'[t] = "os_mutex_delete"
        /\ \A u \in Task \ {t} : on'[u] = on[u] /\ pc'[u] = pc[u]
    BY <1>0, <1>3 DEF Calls, MuType
  <1>8. ASSUME NEW n \in Mutex PROVE OwnerKnown(n)'
    <2>1. OwnerKnown(n)
      BY DEF Ownership
    <2>2. CASE n = m
      BY <1>6, <2>2 DEF OwnerKnown
    <2>3. CASE n # m /\ mu_owner[n] = t
      BY <1>0, <1>1, <1>2, <1>3, <1>5, <1>6, <2>1, <2>3 DEF OwnerKnown
    <2>4. CASE n # m /\ mu_owner[n] # t
      <3>1. PICK o : o = mu_owner[n]
        OBVIOUS
      <3>2. o \in Task => on'[o] = on[o] /\ pc'[o] = pc[o] /\ held'[o][n] = held[o][n]
        BY <1>5, <1>7, <2>4, <3>1
      <3>3. live'[n] = live[n] /\ mu_owner'[n] = o /\ mu_level' = mu_level /\ sched'.t_obj = sched.t_obj
        BY <1>2, <1>3, <1>6, <2>4, <3>1
      <3> QED
        BY <2>1, <3>1, <3>2, <3>3, OwnerStays
    <2> QED
      BY <2>2, <2>3, <2>4
  <1>9. ASSUME NEW u \in Task, NEW n \in Mutex PROVE HolderOwns(u, n)'
    <2>1. HolderOwns(u, n)
      BY DEF Ownership
    <2> QED
      BY <1>3, <1>5, <1>6, <1>7, <2>1 DEF HolderOwns
  <1>10. \A u \in Task : pc'[u] # "os_mutex_release"
    BY <1>1, <1>7
  <1> QED
    BY <1>5, <1>8, <1>9, <1>10 DEF Ownership, ReleaserOwns

\* What the running task's state says of the mutexes it can be in a call on.
LEMMA OwnerInApp ==
    ASSUME Calls, CritAlone, Ownership, NEW t \in Users, InApp(t), NEW m \in Mutex, live[m]
    PROVE  /\ on[t] = NULL /\ sched.t_obj[t] = NULL
           /\ mu_level[m] = 0 => mu_owner[m] = NULL /\ \A u \in Task : held[u][m] = 0
           /\ mu_level[m] # 0 /\ mu_owner[m] = t => held[t][m] = mu_level[m]
  <1>0. t \in Task /\ pc[t] = "app" /\ Running(t) /\ m # NULL
    BY MuFacts DEF InApp
  <1>1. on[t] = NULL /\ sched.t_obj[t] = NULL
    BY <1>0 DEF Calls, Kernel, CallsMatch
  <1>2. \A u \in Task : pc[u] # "os_mutex_release"
    BY <1>0, AppNoCrit DEF Crits
  <1>3. OwnerKnown(m) /\ \A u \in Task : HolderOwns(u, m)
    BY DEF Ownership
  <1>4. mu_level[m] = 0 => mu_owner[m] = NULL
    BY <1>2, <1>3 DEF OwnerKnown
  <1>5. mu_level[m] = 0 => \A u \in Task : held[u][m] = 0
    BY <1>3 DEF HolderOwns
  <1>6. mu_level[m] # 0 /\ mu_owner[m] = t => held[t][m] = mu_level[m]
    BY <1>0, <1>1, <1>3 DEF OwnerKnown
  <1> QED
    BY <1>1, <1>4, <1>5, <1>6

LEMMA OwnershipRelease ==
    ASSUME Calls, CritAlone, Ownership, NEW t \in Users, NEW m \in Mutex, os_mutex_release(t, m)
    PROVE  Ownership'
  <1>0. t \in Task /\ InApp(t) /\ Running(t) /\ pc[t] = "app" /\ live[m] /\ mu_level[m] # 0 /\ mu_owner[m] = t
    BY MuFacts DEF os_mutex_release, InApp
  <1>1. \A u \in Task : pc[u] # "os_mutex_release"
    BY <1>0, AppNoCrit DEF Crits
  <1>2. on[t] = NULL /\ held[t][m] = mu_level[m] /\ NULL \notin Mutex
    BY <1>0, OwnerInApp, MuFacts
  <1>3. /\ UNCHANGED <<sched, mu_owner, live>>
        /\ mu_level' = [mu_level EXCEPT ![m] = @ - 1] /\ held' = [held EXCEPT ![t][m] = @ - 1]
        /\ \/ /\ mu_level[m] = 1
              /\ pc' = [pc EXCEPT ![t] = "os_mutex_release"] /\ on' = [on EXCEPT ![t] = m]
           \/ mu_level[m] # 1 /\ UNCHANGED <<pc, on>>
    BY DEF os_mutex_release
  <1>4. held \in [Task -> [Mutex -> Nat]] /\ \A n \in Mutex : mu_level[n] \in Nat
    BY DEF Ownership, Calls, MuType
  <1>5. /\ held' \in [Task -> [Mutex -> Nat]] /\ held'[t][m] = held[t][m] - 1
        /\ \A u \in Task, n \in Mutex : u # t \/ n # m => held'[u][n] = held[u][n]
    BY <1>0, <1>2, <1>3, <1>4
  <1>6. mu_level'[m] = mu_level[m] - 1 /\ \A n \in Mutex \ {m} : mu_level'[n] = mu_level[n]
    BY <1>3 DEF Calls, MuType
  <1>7. /\ \A u \in Task \ {t} : on'[u] = on[u] /\ pc'[u] = pc[u]
        /\ mu_level[m] = 1 => pc'[t] = "os_mutex_release" /\ on'[t] = m
        /\ mu_level[m] # 1 => pc'[t] = "app" /\ on'[t] = NULL
    BY <1>0, <1>2, <1>3 DEF Calls, MuType
  <1>8. ASSUME NEW n \in Mutex PROVE OwnerKnown(n)'
    <2>1. OwnerKnown(n)
      BY DEF Ownership
    <2>2. CASE n = m /\ mu_level[m] = 1
      BY <1>0, <1>3, <1>6, <1>7, <2>2 DEF OwnerKnown
    <2>3. CASE n = m /\ mu_level[m] # 1
      BY <1>0, <1>2, <1>3, <1>4, <1>5, <1>6, <2>3 DEF OwnerKnown
    <2>4. CASE n # m /\ mu_owner[n] = t
      <3>1. live[n] => mu_level[n] # 0 /\ held[t][n] = mu_level[n]
        <4>1. t # NULL /\ pc[t] = "app" /\ on[t] # n
          BY <1>0, <1>2, MuFacts
        <4> QED
          BY <2>1, <2>4, <4>1 DEF OwnerKnown
      <3>2. live'[n] = live[n] /\ mu_owner'[n] = t /\ mu_level'[n] = mu_level[n] /\ held'[t][n] = held[t][n]
        BY <1>0, <1>3, <1>5, <1>6, <2>4
      <3> QED
        BY <1>0, <3>1, <3>2 DEF OwnerKnown
    <2>5. CASE n # m /\ mu_owner[n] # t
      BY <1>1, <1>3, <1>5, <1>6, <1>7, <2>1, <2>5 DEF OwnerKnown
    <2> QED
      BY <2>2, <2>3, <2>4, <2>5
  <1>9. ASSUME NEW u \in Task, NEW n \in Mutex PROVE HolderOwns(u, n)'
    <2>1. HolderOwns(u, n)
      BY DEF Ownership
    <2>2. CASE u = t /\ n = m
      BY <1>0, <1>2, <1>3, <1>4, <1>5, <1>6, <1>7, <2>2 DEF HolderOwns
    <2>3. CASE u = t /\ n # m
      BY <1>2, <1>3, <1>5, <1>6, <1>7, <2>1, <2>3 DEF HolderOwns
    <2>4. CASE u # t
      BY <1>0, <1>3, <1>5, <1>6, <1>7, <2>1, <2>4 DEF HolderOwns
    <2> QED
      BY <2>2, <2>3, <2>4
  <1>10. ASSUME NEW u \in Task PROVE ReleaserOwns(u)'
    BY <1>0, <1>1, <1>3, <1>6, <1>7 DEF ReleaserOwns
  <1> QED
    BY <1>5, <1>8, <1>9, <1>10 DEF Ownership

LEMMA OwnershipReturn ==
    ASSUME Calls, CritAlone, Ownership, NEW t \in Users, os_mutex_pend_return(t)
    PROVE  Ownership'
  <1>0. /\ t \in Task /\ on[t] \in Mutex /\ NULL \notin Mutex /\ Running(t) /\ pc[t] = "os_mutex_pend"
        /\ UNCHANGED <<sched, mu_owner, mu_level, live>>
        /\ pc' = [pc EXCEPT ![t] = "app"] /\ on' = [on EXCEPT ![t] = NULL]
        /\ held' = IF mu_owner[on[t]] = t /\ live[on[t]] THEN [held EXCEPT ![t][on[t]] = 1] ELSE held
    BY MuFacts DEF os_mutex_pend_return, Calls, MuType, CallsMatch
  <1>1. \A u \in Task : pc[u] # "os_mutex_release"
    BY <1>0 DEF CritAlone, Crits, Running
  <1>2. /\ on'[t] = NULL /\ pc'[t] = "app"
        /\ \A u \in Task \ {t} : on'[u] = on[u] /\ pc'[u] = pc[u]
    BY <1>0 DEF Calls, MuType
  <1>3. held \in [Task -> [Mutex -> Nat]] /\ OwnerKnown(on[t]) /\ HolderOwns(t, on[t])
    BY <1>0 DEF Ownership
  <1>4. /\ held' \in [Task -> [Mutex -> Nat]]
        /\ \A u \in Task, n \in Mutex : u # t \/ n # on[t] => held'[u][n] = held[u][n]
    BY <1>0, <1>3
  <1>5. held[t][on[t]] = 0
    BY <1>3 DEF HolderOwns
  <1>6. mu_owner[on[t]] = t /\ live[on[t]] => mu_level[on[t]] = 1 /\ held'[t][on[t]] = 1
    <2> SUFFICES ASSUME mu_owner[on[t]] = t, live[on[t]]
                 PROVE  mu_level[on[t]] = 1 /\ held'[t][on[t]] = 1
      OBVIOUS
    <2>1. mu_level[on[t]] = 1
      BY <1>0, <1>1, <1>3, <1>5, MuFacts DEF OwnerKnown
    <2>2. held'[t][on[t]] = 1
      BY <1>0, <1>3
    <2> QED
      BY <2>1, <2>2
  <1>7. ~ (mu_owner[on[t]] = t /\ live[on[t]]) => held' = held
    BY <1>0
  <1>8. ASSUME NEW n \in Mutex PROVE OwnerKnown(n)'
    <2>1. OwnerKnown(n)
      BY DEF Ownership
    <2>2. CASE mu_owner[n] = t /\ n = on[t]
      BY <1>0, <1>6, <2>2 DEF OwnerKnown
    <2>3. CASE mu_owner[n] = t /\ n # on[t]
      BY <1>0, <1>1, <1>4, <2>1, <2>3 DEF OwnerKnown
    <2>4. CASE mu_owner[n] # t
      BY <1>0, <1>1, <1>2, <1>4, <2>1, <2>4 DEF OwnerKnown
    <2> QED
      BY <2>2, <2>3, <2>4
  <1>9. ASSUME NEW u \in Task, NEW n \in Mutex PROVE HolderOwns(u, n)'
    <2>1. HolderOwns(u, n)
      BY DEF Ownership
    <2>2. CASE u = t /\ n = on[t]
      BY <1>0, <1>2, <1>5, <1>6, <1>7, <2>2 DEF HolderOwns
    <2>3. CASE u # t \/ n # on[t]
      <3>1. held'[u][n] = held[u][n]
        BY <1>4, <2>3
      <3> QED
        BY <1>0, <1>2, <2>1, <3>1 DEF HolderOwns
    <2> QED
      BY <2>2, <2>3
  <1>10. \A u \in Task : pc'[u] # "os_mutex_release"
    BY <1>1, <1>2
  <1> QED
    BY <1>4, <1>8, <1>9, <1>10 DEF Ownership, ReleaserOwns

LEMMA OwnershipWait ==
    ASSUME Calls, CritAlone, Ownership, NEW t \in Users, NEW m \in Mutex, os_mutex_pend_wait(t, m),
           WaitMoves(t, m)
    PROVE  Ownership'
  <1>0. t \in Task /\ InApp(t) /\ Running(t) /\ pc[t] = "app" /\ live[m]
    BY MuFacts DEF os_mutex_pend_wait, InApp, MayPend
  <1>1. \A u \in Task : pc[u] # "os_mutex_release"
    BY <1>0, AppNoCrit DEF Crits
  <1>2. /\ on[t] = NULL /\ NULL \notin Mutex /\ t # mu_owner[m]
        /\ \A u \in Task \ {t} : sched'.t_obj[u] = sched.t_obj[u]
        /\ pc' = [pc EXCEPT ![t] = "os_sched"]
    BY <1>0, OwnerInApp, MuFacts DEF WaitMoves
  <1>3. UNCHANGED <<mu_owner, mu_level, live, held>> /\ on' = [on EXCEPT ![t] = m]
    BY DEF os_mutex_pend_wait
  <1>4. /\ on'[t] = m /\ pc'[t] = "os_sched"
        /\ \A u \in Task \ {t} : on'[u] = on[u] /\ pc'[u] = pc[u]
    BY <1>0, <1>2, <1>3 DEF Calls, MuType
  <1>5. ASSUME NEW n \in Mutex PROVE OwnerKnown(n)'
    <2>1. OwnerKnown(n)
      BY DEF Ownership
    <2>2. CASE mu_owner[n] = t
      BY <1>0, <1>1, <1>2, <1>3, <2>1, <2>2 DEF OwnerKnown
    <2>3. CASE mu_owner[n] # t
      BY <1>1, <1>2, <1>3, <1>4, <2>1, <2>3 DEF OwnerKnown
    <2> QED
      BY <2>2, <2>3
  <1>6. ASSUME NEW u \in Task, NEW n \in Mutex PROVE HolderOwns(u, n)'
    <2>1. HolderOwns(u, n)
      BY DEF Ownership
    <2> QED
      BY <1>2, <1>3, <1>4, <2>1 DEF HolderOwns
  <1>7. \A u \in Task : pc'[u] # "os_mutex_release"
    BY <1>1, <1>4
  <1> QED
    BY <1>3, <1>5, <1>6, <1>7 DEF Ownership, ReleaserOwns

\* os_mutex_pend that is granted at once, the first time or again.
LEMMA OwnershipGrant ==
    ASSUME Calls, CritAlone, Ownership, NEW t \in Users, NEW m \in Mutex,
           os_mutex_pend_free(t, m) \/ os_mutex_pend_own(t, m)
    PROVE  Ownership'
  <1>0. t \in Task /\ InApp(t) /\ Running(t) /\ pc[t] = "app" /\ live[m] /\ m # NULL
    BY MuFacts DEF os_mutex_pend_free, os_mutex_pend_own, InApp, MayPend
  <1>1. \A u \in Task : pc[u] # "os_mutex_release"
    BY <1>0, AppNoCrit DEF Crits
  <1>2. /\ on[t] = NULL
        /\ mu_level[m] = 0 => \A u \in Task : held[u][m] = 0
        /\ mu_level[m] # 0 /\ mu_owner[m] = t => held[t][m] = mu_level[m]
    BY <1>0, OwnerInApp
  <1>3. /\ UNCHANGED <<pc, sched, on, live>> /\ held' = [held EXCEPT ![t][m] = @ + 1]
        /\ mu_level[m] = 0 \/ (mu_level[m] # 0 /\ mu_owner[m] = t)
    BY DEF os_mutex_pend_free, os_mutex_pend_own, schedVars
  <1>4. held \in [Task -> [Mutex -> Nat]] /\ \A n \in Mutex : mu_level[n] \in Nat
    BY DEF Ownership, Calls, MuType
  <1>5. /\ held' \in [Task -> [Mutex -> Nat]] /\ held'[t][m] = held[t][m] + 1
        /\ \A u \in Task, n \in Mutex : u # t \/ n # m => held'[u][n] = held[u][n]
    BY <1>0, <1>3, <1>4
  <1>6. /\ mu_owner'[m] = t /\ mu_level'[m] = mu_level[m] + 1
        /\ \A n \in Mutex \ {m} : mu_owner'[n] = mu_owner[n] /\ mu_level'[n] = mu_level[n]
    BY DEF os_mutex_pend_free, os_mutex_pend_own, Calls, MuType
  <1>7. held'[t][m] = mu_level'[m] /\ mu_level'[m] # 0
    BY <1>0, <1>2, <1>3, <1>4, <1>5, <1>6
  <1>8. ASSUME NEW n \in Mutex PROVE OwnerKnown(n)'
    <2>1. OwnerKnown(n)
      BY DEF Ownership
    <2>2. CASE n = m
      BY <1>0, <1>6, <1>7, <2>2 DEF OwnerKnown
    <2>3. CASE n # m
      <3>1. PICK o : o = mu_owner[n]
        OBVIOUS
      <3>2. o \in Task => held'[o][n] = held[o][n]
        BY <1>5, <2>3
      <3>3. mu_owner'[n] = o /\ mu_level'[n] = mu_level[n] /\ UNCHANGED <<live, on, pc, sched>>
        BY <1>3, <1>6, <2>3, <3>1
      <3> QED
        BY <2>1, <3>1, <3>2, <3>3, OwnerStays
    <2> QED
      BY <2>2, <2>3
  <1>9. ASSUME NEW u \in Task, NEW n \in Mutex PROVE HolderOwns(u, n)'
    <2>1. HolderOwns(u, n) /\ HolderOwns(u, m)
      BY DEF Ownership
    <2>2. CASE n # m
      BY <1>3, <1>5, <1>6, <2>1, <2>2 DEF HolderOwns
    <2>3. CASE n = m /\ u = t
      BY <1>0, <1>2, <1>3, <1>6, <1>7, <2>3 DEF HolderOwns
    <2>4. CASE n = m /\ u # t
      BY <1>2, <1>3, <1>5, <2>1, <2>4 DEF HolderOwns
    <2> QED
      BY <2>2, <2>3, <2>4
  <1> QED
    BY <1>1, <1>3, <1>5, <1>8, <1>9 DEF Ownership, ReleaserOwns

LEMMA OwnershipInitCall ==
    ASSUME Calls, CritAlone, Ownership, NEW t \in Users, NEW m \in Mutex, os_mutex_init(t, m)
    PROVE  Ownership'
  <1>0. t \in Task /\ Running(t) /\ pc[t] = "app"
    BY MuFacts DEF os_mutex_init, InApp
  <1>1. \A u \in Task : pc[u] # "os_mutex_release"
    BY <1>0, AppNoCrit DEF Crits
  <1>2. UNCHANGED <<pc, sched, on, held>> /\ ~live[m]
    BY DEF os_mutex_init, schedVars
  <1>3. /\ mu_owner'[m] = NULL /\ mu_level'[m] = 0
        /\ \A n \in Mutex \ {m} : mu_owner'[n] = mu_owner[n] /\ mu_level'[n] = mu_level[n] /\ live'[n] = live[n]
    BY DEF os_mutex_init, Calls, MuType
  <1>4. ASSUME NEW n \in Mutex PROVE OwnerKnown(n)'
    <2>1. OwnerKnown(n)
      BY DEF Ownership
    <2>2. CASE n = m
      BY <1>3, <2>2 DEF OwnerKnown
    <2>3. CASE n # m
      <3>1. mu_owner'[n] = mu_owner[n] /\ mu_level'[n] = mu_level[n] /\ live'[n] = live[n]
        BY <1>3, <2>3
      <3> QED
        BY <1>2, <2>1, <3>1, OwnerStays
    <2> QED
      BY <2>2, <2>3
  <1>5. ASSUME NEW u \in Task, NEW n \in Mutex PROVE HolderOwns(u, n)'
    <2>1. HolderOwns(u, n)
      BY DEF Ownership
    <2> QED
      BY <1>2, <1>3, <2>1 DEF HolderOwns
  <1> QED
    BY <1>1, <1>2, <1>4, <1>5 DEF Ownership, ReleaserOwns

\* Inside such a critical section neither the scheduler nor the tick takes a step.
LEMMA NoKernelStep ==
    ASSUME CritAlone, crit
    PROVE  ~ SchedNext
  <1>0. isr = "none" /\ ~pendsv /\ psv = NULL /\ pc[cur] \in {"os_mutex_release", "os_mutex_delete"}
    BY DEF CritAlone, Crits
  <1>1. ASSUME NEW t \in Task PROVE ~os_sched(t) /\ ~os_arch_ctx_sw(t) /\ ~os_time_delay(t)
    BY <1>0 DEF os_sched, os_arch_ctx_sw, os_time_delay, Running, InApp
  <1>2. ~PendSV_read /\ ~PendSV_switch /\ ~os_sched_os_timer_exp /\ ~timer_handler_end /\ ~SysTick
    BY <1>0 DEF PendSV_read, PendSV_switch, os_sched_os_timer_exp, timer_handler_end, SysTick, os_time_tick
  <1> QED
    BY <1>1, <1>2 DEF SchedNext, SchedStep

LEMMA CritKernelStep ==
    ASSUME CritAlone, KernelStep, KernelMoves
    PROVE  CritAlone' /\ ~crit
  <1>1. ~crit
    BY NoKernelStep DEF KernelStep
  <1>2. \A u \in Task : pc[u] \notin Crits
    BY <1>1 DEF CritAlone
  <1>3. /\ crit' = crit
        /\ \A u \in Task :
              \/ pc'[u] = pc[u]
              \/ pc[u] = "app" /\ pc'[u] = "os_sched"
              \/ pc[u] \in Scheds /\ pc'[u] \in {"os_arch_ctx_sw", "app", "os_mutex_pend"}
    BY DEF KernelMoves
  <1>4. \A u \in Task : pc'[u] \notin Crits
    BY <1>2, <1>3 DEF Crits
  <1> QED
    BY <1>1, <1>3, <1>4 DEF CritAlone

LEMMA OwnershipKernelStep ==
    ASSUME CritAlone, Ownership, KernelStep, KernelMoves
    PROVE  Ownership'
  <1>0. CallsMatch' /\ UNCHANGED <<mu_owner, mu_level, live, on, held>> /\ ~crit
    BY CritKernelStep DEF KernelStep, KernelMoves, muVars
  <1>1. \A u \in Task : /\ sched'.t_obj[u] \in {sched.t_obj[u], NULL}
                       /\ pc[u] # "os_mutex_release" /\ pc'[u] # "os_mutex_release"
    BY <1>0 DEF KernelMoves, CritAlone, Crits, Scheds
  <1>2. ASSUME NEW u \in Task, pc[u] \in Pends, on[u] # NULL PROVE pc'[u] \in Pends
    <2>1. pc'[u] # "app"
      BY <1>0, <1>2 DEF CallsMatch
    <2>2. \/ pc'[u] = pc[u]
          \/ pc[u] = "app" /\ pc'[u] = "os_sched"
          \/ pc[u] \in Scheds /\ pc'[u] \in {"os_arch_ctx_sw", "app", "os_mutex_pend"}
      BY DEF KernelMoves
    <2> QED
      BY <1>2, <2>1, <2>2 DEF Pends
  <1>3. ASSUME NEW m \in Mutex PROVE OwnerKnown(m)'
    <2>1. OwnerKnown(m) /\ m # NULL
      BY MuFacts DEF Ownership
    <2> QED
      BY <1>0, <1>1, <1>2, <2>1 DEF OwnerKnown
  <1>4. ASSUME NEW u \in Task, NEW m \in Mutex PROVE HolderOwns(u, m)'
    BY <1>0 DEF Ownership, HolderOwns
  <1> QED
    BY <1>0, <1>1, <1>3, <1>4 DEF Ownership, ReleaserOwns

\* A step of the running task that opens, stays in or leaves a critical section.
LEMMA CritTaskStep ==
    ASSUME CritAlone, NEW t \in Task, Running(t), UNCHANGED <<cur, isr, pendsv, psv>>,
           \A u \in Task \ {t} : pc'[u] = pc[u], crit' <=> pc'[t] \in Crits, crit' \in BOOLEAN
    PROVE  CritAlone'
  BY DEF CritAlone, Running

LEMMA CritStep ==
    ASSUME ReleaseGap = FALSE, Calls, CritAlone, Moves, [Next]_vars
    PROVE  CritAlone'
  <1>0. Users \subseteq Task /\ pc \in [Task -> MuPc] /\ crit \in BOOLEAN
    BY MuFacts DEF Calls, MuType
  <1>1. CASE KernelStep
    BY <1>1, CritKernelStep DEF Moves
  <1>2. ASSUME NEW t \in Users, NEW m \in Mutex,
               \/ os_mutex_init(t, m) \/ os_mutex_pend_free(t, m) \/ os_mutex_pend_own(t, m)
        PROVE  CritAlone'
    <2>1. UNCHANGED schedVars
      BY <1>2 DEF os_mutex_init, os_mutex_pend_free, os_mutex_pend_own
    <2> QED
      BY <2>1 DEF CritAlone, schedVars
  <1>3. ASSUME NEW t \in Users, NEW m \in Mutex, os_mutex_pend_wait(t, m)
        PROVE  CritAlone'
    <2>1. /\ Running(t) /\ pc[t] = "app" /\ pc' = [pc EXCEPT ![t] = "os_sched"]
          /\ UNCHANGED <<cur, isr, pendsv, psv, crit>>
      <3>1. WaitMoves(t, m)
        BY <1>3 DEF Moves
      <3> QED
        BY <1>3, <3>1 DEF os_mutex_pend_wait, InApp, WaitMoves
    <2>2. ~crit /\ ~crit'
      BY <1>0, <2>1, AppNoCrit
    <2> QED
      BY <1>0, <2>1, <2>2, CritTaskStep DEF Crits
  <1>4. ASSUME NEW t \in Users, NEW m \in Mutex, os_mutex_release(t, m)
        PROVE  CritAlone'
    <2>1. /\ Running(t) /\ pc[t] = "app" /\ UNCHANGED <<cur, isr, pendsv, psv>>
          /\ \/ pc' = [pc EXCEPT ![t] = "os_mutex_release"] /\ crit' = TRUE
             \/ UNCHANGED <<pc, crit>>
      BY <1>4 DEF os_mutex_release, InApp
    <2>2. CASE pc' = [pc EXCEPT ![t] = "os_mutex_release"] /\ crit' = TRUE
      BY <1>0, <2>1, <2>2, CritTaskStep DEF Crits
    <2>3. CASE UNCHANGED <<pc, crit>>
      BY <2>1, <2>3 DEF CritAlone
    <2> QED
      BY <2>1, <2>2, <2>3
  <1>5. ASSUME NEW t \in Users, NEW m \in Mutex, os_mutex_delete(t, m)
        PROVE  CritAlone'
    <2>1. /\ Running(t) /\ UNCHANGED <<cur, isr, pendsv, psv>>
          /\ pc' = [pc EXCEPT ![t] = "os_mutex_delete"] /\ crit' = TRUE
      BY <1>5 DEF os_mutex_delete, InApp
    <2> QED
      BY <1>0, <2>1, CritTaskStep DEF Crits
  <1>6. ASSUME NEW t \in Users, os_mutex_pend_return(t)
        PROVE  CritAlone'
    <2>1. /\ Running(t) /\ pc[t] = "os_mutex_pend" /\ pc' = [pc EXCEPT ![t] = "app"]
          /\ UNCHANGED <<cur, isr, pendsv, psv, crit>>
      BY <1>6 DEF os_mutex_pend_return
    <2>2. ~crit
      BY <1>0, <2>1 DEF CritAlone, Crits, Running
    <2> QED
      BY <1>0, <2>1, <2>2, CritTaskStep DEF Crits
  <1>7. ASSUME NEW t \in Users, os_mutex_release_crit(t) \/ os_mutex_delete_end(t)
        PROVE  CritAlone'
    <2>1. Running(t) /\ crit' = FALSE /\ UNCHANGED <<cur, isr, pendsv, psv>>
      BY <1>7 DEF os_mutex_release_crit, os_mutex_delete_end
    <2>2. pc'[t] \in {"app", "os_sched"} /\ \A u \in Task \ {t} : pc'[u] = pc[u]
      <3>1. ReleaseMoves(t) \/ EndMoves(t)
        BY <1>7 DEF Moves
      <3> QED
        BY <3>1 DEF ReleaseMoves, EndMoves
    <2> QED
      BY <1>0, <2>1, <2>2, CritTaskStep DEF Crits
  <1>8. ASSUME NEW t \in Users, os_mutex_delete_wake(t)
        PROVE  CritAlone'
    BY <1>8 DEF os_mutex_delete_wake, CritAlone
  <1>9. CASE UNCHANGED vars
    BY <1>9 DEF vars, CritAlone
  <1> QED
    BY <1>1, <1>2, <1>3, <1>4, <1>5, <1>6, <1>7, <1>8, <1>9 DEF Next, MutexStep

LEMMA CritInit == Init => CritAlone
  BY DEF Init, SchedInit, CritAlone, Crits

LEMMA OwnershipInit == Init => Ownership
  <1> SUFFICES ASSUME Init PROVE Ownership
    OBVIOUS
  <1>1. /\ pc = [t \in Task |-> "app"] /\ mu_owner = [m \in Mutex |-> NULL] /\ mu_level = [m \in Mutex |-> 0]
        /\ held = [t \in Task |-> [m \in Mutex |-> 0]]
    BY DEF Init, SchedInit
  <1> QED
    BY <1>1 DEF Ownership, OwnerKnown, ReleaserOwns, HolderOwns

LEMMA OwnershipStep ==
    ASSUME Calls, CritAlone, Ownership, Moves, [Next]_vars
    PROVE  Ownership'
  <1>1. CASE UNCHANGED vars
    BY <1>1 DEF vars, Ownership, OwnerKnown, ReleaserOwns, HolderOwns
  <1>2. CASE KernelStep
    BY <1>2, OwnershipKernelStep DEF Moves
  <1>3. ASSUME NEW t \in Users, NEW m \in Mutex,
               \/ os_mutex_init(t, m) \/ os_mutex_pend_free(t, m) \/ os_mutex_pend_own(t, m)
               \/ os_mutex_pend_wait(t, m) \/ os_mutex_release(t, m) \/ os_mutex_delete(t, m)
        PROVE  Ownership'
    BY <1>3, OwnershipInitCall, OwnershipGrant, OwnershipWait, OwnershipRelease, OwnershipDelete DEF Moves
  <1>4. ASSUME NEW t \in Users,
               \/ os_mutex_pend_return(t) \/ os_mutex_release_crit(t)
               \/ os_mutex_delete_wake(t) \/ os_mutex_delete_end(t)
        PROVE  Ownership'
    BY <1>4, OwnershipReturn, OwnershipReleaseCrit, OwnershipDeleted DEF Moves
  <1> QED
    BY <1>1, <1>2, <1>3, <1>4 DEF Next, MutexStep
=============================================================================
