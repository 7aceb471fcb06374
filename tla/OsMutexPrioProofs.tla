------------------------- MODULE OsMutexPrioProofs --------------------------
(***************************************************************************)
(* At what priority the owner of a mutex runs, when a task holds one mutex *)
(* at a time.                                                              *)
(***************************************************************************)
EXTENDS OsMutexOwnerProofs

-----------------------------------------------------------------------------

Owns(t, m) == live[m] /\ mu_owner[m] = t

\* Only an owner has another priority than its own,
BoostedOwns(t) == sched.t_prio[t] # Prio[t] => \E m \in Mutex : Owns(t, m)

\* which the mutex remembers; the owner waits for nothing and is in no other call;
OwnerRuns(t, m) ==
    Owns(t, m) => /\ mu_prio[m] = Prio[t] /\ sched.t_obj[t] = NULL
                  /\ on[t] # NULL /\ pc[t] # "os_mutex_delete" => on[t] = m

\* and it owns no other mutex.
OwnsOne(t, m, n) == Owns(t, m) /\ Owns(t, n) => m = n

\* The owner is at least as urgent as each waiter,
OwnerUrgent(t, u, m) ==
    Owns(t, m) /\ sched.t_obj[u] = m /\ mu_level[m] # 0 => sched.t_prio[t] <= sched.t_prio[u]

\* and nobody waits for a mutex that has no owner.
FreeUnwanted(u, m) == live[m] /\ mu_owner[m] = NULL => sched.t_obj[u] # m

Prios ==
    /\ WaitOrdered(sched)
    /\ \A t \in Task : BoostedOwns(t)
    /\ \A t \in Task, m \in Mutex : OwnerRuns(t, m) /\ FreeUnwanted(t, m)
    /\ \A t \in Task, m, n \in Mutex : OwnsOne(t, m, n)
    /\ \A t, u \in Task, m \in Mutex : OwnerUrgent(t, u, m)

LEMMA PriosReleaseCrit ==
    ASSUME Calls, CritAlone, Ownership, Prios, NEW t \in Users, os_mutex_release_crit(t), ReleaseMoves(t)
    PROVE  Prios'
  <1>0. PICK m \in Mutex, rdy \in Task \cup {NULL} :
           /\ m = on[t] /\ rdy = FirstWaiter(m) /\ rdy # t
           /\ \A u \in Task : sched'.t_prio[u] = IF u = t THEN mu_prio[m] ELSE sched.t_prio[u]
           /\ \A u \in Task : sched'.t_obj[u] = IF u = rdy THEN NULL ELSE sched.t_obj[u]
           /\ sched.t_obj[t] = NULL
           /\ WaitOrdered(sched) => WaitOrdered(sched')
           /\ \A u \in Task \ {t} : pc'[u] = pc[u]
           /\ rdy # NULL => mu_prio' = [mu_prio EXCEPT ![m] = sched.t_prio[rdy]]
    BY DEF ReleaseMoves
  <1>1. /\ t \in Task /\ m \in Mutex /\ NULL \notin Mutex /\ NULL \notin Task /\ rdy # t
        /\ \A u \in Task : sched'.t_prio[u] = IF u = t THEN mu_prio[m] ELSE sched.t_prio[u]
        /\ \A u \in Task : sched'.t_obj[u] = IF u = rdy THEN NULL ELSE sched.t_obj[u]
        /\ sched.t_obj[t] = NULL
        /\ WaitOrdered(sched) => WaitOrdered(sched')
        /\ \A u \in Task \ {t} : pc'[u] = pc[u]
        /\ rdy # NULL => mu_prio' = [mu_prio EXCEPT ![m] = sched.t_prio[rdy]]
    BY <1>0, MuFacts
  <1>2. /\ pc[t] = "os_mutex_release" /\ UNCHANGED live /\ on' = [on EXCEPT ![t] = NULL]
        /\ mu_owner' = [mu_owner EXCEPT ![m] = rdy]
        /\ mu_level' = IF rdy = NULL THEN mu_level ELSE [mu_level EXCEPT ![m] = 1]
        /\ rdy = NULL => mu_prio' = mu_prio
    BY <1>0 DEF os_mutex_release_crit
  <1>3. Owns(t, m) /\ live[m]
    BY <1>0, <1>1, <1>2 DEF Ownership, ReleaserOwns, Owns
  <1>4. mu_prio[m] = Prio[t] /\ \A n \in Mutex \ {m} : ~Owns(t, n)
    BY <1>1, <1>3 DEF Prios, OwnerRuns, OwnsOne
  <1>5. on'[t] = NULL /\ \A u \in Task \ {t} : on'[u] = on[u]
    BY <1>1, <1>2 DEF Calls, MuType
  <1>6. /\ mu_owner'[m] = rdy
        /\ \A n \in Mutex \ {m} : /\ mu_owner'[n] = mu_owner[n] /\ mu_level'[n] = mu_level[n]
                                /\ mu_prio'[n] = mu_prio[n]
        /\ rdy # NULL => mu_prio'[m] = sched.t_prio[rdy]
    BY <1>1, <1>2 DEF Calls, MuType
  <1>7. /\ rdy # NULL => /\ rdy \in Task /\ sched.t_obj[rdy] = m
                         /\ \A u \in Task : sched.t_obj[u] = m => sched.t_prio[rdy] <= sched.t_prio[u]
        /\ rdy = NULL => \A u \in Task : sched.t_obj[u] # m
    BY <1>0 DEF Calls, Kernel, Prios
  <1>8. rdy # NULL => /\ \A n \in Mutex : ~Owns(rdy, n)
                     /\ sched.t_prio[rdy] = Prio[rdy] /\ on[rdy] = m
    <2>1. rdy # NULL => \A n \in Mutex : ~Owns(rdy, n)
      BY <1>1, <1>7 DEF Prios, OwnerRuns
    <2>2. rdy # NULL => sched.t_prio[rdy] = Prio[rdy]
      BY <1>7, <2>1 DEF Prios, BoostedOwns
    <2>3. rdy # NULL => on[rdy] = m
      BY <1>1, <1>7 DEF Calls, CallsMatch
    <2> QED
      BY <2>1, <2>2, <2>3
  <1>9. /\ \A u \in Task : Owns(u, m)' <=> u = rdy
        /\ \A u \in Task : Owns(u, m) => u = t
        /\ \A u \in Task : \A n \in Mutex \ {m} : Owns(u, n)' <=> Owns(u, n)
    BY <1>1, <1>2, <1>3, <1>6 DEF Owns
  <1>10. ASSUME NEW u \in Task PROVE BoostedOwns(u)'
    <2>1. CASE u = t
      BY <1>1, <1>4, <2>1 DEF BoostedOwns
    <2>2. CASE u # t
      BY <1>1, <1>9, <2>2 DEF Prios, BoostedOwns
    <2> QED
      BY <2>1, <2>2
  <1>11. ASSUME NEW u \in Task, NEW n \in Mutex PROVE OwnerRuns(u, n)'
    <2>1. CASE n = m
      <3>1. Owns(u, n)' => u = rdy /\ u # NULL /\ u # t
        BY <1>1, <1>9, <2>1
      <3>2. u = rdy => sched'.t_obj[u] = NULL
        BY <1>1
      <3>3. u = rdy /\ u # NULL => mu_prio'[n] = Prio[u] /\ on[u] = n
        BY <1>6, <1>8, <2>1
      <3>4. u # t => on'[u] = on[u]
        BY <1>5
      <3> QED
        BY <3>1, <3>2, <3>3, <3>4 DEF OwnerRuns
    <2>2. CASE n # m
      <3>1. OwnerRuns(u, n) /\ (Owns(u, n)' <=> Owns(u, n)) /\ (u = t => ~Owns(u, n))
        BY <1>4, <1>9, <2>2 DEF Prios
      <3>2. u # t => on'[u] = on[u] /\ pc'[u] = pc[u]
        BY <1>1, <1>5
      <3>3. mu_prio'[n] = mu_prio[n] /\ sched'.t_obj[u] \in {sched.t_obj[u], NULL}
        BY <1>1, <1>6, <2>2
      <3> QED
        BY <3>1, <3>2, <3>3 DEF OwnerRuns
    <2> QED
      BY <2>1, <2>2
  <1>12. ASSUME NEW u \in Task, NEW n \in Mutex PROVE FreeUnwanted(u, n)'
    <2>1. FreeUnwanted(u, n) /\ live'[n] = live[n]
      BY <1>2 DEF Prios
    <2>2. sched'.t_obj[u] \in {sched.t_obj[u], NULL} /\ NULL \notin Mutex
      BY <1>1
    <2>3. n = m => mu_owner'[n] = rdy /\ (rdy = NULL => sched.t_obj[u] # n)
      BY <1>6, <1>7
    <2>4. n # m => mu_owner'[n] = mu_owner[n]
      BY <1>6
    <2> QED
      BY <2>1, <2>2, <2>3, <2>4 DEF FreeUnwanted
  <1>13. ASSUME NEW u \in Task, NEW n \in Mutex, NEW x \in Mutex PROVE OwnsOne(u, n, x)'
    <2>1. OwnsOne(u, n, x) /\ (u = rdy => u # NULL)
      BY <1>1 DEF Prios
    <2>2. CASE n # m /\ x # m
      BY <1>9, <2>1, <2>2 DEF OwnsOne
    <2>3. CASE n = m /\ x # m
      BY <1>8, <1>9, <2>1, <2>3 DEF OwnsOne
    <2>4. CASE n # m /\ x = m
      BY <1>8, <1>9, <2>1, <2>4 DEF OwnsOne
    <2> QED
      BY <2>2, <2>3, <2>4 DEF OwnsOne
  <1>14. ASSUME NEW u \in Task, NEW v \in Task, NEW n \in Mutex PROVE OwnerUrgent(u, v, n)'
    <2> SUFFICES ASSUME Owns(u, n)', sched'.t_obj[v] = n, mu_level'[n] # 0
                 PROVE  sched'.t_prio[u] <= sched'.t_prio[v]
      BY DEF OwnerUrgent
    <2>1. sched.t_obj[v] = n /\ v # t
      BY <1>1
    <2>2. CASE n = m
      <3>1. u = rdy /\ u # NULL
        BY <1>1, <1>9, <2>2
      <3> QED
        BY <1>1, <1>7, <2>1, <2>2, <3>1
    <2>3. CASE n # m
      <3>1. Owns(u, n) /\ u # t /\ mu_level[n] # 0
        BY <1>4, <1>6, <1>9, <2>3
      <3>2. sched.t_prio[u] <= sched.t_prio[v]
        BY <2>1, <3>1 DEF Prios, OwnerUrgent
      <3> QED
        BY <1>1, <2>1, <3>1, <3>2
    <2> QED
      BY <2>2, <2>3
  <1>15. WaitOrdered(sched)'
    BY <1>1 DEF Prios, WaitOrdered
  <1> QED
    BY <1>10, <1>11, <1>12, <1>13, <1>14, <1>15 DEF Prios

LEMMA PriosDelete ==
    ASSUME Calls, CritAlone, Ownership, Prios, NEW t \in Users, NEW m \in Mutex, os_mutex_delete(t, m),
           DeleteMoves(m)
    PROVE  Prios'
  <1>0. /\ t \in Task /\ InApp(t) /\ live[m] /\ NULL \notin Task /\ NULL \notin Mutex
        /\ UNCHANGED <<mu_owner, mu_level, mu_prio>> /\ live' = [live EXCEPT ![m] = FALSE]
        /\ pc' = [pc EXCEPT ![t] = "os_mutex_delete"] /\ on' = [on EXCEPT ![t] = m]
    BY MuFacts DEF os_mutex_delete
  <1>1. /\ sched'.t_obj = sched.t_obj
        /\ \A u \in Task : sched'.t_prio[u] =
              IF u = mu_owner[m] /\ mu_level[m] # 0 THEN mu_prio[m] ELSE sched.t_prio[u]
        /\ \/ mu_owner[m] \in Task /\ sched.t_obj[mu_owner[m]] = NULL
           \/ mu_owner[m] \notin Task
           => (WaitOrdered(sched) => WaitOrdered(sched'))
    BY DEF DeleteMoves
  <1>2. mu_level[m] = 0 => mu_owner[m] = NULL
    BY <1>0, OwnerInApp
  <1>3. \A u \in Task : Owns(u, m) <=> u = mu_owner[m]
    BY <1>0 DEF Owns
  <1>4. \A u \in Task : Owns(u, m) =>
           /\ mu_prio[m] = Prio[u] /\ sched.t_obj[u] = NULL /\ \A n \in Mutex \ {m} : ~Owns(u, n)
    BY DEF Prios, OwnerRuns, OwnsOne
  <1>5. \A u \in Task : sched'.t_prio[u] = IF Owns(u, m) THEN Prio[u] ELSE sched.t_prio[u]
    BY <1>0, <1>1, <1>2, <1>3, <1>4
  <1>6. /\ ~live'[m] /\ \A n \in Mutex \ {m} : live'[n] = live[n]
        /\ pc'[t] = "os_mutex_delete" /\ \A u \in Task \ {t} : on'[u] = on[u] /\ pc'[u] = pc[u]
    BY <1>0 DEF Calls, MuType
  <1>7. \A u \in Task : ~Owns(u, m)' /\ \A n \in Mutex \ {m} : Owns(u, n)' <=> Owns(u, n)
    BY <1>0, <1>6 DEF Owns
  <1>8. ASSUME NEW u \in Task PROVE BoostedOwns(u)'
    <2>1. BoostedOwns(u)
      BY DEF Prios
    <2> QED
      BY <1>5, <1>7, <2>1 DEF BoostedOwns
  <1>9. ASSUME NEW u \in Task, NEW n \in Mutex PROVE OwnerRuns(u, n)'
    <2>1. OwnerRuns(u, n)
      BY DEF Prios
    <2>2. n # m => (Owns(u, n)' <=> Owns(u, n)) /\ mu_prio'[n] = mu_prio[n]
      BY <1>0, <1>7
    <2>3. n = m => ~Owns(u, n)'
      BY <1>7
    <2>4. sched'.t_obj[u] = sched.t_obj[u]
      BY <1>1
    <2>5. \/ pc'[u] = "os_mutex_delete"
          \/ on'[u] = on[u] /\ pc'[u] = pc[u]
      BY <1>6
    <2> QED
      BY <2>1, <2>2, <2>3, <2>4, <2>5 DEF OwnerRuns
  <1>10. ASSUME NEW u \in Task, NEW n \in Mutex PROVE FreeUnwanted(u, n)'
    <2>1. FreeUnwanted(u, n) /\ sched'.t_obj[u] = sched.t_obj[u] /\ mu_owner'[n] = mu_owner[n]
      BY <1>0, <1>1 DEF Prios
    <2>2. live'[n] => live[n]
      BY <1>6
    <2> QED
      BY <2>1, <2>2 DEF FreeUnwanted
  <1>11. ASSUME NEW u \in Task, NEW n \in Mutex, NEW x \in Mutex PROVE OwnsOne(u, n, x)'
    BY <1>7 DEF Prios, OwnsOne
  <1>12. ASSUME NEW u \in Task, NEW v \in Task, NEW n \in Mutex PROVE OwnerUrgent(u, v, n)'
    <2> SUFFICES ASSUME Owns(u, n)', sched'.t_obj[v] = n, mu_level'[n] # 0
                 PROVE  sched'.t_prio[u] <= sched'.t_prio[v]
      BY DEF OwnerUrgent
    <2>1. n # m /\ Owns(u, n) /\ sched.t_obj[v] = n /\ mu_level[n] # 0
      BY <1>0, <1>1, <1>7
    <2>2. ~Owns(u, m) /\ ~Owns(v, m)
      BY <1>0, <1>4, <2>1
    <2>3. sched.t_prio[u] <= sched.t_prio[v]
      BY <2>1 DEF Prios, OwnerUrgent
    <2> QED
      BY <1>5, <2>2, <2>3
  <1>13. WaitOrdered(sched')
    BY <1>1, <1>3, <1>4 DEF Prios
  <1>14. WaitOrdered(sched)'
    BY <1>13 DEF WaitOrdered
  <1> QED
    BY <1>8, <1>9, <1>10, <1>11, <1>12, <1>14 DEF Prios

\* Steps that change no owner and no priority, and let tasks go at most.
LEMMA PriosQuiet ==
    ASSUME Prios, WaitOrdered(sched'), sched'.t_prio = sched.t_prio,
           \A u \in Task : sched'.t_obj[u] \in {sched.t_obj[u], NULL},
           UNCHANGED <<mu_owner, mu_prio, live>>,
           \A m \in Mutex : mu_level'[m] # 0 => mu_level[m] # 0,
           \A u \in Task :
              \/ on'[u] = NULL
              \/ on'[u] = on[u] /\ (pc[u] = "os_mutex_delete" => pc'[u] = "os_mutex_delete")
              \/ \E m \in Mutex : on'[u] = m /\ Owns(u, m)
    PROVE  Prios'
  <1>0. NULL \notin Mutex
    BY MuFacts
  <1>1. ASSUME NEW t \in Task PROVE BoostedOwns(t)'
    BY DEF Prios, BoostedOwns, Owns
  <1>2. ASSUME NEW t \in Task, NEW m \in Mutex PROVE OwnerRuns(t, m)' /\ FreeUnwanted(t, m)'
    <2>1. OwnerRuns(t, m) /\ FreeUnwanted(t, m) /\ \A n \in Mutex : OwnsOne(t, m, n)
      BY DEF Prios
    <2>2. FreeUnwanted(t, m)'
      BY <1>0, <2>1 DEF FreeUnwanted
    <2>3. Owns(t, m)' <=> Owns(t, m)
      BY DEF Owns
    <2>4. OwnerRuns(t, m)'
      BY <2>1, <2>3 DEF OwnerRuns, OwnsOne
    <2> QED
      BY <2>2, <2>4
  <1>3. ASSUME NEW t \in Task, NEW m \in Mutex, NEW n \in Mutex PROVE OwnsOne(t, m, n)'
    BY DEF Prios, OwnsOne, Owns
  <1>4. ASSUME NEW t \in Task, NEW u \in Task, NEW m \in Mutex PROVE OwnerUrgent(t, u, m)'
    <2>1. OwnerUrgent(t, u, m)
      BY DEF Prios
    <2> QED
      BY <1>0, <2>1 DEF OwnerUrgent, Owns
  <1> QED
    BY <1>1, <1>2, <1>3, <1>4 DEF Prios

LEMMA PriosQuietCalls ==
    ASSUME Calls, Ownership, Prios, NEW t \in Users,
           \/ \E m \in Mutex : os_mutex_pend_own(t, m) \/ os_mutex_release(t, m)
           \/ os_mutex_pend_return(t)
           \/ os_mutex_delete_wake(t) /\ WakeMoves
           \/ os_mutex_delete_end(t) /\ EndMoves(t)
    PROVE  Prios'
  <1>0. t \in Task /\ WaitOrdered(sched) /\ on \in [Task -> Mutex \cup {NULL}]
        /\ mu_level \in [Mutex -> Nat]
    BY MuFacts DEF Prios, Calls, MuType
  <1>1. ASSUME NEW m \in Mutex, os_mutex_pend_own(t, m) PROVE Prios'
    <2>1. UNCHANGED <<sched, pc, on, mu_owner, mu_prio, live>> /\ mu_level' = [mu_level EXCEPT ![m] = @ + 1]
          /\ mu_level[m] # 0
      BY <1>1 DEF os_mutex_pend_own, schedVars
    <2>2. \A n \in Mutex : mu_level'[n] # 0 => mu_level[n] # 0
      BY <1>0, <2>1
    <2> QED
      BY <1>0, <2>1, <2>2, PriosQuiet
  <1>2. ASSUME NEW m \in Mutex, os_mutex_release(t, m) PROVE Prios'
    <2>1. /\ UNCHANGED <<sched, mu_owner, mu_prio, live>> /\ mu_level' = [mu_level EXCEPT ![m] = @ - 1]
          /\ mu_level[m] # 0 /\ Owns(t, m) /\ pc[t] = "app"
          /\ \/ on' = [on EXCEPT ![t] = m] /\ pc' = [pc EXCEPT ![t] = "os_mutex_release"]
             \/ UNCHANGED <<on, pc>>
      BY <1>2 DEF os_mutex_release, Owns, InApp
    <2>2. \A n \in Mutex : mu_level'[n] # 0 => mu_level[n] # 0
      BY <1>0, <2>1
    <2>3. pc \in [Task -> MuPc]
      BY DEF Calls, MuType
    <2>4. \A u \in Task :
             \/ on'[u] = NULL
             \/ on'[u] = on[u] /\ (pc[u] = "os_mutex_delete" => pc'[u] = "os_mutex_delete")
             \/ \E n \in Mutex : on'[u] = n /\ Owns(u, n)
      BY <1>0, <2>1, <2>3
    <2> QED
      BY <1>0, <2>1, <2>2, <2>4, PriosQuiet
  <1>3. CASE os_mutex_pend_return(t)
    <2>1. /\ UNCHANGED <<sched, mu_owner, mu_prio, live, mu_level>> /\ on' = [on EXCEPT ![t] = NULL]
          /\ pc' = [pc EXCEPT ![t] = "app"] /\ pc \in [Task -> MuPc]
      BY <1>3 DEF os_mutex_pend_return, Calls, MuType
    <2>2. \A u \in Task : on'[u] = NULL \/ (on'[u] = on[u] /\ pc'[u] = pc[u])
      BY <1>0, <2>1
    <2> QED
      BY <1>0, <2>1, <2>2, PriosQuiet
  <1>4. CASE os_mutex_delete_wake(t) /\ WakeMoves
    <2>1. UNCHANGED <<mu_owner, mu_prio, live, mu_level, on, pc>>
      BY <1>4 DEF os_mutex_delete_wake, muVars
    <2>2. /\ sched'.t_prio = sched.t_prio /\ WaitOrdered(sched')
          /\ \A u \in Task : sched'.t_obj[u] \in {sched.t_obj[u], NULL}
      BY <1>0, <1>4 DEF WakeMoves
    <2> QED
      BY <2>1, <2>2, PriosQuiet
  <1>5. CASE os_mutex_delete_end(t) /\ EndMoves(t)
    <2>1. UNCHANGED <<sched, mu_owner, mu_prio, live, mu_level>> /\ on' = [on EXCEPT ![t] = NULL]
      BY <1>5 DEF os_mutex_delete_end
    <2>2. \A u \in Task \ {t} : pc'[u] = pc[u]
      BY <1>5 DEF EndMoves
    <2>3. \A u \in Task : on'[u] = NULL \/ (on'[u] = on[u] /\ pc'[u] = pc[u])
      BY <1>0, <2>1, <2>2
    <2> QED
      BY <1>0, <2>1, <2>3, PriosQuiet
  <1> QED
    BY <1>1, <1>2, <1>3, <1>4, <1>5

\* A task that may pend on a mutex it does not own, owns none.
LEMMA OwnsNothing ==
    ASSUME Nested = FALSE, Calls, CritAlone, Ownership, NEW t \in Users, InApp(t),
           NEW m \in Mutex, MayPend(t, m), mu_owner[m] # t, NEW n \in Mutex
    PROVE  ~Owns(t, n)
  <1> SUFFICES ASSUME live[n], mu_owner[n] = t PROVE FALSE
    BY DEF Owns
  <1>1. n # m /\ t \in Task /\ NULL \notin Task
    BY MuFacts
  <1>2. held[t][n] = 0
    BY <1>1 DEF MayPend
  <1>3. mu_level[n] # 0 /\ held[t][n] = mu_level[n]
    BY <1>1, OwnerInApp
  <1> QED
    BY <1>2, <1>3

LEMMA PriosWait ==
    ASSUME Nested = FALSE, Calls, CritAlone, Ownership, Prios, NEW t \in Users, NEW m \in Mutex,
           os_mutex_pend_wait(t, m), WaitMoves(t, m)
    PROVE  Prios'
  <1>0. /\ t \in Task /\ InApp(t) /\ MayPend(t, m) /\ live[m] /\ NULL \notin Task /\ NULL \notin Mutex
        /\ UNCHANGED <<mu_owner, mu_level, mu_prio, live>> /\ on' = [on EXCEPT ![t] = m]
    BY MuFacts DEF os_mutex_pend_wait, MayPend
  <1>1. PICK o \in Task : o = mu_owner[m]
    BY DEF WaitMoves
  <1>2. /\ t # o
        /\ \A u \in Task : sched'.t_obj[u] = IF u = t THEN m ELSE sched.t_obj[u]
        /\ \A u \in Task \ {o} : sched'.t_prio[u] = sched.t_prio[u]
        /\ sched'.t_prio[o] = IF sched.t_prio[o] > sched.t_prio[t] THEN sched.t_prio[t] ELSE sched.t_prio[o]
        /\ sched.t_obj[o] = NULL /\ WaitOrdered(sched) => WaitOrdered(sched')
        /\ pc' = [pc EXCEPT ![t] = "os_sched"]
    BY <1>1 DEF WaitMoves
  <1>3. Owns(o, m) /\ sched.t_obj[o] = NULL
    BY <1>0, <1>1 DEF Owns, Prios, OwnerRuns
  <1>4. \A n \in Mutex : ~Owns(t, n)
    <2>1. InApp(t) /\ MayPend(t, m) /\ mu_owner[m] # t
      BY <1>0, <1>1, <1>2
    <2> QED
      BY <2>1, OwnsNothing
  <1>5. sched.t_prio \in [Task -> Nat]
    BY DEF Calls, Kernel
  <1>6. /\ sched'.t_prio[o] <= sched.t_prio[t] /\ \A u \in Task : sched'.t_prio[u] <= sched.t_prio[u]
        /\ \A u \in Task : sched'.t_prio[u] \in Nat
    BY <1>0, <1>2, <1>5
  <1>7. \A u \in Task, n \in Mutex : Owns(u, n)' <=> Owns(u, n)
    BY <1>0 DEF Owns
  <1>8. \A u \in Task \ {t} : on'[u] = on[u] /\ pc'[u] = pc[u]
    BY <1>0, <1>2 DEF Calls, MuType
  <1>9. ASSUME NEW u \in Task PROVE BoostedOwns(u)'
    <2>1. CASE u = o
      BY <1>3, <1>7, <2>1 DEF BoostedOwns
    <2>2. CASE u # o
      BY <1>2, <1>7, <2>2 DEF Prios, BoostedOwns
    <2> QED
      BY <2>1, <2>2
  <1>10. ASSUME NEW u \in Task, NEW n \in Mutex PROVE OwnerRuns(u, n)'
    <2>1. OwnerRuns(u, n) /\ (Owns(u, n)' <=> Owns(u, n)) /\ (Owns(u, n) => u # t)
      BY <1>4, <1>7 DEF Prios
    <2>2. u # t => sched'.t_obj[u] = sched.t_obj[u] /\ on'[u] = on[u] /\ pc'[u] = pc[u]
      BY <1>2, <1>8
    <2>3. mu_prio'[n] = mu_prio[n]
      BY <1>0
    <2> QED
      BY <2>1, <2>2, <2>3 DEF OwnerRuns
  <1>11. ASSUME NEW u \in Task, NEW n \in Mutex PROVE FreeUnwanted(u, n)'
    <2>1. FreeUnwanted(u, n) /\ mu_owner[m] # NULL
      BY <1>0, <1>1 DEF Prios
    <2>2. sched'.t_obj[u] = n => sched.t_obj[u] = n \/ n = m
      BY <1>2
    <2>3. live'[n] = live[n] /\ mu_owner'[n] = mu_owner[n]
      BY <1>0
    <2> QED
      BY <2>1, <2>2, <2>3 DEF FreeUnwanted
  <1>12. ASSUME NEW u \in Task, NEW n \in Mutex, NEW x \in Mutex PROVE OwnsOne(u, n, x)'
    BY <1>7 DEF Prios, OwnsOne
  <1>13. ASSUME NEW u \in Task, NEW v \in Task, NEW n \in Mutex PROVE OwnerUrgent(u, v, n)'
    <2> SUFFICES ASSUME Owns(u, n), sched'.t_obj[v] = n, mu_level[n] # 0
                 PROVE  sched'.t_prio[u] <= sched'.t_prio[v]
      BY <1>0, <1>7 DEF OwnerUrgent
    <2>1. CASE v = t
      <3>1. n = m /\ u = o
        BY <1>0, <1>1, <1>2, <2>1 DEF Owns
      <3> QED
        BY <1>0, <1>2, <1>6, <2>1, <3>1
    <2>2. CASE v # t
      <3>1. sched.t_obj[v] = n /\ v # o
        BY <1>0, <1>2, <1>3, <2>2
      <3>2. sched.t_prio[u] <= sched.t_prio[v]
        BY <3>1 DEF Prios, OwnerUrgent
      <3>3. sched'.t_prio[v] = sched.t_prio[v] /\ sched'.t_prio[u] <= sched.t_prio[u]
        BY <1>2, <1>6, <3>1
      <3> QED
        BY <1>5, <1>6, <3>2, <3>3
    <2> QED
      BY <2>1, <2>2
  <1>14. WaitOrdered(sched)'
    BY <1>2, <1>3 DEF Prios, WaitOrdered
  <1> QED
    BY <1>9, <1>10, <1>11, <1>12, <1>13, <1>14 DEF Prios

LEMMA PriosGrant ==
    ASSUME Nested = FALSE, Calls, CritAlone, Ownership, Prios, NEW t \in Users, NEW m \in Mutex,
           os_mutex_pend_free(t, m)
    PROVE  Prios'
  <1>0. /\ t \in Task /\ InApp(t) /\ MayPend(t, m) /\ live[m] /\ mu_level[m] = 0
        /\ NULL \notin Task /\ NULL \notin Mutex
    <2>1. t \in Task /\ NULL \notin Task /\ NULL \notin Mutex
      BY MuFacts
    <2> QED
      BY <2>1 DEF os_mutex_pend_free, MayPend
  <1>1. mu_owner[m] = NULL /\ on[t] = NULL /\ sched.t_obj[t] = NULL
    BY <1>0, OwnerInApp
  <1>2. \A n \in Mutex : ~Owns(t, n)
    <2>1. InApp(t) /\ MayPend(t, m) /\ mu_owner[m] # t
      BY <1>0, <1>1
    <2> QED
      BY <2>1, OwnsNothing
  <1>3. sched.t_prio[t] = Prio[t]
    BY <1>0, <1>2 DEF Prios, BoostedOwns
  <1>4. UNCHANGED <<sched, pc, on, live>>
    BY DEF os_mutex_pend_free, schedVars
  <1>5. /\ mu_owner'[m] = t /\ mu_prio'[m] = Prio[t]
        /\ \A n \in Mutex \ {m} : /\ mu_owner'[n] = mu_owner[n] /\ mu_level'[n] = mu_level[n]
                                /\ mu_prio'[n] = mu_prio[n]
    BY <1>3 DEF os_mutex_pend_free, Calls, MuType
  <1>6. /\ Owns(t, m)' /\ \A u \in Task : ~Owns(u, m)
        /\ \A u \in Task, n \in Mutex : u # t \/ n # m => (Owns(u, n)' <=> Owns(u, n))
    BY <1>0, <1>1, <1>4, <1>5 DEF Owns
  <1>7. \A u \in Task : sched.t_obj[u] # m
    BY <1>0, <1>1 DEF Prios, FreeUnwanted
  <1>8. ASSUME NEW u \in Task PROVE BoostedOwns(u)'
    <2>1. BoostedOwns(u)
      BY DEF Prios
    <2> QED
      BY <1>3, <1>4, <1>6, <2>1 DEF BoostedOwns
  <1>9. ASSUME NEW u \in Task, NEW n \in Mutex PROVE OwnerRuns(u, n)'
    <2>1. OwnerRuns(u, n)
      BY DEF Prios
    <2>2. CASE n = m
      BY <1>1, <1>4, <1>5, <1>6, <2>2 DEF OwnerRuns
    <2>3. CASE n # m
      <3>1. (Owns(u, n)' <=> Owns(u, n)) /\ mu_prio'[n] = mu_prio[n]
        BY <1>5, <1>6, <2>3
      <3> QED
        BY <1>4, <2>1, <3>1 DEF OwnerRuns
    <2> QED
      BY <2>2, <2>3
  <1>10. ASSUME NEW u \in Task, NEW n \in Mutex PROVE FreeUnwanted(u, n)'
    <2>1. FreeUnwanted(u, n) /\ mu_owner'[n] \in {mu_owner[n], t} /\ t # NULL
      BY <1>0, <1>5 DEF Prios
    <2> QED
      BY <1>4, <2>1 DEF FreeUnwanted
  <1>11. ASSUME NEW u \in Task, NEW n \in Mutex, NEW o \in Mutex PROVE OwnsOne(u, n, o)'
    <2>1. OwnsOne(u, n, o)
      BY DEF Prios
    <2> QED
      BY <1>2, <1>6, <2>1 DEF OwnsOne
  <1>12. ASSUME NEW u \in Task, NEW v \in Task, NEW n \in Mutex PROVE OwnerUrgent(u, v, n)'
    <2>1. OwnerUrgent(u, v, n) /\ sched.t_obj[v] # m
      BY <1>7 DEF Prios
    <2>2. n # m => (Owns(u, n)' <=> Owns(u, n)) /\ mu_level'[n] = mu_level[n]
      BY <1>5, <1>6
    <2> QED
      BY <1>4, <2>1, <2>2 DEF OwnerUrgent
  <1>13. WaitOrdered(sched)'
    BY <1>4 DEF Prios, WaitOrdered
  <1> QED
    BY <1>8, <1>9, <1>10, <1>11, <1>12, <1>13 DEF Prios

LEMMA PriosInitCall ==
    ASSUME Calls, Prios, NEW t \in Users, NEW m \in Mutex, os_mutex_init(t, m)
    PROVE  Prios'
  <1>1. UNCHANGED <<sched, on, pc>> /\ ~live[m] /\ \A u \in Task : on[u] # m
    BY DEF os_mutex_init, schedVars
  <1>2. /\ mu_owner'[m] = NULL /\ NULL \notin Task /\ NULL \notin Mutex
        /\ \A n \in Mutex \ {m} : /\ mu_owner'[n] = mu_owner[n] /\ mu_level'[n] = mu_level[n]
                                /\ live'[n] = live[n] /\ mu_prio'[n] = mu_prio[n]
    BY MuFacts DEF os_mutex_init, Calls, MuType
  <1>3. \A u \in Task : sched.t_obj[u] # m
    BY <1>1, MuFacts DEF Calls, CallsMatch
  <1>4. \A u \in Task : ~Owns(u, m) /\ ~Owns(u, m)'
    BY <1>1, <1>2 DEF Owns
  <1>5. \A u \in Task : \A n \in Mutex \ {m} : Owns(u, n)' <=> Owns(u, n)
    BY <1>2 DEF Owns
  <1>6. ASSUME NEW u \in Task PROVE BoostedOwns(u)'
    <2>1. BoostedOwns(u)
      BY DEF Prios
    <2> QED
      BY <1>1, <1>4, <1>5, <2>1 DEF BoostedOwns
  <1>7. ASSUME NEW u \in Task, NEW n \in Mutex PROVE OwnerRuns(u, n)'
    <2>1. OwnerRuns(u, n) /\ (n = m => ~Owns(u, n)')
      BY <1>4 DEF Prios
    <2>2. n # m => (Owns(u, n)' <=> Owns(u, n)) /\ mu_prio'[n] = mu_prio[n]
      BY <1>2, <1>5
    <2> QED
      BY <1>1, <2>1, <2>2 DEF OwnerRuns
  <1>8. ASSUME NEW u \in Task, NEW n \in Mutex PROVE FreeUnwanted(u, n)'
    <2>1. FreeUnwanted(u, n) /\ sched.t_obj[u] # m
      BY <1>3 DEF Prios
    <2>2. n # m => live'[n] = live[n] /\ mu_owner'[n] = mu_owner[n]
      BY <1>2
    <2> QED
      BY <1>1, <2>1, <2>2 DEF FreeUnwanted
  <1>9. ASSUME NEW u \in Task, NEW n \in Mutex, NEW o \in Mutex PROVE OwnsOne(u, n, o)'
    <2>1. OwnsOne(u, n, o)
      BY DEF Prios
    <2> QED
      BY <1>4, <1>5, <2>1 DEF OwnsOne
  <1>10. ASSUME NEW u \in Task, NEW v \in Task, NEW n \in Mutex PROVE OwnerUrgent(u, v, n)'
    <2>1. OwnerUrgent(u, v, n) /\ (n = m => ~Owns(u, n)')
      BY <1>4 DEF Prios
    <2>2. n # m => (Owns(u, n)' <=> Owns(u, n)) /\ mu_level'[n] = mu_level[n]
      BY <1>2, <1>5
    <2> QED
      BY <1>1, <2>1, <2>2 DEF OwnerUrgent
  <1>11. WaitOrdered(sched)'
    BY <1>1 DEF Prios, WaitOrdered
  <1> QED
    BY <1>6, <1>7, <1>8, <1>9, <1>10, <1>11 DEF Prios

LEMMA PriosKernelStep ==
    ASSUME CritAlone, Prios, KernelStep, KernelMoves
    PROVE  Prios'
  <1>1. sched'.t_prio = sched.t_prio /\ WaitOrdered(sched')
    BY DEF KernelMoves, Prios
  <1>2. UNCHANGED <<mu_owner, mu_prio, live, mu_level, on>>
    BY DEF KernelStep, muVars
  <1>3. \A u \in Task : pc[u] # "os_mutex_delete"
    BY CritKernelStep DEF CritAlone, Crits
  <1>4. \A u \in Task : sched'.t_obj[u] \in {sched.t_obj[u], NULL}
    BY DEF KernelMoves
  <1> QED
    BY <1>1, <1>2, <1>3, <1>4, PriosQuiet

LEMMA PriosInit == Init => Prios
  <1> SUFFICES ASSUME Init PROVE Prios
    OBVIOUS
  <1>1. /\ sched.t_obj = [t \in Task |-> NULL] /\ sched.t_prio = Prio
        /\ sched.obj_head = [o \in Obj |-> <<>>] /\ mu_owner = [m \in Mutex |-> NULL]
    BY DEF Init, SchedInit
  <1>2. \A t \in Task, m \in Mutex : ~Owns(t, m)
    BY <1>1, MuFacts DEF Owns
  <1>3. WaitOrdered(sched)
    BY <1>1 DEF WaitOrdered, Ordered
  <1>4. \A t \in Task, m \in Mutex : FreeUnwanted(t, m)
    BY <1>1, MuFacts DEF FreeUnwanted
  <1> QED
    BY <1>1, <1>2, <1>3, <1>4 DEF Prios, BoostedOwns, OwnerRuns, OwnsOne, OwnerUrgent

LEMMA PriosStep ==
    ASSUME Nested = FALSE, Calls, CritAlone, Ownership, Prios, Moves, [Next]_vars
    PROVE  Prios'
  <1>1. CASE UNCHANGED vars
    BY <1>1 DEF vars, Prios, WaitOrdered, BoostedOwns, OwnerRuns, FreeUnwanted, OwnsOne, OwnerUrgent, Owns
  <1>2. ASSUME NEW t \in Users, NEW m \in Mutex,
               \/ os_mutex_init(t, m) \/ os_mutex_pend_free(t, m) \/ os_mutex_pend_own(t, m)
               \/ os_mutex_pend_wait(t, m) \/ os_mutex_release(t, m) \/ os_mutex_delete(t, m)
        PROVE  Prios'
    BY <1>2, PriosInitCall, PriosGrant, PriosQuietCalls, PriosWait, PriosDelete DEF Moves
  <1>3. ASSUME NEW t \in Users,
               \/ os_mutex_pend_return(t) \/ os_mutex_release_crit(t)
               \/ os_mutex_delete_wake(t) \/ os_mutex_delete_end(t)
        PROVE  Prios'
    BY <1>3, PriosQuietCalls, PriosReleaseCrit DEF Moves
  <1>4. CASE KernelStep
    BY <1>4, PriosKernelStep DEF Moves
  <1> QED
    BY <1>1, <1>2, <1>3, <1>4 DEF Next, MutexStep
=============================================================================
