---------------------------- MODULE OsTimeProofs ----------------------------
(***************************************************************************)
(* The scheduler and the clock, for any tasks, priorities and delays.      *)
(***************************************************************************)
EXTENDS OsTime, OsSchedProofs

\* Types and KernelInv together are inductive.
IInv == TypeOK /\ KernelInv

LEMMA InitIInv == Init => IInv
  <1> SUFFICES ASSUME Init PROVE IInv
    OBVIOUS
  <1>1. KernelInv
    BY KernelInit DEF Init
  <1> QED
    BY <1>1, NullIsNothing DEF Init, SchedInit, IInv, TypeOK, KernelInv, Good

LEMMA NextIInv == IInv /\ [Next]_schedVars => IInv'
  <1> SUFFICES ASSUME IInv, [Next]_schedVars PROVE IInv'
    OBVIOUS
  <1>1. KernelInv'
    BY SchedNextInv, KernelStutter DEF IInv, TypeOK, Next
  <1>2. SchedType(sched') /\ cur' \in Task /\ now' \in 0 .. TimeMod - 1 /\ psv' \in Task \cup {NULL}
    BY <1>1 DEF KernelInv, Good
  <1>3. Head(sched.run) \in Task
    BY HeadReady DEF IInv, KernelInv
  <1>4. TypeOK'
    <2>1. ASSUME NEW t \in Task, os_sched(t) PROVE TypeOK'
      BY <1>2, <1>3, <2>1 DEF IInv, TypeOK, os_sched, os_sched_next_task
    <2>2. ASSUME NEW t \in Task, os_arch_ctx_sw(t) PROVE TypeOK'
      BY <1>2, <2>2 DEF IInv, TypeOK, os_arch_ctx_sw
    <2>3. ASSUME NEW t \in Task, os_time_delay(t) PROVE TypeOK'
      BY <1>2, <2>3 DEF IInv, TypeOK, os_time_delay, CallSched
    <2>4. CASE PendSV_read
      BY <1>2, <2>4 DEF IInv, TypeOK, PendSV_read
    <2>5. CASE PendSV_switch
      BY <1>2, <2>5 DEF IInv, TypeOK, PendSV_switch
    <2>6. CASE os_sched_os_timer_exp
      BY <1>2, <2>6 DEF IInv, TypeOK, os_sched_os_timer_exp
    <2>7. CASE timer_handler_end
      BY <1>2, <2>7 DEF IInv, TypeOK, timer_handler_end
    <2>8. CASE SysTick
      BY <1>2, <2>8 DEF IInv, TypeOK, SysTick, os_time_tick
    <2>9. CASE UNCHANGED schedVars
      BY <1>2, <2>9 DEF IInv, TypeOK, schedVars
    <2> QED
      BY <2>1, <2>2, <2>3, <2>4, <2>5, <2>6, <2>7, <2>8, <2>9 DEF Next, SchedNext, SchedStep
  <1> QED
    BY <1>1, <1>4 DEF IInv

LEMMA IInvHolds == Spec => []IInv
  BY InitIInv, NextIInv, PTL DEF Spec

\* The scheduler's variables keep their types.
THEOREM TypeCorrect == Spec => []TypeOK
  <1>1. IInv => TypeOK
    BY DEF IInv
  <1> QED
    BY <1>1, IInvHolds, PTL

\* The run list, the sleep list and the tasks' states agree at every moment,
\* whatever tasks delay themselves and whenever the tick comes.
THEOREM ListsStayConsistent == Spec => []SchedConsistent
  <1>1. IInv => SchedConsistent
    BY DEF IInv, KernelInv, Good, SchedConsistent
  <1> QED
    BY <1>1, IInvHolds, PTL

\* The run list is always in the order of priority.
THEOREM RunListStaysSorted == Spec => []RunListSorted
  <1>1. IInv => RunListSorted
    BY DEF IInv, KernelInv, Good, RunListSorted
  <1> QED
    BY <1>1, IInvHolds, PTL

\* The context switch never leaves a sleeping task running.
THEOREM RunningTaskIsReady == Spec => []RunningIsReady
  <1>1. IInv => RunningIsReady
    BY DEF IInv, KernelInv, RunningIsReady, Running
  <1> QED
    BY <1>1, IInvHolds, PTL

-----------------------------------------------------------------------------
(* Tasks wake on time, also when the clock wraps.                          *)

\* Nobody sleeps for ever: os_time_delay gives every sleep its end.
AllTimed(K) == \A t \in Task : K.no_timeout[t] = FALSE

\* The sleep list is in the order of the wake-up times, all of them less than half
\* the clock ahead; between two ticks no wake-up time has come.  (Without the last
\* part a task could sleep through its tick, and its time would then compare as
\* nearly the whole clock ahead.)
SleepClocked ==
    /\ Clocked(sched.sleep, sched.t_next_wakeup, now)
    /\ AllTimed(sched)
    /\ isr # "timer_exp" => \A t \in Range(sched.sleep) : Diff(sched.t_next_wakeup[t], now) > 0

TimeInv == IInv /\ SleepClocked

\* What os_sched_sleep does to the sleep list and its times.
LEMMA SleepTimes ==
    ASSUME NEW K, SchedType(K), NEW t \in Task, NEW n \in Delays, NEW R, R = os_sched_sleep(K, t, n),
           AllTimed(K),
           NEW wakeup, wakeup = (now + n) % TimeMod,
           NEW I \in SUBSET DOMAIN K.sleep,
           \A i \in DOMAIN K.sleep : i \in I <=> OS_TIME_TICK_GT(K.t_next_wakeup[K.sleep[i]], wakeup)
    PROVE  /\ R.sleep = InsertBefore(K.sleep, I, t)
           /\ AllTimed(R)
           /\ R.t_next_wakeup = [K.t_next_wakeup EXCEPT ![t] = wakeup]
  <1>1. n # NEVER
    BY SchedAssumption, HalfFacts DEF NEVER, Half
  <1> DEFINE later == {i \in DOMAIN K.sleep :
                        \/ K.no_timeout[K.sleep[i]]
                        \/ OS_TIME_TICK_GT(K.t_next_wakeup[K.sleep[i]], (now + n) % TimeMod)}
  <1>2. later = I
    BY DEF SchedType, AllTimed
  <1> HIDE DEF later
  <1>3. R.sleep = InsertBefore(K.sleep, IF n = NEVER THEN {} ELSE later, t)
    BY DEF os_sched_sleep, SchedType, later
  <1>4. R.no_timeout = [K.no_timeout EXCEPT ![t] = @ \/ n = NEVER]
    BY DEF os_sched_sleep, SchedType, later
  <1>5. R.t_next_wakeup = [K.t_next_wakeup EXCEPT ![t] = IF n = NEVER THEN @ ELSE (now + n) % TimeMod]
    BY DEF os_sched_sleep, SchedType, later
  <1> QED
    BY <1>1, <1>2, <1>3, <1>4, <1>5 DEF SchedType, AllTimed

\* The lists of the scheduler, as the lemmas about times need them.
LEMMA SleepTypes ==
    ASSUME IInv
    PROVE  /\ sched.sleep \in Seq(Task) /\ Injective(sched.sleep) /\ SchedType(sched)
           /\ sched.t_next_wakeup \in [Task -> Time] /\ now \in Time
           /\ \A t \in Task : t \in Range(sched.sleep) <=> sched.t_state[t] = "SLEEP"
  BY DEF IInv, TypeOK, KernelInv, Good, ListsConsistent, SchedType, SleepExact, Time

LEMMA SleepClockedInit == Init => SleepClocked
  <1> SUFFICES ASSUME Init PROVE SleepClocked
    OBVIOUS
  <1>1. sched.sleep = <<>> /\ AllTimed(sched)
    BY DEF Init, SchedInit, AllTimed
  <1>2. Range(sched.sleep) = {} /\ DOMAIN sched.sleep = {}
    BY <1>1 DEF Range
  <1> QED
    BY <1>1, <1>2 DEF SleepClocked, Clocked, Ordered

\* A task that delays itself takes its place on the sleep list.
LEMMA SleepClockedDelay ==
    ASSUME TimeInv, NEW t \in Task, os_time_delay(t)
    PROVE  SleepClocked'
  <1>1. PICK n \in Delays : sched' = os_sched_sleep(sched, t, n)
    BY DEF os_time_delay
  <1>2. now' = now /\ isr' = isr /\ isr = "none" /\ t \notin Range(sched.sleep)
    <2>1. Running(t) /\ pc[t] = "app"
      BY DEF os_time_delay, InApp
    <2>2. sched.t_state[t] = "READY"
      BY <2>1 DEF TimeInv, IInv, KernelInv, Running
    <2> QED
      BY <2>1, <2>2, SleepTypes DEF os_time_delay, Running, TimeInv
  <1>3. AllTimed(sched)
    BY DEF TimeInv, SleepClocked
  <1>4. PICK wakeup : wakeup = (now + n) % TimeMod
    OBVIOUS
  <1>5. wakeup \in Time /\ Diff(wakeup, now) = n /\ n < Half /\ n > 0
    <2>0. n \in 1 .. Half - 1
      BY SchedAssumption DEF Half
    <2>1. n \in 0 .. TimeMod - 1 /\ n < Half /\ n > 0
      BY <2>0, HalfFacts
    <2> QED
      BY <1>4, <2>1, AheadBy, SleepTypes, HalfFacts DEF TimeInv
  <1>6. PICK I \in SUBSET DOMAIN sched.sleep : \A i \in DOMAIN sched.sleep :
            i \in I <=> OS_TIME_TICK_GT(sched.t_next_wakeup[sched.sleep[i]], wakeup)
    <2> WITNESS {i \in DOMAIN sched.sleep : OS_TIME_TICK_GT(sched.t_next_wakeup[sched.sleep[i]], wakeup)}
                \in SUBSET DOMAIN sched.sleep
    <2> QED
      OBVIOUS
  <1>7. PICK w : w = [sched.t_next_wakeup EXCEPT ![t] = wakeup]
    OBVIOUS
  <1>8. /\ sched'.sleep = InsertBefore(sched.sleep, I, t) /\ sched'.t_next_wakeup = w
         /\ AllTimed(sched')
    <2>1. SchedType(sched)
      BY SleepTypes DEF TimeInv
    <2>2. PICK R : R = sched'
      OBVIOUS
    <2>3. /\ R.sleep = InsertBefore(sched.sleep, I, t)
          /\ AllTimed(R)
          /\ R.t_next_wakeup = [sched.t_next_wakeup EXCEPT ![t] = wakeup]
      BY <1>1, <1>3, <1>4, <1>6, <2>1, <2>2, SleepTimes
    <2> QED
      BY <1>7, <2>2, <2>3
  <1>9. /\ w \in [Task -> Time] /\ w[t] = wakeup
        /\ \A u \in Range(sched.sleep) : u \in Task /\ w[u] = sched.t_next_wakeup[u]
    BY <1>2, <1>5, <1>7, SleepTypes DEF TimeInv, Range
  <1>10. I = {i \in DOMAIN sched.sleep : OS_TIME_TICK_GT(w[sched.sleep[i]], w[t])}
    <2>1. \A i \in DOMAIN sched.sleep : w[sched.sleep[i]] = sched.t_next_wakeup[sched.sleep[i]]
      BY <1>9 DEF Range
    <2> QED
      BY <1>9, <1>6, <2>1
  <1>11. Clocked(sched.sleep, w, now)
    BY <1>9, SleepTypes, ClockedByTimes DEF TimeInv, SleepClocked
  <1>12. Diff(w[t], now) < Half /\ Diff(w[t], now) > 0
    BY <1>5, <1>9
  <1>13. Clocked(sched'.sleep, w, now)
    <2>1. /\ sched.sleep \in Seq(Task) /\ now \in Time /\ Injective(sched.sleep)
          /\ t \notin Range(sched.sleep) /\ w \in [Task -> Time] /\ Diff(w[t], now) < Half
      BY <1>2, <1>9, <1>12, SleepTypes DEF TimeInv
    <2>2. Clocked(InsertBefore(sched.sleep, I, t), w, now)
      BY <1>11, <1>10, <2>1, ClockedInsert
    <2> QED
      BY <1>8, <2>2
  <1>14. \A u : u \in Range(sched'.sleep) <=> u \in Range(sched.sleep) \/ u = t
    <2>1. I \in SUBSET DOMAIN sched.sleep
      BY <1>6
    <2> QED
      BY <1>2, <1>8, <2>1, SleepTypes, InsertBeforeProps DEF TimeInv
  <1>15. \A u \in Range(sched'.sleep) : Diff(w[u], now) > 0
    BY <1>2, <1>9, <1>12, <1>14 DEF TimeInv, SleepClocked
  <1> QED
    BY <1>2, <1>8, <1>13, <1>15 DEF SleepClocked

\* The first task of the sleep list is taken off it.
LEMMA SleepClockedExp ==
    ASSUME TimeInv, os_sched_os_timer_exp
    PROVE  SleepClocked'
  <1>1. /\ sched.sleep # <<>> /\ sched' = os_sched_wakeup(sched, Head(sched.sleep))
        /\ now' = now /\ isr' = isr /\ isr = "timer_exp"
    BY DEF os_sched_os_timer_exp, Expired
  <1>2. PICK t \in Task : t = Head(sched.sleep)
    BY <1>1, SleepTypes, ClockedHead DEF TimeInv, SleepClocked
  <1>3. /\ sched'.sleep = Remove(sched.sleep, t)
        /\ sched'.no_timeout = [sched.no_timeout EXCEPT ![t] = FALSE]
        /\ sched'.t_next_wakeup = [sched.t_next_wakeup EXCEPT ![t] = 0]
    BY <1>1, <1>2, SleepTypes, WakeupTimes DEF TimeInv
  <1>4. t \in Range(sched.sleep)
    BY <1>1, <1>2, SleepTypes, ClockedHead DEF TimeInv, SleepClocked
  <1>5. \A u : u \in Range(sched'.sleep) <=> u \in Range(sched.sleep) /\ u # t
    BY <1>3, <1>4, SleepTypes, RemoveProps DEF TimeInv
  <1>6. Clocked(sched'.sleep, sched.t_next_wakeup, now)
    BY <1>3, SleepTypes, ClockedRemove DEF TimeInv, SleepClocked
  <1>7. /\ sched'.t_next_wakeup \in [Task -> Time] /\ sched'.sleep \in Seq(Task)
        /\ \A u \in Range(sched'.sleep) : sched'.t_next_wakeup[u] = sched.t_next_wakeup[u]
    <2>1. sched'.sleep \in Seq(Task)
      BY <1>3, <1>4, SleepTypes, RemoveProps DEF TimeInv
    <2>2. \A u \in Range(sched'.sleep) : u \in Task
      BY <2>1 DEF Range
    <2>3. 0 \in Time
      BY ZeroIsTime DEF Time
    <2> QED
      BY <1>3, <1>5, <2>1, <2>2, <2>3, SleepTypes DEF TimeInv
  <1>8. Clocked(sched'.sleep, sched'.t_next_wakeup, now)
    BY <1>6, <1>7, SleepTypes, ClockedByTimes DEF TimeInv
  <1>9. AllTimed(sched')
    BY <1>3, SleepTypes DEF TimeInv, SleepClocked, SchedType, AllTimed
  <1> QED
    BY <1>1, <1>8, <1>9 DEF SleepClocked

LEMMA SleepClockedNext ==
    ASSUME TimeInv, [Next]_schedVars
    PROVE  SleepClocked'
  <1>1. ASSUME NEW t \in Task, os_sched(t) PROVE SleepClocked'
    BY <1>1 DEF TimeInv, SleepClocked, os_sched
  <1>2. ASSUME NEW t \in Task, os_arch_ctx_sw(t) PROVE SleepClocked'
    BY <1>2 DEF TimeInv, SleepClocked, os_arch_ctx_sw
  <1>3. ASSUME NEW t \in Task, os_time_delay(t) PROVE SleepClocked'
    BY <1>3, SleepClockedDelay
  <1>4. CASE PendSV_read
    BY <1>4 DEF TimeInv, SleepClocked, PendSV_read
  <1>5. CASE PendSV_switch
    BY <1>5 DEF TimeInv, SleepClocked, PendSV_switch
  <1>6. CASE os_sched_os_timer_exp
    BY <1>6, SleepClockedExp
  <1>7. CASE timer_handler_end
    <2>1. sched' = sched /\ now' = now /\ ~Expired(sched)
      BY <1>7 DEF timer_handler_end
    <2>2. \A t \in Range(sched.sleep) : Diff(sched.t_next_wakeup[t], now) > 0
      <3>1. CASE sched.sleep = <<>>
        BY <3>1 DEF Range
      <3>2. CASE sched.sleep # <<>>
        BY <2>1, <3>2, SleepTypes, ClockedHead DEF Expired, TimeInv, SleepClocked, AllTimed
      <3> QED
        BY <3>1, <3>2
    <2> QED
      BY <2>1, <2>2 DEF TimeInv, SleepClocked
  <1>8. CASE SysTick
    <2>1. sched' = sched /\ now' = (now + 1) % TimeMod /\ isr = "none" /\ isr' = "timer_exp"
      BY <1>8 DEF SysTick, os_time_tick
    <2>2. Clocked(sched.sleep, sched.t_next_wakeup, now')
      BY <2>1, SleepTypes, ClockedTick DEF TimeInv, SleepClocked
    <2> QED
      BY <2>1, <2>2 DEF TimeInv, SleepClocked
  <1>9. CASE UNCHANGED schedVars
    BY <1>9 DEF TimeInv, SleepClocked, schedVars
  <1> QED
    BY <1>1, <1>2, <1>3, <1>4, <1>5, <1>6, <1>7, <1>8, <1>9 DEF Next, SchedNext, SchedStep

\* A sleeping task is woken at the very tick it asked for, whatever the other tasks
\* do and however often the clock wraps.
THEOREM TasksWakeOnTime == Spec => []WokenOnTime
  <1>1. Init => TimeInv
    BY InitIInv, SleepClockedInit DEF TimeInv
  <1>2. TimeInv /\ [Next]_schedVars => TimeInv'
    BY NextIInv, SleepClockedNext DEF TimeInv
  <1>3. TimeInv => WokenOnTime
    BY SleepTypes, ClockedHead DEF TimeInv, SleepClocked, WokenOnTime, Expired
  <1> QED
    BY <1>1, <1>2, <1>3, PTL DEF Spec
=============================================================================
