------------------------------- MODULE OsTime -------------------------------
(* Tasks that only delay themselves: the scheduler and the clock alone. *)
EXTENDS OsSched

Init == SchedInit
Next == SchedNext
Spec == Init /\ [][Next]_schedVars
FairSpec == Spec /\ SchedFairness /\ \A t \in Task \ {Idle} : SF_schedVars(SchedSteps(t))

TypeOK ==
    /\ SchedType(sched)
    /\ cur \in Task /\ now \in 0 .. TimeMod - 1
    /\ isr \in {"none", "timer_exp"} /\ crit \in BOOLEAN /\ pendsv \in BOOLEAN
    /\ psv \in Task \cup {NULL}
    /\ pc \in [Task -> {"app", "os_sched", "os_arch_ctx_sw"}]
    /\ next_t \in [Task -> Task \cup {NULL}] /\ ret \in [Task -> {"app"}]

\* The lists are consistent whatever the tasks do.
SchedConsistent == ListsConsistent(sched)
=============================================================================
