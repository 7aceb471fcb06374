----------------------------- MODULE MCOsCallout -----------------------------
(* A task that gets events, one that makes them, the idle task; one queue. *)
EXTENDS OsCallout, TLC

CONSTANTS cons, prod, idle, q1, e1, t1, t2
MCTask == {cons, prod, idle}
MCPrio == (cons :> 1) @@ (prod :> 2) @@ (idle :> 9)
MCInitRun == <<cons, prod, idle>>
MCEvent == {e1, t1, t2}
MCEvqOf == (e1 :> q1) @@ (t1 :> q1) @@ (t2 :> q1)
MCEvq == {q1}
MCConsumer == (q1 :> cons)
MCCallout == {t1, t2}
MCResets == {0, 2}
MCTick == {1}
=============================================================================
