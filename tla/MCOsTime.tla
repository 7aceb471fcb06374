------------------------------ MODULE MCOsTime ------------------------------
(* Two tasks of the same priority, a more urgent one and the idle task. *)
EXTENDS OsTime, TLC

CONSTANTS h, l1, l2, idle
MCTask == {h, l1, l2, idle}
MCPrio == (h :> 1) @@ (l1 :> 2) @@ (l2 :> 2) @@ (idle :> 9)
MCInitRun == <<h, l1, l2, idle>>
MCDelays == 1..2
=============================================================================
