------------------------------- MODULE MCOsSem -------------------------------
(* Three tasks of different urgency, the idle task and one semaphore. *)
EXTENDS OsSem, TLC

CONSTANTS h, k, l, idle, s1
MCTask == {h, k, l, idle}
MCPrio == (h :> 1) @@ (k :> 2) @@ (l :> 3) @@ (idle :> 9)
MCInitRun == <<h, k, l, idle>>
MCSem == {s1}
MCShortOrNever == {1, NEVER}
=============================================================================
