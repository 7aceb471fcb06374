------------------------------ MODULE MCOsMutex ------------------------------
(* Three tasks of different urgency, the idle task, a mutex. *)
EXTENDS OsMutex, TLC

CONSTANTS h, k, l, idle, m1
MCTask == {h, k, l, idle}
MCPrio == (h :> 1) @@ (k :> 2) @@ (l :> 3) @@ (idle :> 9)
MCInitRun == <<h, k, l, idle>>
MCAllUse == {h, k, l}
MCTwoUse == {h, l}
MCOneMutex == {m1}
MCNever == {NEVER}
MCShortOrNever == {1, NEVER}
MCTick == {1}
MCNoDelay == {}
=============================================================================
