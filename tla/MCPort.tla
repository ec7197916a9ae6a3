------------------------------- MODULE MCPort -------------------------------
(* FreeRtosPort for TLC: an urgent task, two of the same priority, idle.   *)
EXTENDS FreeRtosPort, TLC

CONSTANTS H, A, B, I
MCTasks == {H, A, B, I}
MCPrio == H :> 2 @@ A :> 1 @@ B :> 1 @@ I :> 0
MCOps == H :> 1 @@ A :> 2 @@ B :> 1 @@ I :> 1
MCStart == [hi |-> 0, lo |-> 1]
=============================================================================
