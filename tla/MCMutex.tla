------------------------------- MODULE MCMutex --------------------------------
(* Mutex for TLC with three threads of different priorities. *)
EXTENDS Mutex, TLC

CONSTANTS low, mid, high

MCPriority == low :> 3 @@ mid :> 2 @@ high :> 1
==============================================================================
