----------------------------- MODULE MCSemaphore ------------------------------
(* Instances of Semaphore for TLC. *)
EXTENDS Semaphore, TLC

CONSTANTS low, mid, high

MCPriority == low :> 2 @@ mid :> 2 @@ high :> 1
==============================================================================
