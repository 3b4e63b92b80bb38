--------------------------- MODULE MCMessageQueue ---------------------------
(* MessageQueue with named threads: r1 and s1 have the higher priority. *)
EXTENDS MessageQueue, TLC

CONSTANTS s1, s2, r1, r2, m1, m2

MCPriority2 == (s1 :> 6) @@ (s2 :> 7) @@ (r1 :> 6) @@ (r2 :> 7)
MCPriority == [t \in Threads |-> MCPriority2[t]]
=============================================================================
