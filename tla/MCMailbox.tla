------------------------------ MODULE MCMailbox ------------------------------
(* Mailbox with named threads: s1 and r1 have the higher priority. *)
EXTENDS Mailbox, TLC

CONSTANTS s1, s2, r1, r2, m1, m2

MCPriorities == (s1 :> 6) @@ (s2 :> 7) @@ (r1 :> 6) @@ (r2 :> 7)
MCPriority == [t \in Threads |-> MCPriorities[t]]
==============================================================================
