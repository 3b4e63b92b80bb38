------------------------------ MODULE EventQueue ------------------------------
(***************************************************************************)
(* What a message queue promises its users: a message handed over is put    *)
(* into a bounded FIFO once, or the call fails and it is never seen; a      *)
(* message taken out reaches exactly one receiver, unchanged and in order   *)
(* (urgent messages overtake).                                              *)
(***************************************************************************)
EXTENDS Naturals, Sequences

CONSTANTS Clients, Messages, Nothing, Capacity

VARIABLES
    q,        \* the messages in the queue
    offer,    \* the message each client is handing over, or Nothing
    urgent,   \* whether it is to overtake the others
    accepted, \* whether each client's last hand-over succeeded
    out       \* the last message each client received

queueVars == <<q, offer, urgent, accepted, out>>

Init ==
    /\ q = <<>>
    /\ offer = [c \in Clients |-> Nothing]
    /\ urgent = [c \in Clients |-> FALSE]
    /\ accepted = [c \in Clients |-> FALSE]
    /\ out = [c \in Clients |-> Nothing]

Offer(c) ==
    /\ offer[c] = Nothing
    /\ \E m \in Messages : offer' = [offer EXCEPT ![c] = m]
    /\ \E u \in BOOLEAN : urgent' = [urgent EXCEPT ![c] = u]
    /\ UNCHANGED <<q, accepted, out>>

(* The hand-over ends, well or badly. *)
Done(c, ok) ==
    /\ offer' = [offer EXCEPT ![c] = Nothing]
    /\ urgent' = [urgent EXCEPT ![c] = FALSE]
    /\ accepted' = [accepted EXCEPT ![c] = ok]

Put(c) ==
    /\ offer[c] # Nothing
    /\ Len(q) < Capacity
    /\ q' = IF urgent[c] THEN <<offer[c]>> \o q ELSE Append(q, offer[c])
    /\ Done(c, TRUE)
    /\ UNCHANGED out

Refuse(c) ==
    /\ offer[c] # Nothing
    /\ Done(c, FALSE)
    /\ UNCHANGED <<q, out>>

Get(c) ==
    /\ q # <<>>
    /\ out' = [out EXCEPT ![c] = Head(q)]
    /\ q' = Tail(q)
    /\ UNCHANGED <<offer, urgent, accepted>>

(* A reset throws the messages away and refuses what waiting clients offer. *)
Clear ==
    /\ q' = <<>>
    /\ \E refused \in SUBSET {c \in Clients : offer[c] # Nothing /\ ~urgent[c]} :
           /\ offer' = [c \in Clients |-> IF c \in refused THEN Nothing ELSE offer[c]]
           /\ accepted' = [c \in Clients |-> IF c \in refused THEN FALSE ELSE accepted[c]]
    /\ UNCHANGED <<urgent, out>>

Next ==
    \/ \E c \in Clients : Offer(c) \/ Put(c) \/ Refuse(c) \/ Get(c)
    \/ Clear

Spec == Init /\ [][Next]_queueVars
==============================================================================
