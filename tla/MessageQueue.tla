----------------------------- MODULE MessageQueue -----------------------------
(***************************************************************************)
(* RT-Thread's message queue (rt-thread/src/ipc.c), one action per critical  *)
(* section (a stretch with the interrupts disabled) and per copy of a        *)
(* message outside it, for threads that interleave in any way.               *)
(*                                                                         *)
(* The list from msg_queue_head to msg_queue_tail is the sequence msg_queue. *)
(* The blocks of the free list are the set msg_queue_free: which of them a   *)
(* sender takes makes no difference to it.                                   *)
(***************************************************************************)
EXTENDS WaitList, FiniteSets

CONSTANTS
    Senders, Receivers,  \* threads that send, threads that receive
    Messages,            \* what they send
    Nothing,             \* no message
    max_msgs,            \* blocks in the pool
    RT_MQ_ENTRY_MAX,     \* largest value of entry
    Flag,                \* "FIFO" or "PRIO": order of the waiting threads
    Priority,            \* priority of each thread, a smaller number first
    MayReset             \* whether rt_mq_control(RT_IPC_CMD_RESET) is used

Threads == Senders \cup Receivers
Blocks  == 1 .. max_msgs
NoBlock == 0

ASSUME ThreadsAssumption == IsFiniteSet(Senders) /\ IsFiniteSet(Receivers)
ASSUME MaxMsgsAssumption == max_msgs \in Nat /\ RT_MQ_ENTRY_MAX \in Nat
ASSUME EntryMaxAssumption == max_msgs <= RT_MQ_ENTRY_MAX  \* both are 16 bits wide
ASSUME NothingAssumption == Nothing \notin Messages
ASSUME PriorityAssumption == Priority \in [Threads -> Nat]
ASSUME FlagAssumption == Flag \in {"FIFO", "PRIO"} /\ MayReset \in BOOLEAN

VARIABLES
    msg_queue, msg_queue_free, entry,
    data,                   \* contents of each block
    suspend_thread,         \* receivers that wait, in the order of the list
    suspend_sender_thread,  \* senders that wait
    pc,                     \* where each thread is in its call
    msg,                    \* the block it has in hand
    timeout,                \* "none" (0), "ticks" (> 0) or "forever" (< 0)
    offer,                  \* the message it is sending
    accepted,               \* whether its last send returned RT_EOK
    buffer                  \* the last message it received

vars == <<msg_queue, msg_queue_free, entry, data, suspend_thread,
          suspend_sender_thread, pc, msg, timeout, offer, accepted, buffer>>

SendPCs == {"send", "sendwait", "sendretry", "copyin", "link",
            "urgent", "urgentcopyin", "urgentlink"}
RecvPCs == {"recv", "recvwait", "recvretry", "copyout", "release"}
Holding == {"copyin", "urgentcopyin", "link", "urgentlink", "copyout", "release"}

TypeOK ==
    /\ msg_queue \in Seq(Blocks)
    /\ msg_queue_free \subseteq Blocks
    /\ entry \in 0 .. RT_MQ_ENTRY_MAX
    /\ data \in [Blocks -> Messages \cup {Nothing}]
    /\ suspend_thread \in Seq(Threads)
    /\ suspend_sender_thread \in Seq(Threads)
    /\ pc \in [Threads -> {"idle"} \cup SendPCs \cup RecvPCs]
    /\ msg \in [Threads -> Blocks \cup {NoBlock}]
    /\ timeout \in [Threads -> {"none", "ticks", "forever"}]
    /\ offer \in [Threads -> Messages \cup {Nothing}]
    /\ accepted \in [Threads -> BOOLEAN]
    /\ buffer \in [Threads -> Messages \cup {Nothing}]

(* rt_mq_create puts every block on the free list. *)
Pool == Blocks

Init ==
    /\ msg_queue = <<>>
    /\ msg_queue_free = Pool
    /\ entry = 0
    /\ data = [b \in Blocks |-> Nothing]
    /\ suspend_thread = <<>>
    /\ suspend_sender_thread = <<>>
    /\ pc = [t \in Threads |-> "idle"]
    /\ msg = [t \in Threads |-> NoBlock]
    /\ timeout = [t \in Threads |-> "none"]
    /\ offer = [t \in Threads |-> Nothing]
    /\ accepted = [t \in Threads |-> FALSE]
    /\ buffer = [t \in Threads |-> Nothing]

-----------------------------------------------------------------------------
(* The lists of waiting threads *)

(* Mutant: the comparison of the priorities is the wrong way round. *)
PositionReversed(list, t, k) ==
    /\ \A i \in 1 .. k - 1 : Priority[t] <= Priority[list[i]]
    /\ k <= Len(list) => Priority[t] > Priority[list[k]]

(* rt_ipc_list_suspend: at the end for FIFO; for PRIO before the first       *)
(* thread of lower priority.                                                 *)
Position(list, t, k) ==
    IF Flag = "FIFO" THEN k = Len(list) + 1
    ELSE /\ \A i \in 1 .. k - 1 : Priority[t] >= Priority[list[i]]
         /\ k <= Len(list) => Priority[t] < Priority[list[k]]

(* rt_thread_timeout takes a thread out of the list it waits in. *)
Without(list, k) == [i \in 1 .. Len(list) - 1 |-> IF i < k THEN list[i] ELSE list[i + 1]]

(* A thread whose wait ended looks again with what is left of its timeout:   *)
(* the ticks it waited are subtracted, down to 0.                            *)
TimeLeft(t) == IF pc[t] \in {"sendretry", "recvretry"} /\ timeout[t] = "ticks"
               THEN {"ticks", "none"}
               ELSE {timeout[t]}

(* rt_ipc_list_resume on a list that is not empty: its first thread is ready *)
(* to look again. The thread that does it goes on to pc "to".                *)
ResumeFirst(list, t, to, wake) ==
    pc' = IF list = <<>> THEN [pc EXCEPT ![t] = to]
                         ELSE [pc EXCEPT ![t] = to, ![list[1]] = wake]

RestOf(list) == IF list = <<>> THEN <<>> ELSE Tail(list)

(* A send returns: the message is accepted, or it is not. *)
SendReturns(t, ok) ==
    /\ offer' = [offer EXCEPT ![t] = Nothing]
    /\ accepted' = [accepted EXCEPT ![t] = ok]

(* The call's timeout is gone when it returns. *)
Forget(t) == timeout' = [timeout EXCEPT ![t] = "none"]

queueUnchanged == <<msg_queue, msg_queue_free, entry, data, msg>>
listsUnchanged == <<suspend_thread, suspend_sender_thread>>

-----------------------------------------------------------------------------
(* Sending *)

(* A call of rt_mq_send_wait; rt_mq_send is the one with timeout 0. *)
rt_mq_send_wait(t) ==
    /\ pc[t] = "idle"
    /\ t \in Senders
    /\ \E m \in Messages : offer' = [offer EXCEPT ![t] = m]
    /\ \E to \in {"none", "ticks", "forever"} : timeout' = [timeout EXCEPT ![t] = to]
    /\ pc' = [pc EXCEPT ![t] = "send"]
    /\ UNCHANGED <<queueUnchanged, listsUnchanged, accepted, buffer>>

(* A call of rt_mq_urgent, which never waits. From here on it takes the same  *)
(* steps as rt_mq_send_wait, except that Link puts its block at the head.     *)
rt_mq_urgent(t) ==
    /\ pc[t] = "idle"
    /\ t \in Senders
    /\ \E m \in Messages : offer' = [offer EXCEPT ![t] = m]
    /\ pc' = [pc EXCEPT ![t] = "urgent"]
    /\ UNCHANGED <<queueUnchanged, listsUnchanged, timeout, accepted, buffer>>

(* The first critical section: take a free block ... *)
TakeFree(t) ==
    /\ pc[t] \in {"send", "sendretry", "urgent"}
    /\ \E b \in msg_queue_free :
           /\ msg_queue_free' = msg_queue_free \ {b}
           /\ msg' = [msg EXCEPT ![t] = b]
    /\ pc' = [pc EXCEPT ![t] = IF @ = "urgent" THEN "urgentcopyin" ELSE "copyin"]
    /\ UNCHANGED <<msg_queue, entry, data, listsUnchanged, timeout, offer, accepted, buffer>>

(* ... or return -RT_EFULL ... *)
SendFull(t) ==
    /\ msg_queue_free = {}
    /\ \/ pc[t] = "urgent"
       \/ pc[t] \in {"send", "sendretry"} /\ "none" \in TimeLeft(t)
    /\ pc' = [pc EXCEPT ![t] = "idle"]
    /\ SendReturns(t, FALSE)
    /\ Forget(t)
    /\ UNCHANGED <<queueUnchanged, listsUnchanged, buffer>>

(* ... or wait for a block. *)
SendSuspend(t) ==
    /\ pc[t] \in {"send", "sendretry"}
    /\ msg_queue_free = {}
    /\ timeout[t] # "none"
    /\ \E k \in 1 .. Len(suspend_sender_thread) + 1 :
           /\ Position(suspend_sender_thread, t, k)
           /\ suspend_sender_thread' = InsertedAt(suspend_sender_thread, k, t)
    /\ pc' = [pc EXCEPT ![t] = "sendwait"]
    /\ UNCHANGED <<queueUnchanged, suspend_thread, timeout, offer, accepted, buffer>>

(* The message is copied into the block with interrupts enabled. *)
CopyIn(t) ==
    /\ pc[t] \in {"copyin", "urgentcopyin"}
    /\ data' = [data EXCEPT ![msg[t]] = offer[t]]
    /\ pc' = [pc EXCEPT ![t] = IF @ = "copyin" THEN "link" ELSE "urgentlink"]
    /\ UNCHANGED <<msg_queue, msg_queue_free, entry, msg, listsUnchanged, timeout,
                   offer, accepted, buffer>>

(* The second critical section: link the block at the tail (at the head for  *)
(* rt_mq_urgent), count it, and resume a receiver that waits. If the count   *)
(* cannot grow, the call fails although the block is linked.                 *)
Link(t) ==
    /\ pc[t] \in {"link", "urgentlink"}
    /\ msg_queue' = IF pc[t] = "link" THEN Append(msg_queue, msg[t])
                                      ELSE <<msg[t]>> \o msg_queue
    /\ msg' = [msg EXCEPT ![t] = NoBlock]
    /\ IF entry < RT_MQ_ENTRY_MAX
       THEN /\ entry' = entry + 1
            /\ SendReturns(t, TRUE)
            /\ ResumeFirst(suspend_thread, t, "idle", "recvretry")
            /\ suspend_thread' = RestOf(suspend_thread)
       ELSE /\ SendReturns(t, FALSE)
            /\ pc' = [pc EXCEPT ![t] = "idle"]
            /\ UNCHANGED <<entry, suspend_thread>>
    /\ Forget(t)
    /\ UNCHANGED <<msg_queue_free, data, suspend_sender_thread, buffer>>

-----------------------------------------------------------------------------
(* Receiving *)

rt_mq_recv(t) ==
    /\ pc[t] = "idle"
    /\ t \in Receivers
    /\ \E to \in {"none", "ticks", "forever"} : timeout' = [timeout EXCEPT ![t] = to]
    /\ pc' = [pc EXCEPT ![t] = "recv"]
    /\ UNCHANGED <<queueUnchanged, listsUnchanged, offer, accepted, buffer>>

(* Mutant: the block goes back to the free list before it is copied. *)
UnlinkFreesEarly(t) ==
    /\ pc[t] \in {"recv", "recvretry"}
    /\ entry # 0
    /\ msg' = [msg EXCEPT ![t] = Head(msg_queue)]
    /\ msg_queue' = Tail(msg_queue)
    /\ msg_queue_free' = msg_queue_free \cup {Head(msg_queue)}
    /\ entry' = entry - 1
    /\ pc' = [pc EXCEPT ![t] = "copyout"]
    /\ UNCHANGED <<data, listsUnchanged, timeout, offer, accepted, buffer>>

(* Mutant: the count is not decremented. *)
UnlinkUncounted(t) ==
    /\ pc[t] \in {"recv", "recvretry"}
    /\ entry # 0
    /\ msg' = [msg EXCEPT ![t] = Head(msg_queue)]
    /\ msg_queue' = Tail(msg_queue)
    /\ pc' = [pc EXCEPT ![t] = "copyout"]
    /\ UNCHANGED <<msg_queue_free, entry, data, listsUnchanged, timeout, offer,
                   accepted, buffer>>

(* The first critical section: unlink the message at the head ... *)
Unlink(t) ==
    /\ pc[t] \in {"recv", "recvretry"}
    /\ entry # 0
    /\ msg' = [msg EXCEPT ![t] = Head(msg_queue)]
    /\ msg_queue' = Tail(msg_queue)
    /\ entry' = entry - 1
    /\ pc' = [pc EXCEPT ![t] = "copyout"]
    /\ UNCHANGED <<msg_queue_free, data, listsUnchanged, timeout, offer, accepted, buffer>>

(* ... or return -RT_ETIMEOUT ... *)
RecvEmpty(t) ==
    /\ pc[t] \in {"recv", "recvretry"}
    /\ entry = 0
    /\ "none" \in TimeLeft(t)
    /\ pc' = [pc EXCEPT ![t] = "idle"]
    /\ Forget(t)
    /\ UNCHANGED <<queueUnchanged, listsUnchanged, offer, accepted, buffer>>

(* ... or wait for a message. *)
RecvSuspend(t) ==
    /\ pc[t] \in {"recv", "recvretry"}
    /\ entry = 0
    /\ timeout[t] # "none"
    /\ \E k \in 1 .. Len(suspend_thread) + 1 :
           /\ Position(suspend_thread, t, k)
           /\ suspend_thread' = InsertedAt(suspend_thread, k, t)
    /\ pc' = [pc EXCEPT ![t] = "recvwait"]
    /\ UNCHANGED <<queueUnchanged, suspend_sender_thread, timeout, offer, accepted, buffer>>

(* The message is copied out of the block with interrupts enabled. *)
CopyOut(t) ==
    /\ pc[t] = "copyout"
    /\ buffer' = [buffer EXCEPT ![t] = data[msg[t]]]
    /\ pc' = [pc EXCEPT ![t] = "release"]
    /\ UNCHANGED <<queueUnchanged, listsUnchanged, timeout, offer, accepted>>

(* Mutant: a sender is resumed only when the free list was empty. *)
ReleaseWakesOnFirst(t) ==
    /\ pc[t] = "release"
    /\ msg_queue_free' = msg_queue_free \cup {msg[t]}
    /\ msg' = [msg EXCEPT ![t] = NoBlock]
    /\ IF msg_queue_free = {}
       THEN /\ ResumeFirst(suspend_sender_thread, t, "idle", "sendretry")
            /\ suspend_sender_thread' = RestOf(suspend_sender_thread)
       ELSE pc' = [pc EXCEPT ![t] = "idle"] /\ UNCHANGED suspend_sender_thread
    /\ Forget(t)
    /\ UNCHANGED <<msg_queue, entry, data, suspend_thread, offer, accepted, buffer>>

(* The second critical section: free the block and resume a sender that waits. *)
Release(t) ==
    /\ pc[t] = "release"
    /\ msg_queue_free' = msg_queue_free \cup {msg[t]}
    /\ msg' = [msg EXCEPT ![t] = NoBlock]
    /\ ResumeFirst(suspend_sender_thread, t, "idle", "sendretry")
    /\ suspend_sender_thread' = RestOf(suspend_sender_thread)
    /\ Forget(t)
    /\ UNCHANGED <<msg_queue, entry, data, suspend_thread, offer, accepted, buffer>>

-----------------------------------------------------------------------------
(* rt_thread_timeout: the thread's timer ends its wait with -RT_ETIMEOUT. *)
RecvTimeout(t) ==
    /\ pc[t] = "recvwait"
    /\ timeout[t] = "ticks"
    /\ \E k \in 1 .. Len(suspend_thread) :
           suspend_thread[k] = t /\ suspend_thread' = Without(suspend_thread, k)
    /\ pc' = [pc EXCEPT ![t] = "idle"]
    /\ Forget(t)
    /\ UNCHANGED <<queueUnchanged, suspend_sender_thread, offer, accepted, buffer>>

SendTimeout(t) ==
    /\ pc[t] = "sendwait"
    /\ timeout[t] = "ticks"
    /\ \E k \in 1 .. Len(suspend_sender_thread) :
           /\ suspend_sender_thread[k] = t
           /\ suspend_sender_thread' = Without(suspend_sender_thread, k)
    /\ pc' = [pc EXCEPT ![t] = "idle"]
    /\ SendReturns(t, FALSE)
    /\ Forget(t)
    /\ UNCHANGED <<queueUnchanged, suspend_thread, buffer>>

(* Mutant: the free list is built anew from the whole pool. *)
DrainedToPool == Blocks

(* The free list after the loop that empties the queue. *)
Drained == msg_queue_free \cup Elements(msg_queue)

(* rt_mq_control(RT_IPC_CMD_RESET): all waiting threads return -RT_ERROR and  *)
(* the queued blocks go back to the free list.                                *)
Reset ==
    /\ MayReset
    /\ pc' = [t \in Threads |-> IF pc[t] \in {"recvwait", "sendwait"} THEN "idle" ELSE pc[t]]
    /\ timeout' = [t \in Threads |-> IF pc[t] \in {"recvwait", "sendwait"} THEN "none" ELSE timeout[t]]
    /\ offer' = [t \in Threads |-> IF pc[t] = "sendwait" THEN Nothing ELSE offer[t]]
    /\ accepted' = [t \in Threads |-> IF pc[t] = "sendwait" THEN FALSE ELSE accepted[t]]
    /\ suspend_thread' = <<>>
    /\ suspend_sender_thread' = <<>>
    /\ msg_queue_free' = Drained
    /\ msg_queue' = <<>>
    /\ entry' = 0
    /\ UNCHANGED <<data, msg, buffer>>

Next ==
    \/ \E t \in Threads :
          \/ rt_mq_send_wait(t) \/ rt_mq_urgent(t)
          \/ TakeFree(t) \/ SendFull(t) \/ SendSuspend(t) \/ CopyIn(t) \/ Link(t)
          \/ rt_mq_recv(t)
          \/ Unlink(t) \/ RecvEmpty(t) \/ RecvSuspend(t) \/ CopyOut(t) \/ Release(t)
          \/ RecvTimeout(t) \/ SendTimeout(t)
    \/ Reset

Spec == Init /\ [][Next]_vars

-----------------------------------------------------------------------------
(* Properties *)

QueuedOnce    == Once(msg_queue)
HeldOnce      == \A t, u \in Threads : msg[t] = msg[u] /\ msg[t] # NoBlock => t = u
QueuedNotFree == Elements(msg_queue) \cap msg_queue_free = {}
QueuedNotHeld == \A t \in Threads : msg[t] \notin Elements(msg_queue)
HeldNotFree   == \A t \in Threads : msg[t] \notin msg_queue_free
NoneLost      == \A b \in Blocks : \/ b \in msg_queue_free \cup Elements(msg_queue)
                                   \/ \E t \in Threads : msg[t] = b

(* Every block of the pool is in exactly one place: on the free list, in the *)
(* queue (once), or in the hands of one thread that is copying. So no copy   *)
(* made with interrupts enabled can meet another thread's use of the block.  *)
BlocksInOnePlace ==
    /\ QueuedOnce
    /\ HeldOnce
    /\ QueuedNotFree
    /\ QueuedNotHeld
    /\ HeldNotFree
    /\ NoneLost

(* entry counts the queued blocks, and it can always be incremented when a   *)
(* block is linked: the branch of rt_mq_send_wait that links the message and *)
(* yet returns -RT_EFULL is never taken.                                     *)
EntryCounts ==
    /\ entry = Len(msg_queue)
    /\ \A t \in Threads : pc[t] \in {"link", "urgentlink"} => entry < RT_MQ_ENTRY_MAX

(* No wake-up is lost: receivers stay suspended while messages are queued    *)
(* only if for each of them another receiver has been resumed and is about   *)
(* to look; and likewise for senders and free blocks.                        *)
NoLostWakeup ==
    /\ suspend_thread # <<>>
          => entry <= Cardinality({t \in Threads : pc[t] = "recvretry"})
    /\ suspend_sender_thread # <<>>
          => Cardinality(msg_queue_free) <= Cardinality({t \in Threads : pc[t] = "sendretry"})

ListOrdered(list, waiting) ==
    /\ Elements(list) = {t \in Threads : pc[t] = waiting}
    /\ \A i, j \in 1 .. Len(list) :
           /\ list[i] = list[j] => i = j
           /\ Flag = "PRIO" /\ i < j => Priority[list[i]] <= Priority[list[j]]

(* A list holds exactly the threads that wait in it, once each, and with     *)
(* RT_IPC_FLAG_PRIO the first is always one of the highest priority          *)
(* (rt_ipc_list_suspend, rt_ipc_list_resume, rt_thread_timeout).             *)
WaitListsOrdered ==
    /\ ListOrdered(suspend_thread, "recvwait")
    /\ ListOrdered(suspend_sender_thread, "sendwait")

(* What the queue looks like from outside: the messages in its blocks; who    *)
(* sends urgently; and what each thread received, which it has from the       *)
(* moment the block is unlinked, before it is copied.                        *)
Queued   == [i \in 1 .. Len(msg_queue) |-> data[msg_queue[i]]]
IsUrgent == [t \in Threads |-> \/ pc[t] = "urgent"
                              \/ pc[t] = "urgentcopyin"
                              \/ pc[t] = "urgentlink"]
Received == [t \in Threads |-> IF pc[t] = "copyout" THEN data[msg[t]] ELSE buffer[t]]

(* The queue implements EventQueue: a message that rt_mq_send_wait or         *)
(* rt_mq_urgent accepted is received once, by one thread, unchanged by the    *)
(* copies made with interrupts enabled, in order except for urgent messages;  *)
(* one that was refused is never received.                                   *)
Promise == INSTANCE EventQueue WITH
    Clients <- Threads,
    Capacity <- max_msgs,
    urgent <- IsUrgent,
    q <- Queued,
    out <- Received

KeepsPromise == Promise!Spec

(* ipc.c on rt_mq_send: "if the messagequeue is fully used, the current      *)
(* thread will wait for a timeout" (rt_mq_send is rt_mq_send_wait with       *)
(* timeout 0).                                                               *)
SendWaitsWhenFull ==
    [][\A t \in Threads :
          pc[t] = "send" /\ timeout[t] = "none" /\ msg_queue_free = {}
              => pc'[t] \in {"send", "sendwait"}]_vars
==============================================================================
