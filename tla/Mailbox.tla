------------------------------- MODULE Mailbox --------------------------------
(***************************************************************************)
(* RT-Thread's mailbox (rt-thread/src/ipc.c): a ring of words, with the       *)
(* senders that wait for room and the receivers that wait for a mail. A call  *)
(* is one action when it is made and one per stretch with the interrupts      *)
(* disabled, in which it does all it does to the ring.                        *)
(***************************************************************************)
EXTENDS WaitList, FiniteSets

CONSTANTS
    Senders, Receivers,  \* threads that send, threads that receive
    Mails,               \* what they send
    Nothing,             \* no mail
    size,                \* words in the ring
    RT_MB_ENTRY_MAX,     \* largest value of entry, 65535 on the board
    Flag,                \* "FIFO" or "PRIO": order of the waiting threads
    Priority,            \* priority of each thread, a smaller number first
    MayReset             \* whether rt_mb_control(RT_IPC_CMD_RESET) is used

Threads == Senders \cup Receivers

ASSUME ThreadsAssumption == IsFiniteSet(Senders) /\ IsFiniteSet(Receivers)
ASSUME SizeAssumption == size \in Nat \ {0} /\ RT_MB_ENTRY_MAX \in Nat
ASSUME EntryMaxAssumption == size <= RT_MB_ENTRY_MAX  \* both are 16 bits wide
ASSUME NothingAssumption == Nothing \notin Mails
ASSUME PriorityAssumption == Priority \in [Threads -> Nat]
ASSUME FlagAssumption == Flag \in {"FIFO", "PRIO"} /\ MayReset \in BOOLEAN

VARIABLES
    msg_pool, in_offset, out_offset, entry,
    suspend_thread,         \* receivers that wait, in the order of the list
    suspend_sender_thread,  \* senders that wait
    pc,                     \* where each thread is in its call
    timeout,                \* "none" (0), "ticks" (> 0) or "forever" (< 0)
    offer,                  \* the mail it is sending
    accepted,               \* whether its last send returned RT_EOK
    value                   \* the last mail it received

ring  == <<msg_pool, in_offset, out_offset, entry>>
lists == <<suspend_thread, suspend_sender_thread>>
vars  == <<ring, lists, pc, timeout, offer, accepted, value>>

PCs == {"idle", "send", "sendwait", "sendretry", "urgent", "recv", "recvwait", "recvretry"}

TypeOK ==
    /\ msg_pool \in [0 .. size - 1 -> Mails \cup {Nothing}]
    /\ in_offset \in 0 .. size - 1
    /\ out_offset \in 0 .. size - 1
    /\ entry \in 0 .. size
    /\ suspend_thread \in Seq(Threads)
    /\ suspend_sender_thread \in Seq(Threads)
    /\ pc \in [Threads -> PCs]
    /\ timeout \in [Threads -> {"none", "ticks", "forever"}]
    /\ offer \in [Threads -> Mails \cup {Nothing}]
    /\ accepted \in [Threads -> BOOLEAN]
    /\ value \in [Threads -> Mails \cup {Nothing}]

(* rt_mb_init *)
Init ==
    /\ msg_pool = [i \in 0 .. size - 1 |-> Nothing]
    /\ in_offset = 0 /\ out_offset = 0 /\ entry = 0
    /\ suspend_thread = <<>>
    /\ suspend_sender_thread = <<>>
    /\ pc = [t \in Threads |-> "idle"]
    /\ timeout = [t \in Threads |-> "none"]
    /\ offer = [t \in Threads |-> Nothing]
    /\ accepted = [t \in Threads |-> FALSE]
    /\ value = [t \in Threads |-> Nothing]

(* rt_ipc_list_suspend *)
Place(list, t, k) == IF Flag = "FIFO" THEN k = Len(list) + 1
                                      ELSE PrioSlot(list, Priority, t, k)

Onward(offset) == IF offset + 1 >= size THEN 0 ELSE offset + 1

(* Mutant: the ring is rewound to its end. *)
BackwardPast(offset) == IF offset > 0 THEN offset - 1 ELSE 0

(* rt_mb_urgent rewinds to the previous position. *)
Backward(offset) == IF offset > 0 THEN offset - 1 ELSE size - 1

(* A thread whose wait ended looks again with what is left of its timeout. *)
TimeLeft(t) == IF pc[t] \in {"sendretry", "recvretry"} /\ timeout[t] = "ticks"
               THEN {"ticks", "none"}
               ELSE {timeout[t]}

(* The call of t returns, and rt_ipc_list_resume lets the first thread of a   *)
(* list that is not empty look again.                                        *)
ReturnsAndResumes(t, list, retry) ==
    pc' = IF list = <<>> THEN [pc EXCEPT ![t] = "idle"]
                         ELSE [pc EXCEPT ![t] = "idle", ![list[1]] = retry]

RestOf(list) == IF list = <<>> THEN <<>> ELSE Tail(list)

SendReturns(t, ok) ==
    /\ offer' = [offer EXCEPT ![t] = Nothing]
    /\ accepted' = [accepted EXCEPT ![t] = ok]
    /\ timeout' = [timeout EXCEPT ![t] = "none"]

-----------------------------------------------------------------------------
(* Sending *)

(* A call of rt_mb_send_wait; rt_mb_send is the one with timeout 0. *)
rt_mb_send_wait(t) ==
    /\ pc[t] = "idle" /\ t \in Senders
    /\ \E m \in Mails : offer' = [offer EXCEPT ![t] = m]
    /\ \E time \in {"none", "ticks", "forever"} : timeout' = [timeout EXCEPT ![t] = time]
    /\ pc' = [pc EXCEPT ![t] = "send"]
    /\ UNCHANGED <<ring, lists, accepted, value>>

rt_mb_urgent(t) ==
    /\ pc[t] = "idle" /\ t \in Senders
    /\ \E m \in Mails : offer' = [offer EXCEPT ![t] = m]
    /\ pc' = [pc EXCEPT ![t] = "urgent"]
    /\ UNCHANGED <<ring, lists, timeout, accepted, value>>

(* The ring is full: return -RT_EFULL ... *)
SendFull(t) ==
    /\ entry = size
    /\ \/ pc[t] = "urgent"
       \/ pc[t] \in {"send", "sendretry"} /\ "none" \in TimeLeft(t)
    /\ SendReturns(t, FALSE)
    /\ pc' = [pc EXCEPT ![t] = "idle"]
    /\ UNCHANGED <<ring, lists, value>>

(* ... or wait for room. *)
SendSuspend(t) ==
    /\ pc[t] \in {"send", "sendretry"}
    /\ entry = size
    /\ timeout[t] # "none"
    /\ \E k \in 1 .. Len(suspend_sender_thread) + 1 :
           /\ Place(suspend_sender_thread, t, k)
           /\ suspend_sender_thread' = InsertedAt(suspend_sender_thread, k, t)
    /\ pc' = [pc EXCEPT ![t] = "sendwait"]
    /\ UNCHANGED <<ring, suspend_thread, timeout, offer, accepted, value>>

(* There is room: write the word at in_offset, count it, and resume a         *)
(* receiver that waits. If the count cannot grow, the call fails although the *)
(* word is written.                                                          *)
SendPut(t) ==
    /\ pc[t] \in {"send", "sendretry"}
    /\ entry # size
    /\ msg_pool' = [msg_pool EXCEPT ![in_offset] = offer[t]]
    /\ in_offset' = Onward(in_offset)
    /\ IF entry < RT_MB_ENTRY_MAX
       THEN /\ entry' = entry + 1
            /\ SendReturns(t, TRUE)
            /\ ReturnsAndResumes(t, suspend_thread, "recvretry")
            /\ suspend_thread' = RestOf(suspend_thread)
       ELSE /\ SendReturns(t, FALSE)
            /\ pc' = [pc EXCEPT ![t] = "idle"]
            /\ UNCHANGED <<entry, suspend_thread>>
    /\ UNCHANGED <<out_offset, suspend_sender_thread, value>>

(* rt_mb_urgent: write the word in front of the one at out_offset. *)
UrgentPut(t) ==
    /\ pc[t] = "urgent"
    /\ entry # size
    /\ out_offset' = Backward(out_offset)
    /\ msg_pool' = [msg_pool EXCEPT ![Backward(out_offset)] = offer[t]]
    /\ entry' = entry + 1
    /\ SendReturns(t, TRUE)
    /\ ReturnsAndResumes(t, suspend_thread, "recvretry")
    /\ suspend_thread' = RestOf(suspend_thread)
    /\ UNCHANGED <<in_offset, suspend_sender_thread, value>>

-----------------------------------------------------------------------------
(* Receiving *)

rt_mb_recv(t) ==
    /\ pc[t] = "idle" /\ t \in Receivers
    /\ \E time \in {"none", "ticks", "forever"} : timeout' = [timeout EXCEPT ![t] = time]
    /\ pc' = [pc EXCEPT ![t] = "recv"]
    /\ UNCHANGED <<ring, lists, offer, accepted, value>>

(* The ring is empty: return -RT_ETIMEOUT ... *)
RecvEmpty(t) ==
    /\ pc[t] \in {"recv", "recvretry"}
    /\ entry = 0
    /\ "none" \in TimeLeft(t)
    /\ pc' = [pc EXCEPT ![t] = "idle"]
    /\ timeout' = [timeout EXCEPT ![t] = "none"]
    /\ UNCHANGED <<ring, lists, offer, accepted, value>>

(* ... or wait for a mail. *)
RecvSuspend(t) ==
    /\ pc[t] \in {"recv", "recvretry"}
    /\ entry = 0
    /\ timeout[t] # "none"
    /\ \E k \in 1 .. Len(suspend_thread) + 1 :
           /\ Place(suspend_thread, t, k)
           /\ suspend_thread' = InsertedAt(suspend_thread, k, t)
    /\ pc' = [pc EXCEPT ![t] = "recvwait"]
    /\ UNCHANGED <<ring, suspend_sender_thread, timeout, offer, accepted, value>>

(* Mutant: a sender is resumed only if the ring was full. *)
RecvGetWakesOnFull(t) ==
    /\ pc[t] \in {"recv", "recvretry"}
    /\ entry # 0
    /\ value' = [value EXCEPT ![t] = msg_pool[out_offset]]
    /\ out_offset' = Onward(out_offset)
    /\ entry' = entry - 1
    /\ timeout' = [timeout EXCEPT ![t] = "none"]
    /\ IF entry = size
       THEN /\ ReturnsAndResumes(t, suspend_sender_thread, "sendretry")
            /\ suspend_sender_thread' = RestOf(suspend_sender_thread)
       ELSE pc' = [pc EXCEPT ![t] = "idle"] /\ UNCHANGED suspend_sender_thread
    /\ UNCHANGED <<msg_pool, in_offset, suspend_thread, offer, accepted>>

(* There is a mail: read the word at out_offset, uncount it, and resume a     *)
(* sender that waits.                                                        *)
RecvGet(t) ==
    /\ pc[t] \in {"recv", "recvretry"}
    /\ entry # 0
    /\ value' = [value EXCEPT ![t] = msg_pool[out_offset]]
    /\ out_offset' = Onward(out_offset)
    /\ entry' = entry - 1
    /\ timeout' = [timeout EXCEPT ![t] = "none"]
    /\ ReturnsAndResumes(t, suspend_sender_thread, "sendretry")
    /\ suspend_sender_thread' = RestOf(suspend_sender_thread)
    /\ UNCHANGED <<msg_pool, in_offset, suspend_thread, offer, accepted>>

-----------------------------------------------------------------------------
(* rt_thread_timeout: the thread's timer ends its wait with -RT_ETIMEOUT. *)
rt_thread_timeout(t) ==
    /\ pc[t] \in {"sendwait", "recvwait"}
    /\ timeout[t] = "ticks"
    /\ suspend_thread' = Removed(suspend_thread, t)
    /\ suspend_sender_thread' = Removed(suspend_sender_thread, t)
    /\ pc' = [pc EXCEPT ![t] = "idle"]
    /\ timeout' = [timeout EXCEPT ![t] = "none"]
    /\ offer' = [offer EXCEPT ![t] = Nothing]
    /\ accepted' = [accepted EXCEPT ![t] = IF pc[t] = "sendwait" THEN FALSE ELSE @]
    /\ UNCHANGED <<ring, value>>

(* Mutant: out_offset keeps its place. *)
ReinitKeepsOut ==
    /\ entry' = 0 /\ in_offset' = 0
    /\ UNCHANGED <<msg_pool, out_offset>>

Reinit ==
    /\ entry' = 0 /\ in_offset' = 0 /\ out_offset' = 0
    /\ UNCHANGED msg_pool

(* rt_mb_control(RT_IPC_CMD_RESET): all waiting threads return -RT_ERROR and  *)
(* the ring is empty.                                                        *)
Reset ==
    /\ MayReset
    /\ LET waits(t) == pc[t] \in {"recvwait", "sendwait"}
       IN  /\ pc' = [t \in Threads |-> IF waits(t) THEN "idle" ELSE pc[t]]
           /\ timeout' = [t \in Threads |-> IF waits(t) THEN "none" ELSE timeout[t]]
    /\ offer' = [t \in Threads |-> IF pc[t] = "sendwait" THEN Nothing ELSE offer[t]]
    /\ accepted' = [t \in Threads |-> IF pc[t] = "sendwait" THEN FALSE ELSE accepted[t]]
    /\ suspend_thread' = <<>>
    /\ suspend_sender_thread' = <<>>
    /\ Reinit
    /\ UNCHANGED value

Next ==
    \/ \E t \in Threads :
          \/ rt_mb_send_wait(t) \/ rt_mb_urgent(t)
          \/ SendFull(t) \/ SendSuspend(t) \/ SendPut(t) \/ UrgentPut(t)
          \/ rt_mb_recv(t)
          \/ RecvEmpty(t) \/ RecvSuspend(t) \/ RecvGet(t)
          \/ rt_thread_timeout(t)
    \/ Reset

Spec == Init /\ [][Next]_vars

-----------------------------------------------------------------------------
(* Properties *)

(* entry, kept by counting, always agrees with the two offsets, kept by going *)
(* round the ring in both directions: the words from out_offset on are entry  *)
(* words and end where rt_mb_send_wait writes next, through urgent mails,     *)
(* wrap-arounds and resets. So the branch of rt_mb_send_wait that returns     *)
(* -RT_EFULL after it has moved in_offset is never taken.                     *)
OffsetsAgree == out_offset + entry \in {in_offset, in_offset + size}

(* No wake-up is lost (rt_mb_send_wait, rt_mb_urgent and rt_mb_recv resume    *)
(* one thread a time): receivers stay suspended while there are mails only if *)
(* as many resumed ones are about to look, and likewise senders while there   *)
(* is room.                                                                  *)
NoLostWakeup ==
    /\ suspend_thread # <<>>
          => entry <= Cardinality({t \in Threads : pc[t] = "recvretry"})
    /\ suspend_sender_thread # <<>>
          => size - entry <= Cardinality({t \in Threads : pc[t] = "sendretry"})

(* The mails in the ring, from out_offset on. *)
WordAt(i) == IF out_offset + i - 1 < size THEN out_offset + i - 1
                                          ELSE out_offset + i - 1 - size
Queued == [i \in 1 .. entry |-> msg_pool[WordAt(i)]]

IsUrgent == [t \in Threads |-> pc[t] = "urgent"]

(* The mailbox implements EventQueue: what a sender handed over with RT_EOK   *)
(* is received once, by one thread, in order, urgent mails first; what it was *)
(* refused is never received.                                                *)
Promise == INSTANCE EventQueue WITH
    Clients <- Threads,
    Messages <- Mails,
    Capacity <- size,
    urgent <- IsUrgent,
    q <- Queued,
    out <- value

KeepsPromise == Promise!Spec
==============================================================================
