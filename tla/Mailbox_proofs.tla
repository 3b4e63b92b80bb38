--------------------------- MODULE Mailbox_proofs ----------------------------
(***************************************************************************)
(* Proofs about Mailbox, for any threads, priorities, mails and size of the  *)
(* ring.                                                                    *)
(***************************************************************************)
EXTENDS Mailbox, WaitList_proofs, SequenceTheorems

SendPCs == {"send", "sendwait", "sendretry", "urgent"}

(* A list holds the threads that wait in it, once each. *)
ListHolds(list, waiting) ==
    /\ Elements(list) = {t \in Threads : pc[t] = waiting}
    /\ Once(list)

ReceiversWait == ListHolds(suspend_thread, "recvwait")
SendersWait   == ListHolds(suspend_sender_thread, "sendwait")

(* A thread has a mail in hand exactly while it is in a call that sends. *)
OffersHeld == \A t \in Threads : offer[t] # Nothing <=> pc[t] \in SendPCs

(* The inductive invariant. OffsetsAgree needs the range of the offsets; that *)
(* a resumed thread is a waiting one needs the lists; and the refinement      *)
(* needs that no thread offers anything when its call begins.                *)
IInv ==
    /\ TypeOK
    /\ OffsetsAgree
    /\ ReceiversWait
    /\ SendersWait
    /\ OffersHeld

LEMMA InitIInv == Init => IInv
<1> SUFFICES ASSUME Init PROVE IInv
  OBVIOUS
<1>1. TypeOK
  BY SizeAssumption DEF Init, TypeOK, PCs
<1>2. OffsetsAgree
  BY SizeAssumption DEF Init, OffsetsAgree
<1>3. ReceiversWait /\ SendersWait
  BY DEF Init, ReceiversWait, SendersWait, ListHolds, Elements, Once
<1>4. OffersHeld
  BY DEF Init, OffersHeld, SendPCs
<1> QED BY <1>1, <1>2, <1>3, <1>4 DEF IInv

(* The calls that begin. *)
LEMMA CallSteps ==
    ASSUME IInv, NEW t \in Threads, rt_mb_send_wait(t) \/ rt_mb_urgent(t) \/ rt_mb_recv(t)
    PROVE  IInv'
<1> USE DEF IInv
<1>1. /\ pc[t] = "idle"
      /\ \E p \in {"send", "urgent", "recv"} : pc' = [pc EXCEPT ![t] = p]
      /\ UNCHANGED <<ring, lists, accepted, value>>
  BY DEF rt_mb_send_wait, rt_mb_urgent, rt_mb_recv
<1>2. TypeOK'
  <2>1. CASE rt_mb_send_wait(t)
    BY <2>1 DEF TypeOK, PCs, ring, lists, rt_mb_send_wait
  <2>2. CASE rt_mb_urgent(t)
    BY <2>2 DEF TypeOK, PCs, ring, lists, rt_mb_urgent
  <2>3. CASE rt_mb_recv(t)
    BY <2>3 DEF TypeOK, PCs, ring, lists, rt_mb_recv
  <2> QED BY <2>1, <2>2, <2>3
<1>3. OffsetsAgree'
  BY <1>1 DEF OffsetsAgree, ring
<1>4. ReceiversWait' /\ SendersWait'
  BY <1>1 DEF TypeOK, ReceiversWait, SendersWait, ListHolds, lists
<1>5. OffersHeld'
  BY NothingAssumption
     DEF TypeOK, OffersHeld, SendPCs, rt_mb_send_wait, rt_mb_urgent, rt_mb_recv
<1> QED BY <1>2, <1>3, <1>4, <1>5

(* The calls that return without a change of the ring. *)
LEMMA RefusedSteps ==
    ASSUME IInv, NEW t \in Threads, SendFull(t) \/ RecvEmpty(t)
    PROVE  IInv'
<1> USE DEF IInv
<1>1. /\ pc[t] \notin {"recvwait", "sendwait"}
      /\ pc' = [pc EXCEPT ![t] = "idle"]
      /\ UNCHANGED <<ring, lists, value>>
  BY DEF SendFull, RecvEmpty
<1>2. TypeOK'
  BY <1>1 DEF TypeOK, PCs, ring, lists, SendFull, RecvEmpty, SendReturns
<1>3. OffsetsAgree'
  BY <1>1 DEF OffsetsAgree, ring
<1>4. ReceiversWait' /\ SendersWait'
  BY <1>1 DEF TypeOK, ReceiversWait, SendersWait, ListHolds, lists
<1>5. OffersHeld'
  BY DEF TypeOK, OffersHeld, SendPCs, SendFull, RecvEmpty, SendReturns
<1> QED BY <1>2, <1>3, <1>4, <1>5

(* The calls that begin to wait. *)
LEMMA SuspendSteps ==
    ASSUME IInv, NEW t \in Threads, SendSuspend(t) \/ RecvSuspend(t)
    PROVE  IInv'
<1> USE DEF IInv
<1>1. CASE SendSuspend(t)
  <2>1. PICK k \in 1 .. Len(suspend_sender_thread) + 1 :
            suspend_sender_thread' = InsertedAt(suspend_sender_thread, k, t)
    BY <1>1 DEF SendSuspend
  <2>2. /\ pc[t] \in {"send", "sendretry"}
        /\ pc' = [pc EXCEPT ![t] = "sendwait"]
        /\ UNCHANGED <<ring, suspend_thread, timeout, offer, accepted, value>>
    BY <1>1 DEF SendSuspend
  <2>3. t \notin Elements(suspend_sender_thread)
    BY <2>2 DEF SendersWait, ListHolds
  <2>4. /\ suspend_sender_thread' \in Seq(Threads)
        /\ Elements(suspend_sender_thread') = Elements(suspend_sender_thread) \cup {t}
        /\ Once(suspend_sender_thread')
    BY <2>1, <2>3, InsertedOnce DEF TypeOK, SendersWait, ListHolds
  <2>5. TypeOK'
    BY <2>2, <2>4 DEF TypeOK, PCs, ring
  <2>6. OffsetsAgree' /\ OffersHeld'
    BY <2>2 DEF TypeOK, OffsetsAgree, OffersHeld, SendPCs, ring
  <2>7. ReceiversWait'
    BY <2>2 DEF TypeOK, ReceiversWait, ListHolds
  <2>8. SendersWait'
    BY <2>2, <2>4 DEF TypeOK, SendersWait, ListHolds
  <2> QED BY <2>5, <2>6, <2>7, <2>8
<1>2. CASE RecvSuspend(t)
  <2>1. PICK k \in 1 .. Len(suspend_thread) + 1 :
            suspend_thread' = InsertedAt(suspend_thread, k, t)
    BY <1>2 DEF RecvSuspend
  <2>2. /\ pc[t] \in {"recv", "recvretry"}
        /\ pc' = [pc EXCEPT ![t] = "recvwait"]
        /\ UNCHANGED <<ring, suspend_sender_thread, timeout, offer, accepted, value>>
    BY <1>2 DEF RecvSuspend
  <2>3. t \notin Elements(suspend_thread)
    BY <2>2 DEF ReceiversWait, ListHolds
  <2>4. /\ suspend_thread' \in Seq(Threads)
        /\ Elements(suspend_thread') = Elements(suspend_thread) \cup {t}
        /\ Once(suspend_thread')
    BY <2>1, <2>3, InsertedOnce DEF TypeOK, ReceiversWait, ListHolds
  <2>5. TypeOK'
    BY <2>2, <2>4 DEF TypeOK, PCs, ring
  <2>6. OffsetsAgree' /\ OffersHeld'
    BY <2>2 DEF TypeOK, OffsetsAgree, OffersHeld, SendPCs, ring
  <2>7. SendersWait'
    BY <2>2 DEF TypeOK, SendersWait, ListHolds
  <2>8. ReceiversWait'
    BY <2>2, <2>4 DEF TypeOK, ReceiversWait, ListHolds
  <2> QED BY <2>5, <2>6, <2>7, <2>8
<1> QED BY <1>1, <1>2

(* rt_ipc_list_resume on the list of the receivers: who waits, and what is   *)
(* left of the list, after a call that sends returns.                        *)
LEMMA ReceiverResumed ==
    ASSUME IInv, NEW t \in Threads, pc[t] \in {"send", "sendretry", "urgent"},
           ReturnsAndResumes(t, suspend_thread, "recvretry"),
           suspend_thread' = RestOf(suspend_thread)
    PROVE  /\ suspend_thread' \in Seq(Threads)
           /\ pc' \in [Threads -> PCs]
           /\ pc'[t] = "idle"
           /\ \A u \in Threads \ {t} : \/ pc'[u] = pc[u]
                                       \/ pc[u] = "recvwait" /\ pc'[u] = "recvretry"
           /\ suspend_thread # <<>>
                 => \E u \in Threads : pc[u] = "recvwait" /\ pc'[u] = "recvretry"
           /\ suspend_thread' # <<>> => suspend_thread # <<>>
           /\ ReceiversWait'
<1> USE DEF IInv
<1>1. CASE suspend_thread = <<>>
  BY <1>1 DEF ReturnsAndResumes, RestOf, TypeOK, PCs, ReceiversWait, ListHolds
<1>2. CASE suspend_thread # <<>>
  <2> DEFINE u == suspend_thread[1]
  <2>1. /\ Tail(suspend_thread) \in Seq(Threads)
        /\ u \in Threads /\ u \in Elements(suspend_thread)
        /\ Elements(Tail(suspend_thread)) = Elements(suspend_thread) \ {u}
        /\ Once(Tail(suspend_thread))
    BY <1>2, TailOnce DEF TypeOK, ReceiversWait, ListHolds
  <2>2. pc[u] = "recvwait" /\ u # t
    BY <2>1 DEF ReceiversWait, ListHolds
  <2>3. suspend_thread' = Tail(suspend_thread) /\ pc' = [pc EXCEPT ![t] = "idle", ![u] = "recvretry"]
    BY <1>2 DEF ReturnsAndResumes, RestOf
  <2> HIDE DEF u
  <2>4. pc' \in [Threads -> PCs] /\ pc'[t] = "idle" /\ pc'[u] = "recvretry"
    BY <2>1, <2>2, <2>3 DEF TypeOK, PCs
  <2>5. \A v \in Threads \ {t, u} : pc'[v] = pc[v]
    BY <2>1, <2>3 DEF TypeOK
  <2>6. Elements(suspend_thread') = {v \in Threads : pc'[v] = "recvwait"}
    BY <2>1, <2>2, <2>3, <2>4, <2>5 DEF ReceiversWait, ListHolds
  <2> QED BY <2>1, <2>2, <2>3, <2>4, <2>5, <2>6 DEF ReceiversWait, ListHolds
<1> QED BY <1>1, <1>2

(* The same on the list of the senders, when a call that receives returns. *)
LEMMA SenderResumed ==
    ASSUME IInv, NEW t \in Threads, pc[t] \in {"recv", "recvretry"},
           ReturnsAndResumes(t, suspend_sender_thread, "sendretry"),
           suspend_sender_thread' = RestOf(suspend_sender_thread)
    PROVE  /\ suspend_sender_thread' \in Seq(Threads)
           /\ pc' \in [Threads -> PCs]
           /\ pc'[t] = "idle"
           /\ \A u \in Threads \ {t} : \/ pc'[u] = pc[u]
                                       \/ pc[u] = "sendwait" /\ pc'[u] = "sendretry"
           /\ suspend_sender_thread # <<>>
                 => \E u \in Threads : pc[u] = "sendwait" /\ pc'[u] = "sendretry"
           /\ suspend_sender_thread' # <<>> => suspend_sender_thread # <<>>
           /\ SendersWait'
<1> USE DEF IInv
<1>1. CASE suspend_sender_thread = <<>>
  BY <1>1 DEF ReturnsAndResumes, RestOf, TypeOK, PCs, SendersWait, ListHolds
<1>2. CASE suspend_sender_thread # <<>>
  <2> DEFINE u == suspend_sender_thread[1]
  <2>1. /\ Tail(suspend_sender_thread) \in Seq(Threads)
        /\ u \in Threads /\ u \in Elements(suspend_sender_thread)
        /\ Elements(Tail(suspend_sender_thread)) = Elements(suspend_sender_thread) \ {u}
        /\ Once(Tail(suspend_sender_thread))
    BY <1>2, TailOnce DEF TypeOK, SendersWait, ListHolds
  <2>2. pc[u] = "sendwait" /\ u # t
    BY <2>1 DEF SendersWait, ListHolds
  <2>3. /\ suspend_sender_thread' = Tail(suspend_sender_thread)
        /\ pc' = [pc EXCEPT ![t] = "idle", ![u] = "sendretry"]
    BY <1>2 DEF ReturnsAndResumes, RestOf
  <2> HIDE DEF u
  <2>4. pc' \in [Threads -> PCs] /\ pc'[t] = "idle" /\ pc'[u] = "sendretry"
    BY <2>1, <2>2, <2>3 DEF TypeOK, PCs
  <2>5. \A v \in Threads \ {t, u} : pc'[v] = pc[v]
    BY <2>1, <2>3 DEF TypeOK
  <2>6. Elements(suspend_sender_thread') = {v \in Threads : pc'[v] = "sendwait"}
    BY <2>1, <2>2, <2>3, <2>4, <2>5 DEF SendersWait, ListHolds
  <2> QED BY <2>1, <2>2, <2>3, <2>4, <2>5, <2>6 DEF SendersWait, ListHolds
<1> QED BY <1>1, <1>2

(* The branch of rt_mb_send_wait that finds no room in the count is dead. *)
LEMMA SendPutCounts ==
    ASSUME IInv, NEW t \in Threads, SendPut(t)
    PROVE  /\ entry \in 0 .. size - 1
           /\ entry' = entry + 1
           /\ SendReturns(t, TRUE)
           /\ ReturnsAndResumes(t, suspend_thread, "recvretry")
           /\ suspend_thread' = RestOf(suspend_thread)
<1>1. entry \in 0 .. size - 1
  BY SizeAssumption DEF IInv, TypeOK, SendPut
<1>2. entry < RT_MB_ENTRY_MAX
  BY <1>1, SizeAssumption, EntryMaxAssumption
<1> QED BY <1>1, <1>2 DEF SendPut

LEMMA PutSteps ==
    ASSUME IInv, NEW t \in Threads, SendPut(t) \/ UrgentPut(t)
    PROVE  IInv'
<1> USE DEF IInv
<1>1. /\ pc[t] \in {"send", "sendretry", "urgent"}
      /\ entry \in 0 .. size - 1
      /\ entry' = entry + 1
      /\ SendReturns(t, TRUE)
      /\ ReturnsAndResumes(t, suspend_thread, "recvretry")
      /\ suspend_thread' = RestOf(suspend_thread)
      /\ UNCHANGED <<suspend_sender_thread, value>>
  <2>1. CASE SendPut(t)
    <3>1. pc[t] \in {"send", "sendretry"} /\ UNCHANGED <<suspend_sender_thread, value>>
      BY <2>1 DEF SendPut
    <3> QED BY <2>1, <3>1, SendPutCounts
  <2>2. CASE UrgentPut(t)
    <3>1. entry \in 0 .. size - 1
      BY <2>2, SizeAssumption DEF UrgentPut, TypeOK
    <3> QED BY <2>2, <3>1 DEF UrgentPut
  <2> QED BY <2>1, <2>2
<1>2. /\ suspend_thread' \in Seq(Threads)
      /\ pc' \in [Threads -> PCs]
      /\ pc'[t] = "idle"
      /\ \A u \in Threads \ {t} : \/ pc'[u] = pc[u]
                                  \/ pc[u] = "recvwait" /\ pc'[u] = "recvretry"
      /\ ReceiversWait'
  BY <1>1, ReceiverResumed
<1>3. /\ in_offset' \in 0 .. size - 1 /\ out_offset' \in 0 .. size - 1
      /\ OffsetsAgree'
  <2>1. CASE SendPut(t)
    BY <1>1, <2>1, SizeAssumption DEF TypeOK, OffsetsAgree, SendPut, Onward
  <2>2. CASE UrgentPut(t)
    BY <1>1, <2>2, SizeAssumption DEF TypeOK, OffsetsAgree, UrgentPut, Backward
  <2> QED BY <2>1, <2>2
<1>4. msg_pool' \in [0 .. size - 1 -> Mails \cup {Nothing}]
  BY DEF SendPut, UrgentPut, TypeOK
<1>5. /\ timeout' \in [Threads -> {"none", "ticks", "forever"}]
      /\ offer' \in [Threads -> Mails \cup {Nothing}]
      /\ accepted' \in [Threads -> BOOLEAN]
  BY <1>1 DEF SendReturns, TypeOK
<1>6. TypeOK'
  BY <1>1, <1>2, <1>3, <1>4, <1>5, SizeAssumption DEF TypeOK
<1>7. SendersWait'
  BY <1>1, <1>2 DEF SendersWait, ListHolds
<1>8. OffersHeld'
  BY <1>1, <1>2 DEF TypeOK, OffersHeld, SendPCs, SendReturns
<1> QED BY <1>2, <1>3, <1>6, <1>7, <1>8

LEMMA GetStep ==
    ASSUME IInv, NEW t \in Threads, RecvGet(t)
    PROVE  IInv'
<1> USE DEF IInv
<1>1. /\ pc[t] \in {"recv", "recvretry"}
      /\ entry \in 1 .. size
      /\ entry' = entry - 1
      /\ UNCHANGED <<msg_pool, in_offset, suspend_thread, offer, accepted>>
      /\ ReturnsAndResumes(t, suspend_sender_thread, "sendretry")
      /\ suspend_sender_thread' = RestOf(suspend_sender_thread)
  BY SizeAssumption DEF RecvGet, TypeOK
<1>2. /\ suspend_sender_thread' \in Seq(Threads)
      /\ pc' \in [Threads -> PCs]
      /\ pc'[t] = "idle"
      /\ \A u \in Threads \ {t} : \/ pc'[u] = pc[u]
                                  \/ pc[u] = "sendwait" /\ pc'[u] = "sendretry"
      /\ SendersWait'
  BY <1>1, SenderResumed
<1>3. out_offset' \in 0 .. size - 1 /\ OffsetsAgree'
  BY <1>1, SizeAssumption DEF TypeOK, OffsetsAgree, RecvGet, Onward
<1>4. /\ timeout' \in [Threads -> {"none", "ticks", "forever"}]
      /\ value' \in [Threads -> Mails \cup {Nothing}]
  BY DEF TypeOK, RecvGet
<1>5. TypeOK'
  BY <1>1, <1>2, <1>3, <1>4, SizeAssumption DEF TypeOK
<1>6. ReceiversWait'
  BY <1>1, <1>2 DEF ReceiversWait, ListHolds
<1>7. OffersHeld'
  BY <1>1, <1>2 DEF TypeOK, OffersHeld, SendPCs
<1> QED BY <1>2, <1>3, <1>5, <1>6, <1>7

LEMMA TimeoutStep ==
    ASSUME IInv, NEW t \in Threads, rt_thread_timeout(t)
    PROVE  IInv'
<1> USE DEF IInv
<1>1. /\ pc[t] \in {"sendwait", "recvwait"}
      /\ pc' = [pc EXCEPT ![t] = "idle"]
      /\ suspend_thread' = Removed(suspend_thread, t)
      /\ suspend_sender_thread' = Removed(suspend_sender_thread, t)
      /\ UNCHANGED <<ring, value>>
  BY DEF rt_thread_timeout
<1>2. /\ suspend_thread' \in Seq(Threads)
      /\ Elements(suspend_thread') = Elements(suspend_thread) \ {t}
      /\ Once(suspend_thread')
  BY <1>1, RemovedOnce DEF TypeOK, ReceiversWait, ListHolds
<1>3. /\ suspend_sender_thread' \in Seq(Threads)
      /\ Elements(suspend_sender_thread') = Elements(suspend_sender_thread) \ {t}
      /\ Once(suspend_sender_thread')
  BY <1>1, RemovedOnce DEF TypeOK, SendersWait, ListHolds
<1>4. ReceiversWait' /\ SendersWait'
  BY <1>1, <1>2, <1>3 DEF TypeOK, ReceiversWait, SendersWait, ListHolds
<1>5. TypeOK'
  BY <1>1, <1>2, <1>3 DEF TypeOK, PCs, ring, rt_thread_timeout
<1>6. OffsetsAgree'
  BY <1>1 DEF OffsetsAgree, ring
<1>7. OffersHeld'
  BY <1>1 DEF TypeOK, OffersHeld, SendPCs, rt_thread_timeout
<1> QED BY <1>4, <1>5, <1>6, <1>7

LEMMA ResetStep ==
    ASSUME IInv, Reset
    PROVE  IInv'
<1> USE DEF IInv
<1>1. ReceiversWait' /\ SendersWait'
  <2>1. /\ suspend_thread' = <<>> /\ suspend_sender_thread' = <<>>
        /\ \A t \in Threads : pc'[t] \notin {"recvwait", "sendwait"}
    BY DEF Reset
  <2> QED BY <2>1 DEF ReceiversWait, SendersWait, ListHolds, Elements, Once
<1>2. TypeOK'
  <2>1. /\ msg_pool' = msg_pool /\ value' = value
        /\ in_offset' \in 0 .. size - 1 /\ out_offset' \in 0 .. size - 1 /\ entry' \in 0 .. size
        /\ suspend_thread' = <<>> /\ suspend_sender_thread' = <<>>
    BY SizeAssumption DEF Reset, Reinit
  <2>2. /\ pc' \in [Threads -> PCs]
        /\ timeout' \in [Threads -> {"none", "ticks", "forever"}]
        /\ offer' \in [Threads -> Mails \cup {Nothing}]
    BY DEF TypeOK, PCs, Reset
  <2>3. accepted' \in [Threads -> BOOLEAN]
    BY Zenon DEF TypeOK, Reset
  <2> QED BY <2>1, <2>2, <2>3 DEF TypeOK
<1>3. OffsetsAgree'
  BY DEF OffsetsAgree, Reset, Reinit
<1>4. OffersHeld'
  BY DEF TypeOK, OffersHeld, SendPCs, Reset
<1> QED BY <1>1, <1>2, <1>3, <1>4

LEMMA NextIInv == IInv /\ [Next]_vars => IInv'
<1> SUFFICES ASSUME IInv, [Next]_vars PROVE IInv'
  OBVIOUS
<1>1. CASE UNCHANGED vars
  BY <1>1 DEF vars, ring, lists, IInv, TypeOK, OffsetsAgree, ReceiversWait, SendersWait,
              ListHolds, OffersHeld
<1>2. ASSUME NEW t \in Threads,
             \/ rt_mb_send_wait(t) \/ rt_mb_urgent(t)
             \/ SendFull(t) \/ SendSuspend(t) \/ SendPut(t) \/ UrgentPut(t)
             \/ rt_mb_recv(t)
             \/ RecvEmpty(t) \/ RecvSuspend(t) \/ RecvGet(t)
             \/ rt_thread_timeout(t)
      PROVE  IInv'
  BY <1>2, CallSteps, RefusedSteps, SuspendSteps, PutSteps, GetStep, TimeoutStep
<1> QED BY <1>1, <1>2, ResetStep DEF Next

(* The invariant holds in every reachable state. *)
THEOREM Invariance == Spec => []IInv
<1> QED BY InitIInv, NextIInv, PTL DEF Spec

(* For every ring size, any number of threads and either order of the lists,  *)
(* the count and the two offsets never part (rt_mb_send_wait, rt_mb_urgent,   *)
(* rt_mb_recv, rt_mb_control).                                               *)
THEOREM OffsetsAlwaysAgree == Spec => []OffsetsAgree
<1>1. IInv => OffsetsAgree
  BY DEF IInv
<1> QED BY <1>1, Invariance, PTL

-----------------------------------------------------------------------------
(* Wake-ups. NoLostWakeup needs nothing but IInv to be inductive: a put that   *)
(* resumes a receiver adds one to both sides, a resumed receiver that takes a *)
(* mail subtracts one from both.                                             *)

Retrying(p) == {t \in Threads : pc[t] = p}

LEMMA ThreadsFinite == IsFiniteSet(Threads)
BY ThreadsAssumption, FS_Union DEF Threads

LEMMA SubsetCount == ASSUME NEW A \in SUBSET Threads PROVE Cardinality(A) \in Nat
BY ThreadsFinite, FS_Subset, FS_CardinalityType

LEMMA PutKeepsWakeups ==
    ASSUME IInv, NoLostWakeup, NEW t \in Threads, SendPut(t) \/ UrgentPut(t)
    PROVE  NoLostWakeup'
<1> DEFINE R == Retrying("recvretry")
           S == Retrying("sendretry")
<1>1. /\ pc[t] \in {"send", "sendretry", "urgent"}
      /\ entry \in Nat /\ size \in Nat
      /\ entry' = entry + 1
      /\ ReturnsAndResumes(t, suspend_thread, "recvretry")
      /\ suspend_thread' = RestOf(suspend_thread)
      /\ suspend_sender_thread' = suspend_sender_thread
  <2>1. CASE SendPut(t)
    <3>1. pc[t] \in {"send", "sendretry"} /\ suspend_sender_thread' = suspend_sender_thread
      BY <2>1 DEF SendPut
    <3>2. entry \in Nat /\ size \in Nat
      BY SizeAssumption DEF IInv, TypeOK
    <3> QED BY <2>1, <3>1, <3>2, SendPutCounts
  <2>2. CASE UrgentPut(t)
    BY <2>2, SizeAssumption DEF UrgentPut, IInv, TypeOK
  <2> QED BY <2>1, <2>2
<1>2. /\ pc'[t] = "idle"
      /\ \A u \in Threads \ {t} : \/ pc'[u] = pc[u]
                                  \/ pc[u] = "recvwait" /\ pc'[u] = "recvretry"
      /\ suspend_thread # <<>>
            => \E u \in Threads : pc[u] = "recvwait" /\ pc'[u] = "recvretry"
      /\ suspend_thread' # <<>> => suspend_thread # <<>>
  BY <1>1, ReceiverResumed
<1>3. R \in SUBSET Threads /\ R' \in SUBSET Threads /\ S \in SUBSET Threads /\ S' \in SUBSET Threads
  BY DEF Retrying
<1>4. ASSUME suspend_thread' # <<>> PROVE entry' <= Cardinality(R')
  <2>1. PICK u \in Threads : pc[u] = "recvwait" /\ pc'[u] = "recvretry"
    BY <1>2, <1>4
  <2>2. u \in R' /\ R \subseteq R' \ {u}
    BY <1>1, <1>2, <2>1 DEF Retrying
  <2> HIDE DEF R, S
  <2>3. Cardinality(R) \in Nat /\ Cardinality(R') \in Nat /\ Cardinality(R) + 1 <= Cardinality(R')
    BY <1>3, <2>2, ThreadsFinite, CountGainsOne
  <2>4. entry <= Cardinality(R)
    BY <1>2, <1>4 DEF NoLostWakeup, R, Retrying
  <2> QED BY <1>1, <2>3, <2>4
<1>5. ASSUME suspend_sender_thread' # <<>> PROVE size - entry' <= Cardinality(S')
  <2>1. S \subseteq S' \cup {t}
    BY <1>1, <1>2 DEF Retrying
  <2> HIDE DEF R, S
  <2>2. Cardinality(S) \in Nat /\ Cardinality(S') \in Nat /\ Cardinality(S) <= Cardinality(S') + 1
    BY <1>3, <2>1, ThreadsFinite, CountLosesOne
  <2>3. size - entry <= Cardinality(S)
    BY <1>1, <1>5 DEF NoLostWakeup, S, Retrying
  <2> QED BY <1>1, <2>2, <2>3
<1> QED BY <1>4, <1>5 DEF NoLostWakeup, Retrying

LEMMA GetKeepsWakeups ==
    ASSUME IInv, NoLostWakeup, NEW t \in Threads, RecvGet(t)
    PROVE  NoLostWakeup'
<1> DEFINE R == Retrying("recvretry")
           S == Retrying("sendretry")
<1>1. /\ pc[t] \in {"recv", "recvretry"}
      /\ entry \in Nat /\ size \in Nat
      /\ entry' = entry - 1
      /\ ReturnsAndResumes(t, suspend_sender_thread, "sendretry")
      /\ suspend_sender_thread' = RestOf(suspend_sender_thread)
      /\ suspend_thread' = suspend_thread
  BY SizeAssumption DEF RecvGet, IInv, TypeOK
<1>2. /\ pc'[t] = "idle"
      /\ \A u \in Threads \ {t} : \/ pc'[u] = pc[u]
                                  \/ pc[u] = "sendwait" /\ pc'[u] = "sendretry"
      /\ suspend_sender_thread # <<>>
            => \E u \in Threads : pc[u] = "sendwait" /\ pc'[u] = "sendretry"
      /\ suspend_sender_thread' # <<>> => suspend_sender_thread # <<>>
  BY <1>1, SenderResumed
<1>3. R \in SUBSET Threads /\ R' \in SUBSET Threads /\ S \in SUBSET Threads /\ S' \in SUBSET Threads
  BY DEF Retrying
<1>4. ASSUME suspend_thread' # <<>> PROVE entry' <= Cardinality(R')
  <2>1. R \subseteq R' \cup {t}
    BY <1>1, <1>2 DEF Retrying
  <2> HIDE DEF R, S
  <2>2. Cardinality(R) \in Nat /\ Cardinality(R') \in Nat /\ Cardinality(R) <= Cardinality(R') + 1
    BY <1>3, <2>1, ThreadsFinite, CountLosesOne
  <2>3. entry <= Cardinality(R)
    BY <1>1, <1>4 DEF NoLostWakeup, R, Retrying
  <2> QED BY <1>1, <2>2, <2>3
<1>5. ASSUME suspend_sender_thread' # <<>> PROVE size - entry' <= Cardinality(S')
  <2>1. PICK u \in Threads : pc[u] = "sendwait" /\ pc'[u] = "sendretry"
    BY <1>2, <1>5
  <2>2. u \in S' /\ S \subseteq S' \ {u}
    BY <1>1, <1>2, <2>1 DEF Retrying
  <2> HIDE DEF R, S
  <2>3. Cardinality(S) \in Nat /\ Cardinality(S') \in Nat /\ Cardinality(S) + 1 <= Cardinality(S')
    BY <1>3, <2>2, ThreadsFinite, CountGainsOne
  <2>4. size - entry <= Cardinality(S)
    BY <1>2, <1>5 DEF NoLostWakeup, S, Retrying
  <2> QED BY <1>1, <2>3, <2>4
<1> QED BY <1>4, <1>5 DEF NoLostWakeup, Retrying

(* A call that begins, waits or gives up leaves the count alone; it ends a    *)
(* retry only where there is nothing to retry for.                           *)
LEMMA QuietStepsKeepWakeups ==
    ASSUME IInv, NoLostWakeup, NEW t \in Threads,
           \/ rt_mb_send_wait(t) \/ rt_mb_urgent(t) \/ rt_mb_recv(t)
           \/ SendFull(t) \/ SendSuspend(t) \/ RecvEmpty(t) \/ RecvSuspend(t)
    PROVE  NoLostWakeup'
<1> USE DEF IInv, Retrying
<1>0. entry' = entry /\ entry \in Nat /\ size \in Nat
  <2>1. UNCHANGED ring
    BY DEF rt_mb_send_wait, rt_mb_urgent, rt_mb_recv, SendFull, SendSuspend, RecvEmpty,
           RecvSuspend
  <2> QED BY <2>1, SizeAssumption DEF TypeOK, ring
<1>1. CASE rt_mb_send_wait(t) \/ rt_mb_urgent(t) \/ rt_mb_recv(t)
  <2>1. /\ pc[t] = "idle"
        /\ \E p \in {"send", "urgent", "recv"} : pc' = [pc EXCEPT ![t] = p]
        /\ UNCHANGED lists
    BY <1>1 DEF rt_mb_send_wait, rt_mb_urgent, rt_mb_recv
  <2>2. Retrying("recvretry")' = Retrying("recvretry") /\ Retrying("sendretry")' = Retrying("sendretry")
    BY <2>1 DEF TypeOK
  <2> QED BY <1>0, <2>1, <2>2 DEF NoLostWakeup, lists
<1>2. CASE SendFull(t) \/ SendSuspend(t)
  <2>1. /\ entry = size
        /\ pc[t] \in {"send", "sendretry", "urgent"}
        /\ \E p \in {"idle", "sendwait"} : pc' = [pc EXCEPT ![t] = p]
        /\ suspend_thread' = suspend_thread
    BY <1>2 DEF SendFull, SendSuspend, lists
  <2>2. Retrying("recvretry")' = Retrying("recvretry")
    BY <2>1 DEF TypeOK
  <2>3. size - entry' = 0 /\ Cardinality(Retrying("sendretry")') \in Nat
    <3>1. Cardinality(Retrying("sendretry")') \in Nat
      BY SubsetCount
    <3> QED BY <1>0, <2>1, <3>1
  <2> QED BY <1>0, <2>1, <2>2, <2>3 DEF NoLostWakeup
<1>3. CASE RecvEmpty(t) \/ RecvSuspend(t)
  <2>1. /\ entry = 0
        /\ pc[t] \in {"recv", "recvretry"}
        /\ \E p \in {"idle", "recvwait"} : pc' = [pc EXCEPT ![t] = p]
        /\ suspend_sender_thread' = suspend_sender_thread
    BY <1>3 DEF RecvEmpty, RecvSuspend, lists
  <2>2. Retrying("sendretry")' = Retrying("sendretry")
    BY <2>1 DEF TypeOK
  <2>3. Cardinality(Retrying("recvretry")') \in Nat
    BY SubsetCount
  <2>4. entry' <= Cardinality(Retrying("recvretry")')
    BY <1>0, <2>1, <2>3
  <2> QED BY <1>0, <2>1, <2>2, <2>4 DEF NoLostWakeup
<1> QED BY <1>1, <1>2, <1>3

(* A timeout takes a thread out of its list only. *)
LEMMA TimeoutKeepsWakeups ==
    ASSUME IInv, NoLostWakeup, NEW t \in Threads, rt_thread_timeout(t)
    PROVE  NoLostWakeup'
<1>1. /\ pc[t] \in {"sendwait", "recvwait"}
      /\ pc' = [pc EXCEPT ![t] = "idle"]
      /\ suspend_thread' = Removed(suspend_thread, t)
      /\ suspend_sender_thread' = Removed(suspend_sender_thread, t)
      /\ entry' = entry
  BY DEF rt_thread_timeout, ring
<1>2. /\ {u \in Threads : pc'[u] = "recvretry"} = {u \in Threads : pc[u] = "recvretry"}
      /\ {u \in Threads : pc'[u] = "sendretry"} = {u \in Threads : pc[u] = "sendretry"}
  BY <1>1 DEF IInv, TypeOK
<1>3. /\ suspend_thread = <<>> => suspend_thread' = <<>>
      /\ suspend_sender_thread = <<>> => suspend_sender_thread' = <<>>
  BY <1>1 DEF Removed, Elements
<1> QED BY <1>1, <1>2, <1>3 DEF NoLostWakeup

LEMMA NextWakeups == IInv /\ NoLostWakeup /\ [Next]_vars => NoLostWakeup'
<1> SUFFICES ASSUME IInv, NoLostWakeup, [Next]_vars PROVE NoLostWakeup'
  OBVIOUS
<1>1. CASE UNCHANGED vars
  BY <1>1 DEF vars, ring, lists, NoLostWakeup
<1>2. CASE Reset
  BY <1>2 DEF Reset, NoLostWakeup
<1>3. ASSUME NEW t \in Threads,
             \/ rt_mb_send_wait(t) \/ rt_mb_urgent(t)
             \/ SendFull(t) \/ SendSuspend(t) \/ SendPut(t) \/ UrgentPut(t)
             \/ rt_mb_recv(t)
             \/ RecvEmpty(t) \/ RecvSuspend(t) \/ RecvGet(t)
             \/ rt_thread_timeout(t)
      PROVE  NoLostWakeup'
  BY <1>3, PutKeepsWakeups, GetKeepsWakeups, QuietStepsKeepWakeups, TimeoutKeepsWakeups
<1> QED BY <1>1, <1>2, <1>3 DEF Next

(* For any number of threads, any ring and either flag, a receiver never      *)
(* sleeps beside a mail, nor a sender beside a free word, that nobody is      *)
(* about to look at: the one thread each rt_mb_send_wait, rt_mb_urgent and    *)
(* rt_mb_recv resumes is enough, whatever timeouts and resets come between.   *)
THEOREM WakeupsNeverLost == Spec => []NoLostWakeup
<1>1. Init => NoLostWakeup
  BY DEF Init, NoLostWakeup
<1> QED BY <1>1, NextWakeups, Invariance, PTL DEF Spec

-----------------------------------------------------------------------------
(* The refinement *)

(* The mails in the ring as a sequence. *)
LEMMA QueuedSeq ==
    ASSUME IInv
    PROVE  /\ \A i \in 1 .. entry : WordAt(i) \in 0 .. size - 1
           /\ Queued \in Seq(Mails \cup {Nothing})
           /\ Len(Queued) = entry
<1>1. \A i \in 1 .. entry : WordAt(i) \in 0 .. size - 1
  BY SizeAssumption DEF IInv, TypeOK, WordAt
<1>2. entry \in Nat /\ \A i \in 1 .. entry : msg_pool[WordAt(i)] \in Mails \cup {Nothing}
  BY <1>1, SizeAssumption DEF IInv, TypeOK
<1>3. Queued \in Seq(Mails \cup {Nothing}) /\ Len(Queued) = entry
  BY <1>2 DEF Queued
<1> QED BY <1>1, <1>3

(* rt_mb_send_wait appends to it ... *)
LEMMA SendPutAppends ==
    ASSUME IInv, NEW t \in Threads, SendPut(t)
    PROVE  Queued' = Append(Queued, offer[t])
<1>1. /\ entry \in 0 .. size - 1 /\ entry' = entry + 1 /\ entry \in Nat
      /\ out_offset' = out_offset
      /\ msg_pool' = [msg_pool EXCEPT ![in_offset] = offer[t]]
  <2>1. entry \in 0 .. size - 1 /\ entry' = entry + 1
    BY SendPutCounts
  <2>2. entry \in Nat
    BY <2>1, SizeAssumption
  <2> QED BY <2>1, <2>2 DEF SendPut
<1>2. \A i \in 1 .. entry + 1 : WordAt(i)' = WordAt(i)
  BY <1>1 DEF WordAt
<1>3. WordAt(entry + 1) = in_offset /\ in_offset \in 0 .. size - 1
  BY <1>1, SizeAssumption DEF WordAt, IInv, TypeOK, OffsetsAgree
<1>4. ASSUME NEW i \in 1 .. entry PROVE WordAt(i) # in_offset /\ WordAt(i) \in 0 .. size - 1
  BY <1>1, <1>4, SizeAssumption DEF WordAt, IInv, TypeOK, OffsetsAgree
<1>5. Queued' = [i \in 1 .. entry + 1 |-> msg_pool'[WordAt(i)']]
  BY <1>1 DEF Queued
<1>6. ASSUME NEW i \in 1 .. entry
      PROVE  msg_pool'[WordAt(i)'] = Queued[i]
  <2>1. WordAt(i)' = WordAt(i)
    BY <1>1, <1>2
  <2>2. msg_pool'[WordAt(i)] = msg_pool[WordAt(i)]
    BY <1>1, <1>4 DEF IInv, TypeOK
  <2> QED BY <2>1, <2>2 DEF Queued
<1>7. ASSUME NEW i \in 1 .. entry + 1, i = entry + 1
      PROVE  msg_pool'[WordAt(i)'] = offer[t]
  <2>1. WordAt(i)' = in_offset
    BY <1>2, <1>3, <1>7
  <2> QED BY <1>1, <1>3, <2>1 DEF IInv, TypeOK
<1>8. Queued \in Seq(Mails \cup {Nothing}) /\ Len(Queued) = entry
  BY QueuedSeq
<1>9. Append(Queued, offer[t]) = [i \in 1 .. entry + 1 |-> IF i <= entry THEN Queued[i] ELSE offer[t]]
  BY <1>1, <1>8
<1> HIDE DEF Queued
<1>10. \A i \in 1 .. entry + 1 : msg_pool'[WordAt(i)'] = IF i <= entry THEN Queued[i] ELSE offer[t]
  <2> SUFFICES ASSUME NEW i \in 1 .. entry + 1
               PROVE  msg_pool'[WordAt(i)'] = IF i <= entry THEN Queued[i] ELSE offer[t]
    OBVIOUS
  <2>1. CASE i <= entry
    <3>1. i \in 1 .. entry
      BY <1>1, <2>1
    <3> QED BY <1>6, <2>1, <3>1
  <2>2. CASE ~(i <= entry)
    <3>1. i = entry + 1
      BY <1>1, <2>2
    <3> QED BY <1>7, <2>2, <3>1
  <2> QED BY <2>1, <2>2
<1> QED BY <1>5, <1>9, <1>10

(* ... rt_mb_urgent puts the mail in front ... *)
LEMMA UrgentPutPrepends ==
    ASSUME IInv, NEW t \in Threads, UrgentPut(t)
    PROVE  Queued' = <<offer[t]>> \o Queued
<1>1. /\ entry \in 0 .. size - 1 /\ entry' = entry + 1 /\ entry \in Nat
      /\ out_offset' = Backward(out_offset)
      /\ out_offset \in 0 .. size - 1
      /\ Backward(out_offset) \in 0 .. size - 1
      /\ msg_pool' = [msg_pool EXCEPT ![Backward(out_offset)] = offer[t]]
  BY SizeAssumption DEF IInv, TypeOK, UrgentPut, Backward
<1>2. WordAt(1)' = Backward(out_offset)
  BY <1>1, SizeAssumption DEF WordAt
<1>3. ASSUME NEW i \in 2 .. entry + 1
      PROVE  /\ WordAt(i)' = WordAt(i - 1)
             /\ WordAt(i - 1) # Backward(out_offset)
             /\ WordAt(i - 1) \in 0 .. size - 1
  BY <1>1, SizeAssumption DEF WordAt, Backward
<1>4. Queued' = [i \in 1 .. entry + 1 |-> msg_pool'[WordAt(i)']]
  BY <1>1 DEF Queued
<1>5. msg_pool'[WordAt(1)'] = offer[t]
  BY <1>1, <1>2 DEF IInv, TypeOK
<1>6. ASSUME NEW i \in 2 .. entry + 1
      PROVE  msg_pool'[WordAt(i)'] = Queued[i - 1]
  <2>1. msg_pool'[WordAt(i - 1)] = msg_pool[WordAt(i - 1)]
    BY <1>1, <1>3 DEF IInv, TypeOK
  <2>2. i - 1 \in 1 .. entry
    BY <1>1
  <2> QED BY <1>3, <2>1, <2>2 DEF Queued
<1>7. Queued \in Seq(Mails \cup {Nothing}) /\ Len(Queued) = entry
  BY QueuedSeq
<1>8. <<offer[t]>> \o Queued = [i \in 1 .. entry + 1 |-> IF i = 1 THEN offer[t] ELSE Queued[i - 1]]
  BY <1>1, <1>7
<1> HIDE DEF Queued
<1>9. \A i \in 1 .. entry + 1 : msg_pool'[WordAt(i)'] = IF i = 1 THEN offer[t] ELSE Queued[i - 1]
  <2> SUFFICES ASSUME NEW i \in 1 .. entry + 1
               PROVE  msg_pool'[WordAt(i)'] = IF i = 1 THEN offer[t] ELSE Queued[i - 1]
    OBVIOUS
  <2>1. CASE i = 1
    BY <1>5, <2>1
  <2>2. CASE i # 1
    <3>1. i \in 2 .. entry + 1
      BY <1>1, <2>2
    <3> QED BY <1>6, <2>2, <3>1
  <2> QED BY <2>1, <2>2
<1> QED BY <1>4, <1>8, <1>9

(* ... and rt_mb_recv takes from the front. *)
LEMMA GetTakesHead ==
    ASSUME IInv, NEW t \in Threads, RecvGet(t)
    PROVE  /\ Queued # <<>>
           /\ Queued' = Tail(Queued)
           /\ msg_pool[out_offset] = Head(Queued)
<1>1. /\ entry \in 1 .. size /\ entry' = entry - 1 /\ entry \in Nat
      /\ out_offset \in 0 .. size - 1
      /\ out_offset' = Onward(out_offset)
      /\ msg_pool' = msg_pool
  BY SizeAssumption DEF IInv, TypeOK, RecvGet
<1>2. Queued \in Seq(Mails \cup {Nothing}) /\ Len(Queued) = entry
  BY QueuedSeq
<1>3. WordAt(1) = out_offset /\ Queued[1] = msg_pool[WordAt(1)]
  BY <1>1, SizeAssumption DEF WordAt, Queued
<1>4. ASSUME NEW i \in 1 .. entry - 1 PROVE WordAt(i)' = WordAt(i + 1) /\ i + 1 \in 1 .. entry
  BY <1>1, SizeAssumption DEF WordAt, Onward
<1>5. Queued' = [i \in 1 .. entry - 1 |-> msg_pool[WordAt(i)']]
  BY <1>1 DEF Queued
<1>6. ASSUME NEW i \in 1 .. entry - 1 PROVE msg_pool[WordAt(i)'] = Queued[i + 1]
  BY <1>4 DEF Queued
<1> HIDE DEF Queued
<1>7. Queued # <<>> /\ Head(Queued) = Queued[1]
  BY <1>1, <1>2
<1>8. /\ Tail(Queued) \in Seq(Mails \cup {Nothing})
      /\ Len(Tail(Queued)) = entry - 1
      /\ \A i \in 1 .. entry - 1 : Tail(Queued)[i] = Queued[i + 1]
  BY <1>1, <1>2, <1>7
<1> DEFINE rest == [i \in 1 .. entry - 1 |-> Queued[i + 1]]
<1>9. Queued' = rest
  BY <1>5, <1>6
<1>10. /\ rest \in Seq(Mails \cup {Nothing})
       /\ Len(rest) = entry - 1
       /\ \A i \in 1 .. entry - 1 : rest[i] = Queued[i + 1]
  BY <1>1, <1>2
<1> HIDE DEF rest
<1>11. rest = Tail(Queued)
  BY <1>8, <1>10, SeqEqual
<1> QED BY <1>3, <1>7, <1>9, <1>11

(* The initial states are initial states of EventQueue. *)
LEMMA InitPromise == Init => Promise!Init
<1> SUFFICES ASSUME Init PROVE Promise!Init
  OBVIOUS
<1>1. Queued = <<>>
  <2>1. entry = 0
    BY DEF Init
  <2>2. Len(Queued) = 0 /\ Queued \in Seq(Mails \cup {Nothing})
    BY <2>1 DEF Queued
  <2> HIDE DEF Queued
  <2> QED BY <2>2
<1>2. IsUrgent = [t \in Threads |-> FALSE]
  BY DEF Init, IsUrgent
<1> QED BY <1>1, <1>2 DEF Init, Promise!Init

(* A call that begins hands a mail over, or asks for one. *)
LEMMA CallsKeepPromise ==
    ASSUME IInv, NEW t \in Threads, rt_mb_send_wait(t) \/ rt_mb_urgent(t) \/ rt_mb_recv(t)
    PROVE  [Promise!Next]_(Promise!queueVars)
<1>1. Queued' = Queued /\ value' = value /\ accepted' = accepted
  BY DEF rt_mb_send_wait, rt_mb_urgent, rt_mb_recv, ring, Queued, WordAt
<1>2. pc[t] = "idle" /\ offer[t] = Nothing
  BY DEF IInv, OffersHeld, SendPCs, rt_mb_send_wait, rt_mb_urgent, rt_mb_recv
<1>3. CASE rt_mb_recv(t)
  <2>1. offer' = offer /\ IsUrgent' = IsUrgent
    BY <1>2, <1>3 DEF rt_mb_recv, IsUrgent, IInv, TypeOK
  <2> QED BY <1>1, <2>1 DEF Promise!queueVars
<1>4. CASE rt_mb_send_wait(t) \/ rt_mb_urgent(t)
  <2>1. \E m \in Mails : offer' = [offer EXCEPT ![t] = m]
    BY <1>4 DEF rt_mb_send_wait, rt_mb_urgent
  <2>2. \E u \in BOOLEAN : IsUrgent' = [IsUrgent EXCEPT ![t] = u]
    <3>1. PICK p \in {"send", "urgent"} : pc' = [pc EXCEPT ![t] = p]
      BY <1>4 DEF rt_mb_send_wait, rt_mb_urgent
    <3>2. IsUrgent' = [IsUrgent EXCEPT ![t] = (p = "urgent")]
      BY <3>1 DEF IsUrgent, IInv, TypeOK
    <3> QED BY <3>2
  <2>3. Promise!Offer(t)
    BY <1>1, <1>2, <2>1, <2>2 DEF Promise!Offer
  <2> QED BY <2>3 DEF Promise!Next
<1> QED BY <1>3, <1>4

(* A thread that is resumed hands nothing over urgently, before or after. *)
LEMMA UrgentAfterReturn ==
    ASSUME IInv, NEW t \in Threads, pc' \in [Threads -> PCs], pc'[t] = "idle",
           \A u \in Threads \ {t} : \/ pc'[u] = pc[u]
                                    \/ pc[u] # "urgent" /\ pc'[u] # "urgent"
    PROVE  IsUrgent' = [IsUrgent EXCEPT ![t] = FALSE]
BY DEF IsUrgent

(* A call that returns -RT_EFULL is a refusal; one that returns -RT_ETIMEOUT  *)
(* without a mail, or begins to wait, changes nothing.                       *)
LEMMA QuietStepsKeepPromise ==
    ASSUME IInv, NEW t \in Threads,
           SendFull(t) \/ SendSuspend(t) \/ RecvEmpty(t) \/ RecvSuspend(t)
    PROVE  [Promise!Next]_(Promise!queueVars)
<1>1. Queued' = Queued /\ value' = value
  BY DEF SendFull, SendSuspend, RecvEmpty, RecvSuspend, ring, Queued, WordAt
<1>2. CASE SendFull(t)
  <2>1. pc[t] \in {"send", "sendretry", "urgent"} /\ offer[t] # Nothing
    BY <1>2 DEF SendFull, IInv, OffersHeld, SendPCs
  <2>2. IsUrgent' = [IsUrgent EXCEPT ![t] = FALSE]
    BY <1>2 DEF SendFull, IsUrgent, IInv, TypeOK
  <2>3. Promise!Refuse(t)
    BY <1>1, <1>2, <2>1, <2>2 DEF SendFull, SendReturns, Promise!Refuse, Promise!Done
  <2> QED BY <2>3 DEF Promise!Next
<1>3. CASE SendSuspend(t) \/ RecvEmpty(t) \/ RecvSuspend(t)
  <2>1. offer' = offer /\ accepted' = accepted
    BY <1>3 DEF SendSuspend, RecvEmpty, RecvSuspend
  <2>2. IsUrgent' = IsUrgent
    BY <1>3 DEF SendSuspend, RecvEmpty, RecvSuspend, IsUrgent, IInv, TypeOK
  <2> QED BY <1>1, <2>1, <2>2 DEF Promise!queueVars
<1> QED BY <1>2, <1>3

(* A call that writes a word puts its mail into the queue. *)
LEMMA PutsKeepPromise ==
    ASSUME IInv, NEW t \in Threads, SendPut(t) \/ UrgentPut(t)
    PROVE  [Promise!Next]_(Promise!queueVars)
<1>1. /\ pc[t] \in {"send", "sendretry", "urgent"}
      /\ entry \in 0 .. size - 1
      /\ SendReturns(t, TRUE)
      /\ ReturnsAndResumes(t, suspend_thread, "recvretry")
      /\ suspend_thread' = RestOf(suspend_thread)
      /\ value' = value
  <2>1. CASE SendPut(t)
    <3>1. pc[t] \in {"send", "sendretry"} /\ value' = value
      BY <2>1 DEF SendPut
    <3> QED BY <2>1, <3>1, SendPutCounts
  <2>2. CASE UrgentPut(t)
    <3>1. entry \in 0 .. size - 1
      BY <2>2, SizeAssumption DEF UrgentPut, IInv, TypeOK
    <3> QED BY <2>2, <3>1 DEF UrgentPut
  <2> QED BY <2>1, <2>2
<1>2. /\ pc' \in [Threads -> PCs]
      /\ pc'[t] = "idle"
      /\ \A u \in Threads \ {t} : \/ pc'[u] = pc[u]
                                  \/ pc[u] = "recvwait" /\ pc'[u] = "recvretry"
  BY <1>1, ReceiverResumed
<1>3. IsUrgent' = [IsUrgent EXCEPT ![t] = FALSE]
  BY <1>2, UrgentAfterReturn
<1>4. offer[t] # Nothing
  BY <1>1 DEF IInv, OffersHeld, SendPCs
<1>5. Len(Queued) < size
  BY <1>1, QueuedSeq, SizeAssumption
<1>6. Queued' = IF IsUrgent[t] THEN <<offer[t]>> \o Queued ELSE Append(Queued, offer[t])
  <2>1. CASE SendPut(t)
    <3>1. IsUrgent[t] = FALSE
      BY <2>1 DEF SendPut, IsUrgent
    <3> QED BY <2>1, <3>1, SendPutAppends
  <2>2. CASE UrgentPut(t)
    <3>1. IsUrgent[t] = TRUE
      BY <2>2 DEF UrgentPut, IsUrgent
    <3> QED BY <2>2, <3>1, UrgentPutPrepends
  <2> QED BY <2>1, <2>2
<1>7. Promise!Put(t)
  BY <1>1, <1>3, <1>4, <1>5, <1>6 DEF SendReturns, Promise!Put, Promise!Done
<1> QED BY <1>7 DEF Promise!Next

(* A call that reads a word takes the first mail out. *)
LEMMA GetKeepsPromise ==
    ASSUME IInv, NEW t \in Threads, RecvGet(t)
    PROVE  [Promise!Next]_(Promise!queueVars)
<1>1. /\ pc[t] \in {"recv", "recvretry"}
      /\ ReturnsAndResumes(t, suspend_sender_thread, "sendretry")
      /\ suspend_sender_thread' = RestOf(suspend_sender_thread)
      /\ UNCHANGED <<offer, accepted>>
      /\ value' = [value EXCEPT ![t] = msg_pool[out_offset]]
  BY DEF RecvGet
<1>2. /\ pc' \in [Threads -> PCs]
      /\ pc'[t] = "idle"
      /\ \A u \in Threads \ {t} : \/ pc'[u] = pc[u]
                                  \/ pc[u] = "sendwait" /\ pc'[u] = "sendretry"
  BY <1>1, SenderResumed
<1>3. IsUrgent' = IsUrgent
  BY <1>1, <1>2 DEF IsUrgent
<1>4. Promise!Get(t)
  BY <1>1, <1>3, GetTakesHead DEF Promise!Get
<1> QED BY <1>4 DEF Promise!Next

(* A timeout refuses what a waiting sender hands over. *)
LEMMA TimeoutKeepsPromise ==
    ASSUME IInv, NEW t \in Threads, rt_thread_timeout(t)
    PROVE  [Promise!Next]_(Promise!queueVars)
<1>1. Queued' = Queued /\ value' = value
  BY DEF rt_thread_timeout, ring, Queued, WordAt
<1>2. pc[t] \in {"sendwait", "recvwait"} /\ IsUrgent' = IsUrgent /\ IsUrgent[t] = FALSE
  BY DEF rt_thread_timeout, IsUrgent, IInv, TypeOK
<1>3. CASE pc[t] = "sendwait"
  <2>1. offer[t] # Nothing
    BY <1>3 DEF IInv, OffersHeld, SendPCs
  <2>2. IsUrgent' = [IsUrgent EXCEPT ![t] = FALSE]
    BY <1>2 DEF IsUrgent
  <2>3. /\ offer' = [offer EXCEPT ![t] = Nothing]
        /\ accepted' = [accepted EXCEPT ![t] = FALSE]
    BY <1>3 DEF rt_thread_timeout
  <2>4. Promise!Refuse(t)
    BY <1>1, <2>1, <2>2, <2>3 DEF Promise!Refuse, Promise!Done
  <2> QED BY <2>4 DEF Promise!Next
<1>4. CASE pc[t] = "recvwait"
  <2>1. offer[t] = Nothing
    BY <1>4 DEF IInv, OffersHeld, SendPCs
  <2>2. offer' = offer
    BY <2>1 DEF rt_thread_timeout, IInv, TypeOK
  <2>3. accepted' = accepted
    BY <1>4, Zenon DEF rt_thread_timeout, IInv, TypeOK
  <2> QED BY <1>1, <1>2, <2>2, <2>3 DEF Promise!queueVars
<1> QED BY <1>2, <1>3, <1>4

(* A reset throws the mails away and refuses what waiting senders hand over. *)
LEMMA ResetKeepsPromise ==
    ASSUME IInv, Reset
    PROVE  Promise!Clear
<1> DEFINE refused == {t \in Threads : pc[t] = "sendwait"}
<1>1. Queued' = <<>>
  <2>1. entry' = 0
    BY DEF Reset, Reinit
  <2>2. Queued' = [i \in 1 .. 0 |-> msg_pool'[WordAt(i)']]
    BY <2>1 DEF Queued
  <2> QED BY <2>2
<1>2. refused \in SUBSET {t \in Threads : offer[t] # Nothing /\ ~IsUrgent[t]}
  BY DEF IInv, OffersHeld, SendPCs, IsUrgent
<1>3. /\ offer' = [t \in Threads |-> IF t \in refused THEN Nothing ELSE offer[t]]
      /\ accepted' = [t \in Threads |-> IF t \in refused THEN FALSE ELSE accepted[t]]
  BY DEF Reset
<1>4. IsUrgent' = IsUrgent /\ value' = value
  BY DEF Reset, IsUrgent
<1> QED BY <1>1, <1>2, <1>3, <1>4 DEF Promise!Clear

(* Every step is a step of EventQueue, or changes nothing it can see. *)
LEMMA NextPromise == IInv /\ [Next]_vars => [Promise!Next]_(Promise!queueVars)
<1> SUFFICES ASSUME IInv, [Next]_vars PROVE [Promise!Next]_(Promise!queueVars)
  OBVIOUS
<1>1. CASE UNCHANGED vars
  BY <1>1 DEF vars, ring, Promise!queueVars, Queued, WordAt, IsUrgent
<1>2. CASE Reset
  BY <1>2, ResetKeepsPromise DEF Promise!Next
<1>3. ASSUME NEW t \in Threads,
             \/ rt_mb_send_wait(t) \/ rt_mb_urgent(t)
             \/ SendFull(t) \/ SendSuspend(t) \/ SendPut(t) \/ UrgentPut(t)
             \/ rt_mb_recv(t)
             \/ RecvEmpty(t) \/ RecvSuspend(t) \/ RecvGet(t)
             \/ rt_thread_timeout(t)
      PROVE  [Promise!Next]_(Promise!queueVars)
  BY <1>3, CallsKeepPromise, QuietStepsKeepPromise, PutsKeepPromise, GetKeepsPromise,
     TimeoutKeepsPromise
<1> QED BY <1>1, <1>2, <1>3 DEF Next

(* For any number of threads, any mails, priorities and size of the ring, the *)
(* mailbox implements EventQueue: nothing accepted is lost, doubled or        *)
(* overtaken except by an urgent mail (rt_mb_send_wait, rt_mb_urgent,         *)
(* rt_mb_recv), with timeouts and resets at any moment.                      *)
THEOREM MailboxKeepsPromise == Spec => KeepsPromise
<1> QED BY InitPromise, NextPromise, Invariance, PTL DEF Spec, KeepsPromise, Promise!Spec
==============================================================================
