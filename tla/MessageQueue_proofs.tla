------------------------- MODULE MessageQueue_proofs -------------------------
(***************************************************************************)
(* Proofs about MessageQueue, for any threads, priorities, messages and     *)
(* size of the pool.                                                        *)
(***************************************************************************)
EXTENDS MessageQueue, WaitList_proofs, SequenceTheorems

(* A block is linked at the tail, at the head, or unlinked from the head. *)
LEMMA AppendElement ==
    ASSUME NEW S, NEW list \in Seq(S), NEW x \in S
    PROVE  /\ Append(list, x) \in Seq(S)
           /\ Len(Append(list, x)) = Len(list) + 1
           /\ Elements(Append(list, x)) = Elements(list) \cup {x}
           /\ Once(list) /\ x \notin Elements(list) => Once(Append(list, x))
<1> DEFINE new == Append(list, x)
<1>1. /\ new \in Seq(S)
      /\ Len(list) \in Nat
      /\ Len(new) = Len(list) + 1
      /\ \A i \in 1 .. Len(list) : new[i] = list[i]
      /\ new[Len(list) + 1] = x
  OBVIOUS
<1> HIDE DEF new
<1>2. 1 .. Len(new) = 1 .. Len(list) \cup {Len(list) + 1}
  BY <1>1
<1>3. Elements(new) = Elements(list) \cup {x}
  BY <1>1, <1>2 DEF Elements
<1>4. ASSUME Once(list), x \notin Elements(list) PROVE Once(new)
  BY <1>1, <1>2, <1>4 DEF Once, Elements
<1> QED BY <1>1, <1>3, <1>4 DEF new

(* rt_mq_urgent links at the head. *)
LEMMA PrependElement ==
    ASSUME NEW S, NEW list \in Seq(S), NEW x \in S
    PROVE  /\ <<x>> \o list \in Seq(S)
           /\ Len(<<x>> \o list) = Len(list) + 1
           /\ Elements(<<x>> \o list) = Elements(list) \cup {x}
           /\ Once(list) /\ x \notin Elements(list) => Once(<<x>> \o list)
<1> DEFINE new == <<x>> \o list
<1>1. /\ new \in Seq(S)
      /\ Len(list) \in Nat
      /\ Len(new) = Len(list) + 1
      /\ \A i \in 1 .. Len(list) : new[i + 1] = list[i]
      /\ new[1] = x
  OBVIOUS
<1> HIDE DEF new
<1>2. \A i \in 1 .. Len(new) : i = 1 \/ (i - 1 \in 1 .. Len(list) /\ new[i] = list[i - 1])
  <2> SUFFICES ASSUME NEW i \in 1 .. Len(new), i # 1
               PROVE  i - 1 \in 1 .. Len(list) /\ new[i] = list[i - 1]
    OBVIOUS
  <2>1. i - 1 \in 1 .. Len(list) /\ (i - 1) + 1 = i
    BY <1>1
  <2> QED BY <1>1, <2>1
<1>3. Elements(new) = Elements(list) \cup {x}
  <2>1. \A i \in 1 .. Len(list) : i + 1 \in 1 .. Len(new) /\ 1 \in 1 .. Len(new)
    BY <1>1
  <2>2. x \in Elements(new)
    BY <1>1 DEF Elements
  <2>3. ASSUME NEW i \in 1 .. Len(list) PROVE list[i] \in Elements(new)
    BY <1>1, <2>1 DEF Elements
  <2>4. ASSUME NEW i \in 1 .. Len(new) PROVE new[i] \in Elements(list) \cup {x}
    BY <1>1, <1>2 DEF Elements
  <2> QED BY <2>2, <2>3, <2>4 DEF Elements
<1>4. ASSUME Once(list), x \notin Elements(list) PROVE Once(new)
  <2> SUFFICES ASSUME NEW i \in 1 .. Len(new), NEW j \in 1 .. Len(new), new[i] = new[j]
               PROVE  i = j
    BY DEF Once
  <2>1. CASE i = 1 /\ j # 1
    BY <1>1, <1>2, <1>4, <2>1 DEF Elements
  <2>2. CASE i # 1 /\ j = 1
    BY <1>1, <1>2, <1>4, <2>2 DEF Elements
  <2>3. CASE i # 1 /\ j # 1
    <3>1. i - 1 = j - 1
      BY <1>2, <1>4, <2>3 DEF Once
    <3> QED BY <1>1, <3>1
  <2> QED BY <2>1, <2>2, <2>3
<1> QED BY <1>1, <1>3, <1>4 DEF new

(* rt_mq_recv unlinks from the head. *)
LEMMA TailElements ==
    ASSUME NEW S, NEW list \in Seq(S), list # <<>>, Once(list)
    PROVE  /\ Tail(list) \in Seq(S)
           /\ Head(list) = list[1]
           /\ list[1] \in S
           /\ list[1] \in Elements(list)
           /\ Len(Tail(list)) = Len(list) - 1
           /\ Elements(Tail(list)) = Elements(list) \ {list[1]}
           /\ Once(Tail(list))
<1> DEFINE new == Tail(list)
<1>1. /\ new \in Seq(S)
      /\ Head(list) = list[1]
      /\ Len(list) \in Nat \ {0}
      /\ Len(new) = Len(list) - 1
      /\ \A i \in 1 .. Len(new) : new[i] = list[i + 1]
      /\ \A i \in 1 .. Len(list) : list[i] \in S
  OBVIOUS
<1> HIDE DEF new
<1>2. ASSUME NEW i \in 1 .. Len(new) PROVE new[i] \in Elements(list) \ {list[1]}
  BY <1>1 DEF Elements, Once
<1>3. ASSUME NEW i \in 1 .. Len(list), list[i] # list[1] PROVE list[i] \in Elements(new)
  <2>1. /\ i - 1 \in 1 .. Len(new)
        /\ new[i - 1] = list[i]
    BY <1>1, <1>3
  <2> QED BY <2>1 DEF Elements
<1>4. Elements(new) = Elements(list) \ {list[1]}
  BY <1>2, <1>3 DEF Elements
<1>5. Once(new)
  BY <1>1 DEF Once
<1>6. list[1] \in S /\ list[1] \in Elements(list)
  BY <1>1 DEF Elements
<1> QED BY <1>1, <1>4, <1>5, <1>6 DEF new

(* The facts about a list of waiting threads that do not depend on pc. *)
Ordered(list) ==
    \A i, j \in 1 .. Len(list) :
        /\ list[i] = list[j] => i = j
        /\ Flag = "PRIO" /\ i < j => Priority[list[i]] <= Priority[list[j]]

(* rt_ipc_list_suspend adds the thread, and keeps the list in order. *)
LEMMA InsertKeepsOrder ==
    ASSUME NEW list \in Seq(Threads), Ordered(list),
           NEW t \in Threads, t \notin Elements(list),
           NEW k \in 1 .. Len(list) + 1, Position(list, t, k)
    PROVE  /\ InsertedAt(list, k, t) \in Seq(Threads)
           /\ Elements(InsertedAt(list, k, t)) = Elements(list) \cup {t}
           /\ Ordered(InsertedAt(list, k, t))
<1> DEFINE new == InsertedAt(list, k, t)
<1>0. /\ Len(list) \in Nat
      /\ \A i \in 1 .. Len(list) : list[i] \in Threads
      /\ \A u \in Threads : Priority[u] \in Nat
  BY PriorityAssumption
<1>1. /\ new \in Seq(Threads)
      /\ Len(new) = Len(list) + 1
      /\ \A i \in 1 .. Len(list) + 1 :
            new[i] = IF i < k THEN list[i] ELSE IF i = k THEN t ELSE list[i - 1]
  BY <1>0 DEF InsertedAt
<1> HIDE DEF new
<1>2. Elements(new) = Elements(list) \cup {t}
  <2>1. ASSUME NEW i \in 1 .. Len(new) PROVE new[i] \in Elements(list) \cup {t}
    BY <1>0, <1>1 DEF Elements
  <2>2. t \in Elements(new)
    BY <1>0, <1>1 DEF Elements
  <2>3. ASSUME NEW i \in 1 .. Len(list) PROVE list[i] \in Elements(new)
    <3>1. CASE i < k
      BY <1>0, <1>1, <3>1 DEF Elements
    <3>2. CASE i >= k
      <4>1. /\ i + 1 \in 1 .. Len(new)
            /\ new[i + 1] = list[i]
        BY <1>0, <1>1, <3>2
      <4> QED BY <4>1 DEF Elements
    <3> QED BY <1>0, <3>1, <3>2
  <2> QED BY <2>1, <2>2, <2>3 DEF Elements
<1>3. Ordered(new)
  <2> SUFFICES ASSUME NEW i \in 1 .. Len(new), NEW j \in 1 .. Len(new)
               PROVE  /\ new[i] = new[j] => i = j
                      /\ Flag = "PRIO" /\ i < j => Priority[new[i]] <= Priority[new[j]]
    BY DEF Ordered
  <2>1. \A m \in 1 .. Len(list) : list[m] # t
    BY DEF Elements
  <2>4. \A n \in 1 .. Len(new) :
          /\ n < k => n \in 1 .. Len(list) /\ new[n] = list[n]
          /\ n = k => new[n] = t
          /\ n > k => n - 1 \in 1 .. Len(list) /\ new[n] = list[n - 1]
    BY <1>0, <1>1
  <2>2. new[i] = new[j] => i = j
    <3>1. \A m, n \in 1 .. Len(list) : list[m] = list[n] => m = n
      BY DEF Ordered
    <3>2. CASE i < k
      <4>1. i \in 1 .. Len(list) /\ new[i] = list[i]
        BY <2>4, <3>2
      <4>2. CASE j < k
        BY <2>4, <3>1, <4>1, <4>2
      <4>3. CASE j = k
        BY <2>1, <2>4, <4>1, <4>3
      <4>4. CASE j > k
        <5>1. j - 1 \in 1 .. Len(list) /\ new[j] = list[j - 1]
          BY <2>4, <4>4
        <5>2. list[i] = list[j - 1] => i = j - 1
          BY <3>1, <4>1, <5>1
        <5> QED BY <3>2, <4>1, <4>4, <5>1, <5>2
      <4> QED BY <4>2, <4>3, <4>4
    <3>3. CASE i = k
      BY <1>0, <1>1, <2>1, <2>4, <3>1, <3>3
    <3>4. CASE i > k
      <4>1. i - 1 \in 1 .. Len(list) /\ new[i] = list[i - 1]
        BY <2>4, <3>4
      <4>2. CASE j < k
        BY <1>0, <1>1, <2>4, <3>1, <3>4, <4>1, <4>2
      <4>3. CASE j = k
        BY <2>1, <2>4, <4>1, <4>3
      <4>4. CASE j > k
        <5>1. j - 1 \in 1 .. Len(list) /\ new[j] = list[j - 1]
          BY <2>4, <4>4
        <5>2. list[i - 1] = list[j - 1] => i - 1 = j - 1
          BY <3>1, <4>1, <5>1
        <5> QED BY <4>1, <5>1, <5>2
      <4> QED BY <4>2, <4>3, <4>4
    <3> QED BY <3>2, <3>3, <3>4
  <2>3. ASSUME Flag = "PRIO", i < j PROVE Priority[new[i]] <= Priority[new[j]]
    <3>1. /\ \A m \in 1 .. k - 1 : Priority[t] >= Priority[list[m]]
          /\ k <= Len(list) => Priority[t] < Priority[list[k]]
      BY <2>3 DEF Position
    <3>2. \A m \in k .. Len(list) : Priority[t] <= Priority[list[m]]
      BY <1>0, <2>3, <3>1, PriorityAssumption DEF Ordered
    <3>3. \A m, n \in 1 .. Len(list) : m <= n => Priority[list[m]] <= Priority[list[n]]
      BY <1>0, <2>3, PriorityAssumption DEF Ordered
    <3>4. CASE j < k
      BY <1>0, <1>1, <2>3, <2>4, <3>3, <3>4
    <3>5. CASE j = k
      <4>1. i \in 1 .. k - 1 /\ new[i] = list[i] /\ new[j] = t
        BY <1>0, <1>1, <2>3, <2>4, <3>5
      <4> QED BY <1>0, <3>1, <4>1
    <3>6. CASE j > k
      <4>1. j - 1 \in k .. Len(list) /\ new[j] = list[j - 1]
        BY <1>0, <1>1, <2>4, <3>6
      <4>2. CASE i < k
        BY <1>0, <1>1, <2>4, <3>3, <4>1, <4>2
      <4>3. CASE i = k
        BY <2>4, <3>2, <4>1, <4>3
      <4>4. CASE i > k
        BY <1>0, <1>1, <2>3, <2>4, <3>3, <4>1, <4>4
      <4> QED BY <4>2, <4>3, <4>4
    <3> QED BY <3>4, <3>5, <3>6
  <2> QED BY <2>2, <2>3
<1> QED BY <1>1, <1>2, <1>3 DEF new

(* A list whose elements are taken from an ordered list, in the same order,  *)
(* is ordered.                                                               *)
LEMMA SelectionKeepsOrder ==
    ASSUME NEW list \in Seq(Threads), Ordered(list),
           NEW new \in Seq(Threads),
           NEW from \in [1 .. Len(new) -> 1 .. Len(list)],
           \A i \in 1 .. Len(new) : new[i] = list[from[i]],
           \A i, j \in 1 .. Len(new) : i < j => from[i] < from[j]
    PROVE  Ordered(new)
<1> SUFFICES ASSUME NEW i \in 1 .. Len(new), NEW j \in 1 .. Len(new)
             PROVE  /\ new[i] = new[j] => i = j
                    /\ Flag = "PRIO" /\ i < j => Priority[new[i]] <= Priority[new[j]]
  BY DEF Ordered
<1>1. from[i] \in 1 .. Len(list) /\ from[j] \in 1 .. Len(list) /\ Len(list) \in Nat
  OBVIOUS
<1>2. /\ list[from[i]] = list[from[j]] => from[i] = from[j]
      /\ Flag = "PRIO" /\ from[i] < from[j]
           => Priority[list[from[i]]] <= Priority[list[from[j]]]
  BY <1>1 DEF Ordered
<1>3. from[i] = from[j] => i = j
  <2>1. i < j \/ i = j \/ j < i
    OBVIOUS
  <2> QED BY <1>1, <2>1
<1> QED BY <1>2, <1>3

(* rt_thread_timeout removes one thread and keeps the order of the others. *)
LEMMA WithoutKeepsOrder ==
    ASSUME NEW list \in Seq(Threads), Ordered(list), NEW k \in 1 .. Len(list)
    PROVE  /\ Without(list, k) \in Seq(Threads)
           /\ Elements(Without(list, k)) = Elements(list) \ {list[k]}
           /\ Ordered(Without(list, k))
<1> DEFINE new == Without(list, k)
<1>0. /\ Len(list) \in Nat
      /\ \A i \in 1 .. Len(list) : list[i] \in Threads
  OBVIOUS
<1>1. /\ new \in Seq(Threads)
      /\ Len(new) = Len(list) - 1
      /\ \A i \in 1 .. Len(list) - 1 : new[i] = IF i < k THEN list[i] ELSE list[i + 1]
  BY <1>0 DEF Without
<1> HIDE DEF new
<1>2. ASSUME NEW i \in 1 .. Len(new) PROVE new[i] \in Elements(list) \ {list[k]}
  BY <1>0, <1>1 DEF Elements, Ordered
<1>3. ASSUME NEW i \in 1 .. Len(list), list[i] # list[k] PROVE list[i] \in Elements(new)
  <2>1. CASE i < k
    BY <1>0, <1>1, <2>1 DEF Elements
  <2>2. CASE i > k
    <3>1. /\ i - 1 \in 1 .. Len(new)
          /\ new[i - 1] = list[i]
      BY <1>0, <1>1, <2>2
    <3> QED BY <3>1 DEF Elements
  <2> QED BY <1>0, <1>3, <2>1, <2>2
<1>4. Elements(new) = Elements(list) \ {list[k]}
  BY <1>2, <1>3 DEF Elements
<1>5. Ordered(new)
  <2> DEFINE from == [i \in 1 .. Len(new) |-> IF i < k THEN i ELSE i + 1]
  <2>1. /\ from \in [1 .. Len(new) -> 1 .. Len(list)]
        /\ \A i \in 1 .. Len(new) : new[i] = list[from[i]]
        /\ \A i, j \in 1 .. Len(new) : i < j => from[i] < from[j]
    BY <1>0, <1>1
  <2> HIDE DEF from
  <2> QED BY <1>1, <2>1, SelectionKeepsOrder
<1> QED BY <1>1, <1>4, <1>5 DEF new

(* rt_ipc_list_resume takes the first thread off the list. *)
LEMMA TailKeepsOrder ==
    ASSUME NEW list \in Seq(Threads), Ordered(list), list # <<>>
    PROVE  /\ Tail(list) \in Seq(Threads)
           /\ list[1] \in Threads
           /\ Elements(Tail(list)) = Elements(list) \ {list[1]}
           /\ Ordered(Tail(list))
<1> DEFINE new == Tail(list)
<1>1. /\ new \in Seq(Threads)
      /\ Len(list) \in Nat \ {0}
      /\ Len(new) = Len(list) - 1
      /\ \A i \in 1 .. Len(new) : new[i] = list[i + 1]
      /\ \A i \in 1 .. Len(list) : list[i] \in Threads
  OBVIOUS
<1> HIDE DEF new
<1>2. ASSUME NEW i \in 1 .. Len(new) PROVE new[i] \in Elements(list) \ {list[1]}
  BY <1>1 DEF Elements, Ordered
<1>3. ASSUME NEW i \in 1 .. Len(list), list[i] # list[1] PROVE list[i] \in Elements(new)
  <2>1. /\ i - 1 \in 1 .. Len(new)
        /\ new[i - 1] = list[i]
    BY <1>1, <1>3
  <2> QED BY <2>1 DEF Elements
<1>4. Elements(new) = Elements(list) \ {list[1]}
  BY <1>2, <1>3 DEF Elements
<1>5. Ordered(new)
  <2> DEFINE from == [i \in 1 .. Len(new) |-> i + 1]
  <2>1. /\ from \in [1 .. Len(new) -> 1 .. Len(list)]
        /\ \A i \in 1 .. Len(new) : new[i] = list[from[i]]
        /\ \A i, j \in 1 .. Len(new) : i < j => from[i] < from[j]
    BY <1>1
  <2> HIDE DEF from
  <2> QED BY <1>1, <2>1, SelectionKeepsOrder
<1> QED BY <1>1, <1>4, <1>5 DEF new

-----------------------------------------------------------------------------
(* A thread has a block in hand exactly between its two critical sections. *)
HandsMatch == \A t \in Threads : pc[t] \in Holding <=> msg[t] # NoBlock

(* The inductive invariant. *)
IInv ==
    /\ TypeOK
    /\ entry = Len(msg_queue)
    /\ HandsMatch
    /\ WaitListsOrdered
    /\ BlocksInOnePlace

(* A thread that neither starts nor ends a wait leaves the lists right. *)
LEMMA ListsLeftAlone ==
    ASSUME TypeOK, WaitListsOrdered, NEW t \in Threads, NEW p,
           pc[t] \notin {"recvwait", "sendwait"}, p \notin {"recvwait", "sendwait"},
           pc' = [pc EXCEPT ![t] = p], UNCHANGED listsUnchanged
    PROVE  WaitListsOrdered'
<1>1. \A w \in {"recvwait", "sendwait"} :
         {u \in Threads : pc'[u] = w} = {u \in Threads : pc[u] = w}
  BY DEF TypeOK
<1> QED BY <1>1 DEF WaitListsOrdered, ListOrdered, Elements, listsUnchanged

(* A thread t that did not wait goes to the end of its wait list. *)
LEMMA ListJoined ==
    ASSUME TypeOK, NEW t \in Threads, NEW w \in {"recvwait", "sendwait"}, pc[t] # w,
           pc' = [pc EXCEPT ![t] = w],
           NEW list \in Seq(Threads), ListOrdered(list, w),
           NEW k \in 1 .. Len(list) + 1, Position(list, t, k)
    PROVE  /\ InsertedAt(list, k, t) \in Seq(Threads)
           /\ Elements(InsertedAt(list, k, t)) = {u \in Threads : pc'[u] = w}
           /\ Ordered(InsertedAt(list, k, t))
<1>1. Elements(list) = {u \in Threads : pc[u] = w} /\ Ordered(list)
  BY DEF ListOrdered, Ordered
<1>2. t \notin Elements(list)
  BY <1>1
<1>3. {u \in Threads : pc'[u] = w} = Elements(list) \cup {t}
  BY <1>1 DEF TypeOK
<1> QED BY <1>1, <1>2, <1>3, InsertKeepsOrder

(* The inductive invariant holds when the queue has been created. *)
LEMMA InitIInv == Init => IInv
<1> SUFFICES ASSUME Init PROVE IInv
  OBVIOUS
<1>1. TypeOK
  BY MaxMsgsAssumption DEF Init, TypeOK, Pool, Blocks, NoBlock
<1>2. entry = Len(msg_queue) /\ HandsMatch
  BY DEF Init, HandsMatch, Holding
<1>3. WaitListsOrdered
  BY DEF Init, WaitListsOrdered, ListOrdered, Elements
<1>4. BlocksInOnePlace
  BY DEF Init, BlocksInOnePlace, Pool, Blocks, NoBlock, QueuedOnce, HeldOnce, QueuedNotFree,
         QueuedNotHeld, HeldNotFree, NoneLost, Once, Elements
<1> QED BY <1>1, <1>2, <1>3, <1>4 DEF IInv

(* The calls, the failures that need no wait and the copies: the lists and   *)
(* the places of the blocks stay as they are.                                *)
LEMMA QuietSteps ==
    ASSUME IInv, NEW t \in Threads,
           \/ rt_mq_send_wait(t) \/ rt_mq_urgent(t) \/ SendFull(t) \/ CopyIn(t)
           \/ rt_mq_recv(t) \/ RecvEmpty(t) \/ CopyOut(t)
    PROVE  IInv'
<1> USE DEF IInv
<1> USE DEF queueUnchanged, listsUnchanged, SendReturns, Forget
<1>1. /\ UNCHANGED <<msg_queue, msg_queue_free, entry, msg, suspend_thread,
                     suspend_sender_thread>>
      /\ pc[t] \notin {"recvwait", "sendwait"}
  BY DEF rt_mq_send_wait, rt_mq_urgent, SendFull, CopyIn, rt_mq_recv, RecvEmpty, CopyOut,
         TimeLeft
<1>2. /\ pc' = [pc EXCEPT ![t] = pc'[t]]
      /\ pc'[t] \in ({"idle"} \cup SendPCs \cup RecvPCs) \ {"recvwait", "sendwait"}
      /\ pc'[t] \in Holding <=> pc[t] \in Holding
  <2> USE DEF SendPCs, RecvPCs, Holding, TypeOK
  <2>1. CASE rt_mq_send_wait(t)
    BY <2>1 DEF rt_mq_send_wait
  <2>2. CASE rt_mq_urgent(t)
    BY <2>2 DEF rt_mq_urgent
  <2>3. CASE SendFull(t)
    BY <2>3 DEF SendFull
  <2>4. CASE CopyIn(t)
    BY <2>4 DEF CopyIn
  <2>5. CASE rt_mq_recv(t)
    BY <2>5 DEF rt_mq_recv
  <2>6. CASE RecvEmpty(t)
    BY <2>6 DEF RecvEmpty
  <2>7. CASE CopyOut(t)
    BY <2>7 DEF CopyOut
  <2> QED BY <2>1, <2>2, <2>3, <2>4, <2>5, <2>6, <2>7
<1>3. TypeOK'
  <2>1. pc' \in [Threads -> {"idle"} \cup SendPCs \cup RecvPCs]
    BY <1>2 DEF TypeOK
  <2>2. CASE rt_mq_send_wait(t)
    BY <1>1, <2>1, <2>2 DEF rt_mq_send_wait, TypeOK
  <2>3. CASE rt_mq_urgent(t)
    BY <1>1, <2>1, <2>3 DEF rt_mq_urgent, TypeOK
  <2>4. CASE SendFull(t)
    BY <1>1, <2>1, <2>4 DEF SendFull, TypeOK
  <2>5. CASE CopyIn(t)
    BY <1>1, <2>1, <2>5 DEF CopyIn, TypeOK
  <2>6. CASE rt_mq_recv(t)
    BY <1>1, <2>1, <2>6 DEF rt_mq_recv, TypeOK
  <2>7. CASE RecvEmpty(t)
    BY <1>1, <2>1, <2>7 DEF RecvEmpty, TypeOK
  <2>8. CASE CopyOut(t)
    <3>1. msg[t] \in Blocks
      BY <2>8 DEF CopyOut, HandsMatch, Holding, TypeOK
    <3> QED BY <1>1, <2>1, <2>8, <3>1 DEF CopyOut, TypeOK
  <2> QED BY <2>2, <2>3, <2>4, <2>5, <2>6, <2>7, <2>8
<1>4. (entry = Len(msg_queue))' /\ HandsMatch'
  BY <1>1, <1>2 DEF HandsMatch, TypeOK
<1>5. WaitListsOrdered'
  BY <1>1, <1>2, ListsLeftAlone
<1>6. BlocksInOnePlace'
  BY <1>1 DEF BlocksInOnePlace, QueuedOnce, HeldOnce, QueuedNotFree,
         QueuedNotHeld, HeldNotFree, NoneLost, Once, Elements
<1> QED BY <1>3, <1>4, <1>5, <1>6

(* A sender takes a block from the free list. *)
LEMMA TakeFreeStep ==
    ASSUME IInv, NEW t \in Threads, TakeFree(t)
    PROVE  IInv'
<1> USE DEF IInv
<1>1. PICK b \in msg_queue_free :
         /\ msg_queue_free' = msg_queue_free \ {b}
         /\ msg' = [msg EXCEPT ![t] = b]
  BY DEF TakeFree
<1>2. /\ pc' = [pc EXCEPT ![t] = pc'[t]]
      /\ pc'[t] \in {"copyin", "urgentcopyin"}
  BY DEF TakeFree, TypeOK
<1>3. b \in Blocks /\ b # NoBlock
  BY <1>1 DEF TypeOK, Blocks, NoBlock
<1>4. TypeOK'
  BY <1>1, <1>2, <1>3 DEF TakeFree, TypeOK, SendPCs, listsUnchanged
<1>5. (entry = Len(msg_queue))' /\ HandsMatch'
  BY <1>1, <1>2, <1>3 DEF TakeFree, HandsMatch, TypeOK, Holding
<1>6. WaitListsOrdered'
  BY <1>2, ListsLeftAlone DEF TakeFree
<1>7. msg[t] = NoBlock
  BY DEF TakeFree, HandsMatch, Holding
<1>8. BlocksInOnePlace'
  <2>1. msg_queue' = msg_queue
    BY DEF TakeFree
  <2>2. QueuedOnce' /\ QueuedNotFree'
    BY <1>1, <2>1 DEF BlocksInOnePlace, QueuedOnce, QueuedNotFree, Once, Elements
  <2>3. HeldOnce' /\ HeldNotFree'
    BY <1>1, <1>3 DEF BlocksInOnePlace, HeldOnce, HeldNotFree, TypeOK
  <2>4. QueuedNotHeld'
    BY <1>1, <2>1 DEF BlocksInOnePlace, QueuedNotHeld, QueuedNotFree, TypeOK, Elements
  <2>5. NoneLost'
    BY <1>1, <1>7, <2>1 DEF BlocksInOnePlace, NoneLost, TypeOK, Blocks, NoBlock, Elements
  <2> QED BY <2>2, <2>3, <2>4, <2>5 DEF BlocksInOnePlace
<1> QED BY <1>4, <1>5, <1>6, <1>8

(* A thread joins the list of waiting senders or receivers. *)
LEMMA SuspendSteps ==
    ASSUME IInv, NEW t \in Threads, SendSuspend(t) \/ RecvSuspend(t)
    PROVE  IInv'
<1> USE DEF IInv
<1>1. /\ UNCHANGED <<queueUnchanged, timeout, offer, accepted, buffer>>
      /\ pc[t] \in {"send", "sendretry", "recv", "recvretry"}
  BY DEF SendSuspend, RecvSuspend
<1>2. /\ pc' = [pc EXCEPT ![t] = pc'[t]]
      /\ pc'[t] \in {"sendwait", "recvwait"}
  BY DEF SendSuspend, RecvSuspend, TypeOK
<1>3. TypeOK' /\ WaitListsOrdered'
  <2>1. CASE SendSuspend(t)
    <3>1. PICK k \in 1 .. Len(suspend_sender_thread) + 1 :
             /\ Position(suspend_sender_thread, t, k)
             /\ suspend_sender_thread' = InsertedAt(suspend_sender_thread, k, t)
      BY <2>1 DEF SendSuspend
    <3>2. /\ pc' = [pc EXCEPT ![t] = "sendwait"]
          /\ suspend_thread' = suspend_thread
      BY <2>1 DEF SendSuspend
    <3>3. /\ suspend_sender_thread' \in Seq(Threads)
          /\ Elements(suspend_sender_thread') = {u \in Threads : pc'[u] = "sendwait"}
          /\ Ordered(suspend_sender_thread')
      BY <1>1, <3>1, <3>2, ListJoined DEF TypeOK, WaitListsOrdered
    <3>4. {u \in Threads : pc'[u] = "recvwait"} = {u \in Threads : pc[u] = "recvwait"}
      BY <1>1, <3>2 DEF TypeOK
    <3>5. WaitListsOrdered'
      BY <3>2, <3>3, <3>4 DEF WaitListsOrdered, ListOrdered, Ordered, Elements
    <3> QED BY <1>1, <3>2, <3>3, <3>5 DEF TypeOK, SendPCs, queueUnchanged
  <2>2. CASE RecvSuspend(t)
    <3>1. PICK k \in 1 .. Len(suspend_thread) + 1 :
             /\ Position(suspend_thread, t, k)
             /\ suspend_thread' = InsertedAt(suspend_thread, k, t)
      BY <2>2 DEF RecvSuspend
    <3>2. /\ pc' = [pc EXCEPT ![t] = "recvwait"]
          /\ suspend_sender_thread' = suspend_sender_thread
      BY <2>2 DEF RecvSuspend
    <3>3. /\ suspend_thread' \in Seq(Threads)
          /\ Elements(suspend_thread') = {u \in Threads : pc'[u] = "recvwait"}
          /\ Ordered(suspend_thread')
      BY <1>1, <3>1, <3>2, ListJoined DEF TypeOK, WaitListsOrdered
    <3>4. {u \in Threads : pc'[u] = "sendwait"} = {u \in Threads : pc[u] = "sendwait"}
      BY <1>1, <3>2 DEF TypeOK
    <3>5. WaitListsOrdered'
      BY <3>2, <3>3, <3>4 DEF WaitListsOrdered, ListOrdered, Ordered, Elements
    <3> QED BY <1>1, <3>2, <3>3, <3>5 DEF TypeOK, RecvPCs, queueUnchanged
  <2> QED BY <2>1, <2>2
<1>4. (entry = Len(msg_queue))' /\ HandsMatch'
  BY <1>1, <1>2 DEF HandsMatch, TypeOK, Holding, queueUnchanged
<1>5. BlocksInOnePlace'
  BY <1>1 DEF BlocksInOnePlace, queueUnchanged, QueuedOnce, HeldOnce, QueuedNotFree,
         QueuedNotHeld, HeldNotFree, NoneLost, Once, Elements
<1> QED BY <1>3, <1>4, <1>5

(* While a sender has a block in hand, the queue does not hold all of them:  *)
(* the count can grow.                                                       *)
LEMMA EntryBelowMax ==
    ASSUME IInv, NEW t \in Threads, msg[t] # NoBlock
    PROVE  entry < max_msgs /\ entry < RT_MQ_ENTRY_MAX
<1> DEFINE S == 1 .. Len(msg_queue)
           T == Blocks \ {msg[t]}
<1>1. /\ msg[t] \in Blocks
      /\ msg_queue \in Seq(Blocks)
      /\ Len(msg_queue) \in Nat
      /\ entry = Len(msg_queue)
      /\ max_msgs \in Nat
  BY MaxMsgsAssumption DEF IInv, TypeOK
<1>2. msg_queue \in Injection(S, T)
  <2>1. msg_queue \in [S -> Blocks]
    BY <1>1
  <2>2. \A i \in S : msg_queue[i] # msg[t]
    BY DEF IInv, BlocksInOnePlace, QueuedNotHeld, Elements
  <2>3. msg_queue \in [S -> T]
    BY <2>1, <2>2
  <2>4. \A i, j \in S : msg_queue[i] = msg_queue[j] => i = j
    BY DEF IInv, BlocksInOnePlace, QueuedOnce, Once
  <2> QED BY <2>1, <2>3, <2>4 DEF Injection, IsInjective
<1>3. IsFiniteSet(Blocks) /\ Cardinality(Blocks) = max_msgs
  <2>1. 1 \in Int /\ max_msgs \in Int
    BY <1>1
  <2>2. /\ IsFiniteSet(1 .. max_msgs)
        /\ Cardinality(1 .. max_msgs) = IF 1 > max_msgs THEN 0 ELSE max_msgs - 1 + 1
    BY <2>1, FS_Interval, Zenon
  <2> QED BY <1>1, <2>2 DEF Blocks
<1>4. IsFiniteSet(T) /\ Cardinality(T) = max_msgs - 1
  BY <1>1, <1>3, FS_RemoveElement
<1>5. Cardinality(S) <= Cardinality(T)
  BY <1>2, <1>4, FS_Injection
<1>6. Cardinality(S) = Len(msg_queue)
  <2>1. 1 \in Int /\ Len(msg_queue) \in Int
    BY <1>1
  <2>2. Cardinality(S) = IF 1 > Len(msg_queue) THEN 0 ELSE Len(msg_queue) - 1 + 1
    BY <2>1, FS_Interval, Zenon
  <2> QED BY <1>1, <2>2
<1> HIDE DEF S, T
<1> QED BY <1>1, <1>4, <1>5, <1>6, MaxMsgsAssumption, EntryMaxAssumption

(* A thread t returns and resumes the first thread of a list: the list holds  *)
(* the threads that still wait in it, the other list is not affected, and     *)
(* nobody but t lets go of a block.                                           *)
LEMMA ResumeKeepsLists ==
    ASSUME TypeOK, NEW t \in Threads,
           NEW w \in {"recvwait", "sendwait"}, NEW v \in {"recvwait", "sendwait"}, v # w,
           NEW wake \in {"recvretry", "sendretry"},
           NEW list \in Seq(Threads), ListOrdered(list, w),
           pc[t] \notin {"recvwait", "sendwait"},
           ResumeFirst(list, t, "idle", wake)
    PROVE  /\ RestOf(list) \in Seq(Threads)
           /\ Elements(RestOf(list)) = {u \in Threads : pc'[u] = w}
           /\ Ordered(RestOf(list))
           /\ {u \in Threads : pc'[u] = v} = {u \in Threads : pc[u] = v}
           /\ pc' \in [Threads -> {"idle"} \cup SendPCs \cup RecvPCs]
           /\ pc'[t] = "idle"
           /\ \A u \in Threads \ {t} : pc'[u] \in Holding <=> pc[u] \in Holding
<1>1. Ordered(list) /\ Elements(list) = {u \in Threads : pc[u] = w}
  BY DEF ListOrdered, Ordered
<1>2. CASE list = <<>>
  <2>1. RestOf(list) = <<>> /\ pc' = [pc EXCEPT ![t] = "idle"]
    BY <1>2 DEF RestOf, ResumeFirst
  <2>2. {u \in Threads : pc[u] = w} = {}
    BY <1>1, <1>2 DEF Elements
  <2>3. Elements(RestOf(list)) = {} /\ Ordered(RestOf(list)) /\ RestOf(list) \in Seq(Threads)
    BY <2>1 DEF Elements, Ordered
  <2> QED BY <2>1, <2>2, <2>3 DEF TypeOK
<1>3. CASE list # <<>>
  <2>1. /\ RestOf(list) = Tail(list)
        /\ pc' = [pc EXCEPT ![t] = "idle", ![list[1]] = wake]
    BY <1>3 DEF RestOf, ResumeFirst
  <2>2. /\ Tail(list) \in Seq(Threads)
        /\ list[1] \in Threads
        /\ Elements(Tail(list)) = Elements(list) \ {list[1]}
        /\ Ordered(Tail(list))
    BY <1>1, <1>3, TailKeepsOrder
  <2>3. list[1] \in Elements(list)
    BY <1>3 DEF Elements
  <2>4. pc[list[1]] = w /\ list[1] # t
    BY <1>1, <2>3
  <2>5. /\ {u \in Threads : pc'[u] = w} = {u \in Threads : pc[u] = w} \ {list[1]}
        /\ {u \in Threads : pc'[u] = v} = {u \in Threads : pc[u] = v}
    BY <2>1, <2>2, <2>4 DEF TypeOK
  <2>6. /\ pc' \in [Threads -> {"idle"} \cup SendPCs \cup RecvPCs]
        /\ pc'[t] = "idle"
        /\ \A u \in Threads \ {t} : pc'[u] \in Holding <=> pc[u] \in Holding
    BY <2>1, <2>2, <2>4 DEF TypeOK, Holding, SendPCs, RecvPCs
  <2> QED BY <1>1, <2>1, <2>2, <2>5, <2>6
<1> QED BY <1>2, <1>3

(* What the lists of the next state have to satisfy, in these terms. *)
LEMMA ListsRight ==
    ASSUME Elements(suspend_thread') = {u \in Threads : pc'[u] = "recvwait"},
           Elements(suspend_sender_thread') = {u \in Threads : pc'[u] = "sendwait"},
           Ordered(suspend_thread'), Ordered(suspend_sender_thread')
    PROVE  WaitListsOrdered'
<1>1. ListOrdered(suspend_thread, "recvwait")'
  BY DEF ListOrdered, Ordered, Elements
<1>2. ListOrdered(suspend_sender_thread, "sendwait")'
  BY DEF ListOrdered, Ordered, Elements
<1> QED BY <1>1, <1>2 DEF WaitListsOrdered

(* A sender links its block; a waiting receiver is resumed. *)
LEMMA LinkStep ==
    ASSUME IInv, NEW t \in Threads, Link(t)
    PROVE  IInv'
<1> USE DEF IInv
<1>1. /\ pc[t] \in {"link", "urgentlink"}
      /\ msg[t] \in Blocks
      /\ msg[t] # NoBlock
      /\ entry < RT_MQ_ENTRY_MAX
  BY EntryBelowMax DEF Link, HandsMatch, Holding, TypeOK
<1>2. /\ entry' = entry + 1
      /\ offer' = [offer EXCEPT ![t] = Nothing]
      /\ accepted' = [accepted EXCEPT ![t] = TRUE]
      /\ timeout' = [timeout EXCEPT ![t] = "none"]
      /\ msg' = [msg EXCEPT ![t] = NoBlock]
      /\ suspend_thread' = RestOf(suspend_thread)
      /\ ResumeFirst(suspend_thread, t, "idle", "recvretry")
      /\ UNCHANGED <<msg_queue_free, data, suspend_sender_thread, buffer>>
  BY <1>1 DEF Link, SendReturns, Forget
<1>3. /\ msg_queue' \in Seq(Blocks)
      /\ Len(msg_queue') = Len(msg_queue) + 1
      /\ Elements(msg_queue') = Elements(msg_queue) \cup {msg[t]}
      /\ Once(msg_queue')
  <2>1. msg_queue \in Seq(Blocks) /\ Once(msg_queue) /\ msg[t] \notin Elements(msg_queue)
    BY DEF TypeOK, BlocksInOnePlace, QueuedOnce, QueuedNotHeld
  <2>2. msg_queue' = Append(msg_queue, msg[t]) \/ msg_queue' = <<msg[t]>> \o msg_queue
    BY DEF Link
  <2>3. CASE msg_queue' = Append(msg_queue, msg[t])
    <3>1. /\ Append(msg_queue, msg[t]) \in Seq(Blocks)
          /\ Len(Append(msg_queue, msg[t])) = Len(msg_queue) + 1
          /\ Elements(Append(msg_queue, msg[t])) = Elements(msg_queue) \cup {msg[t]}
          /\ Once(Append(msg_queue, msg[t]))
      BY <1>1, <2>1, AppendElement
    <3> QED BY <2>3, <3>1
  <2>4. CASE msg_queue' = <<msg[t]>> \o msg_queue
    <3>1. /\ <<msg[t]>> \o msg_queue \in Seq(Blocks)
          /\ Len(<<msg[t]>> \o msg_queue) = Len(msg_queue) + 1
          /\ Elements(<<msg[t]>> \o msg_queue) = Elements(msg_queue) \cup {msg[t]}
          /\ Once(<<msg[t]>> \o msg_queue)
      BY <1>1, <2>1, PrependElement
    <3> QED BY <2>4, <3>1
  <2> QED BY <2>2, <2>3, <2>4
<1>4. /\ suspend_thread' \in Seq(Threads)
      /\ Elements(suspend_thread') = {u \in Threads : pc'[u] = "recvwait"}
      /\ Ordered(suspend_thread')
      /\ {u \in Threads : pc'[u] = "sendwait"} = {u \in Threads : pc[u] = "sendwait"}
      /\ pc' \in [Threads -> {"idle"} \cup SendPCs \cup RecvPCs]
      /\ pc'[t] = "idle"
      /\ \A u \in Threads \ {t} : pc'[u] \in Holding <=> pc[u] \in Holding
  <2>1. suspend_thread \in Seq(Threads) /\ ListOrdered(suspend_thread, "recvwait")
    BY DEF TypeOK, WaitListsOrdered
  <2> QED BY <1>1, <1>2, <2>1, ResumeKeepsLists
<1>5. TypeOK'
  <2>1. entry' \in 0 .. RT_MQ_ENTRY_MAX
    BY <1>1, <1>2, MaxMsgsAssumption DEF TypeOK
  <2>2. /\ data' \in [Blocks -> Messages \cup {Nothing}]
        /\ msg_queue_free' \subseteq Blocks
        /\ suspend_sender_thread' \in Seq(Threads)
        /\ buffer' \in [Threads -> Messages \cup {Nothing}]
    BY <1>2 DEF TypeOK
  <2>3. /\ msg' \in [Threads -> Blocks \cup {NoBlock}]
        /\ timeout' \in [Threads -> {"none", "ticks", "forever"}]
        /\ offer' \in [Threads -> Messages \cup {Nothing}]
        /\ accepted' \in [Threads -> BOOLEAN]
    BY <1>2, Zenon DEF TypeOK
  <2> QED BY <1>3, <1>4, <2>1, <2>2, <2>3, Zenon DEF TypeOK
<1>6. (entry = Len(msg_queue))' /\ HandsMatch'
  <2>1. HandsMatch'
    BY <1>2, <1>4 DEF HandsMatch, Holding, TypeOK
  <2> QED BY <1>2, <1>3, <2>1
<1>7. WaitListsOrdered'
  <2>1. /\ Elements(suspend_sender_thread) = {u \in Threads : pc[u] = "sendwait"}
        /\ Ordered(suspend_sender_thread)
    BY DEF WaitListsOrdered, ListOrdered, Ordered
  <2> QED BY <1>2, <1>4, <2>1, ListsRight
<1>8. BlocksInOnePlace'
  <2>1. QueuedOnce' /\ QueuedNotFree'
    BY <1>2, <1>3 DEF BlocksInOnePlace, QueuedOnce, QueuedNotFree, HeldNotFree
  <2>2. HeldOnce' /\ HeldNotFree'
    BY <1>2 DEF BlocksInOnePlace, HeldOnce, HeldNotFree, TypeOK, Blocks, NoBlock
  <2>3. QueuedNotHeld'
    <3>1. NoBlock \notin Elements(msg_queue')
      <4>1. \A i \in 1 .. Len(msg_queue') : msg_queue'[i] \in Blocks
        BY <1>3
      <4>2. NoBlock \notin Blocks
        BY DEF Blocks, NoBlock
      <4> QED BY <4>1, <4>2 DEF Elements
    <3> QED BY <1>1, <1>2, <1>3, <3>1 DEF BlocksInOnePlace, QueuedNotHeld, HeldOnce, TypeOK
  <2>4. NoneLost'
    BY <1>2, <1>3 DEF BlocksInOnePlace, NoneLost, TypeOK
  <2> QED BY <2>1, <2>2, <2>3, <2>4 DEF BlocksInOnePlace
<1> QED BY <1>5, <1>6, <1>7, <1>8

(* A receiver unlinks the block at the head of the queue. *)
LEMMA UnlinkStep ==
    ASSUME IInv, NEW t \in Threads, Unlink(t)
    PROVE  IInv'
<1> USE DEF IInv
<1> DEFINE b == msg_queue[1]
<1>1. /\ msg_queue \in Seq(Blocks)
      /\ msg_queue # <<>>
      /\ Once(msg_queue)
      /\ pc[t] \in {"recv", "recvretry"}
      /\ entry \in Nat \ {0}
  BY MaxMsgsAssumption DEF Unlink, TypeOK, BlocksInOnePlace, QueuedOnce
<1>2. /\ Tail(msg_queue) \in Seq(Blocks)
      /\ Head(msg_queue) = b
      /\ b \in Blocks
      /\ b \in Elements(msg_queue)
      /\ Len(Tail(msg_queue)) = Len(msg_queue) - 1
      /\ Elements(Tail(msg_queue)) = Elements(msg_queue) \ {b}
      /\ Once(Tail(msg_queue))
  BY <1>1, TailElements
<1> HIDE DEF b
<1>3. /\ msg_queue' = Tail(msg_queue)
      /\ msg' = [msg EXCEPT ![t] = b]
      /\ entry' = entry - 1
      /\ pc' = [pc EXCEPT ![t] = "copyout"]
      /\ UNCHANGED <<msg_queue_free, data, listsUnchanged, timeout, offer, accepted, buffer>>
  BY <1>2 DEF Unlink
<1>4. TypeOK'
  BY <1>1, <1>2, <1>3, MaxMsgsAssumption DEF TypeOK, RecvPCs, listsUnchanged
<1>5. (entry = Len(msg_queue))' /\ HandsMatch'
  <2>1. b # NoBlock
    BY <1>2 DEF Blocks, NoBlock
  <2>2. HandsMatch'
    BY <1>3, <2>1 DEF HandsMatch, Holding, TypeOK
  <2> QED BY <1>2, <1>3, <2>2
<1>6. WaitListsOrdered'
  BY <1>1, <1>3, ListsLeftAlone
<1>7. msg[t] = NoBlock
  BY <1>1 DEF HandsMatch, Holding
<1>8. BlocksInOnePlace'
  <2>1. QueuedOnce' /\ QueuedNotFree'
    BY <1>2, <1>3 DEF BlocksInOnePlace, QueuedOnce, QueuedNotFree
  <2>2. HeldOnce' /\ HeldNotFree'
    BY <1>2, <1>3 DEF BlocksInOnePlace, HeldOnce, HeldNotFree, QueuedNotHeld, QueuedNotFree,
       TypeOK
  <2>3. QueuedNotHeld'
    BY <1>2, <1>3 DEF BlocksInOnePlace, QueuedNotHeld, TypeOK
  <2>4. NoneLost'
    BY <1>2, <1>3, <1>7 DEF BlocksInOnePlace, NoneLost, TypeOK, Blocks, NoBlock
  <2> QED BY <2>1, <2>2, <2>3, <2>4 DEF BlocksInOnePlace
<1> QED BY <1>4, <1>5, <1>6, <1>8

(* A receiver frees its block; a waiting sender is resumed. *)
LEMMA ReleaseStep ==
    ASSUME IInv, NEW t \in Threads, Release(t)
    PROVE  IInv'
<1> USE DEF IInv
<1>1. /\ pc[t] = "release"
      /\ msg[t] \in Blocks
      /\ msg[t] # NoBlock
  BY DEF Release, HandsMatch, Holding, TypeOK
<1>2. /\ msg_queue_free' = msg_queue_free \cup {msg[t]}
      /\ msg' = [msg EXCEPT ![t] = NoBlock]
      /\ suspend_sender_thread' = RestOf(suspend_sender_thread)
      /\ timeout' = [timeout EXCEPT ![t] = "none"]
      /\ ResumeFirst(suspend_sender_thread, t, "idle", "sendretry")
      /\ UNCHANGED <<msg_queue, entry, data, suspend_thread, offer, accepted, buffer>>
  BY DEF Release, Forget
<1>3. /\ suspend_sender_thread' \in Seq(Threads)
      /\ Elements(suspend_sender_thread') = {u \in Threads : pc'[u] = "sendwait"}
      /\ Ordered(suspend_sender_thread')
      /\ {u \in Threads : pc'[u] = "recvwait"} = {u \in Threads : pc[u] = "recvwait"}
      /\ pc' \in [Threads -> {"idle"} \cup SendPCs \cup RecvPCs]
      /\ pc'[t] = "idle"
      /\ \A u \in Threads \ {t} : pc'[u] \in Holding <=> pc[u] \in Holding
  <2>1. /\ suspend_sender_thread \in Seq(Threads)
        /\ ListOrdered(suspend_sender_thread, "sendwait")
    BY DEF TypeOK, WaitListsOrdered
  <2> QED BY <1>1, <1>2, <2>1, ResumeKeepsLists
<1>4. TypeOK'
  BY <1>1, <1>2, <1>3 DEF TypeOK
<1>5. (entry = Len(msg_queue))' /\ HandsMatch'
  BY <1>2, <1>3 DEF HandsMatch, Holding, TypeOK
<1>6. WaitListsOrdered'
  <2>1. /\ Elements(suspend_thread) = {u \in Threads : pc[u] = "recvwait"}
        /\ Ordered(suspend_thread)
    BY DEF WaitListsOrdered, ListOrdered, Ordered
  <2> QED BY <1>2, <1>3, <2>1, ListsRight
<1>7. BlocksInOnePlace'
  <2>1. QueuedOnce' /\ QueuedNotFree'
    BY <1>2 DEF BlocksInOnePlace, QueuedOnce, QueuedNotFree, QueuedNotHeld
  <2>2. NoBlock \notin Blocks
    BY DEF Blocks, NoBlock
  <2>3. HeldOnce' /\ HeldNotFree'
    BY <1>1, <1>2, <2>2 DEF BlocksInOnePlace, HeldOnce, HeldNotFree, TypeOK
  <2>4. QueuedNotHeld'
    <3>1. \A i \in 1 .. Len(msg_queue) : msg_queue[i] \in Blocks
      BY DEF TypeOK
    <3>2. NoBlock \notin Elements(msg_queue)
      BY <2>2, <3>1 DEF Elements
    <3> QED BY <1>2, <3>2 DEF BlocksInOnePlace, QueuedNotHeld, TypeOK
  <2>5. NoneLost'
    BY <1>2 DEF BlocksInOnePlace, NoneLost, TypeOK
  <2> QED BY <2>1, <2>3, <2>4, <2>5 DEF BlocksInOnePlace
<1> QED BY <1>4, <1>5, <1>6, <1>7

(* The timer ends a wait. *)
LEMMA TimeoutSteps ==
    ASSUME IInv, NEW t \in Threads, RecvTimeout(t) \/ SendTimeout(t)
    PROVE  IInv'
<1> USE DEF IInv
<1>1. /\ UNCHANGED <<msg_queue, msg_queue_free, entry, data, msg, buffer>>
      /\ timeout' = [timeout EXCEPT ![t] = "none"]
      /\ pc' = [pc EXCEPT ![t] = "idle"]
      /\ pc[t] \in {"recvwait", "sendwait"}
      /\ offer' \in [Threads -> Messages \cup {Nothing}]
      /\ accepted' \in [Threads -> BOOLEAN]
  BY DEF RecvTimeout, SendTimeout, queueUnchanged, SendReturns, Forget, TypeOK
<1>2. /\ suspend_thread' \in Seq(Threads)
      /\ suspend_sender_thread' \in Seq(Threads)
      /\ WaitListsOrdered'
  <2>0. /\ suspend_thread \in Seq(Threads)
        /\ Elements(suspend_thread) = {u \in Threads : pc[u] = "recvwait"}
        /\ Ordered(suspend_thread)
        /\ suspend_sender_thread \in Seq(Threads)
        /\ Elements(suspend_sender_thread) = {u \in Threads : pc[u] = "sendwait"}
        /\ Ordered(suspend_sender_thread)
    BY DEF TypeOK, WaitListsOrdered, ListOrdered, Ordered
  <2>1. CASE RecvTimeout(t)
    <3>1. PICK k \in 1 .. Len(suspend_thread) :
             suspend_thread[k] = t /\ suspend_thread' = Without(suspend_thread, k)
      BY <2>1 DEF RecvTimeout
    <3>2. /\ suspend_thread' \in Seq(Threads)
          /\ Elements(suspend_thread') = Elements(suspend_thread) \ {t}
          /\ Ordered(suspend_thread')
      BY <2>0, <3>1, WithoutKeepsOrder
    <3>3. /\ {u \in Threads : pc'[u] = "recvwait"} = {u \in Threads : pc[u] = "recvwait"} \ {t}
          /\ {u \in Threads : pc'[u] = "sendwait"} = {u \in Threads : pc[u] = "sendwait"}
          /\ suspend_sender_thread' = suspend_sender_thread
      BY <1>1, <2>1 DEF RecvTimeout, TypeOK
    <3> QED BY <2>0, <3>2, <3>3, ListsRight
  <2>2. CASE SendTimeout(t)
    <3>1. PICK k \in 1 .. Len(suspend_sender_thread) :
             /\ suspend_sender_thread[k] = t
             /\ suspend_sender_thread' = Without(suspend_sender_thread, k)
      BY <2>2 DEF SendTimeout
    <3>2. /\ suspend_sender_thread' \in Seq(Threads)
          /\ Elements(suspend_sender_thread') = Elements(suspend_sender_thread) \ {t}
          /\ Ordered(suspend_sender_thread')
      BY <2>0, <3>1, WithoutKeepsOrder
    <3>3. /\ {u \in Threads : pc'[u] = "sendwait"} = {u \in Threads : pc[u] = "sendwait"} \ {t}
          /\ {u \in Threads : pc'[u] = "recvwait"} = {u \in Threads : pc[u] = "recvwait"}
          /\ suspend_thread' = suspend_thread
      BY <1>1, <2>2 DEF SendTimeout, TypeOK
    <3> QED BY <2>0, <3>2, <3>3, ListsRight
  <2> QED BY <2>1, <2>2
<1>3. TypeOK'
  BY <1>1, <1>2 DEF TypeOK
<1>4. (entry = Len(msg_queue))' /\ HandsMatch'
  BY <1>1 DEF HandsMatch, Holding, TypeOK
<1>5. BlocksInOnePlace'
  BY <1>1 DEF BlocksInOnePlace, QueuedOnce, HeldOnce, QueuedNotFree,
         QueuedNotHeld, HeldNotFree, NoneLost, Once, Elements
<1> QED BY <1>2, <1>3, <1>4, <1>5

(* RT_IPC_CMD_RESET. *)
LEMMA ResetStep ==
    ASSUME IInv, Reset
    PROVE  IInv'
<1> USE DEF IInv
<1>1. \A i \in 1 .. Len(msg_queue) : msg_queue[i] \in Blocks
  BY DEF TypeOK
<1>2. Elements(msg_queue) \subseteq Blocks
  BY <1>1 DEF Elements
<1>3. /\ msg_queue' = <<>>
      /\ entry' = 0
      /\ suspend_thread' = <<>>
      /\ suspend_sender_thread' = <<>>
      /\ msg_queue_free' = msg_queue_free \cup Elements(msg_queue)
      /\ UNCHANGED <<data, msg, buffer>>
      /\ pc' = [u \in Threads |-> IF pc[u] \in {"recvwait", "sendwait"} THEN "idle" ELSE pc[u]]
  BY DEF Reset, Drained
<1>4. TypeOK'
  <2>1. /\ entry' \in 0 .. RT_MQ_ENTRY_MAX
        /\ msg_queue' \in Seq(Blocks)
        /\ suspend_thread' \in Seq(Threads)
        /\ suspend_sender_thread' \in Seq(Threads)
    BY <1>3, MaxMsgsAssumption
  <2>2. msg_queue_free' \subseteq Blocks
    BY <1>2, <1>3 DEF TypeOK
  <2>3. pc' \in [Threads -> {"idle"} \cup SendPCs \cup RecvPCs]
    BY <1>3 DEF TypeOK
  <2>4. /\ timeout' \in [Threads -> {"none", "ticks", "forever"}]
        /\ offer' \in [Threads -> Messages \cup {Nothing}]
        /\ accepted' \in [Threads -> BOOLEAN]
    BY DEF Reset, TypeOK
  <2>5. /\ data' \in [Blocks -> Messages \cup {Nothing}]
        /\ msg' \in [Threads -> Blocks \cup {NoBlock}]
        /\ buffer' \in [Threads -> Messages \cup {Nothing}]
    BY <1>3 DEF TypeOK
  <2> QED BY <2>1, <2>2, <2>3, <2>4, <2>5, Zenon DEF TypeOK
<1>5. (entry = Len(msg_queue))' /\ HandsMatch'
  <2>1. HandsMatch'
    BY <1>3 DEF HandsMatch, Holding, TypeOK
  <2> QED BY <1>3, <2>1
<1>6. WaitListsOrdered'
  <2>1. /\ Elements(<<>>) = {}
        /\ Ordered(<<>>)
    BY DEF Elements, Ordered
  <2>2. /\ {u \in Threads : pc'[u] = "recvwait"} = {}
        /\ {u \in Threads : pc'[u] = "sendwait"} = {}
    BY <1>3 DEF TypeOK
  <2> QED BY <1>3, <2>1, <2>2, ListsRight
<1>7. BlocksInOnePlace'
  <2>1. Elements(msg_queue') = {}
    BY <1>3 DEF Elements
  <2>2. QueuedOnce' /\ QueuedNotFree' /\ QueuedNotHeld'
    BY <1>3, <2>1 DEF QueuedOnce, QueuedNotFree, QueuedNotHeld, Once
  <2>3. HeldOnce' /\ HeldNotFree' /\ NoneLost'
    BY <1>3, <2>1 DEF BlocksInOnePlace, HeldOnce, HeldNotFree, QueuedNotHeld, NoneLost
  <2> QED BY <2>2, <2>3 DEF BlocksInOnePlace
<1> QED BY <1>4, <1>5, <1>6, <1>7

(* Every step keeps the inductive invariant. *)
LEMMA NextIInv == IInv /\ [Next]_vars => IInv'
<1> SUFFICES ASSUME IInv, [Next]_vars PROVE IInv'
  OBVIOUS
<1>1. CASE UNCHANGED vars
  BY <1>1 DEF vars, IInv, TypeOK, HandsMatch, WaitListsOrdered, ListOrdered,
     BlocksInOnePlace, QueuedOnce, HeldOnce, QueuedNotFree, QueuedNotHeld, HeldNotFree,
     NoneLost, Once, Elements
<1>2. CASE Reset
  BY <1>2, ResetStep
<1>3. ASSUME NEW t \in Threads,
             \/ rt_mq_send_wait(t) \/ rt_mq_urgent(t)
             \/ TakeFree(t) \/ SendFull(t) \/ SendSuspend(t) \/ CopyIn(t) \/ Link(t)
             \/ rt_mq_recv(t)
             \/ Unlink(t) \/ RecvEmpty(t) \/ RecvSuspend(t) \/ CopyOut(t) \/ Release(t)
             \/ RecvTimeout(t) \/ SendTimeout(t)
      PROVE  IInv'
  BY <1>3, QuietSteps, TakeFreeStep, SuspendSteps, LinkStep, UnlinkStep, ReleaseStep,
     TimeoutSteps
<1> QED BY <1>1, <1>2, <1>3 DEF Next

(* The inductive invariant holds in every reachable state. *)
THEOREM Invariance == Spec => []IInv
BY InitIInv, NextIInv, PTL DEF Spec

(* The state keeps its types in every reachable state of the queue, for any  *)
(* threads, priorities, messages and pool size (rt_mq_send_wait,             *)
(* rt_mq_urgent, rt_mq_recv, rt_mq_control).                                 *)
THEOREM TypeCorrect == Spec => []TypeOK
<1>1. IInv => TypeOK
  BY DEF IInv
<1> QED BY <1>1, Invariance, PTL

(* Every block of the pool is in exactly one place in every reachable state: *)
(* the copies that rt_mq_send_wait and rt_mq_recv make with interrupts       *)
(* enabled never touch a block that another thread can reach.                *)
THEOREM BlocksStayInOnePlace == Spec => []BlocksInOnePlace
<1>1. IInv => BlocksInOnePlace
  BY DEF IInv
<1> QED BY <1>1, Invariance, PTL

(* entry counts the queue, and the overflow branch after the link in         *)
(* rt_mq_send_wait and rt_mq_urgent is dead code.                            *)
THEOREM EntryAlwaysCounts == Spec => []EntryCounts
<1>1. IInv => EntryCounts
  BY EntryBelowMax DEF IInv, EntryCounts, HandsMatch, Holding
<1> QED BY <1>1, Invariance, PTL

(* The lists of waiting threads hold exactly the threads that wait, once     *)
(* each, and in order of priority for RT_IPC_FLAG_PRIO.                      *)
THEOREM WaitListsStayOrdered == Spec => []WaitListsOrdered
<1>1. IInv => WaitListsOrdered
  BY DEF IInv
<1> QED BY <1>1, Invariance, PTL
-----------------------------------------------------------------------------
(* Wake-ups. As in the mailbox, NoLostWakeup is inductive with IInv; what the  *)
(* waiting senders need is a free block, and blocks are freed by a later      *)
(* critical section than the one that takes the message out.                 *)

(* rt_ipc_list_resume: nobody but t and the thread it resumes moves. *)
LEMMA OneResumed ==
    ASSUME TypeOK, NEW t \in Threads, NEW w \in {"recvwait", "sendwait"}, NEW wake,
           NEW list \in Seq(Threads), ListOrdered(list, w), pc[t] # w,
           ResumeFirst(list, t, "idle", wake)
    PROVE  /\ pc'[t] = "idle"
           /\ \A u \in Threads \ {t} : \/ pc'[u] = pc[u]
                                       \/ pc[u] = w /\ pc'[u] = wake
           /\ list # <<>> => \E u \in Threads : pc[u] = w /\ pc'[u] = wake
           /\ RestOf(list) # <<>> => list # <<>>
<1>1. CASE list = <<>>
  BY <1>1 DEF ResumeFirst, RestOf, TypeOK
<1>2. CASE list # <<>>
  <2> DEFINE u == list[1]
  <2>1. u \in Threads /\ u \in Elements(list)
    BY <1>2 DEF Elements
  <2>2. pc[u] = w /\ u # t
    BY <2>1 DEF ListOrdered
  <2>3. pc' = [pc EXCEPT ![t] = "idle", ![u] = wake]
    BY <1>2 DEF ResumeFirst
  <2> HIDE DEF u
  <2>4. pc'[t] = "idle" /\ pc'[u] = wake
    BY <2>1, <2>2, <2>3 DEF TypeOK
  <2>5. \A v \in Threads \ {t, u} : pc'[v] = pc[v]
    BY <2>1, <2>3 DEF TypeOK
  <2> QED BY <1>2, <2>1, <2>2, <2>4, <2>5
<1> QED BY <1>1, <1>2

Retrying(p) == {t \in Threads : pc[t] = p}

LEMMA ThreadsFinite == IsFiniteSet(Threads)
BY ThreadsAssumption, FS_Union DEF Threads

LEMMA BlocksFinite == IsFiniteSet(Blocks)
<1>1. 1 \in Int /\ max_msgs \in Int
  BY MaxMsgsAssumption
<1>2. IsFiniteSet(1 .. max_msgs)
  BY <1>1, FS_Interval, Zenon
<1> QED BY <1>2 DEF Blocks

LEMMA ThreadCount == ASSUME NEW A \in SUBSET Threads PROVE Cardinality(A) \in Nat
BY ThreadsFinite, FS_Subset, FS_CardinalityType

(* What Link does, its dead branch left out. *)
LEMMA LinkCounts ==
    ASSUME IInv, NEW t \in Threads, Link(t)
    PROVE  /\ pc[t] \in {"link", "urgentlink"}
           /\ msg[t] \in Blocks
           /\ entry < max_msgs
           /\ entry' = entry + 1
           /\ SendReturns(t, TRUE)
           /\ ResumeFirst(suspend_thread, t, "idle", "recvretry")
           /\ suspend_thread' = RestOf(suspend_thread)
           /\ pc'[t] = "idle"
           /\ \A u \in Threads \ {t} : \/ pc'[u] = pc[u]
                                       \/ pc[u] = "recvwait" /\ pc'[u] = "recvretry"
           /\ suspend_thread # <<>>
                 => \E u \in Threads : pc[u] = "recvwait" /\ pc'[u] = "recvretry"
           /\ suspend_thread' # <<>> => suspend_thread # <<>>
<1>1. pc[t] \in {"link", "urgentlink"}
  BY DEF Link
<1>2. msg[t] \in Blocks /\ msg[t] # NoBlock
  BY <1>1 DEF IInv, HandsMatch, Holding, TypeOK
<1>3. entry < max_msgs /\ entry < RT_MQ_ENTRY_MAX
  BY <1>2, EntryBelowMax
<1>4. /\ entry' = entry + 1
      /\ SendReturns(t, TRUE)
      /\ ResumeFirst(suspend_thread, t, "idle", "recvretry")
      /\ suspend_thread' = RestOf(suspend_thread)
  BY <1>3 DEF Link
<1>5. TypeOK /\ suspend_thread \in Seq(Threads) /\ ListOrdered(suspend_thread, "recvwait")
  BY DEF IInv, TypeOK, WaitListsOrdered
<1>6. /\ pc'[t] = "idle"
      /\ \A u \in Threads \ {t} : \/ pc'[u] = pc[u]
                                  \/ pc[u] = "recvwait" /\ pc'[u] = "recvretry"
      /\ suspend_thread # <<>>
            => \E u \in Threads : pc[u] = "recvwait" /\ pc'[u] = "recvretry"
      /\ RestOf(suspend_thread) # <<>> => suspend_thread # <<>>
  BY <1>1, <1>4, <1>5, OneResumed
<1> QED BY <1>1, <1>2, <1>3, <1>4, <1>6

LEMMA LinkKeepsWakeups ==
    ASSUME IInv, NoLostWakeup, NEW t \in Threads, Link(t)
    PROVE  NoLostWakeup'
<1> DEFINE R == Retrying("recvretry")
<1>1. /\ pc[t] \in {"link", "urgentlink"} /\ pc'[t] = "idle"
      /\ entry' = entry + 1
      /\ \A u \in Threads \ {t} : \/ pc'[u] = pc[u]
                                  \/ pc[u] = "recvwait" /\ pc'[u] = "recvretry"
      /\ suspend_thread # <<>>
            => \E u \in Threads : pc[u] = "recvwait" /\ pc'[u] = "recvretry"
      /\ suspend_thread' # <<>> => suspend_thread # <<>>
  BY LinkCounts
<1>2. entry \in Nat /\ UNCHANGED <<suspend_sender_thread, msg_queue_free>>
  BY MaxMsgsAssumption DEF IInv, TypeOK, Link
<1>3. R \in SUBSET Threads /\ R' \in SUBSET Threads
  BY DEF Retrying
<1>4. ASSUME suspend_thread' # <<>> PROVE entry' <= Cardinality(R')
  <2>1. PICK u \in Threads : pc[u] = "recvwait" /\ pc'[u] = "recvretry"
    BY <1>1, <1>4
  <2>2. u \in R' /\ R \subseteq R' \ {u}
    BY <1>1, <2>1 DEF Retrying
  <2> HIDE DEF R
  <2>3. Cardinality(R) \in Nat /\ Cardinality(R') \in Nat /\ Cardinality(R) + 1 <= Cardinality(R')
    BY <1>3, <2>2, ThreadsFinite, CountGainsOne
  <2>4. entry <= Cardinality(R)
    BY <1>1, <1>4 DEF NoLostWakeup, R, Retrying
  <2> QED BY <1>1, <1>2, <2>3, <2>4
<1>5. {u \in Threads : pc'[u] = "sendretry"} = {u \in Threads : pc[u] = "sendretry"}
  BY <1>1
<1> QED BY <1>2, <1>4, <1>5 DEF NoLostWakeup, Retrying

LEMMA UnlinkKeepsWakeups ==
    ASSUME IInv, NoLostWakeup, NEW t \in Threads, Unlink(t)
    PROVE  NoLostWakeup'
<1> DEFINE R == Retrying("recvretry")
<1>1. /\ pc[t] \in {"recv", "recvretry"} /\ pc' = [pc EXCEPT ![t] = "copyout"]
      /\ entry \in Nat /\ entry' = entry - 1
      /\ UNCHANGED <<suspend_thread, suspend_sender_thread, msg_queue_free>>
  BY MaxMsgsAssumption DEF Unlink, listsUnchanged, IInv, TypeOK
<1>2. R \in SUBSET Threads /\ R' \in SUBSET Threads /\ R \subseteq R' \cup {t}
  BY <1>1 DEF Retrying, IInv, TypeOK
<1>3. {u \in Threads : pc'[u] = "sendretry"} = {u \in Threads : pc[u] = "sendretry"}
  BY <1>1 DEF IInv, TypeOK
<1>4. ASSUME suspend_thread' # <<>> PROVE entry' <= Cardinality(R')
  <2> HIDE DEF R
  <2>1. Cardinality(R) \in Nat /\ Cardinality(R') \in Nat /\ Cardinality(R) <= Cardinality(R') + 1
    BY <1>2, ThreadsFinite, CountLosesOne
  <2>2. entry <= Cardinality(R)
    BY <1>1, <1>4 DEF NoLostWakeup, R, Retrying
  <2> QED BY <1>1, <2>1, <2>2
<1> QED BY <1>1, <1>3, <1>4 DEF NoLostWakeup, Retrying

LEMMA TakeKeepsWakeups ==
    ASSUME IInv, NoLostWakeup, NEW t \in Threads, TakeFree(t)
    PROVE  NoLostWakeup'
<1> DEFINE S == Retrying("sendretry")
           F == msg_queue_free
<1>1. PICK b \in F : F' = F \ {b}
  BY DEF TakeFree
<1>2. /\ pc[t] \in {"send", "sendretry", "urgent"}
      /\ \E p \in {"copyin", "urgentcopyin"} : pc' = [pc EXCEPT ![t] = p]
      /\ UNCHANGED <<suspend_thread, suspend_sender_thread, entry>>
  BY DEF TakeFree, listsUnchanged, IInv, TypeOK
<1>3. S \in SUBSET Threads /\ S' \in SUBSET Threads /\ S \subseteq S' \cup {t}
  BY <1>2 DEF Retrying, IInv, TypeOK
<1>4. {u \in Threads : pc'[u] = "recvretry"} = {u \in Threads : pc[u] = "recvretry"}
  BY <1>2 DEF IInv, TypeOK
<1>5. ASSUME suspend_sender_thread' # <<>> PROVE Cardinality(F') <= Cardinality(S')
  <2>0. F \in SUBSET Blocks /\ F' \in SUBSET Blocks /\ b \in F /\ F' \subseteq F \ {b}
    BY <1>1 DEF IInv, TypeOK
  <2>1. Cardinality(F) <= Cardinality(S)
    BY <1>2, <1>5 DEF NoLostWakeup, Retrying
  <2> HIDE DEF S, F
  <2>2. Cardinality(S) \in Nat /\ Cardinality(S') \in Nat /\ Cardinality(S) <= Cardinality(S') + 1
    BY <1>3, ThreadsFinite, CountLosesOne
  <2>3. Cardinality(F) \in Nat /\ Cardinality(F') \in Nat /\ Cardinality(F') + 1 <= Cardinality(F)
    BY <2>0, BlocksFinite, CountGainsOne
  <2> QED BY <2>1, <2>2, <2>3
<1> QED BY <1>2, <1>4, <1>5 DEF NoLostWakeup, Retrying

(* What Release does to the lists. *)
LEMMA ReleaseResumes ==
    ASSUME IInv, NEW t \in Threads, Release(t)
    PROVE  /\ pc[t] = "release" /\ pc'[t] = "idle"
           /\ \A u \in Threads \ {t} : \/ pc'[u] = pc[u]
                                       \/ pc[u] = "sendwait" /\ pc'[u] = "sendretry"
           /\ suspend_sender_thread # <<>>
                 => \E u \in Threads : pc[u] = "sendwait" /\ pc'[u] = "sendretry"
           /\ suspend_sender_thread' # <<>> => suspend_sender_thread # <<>>
<1>1. /\ pc[t] = "release"
      /\ ResumeFirst(suspend_sender_thread, t, "idle", "sendretry")
      /\ suspend_sender_thread' = RestOf(suspend_sender_thread)
  BY DEF Release
<1>2. /\ TypeOK /\ suspend_sender_thread \in Seq(Threads)
      /\ ListOrdered(suspend_sender_thread, "sendwait")
  BY DEF IInv, TypeOK, WaitListsOrdered
<1>3. /\ pc'[t] = "idle"
      /\ \A u \in Threads \ {t} : \/ pc'[u] = pc[u]
                                  \/ pc[u] = "sendwait" /\ pc'[u] = "sendretry"
      /\ suspend_sender_thread # <<>>
            => \E u \in Threads : pc[u] = "sendwait" /\ pc'[u] = "sendretry"
      /\ RestOf(suspend_sender_thread) # <<>> => suspend_sender_thread # <<>>
  BY <1>1, <1>2, OneResumed
<1> QED BY <1>1, <1>3

LEMMA ReleaseKeepsWakeups ==
    ASSUME IInv, NoLostWakeup, NEW t \in Threads, Release(t)
    PROVE  NoLostWakeup'
<1> DEFINE S == Retrying("sendretry")
           F == msg_queue_free
<1>1. /\ pc[t] = "release" /\ pc'[t] = "idle"
      /\ \A u \in Threads \ {t} : \/ pc'[u] = pc[u]
                                  \/ pc[u] = "sendwait" /\ pc'[u] = "sendretry"
      /\ suspend_sender_thread # <<>>
            => \E u \in Threads : pc[u] = "sendwait" /\ pc'[u] = "sendretry"
      /\ suspend_sender_thread' # <<>> => suspend_sender_thread # <<>>
  BY ReleaseResumes
<1>2. /\ F' = F \cup {msg[t]}
      /\ UNCHANGED <<suspend_thread, entry>>
  BY DEF Release
<1>3. S \in SUBSET Threads /\ S' \in SUBSET Threads
  BY DEF Retrying
<1>4. {u \in Threads : pc'[u] = "recvretry"} = {u \in Threads : pc[u] = "recvretry"}
  BY <1>1
<1>5. ASSUME suspend_sender_thread' # <<>> PROVE Cardinality(F') <= Cardinality(S')
  <2>1. PICK u \in Threads : pc[u] = "sendwait" /\ pc'[u] = "sendretry"
    BY <1>1, <1>5
  <2>2. u \in S' /\ S \subseteq S' \ {u}
    BY <1>1, <2>1 DEF Retrying
  <2>3. Cardinality(F) <= Cardinality(S)
    BY <1>1, <1>5 DEF NoLostWakeup, Retrying
  <2>4. F \in SUBSET Blocks /\ F' \in SUBSET Blocks /\ F' \subseteq F \cup {msg[t]}
    BY <1>1, <1>2 DEF IInv, TypeOK, HandsMatch, Holding
  <2> HIDE DEF S, F
  <2>5. Cardinality(S) \in Nat /\ Cardinality(S') \in Nat /\ Cardinality(S) + 1 <= Cardinality(S')
    BY <1>3, <2>2, ThreadsFinite, CountGainsOne
  <2>6. Cardinality(F) \in Nat /\ Cardinality(F') \in Nat /\ Cardinality(F') <= Cardinality(F) + 1
    BY <2>4, BlocksFinite, CountLosesOne
  <2> QED BY <2>3, <2>5, <2>6
<1> QED BY <1>2, <1>4, <1>5 DEF NoLostWakeup, Retrying

(* The other steps leave the queue alone, and end a retry only where there is *)
(* nothing to retry for.                                                     *)
LEMMA QuietStepsKeepWakeups ==
    ASSUME IInv, NoLostWakeup, NEW t \in Threads,
           \/ rt_mq_send_wait(t) \/ rt_mq_urgent(t) \/ rt_mq_recv(t) \/ CopyIn(t) \/ CopyOut(t)
           \/ SendFull(t) \/ SendSuspend(t) \/ RecvEmpty(t) \/ RecvSuspend(t)
           \/ RecvTimeout(t) \/ SendTimeout(t)
    PROVE  NoLostWakeup'
<1>0. entry' = entry /\ msg_queue_free' = msg_queue_free
  BY DEF rt_mq_send_wait, rt_mq_urgent, rt_mq_recv, CopyIn, CopyOut, SendFull, SendSuspend,
         RecvEmpty, RecvSuspend, RecvTimeout, SendTimeout, queueUnchanged
<1>1. CASE rt_mq_send_wait(t) \/ rt_mq_urgent(t) \/ rt_mq_recv(t) \/ CopyIn(t) \/ CopyOut(t)
  <2>1. /\ pc[t] \notin {"recvretry", "sendretry"}
        /\ \E p \in {"send", "urgent", "recv", "link", "urgentlink", "release"} :
              pc' = [pc EXCEPT ![t] = p]
        /\ UNCHANGED listsUnchanged
    BY <1>1 DEF rt_mq_send_wait, rt_mq_urgent, rt_mq_recv, CopyIn, CopyOut, IInv, TypeOK
  <2>2. /\ {u \in Threads : pc'[u] = "recvretry"} = {u \in Threads : pc[u] = "recvretry"}
        /\ {u \in Threads : pc'[u] = "sendretry"} = {u \in Threads : pc[u] = "sendretry"}
    BY <2>1 DEF IInv, TypeOK
  <2> QED BY <1>0, <2>1, <2>2 DEF NoLostWakeup, listsUnchanged
<1>2. CASE SendFull(t) \/ SendSuspend(t)
  <2>1. /\ msg_queue_free = {}
        /\ pc[t] \in {"send", "sendretry", "urgent"}
        /\ \E p \in {"idle", "sendwait"} : pc' = [pc EXCEPT ![t] = p]
        /\ suspend_thread' = suspend_thread
    BY <1>2 DEF SendFull, SendSuspend, listsUnchanged
  <2>2. {u \in Threads : pc'[u] = "recvretry"} = {u \in Threads : pc[u] = "recvretry"}
    BY <2>1 DEF IInv, TypeOK
  <2>3. Cardinality(msg_queue_free') <= Cardinality({u \in Threads : pc'[u] = "sendretry"})
    <3>1. Cardinality(msg_queue_free') = 0
      BY <1>0, <2>1, FS_EmptySet
    <3>2. Cardinality({u \in Threads : pc'[u] = "sendretry"}) \in Nat
      BY ThreadCount
    <3> QED BY <3>1, <3>2
  <2> QED BY <1>0, <2>1, <2>2, <2>3 DEF NoLostWakeup
<1>3. CASE RecvEmpty(t) \/ RecvSuspend(t)
  <2>1. /\ entry = 0
        /\ pc[t] \in {"recv", "recvretry"}
        /\ \E p \in {"idle", "recvwait"} : pc' = [pc EXCEPT ![t] = p]
        /\ suspend_sender_thread' = suspend_sender_thread
    BY <1>3 DEF RecvEmpty, RecvSuspend, listsUnchanged
  <2>2. {u \in Threads : pc'[u] = "sendretry"} = {u \in Threads : pc[u] = "sendretry"}
    BY <2>1 DEF IInv, TypeOK
  <2>3. entry' <= Cardinality({u \in Threads : pc'[u] = "recvretry"})
    <3>1. Cardinality({u \in Threads : pc'[u] = "recvretry"}) \in Nat
      BY ThreadCount
    <3> QED BY <1>0, <2>1, <3>1
  <2> QED BY <1>0, <2>1, <2>2, <2>3 DEF NoLostWakeup
<1>4. CASE RecvTimeout(t) \/ SendTimeout(t)
  <2>1. /\ pc[t] \in {"recvwait", "sendwait"}
        /\ pc' = [pc EXCEPT ![t] = "idle"]
        /\ suspend_thread' # <<>> => suspend_thread # <<>>
        /\ suspend_sender_thread' # <<>> => suspend_sender_thread # <<>>
    <3>1. CASE RecvTimeout(t)
      BY <3>1 DEF RecvTimeout
    <3>2. CASE SendTimeout(t)
      BY <3>2 DEF SendTimeout
    <3> QED BY <1>4, <3>1, <3>2
  <2>2. /\ {u \in Threads : pc'[u] = "recvretry"} = {u \in Threads : pc[u] = "recvretry"}
        /\ {u \in Threads : pc'[u] = "sendretry"} = {u \in Threads : pc[u] = "sendretry"}
    BY <2>1 DEF IInv, TypeOK
  <2> QED BY <1>0, <2>1, <2>2 DEF NoLostWakeup
<1> QED BY <1>1, <1>2, <1>3, <1>4

LEMMA NextWakeups == IInv /\ NoLostWakeup /\ [Next]_vars => NoLostWakeup'
<1> SUFFICES ASSUME IInv, NoLostWakeup, [Next]_vars PROVE NoLostWakeup'
  OBVIOUS
<1>1. CASE UNCHANGED vars
  BY <1>1 DEF vars, NoLostWakeup
<1>2. CASE Reset
  BY <1>2 DEF Reset, NoLostWakeup
<1>3. ASSUME NEW t \in Threads,
             \/ rt_mq_send_wait(t) \/ rt_mq_urgent(t)
             \/ TakeFree(t) \/ SendFull(t) \/ SendSuspend(t) \/ CopyIn(t) \/ Link(t)
             \/ rt_mq_recv(t)
             \/ Unlink(t) \/ RecvEmpty(t) \/ RecvSuspend(t) \/ CopyOut(t) \/ Release(t)
             \/ RecvTimeout(t) \/ SendTimeout(t)
      PROVE  NoLostWakeup'
  BY <1>3, QuietStepsKeepWakeups, TakeKeepsWakeups, LinkKeepsWakeups, UnlinkKeepsWakeups,
     ReleaseKeepsWakeups
<1> QED BY <1>1, <1>2, <1>3 DEF Next

(* For any number of threads, any pool and either flag, no receiver sleeps    *)
(* beside a queued message, and no sender beside a free block, that no        *)
(* resumed thread is about to take: one rt_ipc_list_resume per link and per   *)
(* release is enough, although both calls work in two critical sections.     *)
THEOREM WakeupsNeverLost == Spec => []NoLostWakeup
<1>1. Init => NoLostWakeup
  BY DEF Init, NoLostWakeup
<1> QED BY <1>1, NextWakeups, Invariance, PTL DEF Spec
-----------------------------------------------------------------------------
(* The refinement *)

(* A thread has a message in hand exactly while it is in a call that sends,   *)
(* and from the copy to the link its block holds that message: nothing that  *)
(* other threads do with interrupts enabled comes between.                   *)
OffersHeld == \A t \in Threads : offer[t] # Nothing <=> pc[t] \in SendPCs
CopiesKept == \A t \in Threads : pc[t] \in {"link", "urgentlink"} => data[msg[t]] = offer[t]
CopyInv    == OffersHeld /\ CopiesKept

LEMMA LinkReleaseKeepCopies ==
    ASSUME IInv, CopyInv, NEW t \in Threads, Link(t) \/ Release(t)
    PROVE  CopyInv'
<1>1. /\ data' = data
      /\ \A u \in Threads \ {t} : msg'[u] = msg[u] /\ offer'[u] = offer[u]
      /\ offer'[t] = Nothing
  <2>1. CASE Link(t)
    BY <2>1, LinkCounts DEF Link, SendReturns, IInv, TypeOK
  <2>2. CASE Release(t)
    <3>1. offer[t] = Nothing
      BY <2>2 DEF Release, CopyInv, OffersHeld, SendPCs
    <3> QED BY <2>2, <3>1 DEF Release, IInv, TypeOK
  <2> QED BY <2>1, <2>2
<1>2. /\ pc'[t] = "idle"
      /\ \A u \in Threads \ {t} : \/ pc'[u] = pc[u]
                                  \/ pc[u] = "recvwait" /\ pc'[u] = "recvretry"
                                  \/ pc[u] = "sendwait" /\ pc'[u] = "sendretry"
  BY LinkCounts, ReleaseResumes
<1>3. OffersHeld'
  BY <1>1, <1>2 DEF CopyInv, OffersHeld, SendPCs
<1>4. CopiesKept'
  BY <1>1, <1>2 DEF CopyInv, CopiesKept
<1> QED BY <1>3, <1>4 DEF CopyInv

LEMMA CopyInKeepsCopies ==
    ASSUME IInv, CopyInv, NEW t \in Threads, CopyIn(t)
    PROVE  CopyInv'
<1>1. /\ pc[t] \in {"copyin", "urgentcopyin"}
      /\ pc' = [pc EXCEPT ![t] = IF @ = "copyin" THEN "link" ELSE "urgentlink"]
      /\ data' = [data EXCEPT ![msg[t]] = offer[t]]
      /\ msg' = msg /\ offer' = offer
  BY DEF CopyIn
<1>2. msg[t] \in Blocks /\ msg[t] # NoBlock
  BY <1>1 DEF IInv, HandsMatch, Holding, TypeOK
<1>3. OffersHeld'
  BY <1>1 DEF CopyInv, OffersHeld, SendPCs, IInv, TypeOK
<1>4. ASSUME NEW u \in Threads, pc'[u] \in {"link", "urgentlink"}
      PROVE  data'[msg'[u]] = offer'[u]
  <2>1. CASE u = t
    BY <1>1, <1>2, <2>1 DEF IInv, TypeOK
  <2>2. CASE u # t
    <3>1. pc[u] \in {"link", "urgentlink"}
      BY <1>1, <1>4, <2>2 DEF IInv, TypeOK
    <3>2. msg[u] # msg[t]
      BY <1>2, <2>2 DEF IInv, BlocksInOnePlace, HeldOnce
    <3>3. msg[u] \in Blocks
      BY <3>1 DEF IInv, HandsMatch, Holding, TypeOK
    <3> QED BY <1>1, <3>1, <3>2, <3>3 DEF CopyInv, CopiesKept, IInv, TypeOK
  <2> QED BY <2>1, <2>2
<1> QED BY <1>3, <1>4 DEF CopyInv, CopiesKept

LEMMA OthersKeepCopies ==
    ASSUME IInv, CopyInv, NEW t \in Threads,
           \/ rt_mq_send_wait(t) \/ rt_mq_urgent(t) \/ TakeFree(t) \/ SendFull(t)
           \/ SendSuspend(t) \/ rt_mq_recv(t) \/ Unlink(t) \/ RecvEmpty(t) \/ RecvSuspend(t)
           \/ CopyOut(t) \/ RecvTimeout(t) \/ SendTimeout(t)
    PROVE  CopyInv'
<1>1. /\ data' = data
      /\ pc[t] \notin {"link", "urgentlink", "copyin", "urgentcopyin", "release"}
      /\ \E p \in ({"idle"} \cup SendPCs \cup RecvPCs) \ {"link", "urgentlink"} :
            pc' = [pc EXCEPT ![t] = p]
      /\ \A u \in Threads \ {t} : msg'[u] = msg[u] /\ offer'[u] = offer[u]
  <2> USE DEF queueUnchanged, SendReturns, IInv, TypeOK, SendPCs, RecvPCs
  <2>1. CASE rt_mq_send_wait(t) \/ rt_mq_urgent(t) \/ rt_mq_recv(t)
    BY <2>1 DEF rt_mq_send_wait, rt_mq_urgent, rt_mq_recv
  <2>2. CASE TakeFree(t)
    BY <2>2 DEF TakeFree
  <2>3. CASE SendFull(t) \/ SendSuspend(t) \/ SendTimeout(t)
    BY <2>3 DEF SendFull, SendSuspend, SendTimeout
  <2>4. CASE Unlink(t) \/ CopyOut(t)
    BY <2>4 DEF Unlink, CopyOut
  <2>5. CASE RecvEmpty(t) \/ RecvSuspend(t) \/ RecvTimeout(t)
    BY <2>5 DEF RecvEmpty, RecvSuspend, RecvTimeout
  <2> QED BY <2>1, <2>2, <2>3, <2>4, <2>5
<1>2. offer'[t] # Nothing <=> pc'[t] \in SendPCs
  <2>0. offer[t] # Nothing <=> pc[t] \in SendPCs
    BY DEF CopyInv, OffersHeld
  <2> USE DEF IInv, TypeOK, SendPCs
  <2>1. CASE rt_mq_send_wait(t) \/ rt_mq_urgent(t)
    BY <2>1, NothingAssumption DEF rt_mq_send_wait, rt_mq_urgent
  <2>2. CASE TakeFree(t) \/ SendSuspend(t)
    BY <2>0, <2>2 DEF TakeFree, SendSuspend
  <2>3. CASE SendFull(t) \/ SendTimeout(t)
    BY <2>3 DEF SendFull, SendTimeout, SendReturns
  <2>4. CASE rt_mq_recv(t) \/ Unlink(t) \/ CopyOut(t)
    BY <2>0, <2>4 DEF rt_mq_recv, Unlink, CopyOut
  <2>5. CASE RecvEmpty(t) \/ RecvSuspend(t) \/ RecvTimeout(t)
    BY <2>0, <2>5 DEF RecvEmpty, RecvSuspend, RecvTimeout
  <2> QED BY <2>1, <2>2, <2>3, <2>4, <2>5
<1>3. \A u \in Threads \ {t} : pc'[u] = pc[u]
  BY <1>1 DEF IInv, TypeOK
<1>4. pc'[t] \notin {"link", "urgentlink"}
  BY <1>1 DEF IInv, TypeOK
<1>5. OffersHeld'
  BY <1>1, <1>2, <1>3 DEF CopyInv, OffersHeld
<1>6. CopiesKept'
  BY <1>1, <1>3, <1>4 DEF CopyInv, CopiesKept
<1> QED BY <1>5, <1>6 DEF CopyInv

LEMMA NextCopies == IInv /\ CopyInv /\ [Next]_vars => CopyInv'
<1> SUFFICES ASSUME IInv, CopyInv, [Next]_vars PROVE CopyInv'
  OBVIOUS
<1>1. CASE UNCHANGED vars
  BY <1>1 DEF vars, CopyInv, OffersHeld, CopiesKept
<1>2. CASE Reset
  BY <1>2 DEF Reset, CopyInv, OffersHeld, CopiesKept, SendPCs
<1>3. ASSUME NEW t \in Threads,
             \/ rt_mq_send_wait(t) \/ rt_mq_urgent(t)
             \/ TakeFree(t) \/ SendFull(t) \/ SendSuspend(t) \/ CopyIn(t) \/ Link(t)
             \/ rt_mq_recv(t)
             \/ Unlink(t) \/ RecvEmpty(t) \/ RecvSuspend(t) \/ CopyOut(t) \/ Release(t)
             \/ RecvTimeout(t) \/ SendTimeout(t)
      PROVE  CopyInv'
  BY <1>3, LinkReleaseKeepCopies, CopyInKeepsCopies, OthersKeepCopies
<1> QED BY <1>1, <1>2, <1>3 DEF Next

LEMMA CopiesInvariant == Spec => []CopyInv
<1>1. Init => CopyInv
  BY DEF Init, CopyInv, OffersHeld, CopiesKept, SendPCs
<1> QED BY <1>1, NextCopies, Invariance, PTL DEF Spec

(* The messages in the queue as a sequence. *)
LEMMA QueuedSeq ==
    ASSUME IInv
    PROVE  /\ Queued \in Seq(Messages \cup {Nothing})
           /\ Len(Queued) = Len(msg_queue) /\ Len(msg_queue) \in Nat
           /\ \A i \in 1 .. Len(msg_queue) : Queued[i] = data[msg_queue[i]]
<1>1. Len(msg_queue) \in Nat /\ \A i \in 1 .. Len(msg_queue) : msg_queue[i] \in Blocks
  BY DEF IInv, TypeOK
<1>2. \A i \in 1 .. Len(msg_queue) : data[msg_queue[i]] \in Messages \cup {Nothing}
  BY <1>1 DEF IInv, TypeOK
<1> QED BY <1>1, <1>2 DEF Queued

(* A link puts the message at the tail, or at the head for rt_mq_urgent ... *)
LEMMA LinkPuts ==
    ASSUME IInv, CopyInv, NEW t \in Threads, Link(t)
    PROVE  Queued' = IF IsUrgent[t] THEN <<offer[t]>> \o Queued ELSE Append(Queued, offer[t])
<1> DEFINE n == Len(msg_queue)
           M == Messages \cup {Nothing}
<1>1. /\ pc[t] \in {"link", "urgentlink"} /\ msg[t] \in Blocks /\ data' = data
      /\ data[msg[t]] = offer[t] /\ offer[t] \in M
  BY LinkCounts DEF Link, CopyInv, CopiesKept, IInv, TypeOK
<1>2. Queued \in Seq(M) /\ Len(Queued) = n /\ n \in Nat
      /\ \A i \in 1 .. n : Queued[i] = data[msg_queue[i]]
  BY QueuedSeq
<1>3. Queued' = [i \in 1 .. Len(msg_queue') |-> data[msg_queue'[i]]]
  BY <1>1 DEF Queued
<1>4. msg_queue \in Seq(Blocks)
  BY DEF IInv, TypeOK
<1>5. CASE pc[t] = "link"
  <2>1. msg_queue' = Append(msg_queue, msg[t]) /\ IsUrgent[t] = FALSE
    <3>1. msg_queue' = Append(msg_queue, msg[t])
      BY <1>5 DEF Link
    <3>2. IsUrgent[t] = FALSE
      BY <1>5 DEF IsUrgent
    <3> QED BY <3>1, <3>2
  <2>2. /\ Len(msg_queue') = n + 1
        /\ \A i \in 1 .. n + 1 : msg_queue'[i] = IF i <= n THEN msg_queue[i] ELSE msg[t]
    BY <1>1, <1>4, <2>1
  <2>3. Queued' = [i \in 1 .. n + 1 |-> IF i <= n THEN Queued[i] ELSE offer[t]]
    <3>1. ASSUME NEW i \in 1 .. n + 1
          PROVE  data[msg_queue'[i]] = IF i <= n THEN Queued[i] ELSE offer[t]
      BY <1>1, <1>2, <2>2
    <3> HIDE DEF n
    <3> QED BY <1>3, <2>2, <3>1
  <2> HIDE DEF n, Queued
  <2>4. Append(Queued, offer[t]) = [i \in 1 .. n + 1 |-> IF i <= n THEN Queued[i] ELSE offer[t]]
    BY <1>1, <1>2
  <2> QED BY <2>1, <2>3, <2>4
<1>6. CASE pc[t] = "urgentlink"
  <2>1. msg_queue' = <<msg[t]>> \o msg_queue /\ IsUrgent[t] = TRUE
    <3>1. msg_queue' = <<msg[t]>> \o msg_queue
      BY <1>6 DEF Link
    <3>2. IsUrgent[t] = TRUE
      BY <1>6 DEF IsUrgent
    <3> QED BY <3>1, <3>2
  <2>2. /\ Len(msg_queue') = n + 1
        /\ \A i \in 1 .. n + 1 : msg_queue'[i] = IF i = 1 THEN msg[t] ELSE msg_queue[i - 1]
    BY <1>1, <1>4, <2>1
  <2>3. Queued' = [i \in 1 .. n + 1 |-> IF i = 1 THEN offer[t] ELSE Queued[i - 1]]
    <3>1. ASSUME NEW i \in 1 .. n + 1
          PROVE  data[msg_queue'[i]] = IF i = 1 THEN offer[t] ELSE Queued[i - 1]
      <4>1. CASE i = 1
        BY <1>1, <2>2, <4>1
      <4>2. CASE i # 1
        <5>1. i - 1 \in 1 .. n
          BY <1>2, <4>2
        <5> QED BY <1>2, <2>2, <4>2, <5>1
      <4> QED BY <4>1, <4>2
    <3> HIDE DEF n
    <3> QED BY <1>3, <2>2, <3>1
  <2> HIDE DEF n, Queued
  <2>4. <<offer[t]>> \o Queued = [i \in 1 .. n + 1 |-> IF i = 1 THEN offer[t] ELSE Queued[i - 1]]
    BY <1>1, <1>2
  <2> QED BY <2>1, <2>3, <2>4
<1> QED BY <1>1, <1>5, <1>6

(* ... and an unlink takes the first one out. *)
LEMMA UnlinkTakes ==
    ASSUME IInv, NEW t \in Threads, Unlink(t)
    PROVE  /\ Queued # <<>>
           /\ Queued' = Tail(Queued)
           /\ Head(Queued) = data[Head(msg_queue)]
<1> DEFINE n == Len(msg_queue)
           M == Messages \cup {Nothing}
<1>1. /\ msg_queue \in Seq(Blocks) /\ n \in Nat \ {0} /\ data' = data
      /\ msg_queue' = Tail(msg_queue)
  BY MaxMsgsAssumption DEF Unlink, IInv, TypeOK
<1>2. Queued \in Seq(M) /\ Len(Queued) = n
      /\ \A i \in 1 .. n : Queued[i] = data[msg_queue[i]]
  BY QueuedSeq
<1>3. Queued' = [i \in 1 .. Len(msg_queue') |-> data[msg_queue'[i]]]
  BY <1>1 DEF Queued
<1>4. /\ Len(msg_queue') = n - 1
      /\ \A i \in 1 .. n - 1 : msg_queue'[i] = msg_queue[i + 1] /\ i + 1 \in 1 .. n
      /\ Head(msg_queue) = msg_queue[1]
  BY <1>1
<1> HIDE DEF Queued
<1>5. Queued # <<>> /\ Head(Queued) = Queued[1] /\ 1 \in 1 .. n
  BY <1>1, <1>2
<1>6. /\ Tail(Queued) \in Seq(M)
      /\ Len(Tail(Queued)) = n - 1
      /\ \A i \in 1 .. n - 1 : Tail(Queued)[i] = Queued[i + 1]
  BY <1>1, <1>2, <1>5
<1> DEFINE rest == [i \in 1 .. n - 1 |-> Queued[i + 1]]
<1>7. Queued' = rest
  <2>1. \A i \in 1 .. n - 1 : data[msg_queue'[i]] = Queued[i + 1]
    BY <1>2, <1>4
  <2> QED BY <1>3, <1>4, <2>1
<1>8. /\ rest \in Seq(M)
      /\ Len(rest) = n - 1
      /\ \A i \in 1 .. n - 1 : rest[i] = Queued[i + 1]
  BY <1>1, <1>2
<1> HIDE DEF rest, n
<1>9. rest = Tail(Queued)
  BY <1>6, <1>8, SeqEqual
<1> QED BY <1>2, <1>4, <1>5, <1>7, <1>9

LEMMA InitPromise == Init => Promise!Init
<1> SUFFICES ASSUME Init PROVE Promise!Init
  OBVIOUS
<1>1. Queued = <<>>
  <2>1. Len(msg_queue) = 0
    BY DEF Init
  <2>2. Queued = [i \in 1 .. 0 |-> data[msg_queue[i]]]
    BY <2>1 DEF Queued
  <2> QED BY <2>2
<1>2. IsUrgent = [t \in Threads |-> FALSE]
  BY DEF Init, IsUrgent
<1>3. Received = [t \in Threads |-> Nothing]
  BY DEF Init, Received
<1> QED BY <1>1, <1>2, <1>3 DEF Init, Promise!Init

(* What stays the same when the queue, the blocks in it and what the          *)
(* receivers have in hand stay the same.                                     *)
LEMMA OutsideUnchanged ==
    ASSUME IInv, msg_queue' = msg_queue, data' = data,
           \A u \in Threads : /\ pc'[u] = "copyout" <=> pc[u] = "copyout"
                              /\ pc[u] = "copyout" => msg'[u] = msg[u],
           buffer' = buffer
    PROVE  Queued' = Queued /\ Received' = Received
BY DEF Queued, Received

(* A call that begins hands a message over, or asks for one. *)
LEMMA CallsKeepPromise ==
    ASSUME IInv, CopyInv, NEW t \in Threads,
           rt_mq_send_wait(t) \/ rt_mq_urgent(t) \/ rt_mq_recv(t)
    PROVE  [Promise!Next]_(Promise!queueVars)
<1>1. /\ pc[t] = "idle" /\ offer[t] = Nothing
      /\ \E p \in {"send", "urgent", "recv"} : pc' = [pc EXCEPT ![t] = p]
      /\ UNCHANGED <<queueUnchanged, accepted, buffer>>
  BY DEF CopyInv, OffersHeld, SendPCs, rt_mq_send_wait, rt_mq_urgent, rt_mq_recv
<1>2. Queued' = Queued /\ Received' = Received
  BY <1>1, OutsideUnchanged DEF queueUnchanged, IInv, TypeOK
<1>3. CASE rt_mq_recv(t)
  <2>1. offer' = offer /\ IsUrgent' = IsUrgent
    BY <1>3 DEF rt_mq_recv, IsUrgent, IInv, TypeOK
  <2> QED BY <1>1, <1>2, <2>1 DEF Promise!queueVars
<1>4. CASE rt_mq_send_wait(t) \/ rt_mq_urgent(t)
  <2>1. \E m \in Messages : offer' = [offer EXCEPT ![t] = m]
    BY <1>4 DEF rt_mq_send_wait, rt_mq_urgent
  <2>2. \E u \in BOOLEAN : IsUrgent' = [IsUrgent EXCEPT ![t] = u]
    <3>1. PICK p \in {"send", "urgent"} : pc' = [pc EXCEPT ![t] = p]
      BY <1>4 DEF rt_mq_send_wait, rt_mq_urgent
    <3>2. IsUrgent' = [IsUrgent EXCEPT ![t] = (p = "urgent")]
      BY <3>1 DEF IsUrgent, IInv, TypeOK
    <3> QED BY <3>2
  <2>3. Promise!Offer(t)
    BY <1>1, <1>2, <2>1, <2>2 DEF Promise!Offer
  <2> QED BY <2>3 DEF Promise!Next
<1> QED BY <1>3, <1>4

(* A send that fails is a refusal. *)
LEMMA RefusalsKeepPromise ==
    ASSUME IInv, CopyInv, NEW t \in Threads, SendFull(t) \/ SendTimeout(t)
    PROVE  [Promise!Next]_(Promise!queueVars)
<1>1. /\ pc[t] \in {"send", "sendretry", "urgent", "sendwait"}
      /\ pc' = [pc EXCEPT ![t] = "idle"]
      /\ SendReturns(t, FALSE)
      /\ UNCHANGED <<queueUnchanged, buffer>>
  BY DEF SendFull, SendTimeout
<1>2. Queued' = Queued /\ Received' = Received
  BY <1>1, OutsideUnchanged DEF queueUnchanged, IInv, TypeOK
<1>3. IsUrgent' = [IsUrgent EXCEPT ![t] = FALSE]
  BY <1>1 DEF IsUrgent, IInv, TypeOK
<1>4. offer[t] # Nothing
  BY <1>1 DEF CopyInv, OffersHeld, SendPCs
<1>5. Promise!Refuse(t)
  BY <1>1, <1>2, <1>3, <1>4 DEF SendReturns, Promise!Refuse, Promise!Done
<1> QED BY <1>5 DEF Promise!Next

(* Steps that can not be seen from outside: taking a block, waiting, giving   *)
(* up an empty queue.                                                        *)
LEMMA QuietStepsKeepPromise ==
    ASSUME IInv, NEW t \in Threads,
           \/ TakeFree(t) \/ SendSuspend(t) \/ RecvEmpty(t) \/ RecvSuspend(t) \/ RecvTimeout(t)
    PROVE  UNCHANGED Promise!queueVars
<1>1. /\ pc[t] \notin {"copyout", "urgentcopyin", "urgentlink"}
      /\ \E p \in {"copyin", "urgentcopyin", "sendwait", "recvwait", "idle"} :
            /\ pc' = [pc EXCEPT ![t] = p]
            /\ p = "urgentcopyin" <=> pc[t] = "urgent"
      /\ \A u \in Threads \ {t} : msg'[u] = msg[u]
      /\ UNCHANGED <<msg_queue, data, offer, accepted, buffer>>
  <2> USE DEF IInv, TypeOK
  <2>1. CASE TakeFree(t)
    BY <2>1 DEF TakeFree
  <2>2. CASE SendSuspend(t) \/ RecvEmpty(t) \/ RecvSuspend(t) \/ RecvTimeout(t)
    BY <2>2 DEF SendSuspend, RecvEmpty, RecvSuspend, RecvTimeout, queueUnchanged
  <2> QED BY <2>1, <2>2
<1>2. Queued' = Queued /\ Received' = Received
  BY <1>1, OutsideUnchanged DEF IInv, TypeOK
<1>3. IsUrgent' = IsUrgent
  BY <1>1 DEF IsUrgent, IInv, TypeOK
<1> QED BY <1>1, <1>2, <1>3 DEF Promise!queueVars

(* The copies, made with interrupts enabled, can not be seen: the block they  *)
(* write is in no queue and in no other hand, and the one they read stays.   *)
LEMMA CopiesKeepPromise ==
    ASSUME IInv, NEW t \in Threads, CopyIn(t) \/ CopyOut(t)
    PROVE  UNCHANGED Promise!queueVars
<1>1. CASE CopyIn(t)
  <2>1. /\ pc[t] \in {"copyin", "urgentcopyin"}
        /\ pc' = [pc EXCEPT ![t] = IF @ = "copyin" THEN "link" ELSE "urgentlink"]
        /\ data' = [data EXCEPT ![msg[t]] = offer[t]]
        /\ UNCHANGED <<msg_queue, msg, offer, accepted, buffer>>
    BY <1>1 DEF CopyIn
  <2>2. msg[t] \in Blocks /\ msg[t] # NoBlock
    BY <2>1 DEF IInv, HandsMatch, Holding, TypeOK
  <2>3. \A i \in 1 .. Len(msg_queue) : data'[msg_queue[i]] = data[msg_queue[i]]
    <3>1. \A i \in 1 .. Len(msg_queue) : msg_queue[i] \in Blocks /\ msg_queue[i] # msg[t]
      BY DEF IInv, TypeOK, BlocksInOnePlace, QueuedNotHeld, Elements
    <3> QED BY <2>1, <3>1 DEF IInv, TypeOK
  <2>4. Queued' = Queued
    BY <2>1, <2>3 DEF Queued
  <2>5. \A u \in Threads : pc[u] = "copyout" => data'[msg[u]] = data[msg[u]]
    <3> SUFFICES ASSUME NEW u \in Threads, pc[u] = "copyout" PROVE data'[msg[u]] = data[msg[u]]
      OBVIOUS
    <3>1. u # t /\ msg[u] # msg[t]
      BY <2>1, <2>2 DEF IInv, BlocksInOnePlace, HeldOnce
    <3>2. msg[u] \in Blocks
      BY DEF IInv, HandsMatch, Holding, TypeOK
    <3> QED BY <2>1, <3>1, <3>2 DEF IInv, TypeOK
  <2>6. Received' = Received
    <3>1. \A u \in Threads : pc'[u] = "copyout" <=> pc[u] = "copyout"
      BY <2>1 DEF IInv, TypeOK
    <3> QED BY <2>1, <2>5, <3>1 DEF Received
  <2>7. IsUrgent' = IsUrgent
    BY <2>1 DEF IsUrgent, IInv, TypeOK
  <2> QED BY <2>1, <2>4, <2>6, <2>7 DEF Promise!queueVars
<1>2. CASE CopyOut(t)
  <2>1. /\ pc[t] = "copyout" /\ pc' = [pc EXCEPT ![t] = "release"]
        /\ buffer' = [buffer EXCEPT ![t] = data[msg[t]]]
        /\ UNCHANGED <<queueUnchanged, offer, accepted>>
    BY <1>2 DEF CopyOut
  <2>2. Queued' = Queued
    BY <2>1 DEF Queued, queueUnchanged
  <2>3. Received' = Received
    BY <2>1 DEF Received, queueUnchanged, IInv, TypeOK
  <2>4. IsUrgent' = IsUrgent
    BY <2>1 DEF IsUrgent, IInv, TypeOK
  <2> QED BY <2>1, <2>2, <2>3, <2>4 DEF Promise!queueVars
<1> QED BY <1>1, <1>2

(* A link puts a message into the queue. *)
LEMMA LinkKeepsPromise ==
    ASSUME IInv, CopyInv, NEW t \in Threads, Link(t)
    PROVE  Promise!Put(t)
<1>1. /\ pc[t] \in {"link", "urgentlink"} /\ pc'[t] = "idle"
      /\ entry < max_msgs
      /\ SendReturns(t, TRUE)
      /\ \A u \in Threads \ {t} : \/ pc'[u] = pc[u]
                                  \/ pc[u] = "recvwait" /\ pc'[u] = "recvretry"
  BY LinkCounts
<1>2. /\ data' = data /\ buffer' = buffer
      /\ \A u \in Threads \ {t} : msg'[u] = msg[u]
  BY DEF Link, IInv, TypeOK
<1>3. IsUrgent' = [IsUrgent EXCEPT ![t] = FALSE]
  BY <1>1 DEF IsUrgent
<1>4. Received' = Received
  <2>1. \A u \in Threads : pc'[u] = "copyout" <=> pc[u] = "copyout"
    BY <1>1
  <2> QED BY <1>1, <1>2, <2>1 DEF Received
<1>5. offer[t] # Nothing
  BY <1>1 DEF CopyInv, OffersHeld, SendPCs
<1>6. Len(Queued) < max_msgs
  BY <1>1, QueuedSeq DEF IInv
<1> QED BY <1>1, <1>3, <1>4, <1>5, <1>6, LinkPuts DEF SendReturns, Promise!Put, Promise!Done

(* An unlink takes one out. *)
LEMMA UnlinkKeepsPromise ==
    ASSUME IInv, NEW t \in Threads, Unlink(t)
    PROVE  Promise!Get(t)
<1>1. /\ pc[t] \in {"recv", "recvretry"} /\ pc' = [pc EXCEPT ![t] = "copyout"]
      /\ msg' = [msg EXCEPT ![t] = Head(msg_queue)]
      /\ UNCHANGED <<data, offer, accepted, buffer>>
  BY DEF Unlink
<1>2. IsUrgent' = IsUrgent
  BY <1>1 DEF IsUrgent, IInv, TypeOK
<1>3. Received' = [Received EXCEPT ![t] = data[Head(msg_queue)]]
  <2> DEFINE b == Head(msg_queue)
  <2>1. msg' = [msg EXCEPT ![t] = b]
    BY <1>1
  <2> HIDE DEF b
  <2>2. Received' = [Received EXCEPT ![t] = data[b]]
    BY <1>1, <2>1 DEF Received, IInv, TypeOK
  <2> QED BY <2>2 DEF b
<1> QED BY <1>1, <1>2, <1>3, UnlinkTakes DEF Promise!Get

(* A release can not be seen. *)
LEMMA ReleaseKeepsPromise ==
    ASSUME IInv, NEW t \in Threads, Release(t)
    PROVE  UNCHANGED Promise!queueVars
<1>1. /\ pc[t] = "release" /\ pc'[t] = "idle"
      /\ \A u \in Threads \ {t} : \/ pc'[u] = pc[u]
                                  \/ pc[u] = "sendwait" /\ pc'[u] = "sendretry"
  BY ReleaseResumes
<1>2. /\ UNCHANGED <<msg_queue, data, offer, accepted, buffer>>
      /\ \A u \in Threads \ {t} : msg'[u] = msg[u]
  BY DEF Release, IInv, TypeOK
<1>3. Queued' = Queued /\ Received' = Received
  BY <1>1, <1>2, OutsideUnchanged
<1>4. IsUrgent' = IsUrgent
  BY <1>1 DEF IsUrgent
<1> QED BY <1>2, <1>3, <1>4 DEF Promise!queueVars

(* A reset throws the messages away and refuses what waiting senders offer. *)
LEMMA ResetKeepsPromise ==
    ASSUME IInv, CopyInv, Reset
    PROVE  Promise!Clear
<1> DEFINE refused == {t \in Threads : pc[t] = "sendwait"}
<1>1. Queued' = <<>>
  <2>1. Len(msg_queue') = 0
    BY DEF Reset
  <2>2. Queued' = [i \in 1 .. 0 |-> data'[msg_queue'[i]]]
    BY <2>1 DEF Queued
  <2> QED BY <2>2
<1>2. refused \in SUBSET {t \in Threads : offer[t] # Nothing /\ ~IsUrgent[t]}
  BY DEF CopyInv, OffersHeld, SendPCs, IsUrgent
<1>3. /\ offer' = [t \in Threads |-> IF t \in refused THEN Nothing ELSE offer[t]]
      /\ accepted' = [t \in Threads |-> IF t \in refused THEN FALSE ELSE accepted[t]]
  BY DEF Reset
<1>4. IsUrgent' = IsUrgent /\ Received' = Received
  BY DEF Reset, IsUrgent, Received
<1> QED BY <1>1, <1>2, <1>3, <1>4 DEF Promise!Clear

(* Every step is a step of EventQueue, or changes nothing it can see. *)
LEMMA NextPromise == IInv /\ CopyInv /\ [Next]_vars => [Promise!Next]_(Promise!queueVars)
<1> SUFFICES ASSUME IInv, CopyInv, [Next]_vars PROVE [Promise!Next]_(Promise!queueVars)
  OBVIOUS
<1>1. CASE UNCHANGED vars
  BY <1>1 DEF vars, Promise!queueVars, Queued, IsUrgent, Received
<1>2. CASE Reset
  BY <1>2, ResetKeepsPromise DEF Promise!Next
<1>3. ASSUME NEW t \in Threads, Link(t) \/ Unlink(t)
      PROVE  [Promise!Next]_(Promise!queueVars)
  BY <1>3, LinkKeepsPromise, UnlinkKeepsPromise DEF Promise!Next
<1>4. ASSUME NEW t \in Threads,
             \/ TakeFree(t) \/ SendSuspend(t) \/ RecvEmpty(t) \/ RecvSuspend(t) \/ RecvTimeout(t)
             \/ CopyIn(t) \/ CopyOut(t) \/ Release(t)
      PROVE  [Promise!Next]_(Promise!queueVars)
  BY <1>4, QuietStepsKeepPromise, CopiesKeepPromise, ReleaseKeepsPromise
<1>5. ASSUME NEW t \in Threads,
             \/ rt_mq_send_wait(t) \/ rt_mq_urgent(t) \/ rt_mq_recv(t)
             \/ SendFull(t) \/ SendTimeout(t)
      PROVE  [Promise!Next]_(Promise!queueVars)
  BY <1>5, CallsKeepPromise, RefusalsKeepPromise
<1> QED BY <1>1, <1>2, <1>3, <1>4, <1>5 DEF Next

(* For any number of threads, any messages, priorities and pool, the message  *)
(* queue implements EventQueue: what rt_mq_send_wait or rt_mq_urgent accepted *)
(* is received once, whole and in order, although both sides copy with the    *)
(* interrupts enabled and timeouts and resets may come at any moment.        *)
THEOREM QueueKeepsPromise == Spec => KeepsPromise
<1> QED BY InitPromise, NextPromise, Invariance, CopiesInvariant, PTL
       DEF Spec, KeepsPromise, Promise!Spec
==============================================================================
