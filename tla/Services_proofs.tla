--------------------------- MODULE Services_proofs ----------------------------
(***************************************************************************)
(* Proofs about the semaphore and about what threads reach through one: the   *)
(* input of the console, the command line of the shell that reads it, and    *)
(* the heap. The lemmas name the assumptions on constants that they need;    *)
(* the theorems rest on those of the modules.                                *)
(***************************************************************************)
EXTENDS Semaphore, Console, ShellLine, Heap, WaitList_proofs, FiniteSetTheorems, SequenceTheorems

-----------------------------------------------------------------------------
(* The semaphore, for any finite set of threads, priorities, first value and  *)
(* limit.                                                                    *)

(* A thread begins to wait with RT_EOK: only what ends the wait sets an error. *)
WaitsWithoutError == \A t \in Threads : pc[t] = "wait" => error[t] = "EOK"

(* The inductive invariant. A release counts the thread it resumes among the  *)
(* granted ones because its error is RT_EOK and it has not been granted yet,  *)
(* which the contents of the list say.                                       *)
IInv ==
    /\ TypeOK
    /\ PermitsConserved
    /\ NoLostWakeup
    /\ WaitsWithoutError

(* One thread more, or one less, that was given a permit. *)
LEMMA GrantedCount ==
    ASSUME IInv
    PROVE  /\ IsFiniteSet(Granted)
           /\ Cardinality(Granted) \in Nat
           /\ \A t \in Threads \ Granted : Cardinality(Granted \cup {t}) = Cardinality(Granted) + 1
           /\ \A t \in Granted : Cardinality(Granted \ {t}) = Cardinality(Granted) - 1
<1>1. Granted \subseteq Threads
  BY DEF Granted
<1>2. IsFiniteSet(Granted)
  BY <1>1, ThreadsAssumption, FS_Subset
<1>3. Cardinality(Granted) \in Nat
  BY <1>2, FS_CardinalityType
<1>4. ASSUME NEW t \in Threads \ Granted
      PROVE  Cardinality(Granted \cup {t}) = Cardinality(Granted) + 1
  BY <1>2, FS_AddElement
<1>5. ASSUME NEW t \in Granted
      PROVE  Cardinality(Granted \ {t}) = Cardinality(Granted) - 1
  BY <1>2, FS_RemoveElement
<1> QED BY <1>2, <1>3, <1>4, <1>5

LEMMA InitIInv == Init => IInv
<1> SUFFICES ASSUME Init PROVE IInv
  OBVIOUS
<1>1. TypeOK
  BY ValueAssumption DEF Init, TypeOK
<1>2. PermitsConserved
  <2>1. Granted = {}
    BY DEF Init, Granted
  <2> QED BY <2>1, FS_EmptySet, ValueAssumption DEF Init, PermitsConserved
<1>3. NoLostWakeup
  BY DEF Init, NoLostWakeup, Elements, Once, InPriorityOrder
<1>4. WaitsWithoutError
  BY DEF Init, WaitsWithoutError
<1> QED BY <1>1, <1>2, <1>3, <1>4 DEF IInv

LEMMA TakeStep == ASSUME IInv, NEW t \in Threads, Take(t) PROVE IInv'
<1> USE DEF IInv
<1>1. value \in Nat /\ value > 0 /\ value' = value - 1 /\ Granted' = Granted
  BY ValueAssumption DEF Take, TypeOK, Granted
<1>2. TypeOK'
  BY <1>1, ValueAssumption DEF Take, TypeOK
<1>3. PermitsConserved'
  BY <1>1, GrantedCount DEF Take, PermitsConserved
<1>4. NoLostWakeup' /\ WaitsWithoutError'
  BY <1>1 DEF Take, NoLostWakeup, WaitsWithoutError
<1> QED BY <1>2, <1>3, <1>4

LEMMA TakeWaitStep ==
    ASSUME IInv, NEW t \in Threads, NEW time, TakeWait(t, time)
    PROVE  IInv'
<1> USE DEF IInv
<1>1. PICK k \in 1 .. Len(suspend_thread) + 1 :
          /\ Place(suspend_thread, t, k)
          /\ suspend_thread' = InsertedAt(suspend_thread, k, t)
  BY DEF TakeWait
<1>2. /\ pc[t] = "run" /\ pc' = [pc EXCEPT ![t] = "wait"]
      /\ error' = [error EXCEPT ![t] = "EOK"]
      /\ value = 0
      /\ UNCHANGED <<value, detach, permits>>
  BY DEF TakeWait
<1>3. t \notin Elements(suspend_thread)
  BY <1>2 DEF NoLostWakeup
<1>4. /\ suspend_thread' \in Seq(Threads)
      /\ Elements(suspend_thread') = Elements(suspend_thread) \cup {t}
      /\ Once(suspend_thread')
  BY <1>1, <1>3, InsertedOnce DEF TypeOK, NoLostWakeup
<1>5. ASSUME Flag = "PRIO" PROVE InPriorityOrder(suspend_thread', Priority)
  <2>1. PrioSlot(suspend_thread, Priority, t, k)
    BY <1>1, <1>5 DEF Place
  <2> QED BY <1>1, <1>5, <2>1, InsertedInOrder, PriorityAssumption DEF TypeOK, NoLostWakeup
<1>6. TypeOK'
  BY <1>2, <1>4 DEF TypeOK, TakeWait
<1>7. PermitsConserved'
  <2>1. Granted' = Granted
    BY <1>2 DEF TypeOK, Granted
  <2> QED BY <1>2, <2>1 DEF PermitsConserved
<1>8. NoLostWakeup'
  <2>1. Elements(suspend_thread') = {u \in Threads : pc'[u] = "wait"}
    BY <1>2, <1>4 DEF TypeOK, NoLostWakeup
  <2> QED BY <1>2, <1>4, <1>5, <2>1 DEF NoLostWakeup
<1>9. WaitsWithoutError'
  BY <1>2 DEF TypeOK, WaitsWithoutError
<1> QED BY <1>6, <1>7, <1>8, <1>9

LEMMA TakeReturnsStep == ASSUME IInv, NEW t \in Threads, TakeReturns(t) PROVE IInv'
<1> USE DEF IInv
<1>1. /\ pc[t] = "resumed" /\ pc' = [pc EXCEPT ![t] = "run"]
      /\ permits' = IF error[t] = "EOK" THEN permits - 1 ELSE permits
      /\ UNCHANGED <<value, suspend_thread, error, timed, detach>>
  BY DEF TakeReturns
<1>2. TypeOK'
  BY <1>1 DEF TypeOK
<1>3. NoLostWakeup' /\ WaitsWithoutError'
  BY <1>1 DEF TypeOK, NoLostWakeup, WaitsWithoutError
<1>4. PermitsConserved'
  <2>0. value \in Nat
    BY ValueAssumption DEF TypeOK
  <2>1. CASE error[t] = "EOK"
    <3>1. t \in Granted /\ Granted' = Granted \ {t}
      BY <1>1, <2>1 DEF TypeOK, Granted
    <3>2. Cardinality(Granted') = Cardinality(Granted) - 1
      BY <3>1, GrantedCount
    <3> QED BY <1>1, <2>0, <2>1, <3>2, GrantedCount DEF PermitsConserved
  <2>2. CASE error[t] # "EOK"
    <3>1. Granted' = Granted
      BY <1>1, <2>2 DEF TypeOK, Granted
    <3> QED BY <1>1, <2>2, <3>1 DEF PermitsConserved
  <2> QED BY <2>1, <2>2
<1> QED BY <1>2, <1>3, <1>4

LEMMA TimeoutStep == ASSUME IInv, NEW t \in Threads, rt_thread_timeout(t) PROVE IInv'
<1> USE DEF IInv
<1>1. /\ pc[t] = "wait" /\ pc' = [pc EXCEPT ![t] = "resumed"]
      /\ error' = [error EXCEPT ![t] = "ETIMEOUT"]
      /\ suspend_thread' = Removed(suspend_thread, t)
      /\ timed' = timed \ {t}
      /\ UNCHANGED <<value, detach, permits>>
  BY DEF rt_thread_timeout
<1>2. /\ suspend_thread' \in Seq(Threads)
      /\ Elements(suspend_thread') = Elements(suspend_thread) \ {t}
      /\ Once(suspend_thread')
  BY <1>1, RemovedOnce DEF TypeOK, NoLostWakeup
<1>3. Flag = "PRIO" => InPriorityOrder(suspend_thread', Priority)
  BY <1>1, RemovedInOrder, PriorityAssumption DEF TypeOK, NoLostWakeup
<1>4. TypeOK'
  BY <1>1, <1>2 DEF TypeOK
<1>5. PermitsConserved'
  <2>1. Granted' = Granted
    BY <1>1 DEF TypeOK, Granted
  <2> QED BY <1>1, <2>1 DEF PermitsConserved
<1>6. NoLostWakeup'
  <2>1. Elements(suspend_thread') = {u \in Threads : pc'[u] = "wait"}
    BY <1>1, <1>2 DEF TypeOK, NoLostWakeup
  <2>2. value' > 0 => suspend_thread' = <<>>
    <3>1. t \in Elements(suspend_thread)
      BY <1>1 DEF NoLostWakeup
    <3>2. suspend_thread # <<>>
      BY <3>1 DEF Elements
    <3> QED BY <1>1, <3>2 DEF NoLostWakeup
  <2> QED BY <1>2, <1>3, <2>1, <2>2 DEF NoLostWakeup
<1>7. WaitsWithoutError'
  BY <1>1 DEF TypeOK, WaitsWithoutError
<1> QED BY <1>4, <1>5, <1>6, <1>7

(* The first thread of the list becomes ready, by a release or a detach. *)
LEMMA FirstResumed ==
    ASSUME IInv, suspend_thread # <<>>, suspend_thread' = Tail(suspend_thread),
           pc' = [pc EXCEPT ![Head(suspend_thread)] = "resumed"],
           timed' = timed \ {Head(suspend_thread)},
           value' = value
    PROVE  /\ Head(suspend_thread) \in Threads /\ pc[Head(suspend_thread)] = "wait"
           /\ suspend_thread' \in Seq(Threads)
           /\ pc' \in [Threads -> {"run", "wait", "resumed"}]
           /\ NoLostWakeup'
<1> USE DEF IInv
<1> DEFINE u == Head(suspend_thread)
<1>1. /\ Tail(suspend_thread) \in Seq(Threads)
      /\ u \in Threads /\ u \in Elements(suspend_thread)
      /\ Elements(Tail(suspend_thread)) = Elements(suspend_thread) \ {u}
      /\ Once(Tail(suspend_thread))
  BY TailOnce DEF TypeOK, NoLostWakeup
<1>2. Flag = "PRIO" => InPriorityOrder(Tail(suspend_thread), Priority)
  BY TailInOrder, PriorityAssumption DEF TypeOK, NoLostWakeup
<1>3. pc[u] = "wait"
  BY <1>1 DEF NoLostWakeup
<1> HIDE DEF u
<1>4. pc' \in [Threads -> {"run", "wait", "resumed"}]
  BY <1>1 DEF TypeOK, u
<1>5. Elements(suspend_thread') = {v \in Threads : pc'[v] = "wait"}
  BY <1>1, <1>3 DEF TypeOK, NoLostWakeup, u
<1>6. ~(value' > 0)
  BY DEF NoLostWakeup
<1> QED BY <1>1, <1>2, <1>3, <1>4, <1>5, <1>6 DEF NoLostWakeup, u

LEMMA ReleaseStep == ASSUME IInv, rt_sem_release PROVE IInv'
<1> USE DEF IInv
<1>1. CASE ReleaseTo
  <2> DEFINE u == Head(suspend_thread)
  <2>1. /\ suspend_thread # <<>> /\ suspend_thread' = Tail(suspend_thread)
        /\ pc' = [pc EXCEPT ![u] = "resumed"] /\ timed' = timed \ {u}
        /\ permits' = permits + 1
        /\ UNCHANGED <<value, error, detach>>
    BY <1>1 DEF ReleaseTo
  <2>2. /\ u \in Threads /\ pc[u] = "wait"
        /\ suspend_thread' \in Seq(Threads)
        /\ pc' \in [Threads -> {"run", "wait", "resumed"}]
        /\ NoLostWakeup'
    BY <2>1, FirstResumed
  <2> HIDE DEF u
  <2>3. TypeOK'
    BY <2>1, <2>2 DEF TypeOK
  <2>4. PermitsConserved'
    <3>1. u \in Threads \ Granted /\ Granted' = Granted \cup {u}
      BY <2>1, <2>2 DEF TypeOK, Granted, WaitsWithoutError
    <3>2. Cardinality(Granted') = Cardinality(Granted) + 1
      BY <3>1, GrantedCount
    <3>3. value \in Nat
      BY ValueAssumption DEF TypeOK
    <3> QED BY <2>1, <3>2, <3>3, GrantedCount DEF PermitsConserved
  <2>5. WaitsWithoutError'
    BY <2>1, <2>2 DEF TypeOK, WaitsWithoutError
  <2> QED BY <2>2, <2>3, <2>4, <2>5
<1>2. CASE ReleaseCount
  <2>1. value \in Nat /\ value' \in 0 .. RT_SEM_VALUE_MAX /\ Granted' = Granted
    BY <1>2, ValueAssumption DEF ReleaseCount, TypeOK, Granted
  <2>2. TypeOK' /\ WaitsWithoutError'
    BY <1>2, <2>1 DEF ReleaseCount, TypeOK, WaitsWithoutError
  <2>3. PermitsConserved'
    BY <1>2, <2>1, GrantedCount DEF ReleaseCount, PermitsConserved
  <2>4. NoLostWakeup'
    BY <1>2 DEF ReleaseCount, NoLostWakeup
  <2> QED BY <2>2, <2>3, <2>4
<1>3. CASE ReleaseFull
  BY <1>3 DEF ReleaseFull, vars, TypeOK, PermitsConserved, Granted, NoLostWakeup,
              WaitsWithoutError
<1> QED BY <1>1, <1>2, <1>3 DEF rt_sem_release

LEMMA ResetStep == ASSUME IInv, Reset PROVE IInv'
<1> USE DEF IInv
<1>1. /\ error' = [t \in Threads |-> IF pc[t] = "wait" THEN "ERROR" ELSE error[t]]
      /\ pc' = [t \in Threads |-> IF pc[t] = "wait" THEN "resumed" ELSE pc[t]]
      /\ timed' = {} /\ suspend_thread' = <<>> /\ detach' = detach
  BY DEF Reset, ResumeAll
<1>2. PICK v \in 0 .. RT_SEM_VALUE_MAX : value' = v /\ permits' = v + Cardinality(Granted)
  BY DEF Reset
<1>3. Granted' = Granted
  BY <1>1 DEF TypeOK, Granted
<1>4. TypeOK'
  <2>1. permits' \in Int
    BY <1>2, GrantedCount, ValueAssumption
  <2> QED BY <1>1, <1>2, <2>1 DEF TypeOK
<1>5. PermitsConserved'
  BY <1>2, <1>3 DEF PermitsConserved
<1>6. \A t \in Threads : pc'[t] # "wait"
  BY <1>1
<1>7. NoLostWakeup'
  BY <1>1, <1>6 DEF NoLostWakeup, Elements, Once, InPriorityOrder
<1>8. WaitsWithoutError'
  BY <1>6 DEF WaitsWithoutError
<1> QED BY <1>4, <1>5, <1>7, <1>8

LEMMA DetachSteps ==
    ASSUME IInv,
           rt_sem_detach \/ DetachLooks \/ DetachResumes \/ DetachFindsNone \/ DetachObject
    PROVE  IInv'
<1> USE DEF IInv
<1>1. CASE DetachResumes
  <2> DEFINE u == Head(suspend_thread)
  <2>1. /\ suspend_thread # <<>> /\ suspend_thread' = Tail(suspend_thread)
        /\ pc' = [pc EXCEPT ![u] = "resumed"] /\ timed' = timed \ {u}
        /\ error' = [error EXCEPT ![u] = "ERROR"]
        /\ detach' = "look"
        /\ UNCHANGED <<value, permits>>
    BY <1>1 DEF DetachResumes
  <2>2. /\ u \in Threads /\ pc[u] = "wait"
        /\ suspend_thread' \in Seq(Threads)
        /\ pc' \in [Threads -> {"run", "wait", "resumed"}]
        /\ NoLostWakeup'
    BY <2>1, FirstResumed
  <2> HIDE DEF u
  <2>3. TypeOK'
    BY <2>1, <2>2 DEF TypeOK
  <2>4. PermitsConserved'
    <3>1. Granted' = Granted
      BY <2>1, <2>2 DEF TypeOK, Granted
    <3> QED BY <2>1, <3>1 DEF PermitsConserved
  <2>5. WaitsWithoutError'
    BY <2>1, <2>2 DEF TypeOK, WaitsWithoutError
  <2> QED BY <2>2, <2>3, <2>4, <2>5
<1>2. CASE rt_sem_detach \/ DetachLooks \/ DetachFindsNone \/ DetachObject
  <2>1. /\ UNCHANGED <<value, suspend_thread, error, pc, timed, permits>>
        /\ detach' \in {"look", "resume", "object", "done", "halted"}
    BY <1>2 DEF rt_sem_detach, DetachLooks, DetachFindsNone, DetachObject
  <2> QED BY <2>1 DEF TypeOK, PermitsConserved, Granted, NoLostWakeup, WaitsWithoutError
<1> QED BY <1>1, <1>2

LEMMA NextIInv == IInv /\ [Next]_vars => IInv'
<1> SUFFICES ASSUME IInv, [Next]_vars PROVE IInv'
  OBVIOUS
<1>1. CASE UNCHANGED vars
  BY <1>1 DEF vars, IInv, TypeOK, PermitsConserved, Granted, NoLostWakeup, WaitsWithoutError
<1>2. ASSUME NEW t \in Threads,
             \/ Take(t) \/ TakeReturns(t) \/ rt_thread_timeout(t)
             \/ \E time \in {"ticks", "forever"} : TakeWait(t, time)
      PROVE  IInv'
  BY <1>2, TakeStep, TakeReturnsStep, TimeoutStep, TakeWaitStep
<1> QED BY <1>1, <1>2, ReleaseStep, ResetStep, DetachSteps DEF Next

(* The invariant holds in every reachable state. *)
THEOREM Invariance == Spec => []IInv
<1> QED BY InitIInv, NextIInv, PTL DEF Spec

(* For any number of threads and any limit, a permit is never lost or made up *)
(* when rt_sem_release, rt_thread_timeout, rt_sem_control and rt_sem_detach   *)
(* meet.                                                                     *)
THEOREM PermitsAlwaysConserved == Spec => []PermitsConserved
<1>1. IInv => PermitsConserved
  BY DEF IInv
<1> QED BY <1>1, Invariance, PTL

(* For any number of threads, priorities and either flag, no thread waits     *)
(* while rt_sem_release has left a permit, and the list holds the waiting     *)
(* threads once each and in the order of the flag.                           *)
THEOREM WakeupsNeverLost == Spec => []NoLostWakeup
<1>1. IInv => NoLostWakeup
  BY DEF IInv
<1> QED BY <1>1, Invariance, PTL

(* value stays within its 16 bits and every other variable within its type. *)
THEOREM SemaphoreTypes == Spec => []TypeOK
<1>1. IInv => TypeOK
  BY DEF IInv
<1> QED BY <1>1, Invariance, PTL

-----------------------------------------------------------------------------
(* The input of the console, for a ring of any size and any number of         *)
(* characters.                                                               *)

(* The characters in the order in which they were sent. *)
Ascending ==
    /\ \A i, j \in 1 .. Len(kept) : i < j => kept[i] < kept[j]
    /\ \A i \in 1 .. Len(kept) : kept[i] <= sent
    /\ rxne => DATAR <= sent /\ \A i \in 1 .. Len(kept) : kept[i] < DATAR

FullRing == is_full => Step(put_index) = get_index

(* Where the shell waits, if it does. *)
ShellWaits ==
    /\ sem_detach = "no" /\ sem_error[Shell] = "EOK"
    /\ sem_pc[Shell] = "wait" <=> sem_suspend_thread # <<>>
    /\ Len(sem_suspend_thread) <= 1
    /\ sem_pc[Shell] # "run" => at = "take"

(* The place of the i-th character of the ring. *)
Slot(g, i) == IF g + i < bufsz THEN g + i ELSE g + i - bufsz

Ring(buf, g, n, list) ==
    /\ n \in 0 .. bufsz - 1 /\ n <= Len(list)
    /\ \A i \in 0 .. n - 1 : buf[Slot(g, i)] = list[Len(list) - n + 1 + i]

LEMMA SlotIs ==
    ASSUME BufferAssumption, NEW g \in Index, NEW i \in 0 .. bufsz - 1
    PROVE  (g + i) % bufsz = Slot(g, i) /\ Slot(g, i) \in Index
BY DEF BufferAssumption, Index, Slot

LEMMA RingFacts ==
    ASSUME BufferAssumption, ConsoleTypeOK, FullRing
    PROVE  Count = Length /\ Length \in 0 .. bufsz - 1 /\ (Empty <=> Length = 0)
BY DEF BufferAssumption, ConsoleTypeOK, FullRing, Count, Length, Empty, Index, Step

LEMMA RingSays ==
    ASSUME BufferAssumption, ConsoleTypeOK, FullRing
    PROVE  RingHoldsNewest <=>
              /\ Ring(buffer, get_index, Length, kept)
              /\ Length < bufsz - 1 => \A i \in 1 .. Len(kept) - Length : kept[i] <= ch
<1>1. Count = Length /\ Length \in 0 .. bufsz - 1
  BY RingFacts
<1>2. \A i \in 0 .. Length - 1 : i \in 0 .. bufsz - 1
  BY <1>1 DEF BufferAssumption
<1>3. get_index \in Index
  BY DEF ConsoleTypeOK
<1>4. \A i \in 0 .. Length - 1 : (get_index + i) % bufsz = Slot(get_index, i)
  BY <1>2, <1>3, SlotIs
<1> HIDE DEF Length, Slot
<1> QED BY <1>1, <1>4 DEF RingHoldsNewest, Ring

(* A character more: the ring is one longer, or loses its oldest. *)
LEMMA PutKeepsRing ==
    ASSUME BufferAssumption, ConsoleTypeOK, FullRing, Put, Ring(buffer, get_index, Length, kept),
           kept' = Append(kept, DATAR)
    PROVE  /\ buffer' \in [Index -> Chars]
           /\ put_index' \in Index /\ get_index' \in Index /\ is_full' \in BOOLEAN
           /\ FullRing'
           /\ Length' = IF Length < bufsz - 1 THEN Length + 1 ELSE Length
           /\ Ring(buffer', get_index', Length', kept')
<1>0. /\ bufsz \in Nat /\ bufsz >= 2 /\ put_index \in 0 .. bufsz - 1 /\ get_index \in 0 .. bufsz - 1
      /\ buffer \in [Index -> Chars] /\ DATAR \in Chars /\ kept \in Seq(Chars)
  BY DEF BufferAssumption, ConsoleTypeOK, Index
<1>1. /\ buffer' = [buffer EXCEPT ![put_index] = DATAR]
      /\ put_index' = Step(put_index)
      /\ IF put_index' = get_index
         THEN get_index' = Step(get_index) /\ is_full' = TRUE
         ELSE get_index' = get_index /\ is_full' = is_full
  BY DEF Put
<1>2. put_index' \in 0 .. bufsz - 1 /\ get_index' \in 0 .. bufsz - 1
  BY <1>0, <1>1 DEF Step
<1>3. buffer' \in [Index -> Chars] /\ is_full' \in BOOLEAN
  BY <1>0, <1>1 DEF Index, ConsoleTypeOK
<1>4. FullRing' /\ Length' = IF Length < bufsz - 1 THEN Length + 1 ELSE Length
  <2>1. CASE put_index' = get_index
    BY <1>0, <1>1, <2>1 DEF FullRing, Length, Step
  <2>2. CASE put_index' # get_index
    BY <1>0, <1>1, <2>2 DEF FullRing, Length, Step
  <2> QED BY <2>1, <2>2
<1>5. /\ Len(kept) \in Nat /\ Len(kept') = Len(kept) + 1 /\ kept'[Len(kept) + 1] = DATAR
      /\ \A i \in 1 .. Len(kept) : kept'[i] = kept[i]
  BY <1>0
<1>6. /\ Length \in 0 .. bufsz - 1 /\ Length <= Len(kept)
      /\ \A i \in 0 .. Length - 1 : buffer[Slot(get_index, i)] = kept[Len(kept) - Length + 1 + i]
  BY DEF Ring
<1>7. /\ buffer'[put_index] = DATAR
      /\ \A k \in 0 .. bufsz - 1 : k # put_index => buffer'[k] = buffer[k]
  BY <1>0, <1>1 DEF Index
<1>8. ASSUME NEW i \in 0 .. Length' - 1
      PROVE  buffer'[Slot(get_index', i)] = kept'[Len(kept') - Length' + 1 + i]
  <2>1. CASE Length < bufsz - 1
    <3>1. Length' = Length + 1 /\ get_index' = get_index
      BY <1>0, <1>1, <1>4, <1>6, <2>1 DEF Length, Step
    <3>2. CASE i = Length
      <4>1. Slot(get_index, i) = put_index
        BY <1>0, <3>2, <2>1 DEF Slot, Length
      <4>2. Len(kept') - Length' + 1 + i = Len(kept) + 1
        BY <1>5, <1>6, <3>1, <3>2
      <4> QED BY <1>5, <1>7, <3>1, <4>1, <4>2
    <3>3. CASE i # Length
      <4>1. i \in 0 .. Length - 1
        BY <1>6, <3>1, <3>3
      <4>2. Slot(get_index, i) \in 0 .. bufsz - 1 /\ Slot(get_index, i) # put_index
        BY <1>0, <4>1 DEF Slot, Length
      <4>3. /\ Len(kept') - Length' + 1 + i = Len(kept) - Length + 1 + i
            /\ Len(kept) - Length + 1 + i \in 1 .. Len(kept)
        <5>1. /\ Len(kept) \in Nat /\ Len(kept') = Len(kept) + 1 /\ Length \in Nat
              /\ Length <= Len(kept) /\ Length' = Length + 1 /\ i \in Nat /\ i < Length
          BY <1>0, <1>5, <1>6, <3>1, <4>1
        <5> HIDE DEF Length
        <5> QED BY <5>1
      <4> QED BY <1>5, <1>6, <1>7, <3>1, <4>1, <4>2, <4>3
    <3> QED BY <3>2, <3>3
  <2>2. CASE ~(Length < bufsz - 1)
    <3>1. Length' = Length /\ Length = bufsz - 1 /\ get_index' = Step(get_index)
      BY <1>0, <1>1, <1>4, <1>6, <2>2 DEF Length, Step
    <3>2. CASE i = Length - 1
      <4>1. Slot(get_index', i) = put_index
        BY <1>0, <3>1, <3>2 DEF Slot, Length, Step
      <4>2. Len(kept') - Length' + 1 + i = Len(kept) + 1
        BY <1>5, <1>6, <3>1, <3>2
      <4> QED BY <1>5, <1>7, <3>1, <4>1, <4>2
    <3>3. CASE i # Length - 1
      <4>1. i + 1 \in 0 .. Length - 1
        BY <1>0, <1>6, <3>1, <3>3
      <4>2. Slot(get_index', i) = Slot(get_index, i + 1)
        BY <1>0, <3>1, <4>1 DEF Slot, Step
      <4>3. Slot(get_index, i + 1) \in 0 .. bufsz - 1 /\ Slot(get_index, i + 1) # put_index
        BY <1>0, <4>1 DEF Slot, Length
      <4>4. /\ Len(kept') - Length' + 1 + i = Len(kept) - Length + 1 + (i + 1)
            /\ Len(kept) - Length + 1 + (i + 1) \in 1 .. Len(kept)
        <5>1. /\ Len(kept') = Len(kept) + 1 /\ Length' = Length /\ Len(kept) \in Nat
              /\ Length \in Nat /\ Length <= Len(kept) /\ i \in Int
          BY <1>5, <1>6, <3>1
        <5>2. 0 <= i + 1 /\ i + 1 <= Length - 1
          BY <4>1, <5>1
        <5> HIDE DEF Length
        <5> QED BY <5>1, <5>2
      <4>5. buffer[Slot(get_index, i + 1)] = kept[Len(kept) - Length + 1 + (i + 1)]
        BY <1>6, <4>1
      <4> QED BY <1>5, <1>7, <4>2, <4>3, <4>4, <4>5
    <3> QED BY <3>2, <3>3
  <2> QED BY <2>1, <2>2
<1>9. Length' \in 0 .. bufsz - 1 /\ Length' <= Len(kept')
  BY <1>0, <1>4, <1>5, <1>6
<1> QED BY <1>2, <1>3, <1>4, <1>8, <1>9 DEF Ring, Index

(* A character less. *)
LEMMA ReadKeepsRing ==
    ASSUME BufferAssumption, ConsoleTypeOK, FullRing, ~Empty, Ring(buffer, get_index, Length, kept),
           ch' = buffer[get_index], get_index' = Step(get_index), is_full' = FALSE,
           put_index' = put_index, buffer' = buffer, kept' = kept
    PROVE  /\ get_index' \in Index /\ FullRing'
           /\ Length \in Nat /\ Length >= 1 /\ Length' = Length - 1
           /\ Len(kept) - Length + 1 \in 1 .. Len(kept)
           /\ ch' = kept[Len(kept) - Length + 1]
           /\ Ring(buffer', get_index', Length', kept')
<1>0. /\ bufsz \in Nat /\ bufsz >= 2 /\ put_index \in 0 .. bufsz - 1 /\ get_index \in 0 .. bufsz - 1
      /\ kept \in Seq(Chars) /\ Len(kept) \in Nat
  BY DEF BufferAssumption, ConsoleTypeOK, Index
<1>1. get_index' \in Index /\ FullRing'
  BY <1>0 DEF Step, Index, FullRing
<1>2. Length \in 0 .. bufsz - 1 /\ Length # 0
  BY RingFacts
<1>3. Length' = Length - 1
  BY <1>0, <1>2 DEF Length, Step
<1>4. /\ Length <= Len(kept)
      /\ \A i \in 0 .. Length - 1 : buffer[Slot(get_index, i)] = kept[Len(kept) - Length + 1 + i]
  BY DEF Ring
<1>5. ch' = kept[Len(kept) - Length + 1]
  <2>1. Slot(get_index, 0) = get_index
    BY <1>0 DEF Slot
  <2>2. 0 \in 0 .. Length - 1 /\ Len(kept) - Length + 1 + 0 = Len(kept) - Length + 1
    BY <1>0, <1>2
  <2>3. buffer[Slot(get_index, 0)] = kept[Len(kept) - Length + 1 + 0]
    BY <1>4, <2>2
  <2> QED BY <2>1, <2>2, <2>3
<1>6. ASSUME NEW i \in 0 .. Length' - 1
      PROVE  buffer'[Slot(get_index', i)] = kept'[Len(kept') - Length' + 1 + i]
  <2>1. i + 1 \in 0 .. Length - 1
    BY <1>2, <1>3
  <2>2. Slot(get_index', i) = Slot(get_index, i + 1)
    BY <1>0, <1>2, <2>1 DEF Slot, Step
  <2>3. Len(kept') - Length' + 1 + i = Len(kept) - Length + 1 + (i + 1)
    BY <1>0, <1>2, <1>3
  <2> QED BY <1>4, <2>1, <2>2, <2>3
<1>7. Length' \in 0 .. bufsz - 1 /\ Length' <= Len(kept')
  BY <1>0, <1>2, <1>3, <1>4
<1>8. Length \in Nat /\ Length >= 1 /\ Len(kept) - Length + 1 \in 1 .. Len(kept)
  BY <1>0, <1>2, <1>4
<1> QED BY <1>1, <1>3, <1>5, <1>6, <1>7, <1>8 DEF Ring

-----------------------------------------------------------------------------
(* The semaphore *)

LEMMA ReleaseWakes ==
    ASSUME CharsAssumption, rx_sem!TypeOK, ShellWaits, rx_sem!rt_sem_release, at' = at
    PROVE  /\ rx_sem!TypeOK' /\ ShellWaits'
           /\ sem_pc'[Shell] # "wait"
           /\ sem_value' > 0 \/ sem_pc'[Shell] = "resumed"
<1>0. /\ sem_value \in 0 .. SemValueMax /\ sem_suspend_thread \in Seq({Shell})
      /\ sem_error \in [{Shell} -> {"EOK", "ETIMEOUT", "ERROR"}]
      /\ sem_pc \in [{Shell} -> {"run", "wait", "resumed"}] /\ sem_timed \subseteq {Shell}
      /\ sem_detach = "no" /\ sem_permits \in Int
      /\ SemValueMax \in Nat /\ SemValueMax > 0
  BY DEF rx_sem!TypeOK, ShellWaits, CharsAssumption
<1>1. CASE rx_sem!ReleaseTo
  <2>1. /\ sem_suspend_thread # <<>> /\ Len(sem_suspend_thread) = 1
        /\ Head(sem_suspend_thread) = Shell /\ Tail(sem_suspend_thread) = <<>>
    <3>1. sem_suspend_thread # <<>> /\ Len(sem_suspend_thread) <= 1
      BY <1>1 DEF rx_sem!ReleaseTo, ShellWaits
    <3>2. Len(sem_suspend_thread) \in Nat \ {0}
      BY <1>0, <3>1, EmptySeq
    <3>3. Len(sem_suspend_thread) = 1
      <4> DEFINE n == Len(sem_suspend_thread)
      <4>1. n \in Nat /\ n # 0 /\ n <= 1
        BY <3>1, <3>2
      <4> HIDE DEF n
      <4>2. n = 1
        BY <4>1
      <4> QED BY <4>2 DEF n
    <3>4. Head(sem_suspend_thread) = Shell
      <4>1. Head(sem_suspend_thread) \in {Shell}
        BY <1>0, <3>1, HeadTailProperties
      <4> QED BY <4>1
    <3>5. Tail(sem_suspend_thread) \in Seq({Shell}) /\ Len(Tail(sem_suspend_thread)) = 0
      BY <1>0, <3>1, <3>3
    <3> QED BY <3>1, <3>3, <3>4, <3>5, EmptySeq
  <2>2. /\ sem_pc' = [sem_pc EXCEPT ![Shell] = "resumed"] /\ sem_timed' = sem_timed \ {Shell}
        /\ sem_suspend_thread' = <<>> /\ sem_permits' = sem_permits + 1
        /\ sem_value' = sem_value /\ sem_error' = sem_error /\ sem_detach' = sem_detach
    BY <1>1, <2>1 DEF rx_sem!ReleaseTo
  <2>3. sem_pc'[Shell] = "resumed" /\ sem_pc[Shell] = "wait"
    BY <1>0, <2>1, <2>2 DEF ShellWaits
  <2>4. rx_sem!TypeOK'
    BY <1>0, <2>2 DEF rx_sem!TypeOK
  <2>5. ShellWaits'
    BY <1>0, <2>2, <2>3 DEF ShellWaits
  <2> QED BY <2>3, <2>4, <2>5
<1>2. CASE rx_sem!ReleaseCount
  <2>1. rx_sem!TypeOK' /\ ShellWaits'
    BY <1>0, <1>2 DEF rx_sem!ReleaseCount, rx_sem!TypeOK, ShellWaits
  <2>2. sem_value' > 0 /\ sem_pc'[Shell] # "wait"
    BY <1>0, <1>2 DEF rx_sem!ReleaseCount, ShellWaits
  <2> QED BY <2>1, <2>2
<1>3. CASE rx_sem!ReleaseFull
  <2>1. rx_sem!TypeOK' /\ ShellWaits'
    BY <1>0, <1>3 DEF rx_sem!ReleaseFull, rx_sem!vars, rx_sem!TypeOK, ShellWaits
  <2>2. sem_value' > 0 /\ sem_pc'[Shell] # "wait"
    BY <1>0, <1>3 DEF rx_sem!ReleaseFull, rx_sem!vars, ShellWaits
  <2> QED BY <2>1, <2>2
<1> QED BY <1>1, <1>2, <1>3 DEF rx_sem!rt_sem_release

LEMMA TakeKeeps ==
    ASSUME CharsAssumption, rx_sem!TypeOK, ShellWaits, rx_sem!Take(Shell)
    PROVE  /\ rx_sem!TypeOK'
           /\ ShellWaits'
           /\ sem_pc'[Shell] = "run"
BY DEF CharsAssumption, rx_sem!TypeOK, rx_sem!Take, ShellWaits

LEMMA TakeWaits ==
    ASSUME CharsAssumption, rx_sem!TypeOK, ShellWaits, at = "take", at' = at,
           rx_sem!TakeWait(Shell, "forever")
    PROVE  rx_sem!TypeOK' /\ ShellWaits' /\ sem_value = 0 /\ sem_value' = 0
<1>0. /\ sem_value \in 0 .. SemValueMax /\ sem_suspend_thread = <<>>
      /\ sem_error \in [{Shell} -> {"EOK", "ETIMEOUT", "ERROR"}]
      /\ sem_pc \in [{Shell} -> {"run", "wait", "resumed"}] /\ sem_timed \subseteq {Shell}
      /\ sem_detach = "no" /\ sem_permits \in Int
  BY DEF rx_sem!TypeOK, ShellWaits, rx_sem!TakeWait
<1>1. PICK k \in 1 .. Len(sem_suspend_thread) + 1 :
          /\ rx_sem!Place(sem_suspend_thread, Shell, k)
          /\ sem_suspend_thread' = rx_sem!InsertedAt(sem_suspend_thread, k, Shell)
  BY DEF rx_sem!TakeWait
<1>2. k = 1
  BY <1>0, <1>1
<1>3. sem_suspend_thread' = [i \in 1 .. 1 |-> Shell]
  BY <1>0, <1>1, <1>2 DEF rx_sem!InsertedAt
<1>4. /\ sem_suspend_thread' \in Seq({Shell}) /\ Len(sem_suspend_thread') = 1
      /\ sem_suspend_thread' # <<>>
  BY <1>3
<1>5. /\ sem_value = 0 /\ sem_value' = sem_value /\ sem_detach' = sem_detach /\ sem_permits' = sem_permits /\ sem_timed' = sem_timed
      /\ sem_error' = [sem_error EXCEPT ![Shell] = "EOK"]
      /\ sem_pc' = [sem_pc EXCEPT ![Shell] = "wait"]
  BY DEF rx_sem!TakeWait
<1>6. rx_sem!TypeOK'
  BY <1>0, <1>4, <1>5 DEF rx_sem!TypeOK
<1>7. ShellWaits'
  BY <1>0, <1>4, <1>5 DEF ShellWaits
<1> QED BY <1>5, <1>6, <1>7

LEMMA TakeReturnsKeeps ==
    ASSUME rx_sem!TypeOK, ShellWaits, rx_sem!TakeReturns(Shell)
    PROVE  rx_sem!TypeOK' /\ ShellWaits' /\ sem_pc'[Shell] = "run"
BY DEF rx_sem!TypeOK, rx_sem!TakeReturns, ShellWaits


-----------------------------------------------------------------------------
(* The inductive invariant, in the terms of the lemmas above *)

(* What was overwritten or read is not newer than what the shell has. *)
ReadUpTo == Length < bufsz - 1 => \A i \in 1 .. Len(kept) - Length : kept[i] <= ch

Awake == isr \in {"off", "clear"} /\ Length > 0 =>
            /\ sem_pc[Shell] # "wait"
            /\ at = "take" => sem_value > 0 \/ sem_pc[Shell] = "resumed"

RingInv == Ring(buffer, get_index, Length, kept) /\ ReadUpTo

(* The inductive invariant. *)
ConsoleInv == ConsoleTypeOK /\ FullRing /\ RingInv /\ Ascending /\ ShellWaits /\ Awake

LEMMA ConsoleInvSays ==
    ASSUME BufferAssumption, ConsoleInv
    PROVE  RingHoldsNewest /\ NoSleepOnInput
<1>1. Count = Length
  BY RingFacts DEF ConsoleInv
<1>2. RingHoldsNewest
  BY RingSays DEF ConsoleInv, RingInv, ReadUpTo
<1>3. NoSleepOnInput
  BY <1>1 DEF NoSleepOnInput, Awake, ConsoleInv
<1> QED BY <1>2, <1>3

(* Nothing of the ring changes. *)
LEMMA RingUnchanged ==
    ASSUME FullRing, RingInv, UNCHANGED fifoVars, kept' = kept, ch' = ch
    PROVE  FullRing' /\ RingInv' /\ Length' = Length
BY DEF FullRing, RingInv, Ring, ReadUpTo, Length, fifoVars, Step, Slot

LEMMA SemUnchanged ==
    ASSUME rx_sem!TypeOK, ShellWaits, UNCHANGED semVars,
           sem_pc[Shell] # "run" => at' = "take"
    PROVE  rx_sem!TypeOK' /\ ShellWaits'
BY DEF semVars, rx_sem!TypeOK, ShellWaits

LEMMA ConsoleStarts == ASSUME BufferAssumption, CharsAssumption, ConsoleInit PROVE ConsoleInv
<1>1. ConsoleTypeOK
  <2>1. rx_sem!TypeOK
    BY DEF ConsoleInit, rx_sem!Init, rx_sem!TypeOK, CharsAssumption
  <2>2. 0 \in Chars /\ 0 \in Index
    BY DEF BufferAssumption, CharsAssumption, Chars, Index
  <2>3. kept \in Seq(Chars)
    BY DEF ConsoleInit
  <2>4. buffer \in [Index -> Chars]
    BY <2>2 DEF ConsoleInit
  <2> QED BY <2>1, <2>2, <2>3, <2>4 DEF ConsoleInit, ConsoleTypeOK
<1>2. Length = 0 /\ FullRing
  BY DEF ConsoleInit, Length, FullRing
<1>3. RingInv
  BY <1>2 DEF RingInv, Ring, ReadUpTo, ConsoleInit, BufferAssumption
<1>4. Ascending /\ ShellWaits
  BY DEF ConsoleInit, rx_sem!Init, Ascending, ShellWaits
<1>5. Awake
  BY <1>2 DEF Awake
<1> QED BY <1>1, <1>2, <1>3, <1>4, <1>5 DEF ConsoleInv

LEMMA ArriveStep == ASSUME BufferAssumption, CharsAssumption, ConsoleInv, Arrive PROVE ConsoleInv'
<1>1. FullRing' /\ RingInv' /\ Length' = Length
  BY RingUnchanged DEF Arrive, ConsoleInv
<1>2. rx_sem!TypeOK' /\ ShellWaits'
  BY SemUnchanged DEF Arrive, ConsoleInv, ConsoleTypeOK, ShellWaits
<1>3. ConsoleTypeOK'
  BY <1>2 DEF Arrive, ConsoleInv, ConsoleTypeOK, fifoVars, Chars, CharsAssumption
<1>4. Ascending'
  <2>1. /\ sent \in Nat /\ sent' = sent + 1 /\ kept' = kept /\ kept \in Seq(Chars)
        /\ DATAR' = IF rxne THEN DATAR ELSE sent + 1
        /\ rxne' = TRUE /\ DATAR \in Nat
    BY DEF Arrive, ConsoleInv, ConsoleTypeOK, Chars, CharsAssumption
  <2>2. \A i \in 1 .. Len(kept) : kept[i] \in Nat /\ kept[i] <= sent
    BY <2>1 DEF ConsoleInv, Ascending, Chars
  <2>3. \A i, j \in 1 .. Len(kept) : i < j => kept[i] < kept[j]
    BY DEF ConsoleInv, Ascending
  <2>4. rxne => DATAR <= sent /\ \A i \in 1 .. Len(kept) : kept[i] < DATAR
    BY DEF ConsoleInv, Ascending
  <2> QED BY <2>1, <2>2, <2>3, <2>4 DEF Ascending
<1>5. Awake'
  BY <1>1 DEF Arrive, ConsoleInv, Awake, semVars
<1> QED BY <1>1, <1>2, <1>3, <1>4, <1>5 DEF ConsoleInv

(* The steps that touch neither the ring nor the semaphore. *)
LEMMA QuietStep ==
    ASSUME BufferAssumption, ConsoleInv,
           UNCHANGED <<sent, DATAR, fifoVars, ch, kept, semVars>>,
           rxne' \in BOOLEAN, rxne' => rxne,
           isr' \in {"off", "getc", "indicate", "clear"},
           at' \in {"read", "take", "use"},
           sem_pc[Shell] # "run" => at' = "take",
           isr' \in {"off", "clear"} /\ Length > 0 =>
               (isr \in {"off", "clear"} /\ (at' = "take" => at = "take"))
    PROVE  ConsoleInv'
<1>1. FullRing' /\ RingInv' /\ Length' = Length
  BY RingUnchanged DEF ConsoleInv
<1>2. rx_sem!TypeOK' /\ ShellWaits'
  BY SemUnchanged DEF ConsoleInv, ConsoleTypeOK
<1>3. ConsoleTypeOK'
  BY <1>2 DEF ConsoleInv, ConsoleTypeOK, fifoVars
<1>4. Ascending'
  BY DEF ConsoleInv, Ascending
<1>5. Awake'
  BY <1>1 DEF ConsoleInv, Awake, semVars
<1> QED BY <1>1, <1>2, <1>3, <1>4, <1>5 DEF ConsoleInv

LEMMA ReceiveStep ==
    ASSUME BufferAssumption, CharsAssumption, ConsoleInv, IsrReceives
    PROVE  ConsoleInv'
<1>0. /\ ConsoleTypeOK /\ FullRing /\ Ring(buffer, get_index, Length, kept) /\ Put
      /\ kept' = Append(kept, DATAR)
  BY DEF ConsoleInv, RingInv, IsrReceives
<1>1. /\ buffer' \in [Index -> Chars]
      /\ put_index' \in Index /\ get_index' \in Index /\ is_full' \in BOOLEAN
      /\ FullRing'
      /\ Length' = IF Length < bufsz - 1 THEN Length + 1 ELSE Length
      /\ Ring(buffer', get_index', Length', kept')
  BY <1>0, PutKeepsRing
<1>2. /\ rxne /\ rxne' = FALSE /\ isr = "getc" /\ isr' = isr /\ sent' = sent /\ DATAR' = DATAR
      /\ at' = at /\ ch' = ch /\ UNCHANGED semVars
  BY DEF IsrReceives
<1>3. rx_sem!TypeOK' /\ ShellWaits'
  BY <1>2, SemUnchanged DEF ConsoleInv, ConsoleTypeOK, ShellWaits
<1>4. kept \in Seq(Chars) /\ Len(kept) \in Nat /\ DATAR \in Chars
  BY <1>0 DEF ConsoleTypeOK
<1>5. /\ kept' \in Seq(Chars) /\ Len(kept') = Len(kept) + 1 /\ kept'[Len(kept) + 1] = DATAR
      /\ \A i \in 1 .. Len(kept) : kept'[i] = kept[i]
  BY <1>0, <1>4
<1>6. ConsoleTypeOK'
  BY <1>1, <1>2, <1>3, <1>5 DEF ConsoleInv, ConsoleTypeOK
<1>7. Ascending'
  <2>1. /\ \A i, j \in 1 .. Len(kept) : i < j => kept[i] < kept[j]
        /\ \A i \in 1 .. Len(kept) : kept[i] <= sent
        /\ DATAR <= sent /\ \A i \in 1 .. Len(kept) : kept[i] < DATAR
    BY <1>2 DEF ConsoleInv, Ascending
  <2>2. \A i \in 1 .. Len(kept') : i \in 1 .. Len(kept) \/ i = Len(kept) + 1
    BY <1>4, <1>5
  <2>3. \A i \in 1 .. Len(kept') : kept'[i] <= sent
    BY <1>5, <2>1, <2>2
  <2>4. ASSUME NEW i \in 1 .. Len(kept'), NEW j \in 1 .. Len(kept'), i < j PROVE kept'[i] < kept'[j]
    <3>1. i \in 1 .. Len(kept)
      BY <1>4, <1>5, <2>4
    <3> QED BY <1>5, <2>1, <2>2, <2>4, <3>1
  <2> QED BY <1>2, <2>3, <2>4 DEF Ascending
<1>8. ReadUpTo'
  <2>1. SUFFICES ASSUME Length' < bufsz - 1, NEW i \in 1 .. Len(kept') - Length'
                 PROVE  kept'[i] <= ch
    BY <1>2 DEF ReadUpTo
  <2>2. Length \in 0 .. bufsz - 1 /\ Length <= Len(kept)
    BY <1>0 DEF Ring
  <2>3. bufsz \in Nat
    BY DEF BufferAssumption
  <2> HIDE DEF Length
  <2>4. Length < bufsz - 1 /\ Length' = Length + 1
    BY <1>1, <2>1, <2>2, <2>3
  <2>5. i \in 1 .. Len(kept) - Length /\ i \in 1 .. Len(kept)
    BY <1>4, <1>5, <2>2, <2>4
  <2> QED BY <1>5, <2>4, <2>5 DEF ConsoleInv, RingInv, ReadUpTo
<1>9. Awake'
  BY <1>2 DEF Awake
<1> QED BY <1>1, <1>3, <1>6, <1>7, <1>8, <1>9 DEF ConsoleInv, RingInv

LEMMA IndicateStep ==
    ASSUME BufferAssumption, CharsAssumption, ConsoleInv, IsrIndicates
    PROVE  ConsoleInv'
<1>1. FullRing' /\ RingInv' /\ Length' = Length
  BY RingUnchanged DEF IsrIndicates, ConsoleInv
<1>2. /\ at' = at /\ isr' = "clear" /\ rx_sem!TypeOK /\ ShellWaits /\ isr = "indicate"
      /\ sent' = sent /\ DATAR' = DATAR /\ rxne' = rxne /\ ch' = ch /\ kept' = kept
      /\ UNCHANGED fifoVars
      /\ IF Length # 0 THEN rx_sem!rt_sem_release ELSE UNCHANGED semVars
  BY DEF IsrIndicates, ConsoleInv, ConsoleTypeOK
<1>3. /\ rx_sem!TypeOK' /\ ShellWaits'
      /\ Length # 0 => sem_pc'[Shell] # "wait" /\ (sem_value' > 0 \/ sem_pc'[Shell] = "resumed")
  <2>1. CASE Length # 0
    BY <1>2, <2>1, ReleaseWakes
  <2>2. CASE Length = 0
    <3>1. UNCHANGED semVars
      BY <1>2, <2>2
    <3>2. sem_pc[Shell] # "run" => at' = "take"
      BY <1>2 DEF ShellWaits
    <3> QED BY <1>2, <2>2, <3>1, <3>2, SemUnchanged
  <2> QED BY <2>1, <2>2
<1>4. ConsoleTypeOK'
  BY <1>2, <1>3 DEF ConsoleInv, ConsoleTypeOK, fifoVars
<1>5. Ascending'
  BY <1>2 DEF ConsoleInv, Ascending
<1>6. Awake'
  <2>1. Length' > 0 => Length # 0
    <3>1. Length \in Nat
      BY RingFacts DEF ConsoleInv
    <3> QED BY <1>1, <3>1
  <2> QED BY <1>3, <2>1 DEF Awake
<1> QED BY <1>1, <1>3, <1>4, <1>5, <1>6 DEF ConsoleInv

LEMMA ReadStep == ASSUME BufferAssumption, CharsAssumption, ConsoleInv, ShellReads PROVE ConsoleInv'
<1>0. /\ ConsoleTypeOK /\ FullRing /\ ~Empty /\ Ring(buffer, get_index, Length, kept)
      /\ ch' = buffer[get_index] /\ get_index' = Step(get_index) /\ is_full' = FALSE
      /\ put_index' = put_index /\ buffer' = buffer /\ kept' = kept
  BY DEF ConsoleInv, RingInv, ShellReads
<1>1. /\ get_index' \in Index /\ FullRing'
      /\ Length \in Nat /\ Length >= 1 /\ Length' = Length - 1
      /\ Len(kept) - Length + 1 \in 1 .. Len(kept)
      /\ ch' = kept[Len(kept) - Length + 1]
      /\ Ring(buffer', get_index', Length', kept')
  BY <1>0, ReadKeepsRing
<1>2. /\ at = "read" /\ at' = "use" /\ UNCHANGED <<sent, DATAR, rxne, isr, semVars>>
  BY DEF ShellReads
<1>3. rx_sem!TypeOK' /\ ShellWaits'
  BY <1>2, SemUnchanged DEF ConsoleInv, ConsoleTypeOK, ShellWaits
<1>4. ConsoleTypeOK'
  <2>1. ch' \in Chars
    BY <1>0, <1>1 DEF ConsoleTypeOK
  <2> QED BY <1>0, <1>1, <1>2, <1>3, <2>1 DEF ConsoleTypeOK
<1>5. Ascending'
  BY <1>0, <1>2 DEF ConsoleInv, Ascending
<1>6. ReadUpTo'
  <2>1. SUFFICES ASSUME NEW i \in 1 .. Len(kept) - Length' PROVE kept[i] <= ch'
    BY <1>0 DEF ReadUpTo
  <2>2. kept \in Seq(Chars) /\ Len(kept) \in Nat
    BY <1>0 DEF ConsoleTypeOK
  <2>3. \A j \in 1 .. Len(kept) : kept[j] \in Nat
    BY <2>2 DEF Chars, CharsAssumption
  <2> HIDE DEF Length
  <2>4. i \in 1 .. Len(kept) - Length + 1
    BY <1>1, <2>2
  <2>5. i \in 1 .. Len(kept) /\ (i < Len(kept) - Length + 1 \/ i = Len(kept) - Length + 1)
    BY <1>1, <2>2, <2>4
  <2>6. \A k, j \in 1 .. Len(kept) : k < j => kept[k] < kept[j]
    BY DEF ConsoleInv, Ascending
  <2>7. CASE i = Len(kept) - Length + 1
    BY <1>1, <2>3, <2>5, <2>7
  <2>8. CASE i < Len(kept) - Length + 1
    BY <1>1, <2>3, <2>5, <2>6, <2>8
  <2> QED BY <2>5, <2>7, <2>8
<1>7. Awake'
  BY <1>2 DEF ConsoleInv, Awake, semVars, ShellWaits
<1> QED BY <1>1, <1>3, <1>4, <1>5, <1>6, <1>7 DEF ConsoleInv, RingInv

LEMMA ShellTakesStep ==
    ASSUME BufferAssumption, CharsAssumption, ConsoleInv, ShellTakes \/ ShellResumes
    PROVE  ConsoleInv'
<1>1. FullRing' /\ RingInv' /\ Length' = Length
  BY RingUnchanged DEF ShellTakes, ShellResumes, ConsoleInv
<1>2. /\ at = "take" /\ rx_sem!TypeOK /\ ShellWaits /\ isr = "off" /\ isr' = isr
      /\ sent' = sent /\ DATAR' = DATAR /\ rxne' = rxne /\ ch' = ch /\ kept' = kept
      /\ UNCHANGED fifoVars
  BY DEF ShellTakes, ShellResumes, ConsoleInv, ConsoleTypeOK
<1>3. rx_sem!TypeOK' /\ ShellWaits' /\ Awake' /\ at' \in {"read", "take"}
  <2>0. Length \in Nat
    BY RingFacts DEF ConsoleInv
  <2>1. CASE rx_sem!Take(Shell) /\ at' = "read"
    <3>1. rx_sem!TypeOK' /\ ShellWaits' /\ sem_pc'[Shell] = "run"
      BY <1>2, <2>1, TakeKeeps
    <3> QED BY <2>1, <3>1 DEF Awake
  <2>2. CASE rx_sem!TakeReturns(Shell) /\ at' = "read"
    <3>1. rx_sem!TypeOK' /\ ShellWaits' /\ sem_pc'[Shell] = "run"
      BY <1>2, <2>2, TakeReturnsKeeps
    <3> QED BY <2>2, <3>1 DEF Awake
  <2>3. CASE rx_sem!TakeWait(Shell, "forever") /\ at' = at /\ sem_pc[Shell] = "run"
    <3>1. rx_sem!TypeOK' /\ ShellWaits' /\ sem_value = 0
      BY <1>2, <2>3, TakeWaits
    <3>2. ~(Length > 0)
      BY <1>2, <2>3, <3>1 DEF ConsoleInv, Awake
    <3> QED BY <1>1, <1>2, <2>3, <3>1, <3>2 DEF Awake
  <2> QED BY <2>1, <2>2, <2>3 DEF ShellTakes, ShellResumes
<1>4. ConsoleTypeOK'
  BY <1>2, <1>3 DEF ConsoleInv, ConsoleTypeOK, fifoVars
<1>5. Ascending'
  BY <1>2 DEF ConsoleInv, Ascending
<1> QED BY <1>1, <1>3, <1>4, <1>5 DEF ConsoleInv

LEMMA ConsoleStep ==
    ASSUME BufferAssumption, CharsAssumption, ConsoleInv, [ConsoleNext]_consoleVars
    PROVE  ConsoleInv'
<1>0. Empty <=> Length = 0
  BY RingFacts DEF ConsoleInv
<1>00. /\ sem_pc[Shell] # "run" => at = "take"
       /\ rxne \in BOOLEAN /\ isr \in {"off", "getc", "indicate", "clear"}
       /\ at \in {"read", "take", "use"}
  BY DEF ConsoleInv, ShellWaits, ConsoleTypeOK
<1>1. CASE Arrive BY <1>1, ArriveStep
<1>2. CASE USART1_IRQHandler
  BY <1>0, <1>00, <1>2, QuietStep DEF USART1_IRQHandler
<1>3. CASE IsrReceives BY <1>3, ReceiveStep
<1>4. CASE IsrEmpty
  BY <1>0, <1>00, <1>4, QuietStep DEF IsrEmpty
<1>5. CASE IsrIndicates BY <1>5, IndicateStep
<1>6. CASE IsrClears
  BY <1>0, <1>00, <1>6, QuietStep DEF IsrClears
<1>7. CASE ShellReads BY <1>7, ReadStep
<1>8. CASE ShellFindsNone
  <2>1. /\ Length = 0 /\ UNCHANGED <<sent, DATAR, rxne, isr, fifoVars, ch, kept, semVars>>
        /\ at' = "take"
    BY <1>0, <1>8 DEF ShellFindsNone
  <2> HIDE DEF Length
  <2> QED BY <1>00, <2>1, QuietStep
<1>9. CASE ShellTakes \/ ShellResumes BY <1>9, ShellTakesStep
<1>10. CASE ShellUses
  BY <1>0, <1>00, <1>10, QuietStep DEF ShellUses
<1>11. CASE UNCHANGED consoleVars
  BY <1>0, <1>00, <1>11, QuietStep DEF consoleVars
<1> QED BY <1>1, <1>2, <1>3, <1>4, <1>5, <1>6, <1>7, <1>8, <1>9, <1>10, <1>11
      DEF ConsoleNext, Isr, ShellRuns

(* For a ring of any size, however late the shell is: what _serial_int_rx    *)
(* takes from rx_fifo is what rt_hw_serial_isr put there last, in its order, *)
(* also after put_index has overtaken get_index and is_full was set.         *)
THEOREM RingAlwaysHoldsNewest == ConsoleSpec => []RingHoldsNewest
<1>1. ConsoleInit => ConsoleInv
  BY ConsoleStarts, BufferAssumption, CharsAssumption
<1>2. ConsoleInv /\ [ConsoleNext]_consoleVars => ConsoleInv'
  BY ConsoleStep, BufferAssumption, CharsAssumption
<1>3. ConsoleInv => RingHoldsNewest
  BY ConsoleInvSays, BufferAssumption
<1> QED BY <1>1, <1>2, <1>3, PTL DEF ConsoleSpec

(* Wherever the handler comes between the look of finsh_getchar at the ring *)
(* and its rt_sem_take, the shell does not wait at rx_sem while a character *)
(* is unread.                                                               *)
THEOREM InputAlwaysWakes == ConsoleSpec => []NoSleepOnInput
<1>1. ConsoleInit => ConsoleInv
  BY ConsoleStarts, BufferAssumption, CharsAssumption
<1>2. ConsoleInv /\ [ConsoleNext]_consoleVars => ConsoleInv'
  BY ConsoleStep, BufferAssumption, CharsAssumption
<1>3. ConsoleInv => NoSleepOnInput
  BY ConsoleInvSays, BufferAssumption
<1> QED BY <1>1, <1>2, <1>3, PTL DEF ConsoleSpec

-----------------------------------------------------------------------------
(* The command line, for any letters, names of commands, length of a line and *)
(* of the history; nothing is completed after a line that was discarded.      *)

LEMMA NoKeyIsLetter == ASSUME LettersAssumption PROVE \A key \in Letters : key # NUL
BY DEF LettersAssumption, Keys

(* The first n characters of l are letters and the others are not, up to the  *)
(* place before "size".                                                      *)
IsText(l, n, size) == \A i \in 0 .. size - 1 : l[i] = NUL <=> i >= n

(* Every row of the history is a command. *)
HistoryIsText ==
    /\ current_history <= history_count
    /\ \A r \in 0 .. history_count - 1 :
          \E n \in 1 .. FINSH_CMD_SIZE - 1 : IsText(cmd_history[r], n, FINSH_CMD_SIZE)

(* What a discarded line leaves fills the buffer to the end. *)
DiscardedIsFull == discarded => line[FINSH_CMD_SIZE - 1] # NUL

LineInv == LineIsText /\ HistoryIsText /\ DiscardedIsFull

LEMMA LengthIs ==
    ASSUME LineSizeAssumption, NEW l, NEW n \in 0 .. FINSH_CMD_SIZE - 1, IsText(l, n,
           FINSH_CMD_SIZE + 1)
    PROVE  strlen(l) = n
<1>0. FINSH_CMD_SIZE \in Nat
  BY DEF LineSizeAssumption
<1>1. \A i \in 0 .. FINSH_CMD_SIZE : l[i] = NUL <=> i >= n
  BY <1>0 DEF IsText
<1> DEFINE P(k) == (\A i \in 0 .. k - 1 : l[i] # NUL) /\ (k = FINSH_CMD_SIZE \/ l[k] = NUL)
<1>2. n \in Places /\ P(n)
  BY <1>0, <1>1 DEF Places
<1>3. ASSUME NEW k \in Places, P(k) PROVE k = n
  <2>1. ~(k < n)
    BY <1>0, <1>1, <1>3 DEF Places
  <2>2. ~(n < k)
    <3> SUFFICES ASSUME n < k PROVE FALSE
      OBVIOUS
    <3>1. n \in 0 .. k - 1 /\ l[n] = NUL
      BY <1>0, <1>1 DEF Places
    <3> QED BY <1>3, <3>1
  <2> QED BY <1>0, <2>1, <2>2 DEF Places
<1>4. strlen(l) = CHOOSE k \in Places : P(k)
  BY DEF strlen
<1> HIDE DEF P
<1> QED BY <1>2, <1>3, <1>4

(* What Shows leaves when it shows a text. *)
LEMMA ShowsText ==
    ASSUME LineSizeAssumption, NEW l \in [Places -> Letters \cup {NUL}],
           NEW n \in 0 .. FINSH_CMD_SIZE - 1,
           IsText(l, n, FINSH_CMD_SIZE + 1), Shows(l)
    PROVE  /\ line' = l /\ line_position' = n /\ line_curpos' = n
           /\ line' \in [Places -> Letters \cup {NUL}]
           /\ line_position' \in Places /\ line_curpos' \in Places
           /\ line_curpos' <= line_position' /\ line_position' < FINSH_CMD_SIZE
           /\ \A i \in Places : line'[i] = NUL <=> i >= line_position'
<1>1. strlen(l) = n
  BY LengthIs
<1>2. line' = l /\ line_position' = n /\ line_curpos' = n
  BY <1>1 DEF Shows
<1> QED BY <1>2 DEF IsText, Places, LineSizeAssumption

LEMMA RecalledText ==
    ASSUME LineSizeAssumption, LineInv, NEW r \in 0 .. history_count - 1
    PROVE  \E n \in 1 .. FINSH_CMD_SIZE - 1 :
              /\ IsText(cmd_history[r], n, FINSH_CMD_SIZE)
              /\ IsText(RecalledRow(r), n, FINSH_CMD_SIZE + 1)
              /\ RecalledRow(r) \in [Places -> Letters \cup {NUL}]
              /\ \A i \in 0 .. n - 1 : RecalledRow(r)[i] = cmd_history[r][i]
<1>0. /\ FINSH_CMD_SIZE \in Nat /\ FINSH_HISTORY_LINES \in Nat /\ history_count \in 0 .. FINSH_HISTORY_LINES
      /\ line \in [Places -> Letters \cup {NUL}]
      /\ cmd_history \in [Rows -> [Columns -> Letters \cup {NUL}]]
  BY DEF LineSizeAssumption, LineInv, LineIsText, ShellTypeOK
<1>1. PICK n \in 1 .. FINSH_CMD_SIZE - 1 : IsText(cmd_history[r], n, FINSH_CMD_SIZE)
  BY DEF LineInv, HistoryIsText
<1>2. r \in Rows
  BY <1>0 DEF Rows
<1>3. /\ \A i \in Places : RecalledRow(r)[i] = IF i < FINSH_CMD_SIZE THEN cmd_history[r][i] ELSE line[i]
      /\ DOMAIN RecalledRow(r) = Places
      /\ RecalledRow(r) = [i \in Places |-> RecalledRow(r)[i]]
  BY DEF RecalledRow
<1>4. \A i \in Places : i < FINSH_CMD_SIZE => i \in Columns /\ cmd_history[r][i] \in Letters \cup {NUL}
  BY <1>0, <1>2 DEF Places, Columns
<1>5. RecalledRow(r) \in [Places -> Letters \cup {NUL}]
  BY <1>0, <1>3, <1>4
<1>6. line[FINSH_CMD_SIZE] = NUL
  BY DEF LineInv, LineIsText
<1>7. IsText(RecalledRow(r), n, FINSH_CMD_SIZE + 1)
  <2> SUFFICES ASSUME NEW i \in 0 .. FINSH_CMD_SIZE PROVE RecalledRow(r)[i] = NUL <=> i >= n
    BY <1>0 DEF IsText
  <2>1. CASE i = FINSH_CMD_SIZE
    BY <1>0, <1>3, <1>6, <2>1 DEF Places
  <2>2. CASE i # FINSH_CMD_SIZE
    <3>1. i \in 0 .. FINSH_CMD_SIZE - 1 /\ i \in Places /\ i < FINSH_CMD_SIZE
      BY <1>0, <2>2 DEF Places
    <3>2. RecalledRow(r)[i] = cmd_history[r][i]
      BY <1>3, <3>1
    <3> QED BY <1>1, <3>1, <3>2 DEF IsText
  <2> QED BY <2>1, <2>2
<1>8. \A i \in 0 .. n - 1 : RecalledRow(r)[i] = cmd_history[r][i]
  BY <1>0, <1>3 DEF Places
<1> QED BY <1>1, <1>5, <1>7, <1>8

-----------------------------------------------------------------------------
(* Completion *)

(* What CommonLength is chosen to be. *)
AgreeUpTo(n) ==
    /\ \A c, d \in Matching : n <= Len(c) /\ \A i \in 1 .. n : c[i] = d[i]
    /\ \E c, d \in Matching : n = Len(c) \/ n = Len(d) \/ c[n + 1] # d[n + 1]

LEMMA CommonLengthIs ==
    ASSUME LineSizeAssumption, NamesAssumption, Matching # {}
    PROVE  CommonLength \in Places /\ AgreeUpTo(CommonLength)
<1> DEFINE A(n) == \A c, d \in Matching : n <= Len(c) /\ \A i \in 1 .. n : c[i] = d[i]
           T == {n \in Nat : ~A(n)}
<1>0. FINSH_CMD_SIZE \in Nat
  BY DEF LineSizeAssumption
<1>1. \A c \in Matching : c \in Seq(Letters) /\ Len(c) < FINSH_CMD_SIZE /\ Len(c) \in Nat
  BY DEF Matching, NamesAssumption
<1>2. PICK c0 \in Matching : TRUE
  OBVIOUS
<1> HIDE DEF Matching
<1>3. Len(c0) + 1 \in T
  BY <1>1, <1>2
<1>4. 0 \notin T
  BY <1>1
<1>5. T \in SUBSET Nat /\ T # {}
  BY <1>3
<1>6. PICK k \in T : \A y \in T : k <= y
  <2> HIDE DEF T
  <2> QED BY <1>5, LeastNumber
<1>7. k \in Nat /\ k # 0 /\ ~A(k)
  BY <1>4, <1>6
<1>8. k - 1 \in Nat /\ A(k - 1)
  <2>1. k - 1 \in Nat /\ k - 1 < k
    BY <1>7
  <2>2. k - 1 \notin T
    <3> HIDE DEF T
    <3> QED BY <1>6, <1>7, <2>1
  <2> HIDE DEF A
  <2> QED BY <2>1, <2>2
<1>9. AgreeUpTo(k - 1)
  <2>1. PICK c \in Matching, d \in Matching : ~(k <= Len(c) /\ \A i \in 1 .. k : c[i] = d[i])
    BY <1>7
  <2>2. k - 1 <= Len(c) /\ \A i \in 1 .. k - 1 : c[i] = d[i]
    BY <1>8
  <2>3. CASE ~(k <= Len(c))
    <3>1. k - 1 = Len(c)
      BY <1>1, <1>7, <2>2, <2>3
    <3> QED BY <1>8, <3>1 DEF AgreeUpTo
  <2>4. CASE k <= Len(c)
    <3>1. PICK i \in 1 .. k : c[i] # d[i]
      BY <2>1, <2>4
    <3>2. i = (k - 1) + 1
      BY <1>7, <2>2, <3>1
    <3> QED BY <1>8, <3>1, <3>2 DEF AgreeUpTo
  <2> QED BY <2>3, <2>4
<1>10. k - 1 \in Places
  <2>1. k - 1 <= Len(c0)
    BY <1>8
  <2> QED BY <1>0, <1>1, <1>2, <1>8, <2>1 DEF Places
<1>11. CommonLength = CHOOSE n \in Places : AgreeUpTo(n)
  BY DEF CommonLength, AgreeUpTo
<1> HIDE DEF AgreeUpTo
<1> QED BY <1>9, <1>10, <1>11

(* The completed line is a text: what it was, or the beginning of a name. *)
LEMMA CompletedText ==
    ASSUME LineSizeAssumption, NamesAssumption, LettersAssumption, LineInv, ~discarded
    PROVE  \E n \in line_position .. FINSH_CMD_SIZE - 1 :
              /\ IsText(Completed, n, FINSH_CMD_SIZE + 1)
              /\ Completed \in [Places -> Letters \cup {NUL}]
              /\ \/ n = line_position /\ Completed = line
                 \/ \E c \in Names :
                       /\ n <= Len(c) /\ \A i \in 0 .. n - 1 : Completed[i] = c[i + 1]
                       /\ \A i \in 0 .. line_position - 1 : line[i] = c[i + 1]
<1>0. /\ FINSH_CMD_SIZE \in Nat /\ line_position \in 0 .. FINSH_CMD_SIZE - 1
      /\ line \in [Places -> Letters \cup {NUL}]
      /\ \A i \in Places : line[i] = NUL <=> i >= line_position
  <2>1. /\ FINSH_CMD_SIZE \in Nat /\ line_position \in 0 .. FINSH_CMD_SIZE - 1
        /\ line \in [Places -> Letters \cup {NUL}]
        /\ \A i \in Places : i \in Nat
    BY DEF LineSizeAssumption, LineInv, LineIsText, ShellTypeOK, Places
  <2>2. \A i \in Places : /\ i < line_position => line[i] # NUL
                          /\ i >= line_position => line[i] = NUL
    BY DEF LineInv, LineIsText
  <2> QED BY <2>1, <2>2
<1>1. IsText(line, line_position, FINSH_CMD_SIZE + 1)
  BY <1>0 DEF IsText, Places
<1>2. strlen(line) = line_position
  BY <1>0, <1>1, LengthIs
<1>3. CASE line[0] = NUL \/ Matching = {}
  <2>1. Completed = line
    BY <1>3 DEF Completed
  <2>2. line_position \in line_position .. FINSH_CMD_SIZE - 1
    BY <1>0
  <2> QED BY <1>0, <1>1, <2>1, <2>2
<1>4. CASE ~(line[0] = NUL \/ Matching = {})
  <2> SUFFICES ASSUME NEW n, n = CommonLength, NEW name, name = CHOOSE c \in Matching : TRUE
               PROVE  \E m \in line_position .. FINSH_CMD_SIZE - 1 :
                          /\ IsText(Completed, m, FINSH_CMD_SIZE + 1)
                          /\ Completed \in [Places -> Letters \cup {NUL}]
                          /\ \/ m = line_position /\ Completed = line
                             \/ \E c \in Names :
                                   /\ m <= Len(c) /\ \A i \in 0 .. m - 1 : Completed[i] = c[i + 1]
                                   /\ \A i \in 0 .. line_position - 1 : line[i] = c[i + 1]
    OBVIOUS
  <2>1. name \in Matching
    BY <1>4
  <2>2. n \in Places /\ AgreeUpTo(n)
    BY <1>4, CommonLengthIs
  <2>3. Completed = [i \in Places |-> IF i < n THEN name[i + 1] ELSE line[i]]
    BY <1>4 DEF Completed
  <2>4. \A c \in Matching : /\ c \in Names /\ c \in Seq(Letters) /\ Len(c) \in Nat /\ Len(c) < FINSH_CMD_SIZE
                            /\ line_position <= Len(c)
                            /\ \A i \in 0 .. line_position - 1 : c[i + 1] = line[i]
    BY <1>2 DEF Matching, NamesAssumption
  <2> HIDE DEF Matching, CommonLength, Completed
  <2>5. n \in Nat /\ n <= Len(name) /\ n < FINSH_CMD_SIZE
    BY <1>0, <2>1, <2>2, <2>4 DEF AgreeUpTo, Places
  <2>6. line_position <= n
    <3> SUFFICES ASSUME n < line_position PROVE FALSE
      BY <1>0, <2>5
    <3>1. PICK c \in Matching, d \in Matching : n = Len(c) \/ n = Len(d) \/ c[n + 1] # d[n + 1]
      BY <2>2 DEF AgreeUpTo
    <3>2. n \in 0 .. line_position - 1
      BY <1>0, <2>5
    <3>3. c[n + 1] = line[n] /\ d[n + 1] = line[n]
      BY <2>4, <3>2
    <3>4. n # Len(c) /\ n # Len(d)
      BY <1>0, <2>4, <2>5
    <3> QED BY <3>1, <3>3, <3>4
  <2>7. \A i \in 0 .. n - 1 : name[i + 1] \in Letters
    <3> SUFFICES ASSUME NEW i \in 0 .. n - 1 PROVE name[i + 1] \in Letters
      OBVIOUS
    <3>1. i + 1 \in 1 .. Len(name) /\ name \in Seq(Letters)
      BY <2>1, <2>4, <2>5
    <3> QED BY <3>1
  <2>8. \A i \in Places : (i < n => i \in 0 .. n - 1) /\ i \in Nat
    BY <1>0, <2>5 DEF Places
  <2>9. Completed \in [Places -> Letters \cup {NUL}]
    BY <1>0, <2>3, <2>7, <2>8
  <2>10. IsText(Completed, n, FINSH_CMD_SIZE + 1)
    <3> SUFFICES ASSUME NEW i \in Places PROVE Completed[i] = NUL <=> i >= n
      BY <1>0 DEF IsText, Places
    <3>1. CASE i < n
      <4>1. Completed[i] = name[i + 1] /\ name[i + 1] \in Letters
        BY <2>3, <2>7, <2>8, <3>1
      <4> QED BY <2>5, <2>8, <3>1, <4>1, NoKeyIsLetter
    <3>2. CASE ~(i < n)
      <4>1. Completed[i] = line[i]
        BY <2>3, <3>2
      <4> QED BY <1>0, <2>5, <2>6, <2>8, <3>2, <4>1
    <3> QED BY <3>1, <3>2
  <2>11. \A i \in 0 .. n - 1 : Completed[i] = name[i + 1]
    <3>1. \A i \in 0 .. n - 1 : i \in Places /\ i < n
      BY <1>0, <2>5 DEF Places
    <3> QED BY <2>3, <3>1
  <2>12. n \in line_position .. FINSH_CMD_SIZE - 1
    BY <1>0, <2>5, <2>6
  <2>13. name \in Names /\ \A i \in 0 .. line_position - 1 : line[i] = name[i + 1]
    BY <2>1, <2>4
  <2> QED BY <2>5, <2>9, <2>10, <2>11, <2>12, <2>13
<1> QED BY <1>3, <1>4

-----------------------------------------------------------------------------
(* The invariant, in three parts *)

KeyPart ==
    /\ stat \in {"WAIT_NORMAL", "WAIT_SPEC_KEY", "WAIT_FUNC_KEY"}
    /\ pressed \in Keys \cup Letters

LinePart ==
    /\ line \in [Places -> Letters \cup {NUL}]
    /\ line_position \in Places /\ line_curpos \in Places
    /\ line_curpos <= line_position /\ line_position < FINSH_CMD_SIZE
    /\ \A i \in Places : i < line_position => line[i] # NUL
    /\ line[FINSH_CMD_SIZE] = NUL
    /\ ~discarded => \A i \in Places : i >= line_position => line[i] = NUL
    /\ discarded => line[FINSH_CMD_SIZE - 1] # NUL
    /\ discarded \in BOOLEAN

HistoryPart ==
    /\ cmd_history \in [Rows -> [Columns -> Letters \cup {NUL}]]
    /\ history_count \in 0 .. FINSH_HISTORY_LINES
    /\ current_history \in 0 .. FINSH_HISTORY_LINES
    /\ HistoryIsText

LEMMA LineInvSays == LineInv <=> KeyPart /\ LinePart /\ HistoryPart
BY DEF LineInv, LineIsText, ShellTypeOK, KeyPart, LinePart, HistoryPart, DiscardedIsFull

LEMMA LineInvNext == ASSUME KeyPart', LinePart', HistoryPart' PROVE LineInv'
BY DEF LineInv, LineIsText, ShellTypeOK, KeyPart, LinePart, HistoryPart, DiscardedIsFull

LEMMA LineInvSaysNext == ASSUME LineInv' PROVE LinePart' /\ HistoryPart'
BY DEF LineInv, LineIsText, ShellTypeOK, KeyPart, LinePart, HistoryPart, DiscardedIsFull

LEMMA LineUnchanged == ASSUME LinePart, UNCHANGED <<lineVars, discarded>> PROVE LinePart'
BY DEF LinePart, lineVars

(* A line that Shows shows and that is not a discarded one. *)
LEMMA ShownLine ==
    ASSUME LineSizeAssumption, NEW l \in [Places -> Letters \cup {NUL}],
           NEW n \in 0 .. FINSH_CMD_SIZE - 1,
           IsText(l, n, FINSH_CMD_SIZE + 1), Shows(l), discarded' = FALSE
    PROVE  LinePart'
<1>1. /\ line' \in [Places -> Letters \cup {NUL}]
      /\ line_position' \in Places /\ line_curpos' \in Places
      /\ line_curpos' <= line_position' /\ line_position' < FINSH_CMD_SIZE
      /\ \A i \in Places : line'[i] = NUL <=> i >= line_position'
  BY ShowsText
<1>2. FINSH_CMD_SIZE \in Places /\ FINSH_CMD_SIZE >= line_position' /\ \A i \in Places : i \in Nat
  BY <1>1 DEF Places, LineSizeAssumption
<1>3. line'[FINSH_CMD_SIZE] = NUL
  BY <1>1, <1>2
<1>4. \A i \in Places : i < line_position' => line'[i] # NUL
  BY <1>1, <1>2
<1> QED BY <1>1, <1>3, <1>4 DEF LinePart

LEMMA HistoryUnchanged == ASSUME HistoryPart, UNCHANGED historyVars PROVE HistoryPart'
BY DEF HistoryPart, historyVars, HistoryIsText, IsText

(* A line that is empty. *)
LEMMA EmptyLine ==
    ASSUME LineSizeAssumption, NEW l, l = NoLine
    PROVE  /\ l \in [Places -> Letters \cup {NUL}] /\ l[FINSH_CMD_SIZE] = NUL
           /\ 0 \in Places /\ 0 < FINSH_CMD_SIZE
           /\ \A i \in Places : l[i] = NUL /\ ~(i < 0)
<1>1. FINSH_CMD_SIZE \in Nat \ {0}
  BY DEF LineSizeAssumption
<1>2. FINSH_CMD_SIZE \in Places /\ 0 \in Places /\ 0 < FINSH_CMD_SIZE /\ \A i \in Places : ~(i < 0)
  BY <1>1 DEF Places
<1>3. l \in [Places -> Letters \cup {NUL}] /\ \A i \in Places : l[i] = NUL
  BY DEF NoLine
<1> QED BY <1>2, <1>3

LEMMA LineStarts == ASSUME LineSizeAssumption, ShellInit PROVE LineInv
<1>1. FINSH_CMD_SIZE \in Nat \ {0} /\ FINSH_HISTORY_LINES \in Nat \ {0}
  BY DEF LineSizeAssumption
<1>2. LinePart /\ KeyPart
  <2>1. line = NoLine /\ line_position = 0 /\ line_curpos = 0 /\ discarded = FALSE
    BY DEF ShellInit
  <2>2. /\ line \in [Places -> Letters \cup {NUL}] /\ line[FINSH_CMD_SIZE] = NUL
        /\ 0 \in Places /\ 0 < FINSH_CMD_SIZE
        /\ \A i \in Places : line[i] = NUL /\ ~(i < 0)
    BY <2>1, EmptyLine
  <2>3. /\ line_position \in Places /\ line_curpos \in Places
        /\ line_curpos <= line_position /\ line_position < FINSH_CMD_SIZE
        /\ \A i \in Places : i < line_position => line[i] # NUL
        /\ \A i \in Places : i >= line_position => line[i] = NUL
    BY <1>1, <2>1, <2>2
  <2>4. KeyPart
    BY DEF ShellInit, KeyPart, Keys
  <2>5. LinePart
    BY <2>1, <2>2, <2>3 DEF LinePart
  <2> QED BY <2>4, <2>5
<1>3. HistoryPart
  <2>1. NoRow \in [Columns -> Letters \cup {NUL}]
    BY DEF NoRow
  <2> QED BY <1>1, <2>1 DEF ShellInit, HistoryPart, HistoryIsText
<1> QED BY <1>2, <1>3, LineInvSays

(* A row of the history is shown. *)
LEMMA RecallStep ==
    ASSUME LineSizeAssumption, LineInv, NEW r \in 0 .. history_count - 1, Shows(RecalledRow(r)),
           current_history' = r, discarded' = FALSE, UNCHANGED <<cmd_history, history_count>>
    PROVE  LinePart' /\ HistoryPart'
<1>1. PICK n \in 1 .. FINSH_CMD_SIZE - 1 :
          /\ IsText(cmd_history[r], n, FINSH_CMD_SIZE)
          /\ IsText(RecalledRow(r), n, FINSH_CMD_SIZE + 1)
          /\ RecalledRow(r) \in [Places -> Letters \cup {NUL}]
          /\ \A i \in 0 .. n - 1 : RecalledRow(r)[i] = cmd_history[r][i]
  BY RecalledText
<1>2. n \in 0 .. FINSH_CMD_SIZE - 1
  BY DEF LineSizeAssumption
<1>3. LinePart'
  BY <1>1, <1>2, ShownLine
<1>4. HistoryPart /\ history_count \in 0 .. FINSH_HISTORY_LINES /\ FINSH_HISTORY_LINES \in Nat
  BY LineInvSays DEF HistoryPart, LineSizeAssumption
<1>5. HistoryPart'
  BY <1>4 DEF HistoryPart, HistoryIsText, IsText
<1> QED BY <1>3, <1>5

LEMMA UpStep == ASSUME LineSizeAssumption, LineInv, UpKey PROVE LineInv'
<1>0. LinePart /\ HistoryPart /\ KeyPart' /\ UNCHANGED <<cmd_history, history_count>>
  BY LineInvSays DEF UpKey, Handles, KeyPart, Keys
<1>1. CASE current_history > 0
  <2>1. current_history' = current_history - 1 /\ Shows(RecalledRow(current_history')) /\ discarded' = FALSE
    BY <1>1 DEF UpKey
  <2>2. current_history - 1 \in 0 .. history_count - 1
    BY <1>0, <1>1 DEF HistoryPart, HistoryIsText, LineSizeAssumption
  <2>3. LinePart' /\ HistoryPart'
    BY <1>0, <2>1, <2>2, RecallStep
  <2> QED BY <1>0, <2>3, LineInvNext
<1>2. CASE ~(current_history > 0)
  <2>1. UNCHANGED <<lineVars, discarded>> /\ UNCHANGED historyVars
    BY <1>0, <1>2 DEF UpKey, historyVars
  <2>2. LinePart' /\ HistoryPart'
    BY <1>0, <2>1, LineUnchanged, HistoryUnchanged
  <2> QED BY <1>0, <2>2, LineInvNext
<1> QED BY <1>1, <1>2

LEMMA DownStep == ASSUME LineSizeAssumption, LineInv, DownKey PROVE LineInv'
<1>0. LinePart /\ HistoryPart /\ KeyPart' /\ UNCHANGED <<cmd_history, history_count>>
  BY LineInvSays DEF DownKey, Handles, KeyPart, Keys
<1>00. /\ history_count \in Nat /\ current_history \in Nat /\ current_history <= history_count
  BY <1>0 DEF HistoryPart, HistoryIsText, LineSizeAssumption
<1>1. CASE ~(current_history >= history_count - 1 /\ history_count = 0)
  <2>1. /\ current_history' = IF current_history < history_count - 1
                              THEN current_history + 1 ELSE history_count - 1
        /\ Shows(RecalledRow(current_history')) /\ discarded' = FALSE
    BY <1>1 DEF DownKey
  <2>2. current_history' \in 0 .. history_count - 1
    BY <1>00, <1>1, <2>1
  <2> SUFFICES ASSUME NEW r \in 0 .. history_count - 1, r = current_history' PROVE LineInv'
    BY <2>2
  <2>3. LinePart' /\ HistoryPart'
    BY <1>0, <2>1, RecallStep
  <2> QED BY <1>0, <2>3, LineInvNext
<1>2. CASE current_history >= history_count - 1 /\ history_count = 0
  <2>1. UNCHANGED <<lineVars, discarded>> /\ UNCHANGED historyVars
    BY <1>0, <1>2 DEF DownKey, historyVars
  <2>2. LinePart' /\ HistoryPart'
    BY <1>0, <2>1, LineUnchanged, HistoryUnchanged
  <2> QED BY <1>0, <2>2, LineInvNext
<1> QED BY <1>1, <1>2

LEMMA CursorStep == ASSUME LineSizeAssumption, LineInv, LeftKey \/ RightKey PROVE LineInv'
<1>0. LinePart /\ HistoryPart /\ KeyPart' /\ discarded' = discarded
  BY LineInvSays DEF LeftKey, RightKey, Handles, KeyPart, Keys
<1>1. HistoryPart'
  BY <1>0, HistoryUnchanged DEF LeftKey, RightKey
<1>2. LinePart'
  <2>1. /\ line_position' = line_position /\ line' = line /\ FINSH_CMD_SIZE \in Nat
        /\ line_curpos \in Nat /\ line_position \in Nat /\ line_curpos <= line_position
        /\ line_position < FINSH_CMD_SIZE
    BY <1>0 DEF LinePart, LeftKey, RightKey, LineSizeAssumption, Places
  <2>2. line_curpos' \in 0 .. line_position
    BY <2>1 DEF LeftKey, RightKey
  <2>3. line_curpos' \in Places /\ line_curpos' <= line_position'
    BY <2>1, <2>2 DEF Places
  <2> QED BY <1>0, <2>1, <2>3 DEF LinePart
<1> QED BY <1>0, <1>1, <1>2, LineInvNext

LEMMA TabStep ==
    ASSUME LineSizeAssumption, NamesAssumption, LettersAssumption, LineInv, ~discarded, Tab
    PROVE  LineInv'
<1>0. /\ LinePart /\ HistoryPart /\ KeyPart' /\ Shows(Completed) /\ UNCHANGED historyVars
      /\ discarded' = discarded
  BY LineInvSays DEF Tab, Handles, KeyPart, Keys
<1>1. PICK n \in line_position .. FINSH_CMD_SIZE - 1 :
              /\ IsText(Completed, n, FINSH_CMD_SIZE + 1)
              /\ Completed \in [Places -> Letters \cup {NUL}]
  BY CompletedText
<1>2. n \in 0 .. FINSH_CMD_SIZE - 1
  BY <1>0 DEF LinePart, Places, LineSizeAssumption
<1>3. LinePart'
  <2>1. discarded' = FALSE
    BY <1>0 DEF LinePart
  <2> QED BY <1>0, <1>1, <1>2, <2>1, ShownLine
<1>4. HistoryPart'
  BY <1>0, HistoryUnchanged
<1> QED BY <1>0, <1>3, <1>4, LineInvNext

LEMMA BackspaceStep == ASSUME LineSizeAssumption, LineInv, Backspace PROVE LineInv'
<1>0. LinePart /\ HistoryPart /\ KeyPart' /\ UNCHANGED historyVars /\ discarded' = discarded
  BY LineInvSays DEF Backspace, Handles, KeyPart, Keys
<1>1. HistoryPart'
  BY <1>0, HistoryUnchanged
<1>2. LinePart'
  <2>1. CASE line_curpos = 0
    BY <1>0, <2>1, LineUnchanged DEF Backspace
  <2>2. CASE line_curpos # 0
    <3>1. /\ line_position' = line_position - 1 /\ line_curpos' = line_curpos - 1
          /\ line' = [i \in Places |-> IF i = line_position' THEN NUL
                                       ELSE IF i >= line_curpos' /\ i < line_position' THEN line[i + 1]
                                       ELSE line[i]]
      BY <2>2 DEF Backspace
    <3>2. /\ FINSH_CMD_SIZE \in Nat /\ line_curpos \in Nat /\ line_position \in Nat
          /\ line_curpos <= line_position /\ line_position < FINSH_CMD_SIZE /\ line_curpos >= 1
          /\ line \in [Places -> Letters \cup {NUL}]
          /\ \A i \in Places : i < line_position => line[i] # NUL
      BY <1>0, <2>2 DEF LinePart, LineSizeAssumption, Places
    <3>3. /\ line_position' \in Places /\ line_curpos' \in Places
          /\ line_curpos' <= line_position' /\ line_position' < FINSH_CMD_SIZE
      BY <3>1, <3>2 DEF Places
    <3>4. \A i \in Places : i \in Nat /\ (i < line_position' => i + 1 \in Places)
      BY <3>1, <3>2 DEF Places
    <3>5. line' \in [Places -> Letters \cup {NUL}]
      BY <3>1, <3>2, <3>4
    <3>6. ASSUME NEW i \in Places PROVE i < line_position' => line'[i] # NUL
      <4> SUFFICES ASSUME i < line_position' PROVE line'[i] # NUL
        OBVIOUS
      <4>1. i + 1 \in Places /\ i < line_position /\ i + 1 < line_position /\ i # line_position'
        BY <3>1, <3>2, <3>4
      <4>2. line'[i] = line[i + 1] \/ line'[i] = line[i]
        BY <3>1, <4>1
      <4> QED BY <3>2, <4>1, <4>2
    <3>7. \A i \in Places : i > line_position' => line'[i] = line[i]
      BY <3>1, <3>2, <3>4
    <3>8. line'[line_position'] = NUL
      BY <3>1, <3>3
    <3>9. /\ FINSH_CMD_SIZE \in Places /\ FINSH_CMD_SIZE > line_position'
          /\ FINSH_CMD_SIZE - 1 \in Places /\ FINSH_CMD_SIZE - 1 > line_position'
      BY <3>1, <3>2 DEF Places
    <3>10. line'[FINSH_CMD_SIZE] = NUL
      BY <1>0, <3>7, <3>9 DEF LinePart
    <3>11. discarded => line'[FINSH_CMD_SIZE - 1] # NUL
      BY <1>0, <3>7, <3>9 DEF LinePart
    <3>12. ~discarded => \A i \in Places : i >= line_position' => line'[i] = NUL
      <4> SUFFICES ASSUME ~discarded, NEW i \in Places, i >= line_position' PROVE line'[i] = NUL
        OBVIOUS
      <4>1. CASE i = line_position'
        BY <3>8, <4>1
      <4>2. CASE i # line_position'
        <5>1. i > line_position' /\ i >= line_position
          BY <3>1, <3>2, <3>4, <4>2
        <5> QED BY <1>0, <3>7, <5>1 DEF LinePart
      <4> QED BY <4>1, <4>2
    <3> QED BY <1>0, <3>3, <3>5, <3>6, <3>10, <3>11, <3>12 DEF LinePart
  <2> QED BY <2>1, <2>2
<1> QED BY <1>0, <1>1, <1>2, LineInvNext

(* What a letter leaves: where it discards the line it fills it. *)
LEMMA LetterLine ==
    ASSUME LineSizeAssumption, LinePart, NEW key, Letter(key)
    PROVE  /\ line' = [i \in Places |-> IF i = line_curpos THEN key
                                        ELSE IF i > line_curpos /\ i <= line_position THEN line[i - 1]
                                        ELSE line[i]]
           /\ line_position + 1 < FINSH_CMD_SIZE =>
                 /\ line_position' = line_position + 1 /\ line_curpos' = line_curpos + 1
                 /\ discarded' = discarded
           /\ ~(line_position + 1 < FINSH_CMD_SIZE) =>
                 /\ line_position' = 0 /\ line_curpos' = 0 /\ discarded' = TRUE
<1>1. /\ FINSH_CMD_SIZE \in Nat /\ line_curpos \in Nat /\ line_position \in Nat
      /\ line_curpos <= line_position /\ line_position < FINSH_CMD_SIZE
      /\ discarded \in BOOLEAN
  BY DEF LinePart, LineSizeAssumption, Places
<1>2. /\ (IF line_position >= FINSH_CMD_SIZE THEN 0 ELSE line_position) = line_position
      /\ (IF line_curpos < line_position THEN line_curpos ELSE line_position) = line_curpos
  BY <1>1
<1>3. /\ line' = [i \in Places |-> IF i = line_curpos THEN key
                                   ELSE IF i > line_curpos /\ i <= line_position THEN line[i - 1]
                                   ELSE line[i]]
      /\ line_position' = IF line_position + 1 >= FINSH_CMD_SIZE THEN 0 ELSE line_position + 1
      /\ line_curpos' = IF line_position + 1 >= FINSH_CMD_SIZE THEN 0 ELSE line_curpos + 1
      /\ discarded' = (discarded \/ line_position + 1 >= FINSH_CMD_SIZE)
  BY <1>2 DEF Letter
<1>4. CASE line_position + 1 < FINSH_CMD_SIZE
  <2>1. ~(line_position + 1 >= FINSH_CMD_SIZE)
    BY <1>1, <1>4
  <2> QED BY <1>1, <1>3, <1>4, <2>1
<1>5. CASE ~(line_position + 1 < FINSH_CMD_SIZE)
  <2>1. line_position + 1 >= FINSH_CMD_SIZE
    BY <1>1, <1>5
  <2> QED BY <1>3, <1>5, <2>1
<1> QED BY <1>4, <1>5

LEMMA LetterStep ==
    ASSUME LineSizeAssumption, LettersAssumption, LineInv, NEW key \in Letters, Letter(key)
    PROVE  LineInv'
<1>0. LinePart /\ HistoryPart /\ KeyPart' /\ UNCHANGED historyVars
  BY LineInvSays DEF Letter, Handles, KeyPart, Keys
<1>1. HistoryPart'
  BY <1>0, HistoryUnchanged
<1>2. /\ FINSH_CMD_SIZE \in Nat /\ line_curpos \in Nat /\ line_position \in Nat
      /\ line_curpos <= line_position /\ line_position < FINSH_CMD_SIZE
      /\ line \in [Places -> Letters \cup {NUL}]
      /\ \A i \in Places : i < line_position => line[i] # NUL
      /\ line[FINSH_CMD_SIZE] = NUL
  BY <1>0 DEF LinePart, LineSizeAssumption, Places
<1>3. /\ line' = [i \in Places |-> IF i = line_curpos THEN key
                                   ELSE IF i > line_curpos /\ i <= line_position THEN line[i - 1]
                                   ELSE line[i]]
      /\ line_position + 1 < FINSH_CMD_SIZE =>
            /\ line_position' = line_position + 1 /\ line_curpos' = line_curpos + 1
            /\ discarded' = discarded
      /\ ~(line_position + 1 < FINSH_CMD_SIZE) =>
            /\ line_position' = 0 /\ line_curpos' = 0 /\ discarded' = TRUE
  BY <1>0, LetterLine
<1>4. key # NUL
  BY NoKeyIsLetter
<1>5. \A i \in Places : i \in Nat /\ (i > line_curpos => i - 1 \in Places)
  BY <1>2 DEF Places
<1>6. line' \in [Places -> Letters \cup {NUL}]
  BY <1>2, <1>3, <1>5
<1>7. ASSUME NEW i \in Places, i <= line_position PROVE line'[i] # NUL
  <2>1. CASE i = line_curpos
    BY <1>3, <1>4, <2>1
  <2>2. CASE i > line_curpos
    <3>1. line'[i] = line[i - 1] /\ i - 1 \in Places /\ i - 1 < line_position
      BY <1>2, <1>3, <1>5, <1>7, <2>2
    <3> QED BY <1>2, <3>1
  <2>3. CASE i < line_curpos
    <3>1. line'[i] = line[i] /\ i < line_position
      BY <1>2, <1>3, <1>5, <2>3
    <3> QED BY <1>2, <3>1
  <2> QED BY <1>2, <1>5, <2>1, <2>2, <2>3
<1>8. ASSUME NEW i \in Places, i > line_position PROVE line'[i] = line[i]
  BY <1>2, <1>3, <1>5, <1>8
<1>9. FINSH_CMD_SIZE \in Places /\ FINSH_CMD_SIZE - 1 \in Places
  BY <1>2 DEF Places
<1>10. line'[FINSH_CMD_SIZE] = NUL
  BY <1>2, <1>8, <1>9
<1>11. CASE line_position + 1 < FINSH_CMD_SIZE
  <2>1. line_position' = line_position + 1 /\ line_curpos' = line_curpos + 1 /\ discarded' = discarded
    BY <1>3, <1>11
  <2>2. /\ line_position' \in Places /\ line_curpos' \in Places
        /\ line_curpos' <= line_position' /\ line_position' < FINSH_CMD_SIZE
    BY <1>2, <1>11, <2>1 DEF Places
  <2>3. \A i \in Places : i < line_position' => line'[i] # NUL
    BY <1>2, <1>5, <1>7, <2>1
  <2>4. discarded => line'[FINSH_CMD_SIZE - 1] # NUL
    <3>1. FINSH_CMD_SIZE - 1 > line_position
      BY <1>2, <1>11
    <3> QED BY <1>0, <1>8, <1>9, <3>1 DEF LinePart
  <2>5. ~discarded => \A i \in Places : i >= line_position' => line'[i] = NUL
    <3> SUFFICES ASSUME ~discarded, NEW i \in Places, i >= line_position' PROVE line'[i] = NUL
      OBVIOUS
    <3>1. i > line_position /\ i >= line_position
      BY <1>2, <1>5, <2>1
    <3> QED BY <1>0, <1>8, <3>1 DEF LinePart
  <2>6. LinePart'
    BY <1>0, <1>6, <1>10, <2>1, <2>2, <2>3, <2>4, <2>5 DEF LinePart
  <2> QED BY <1>0, <1>1, <2>6, LineInvNext
<1>12. CASE ~(line_position + 1 < FINSH_CMD_SIZE)
  <2>1. line_position' = 0 /\ line_curpos' = 0 /\ discarded' = TRUE
    BY <1>3, <1>12
  <2>2. FINSH_CMD_SIZE - 1 <= line_position
    BY <1>2, <1>12
  <2>3. line'[FINSH_CMD_SIZE - 1] # NUL
    BY <1>7, <1>9, <2>2
  <2>4. /\ line_position' \in Places /\ line_curpos' \in Places
        /\ line_curpos' <= line_position' /\ line_position' < FINSH_CMD_SIZE
        /\ \A i \in Places : ~(i < line_position')
    BY <1>2, <2>1 DEF Places
  <2>5. LinePart'
    BY <1>6, <1>10, <2>1, <2>3, <2>4 DEF LinePart
  <2> QED BY <1>0, <1>1, <2>5, LineInvNext
<1> QED BY <1>11, <1>12

(* The line as a row of the history. *)
LEMMA TypedRowIs ==
    ASSUME LineSizeAssumption, LinePart
    PROVE  /\ TypedRow \in [Columns -> Letters \cup {NUL}]
           /\ IsText(TypedRow, line_position, FINSH_CMD_SIZE)
           /\ \A i \in Columns : i < line_position => TypedRow[i] = line[i]
<1>1. /\ FINSH_CMD_SIZE \in Nat /\ line_position \in Nat /\ line_position < FINSH_CMD_SIZE
      /\ line \in [Places -> Letters \cup {NUL}]
      /\ \A i \in Places : i < line_position => line[i] # NUL
  BY DEF LinePart, LineSizeAssumption, Places
<1>2. \A i \in Columns : i \in Places /\ i \in Nat
  BY <1>1 DEF Places, Columns
<1>3. \A i \in Columns : TypedRow[i] = IF i < line_position THEN line[i] ELSE NUL
  BY DEF TypedRow
<1>4. TypedRow \in [Columns -> Letters \cup {NUL}]
  BY <1>1, <1>2 DEF TypedRow
<1>5. \A i \in Columns : TypedRow[i] = NUL <=> i >= line_position
  BY <1>1, <1>2, <1>3
<1> QED BY <1>1, <1>3, <1>4, <1>5 DEF IsText, Columns

LEMMA EnterStep == ASSUME LineSizeAssumption, LineInv, EndOfLine PROVE LineInv'
<1>0. /\ LinePart /\ HistoryPart /\ KeyPart' /\ PushHistory
      /\ current_history' = history_count'
      /\ line' = NoLine /\ line_position' = 0 /\ line_curpos' = 0 /\ discarded' = FALSE
  BY LineInvSays DEF EndOfLine, Handles, KeyPart, Keys
<1>1. LinePart'
  <2>1. /\ line' \in [Places -> Letters \cup {NUL}] /\ line'[FINSH_CMD_SIZE] = NUL
        /\ 0 \in Places /\ 0 < FINSH_CMD_SIZE
        /\ \A i \in Places : line'[i] = NUL /\ ~(i < 0)
    BY <1>0, EmptyLine
  <2>2. /\ line_position' \in Places /\ line_curpos' \in Places
        /\ line_curpos' <= line_position' /\ line_position' < FINSH_CMD_SIZE
        /\ \A i \in Places : i < line_position' => line'[i] # NUL
        /\ \A i \in Places : i >= line_position' => line'[i] = NUL
    BY <1>0, <2>1
  <2> QED BY <1>0, <2>1, <2>2 DEF LinePart
<1>2. /\ history_count \in 0 .. FINSH_HISTORY_LINES /\ FINSH_HISTORY_LINES \in Nat \ {0}
      /\ FINSH_CMD_SIZE \in Nat
      /\ cmd_history \in [Rows -> [Columns -> Letters \cup {NUL}]]
      /\ line_position \in Nat /\ line_position < FINSH_CMD_SIZE
  BY <1>0 DEF HistoryPart, LineSizeAssumption, LinePart, Places
<1>3. /\ TypedRow \in [Columns -> Letters \cup {NUL}]
      /\ IsText(TypedRow, line_position, FINSH_CMD_SIZE)
  BY <1>0, TypedRowIs
<1>4. \A r \in 0 .. history_count - 1 :
          \E n \in 1 .. FINSH_CMD_SIZE - 1 : IsText(cmd_history[r], n, FINSH_CMD_SIZE)
  BY <1>0 DEF HistoryPart, HistoryIsText
<1>5. CASE line_position = 0 \/ SameAsLast
  <2>1. cmd_history' = cmd_history /\ history_count' = history_count
    BY <1>0, <1>5 DEF PushHistory
  <2>2. HistoryPart'
    BY <1>0, <1>2, <2>1 DEF HistoryPart, HistoryIsText, IsText
  <2> QED BY <1>0, <1>1, <2>2, LineInvNext
<1>6. CASE ~(line_position = 0 \/ SameAsLast)
  <2>0. line_position \in 1 .. FINSH_CMD_SIZE - 1
    BY <1>2, <1>6
  <2>1. CASE history_count >= FINSH_HISTORY_LINES
    <3>1. /\ cmd_history' = [r \in Rows |-> IF r < FINSH_HISTORY_LINES - 1 THEN cmd_history[r + 1] ELSE TypedRow]
          /\ history_count' = history_count /\ history_count = FINSH_HISTORY_LINES
      BY <1>0, <1>2, <1>6, <2>1 DEF PushHistory
    <3>2. \A r \in Rows : r \in Nat /\ (r < FINSH_HISTORY_LINES - 1 => r + 1 \in Rows)
      BY <1>2 DEF Rows
    <3>3. cmd_history' \in [Rows -> [Columns -> Letters \cup {NUL}]]
      BY <1>2, <1>3, <3>1, <3>2
    <3>4. ASSUME NEW r \in 0 .. history_count' - 1
          PROVE  \E n \in 1 .. FINSH_CMD_SIZE - 1 : IsText(cmd_history'[r], n, FINSH_CMD_SIZE)
      <4>1. r \in Rows /\ r \in Nat
        BY <1>2, <3>1 DEF Rows
      <4>2. CASE r < FINSH_HISTORY_LINES - 1
        <5>1. cmd_history'[r] = cmd_history[r + 1]
          BY <3>1, <4>1, <4>2
        <5>2. r + 1 \in 0 .. history_count - 1
          BY <1>2, <3>1, <4>1, <4>2
        <5> QED BY <1>4, <5>1, <5>2
      <4>3. CASE ~(r < FINSH_HISTORY_LINES - 1)
        <5>1. cmd_history'[r] = TypedRow
          BY <3>1, <4>1, <4>3
        <5> QED BY <1>3, <2>0, <5>1
      <4> QED BY <4>2, <4>3
    <3>5. HistoryPart'
      BY <1>0, <1>2, <3>1, <3>3, <3>4 DEF HistoryPart, HistoryIsText
    <3> QED BY <1>0, <1>1, <3>5, LineInvNext
  <2>2. CASE ~(history_count >= FINSH_HISTORY_LINES)
    <3>1. /\ cmd_history' = [cmd_history EXCEPT ![history_count] = TypedRow]
          /\ history_count' = history_count + 1
      BY <1>0, <1>6, <2>2 DEF PushHistory
    <3>2. history_count \in Rows /\ history_count' \in 0 .. FINSH_HISTORY_LINES
      BY <1>2, <2>2, <3>1 DEF Rows
    <3>3. cmd_history' \in [Rows -> [Columns -> Letters \cup {NUL}]]
      BY <1>2, <1>3, <3>1, <3>2
    <3>4. ASSUME NEW r \in 0 .. history_count' - 1
          PROVE  \E n \in 1 .. FINSH_CMD_SIZE - 1 : IsText(cmd_history'[r], n, FINSH_CMD_SIZE)
      <4>1. r \in Rows /\ r \in Nat
        BY <1>2, <2>2, <3>1 DEF Rows
      <4>2. CASE r # history_count
        <5>1. cmd_history'[r] = cmd_history[r]
          BY <1>2, <3>1, <4>1, <4>2
        <5>2. r \in 0 .. history_count - 1
          BY <1>2, <3>1, <4>1, <4>2
        <5> QED BY <1>4, <5>1, <5>2
      <4>3. CASE r = history_count
        <5>1. cmd_history'[r] = TypedRow
          BY <1>2, <3>1, <4>1, <4>3
        <5> QED BY <1>3, <2>0, <5>1
      <4> QED BY <4>2, <4>3
    <3>5. HistoryPart'
      <4>1. current_history' \in 0 .. FINSH_HISTORY_LINES /\ current_history' <= history_count'
        BY <1>0, <1>2, <3>2
      <4> QED BY <3>2, <3>3, <3>4, <4>1 DEF HistoryPart, HistoryIsText
    <3> QED BY <1>0, <1>1, <3>5, LineInvNext
  <2> QED BY <2>1, <2>2
<1> QED BY <1>5, <1>6

LEMMA QuietKeyStep ==
    ASSUME LineInv, UNCHANGED <<lineVars, historyVars, discarded>>, KeyPart'
    PROVE  LineInv'
BY LineInvSays, LineUnchanged, HistoryUnchanged, LineInvNext

LEMMA LineStep ==
    ASSUME LettersAssumption, LineSizeAssumption, NamesAssumption, ~TabAlways, LineInv,
           [ShellNext]_shellVars
    PROVE  LineInv'
<1>1. CASE Escape
  BY <1>1, QuietKeyStep DEF Escape, Handles, KeyPart, Keys
<1>2. CASE Bracket
  BY <1>2, QuietKeyStep DEF Bracket, Handles, KeyPart, Keys
<1>3. CASE UpKey BY <1>3, UpStep
<1>4. CASE DownKey BY <1>4, DownStep
<1>5. CASE LeftKey \/ RightKey BY <1>5, CursorStep
<1>6. CASE Nul
  BY <1>6, QuietKeyStep DEF Nul, Handles, KeyPart, Keys
<1>7. CASE (TabAlways \/ ~discarded) /\ Tab BY <1>7, TabStep
<1>8. CASE Backspace BY <1>8, BackspaceStep
<1>9. CASE EndOfLine BY <1>9, EnterStep
<1>10. CASE \E key \in Letters : Letter(key) BY <1>10, LetterStep
<1>11. CASE UNCHANGED shellVars
  <2>1. UNCHANGED <<lineVars, historyVars, discarded>> /\ stat' = stat /\ pressed' = pressed
    BY <1>11 DEF shellVars, lineVars, historyVars
  <2>2. KeyPart'
    BY <2>1, LineInvSays DEF KeyPart
  <2> QED BY <2>1, <2>2, QuietKeyStep
<1> QED BY <1>1, <1>2, <1>3, <1>4, <1>5, <1>6, <1>7, <1>8, <1>9, <1>10, <1>11 DEF ShellNext

(* For any FINSH_CMD_SIZE and history: whatever keys finsh_thread_entry gets, *)
(* but for a completion after a line that was discarded, both positions stay  *)
(* in shell->line, which has no zero before line_position and only zeros from *)
(* there on unless a line was discarded.                                     *)
THEOREM LineStaysText ==
    ASSUME ~TabAlways
    PROVE  ShellSpec => []LineIsText
<1>1. ShellInit => LineInv
  BY LineStarts, LineSizeAssumption
<1>2. LineInv /\ [ShellNext]_shellVars => LineInv'
  BY LineStep, LettersAssumption, LineSizeAssumption, NamesAssumption
<1>3. LineInv => LineIsText
  BY DEF LineInv
<1> QED BY <1>1, <1>2, <1>3, PTL DEF ShellSpec

-----------------------------------------------------------------------------
(* Texts as sequences *)

(* t is the first n letters of l. *)
IsTextOf(t, l, n) == t \in Seq(Letters) /\ Len(t) = n /\ \A i \in 1 .. n : t[i] = l[i - 1]

LEMMA TextIs ==
    ASSUME NEW n \in Nat, NEW l, \A i \in 0 .. n - 1 : l[i] \in Letters
    PROVE  IsTextOf(Text(l, n), l, n)
<1>1. \A i \in 1 .. n : l[i - 1] \in Letters
  <2> SUFFICES ASSUME NEW i \in 1 .. n PROVE l[i - 1] \in Letters
    OBVIOUS
  <2>1. i - 1 \in 0 .. n - 1
    OBVIOUS
  <2> QED BY <2>1
<1>2. Text(l, n) = [i \in 1 .. n |-> l[i - 1]]
  BY DEF Text
<1>3. Text(l, n) \in [1 .. n -> Letters]
  BY <1>1, <1>2
<1>4. Text(l, n) \in Seq(Letters) /\ Len(Text(l, n)) = n /\ \A i \in 1 .. n : Text(l, n)[i] = l[i - 1]
  BY <1>2, <1>3, SeqDef
<1> QED BY <1>4 DEF IsTextOf

(* r is s from behind its first j up to its m-th. *)
IsPiece(S, r, s, j, m) == r \in Seq(S) /\ Len(r) = m - j /\ \A i \in 1 .. m - j : r[i] = s[j + i]

LEMMA PieceIs ==
    ASSUME NEW S, NEW s \in Seq(S), NEW n \in Nat, Len(s) = n, NEW j \in 0 .. n, NEW m \in j .. n,
           NEW f, f = j + 1, NEW r, r = SubSeq(s, f, m)
    PROVE  IsPiece(S, r, s, j, m)
<1>1. f \in Int /\ m \in Int /\ \A i \in f .. m : i \in 1 .. Len(s)
  OBVIOUS
<1>2. \A i \in f .. m : s[i] \in S
  BY <1>1, ElementOfSeq
<1>3. /\ r \in Seq(S) /\ Len(r) = (IF f <= m THEN m - f + 1 ELSE 0)
      /\ \A i \in 1 .. m - f + 1 : r[i] = s[f + i - 1]
  BY <1>1, <1>2, SubSeqProperties
<1>4. Len(r) = m - j
  BY <1>3
<1>5. ASSUME NEW i \in 1 .. m - j PROVE r[i] = s[j + i]
  <2>1. i \in 1 .. m - f + 1 /\ f + i - 1 = j + i
    OBVIOUS
  <2> QED BY <1>3, <2>1
<1> QED BY <1>3, <1>4, <1>5 DEF IsPiece

(* r is a, of length p, and b, of length q, behind it. *)
IsJoin(S, r, a, b, p, q) ==
    /\ r \in Seq(S) /\ Len(r) = p + q
    /\ \A i \in 1 .. p : r[i] = a[i]
    /\ \A i \in 1 .. q : r[p + i] = b[i]

LEMMA JoinIs ==
    ASSUME NEW S, NEW a \in Seq(S), NEW b \in Seq(S)
    PROVE  IsJoin(S, a \o b, a, b, Len(a), Len(b))
<1> SUFFICES ASSUME NEW p \in Nat, NEW q \in Nat, NEW r, p = Len(a), q = Len(b), r = a \o b
             PROVE  IsJoin(S, r, a, b, p, q)
  BY LenProperties
<1>1. /\ r \in Seq(S) /\ Len(r) = p + q
      /\ \A i \in 1 .. p + q : r[i] = IF i <= p THEN a[i] ELSE b[i - p]
  BY ConcatProperties
<1>2. ASSUME NEW i \in 1 .. p PROVE r[i] = a[i]
  <2>1. i \in 1 .. p + q /\ i <= p
    OBVIOUS
  <2> QED BY <1>1, <2>1
<1>3. ASSUME NEW i \in 1 .. q PROVE r[p + i] = b[i]
  <2>1. p + i \in 1 .. p + q /\ ~(p + i <= p) /\ (p + i) - p = i
    OBVIOUS
  <2> QED BY <1>1, <2>1
<1> QED BY <1>1, <1>2, <1>3 DEF IsJoin

(* r is s, of length n, with x put behind its first k. *)
IsInserted(S, r, s, n, k, x) ==
    /\ r \in Seq(S) /\ Len(r) = n + 1
    /\ \A i \in 1 .. k : r[i] = s[i]
    /\ r[k + 1] = x
    /\ \A i \in k + 1 .. n : r[i + 1] = s[i]

LEMMA InsertedText ==
    ASSUME NEW S, NEW s \in Seq(S), NEW n \in Nat, Len(s) = n, NEW k \in 0 .. n, NEW x \in S,
           NEW r, r = (SubSeq(s, 1, k) \o <<x>>) \o SubSeq(s, k + 1, Len(s))
    PROVE  IsInserted(S, r, s, n, k, x)
<1> SUFFICES ASSUME NEW a, a = SubSeq(s, 1, k), NEW b, b = SubSeq(s, k + 1, n), NEW m, m = a \o <<x>>
             PROVE  IsInserted(S, r, s, n, k, x)
  OBVIOUS
<1>0. /\ k \in Nat /\ n - k \in Nat /\ 0 \in 0 .. n /\ 1 = 0 + 1 /\ n \in k .. n /\ k - 0 = k
      /\ r = m \o b
  OBVIOUS
<1>1. a \in Seq(S) /\ Len(a) = k /\ \A i \in 1 .. k : a[i] = s[i]
  <2>1. IsPiece(S, a, s, 0, k)
    BY <1>0, PieceIs
  <2>2. a \in Seq(S) /\ Len(a) = k - 0 /\ \A i \in 1 .. k - 0 : a[i] = s[0 + i]
    BY <2>1 DEF IsPiece
  <2>3. \A i \in 1 .. k : 0 + i = i
    OBVIOUS
  <2> QED BY <1>0, <2>2, <2>3
<1>2. b \in Seq(S) /\ Len(b) = n - k /\ \A i \in 1 .. n - k : b[i] = s[k + i]
  <2>1. IsPiece(S, b, s, k, n)
    BY <1>0, PieceIs
  <2> QED BY <2>1 DEF IsPiece
<1>3. <<x>> \in Seq(S) /\ Len(<<x>>) = 1 /\ <<x>>[1] = x
  OBVIOUS
<1>4. /\ m \in Seq(S) /\ Len(m) = k + 1
      /\ \A i \in 1 .. k : m[i] = a[i]
      /\ \A i \in 1 .. 1 : m[k + i] = <<x>>[i]
  <2>1. IsJoin(S, m, a, <<x>>, Len(a), Len(<<x>>))
    BY <1>1, <1>3, JoinIs
  <2>2. IsJoin(S, m, a, <<x>>, k, 1)
    BY <1>1, <1>3, <2>1
  <2> QED BY <2>2 DEF IsJoin
<1>5. k + 1 \in Nat /\ 1 \in 1 .. 1 /\ (k + 1) + (n - k) = n + 1
  BY <1>0
<1>6. /\ r \in Seq(S) /\ Len(r) = n + 1
      /\ \A i \in 1 .. k + 1 : r[i] = m[i]
      /\ \A i \in 1 .. n - k : r[(k + 1) + i] = b[i]
  <2>1. /\ r \in Seq(S) /\ Len(r) = (k + 1) + (n - k)
        /\ \A i \in 1 .. k + 1 : r[i] = m[i]
        /\ \A i \in 1 .. n - k : r[(k + 1) + i] = b[i]
    <3>1. IsJoin(S, r, m, b, Len(m), Len(b))
      BY <1>0, <1>2, <1>4, JoinIs
    <3>2. IsJoin(S, r, m, b, k + 1, n - k)
      BY <1>2, <1>4, <3>1
    <3> QED BY <3>2 DEF IsJoin
  <2> QED BY <1>5, <2>1
<1>7. ASSUME NEW i \in 1 .. k PROVE r[i] = s[i]
  <2>1. i \in 1 .. k + 1
    BY <1>0
  <2> QED BY <1>1, <1>4, <1>6, <2>1
<1>8. r[k + 1] = x
  <2>1. k + 1 \in 1 .. k + 1 /\ m[k + 1] = x
    BY <1>0, <1>3, <1>4, <1>5
  <2> QED BY <1>6, <2>1
<1>9. ASSUME NEW i \in k + 1 .. n PROVE r[i + 1] = s[i]
  <2>1. PICK j \in 1 .. n - k : (k + 1) + j = i + 1 /\ k + j = i
    <3>1. i - k \in 1 .. n - k /\ (k + 1) + (i - k) = i + 1 /\ k + (i - k) = i
      BY <1>0
    <3> QED BY <3>1
  <2>2. r[(k + 1) + j] = b[j] /\ b[j] = s[k + j]
    BY <1>2, <1>6
  <2> QED BY <2>1, <2>2
<1> QED BY <1>6, <1>7, <1>8, <1>9 DEF IsInserted

(* r is s, of length n, without its k-th. *)
IsErased(S, r, s, n, k) ==
    /\ r \in Seq(S) /\ Len(r) = n - 1
    /\ \A i \in 1 .. k - 1 : r[i] = s[i]
    /\ \A i \in k .. n - 1 : r[i] = s[i + 1]

LEMMA ErasedText ==
    ASSUME NEW S, NEW s \in Seq(S), NEW n \in Nat, Len(s) = n, NEW k \in 1 .. n,
           NEW r, r = SubSeq(s, 1, k - 1) \o SubSeq(s, k + 1, Len(s))
    PROVE  IsErased(S, r, s, n, k)
<1> SUFFICES ASSUME NEW a, a = SubSeq(s, 1, k - 1), NEW b, b = SubSeq(s, k + 1, n)
             PROVE  IsErased(S, r, s, n, k)
  OBVIOUS
<1>0. /\ k - 1 \in Nat /\ n - k \in Nat /\ 0 \in 0 .. n /\ 1 = 0 + 1 /\ n \in k .. n /\ k - 1 \in 0 .. n
      /\ k \in 0 .. n /\ (k - 1) - 0 = k - 1 /\ r = a \o b
  OBVIOUS
<1>1. a \in Seq(S) /\ Len(a) = k - 1 /\ \A i \in 1 .. k - 1 : a[i] = s[i]
  <2>1. IsPiece(S, a, s, 0, k - 1)
    BY <1>0, PieceIs
  <2>2. a \in Seq(S) /\ Len(a) = (k - 1) - 0 /\ \A i \in 1 .. (k - 1) - 0 : a[i] = s[0 + i]
    BY <2>1 DEF IsPiece
  <2>3. \A i \in 1 .. k - 1 : 0 + i = i
    OBVIOUS
  <2> QED BY <1>0, <2>2, <2>3
<1>2. b \in Seq(S) /\ Len(b) = n - k /\ \A i \in 1 .. n - k : b[i] = s[k + i]
  <2>1. IsPiece(S, b, s, k, n)
    BY <1>0, PieceIs
  <2> QED BY <2>1 DEF IsPiece
<1>3. /\ r \in Seq(S) /\ Len(r) = (k - 1) + (n - k)
      /\ \A i \in 1 .. k - 1 : r[i] = a[i]
      /\ \A i \in 1 .. n - k : r[(k - 1) + i] = b[i]
  <2>1. IsJoin(S, r, a, b, Len(a), Len(b))
    BY <1>0, <1>1, <1>2, JoinIs
  <2>2. IsJoin(S, r, a, b, k - 1, n - k)
    BY <1>1, <1>2, <2>1
  <2> QED BY <2>2 DEF IsJoin
<1>4. (k - 1) + (n - k) = n - 1
  BY <1>0
<1>5. ASSUME NEW i \in k .. n - 1 PROVE r[i] = s[i + 1]
  <2>1. i - (k - 1) \in 1 .. n - k /\ (k - 1) + (i - (k - 1)) = i /\ k + (i - (k - 1)) = i + 1
    BY <1>0
  <2> QED BY <1>2, <1>3, <2>1
<1> QED BY <1>1, <1>3, <1>4, <1>5 DEF IsErased

(* The text of the line, and the letters in it. *)
LEMMA LineText ==
    ASSUME LineSizeAssumption, LinePart
    PROVE  /\ line_position \in Nat /\ line_curpos \in 0 .. line_position /\ FINSH_CMD_SIZE \in Nat
           /\ \A i \in 0 .. line_position - 1 : i \in Places /\ line[i] \in Letters
<1>1. /\ line_position \in Nat /\ line_curpos \in 0 .. line_position /\ FINSH_CMD_SIZE \in Nat
      /\ line_position < FINSH_CMD_SIZE
  BY DEF LinePart, Places, LineSizeAssumption
<1>2. ASSUME NEW i \in 0 .. line_position - 1 PROVE i \in Places /\ line[i] \in Letters
  <2>1. i \in Places /\ i < line_position
    BY <1>1 DEF Places
  <2> QED BY <2>1 DEF LinePart
<1> QED BY <1>1, <1>2

LEMMA RowLengthIs ==
    ASSUME LineSizeAssumption, NEW row, NEW n \in 0 .. FINSH_CMD_SIZE - 1, IsText(row, n,
           FINSH_CMD_SIZE)
    PROVE  RowLength(row) = n
<1>0. FINSH_CMD_SIZE \in Nat /\ n \in Nat
  BY DEF LineSizeAssumption
<1>1. {i \in Columns : row[i] # NUL} = 0 .. n - 1
  BY <1>0 DEF IsText, Columns
<1>2. 0 \in Int /\ n - 1 \in Int
  BY <1>0
<1>3. Cardinality(0 .. n - 1) = IF 0 > n - 1 THEN 0 ELSE n - 1 - 0 + 1
  BY <1>2, FS_Interval
<1>4. Cardinality(0 .. n - 1) = n
  BY <1>0, <1>3
<1>5. RowLength(row) = Cardinality({i \in Columns : row[i] # NUL})
  BY DEF RowLength
<1> QED BY <1>1, <1>4, <1>5

LEMMA TextOfLine ==
    ASSUME LineSizeAssumption, NEW l \in [Places -> Letters \cup {NUL}], NEW n \in Places,
           n < FINSH_CMD_SIZE,
           \A i \in Places : i < n => l[i] # NUL
    PROVE  IsTextOf(Text(l, n), l, n)
<1>1. n \in Nat /\ FINSH_CMD_SIZE \in Nat
  BY DEF Places, LineSizeAssumption
<1>2. ASSUME NEW i \in 0 .. n - 1 PROVE l[i] \in Letters
  <2>1. i \in Places /\ i < n
    BY <1>1 DEF Places
  <2> QED BY <2>1
<1> QED BY <1>1, <1>2, TextIs

LEMMA LineTextPrimed ==
    ASSUME LineSizeAssumption, LinePart'
    PROVE  IsTextOf(Text(line', line_position'), line', line_position')
BY TextOfLine DEF LinePart

LEMMA LineTextIs ==
    ASSUME LineSizeAssumption, LinePart
    PROVE  /\ Text(line, line_position) \in Seq(Letters)
           /\ Len(Text(line, line_position)) = line_position
           /\ \A i \in 1 .. line_position : Text(line, line_position)[i] = line[i - 1]
<1>1. line_position \in Nat /\ \A i \in 0 .. line_position - 1 : line[i] \in Letters
  BY LineText
<1> SUFFICES ASSUME NEW l, l = line, NEW n \in Nat, n = line_position
             PROVE  /\ Text(l, n) \in Seq(Letters) /\ Len(Text(l, n)) = n
                    /\ \A i \in 1 .. n : Text(l, n)[i] = l[i - 1]
  BY <1>1
<1>2. \A i \in 0 .. n - 1 : l[i] \in Letters
  BY <1>1
<1>3. IsTextOf(Text(l, n), l, n)
  BY <1>2, TextIs
<1> QED BY <1>3 DEF IsTextOf

(* A zero in the line is not before line_position. *)
LEMMA LineLetters ==
    ASSUME LineSizeAssumption, LinePart
    PROVE  \A i \in Places : line[i] = NUL => i >= line_position
<1>1. line_position \in Nat /\ \A i \in Places : i \in Nat
  BY DEF LinePart, Places, LineSizeAssumption
<1>2. \A i \in Places : i < line_position => line[i] # NUL
  BY DEF LinePart
<1> QED BY <1>1, <1>2

(* Two texts whose characters are the same. *)
LEMMA SameText ==
    ASSUME NEW S, NEW n \in Nat, NEW s \in Seq(S), NEW t \in Seq(S), Len(s) = n, Len(t) = n,
           \A i \in 1 .. n : s[i] = t[i]
    PROVE  s = t
BY SeqEqual

LEMMA CommandsKept ==
    ASSUME UNCHANGED <<cmd_history, history_count>>
    PROVE  UNCHANGED [r \in 1 .. history_count |-> Text(cmd_history[r - 1], RowLength(cmd_history[r - 1]))]
OBVIOUS

LEMMA TextKept ==
    ASSUME UNCHANGED <<line, line_position>>
    PROVE  UNCHANGED Text(line, line_position)
OBVIOUS

(* A letter that is put into the text. *)
LEMMA LetterInserts ==
    ASSUME LineSizeAssumption, LinePart, LinePart', NEW key \in Letters, Letter(key),
           line_position + 1 < FINSH_CMD_SIZE
    PROVE  Text(line, line_position)' = (Editor!Before \o <<key>>) \o Editor!After
<1>1. /\ FINSH_CMD_SIZE \in Nat /\ line_curpos \in Nat /\ line_position \in Nat
      /\ line_curpos <= line_position
  BY DEF LinePart, LineSizeAssumption, Places
<1>2. /\ line' = [i \in Places |-> IF i = line_curpos THEN key
                                   ELSE IF i > line_curpos /\ i <= line_position THEN line[i - 1]
                                   ELSE line[i]]
      /\ line_position' = line_position + 1
  BY LetterLine
<1> DEFINE T == Text(line, line_position)
           U == Text(line', line_position')
           R == (SubSeq(T, 1, line_curpos) \o <<key>>) \o SubSeq(T, line_curpos + 1, Len(T))
<1>3. /\ T \in Seq(Letters) /\ Len(T) = line_position
      /\ \A i \in 1 .. line_position : T[i] = line[i - 1]
  BY LineTextIs
<1>4. /\ U \in Seq(Letters) /\ Len(U) = line_position'
      /\ \A i \in 1 .. line_position' : U[i] = line'[i - 1]
  BY LineTextPrimed DEF IsTextOf
<1> HIDE DEF T, U
<1>5. /\ R \in Seq(Letters) /\ Len(R) = line_position + 1
      /\ \A i \in 1 .. line_curpos : R[i] = T[i]
      /\ R[line_curpos + 1] = key
      /\ \A i \in line_curpos + 1 .. line_position : R[i + 1] = T[i]
  <2>1. line_curpos \in 0 .. line_position
    BY <1>1
  <2>2. IsInserted(Letters, R, T, line_position, line_curpos, key)
    BY <1>1, <1>3, <2>1, InsertedText
  <2> QED BY <2>2 DEF IsInserted
<1> HIDE DEF R
<1>6. ASSUME NEW i \in 1 .. line_position + 1 PROVE U[i] = R[i]
  <2>1. i - 1 \in Places /\ U[i] = line'[i - 1] /\ i - 1 \in Nat
    BY <1>1, <1>2, <1>4 DEF Places
  <2>2. line'[i - 1] = IF i - 1 = line_curpos THEN key
                       ELSE IF i - 1 > line_curpos /\ i - 1 <= line_position THEN line[(i - 1) - 1]
                       ELSE line[i - 1]
    BY <1>2, <2>1
  <2>3. CASE i - 1 = line_curpos
    <3>1. i = line_curpos + 1
      BY <1>1, <2>3
    <3> QED BY <1>5, <2>1, <2>2, <2>3, <3>1
  <2>4. CASE i - 1 < line_curpos
    <3>1. /\ i \in 1 .. line_curpos /\ i \in 1 .. line_position /\ i - 1 # line_curpos
          /\ ~(i - 1 > line_curpos)
      BY <1>1, <2>4
    <3> QED BY <1>3, <1>5, <2>1, <2>2, <3>1
  <2>5. CASE i - 1 > line_curpos
    <3> SUFFICES ASSUME NEW j \in line_curpos + 1 .. line_position, j = i - 1 PROVE U[i] = R[i]
      BY <1>1, <2>5
    <3>1. j \in 1 .. line_position /\ i - 1 # line_curpos /\ i - 1 <= line_position /\ i = j + 1
      BY <1>1, <2>5
    <3>2. R[j + 1] = T[j] /\ T[j] = line[j - 1]
      BY <1>3, <1>5, <3>1
    <3> QED BY <2>1, <2>2, <2>5, <3>1, <3>2
  <2> QED BY <1>1, <2>1, <2>3, <2>4, <2>5
<1>7. U = R
  <2>1. line_position + 1 \in Nat
    BY <1>1
  <2> QED BY <1>2, <1>4, <1>5, <1>6, <2>1, SameText
<1>8. Text(line, line_position)' = (SubSeq(T, 1, line_curpos) \o <<key>>) \o SubSeq(T, line_curpos + 1, Len(T))
  BY <1>7 DEF U, R
<1> QED BY <1>8 DEF Editor!Before, Editor!After, T

LEMMA LetterTypes ==
    ASSUME LineSizeAssumption, LineInv, LineInv', NEW key \in Letters, Letter(key)
    PROVE  Editor!Type(key)
<1>0. LinePart /\ LinePart' /\ UNCHANGED historyVars /\ pressed' = key
  BY LineInvSays, LineInvSaysNext DEF Letter, Handles
<1>1. UNCHANGED [r \in 1 .. history_count |-> Text(cmd_history[r - 1], RowLength(cmd_history[r - 1]))] /\ current_history' = current_history
  BY <1>0, CommandsKept DEF historyVars
<1>2. Len(Text(line, line_position)) = line_position
  BY <1>0, LineTextIs
<1>3. CASE line_position + 1 < FINSH_CMD_SIZE
  <2>1. line_curpos' = line_curpos + 1 /\ discarded' = discarded
    BY <1>0, <1>3, LetterLine
  <2>2. Text(line, line_position)' = (Editor!Before \o <<key>>) \o Editor!After
    BY <1>0, <1>3, LetterInserts
  <2> QED BY <1>0, <1>1, <1>2, <1>3, <2>1, <2>2 DEF Editor!Type
<1>4. CASE ~(line_position + 1 < FINSH_CMD_SIZE)
  <2>1. line_position' = 0 /\ line_curpos' = 0 /\ discarded' = TRUE
    BY <1>0, <1>4, LetterLine
  <2>2. Text(line, line_position)' = <<>>
    <3>1. Text(line', 0) = <<>>
      BY DEF Text
    <3> QED BY <2>1, <3>1
  <2> QED BY <1>0, <1>1, <1>2, <1>4, <2>1, <2>2 DEF Editor!Type
<1> QED BY <1>3, <1>4

(* A key that leaves the line and the history alone. *)
LEMMA QuietEdit ==
    ASSUME UNCHANGED <<line, line_position, line_curpos, cmd_history, history_count,
                       current_history, discarded>>
    PROVE  UNCHANGED <<Text(line, line_position), line_curpos,
                       [r \in 1 .. history_count |-> Text(cmd_history[r - 1], RowLength(cmd_history[r - 1]))],
                       current_history, discarded>>
BY CommandsKept, TextKept

LEMMA BackspaceErases ==
    ASSUME LineSizeAssumption, LineInv, LineInv', Backspace
    PROVE  Editor!Erase
<1>0. /\ LinePart /\ LinePart' /\ UNCHANGED <<historyVars, discarded>> /\ pressed' = "backspace"
      /\ line_curpos \in Nat
  BY LineInvSays, LineInvSaysNext DEF Backspace, Handles, LinePart, Places, LineSizeAssumption
<1>1. CASE line_curpos = 0
  <2>1. UNCHANGED <<Text(line, line_position), line_curpos,
                    [r \in 1 .. history_count |-> Text(cmd_history[r - 1], RowLength(cmd_history[r - 1]))],
                    current_history, discarded>>
    BY <1>0, <1>1, QuietEdit DEF Backspace, lineVars, historyVars
  <2> QED BY <1>0, <1>1, <2>1 DEF Editor!Erase
<1>2. CASE line_curpos # 0
  <2>1. /\ FINSH_CMD_SIZE \in Nat /\ line_curpos \in Nat \ {0} /\ line_position \in Nat
        /\ line_curpos <= line_position /\ line_position < FINSH_CMD_SIZE
    BY <1>0, <1>2 DEF LinePart, LineSizeAssumption, Places
  <2>2. /\ line_position' = line_position - 1 /\ line_curpos' = line_curpos - 1
        /\ line' = [i \in Places |-> IF i = line_position' THEN NUL
                                     ELSE IF i >= line_curpos' /\ i < line_position' THEN line[i + 1]
                                     ELSE line[i]]
    BY <1>2 DEF Backspace
  <2> DEFINE T == Text(line, line_position)
             U == Text(line', line_position')
             R == SubSeq(T, 1, line_curpos - 1) \o SubSeq(T, line_curpos + 1, Len(T))
  <2>3. /\ T \in Seq(Letters) /\ Len(T) = line_position
        /\ \A i \in 1 .. line_position : T[i] = line[i - 1]
    BY <1>0, LineTextIs
  <2>4. /\ U \in Seq(Letters) /\ Len(U) = line_position'
        /\ \A i \in 1 .. line_position' : U[i] = line'[i - 1]
    BY <1>0, LineTextPrimed DEF IsTextOf
  <2> HIDE DEF T, U
  <2>5. /\ R \in Seq(Letters) /\ Len(R) = line_position - 1
        /\ \A i \in 1 .. line_curpos - 1 : R[i] = T[i]
        /\ \A i \in line_curpos .. line_position - 1 : R[i] = T[i + 1]
    <3>1. line_curpos \in 1 .. line_position
      BY <2>1
    <3>2. IsErased(Letters, R, T, line_position, line_curpos)
      BY <2>1, <2>3, <3>1, ErasedText
    <3> QED BY <3>2 DEF IsErased
  <2> HIDE DEF R
  <2>6. ASSUME NEW i \in 1 .. line_position - 1 PROVE U[i] = R[i]
    <3>1. i - 1 \in Places /\ U[i] = line'[i - 1] /\ i - 1 \in Nat /\ (i - 1) + 1 = i /\ i \in Nat
      BY <2>1, <2>2, <2>4 DEF Places
    <3>2. line'[i - 1] = IF i - 1 = line_position - 1 THEN NUL
                         ELSE IF i - 1 >= line_curpos - 1 /\ i - 1 < line_position - 1 THEN line[(i - 1) + 1]
                         ELSE line[i - 1]
      BY <2>2, <3>1
    <3>3. CASE i < line_curpos
      <4>1. /\ i \in 1 .. line_curpos - 1 /\ i \in 1 .. line_position
            /\ i - 1 # line_position - 1 /\ ~(i - 1 >= line_curpos - 1)
        BY <2>1, <3>3
      <4> QED BY <2>3, <2>5, <3>1, <3>2, <4>1
    <3>4. CASE i >= line_curpos
      <4>1. /\ i \in line_curpos .. line_position - 1 /\ i + 1 \in 1 .. line_position /\ (i + 1) - 1 = i
            /\ i - 1 # line_position - 1 /\ i - 1 >= line_curpos - 1 /\ i - 1 < line_position - 1
        BY <2>1, <3>4
      <4>2. T[i + 1] = line[i]
        BY <2>3, <4>1
      <4> QED BY <2>5, <3>1, <3>2, <4>1, <4>2
    <3> QED BY <2>1, <3>1, <3>3, <3>4
  <2>7. U = R
    <3>1. line_position - 1 \in Nat
      BY <2>1
    <3> QED BY <2>2, <2>4, <2>5, <2>6, <3>1, SameText
  <2>8. Text(line, line_position)' = SubSeq(T, 1, line_curpos - 1) \o SubSeq(T, line_curpos + 1, Len(T))
    BY <2>7 DEF U, R
  <2>9. UNCHANGED [r \in 1 .. history_count |-> Text(cmd_history[r - 1], RowLength(cmd_history[r - 1]))]
    BY <1>0, CommandsKept DEF historyVars
  <2>10. line_curpos > 0
    BY <2>1
  <2>11. current_history' = current_history /\ discarded' = discarded /\ line_curpos' = line_curpos - 1
    BY <1>0, <2>2 DEF historyVars
  <2> QED BY <1>0, <2>8, <2>9, <2>10, <2>11 DEF Editor!Erase, Editor!After, T
<1> QED BY <1>1, <1>2

LEMMA CursorMoves ==
    ASSUME LineSizeAssumption, LineInv
    PROVE  (LeftKey => Editor!MoveLeft) /\ (RightKey => Editor!MoveRight)
<1>0. LinePart
  BY LineInvSays
<1>1. Len(Text(line, line_position)) = line_position
  BY <1>0, LineTextIs
<1>2. ASSUME UNCHANGED <<line, line_position, historyVars, discarded>>
      PROVE  UNCHANGED <<Text(line, line_position), [r \in 1 .. history_count |-> Text(cmd_history[r - 1], RowLength(cmd_history[r - 1]))],
                         current_history, discarded>>
  BY <1>2, TextKept, CommandsKept DEF historyVars
<1>3. ASSUME LeftKey PROVE Editor!MoveLeft
  <2>1. UNCHANGED <<line, line_position, historyVars, discarded>>
    BY <1>3 DEF LeftKey
  <2>2. /\ pressed' = "left"
        /\ line_curpos' = IF line_curpos > 0 THEN line_curpos - 1 ELSE line_curpos
    BY <1>3 DEF LeftKey, Handles
  <2> QED BY <1>2, <2>1, <2>2 DEF Editor!MoveLeft
<1>4. ASSUME RightKey PROVE Editor!MoveRight
  <2>1. UNCHANGED <<line, line_position, historyVars, discarded>>
    BY <1>4 DEF RightKey
  <2>2. /\ pressed' = "right"
        /\ line_curpos' = IF line_curpos < line_position THEN line_curpos + 1 ELSE line_curpos
    BY <1>4 DEF RightKey, Handles
  <2> QED BY <1>1, <1>2, <2>1, <2>2 DEF Editor!MoveRight
<1> QED BY <1>3, <1>4

-----------------------------------------------------------------------------
(* The commands of the history *)

(* The list of commands is what the first n rows of h hold. *)
IsCommands(list, h, n) ==
    /\ list \in Seq(Seq(Letters)) /\ Len(list) = n
    /\ \A r \in 1 .. n : list[r] = Text(h[r - 1], RowLength(h[r - 1]))

(* The row is a command of n letters. *)
LEMMA RowText ==
    ASSUME LineSizeAssumption, NEW row \in [Columns -> Letters \cup {NUL}],
           NEW n \in 0 .. FINSH_CMD_SIZE - 1,
           IsText(row, n, FINSH_CMD_SIZE)
    PROVE  RowLength(row) = n /\ IsTextOf(Text(row, RowLength(row)), row, n)
<1>0. FINSH_CMD_SIZE \in Nat /\ n \in Nat
  BY DEF LineSizeAssumption
<1>1. RowLength(row) = n
  BY RowLengthIs
<1>2. ASSUME NEW i \in 0 .. n - 1 PROVE row[i] \in Letters
  <2>1. i \in Columns /\ i \in 0 .. FINSH_CMD_SIZE - 1 /\ ~(i >= n)
    BY <1>0 DEF Columns
  <2> QED BY <2>1 DEF IsText
<1>3. IsTextOf(Text(row, n), row, n)
  BY <1>0, <1>2, TextIs
<1> QED BY <1>1, <1>3

LEMMA CommandsAre ==
    ASSUME LineSizeAssumption, NEW h \in [Rows -> [Columns -> Letters \cup {NUL}]],
           NEW n \in 0 .. FINSH_HISTORY_LINES,
           \A r \in 0 .. n - 1 : \E k \in 1 .. FINSH_CMD_SIZE - 1 : IsText(h[r], k, FINSH_CMD_SIZE)
    PROVE  IsCommands([r \in 1 .. n |-> Text(h[r - 1], RowLength(h[r - 1]))], h, n)
<1>0. n \in Nat /\ FINSH_HISTORY_LINES \in Nat /\ FINSH_CMD_SIZE \in Nat
  BY DEF LineSizeAssumption
<1> DEFINE C == [r \in 1 .. n |-> Text(h[r - 1], RowLength(h[r - 1]))]
<1>1. ASSUME NEW r \in 1 .. n PROVE Text(h[r - 1], RowLength(h[r - 1])) \in Seq(Letters)
  <2> SUFFICES ASSUME NEW q \in 0 .. n - 1, q = r - 1
               PROVE  Text(h[q], RowLength(h[q])) \in Seq(Letters)
    BY <1>0
  <2>1. q \in Rows
    BY <1>0 DEF Rows
  <2>2. PICK k \in 1 .. FINSH_CMD_SIZE - 1 : IsText(h[q], k, FINSH_CMD_SIZE)
    OBVIOUS
  <2>3. k \in 0 .. FINSH_CMD_SIZE - 1 /\ h[q] \in [Columns -> Letters \cup {NUL}]
    BY <1>0, <2>1
  <2> QED BY <2>2, <2>3, RowText DEF IsTextOf
<1>2. C \in [1 .. n -> Seq(Letters)]
  BY <1>1
<1>3. C \in Seq(Seq(Letters)) /\ Len(C) = n
  BY <1>0, <1>2, SeqDef
<1> QED BY <1>3 DEF IsCommands

LEMMA HistoryCommands ==
    ASSUME LineSizeAssumption, HistoryPart
    PROVE  IsCommands([r \in 1 .. history_count |-> Text(cmd_history[r - 1], RowLength(cmd_history[r - 1]))],
                      cmd_history, history_count)
BY CommandsAre DEF HistoryPart, HistoryIsText

LEMMA RecallShows ==
    ASSUME LineSizeAssumption, LineInv, LineInv', NEW r \in 0 .. history_count - 1,
           Shows(RecalledRow(r)), current_history' = r, discarded' = FALSE,
           UNCHANGED <<cmd_history, history_count>>
    PROVE  Editor!Recall(r)
<1>0. HistoryPart /\ LinePart' /\ FINSH_CMD_SIZE \in Nat /\ FINSH_HISTORY_LINES \in Nat
  BY LineInvSays, LineInvSaysNext DEF LineSizeAssumption
<1>1. PICK n \in 1 .. FINSH_CMD_SIZE - 1 :
          /\ IsText(cmd_history[r], n, FINSH_CMD_SIZE)
          /\ IsText(RecalledRow(r), n, FINSH_CMD_SIZE + 1)
          /\ RecalledRow(r) \in [Places -> Letters \cup {NUL}]
          /\ \A i \in 0 .. n - 1 : RecalledRow(r)[i] = cmd_history[r][i]
  BY RecalledText
<1>2. n \in 0 .. FINSH_CMD_SIZE - 1 /\ n \in Nat
  BY <1>0
<1>3. line' = RecalledRow(r) /\ line_position' = n /\ line_curpos' = n
  BY <1>1, <1>2, ShowsText
<1> DEFINE U == Text(line', line_position')
           C == [q \in 1 .. history_count |-> Text(cmd_history[q - 1],
           RowLength(cmd_history[q - 1]))]
<1>4. IsTextOf(U, line', n)
  BY <1>0, <1>3, LineTextPrimed
<1>5. r \in Rows /\ r + 1 \in 1 .. history_count /\ (r + 1) - 1 = r /\ history_count \in Nat
  BY <1>0 DEF HistoryPart, Rows
<1>6. IsCommands(C, cmd_history, history_count)
  BY <1>0, HistoryCommands
<1> HIDE DEF C, U
<1>7. IsTextOf(Text(cmd_history[r], RowLength(cmd_history[r])), cmd_history[r], n)
  <2>1. cmd_history[r] \in [Columns -> Letters \cup {NUL}]
    BY <1>0, <1>5 DEF HistoryPart
  <2> QED BY <1>1, <1>2, <2>1, RowText
<1>8. C[r + 1] = Text(cmd_history[r], RowLength(cmd_history[r])) /\ Len(C) = history_count
  BY <1>5, <1>6 DEF IsCommands
<1>9. U = C[r + 1]
  <2>1. IsTextOf(C[r + 1], cmd_history[r], n)
    BY <1>7, <1>8
  <2>2. ASSUME NEW i \in 1 .. n PROVE U[i] = C[r + 1][i]
    <3>1. i - 1 \in 0 .. n - 1
      BY <1>2
    <3> QED BY <1>1, <1>3, <1>4, <2>1, <3>1 DEF IsTextOf
  <2> QED BY <1>2, <1>4, <2>1, <2>2, SameText DEF IsTextOf
<1>10. Text(line, line_position)' = C[r + 1] /\ Len(Text(line, line_position)') = n
  BY <1>4, <1>9 DEF U, IsTextOf
<1>11. UNCHANGED [q \in 1 .. history_count |-> Text(cmd_history[q - 1], RowLength(cmd_history[q - 1]))]
  BY CommandsKept
<1> QED BY <1>3, <1>10, <1>11 DEF Editor!Recall, C

LEMMA UpRecalls == ASSUME LineSizeAssumption, LineInv, LineInv', UpKey PROVE Editor!Up
<1>0. HistoryPart /\ UNCHANGED <<cmd_history, history_count>> /\ pressed' = "up"
  BY LineInvSays DEF UpKey, Handles
<1>1. history_count \in Nat /\ current_history \in Nat /\ current_history <= history_count
  BY <1>0 DEF HistoryPart, HistoryIsText, LineSizeAssumption
<1>2. CASE current_history > 0
  <2> SUFFICES ASSUME NEW r \in 0 .. history_count - 1, r = current_history - 1 PROVE Editor!Up
    BY <1>1, <1>2
  <2>1. current_history' = r /\ Shows(RecalledRow(r)) /\ discarded' = FALSE
    BY <1>2 DEF UpKey
  <2>2. Editor!Recall(r)
    BY <1>0, <2>1, RecallShows
  <2> QED BY <1>0, <1>2, <2>2 DEF Editor!Up
<1>3. CASE ~(current_history > 0)
  <2>1. UNCHANGED <<Text(line, line_position), line_curpos,
                    [r \in 1 .. history_count |-> Text(cmd_history[r - 1], RowLength(cmd_history[r - 1]))],
                    current_history, discarded>>
    BY <1>0, <1>3, QuietEdit DEF UpKey, lineVars
  <2>2. current_history = 0
    BY <1>1, <1>3
  <2> QED BY <1>0, <2>1, <2>2 DEF Editor!Up
<1> QED BY <1>2, <1>3

LEMMA DownRecalls == ASSUME LineSizeAssumption, LineInv, LineInv', DownKey PROVE Editor!Down
<1>0. HistoryPart /\ UNCHANGED <<cmd_history, history_count>> /\ pressed' = "down"
  BY LineInvSays DEF DownKey, Handles
<1>1. history_count \in Nat /\ current_history \in Nat /\ current_history <= history_count
  BY <1>0 DEF HistoryPart, HistoryIsText, LineSizeAssumption
<1> DEFINE C == [r \in 1 .. history_count |-> Text(cmd_history[r - 1], RowLength(cmd_history[r - 1]))]
<1>2. C \in Seq(Seq(Letters)) /\ Len(C) = history_count
  BY <1>0, HistoryCommands DEF IsCommands
<1> HIDE DEF C
<1>3. C = <<>> <=> history_count = 0
  BY <1>2, EmptySeq
<1>4. CASE history_count # 0
  <2> SUFFICES ASSUME NEW r \in 0 .. history_count - 1,
                      r = IF current_history < history_count - 1
                          THEN current_history + 1 ELSE history_count - 1
               PROVE  Editor!Down
    BY <1>1, <1>4
  <2>1. current_history' = r /\ Shows(RecalledRow(r)) /\ discarded' = FALSE
    BY <1>4 DEF DownKey
  <2>2. Editor!Recall(r)
    BY <1>0, <2>1, RecallShows
  <2>3. CASE current_history < history_count - 1
    <3>1. current_history + 1 < Len(C) /\ r = current_history + 1
      BY <1>1, <1>2, <2>3
    <3> QED BY <1>0, <2>2, <3>1 DEF Editor!Down, C
  <2>4. CASE ~(current_history < history_count - 1)
    <3>1. current_history + 1 >= Len(C) /\ r = Len(C) - 1 /\ C # <<>>
      BY <1>1, <1>2, <1>3, <1>4, <2>4
    <3> QED BY <1>0, <2>2, <3>1 DEF Editor!Down, C
  <2> QED BY <2>3, <2>4
<1>5. CASE history_count = 0
  <2>1. current_history >= history_count - 1
    BY <1>1, <1>5
  <2>2. UNCHANGED <<Text(line, line_position), line_curpos,
                    [r \in 1 .. history_count |-> Text(cmd_history[r - 1], RowLength(cmd_history[r - 1]))],
                    current_history, discarded>>
    BY <1>0, <1>5, <2>1, QuietEdit DEF DownKey, lineVars
  <2>3. [r \in 1 .. history_count |-> Text(cmd_history[r - 1], RowLength(cmd_history[r - 1]))] = <<>>
    BY <1>3, <1>5 DEF C
  <2> QED BY <1>0, <2>2, <2>3 DEF Editor!Down
<1> QED BY <1>4, <1>5

LEMMA TabCompletes ==
    ASSUME LineSizeAssumption, NamesAssumption, LettersAssumption, LineInv, LineInv', ~discarded, Tab
    PROVE  Editor!Complete
<1>0. /\ LinePart /\ LinePart' /\ Shows(Completed) /\ UNCHANGED historyVars /\ FINSH_CMD_SIZE \in Nat
      /\ line_position \in Nat /\ pressed' = "tab" /\ discarded' = discarded
  BY LineInvSays, LineInvSaysNext DEF Tab, Handles, LinePart, LineSizeAssumption, Places
<1>1. PICK n \in line_position .. FINSH_CMD_SIZE - 1 :
          /\ IsText(Completed, n, FINSH_CMD_SIZE + 1)
          /\ Completed \in [Places -> Letters \cup {NUL}]
          /\ \/ n = line_position /\ Completed = line
             \/ \E c \in Names :
                   /\ n <= Len(c) /\ \A i \in 0 .. n - 1 : Completed[i] = c[i + 1]
                   /\ \A i \in 0 .. line_position - 1 : line[i] = c[i + 1]
  BY CompletedText
<1>2. n \in 0 .. FINSH_CMD_SIZE - 1 /\ n \in Nat /\ line_position <= n
  BY <1>0
<1>3. line' = Completed /\ line_position' = n /\ line_curpos' = n
  BY <1>0, <1>1, <1>2, ShowsText
<1> DEFINE T == Text(line, line_position)
           U == Text(line', line_position')
<1>4. IsTextOf(T, line, line_position)
  BY <1>0, LineTextIs DEF IsTextOf
<1>5. IsTextOf(U, line', n)
  BY <1>0, <1>3, LineTextPrimed
<1>6. UNCHANGED [r \in 1 .. history_count |-> Text(cmd_history[r - 1], RowLength(cmd_history[r - 1]))] /\ current_history' = current_history
  BY <1>0, CommandsKept DEF historyVars
<1>7. Text(line, line_position)' = U /\ line_curpos' = Len(U)
  BY <1>3, <1>5 DEF IsTextOf
<1>8. CASE n = line_position /\ Completed = line
  <2>1. U = T
    BY <1>3, <1>8
  <2> QED BY <1>0, <1>6, <1>7, <2>1 DEF Editor!Complete
<1>9. CASE \E c \in Names :
              /\ n <= Len(c) /\ \A i \in 0 .. n - 1 : Completed[i] = c[i + 1]
              /\ \A i \in 0 .. line_position - 1 : line[i] = c[i + 1]
  <2>1. PICK c \in Names :
              /\ n <= Len(c) /\ \A i \in 0 .. n - 1 : Completed[i] = c[i + 1]
              /\ \A i \in 0 .. line_position - 1 : line[i] = c[i + 1]
    BY <1>9
  <2> HIDE DEF T, U
  <2>2. c \in Seq(Letters) /\ Len(c) \in Nat
    BY DEF NamesAssumption
  <2>3. ASSUME NEW k \in 0 .. n, NEW l, NEW t, IsTextOf(t, l, k), \A i \in 0 .. k - 1 : l[i] = c[i + 1]
        PROVE  SubSeq(c, 1, k) = t
    <3> SUFFICES ASSUME NEW r, r = SubSeq(c, 1, k) PROVE r = t
      OBVIOUS
    <3>1. k \in Nat /\ k \in 0 .. Len(c) /\ 0 \in 0 .. Len(c) /\ 1 = 0 + 1 /\ k - 0 = k /\ k <= n
      BY <1>2, <2>1, <2>2
    <3>2. r \in Seq(Letters) /\ Len(r) = k - 0 /\ \A i \in 1 .. k - 0 : r[i] = c[0 + i]
      <4>1. IsPiece(Letters, r, c, 0, k)
        BY <2>2, <3>1, PieceIs
      <4> QED BY <4>1 DEF IsPiece
    <3>3. ASSUME NEW i \in 1 .. k PROVE r[i] = t[i]
      <4>1. i - 1 \in 0 .. k - 1 /\ (i - 1) + 1 = i /\ 0 + i = i
        BY <3>1
      <4>2. t[i] = l[i - 1] /\ l[i - 1] = c[(i - 1) + 1]
        BY <2>3, <4>1 DEF IsTextOf
      <4> QED BY <3>1, <3>2, <4>1, <4>2
    <3> QED BY <2>3, <3>1, <3>2, <3>3, SameText DEF IsTextOf
  <2>4. SubSeq(c, 1, line_position) = T
    <3>1. line_position \in 0 .. n
      BY <1>0, <1>2
    <3> QED BY <1>4, <2>1, <2>3, <3>1
  <2>5. SubSeq(c, 1, n) = U
    <3>1. n \in 0 .. n /\ \A i \in 0 .. n - 1 : line'[i] = c[i + 1]
      BY <1>2, <1>3, <2>1
    <3> QED BY <1>5, <2>3, <3>1
  <2>6. Len(T) = line_position
    BY <1>4 DEF IsTextOf
  <2>7. Editor!IsPrefix(T, c)
    BY <1>2, <2>1, <2>2, <2>4, <2>6, <1>0 DEF Editor!IsPrefix
  <2>8. n \in Len(T) .. Len(c)
    BY <1>0, <1>2, <2>1, <2>2, <2>6
  <2>9. \E d \in Names : \E k \in Len(T) .. Len(d) : Editor!IsPrefix(T, d) /\ U = SubSeq(d, 1, k)
    BY <2>5, <2>7, <2>8
  <2> QED BY <1>0, <1>6, <1>7, <2>9 DEF Editor!Complete, T
<1> QED BY <1>1, <1>8, <1>9

(* The last n of a list. *)
LEMMA LastIs ==
    ASSUME NEW S, NEW list \in Seq(S), NEW m \in Nat, Len(list) = m, NEW n \in Nat,
           NEW k \in 0 .. m, k = IF m > n THEN m - n ELSE 0,
           NEW r, r = Editor!Last(list, n)
    PROVE  IsPiece(S, r, list, k, m)
<1>1. (IF Len(list) > n THEN Len(list) - n + 1 ELSE 1) = k + 1
  OBVIOUS
<1>2. r = SubSeq(list, k + 1, m)
  BY <1>1 DEF Editor!Last
<1>3. m \in k .. m
  OBVIOUS
<1> QED BY <1>2, <1>3, PieceIs

(* The newest command is the text of the line, if and only if the rows are    *)
(* the same: memcmp, which goes over the whole row, tells commands apart.     *)
LEMMA SameIsSame ==
    ASSUME LineSizeAssumption, LinePart, ~discarded, HistoryPart,
           NEW T, IsTextOf(T, line, line_position),
           NEW C, IsCommands(C, cmd_history, history_count)
    PROVE  SameAsLast <=> Editor!Last(C, 1) = <<T>>
<1>0. /\ FINSH_CMD_SIZE \in Nat /\ FINSH_HISTORY_LINES \in Nat /\ line_position \in Nat
      /\ line_position < FINSH_CMD_SIZE /\ history_count \in 0 .. FINSH_HISTORY_LINES
      /\ history_count \in Nat
      /\ C \in Seq(Seq(Letters)) /\ Len(C) = history_count
  BY DEF LineSizeAssumption, LinePart, HistoryPart, Places, IsCommands
<1>1. CASE history_count = 0
  <2>1. Len(Editor!Last(C, 1)) = 0
    <3> SUFFICES ASSUME NEW r, r = Editor!Last(C, 1) PROVE Len(r) = 0
      OBVIOUS
    <3> SUFFICES ASSUME NEW k \in 0 .. history_count, k = 0 PROVE Len(r) = 0
      BY <1>1
    <3>1. k = (IF history_count > 1 THEN history_count - 1 ELSE 0) /\ 1 \in Nat
      BY <1>1
    <3>2. IsPiece(Seq(Letters), r, C, k, history_count)
      BY <1>0, <3>1, LastIs
    <3> QED BY <1>1, <3>2 DEF IsPiece
  <2>2. Editor!Last(C, 1) # <<T>>
    <3>1. Len(<<T>>) = 1
      OBVIOUS
    <3> QED BY <2>1, <3>1
  <2> QED BY <1>1, <2>2 DEF SameAsLast
<1>2. CASE history_count # 0
  <2> DEFINE row == cmd_history[history_count - 1]
  <2>0. /\ history_count > 0 /\ history_count - 1 \in 0 .. history_count - 1
        /\ history_count - 1 \in Rows
    BY <1>0, <1>2 DEF Rows
  <2>1. Editor!Last(C, 1) = <<C[history_count]>>
    <3> SUFFICES ASSUME NEW r, r = Editor!Last(C, 1) PROVE r = <<C[history_count]>>
      OBVIOUS
    <3> SUFFICES ASSUME NEW k \in 0 .. history_count, k = history_count - 1
                 PROVE  r = <<C[history_count]>>
      BY <1>0, <2>0
    <3>1. k = (IF history_count > 1 THEN history_count - 1 ELSE 0) /\ 1 \in Nat
      BY <1>0, <2>0
    <3>2. IsPiece(Seq(Letters), r, C, k, history_count)
      BY <1>0, <3>1, LastIs
    <3>3. history_count - k = 1 /\ 1 \in 1 .. 1 /\ k + 1 = history_count
      BY <1>0
    <3>4. Len(r) = 1 /\ r[1] = C[history_count]
      BY <3>2, <3>3 DEF IsPiece
    <3> QED BY <3>2, <3>4 DEF IsPiece
  <2>2. PICK n \in 1 .. FINSH_CMD_SIZE - 1 : IsText(row, n, FINSH_CMD_SIZE)
    BY <2>0 DEF HistoryPart, HistoryIsText
  <2>3. row \in [Columns -> Letters \cup {NUL}] /\ n \in 0 .. FINSH_CMD_SIZE - 1 /\ n \in Nat
    BY <1>0, <2>0 DEF HistoryPart
  <2>4. C[history_count] = Text(row, RowLength(row))
    <3>1. history_count \in 1 .. history_count
      BY <1>0, <2>0
    <3> QED BY <3>1 DEF IsCommands
  <2> HIDE DEF row
  <2>5. IsTextOf(C[history_count], row, n)
    BY <2>2, <2>3, <2>4, RowText
  <2>6. SameAsLast <=> \A i \in Columns : row[i] = line[i]
    BY <2>0 DEF SameAsLast, row
  <2>7. ASSUME \A i \in Columns : row[i] = line[i] PROVE C[history_count] = T
    <3>1. n = line_position
      <4>1. line_position \in Columns /\ n \in Columns /\ line_position \in Places /\ n \in Places
        BY <1>0, <2>3 DEF Columns, Places
      <4>2. line[line_position] = NUL /\ row[n] = NUL
        BY <1>0, <2>2, <2>3, <4>1 DEF LinePart, IsText, Columns
      <4>3. row[line_position] = NUL /\ line[n] = NUL
        BY <2>7, <4>1, <4>2
      <4>4. line_position >= n
        BY <2>2, <4>1, <4>3 DEF IsText, Columns
      <4>5. n >= line_position
        BY <4>1, <4>3, LineLetters
      <4> QED BY <1>0, <2>3, <4>4, <4>5
    <3>2. ASSUME NEW i \in 1 .. n PROVE C[history_count][i] = T[i]
      <4>1. i - 1 \in Columns
        BY <1>0, <2>3 DEF Columns
      <4> QED BY <2>5, <2>7, <3>1, <4>1 DEF IsTextOf
    <3> QED BY <2>3, <2>5, <3>1, <3>2, SameText DEF IsTextOf
  <2>8. ASSUME C[history_count] = T PROVE \A i \in Columns : row[i] = line[i]
    <3>1. n = line_position
      BY <2>5, <2>8 DEF IsTextOf
    <3> SUFFICES ASSUME NEW i \in Columns PROVE row[i] = line[i]
      OBVIOUS
    <3>2. i \in Nat /\ i \in Places /\ i \in 0 .. FINSH_CMD_SIZE - 1
      BY <1>0 DEF Columns, Places
    <3>3. CASE i < n
      <4>1. i + 1 \in 1 .. n /\ (i + 1) - 1 = i
        BY <2>3, <3>2, <3>3
      <4>2. C[history_count][i + 1] = row[i]
        BY <2>5, <4>1 DEF IsTextOf
      <4>3. T[i + 1] = line[i]
        BY <3>1, <4>1 DEF IsTextOf
      <4> QED BY <2>8, <4>2, <4>3
    <3>4. CASE i >= n
      <4>1. row[i] = NUL
        BY <2>2, <3>2, <3>4 DEF IsText
      <4>2. line[i] = NUL
        BY <3>1, <3>2, <3>4 DEF LinePart
      <4> QED BY <4>1, <4>2
    <3> QED BY <2>3, <3>2, <3>3, <3>4
  <2>9. <<C[history_count]>> = <<T>> <=> C[history_count] = T
    OBVIOUS
  <2> QED BY <2>1, <2>6, <2>7, <2>8, <2>9
<1> QED BY <1>1, <1>2

(* Behind a discarded line memcmp finds what was typed into it. *)
LEMMA DiscardedDiffers ==
    ASSUME LineSizeAssumption, LinePart, discarded, HistoryPart
    PROVE  ~SameAsLast
<1> SUFFICES ASSUME SameAsLast PROVE FALSE
  OBVIOUS
<1>0. FINSH_CMD_SIZE \in Nat \ {0} /\ history_count \in Nat /\ history_count > 0
  BY DEF LineSizeAssumption, HistoryPart, SameAsLast
<1>1. history_count - 1 \in 0 .. history_count - 1 /\ FINSH_CMD_SIZE - 1 \in 0 .. FINSH_CMD_SIZE - 1
  BY <1>0
<1>2. PICK n \in 1 .. FINSH_CMD_SIZE - 1 : IsText(cmd_history[history_count - 1], n, FINSH_CMD_SIZE)
  BY <1>1 DEF HistoryPart, HistoryIsText
<1>3. FINSH_CMD_SIZE - 1 >= n
  BY <1>0
<1>4. cmd_history[history_count - 1][FINSH_CMD_SIZE - 1] = NUL
  BY <1>1, <1>2, <1>3 DEF IsText
<1>5. line[FINSH_CMD_SIZE - 1] = NUL
  BY <1>1, <1>4 DEF SameAsLast, Columns
<1> QED BY <1>5 DEF LinePart

(* The typed line as a row holds the text of the line. *)
LEMMA TypedText ==
    ASSUME LineSizeAssumption, LinePart, NEW T, IsTextOf(T, line, line_position)
    PROVE  Text(TypedRow, RowLength(TypedRow)) = T
<1>0. /\ FINSH_CMD_SIZE \in Nat /\ line_position \in Nat /\ line_position \in 0 .. FINSH_CMD_SIZE - 1
  BY DEF LineSizeAssumption, LinePart, Places
<1>1. /\ TypedRow \in [Columns -> Letters \cup {NUL}] /\ IsText(TypedRow, line_position, FINSH_CMD_SIZE)
      /\ \A i \in Columns : i < line_position => TypedRow[i] = line[i]
  BY TypedRowIs
<1> SUFFICES ASSUME NEW U, U = Text(TypedRow, RowLength(TypedRow)) PROVE U = T
  OBVIOUS
<1>2. IsTextOf(U, TypedRow, line_position)
  BY <1>0, <1>1, RowText
<1>3. ASSUME NEW i \in 1 .. line_position PROVE U[i] = T[i]
  <2>1. i - 1 \in Columns /\ i - 1 < line_position
    BY <1>0 DEF Columns
  <2> QED BY <1>1, <1>2, <2>1 DEF IsTextOf
<1> QED BY <1>0, <1>2, <1>3, SameText DEF IsTextOf

(* The history with the line pushed to it. *)
LEMMA PushAppends ==
    ASSUME LineSizeAssumption, LinePart, HistoryPart, HistoryPart', PushHistory,
           ~(line_position = 0 \/ SameAsLast),
           NEW T, IsTextOf(T, line, line_position),
           NEW C, IsCommands(C, cmd_history, history_count),
           NEW D, IsCommands(D, cmd_history', history_count')
    PROVE  D = Editor!Last(Append(C, T), FINSH_HISTORY_LINES)
<1>0. /\ FINSH_HISTORY_LINES \in Nat \ {0} /\ history_count \in Nat /\ history_count <= FINSH_HISTORY_LINES
      /\ cmd_history \in [Rows -> [Columns -> Letters \cup {NUL}]]
  BY DEF LineSizeAssumption, HistoryPart
<1>1. Text(TypedRow, RowLength(TypedRow)) = T
  BY TypedText
<1>2. /\ C \in Seq(Seq(Letters)) /\ Len(C) = history_count
      /\ \A r \in 1 .. history_count : C[r] = Text(cmd_history[r - 1], RowLength(cmd_history[r - 1]))
  BY DEF IsCommands
<1>3. /\ D \in Seq(Seq(Letters)) /\ Len(D) = history_count'
      /\ \A r \in 1 .. history_count' : D[r] = Text(cmd_history'[r - 1], RowLength(cmd_history'[r - 1]))
  BY DEF IsCommands
<1> SUFFICES ASSUME NEW A, A = Append(C, T), NEW L, L = Editor!Last(A, FINSH_HISTORY_LINES)
             PROVE  D = L
  OBVIOUS
<1>4. /\ A \in Seq(Seq(Letters)) /\ Len(A) = history_count + 1
      /\ \A i \in 1 .. history_count : A[i] = C[i]
      /\ A[history_count + 1] = T
  <2>1. T \in Seq(Letters)
    BY DEF IsTextOf
  <2> QED BY <1>2, <2>1, AppendProperties
<1> SUFFICES ASSUME NEW m \in Nat, m = history_count + 1 PROVE D = L
  BY <1>0
<1>5. CASE history_count >= FINSH_HISTORY_LINES
  <2>1. history_count = FINSH_HISTORY_LINES
    BY <1>0, <1>5
  <2>2. /\ cmd_history' = [r \in Rows |-> IF r < FINSH_HISTORY_LINES - 1 THEN cmd_history[r + 1] ELSE TypedRow]
        /\ history_count' = history_count
    BY <1>5 DEF PushHistory
  <2>3. IsPiece(Seq(Letters), L, A, 1, m)
    <3> SUFFICES ASSUME NEW k \in 0 .. m, k = 1 PROVE IsPiece(Seq(Letters), L, A, k, m)
      BY <1>0
    <3>1. k = (IF m > FINSH_HISTORY_LINES THEN m - FINSH_HISTORY_LINES ELSE 0)
      BY <1>0, <2>1
    <3> QED BY <1>0, <1>4, <3>1, LastIs
  <2>4. m - 1 = history_count
    BY <1>0
  <2>5. /\ L \in Seq(Seq(Letters)) /\ Len(L) = history_count
        /\ \A i \in 1 .. history_count : L[i] = A[1 + i]
    BY <2>3, <2>4 DEF IsPiece
  <2>6. ASSUME NEW i \in 1 .. history_count PROVE D[i] = L[i]
    <3>1. i - 1 \in Rows /\ (i - 1) + 1 = i /\ 1 + i = i + 1 /\ i \in Nat
      BY <1>0, <2>1 DEF Rows
    <3>2. cmd_history'[i - 1] = IF i - 1 < FINSH_HISTORY_LINES - 1 THEN cmd_history[(i - 1) + 1] ELSE TypedRow
      BY <2>2, <3>1
    <3>3. D[i] = Text(cmd_history'[i - 1], RowLength(cmd_history'[i - 1]))
      BY <1>3, <2>2
    <3>4. CASE i < history_count
      <4> SUFFICES ASSUME NEW j \in 1 .. history_count, j = i + 1 PROVE D[i] = L[i]
        BY <1>0, <3>1, <3>4
      <4>1. cmd_history'[i - 1] = cmd_history[i] /\ j - 1 = i
        BY <1>0, <2>1, <3>1, <3>2, <3>4
      <4>2. C[j] = Text(cmd_history[i], RowLength(cmd_history[i]))
        BY <1>2, <4>1
      <4>3. L[i] = C[j]
        BY <1>4, <2>5, <3>1
      <4> QED BY <3>3, <4>1, <4>2, <4>3
    <3>5. CASE i = history_count
      <4>1. cmd_history'[i - 1] = TypedRow
        BY <1>0, <2>1, <3>1, <3>2, <3>5
      <4>2. L[i] = T
        BY <1>4, <2>5, <3>1, <3>5
      <4> QED BY <1>1, <3>3, <4>1, <4>2
    <3> QED BY <1>0, <3>1, <3>4, <3>5
  <2> QED BY <1>0, <1>3, <2>2, <2>5, <2>6, SameText
<1>6. CASE ~(history_count >= FINSH_HISTORY_LINES)
  <2>1. history_count < FINSH_HISTORY_LINES /\ history_count \in Rows
    BY <1>0, <1>6 DEF Rows
  <2>2. /\ cmd_history' = [cmd_history EXCEPT ![history_count] = TypedRow]
        /\ history_count' = m
    BY <1>6 DEF PushHistory
  <2>3. IsPiece(Seq(Letters), L, A, 0, m)
    <3> SUFFICES ASSUME NEW k \in 0 .. m, k = 0 PROVE IsPiece(Seq(Letters), L, A, k, m)
      BY <1>0
    <3>1. k = (IF m > FINSH_HISTORY_LINES THEN m - FINSH_HISTORY_LINES ELSE 0)
      BY <1>0, <2>1
    <3> QED BY <1>0, <1>4, <3>1, LastIs
  <2>4. m - 0 = m /\ \A i \in 1 .. m : 0 + i = i
    BY <1>0
  <2>5. L \in Seq(Seq(Letters)) /\ Len(L) = m /\ \A i \in 1 .. m : L[i] = A[i]
    BY <2>3, <2>4 DEF IsPiece
  <2>6. ASSUME NEW i \in 1 .. m PROVE D[i] = L[i]
    <3>1. i - 1 \in Rows /\ i \in Nat
      BY <1>0, <2>1 DEF Rows
    <3>3. D[i] = Text(cmd_history'[i - 1], RowLength(cmd_history'[i - 1]))
      BY <1>3, <2>2
    <3>4. CASE i < m
      <4>1. i \in 1 .. history_count /\ i - 1 # history_count
        BY <1>0, <3>1, <3>4
      <4>2. cmd_history'[i - 1] = cmd_history[i - 1]
        BY <1>0, <2>2, <3>1, <4>1
      <4>3. L[i] = C[i]
        BY <1>4, <2>5, <4>1
      <4> QED BY <1>2, <3>3, <4>1, <4>2, <4>3
    <3>5. CASE i = m
      <4>1. i - 1 = history_count
        BY <1>0, <3>5
      <4>2. cmd_history'[i - 1] = TypedRow
        BY <1>0, <2>1, <2>2, <4>1
      <4>3. L[i] = T
        BY <1>4, <2>5, <3>5
      <4> QED BY <1>1, <3>3, <4>2, <4>3
    <3> QED BY <3>1, <3>4, <3>5
  <2> QED BY <1>3, <2>2, <2>5, <2>6, SameText
<1> QED BY <1>5, <1>6

LEMMA EndOfLineEnters ==
    ASSUME LineSizeAssumption, LineInv, LineInv', EndOfLine
    PROVE  Editor!Enter
<1>0. /\ LinePart /\ HistoryPart /\ HistoryPart' /\ LinePart' /\ PushHistory
      /\ line_position' = 0 /\ line_curpos' = 0 /\ line_position \in Nat
      /\ discarded' = FALSE /\ pressed' = "enter" /\ current_history' = history_count'
  BY LineInvSays, LineInvSaysNext DEF EndOfLine, Handles, LinePart, LineSizeAssumption, Places
<1> DEFINE T == Text(line, line_position)
           C == [r \in 1 .. history_count |-> Text(cmd_history[r - 1],
           RowLength(cmd_history[r - 1]))]
           D == [r \in 1 .. history_count' |-> Text(cmd_history'[r - 1],
           RowLength(cmd_history'[r - 1]))]
<1>1. IsTextOf(T, line, line_position)
  BY <1>0, LineTextIs DEF IsTextOf
<1>2. IsCommands(C, cmd_history, history_count)
  BY <1>0, HistoryCommands
<1>3. IsCommands(D, cmd_history', history_count')
  BY <1>0, CommandsAre DEF HistoryPart, HistoryIsText
<1>4. Text(line, line_position)' = <<>>
  <2>1. Text(line', 0) = <<>>
    BY DEF Text
  <2> QED BY <1>0, <2>1
<1> HIDE DEF T, C, D
<1>5. T = <<>> <=> line_position = 0
  <2>1. T \in Seq(Letters) /\ Len(T) = line_position
    BY <1>1 DEF IsTextOf
  <2> QED BY <2>1, EmptySeq
<1>6. SameAsLast <=> ~discarded /\ Editor!Last(C, 1) = <<T>>
  <2>1. CASE discarded
    BY <1>0, <2>1, DiscardedDiffers
  <2>2. CASE ~discarded
    BY <1>0, <1>1, <1>2, <2>2, SameIsSame
  <2> QED BY <2>1, <2>2
<1>7. Len(D) = history_count'
  BY <1>3 DEF IsCommands
<1>8. D = IF T # <<>> /\ (discarded \/ Editor!Last(C, 1) # <<T>>)
          THEN Editor!Last(Append(C, T), FINSH_HISTORY_LINES) ELSE C
  <2>1. CASE line_position = 0 \/ SameAsLast
    <3>1. UNCHANGED <<cmd_history, history_count>>
      BY <1>0, <2>1 DEF PushHistory
    <3>2. D = C
      BY <3>1 DEF C, D
    <3> QED BY <1>5, <1>6, <2>1, <3>2
  <2>2. CASE ~(line_position = 0 \/ SameAsLast)
    <3>1. D = Editor!Last(Append(C, T), FINSH_HISTORY_LINES)
      BY <1>0, <1>1, <1>2, <1>3, <2>2, PushAppends
    <3> QED BY <1>5, <1>6, <2>2, <3>1
  <2> QED BY <2>1, <2>2
<1> QED BY <1>0, <1>4, <1>7, <1>8 DEF Editor!Enter, T, C, D

LEMMA EditorStarts == ASSUME LettersAssumption, LineSizeAssumption, ShellInit PROVE Editor!Init
<1>1. Text(line, line_position) = <<>>
  BY DEF ShellInit, Text
<1>2. [r \in 1 .. history_count |-> Text(cmd_history[r - 1], RowLength(cmd_history[r - 1]))] = <<>>
  BY DEF ShellInit
<1>3. NUL \notin Letters
  BY DEF LettersAssumption, Keys
<1> QED BY <1>1, <1>2, <1>3 DEF ShellInit, Editor!Init

LEMMA EditorStep ==
    ASSUME LettersAssumption, LineSizeAssumption, NamesAssumption, ~TabAlways, LineInv, LineInv',
           [ShellNext]_shellVars
    PROVE  [Editor!Next]_(Editor!vars)
<1>1. CASE Escape \/ Bracket \/ Nul
  <2>1. /\ pressed' \in {"escape", "bracket", NUL}
        /\ UNCHANGED <<line, line_position, line_curpos, cmd_history, history_count,
                        current_history, discarded>>
    BY <1>1 DEF Escape, Bracket, Nul, Handles, lineVars, historyVars
  <2>2. pressed' \notin Letters \cup {"backspace", "left", "right", "up", "down", "tab", "enter"}
    BY <2>1 DEF LettersAssumption, Keys, NUL
  <2> QED BY <2>1, <2>2, QuietEdit DEF Editor!Next, Editor!Ignore
<1>2. CASE UpKey BY <1>2, UpRecalls DEF Editor!Next
<1>3. CASE DownKey BY <1>3, DownRecalls DEF Editor!Next
<1>4. CASE LeftKey \/ RightKey BY <1>4, CursorMoves DEF Editor!Next
<1>5. CASE (TabAlways \/ ~discarded) /\ Tab BY <1>5, TabCompletes DEF Editor!Next
<1>6. CASE Backspace BY <1>6, BackspaceErases DEF Editor!Next
<1>7. CASE EndOfLine BY <1>7, EndOfLineEnters DEF Editor!Next
<1>8. CASE \E key \in Letters : Letter(key) BY <1>8, LetterTypes DEF Editor!Next
<1>9. CASE UNCHANGED shellVars
  BY <1>9, QuietEdit DEF shellVars, Editor!vars
<1> QED BY <1>1, <1>2, <1>3, <1>4, <1>5, <1>6, <1>7, <1>8, <1>9 DEF ShellNext

(* For any FINSH_CMD_SIZE and history, but for a completion after a line that *)
(* was discarded: each key that finsh_thread_entry handles does what the      *)
(* action of that key in LineEditor does, and the rows that shell_push_history *)
(* keeps are the commands entered last.                                      *)
THEOREM LineIsEdited ==
    ASSUME ~TabAlways
    PROVE  ShellSpec => EditsText
<1>1. ShellInit => LineInv /\ Editor!Init
  BY LineStarts, EditorStarts, LettersAssumption, LineSizeAssumption
<1>2. LineInv /\ [ShellNext]_shellVars => LineInv'
  BY LineStep, LettersAssumption, LineSizeAssumption, NamesAssumption
<1>3. LineInv /\ LineInv' /\ [ShellNext]_shellVars => [Editor!Next]_(Editor!vars)
  BY EditorStep, LettersAssumption, LineSizeAssumption, NamesAssumption
<1> QED BY <1>1, <1>2, <1>3, PTL DEF ShellSpec, EditsText, Editor!Spec

-----------------------------------------------------------------------------
(* The heap, for any size, any set of threads and whatever they ask for.      *)

(* The headers of the blocks, without what is said of free ones. *)
Chain(b, p) ==
    /\ b[p].next \in DOMAIN b
    /\ p + 12 < b[p].next
    /\ \A r \in DOMAIN b : r <= p \/ r >= b[p].next
    /\ b[p].next # heap_end => b[b[p].next].prev = p

Header == [next : Offsets, prev : Offsets, used : BOOLEAN]

Headers(b) ==
    /\ DOMAIN b \subseteq Offsets
    /\ \A p \in DOMAIN b : b[p] \in Header

Tiled(b) ==
    /\ Headers(b)
    /\ 0 \in DOMAIN b /\ heap_end \in DOMAIN b
    /\ b[0].prev = 0 /\ b[heap_end].used
    /\ \A p \in DOMAIN b \ {heap_end} : Chain(b, p)

(* No two free blocks touch, but for those that touch block m. *)
ApartBut(b, m) ==
    \A p \in DOMAIN b \ {heap_end} :
        p # m /\ b[p].next # m /\ ~b[p].used => b[b[p].next].used

Apart(b) == \A p \in DOMAIN b \ {heap_end} : ~b[p].used => b[b[p].next].used

(* lf is the lowest free block. *)
Lowest(b, lf) ==
    /\ lf \in DOMAIN b
    /\ lf # heap_end => ~b[lf].used
    /\ \A q \in DOMAIN b : ~b[q].used => lf <= q

Used(b) == {q \in DOMAIN b \ {heap_end} : b[q].used}

(* The used blocks of b and c are the same. *)
SameUsed(b, c) == Used(b) = Used(c) /\ \A q \in Used(b) : b[q].next = c[q].next

-----------------------------------------------------------------------------
LEMMA EndIs ==
    ASSUME HeapSizeAssumption
    PROVE  /\ heap_end \in Nat /\ heap_end % 4 = 0 /\ heap_end >= 24
           /\ heap_end = mem_size_aligned + 12 /\ mem_size_aligned \in Nat
           /\ Offsets \subseteq Nat /\ 0 \in Offsets /\ heap_end \in Offsets
           /\ \A x \in Offsets : x <= heap_end /\ x % 4 = 0
           /\ \A x \in Nat : x <= heap_end /\ x % 4 = 0 => x \in Offsets
<1>1. /\ heap_end \in Nat /\ heap_end % 4 = 0 /\ heap_end >= 24 /\ heap_end = mem_size_aligned + 12
      /\ mem_size_aligned \in Nat
  BY DEF HeapSizeAssumption, heap_end, RT_ALIGN_SIZE, SIZEOF_STRUCT_MEM, MIN_SIZE_ALIGNED
<1> HIDE DEF heap_end
<1> QED BY <1>1 DEF Offsets, RT_ALIGN_SIZE

(* J is b with block q, which ends at e, joined to block p. *)
IsJoined(J, b, p, q, e) ==
    /\ DOMAIN J = DOMAIN b \ {q}
    /\ J[p] = [next |-> e, prev |-> b[p].prev, used |-> b[p].used]
    /\ J[e] = [next |-> b[e].next, prev |-> p, used |-> b[e].used]
    /\ \A r \in DOMAIN b \ {q, p, e} : J[r] = b[r]

LEMMA JoinedIs ==
    ASSUME NEW b, Headers(b), NEW p \in DOMAIN b, NEW q \in DOMAIN b,
           NEW e \in DOMAIN b, e = b[q].next, p # q, e # p, e # q
    PROVE  IsJoined(Joined(b, p, q), b, p, q, e)
<1> DEFINE c == [b EXCEPT ![p].next = e, ![e].prev = p]
<1>1. DOMAIN c = DOMAIN b
  OBVIOUS
<1>2. \A r \in DOMAIN b : b[r] \in [next : Offsets, prev : Offsets, used : BOOLEAN]
  BY DEF Headers, Header
<1>3. c[p] = [next |-> e, prev |-> b[p].prev, used |-> b[p].used]
  BY <1>2
<1>4. c[e] = [next |-> b[e].next, prev |-> p, used |-> b[e].used]
  BY <1>2
<1>5. \A r \in DOMAIN b \ {q, p, e} : c[r] = b[r]
  OBVIOUS
<1>6. Joined(b, p, q) = [r \in DOMAIN c \ {q} |-> c[r]]
  BY DEF Joined, Without
<1> HIDE DEF c
<1> QED BY <1>1, <1>3, <1>4, <1>5, <1>6 DEF IsJoined

(* S is b with block p, which ends at e, cut at p2. *)
IsSplit(S, b, p, p2, e) ==
    /\ DOMAIN S = DOMAIN b \cup {p2}
    /\ S[p] = [next |-> p2, prev |-> b[p].prev, used |-> b[p].used]
    /\ S[p2] = [next |-> e, prev |-> p, used |-> FALSE]
    /\ S[e] = [next |-> b[e].next,
               prev |-> IF e = heap_end THEN b[e].prev ELSE p2, used |-> b[e].used]
    /\ \A r \in DOMAIN b \ {p, e} : S[r] = b[r]

LEMMA SplitIs ==
    ASSUME NEW b, Headers(b), NEW p \in DOMAIN b, NEW p2, p2 \notin DOMAIN b,
           NEW e \in DOMAIN b, e = b[p].next, e # p, NEW S, S = Split(b, p, p2)
    PROVE  IsSplit(S, b, p, p2, e)
<1> DEFINE w == With(b, p2, [next |-> e, prev |-> p, used |-> FALSE])
           c == [w EXCEPT ![p].next = p2]
           d == [c EXCEPT ![e].prev = p2]
<1>2. \A r \in DOMAIN b : b[r] \in [next : Offsets, prev : Offsets, used : BOOLEAN]
  BY DEF Headers, Header
<1>3. /\ DOMAIN w = DOMAIN b \cup {p2} /\ w[p2] = [next |-> e, prev |-> p, used |-> FALSE]
      /\ \A r \in DOMAIN b : w[r] = b[r]
  BY DEF With
<1> HIDE DEF w
<1>4. /\ DOMAIN c = DOMAIN b \cup {p2} /\ c[p2] = [next |-> e, prev |-> p, used |-> FALSE]
      /\ \A r \in DOMAIN b \ {p} : c[r] = b[r]
      /\ c[p] = [next |-> p2, prev |-> b[p].prev, used |-> b[p].used]
  BY <1>2, <1>3
<1>5. S = IF e # heap_end THEN d ELSE c
  BY DEF Split, w
<1> HIDE DEF c
<1>6. /\ DOMAIN d = DOMAIN b \cup {p2} /\ d[p2] = [next |-> e, prev |-> p, used |-> FALSE]
      /\ \A r \in DOMAIN b \ {p, e} : d[r] = b[r]
      /\ d[p] = [next |-> p2, prev |-> b[p].prev, used |-> b[p].used]
  BY <1>4
<1>7. d[e] = [next |-> b[e].next, prev |-> p2, used |-> b[e].used]
  BY <1>2, <1>4
<1>8. c[e] = [next |-> b[e].next, prev |-> b[e].prev, used |-> b[e].used]
  BY <1>2, <1>4
<1> HIDE DEF d
<1>9. CASE e = heap_end
  BY <1>4, <1>5, <1>8, <1>9 DEF IsSplit
<1>10. CASE e # heap_end
  BY <1>5, <1>6, <1>7, <1>10 DEF IsSplit
<1> QED BY <1>9, <1>10

LEMMA MarkIs ==
    ASSUME NEW b, Headers(b), NEW p \in DOMAIN b, NEW v \in BOOLEAN
    PROVE  LET M == [b EXCEPT ![p].used = v]
           IN  /\ DOMAIN M = DOMAIN b
               /\ M[p] = [next |-> b[p].next, prev |-> b[p].prev, used |-> v]
               /\ \A r \in DOMAIN b \ {p} : M[r] = b[r]
<1>2. \A r \in DOMAIN b : b[r] \in [next : Offsets, prev : Offsets, used : BOOLEAN]
  BY DEF Headers, Header
<1> QED BY <1>2

(* The numbers in a chain of blocks. *)
LEMMA TiledNumbers ==
    ASSUME HeapSizeAssumption, NEW b, Tiled(b)
    PROVE  /\ \A p \in DOMAIN b : /\ p \in Nat /\ p % 4 = 0 /\ p <= heap_end
                                  /\ b[p].next \in Offsets /\ b[p].prev \in Offsets
                                  /\ b[p].used \in BOOLEAN
           /\ \A p \in DOMAIN b \ {heap_end} :
                 /\ p < heap_end /\ b[p].next \in DOMAIN b /\ b[p].next \in Nat
                 /\ p + 12 < b[p].next
                 /\ \A r \in DOMAIN b : r <= p \/ r >= b[p].next
                 /\ b[p].next # heap_end => b[b[p].next].prev = p
<1>1. \A p \in DOMAIN b : p \in Nat /\ p % 4 = 0 /\ p <= heap_end /\ b[p] \in Header
  BY EndIs DEF Tiled, Headers
<1>2. heap_end \in Nat /\ Offsets \subseteq Nat
  BY EndIs
<1> HIDE DEF heap_end, Offsets
<1>3. \A p \in DOMAIN b : b[p].next \in Offsets /\ b[p].prev \in Offsets /\ b[p].used \in BOOLEAN
  BY <1>1 DEF Header
<1>4. \A p \in DOMAIN b \ {heap_end} : Chain(b, p)
  BY DEF Tiled
<1>5. \A p \in DOMAIN b \ {heap_end} : p < heap_end
  BY <1>1, <1>2
<1> QED BY <1>1, <1>2, <1>3, <1>4, <1>5 DEF Chain

LEMMA MarkTiled ==
    ASSUME HeapSizeAssumption, NEW b, Tiled(b), NEW p \in DOMAIN b \ {heap_end}, NEW v \in BOOLEAN
    PROVE  Tiled([b EXCEPT ![p].used = v])
<1>1. Headers(b)
  BY DEF Tiled
<1> SUFFICES ASSUME NEW M, M = [b EXCEPT ![p].used = v] PROVE Tiled(M)
  OBVIOUS
<1>2. /\ DOMAIN M = DOMAIN b
      /\ M[p] = [next |-> b[p].next, prev |-> b[p].prev, used |-> v]
      /\ \A r \in DOMAIN b \ {p} : M[r] = b[r]
  BY <1>1, MarkIs
<1>3. \A r \in DOMAIN b : M[r].next = b[r].next /\ M[r].prev = b[r].prev
  BY <1>2
<1>4. Headers(M)
  BY <1>1, <1>2 DEF Headers, Header
<1>5. \A r \in DOMAIN M \ {heap_end} : Chain(M, r)
  BY <1>2, <1>3 DEF Tiled, Chain
<1> QED BY <1>2, <1>3, <1>4, <1>5 DEF Tiled

LEMMA JoinedTiled ==
    ASSUME HeapSizeAssumption, NEW b, Tiled(b), NEW p \in DOMAIN b \ {heap_end},
           b[p].next # heap_end
    PROVE  /\ Tiled(Joined(b, p, b[p].next))
           /\ b[p].next \in DOMAIN b /\ p < b[p].next
           /\ b[b[p].next].next \in DOMAIN b /\ b[p].next < b[b[p].next].next
<1> SUFFICES ASSUME NEW q, q = b[p].next, NEW e, e = b[q].next, NEW J, J = Joined(b, p, q)
             PROVE  Tiled(J) /\ q \in DOMAIN b /\ p < q /\ e \in DOMAIN b /\ q < e
  OBVIOUS
<1> HIDE DEF heap_end, Offsets
<1>0. heap_end \in Nat
  BY EndIs
<1>1. /\ Headers(b) /\ p \in Nat /\ q \in DOMAIN b \ {heap_end} /\ q \in Nat /\ p < q
      /\ e \in DOMAIN b /\ e \in Nat /\ q < e /\ p + 12 < e
  BY <1>0, TiledNumbers DEF Tiled
<1>2. /\ DOMAIN J = DOMAIN b \ {q}
      /\ J[p] = [next |-> e, prev |-> b[p].prev, used |-> b[p].used]
      /\ J[e] = [next |-> b[e].next, prev |-> p, used |-> b[e].used]
      /\ \A r \in DOMAIN b \ {q, p, e} : J[r] = b[r]
  <2>1. /\ Headers(b) /\ p \in DOMAIN b /\ q \in DOMAIN b /\ e \in DOMAIN b /\ e = b[q].next
        /\ p # q /\ e # p /\ e # q
    BY <1>1
  <2>2. IsJoined(J, b, p, q, e)
    BY <2>1, JoinedIs
  <2> QED BY <2>2 DEF IsJoined
<1>3. Headers(J)
  BY <1>1, <1>2 DEF Headers, Header
<1>4. 0 \in DOMAIN J /\ heap_end \in DOMAIN J /\ J[0].prev = 0 /\ J[heap_end].used
  BY <1>0, <1>1, <1>2 DEF Tiled
<1>5. ASSUME NEW r \in DOMAIN J \ {heap_end} PROVE Chain(J, r)
  <2>0. /\ r \in DOMAIN b \ {heap_end, q} /\ r \in Nat
        /\ \A x \in DOMAIN b : x \in Nat
    BY <1>2, TiledNumbers
  <2>1. CASE r = p
    <3>1. J[r].next = e /\ J[e].prev = p
      BY <1>2, <2>1
    <3>2. \A x \in DOMAIN J : x <= p \/ x >= e
      <4>1. \A x \in DOMAIN b : (x <= p \/ x >= q) /\ (x <= q \/ x >= e)
        BY <1>1, TiledNumbers
      <4> QED BY <1>1, <1>2, <2>0, <4>1
    <3> QED BY <1>1, <1>2, <2>1, <3>1, <3>2 DEF Chain
  <2>2. CASE r # p
    <3>1. J[r].next = b[r].next
      BY <1>2, <2>0, <2>2
    <3>2. /\ b[r].next \in DOMAIN b /\ b[r].next \in Nat /\ r + 12 < b[r].next
          /\ \A x \in DOMAIN b : x <= r \/ x >= b[r].next
          /\ b[r].next # heap_end => b[b[r].next].prev = r
      BY <2>0, TiledNumbers
    <3>3. b[r].next # q
      <4>1. b[q].prev = p
        BY <1>1, TiledNumbers
      <4> QED BY <1>1, <2>2, <3>2, <4>1
    <3>4. b[r].next # e
      <4>1. q <= r \/ q >= b[r].next
        BY <1>1, <3>2
      <4>2. r <= q \/ r >= e
        BY <1>1, <2>0, TiledNumbers
      <4> QED BY <1>1, <2>0, <3>2, <4>1, <4>2
    <3>5. b[r].next # heap_end => J[b[r].next].prev = r
      <4> SUFFICES ASSUME b[r].next # heap_end PROVE J[b[r].next].prev = r
        OBVIOUS
      <4>1. b[r].next = p => J[b[r].next].prev = b[b[r].next].prev
        BY <1>2
      <4>2. b[r].next # p => J[b[r].next].prev = b[b[r].next].prev
        BY <1>2, <3>2, <3>3, <3>4
      <4> QED BY <3>2, <4>1, <4>2
    <3> QED BY <1>2, <3>1, <3>2, <3>3, <3>5 DEF Chain
  <2> QED BY <2>1, <2>2
<1> QED BY <1>1, <1>3, <1>4, <1>5 DEF Tiled

LEMMA SplitTiled ==
    ASSUME HeapSizeAssumption, NEW b, Tiled(b), NEW p \in DOMAIN b \ {heap_end},
           NEW p2 \in Nat, p2 % 4 = 0, p + 12 < p2, p2 + 12 < b[p].next
    PROVE  Tiled(Split(b, p, p2)) /\ p2 \notin DOMAIN b
<1> SUFFICES ASSUME NEW e, e = b[p].next, NEW S, S = Split(b, p, p2)
             PROVE  Tiled(S) /\ p2 \notin DOMAIN b
  OBVIOUS
<1> HIDE DEF heap_end, Offsets
<1>0. heap_end \in Nat
  BY EndIs
<1>1. /\ Headers(b) /\ p \in Nat /\ e \in DOMAIN b /\ e \in Nat /\ p < e /\ e <= heap_end /\ p2 < e
      /\ \A x \in DOMAIN b : x \in Nat /\ (x <= p \/ x >= e)
  BY <1>0, TiledNumbers DEF Tiled
<1>2. p2 \notin DOMAIN b /\ p2 \in Offsets
  BY <1>0, <1>1, EndIs
<1>3. /\ DOMAIN S = DOMAIN b \cup {p2}
      /\ S[p] = [next |-> p2, prev |-> b[p].prev, used |-> b[p].used]
      /\ S[p2] = [next |-> e, prev |-> p, used |-> FALSE]
      /\ S[e] = [next |-> b[e].next,
                 prev |-> IF e = heap_end THEN b[e].prev ELSE p2, used |-> b[e].used]
      /\ \A r \in DOMAIN b \ {p, e} : S[r] = b[r]
  <2>1. Headers(b) /\ p \in DOMAIN b /\ p2 \notin DOMAIN b /\ e \in DOMAIN b /\ e # p
    BY <1>1, <1>2
  <2>2. IsSplit(S, b, p, p2, e)
    BY <2>1, SplitIs
  <2> QED BY <2>2 DEF IsSplit
<1>4. Headers(S)
  <2>1. p \in Offsets /\ e \in Offsets
    BY <1>1 DEF Headers
  <2>2. DOMAIN S \subseteq Offsets
    BY <1>1, <1>2, <1>3 DEF Headers
  <2>3. S[p] \in Header /\ S[p2] \in Header
    BY <1>1, <1>2, <1>3, <2>1 DEF Headers, Header
  <2>4. S[e] \in Header
    BY <1>1, <1>2, <1>3, <2>1 DEF Headers, Header
  <2>5. \A r \in DOMAIN b \ {p, e} : S[r] \in Header
    BY <1>1, <1>3 DEF Headers
  <2> QED BY <1>3, <2>2, <2>3, <2>4, <2>5 DEF Headers
<1>5. 0 \in DOMAIN S /\ heap_end \in DOMAIN S /\ S[0].prev = 0 /\ S[heap_end].used
  BY <1>0, <1>1, <1>3 DEF Tiled
<1>6. ASSUME NEW r \in DOMAIN S \ {heap_end} PROVE Chain(S, r)
  <2>1. CASE r = p
    <3>1. \A x \in DOMAIN S : x <= p \/ x >= p2
      BY <1>1, <1>3
    <3> QED BY <1>1, <1>3, <2>1, <3>1 DEF Chain
  <2>2. CASE r = p2
    <3>1. \A x \in DOMAIN S : x <= p2 \/ x >= e
      BY <1>1, <1>3
    <3> QED BY <1>1, <1>3, <2>2, <3>1 DEF Chain
  <2>3. CASE r # p /\ r # p2
    <3>0. r \in DOMAIN b \ {heap_end} /\ r \in Nat
      BY <1>1, <1>3, <2>3
    <3>1. S[r].next = b[r].next
      BY <1>3, <2>3
    <3>2. /\ b[r].next \in DOMAIN b /\ b[r].next \in Nat /\ r + 12 < b[r].next
          /\ \A x \in DOMAIN b : x <= r \/ x >= b[r].next
          /\ b[r].next # heap_end => b[b[r].next].prev = r
      BY <3>0, TiledNumbers
    <3>3. (r <= p \/ r >= e) /\ (p <= r \/ p >= b[r].next)
      BY <1>1, <3>0, <3>2
    <3>4. b[r].next # e
      BY <1>1, <2>3, <3>0, <3>2, <3>3
    <3>5. \A x \in DOMAIN S : x <= r \/ x >= b[r].next
      BY <1>1, <1>3, <2>3, <3>0, <3>2, <3>3
    <3>6. b[r].next # heap_end => S[b[r].next].prev = r
      <4>1. b[r].next = p => S[b[r].next].prev = b[b[r].next].prev
        BY <1>3
      <4>2. b[r].next # p => S[b[r].next].prev = b[b[r].next].prev
        BY <1>3, <3>2, <3>4
      <4> QED BY <3>2, <4>1, <4>2
    <3> QED BY <1>3, <3>1, <3>2, <3>5, <3>6 DEF Chain
  <2> QED BY <2>1, <2>2, <2>3
<1> QED BY <1>2, <1>4, <1>5, <1>6 DEF Tiled

(* Every block but the first has one before it. *)
LEMMA BlockBefore ==
    ASSUME HeapSizeAssumption, NEW b, Tiled(b), NEW p \in DOMAIN b, p # 0
    PROVE  \E q \in DOMAIN b \ {heap_end} : b[q].next = p
<1> HIDE DEF heap_end, Offsets
<1> DEFINE T == {d \in Nat : d > 0 /\ p - d \in DOMAIN b}
<1>0. \A x \in DOMAIN b : x \in Nat /\ x <= heap_end
  BY TiledNumbers
<1>1. p \in T /\ T \subseteq Nat
  <2>1. p \in Nat /\ p > 0 /\ p - p = 0
    BY <1>0
  <2> QED BY <2>1 DEF Tiled
<1>2. PICK d \in T : \A y \in T : d <= y
  <2>1. T \in SUBSET Nat /\ T # {}
    BY <1>1
  <2> HIDE DEF T
  <2> QED BY <2>1, LeastNumber
<1> DEFINE q == p - d
<1>3. /\ q \in DOMAIN b /\ q \in Nat /\ q < p /\ p <= heap_end /\ p \in Nat /\ d \in Nat
      /\ heap_end \in Nat
  BY <1>0, EndIs
<1>4. q \in DOMAIN b \ {heap_end}
  BY <1>3
<1>5. /\ b[q].next \in DOMAIN b /\ b[q].next \in Nat /\ q < b[q].next
      /\ p <= q \/ p >= b[q].next
  <2> HIDE DEF q
  <2>1. q + 12 < b[q].next /\ b[q].next \in DOMAIN b /\ b[q].next \in Nat
    BY <1>4, TiledNumbers
  <2>2. p <= q \/ p >= b[q].next
    BY <1>4, TiledNumbers
  <2> QED BY <1>3, <2>1, <2>2
<1>6. b[q].next = p
  <2> SUFFICES ASSUME b[q].next # p PROVE FALSE
    OBVIOUS
  <2> DEFINE n == b[q].next
  <2>1. n \in DOMAIN b /\ n \in Nat /\ q < n /\ n < p
    BY <1>3, <1>5
  <2> HIDE DEF n
  <2>2. p - n \in Nat /\ p - n > 0 /\ p - (p - n) = n /\ p - n < d
    BY <1>3, <2>1
  <2>3. p - n \in T
    BY <2>1, <2>2
  <2>4. d <= p - n
    BY <1>2, <2>3
  <2> QED BY <1>3, <2>2, <2>4
<1> QED BY <1>4, <1>6

(* A free block is joined to a free block. *)
(* J is b with the free blocks p and q, which touch, made one. *)
IsFreeJoin(J, b, p, q, lf) ==
    /\ Tiled(J) /\ SameUsed(b, J) /\ Lowest(J, lf) /\ lf # q
    /\ DOMAIN J = DOMAIN b \ {q} /\ q \in DOMAIN b /\ p # q
    /\ \A r \in DOMAIN J : J[r].used = b[r].used
    /\ \A r \in DOMAIN J \ {p} : J[r].next = b[r].next
    /\ J[p].next = b[q].next
    /\ \A r \in DOMAIN b \ {heap_end, p} : b[r].next # q

LEMMA JoinFree ==
    ASSUME HeapSizeAssumption, NEW b, Tiled(b), NEW p \in DOMAIN b \ {heap_end},
           NEW q, q = b[p].next, q # heap_end, ~b[p].used, ~b[q].used, NEW lf, Lowest(b, lf),
           NEW J, J = Joined(b, p, q)
    PROVE  IsFreeJoin(J, b, p, q, lf)
<1> HIDE DEF heap_end, Offsets
<1>1. /\ Tiled(J) /\ q \in DOMAIN b /\ p < q /\ b[q].next \in DOMAIN b /\ q < b[q].next
  BY JoinedTiled
<1>2. \A r \in DOMAIN b : r \in Nat
  BY TiledNumbers
<1>3. Headers(b) /\ p # q /\ b[q].next # p /\ b[q].next # q
  BY <1>1, <1>2 DEF Tiled
<1>4. /\ DOMAIN J = DOMAIN b \ {q}
      /\ J[p] = [next |-> b[q].next, prev |-> b[p].prev, used |-> b[p].used]
      /\ J[b[q].next] = [next |-> b[b[q].next].next, prev |-> p, used |-> b[b[q].next].used]
      /\ \A r \in DOMAIN b \ {q, p, b[q].next} : J[r] = b[r]
  <2>1. IsJoined(J, b, p, q, b[q].next)
    BY <1>1, <1>3, JoinedIs
  <2> QED BY <2>1 DEF IsJoined
<1>5. /\ \A r \in DOMAIN J : J[r].used = b[r].used
      /\ \A r \in DOMAIN J \ {p} : J[r].next = b[r].next
      /\ J[p].next = b[q].next
  BY <1>1, <1>4
<1>6. \A r \in DOMAIN b \ {heap_end, p} : b[r].next # q
  <2>1. b[q].prev = p
    BY TiledNumbers
  <2> QED BY <2>1, TiledNumbers
<1>7. SameUsed(b, J)
  <2>1. Used(J) = Used(b)
    BY <1>4, <1>5 DEF Used
  <2> QED BY <2>1, <1>4, <1>5 DEF SameUsed, Used
<1>8. lf # q
  BY <1>1, <1>2 DEF Lowest
<1>9. Lowest(J, lf)
  BY <1>4, <1>5, <1>8 DEF Lowest
<1> QED BY <1>1, <1>3, <1>4, <1>5, <1>6, <1>7, <1>8, <1>9 DEF IsFreeJoin

LEMMA PlugForwardIs ==
    ASSUME HeapSizeAssumption, NEW b, Tiled(b), NEW mem \in DOMAIN b \ {heap_end}, ~b[mem].used,
           ApartBut(b, mem), NEW lf, Lowest(b, lf),
           NEW h, h = PlugForward([blocks |-> b, lfree |-> lf], mem)
    PROVE  /\ h.lfree = lf /\ h = [blocks |-> h.blocks, lfree |-> h.lfree]
           /\ Tiled(h.blocks) /\ SameUsed(b, h.blocks) /\ Lowest(h.blocks, h.lfree)
           /\ mem \in DOMAIN h.blocks /\ ~h.blocks[mem].used
           /\ ApartBut(h.blocks, mem) /\ h.blocks[h.blocks[mem].next].used
<1> HIDE DEF heap_end, Offsets
<1> DEFINE n == b[mem].next
<1>1. n \in DOMAIN b /\ mem \in Nat /\ n \in Nat /\ mem < n /\ b[heap_end].used
  <2>1. n \in DOMAIN b /\ mem \in Nat /\ n \in Nat /\ mem + 12 < n
    BY TiledNumbers
  <2> QED BY <2>1 DEF Tiled
<1>2. h = IF ~b[n].used /\ n # heap_end
          THEN [blocks |-> Joined(b, mem, n), lfree |-> IF lf = n THEN mem ELSE lf]
          ELSE [blocks |-> b, lfree |-> lf]
  BY <1>1 DEF PlugForward
<1>3. CASE ~b[n].used /\ n # heap_end
  <2> SUFFICES ASSUME NEW J, J = Joined(b, mem, n)
               PROVE  /\ h.lfree = lf /\ h = [blocks |-> h.blocks, lfree |-> h.lfree]
                      /\ Tiled(h.blocks) /\ SameUsed(b, h.blocks) /\ Lowest(h.blocks, h.lfree)
                      /\ mem \in DOMAIN h.blocks /\ ~h.blocks[mem].used
                      /\ ApartBut(h.blocks, mem) /\ h.blocks[h.blocks[mem].next].used
    OBVIOUS
  <2>1. /\ Tiled(J) /\ SameUsed(b, J) /\ Lowest(J, lf) /\ lf # n
        /\ DOMAIN J = DOMAIN b \ {n} /\ n \in DOMAIN b /\ mem # n
        /\ \A r \in DOMAIN J : J[r].used = b[r].used
        /\ \A r \in DOMAIN J \ {mem} : J[r].next = b[r].next
        /\ J[mem].next = b[n].next
        /\ \A r \in DOMAIN b \ {heap_end, mem} : b[r].next # n
    <3>1. IsFreeJoin(J, b, mem, n, lf)
      BY <1>3, JoinFree
    <3> QED BY <3>1 DEF IsFreeJoin
  <2>2. h.blocks = J /\ h.lfree = lf /\ h = [blocks |-> J, lfree |-> lf]
    BY <1>2, <1>3, <2>1
  <2>3. b[n].next \in DOMAIN b /\ b[n].next # n /\ b[n].next # mem
    <3>1. n + 12 < b[n].next /\ b[n].next \in DOMAIN b /\ b[n].next \in Nat
      BY <1>3, <2>1, TiledNumbers
    <3> QED BY <1>1, <3>1
  <2>4. J[J[mem].next].used
    <3>1. b[b[n].next].used
      BY <1>3, <2>1, <2>3 DEF ApartBut
    <3> QED BY <2>1, <2>3, <3>1
  <2>5. ApartBut(J, mem)
    <3> SUFFICES ASSUME NEW p \in DOMAIN J \ {heap_end}, p # mem, J[p].next # mem, ~J[p].used
                 PROVE  J[J[p].next].used
      BY DEF ApartBut
    <3>1. p \in DOMAIN b \ {heap_end} /\ J[p].next = b[p].next /\ ~b[p].used /\ b[p].next # n
      BY <2>1
    <3>2. b[b[p].next].used /\ b[p].next \in DOMAIN b
      BY <3>1, TiledNumbers DEF ApartBut
    <3> QED BY <2>1, <3>1, <3>2
  <2>6. mem \in DOMAIN J /\ ~J[mem].used
    BY <2>1
  <2> QED BY <2>1, <2>2, <2>4, <2>5, <2>6
<1>4. CASE ~(~b[n].used /\ n # heap_end)
  <2>1. h.blocks = b /\ h.lfree = lf /\ h = [blocks |-> b, lfree |-> lf]
    BY <1>2, <1>4
  <2>2. SameUsed(b, b)
    BY DEF SameUsed
  <2> QED BY <1>1, <1>4, <2>1, <2>2
<1> QED BY <1>3, <1>4

LEMMA PlugBackwardIs ==
    ASSUME HeapSizeAssumption, NEW b, Tiled(b), NEW mem \in DOMAIN b \ {heap_end}, ~b[mem].used,
           ApartBut(b, mem), b[b[mem].next].used, NEW lf, Lowest(b, lf),
           NEW h, h = PlugBackward([blocks |-> b, lfree |-> lf], mem)
    PROVE  /\ Tiled(h.blocks) /\ SameUsed(b, h.blocks) /\ Lowest(h.blocks, h.lfree)
           /\ Apart(h.blocks)
<1> HIDE DEF heap_end, Offsets
<1> DEFINE m == b[mem].prev
<1>1. h = IF m # mem /\ ~b[m].used
          THEN [blocks |-> Joined(b, m, mem), lfree |-> IF lf = mem THEN m ELSE lf]
          ELSE [blocks |-> b, lfree |-> lf]
  BY DEF PlugBackward
<1>2. /\ \A r \in DOMAIN b : r \in Nat /\ b[r].used \in BOOLEAN
      /\ \A r \in DOMAIN b \ {heap_end} : b[r].next \in DOMAIN b /\ r + 12 < b[r].next
  BY TiledNumbers
<1>3. ASSUME NEW q \in DOMAIN b \ {heap_end}, b[q].next = mem PROVE q = m /\ q # mem
  <2>1. b[mem].prev = q
    BY <1>3, TiledNumbers
  <2> QED BY <1>2, <1>3, <2>1
<1>4. CASE h = [blocks |-> b, lfree |-> lf] /\ (m = mem \/ b[m].used)
  <2>1. SameUsed(b, b)
    BY DEF SameUsed
  <2>2. ASSUME NEW p \in DOMAIN b \ {heap_end}, ~b[p].used PROVE b[b[p].next].used
    <3>1. CASE p = mem
      BY <3>1
    <3>2. CASE b[p].next = mem
      BY <1>3, <1>4, <2>2, <3>2
    <3>3. CASE p # mem /\ b[p].next # mem
      BY <2>2, <3>3 DEF ApartBut
    <3> QED BY <3>1, <3>2, <3>3
  <2>3. h.blocks = b /\ h.lfree = lf
    BY <1>4
  <2> QED BY <2>1, <2>2, <2>3 DEF Apart
<1>5. CASE m # mem /\ ~b[m].used
  <2>1. mem # 0
    BY <1>5 DEF Tiled
  <2>2. PICK q \in DOMAIN b \ {heap_end} : b[q].next = mem
    BY <2>1, BlockBefore
  <2>3. m \in DOMAIN b \ {heap_end} /\ b[m].next = mem
    BY <1>3, <2>2
  <2> HIDE DEF m
  <2> SUFFICES ASSUME NEW J, J = Joined(b, m, mem)
               PROVE  /\ Tiled(h.blocks) /\ SameUsed(b, h.blocks) /\ Lowest(h.blocks, h.lfree)
                      /\ Apart(h.blocks)
    OBVIOUS
  <2>4. /\ Tiled(J) /\ SameUsed(b, J) /\ Lowest(J, lf) /\ lf # mem
        /\ DOMAIN J = DOMAIN b \ {mem} /\ m # mem
        /\ \A r \in DOMAIN J : J[r].used = b[r].used
        /\ \A r \in DOMAIN J \ {m} : J[r].next = b[r].next
        /\ J[m].next = b[mem].next
        /\ \A r \in DOMAIN b \ {heap_end, m} : b[r].next # mem
    <3>1. IsFreeJoin(J, b, m, mem, lf)
      BY <1>5, <2>3, JoinFree
    <3> QED BY <3>1 DEF IsFreeJoin
  <2>5. h.blocks = J /\ h.lfree = lf
    BY <1>1, <1>5, <2>4
  <2>6. ASSUME NEW p \in DOMAIN J \ {heap_end}, ~J[p].used PROVE J[J[p].next].used
    <3>1. CASE p = m
      <4>1. b[mem].next \in DOMAIN b /\ b[mem].next # mem
        <5>1. b[mem].next \in DOMAIN b /\ mem + 12 < b[mem].next /\ mem \in Nat
          BY <1>2
        <5> QED BY <1>2, <5>1
      <4> QED BY <2>4, <3>1, <4>1
    <3>2. CASE p # m
      <4>1. /\ p \in DOMAIN b \ {heap_end} /\ p # mem /\ J[p].next = b[p].next /\ ~b[p].used
            /\ b[p].next # mem
        BY <2>4, <2>6, <3>2
      <4>2. b[b[p].next].used /\ b[p].next \in DOMAIN b
        BY <1>2, <4>1 DEF ApartBut
      <4> QED BY <2>4, <4>1, <4>2
    <3> QED BY <3>1, <3>2
  <2> QED BY <2>4, <2>5, <2>6 DEF Apart
<1> QED BY <1>1, <1>4, <1>5

(* plug_holes closes the holes around the block that became free. *)
LEMMA PlugHolesIs ==
    ASSUME HeapSizeAssumption, NEW b, Tiled(b), NEW mem \in DOMAIN b \ {heap_end}, ~b[mem].used,
           ApartBut(b, mem), NEW lf, Lowest(b, lf),
           NEW h, h = plug_holes([blocks |-> b, lfree |-> lf], mem)
    PROVE  /\ Tiled(h.blocks) /\ SameUsed(b, h.blocks) /\ Lowest(h.blocks, h.lfree)
           /\ Apart(h.blocks)
<1> SUFFICES ASSUME NEW g, g = PlugForward([blocks |-> b, lfree |-> lf], mem)
             PROVE  /\ Tiled(h.blocks) /\ SameUsed(b, h.blocks) /\ Lowest(h.blocks, h.lfree)
                    /\ Apart(h.blocks)
  OBVIOUS
<1>1. /\ g.lfree = lf /\ g = [blocks |-> g.blocks, lfree |-> g.lfree]
      /\ Tiled(g.blocks) /\ SameUsed(b, g.blocks) /\ Lowest(g.blocks, g.lfree)
      /\ mem \in DOMAIN g.blocks /\ ~g.blocks[mem].used
      /\ ApartBut(g.blocks, mem) /\ g.blocks[g.blocks[mem].next].used
  BY PlugForwardIs
<1>2. h = PlugBackward([blocks |-> g.blocks, lfree |-> g.lfree], mem)
  BY <1>1 DEF plug_holes
<1>3. /\ Tiled(h.blocks) /\ SameUsed(g.blocks, h.blocks) /\ Lowest(h.blocks, h.lfree)
      /\ Apart(h.blocks)
  BY <1>1, <1>2, PlugBackwardIs
<1>4. SameUsed(b, h.blocks)
  BY <1>1, <1>3 DEF SameUsed
<1> QED BY <1>3, <1>4

-----------------------------------------------------------------------------
(* The lowest free block *)

LEMMA MinIs ==
    ASSUME NEW S, S \subseteq Nat, S # {}
    PROVE  Min(S) \in S /\ \A y \in S : Min(S) <= y
<1>1. \E x \in S : \A y \in S : x <= y
  BY LeastNumber
<1> QED BY <1>1 DEF Min

(* The loop of rt_malloc finds the lowest free block if none is below. *)
LEMMA NextFreeIs ==
    ASSUME HeapSizeAssumption, NEW b, Tiled(b), NEW p \in Nat,
           \A q \in DOMAIN b : ~b[q].used => p <= q
    PROVE  Lowest(b, NextFree(b, p))
<1> HIDE DEF heap_end, Offsets
<1> DEFINE free == {q \in DOMAIN b : q >= p /\ ~b[q].used}
<1>1. \A q \in DOMAIN b : q \in Nat /\ q <= heap_end
  BY TiledNumbers
<1>2. \A q \in DOMAIN b : ~b[q].used => q \in free
  BY <1>1
<1>3. NextFree(b, p) = IF free = {} THEN heap_end ELSE Min(free)
  BY DEF NextFree
<1>4. CASE free = {}
  BY <1>2, <1>3, <1>4 DEF Lowest, Tiled
<1>5. CASE free # {}
  <2>1. free \subseteq Nat
    BY <1>1
  <2> HIDE DEF free
  <2>2. Min(free) \in free /\ \A y \in free : Min(free) <= y
    BY <1>5, <2>1, MinIs
  <2> QED BY <1>2, <1>3, <1>5, <2>2 DEF Lowest, free
<1> QED BY <1>4, <1>5

LEMMA LowestIs ==
    ASSUME HeapSizeAssumption, NEW b, Tiled(b), NEW lf, Lowest(b, lf)
    PROVE  lf = NextFree(b, 0)
<1> HIDE DEF heap_end, Offsets
<1>1. \A q \in DOMAIN b : q \in Nat /\ q <= heap_end
  BY TiledNumbers
<1>2. Lowest(b, NextFree(b, 0))
  BY <1>1, NextFreeIs
<1>3. heap_end \in Nat
  BY EndIs
<1> SUFFICES ASSUME NEW m, m = NextFree(b, 0) PROVE lf = m
  OBVIOUS
<1>4. Lowest(b, m)
  BY <1>2
<1>5. lf <= m /\ m <= lf
  BY <1>1, <1>4 DEF Lowest
<1>6. lf \in Nat /\ m \in Nat
  BY <1>1, <1>4 DEF Lowest
<1> QED BY <1>5, <1>6

-----------------------------------------------------------------------------
(* Bytes in use *)

LEMMA BytesIn ==
    ASSUME HeapSizeAssumption, NEW b, Tiled(b)
    PROVE  /\ UsedBytes(b) \subseteq 0 .. heap_end - 1
           /\ IsFiniteSet(UsedBytes(b))
           /\ Cardinality(UsedBytes(b)) \in 0 .. heap_end
<1> HIDE DEF heap_end, Offsets
<1>0. heap_end \in Nat /\ heap_end >= 24 /\ \A x \in Offsets : x <= heap_end
  BY EndIs
<1>1. \A p \in DOMAIN b : p \in Nat
  BY TiledNumbers
<1>2. \A p \in DOMAIN b : b[p].next \in Nat /\ b[p].next <= heap_end
  BY <1>0, TiledNumbers, EndIs
<1>3. UsedBytes(b) \subseteq 0 .. heap_end - 1
  <2> SUFFICES ASSUME NEW x \in UsedBytes(b) PROVE x \in 0 .. heap_end - 1
    OBVIOUS
  <2>1. PICK p \in DOMAIN b : x \in p .. b[p].next - 1
    BY DEF UsedBytes
  <2> QED BY <1>0, <1>1, <1>2, <2>1
<1>4. IsFiniteSet(0 .. heap_end - 1) /\ Cardinality(0 .. heap_end - 1) = heap_end
  <2>1. 0 \in Int /\ heap_end - 1 \in Int /\ ~(0 > heap_end - 1) /\ heap_end - 1 - 0 + 1 = heap_end
    BY <1>0
  <2> QED BY <2>1, FS_Interval
<1>5. IsFiniteSet(UsedBytes(b)) /\ Cardinality(UsedBytes(b)) <= heap_end
  BY <1>3, <1>4, FS_Subset
<1>6. Cardinality(UsedBytes(b)) \in Nat
  BY <1>5, FS_CardinalityType
<1> QED BY <1>0, <1>3, <1>5, <1>6

LEMMA BytesSame ==
    ASSUME NEW b, NEW c, SameUsed(b, c)
    PROVE  UsedBytes(b) = UsedBytes(c)
<1>1. UsedBytes(b) = UNION {p .. b[p].next - 1 : p \in Used(b)}
  BY DEF UsedBytes, Used
<1>2. UsedBytes(c) = UNION {p .. c[p].next - 1 : p \in Used(c)}
  BY DEF UsedBytes, Used
<1>3. {p .. b[p].next - 1 : p \in Used(b)} = {p .. c[p].next - 1 : p \in Used(c)}
  BY DEF SameUsed
<1> QED BY <1>1, <1>2, <1>3

(* The bytes in use grow by an interval. *)
LEMMA BytesMore ==
    ASSUME NEW A, IsFiniteSet(A), NEW lo \in Nat, NEW hi \in Nat, lo <= hi,
           A \cap (lo .. hi - 1) = {}
    PROVE  Cardinality(A \cup (lo .. hi - 1)) = Cardinality(A) + (hi - lo)
<1>1. IsFiniteSet(lo .. hi - 1) /\ Cardinality(lo .. hi - 1) = hi - lo
  <2>1. lo \in Int /\ hi - 1 \in Int
    OBVIOUS
  <2>2. IsFiniteSet(lo .. hi - 1) /\ Cardinality(lo .. hi - 1) = IF lo > hi - 1 THEN 0 ELSE hi - 1 - lo + 1
    BY <2>1, FS_Interval
  <2> QED BY <2>2
<1>2. Cardinality(A \cup (lo .. hi - 1)) = Cardinality(A) + Cardinality(lo .. hi - 1) - Cardinality({})
  BY <1>1, FS_Union
<1>3. Cardinality({}) = 0 /\ Cardinality(A) \in Nat
  BY FS_EmptySet, FS_CardinalityType
<1> QED BY <1>1, <1>2, <1>3

(* c has block p in use and b has not. *)
LEMMA BytesOfBlock ==
    ASSUME HeapSizeAssumption, NEW b, Tiled(b), NEW c, Tiled(c), NEW p, p \notin Used(b),
           Used(c) = Used(b) \cup {p}, \A q \in Used(b) : c[q].next = b[q].next
    PROVE  Cardinality(UsedBytes(c)) = Cardinality(UsedBytes(b)) + (c[p].next - p)
<1> HIDE DEF heap_end, Offsets
<1>1. UsedBytes(b) = UNION {q .. b[q].next - 1 : q \in Used(b)}
  BY DEF UsedBytes, Used
<1>2. UsedBytes(c) = UNION {q .. c[q].next - 1 : q \in Used(c)}
  BY DEF UsedBytes, Used
<1>3. p \in Used(c) /\ \A q \in Used(c) : q \in DOMAIN c \ {heap_end}
  BY DEF Used
<1>4. \A q \in Used(c) : /\ q \in Nat /\ c[q].next \in Nat /\ q < c[q].next
                         /\ \A r \in Used(c) : r <= q \/ r >= c[q].next
  <2> SUFFICES ASSUME NEW q \in Used(c)
               PROVE  q \in Nat /\ c[q].next \in Nat /\ q < c[q].next
                      /\ \A r \in Used(c) : r <= q \/ r >= c[q].next
    OBVIOUS
  <2>1. q \in Nat /\ c[q].next \in Nat /\ q + 12 < c[q].next
    BY <1>3, TiledNumbers
  <2>2. \A r \in Used(c) : r <= q \/ r >= c[q].next
    BY <1>3, TiledNumbers
  <2> QED BY <2>1, <2>2
<1>5. UsedBytes(c) = UsedBytes(b) \cup (p .. c[p].next - 1)
  <2>1. \A q \in Used(b) : q .. c[q].next - 1 = q .. b[q].next - 1
    OBVIOUS
  <2> QED BY <1>1, <1>2, <1>3, <2>1
<1>6. UsedBytes(b) \cap (p .. c[p].next - 1) = {}
  <2> SUFFICES ASSUME NEW x \in UsedBytes(b), x \in p .. c[p].next - 1 PROVE FALSE
    OBVIOUS
  <2>1. PICK q \in Used(b) : x \in q .. b[q].next - 1
    BY <1>1
  <2>2. q \in Used(c) /\ q # p /\ x \in q .. c[q].next - 1
    BY <2>1
  <2>3. /\ p \in Nat /\ c[p].next \in Nat /\ q \in Nat /\ c[q].next \in Nat
        /\ q <= p \/ q >= c[p].next
        /\ p <= q \/ p >= c[q].next
    BY <1>3, <1>4, <2>2
  <2> QED BY <2>2, <2>3
<1>7. IsFiniteSet(UsedBytes(b))
  BY BytesIn
<1>8. p \in Nat /\ c[p].next \in Nat /\ p <= c[p].next
  BY <1>3, <1>4
<1> QED BY <1>5, <1>6, <1>7, <1>8, BytesMore

(* Block p of b is longer than that of c, which ends at e. *)
LEMMA BytesCut ==
    ASSUME HeapSizeAssumption, NEW b, Tiled(b), NEW c, Tiled(c), NEW p \in Used(b),
           Used(c) = Used(b), \A q \in Used(b) \ {p} : c[q].next = b[q].next,
           c[p].next <= b[p].next
    PROVE  Cardinality(UsedBytes(b)) = Cardinality(UsedBytes(c)) + (b[p].next - c[p].next)
<1> HIDE DEF heap_end, Offsets
<1>1. UsedBytes(b) = UNION {q .. b[q].next - 1 : q \in Used(b)}
  BY DEF UsedBytes, Used
<1>2. UsedBytes(c) = UNION {q .. c[q].next - 1 : q \in Used(b)}
  BY DEF UsedBytes, Used
<1>3. \A q \in Used(b) : q \in DOMAIN b \ {heap_end} /\ q \in DOMAIN c \ {heap_end}
  BY DEF Used
<1>4. \A q \in Used(b) : /\ q \in Nat /\ b[q].next \in Nat /\ q < b[q].next
                         /\ \A r \in Used(b) : r <= q \/ r >= b[q].next
  <2> SUFFICES ASSUME NEW q \in Used(b)
               PROVE  q \in Nat /\ b[q].next \in Nat /\ q < b[q].next
                      /\ \A r \in Used(b) : r <= q \/ r >= b[q].next
    OBVIOUS
  <2>1. q \in Nat /\ b[q].next \in Nat /\ q + 12 < b[q].next
    BY <1>3, TiledNumbers
  <2>2. \A r \in Used(b) : r <= q \/ r >= b[q].next
    BY <1>3, TiledNumbers
  <2> QED BY <2>1, <2>2
<1>5. c[p].next \in Nat /\ p < c[p].next
  <2>1. p \in Nat /\ c[p].next \in Nat /\ p + 12 < c[p].next
    BY <1>3, TiledNumbers
  <2> QED BY <2>1
<1> DEFINE X == c[p].next .. b[p].next - 1
<1>6. UsedBytes(b) = UsedBytes(c) \cup X
  <2>1. \A q \in Used(b) \ {p} : q .. c[q].next - 1 = q .. b[q].next - 1
    OBVIOUS
  <2>2. p .. b[p].next - 1 = (p .. c[p].next - 1) \cup X
    BY <1>4, <1>5
  <2>3. UsedBytes(b) \subseteq UsedBytes(c) \cup X
    <3> SUFFICES ASSUME NEW x \in UsedBytes(b) PROVE x \in UsedBytes(c) \cup X
      OBVIOUS
    <3>1. PICK q \in Used(b) : x \in q .. b[q].next - 1
      BY <1>1
    <3> HIDE DEF X
    <3> QED BY <1>2, <2>1, <2>2, <3>1
  <2>4. UsedBytes(c) \subseteq UsedBytes(b)
    <3> SUFFICES ASSUME NEW x \in UsedBytes(c) PROVE x \in UsedBytes(b)
      OBVIOUS
    <3>1. PICK q \in Used(b) : x \in q .. c[q].next - 1
      BY <1>2
    <3> HIDE DEF X
    <3> QED BY <1>1, <2>1, <2>2, <3>1
  <2>5. X \subseteq UsedBytes(b)
    BY <1>1, <2>2
  <2> QED BY <2>3, <2>4, <2>5
<1>7. UsedBytes(c) \cap X = {}
  <2> SUFFICES ASSUME NEW x \in UsedBytes(c), x \in X PROVE FALSE
    OBVIOUS
  <2>1. PICK q \in Used(b) : x \in q .. c[q].next - 1
    BY <1>2
  <2>2. CASE q = p
    BY <1>4, <1>5, <2>1, <2>2
  <2>3. CASE q # p
    <3>1. x \in q .. b[q].next - 1
      BY <2>1, <2>3
    <3>2. /\ p \in Nat /\ b[p].next \in Nat /\ q \in Nat /\ b[q].next \in Nat
          /\ q <= p \/ q >= b[p].next
          /\ p <= q \/ p >= b[q].next
      BY <1>4
    <3> QED BY <1>5, <2>3, <3>1, <3>2
  <2> QED BY <2>2, <2>3
<1>8. IsFiniteSet(UsedBytes(c))
  BY BytesIn
<1>9. b[p].next \in Nat
  BY <1>4
<1> QED BY <1>5, <1>6, <1>7, <1>8, <1>9, BytesMore

-----------------------------------------------------------------------------
(* What rt_malloc, rt_free and rt_realloc do to the blocks *)

LEMMA SizeIs ==
    ASSUME NEW n \in Nat
    PROVE  /\ RT_ALIGN(n) \in Nat /\ RT_ALIGN(n) % 4 = 0 /\ RT_ALIGN(n) >= n
           /\ n > 0 => RT_ALIGN(n) > 0
           /\ BlockSize(n) \in Nat /\ BlockSize(n) % 4 = 0 /\ BlockSize(n) >= n
           /\ BlockSize(n) >= 12
<1>1. RT_ALIGN(n) = ((n + 3) \div 4) * 4
  BY DEF RT_ALIGN, RT_ALIGN_SIZE
<1>2. RT_ALIGN(n) \in Nat /\ RT_ALIGN(n) % 4 = 0 /\ RT_ALIGN(n) >= n
  BY <1>1
<1>3. BlockSize(n) = IF RT_ALIGN(n) < 12 THEN 12 ELSE RT_ALIGN(n)
  BY DEF BlockSize, MIN_SIZE_ALIGNED
<1> HIDE DEF RT_ALIGN, BlockSize
<1> QED BY <1>2, <1>3

(* The state of the blocks between two calls. *)
Sound(b, lf) == Tiled(b) /\ Apart(b) /\ Lowest(b, lf)

LEMMA FoundIs ==
    ASSUME HeapSizeAssumption, Sound(blocks, lfree), NEW n \in Nat, Found(n) # Null
    PROVE  /\ Found(n) \in DOMAIN blocks \ {heap_end} /\ ~blocks[Found(n)].used
           /\ Room(blocks, Found(n)) >= BlockSize(n)
<1> HIDE DEF heap_end, Offsets
<1> DEFINE size == BlockSize(n)
           fits == {p \in DOMAIN blocks : /\ lfree <= p /\ p < mem_size_aligned - size
                                          /\ ~blocks[p].used /\ Room(blocks, p) >= size}
<1>1. Found(n) = IF fits = {} THEN Null ELSE Min(fits)
  BY DEF Found, Fit
<1>2. fits \subseteq Nat /\ \A p \in fits : p # heap_end
  BY TiledNumbers DEF Sound, Tiled
<1>3. fits # {}
  BY <1>1
<1> HIDE DEF fits
<1>4. Min(fits) \in fits
  BY <1>2, <1>3, MinIs
<1> QED BY <1>1, <1>2, <1>3, <1>4 DEF fits

LEMMA TakenIs ==
    ASSUME HeapSizeAssumption, Sound(blocks, lfree), NEW p \in DOMAIN blocks \ {heap_end},
           ~blocks[p].used,
           NEW size \in Nat, size % 4 = 0, size >= 12, Room(blocks, p) >= size,
           NEW c, c = Taken(p, size)
    PROVE  /\ Sound(c, IF p = lfree THEN NextFree(c, lfree) ELSE lfree)
           /\ p \notin Used(blocks) /\ Used(c) = Used(blocks) \cup {p}
           /\ \A q \in Used(blocks) : c[q].next = blocks[q].next
           /\ Room(c, p) >= size
<1> HIDE DEF heap_end, Offsets
<1>0. /\ Tiled(blocks) /\ Apart(blocks) /\ Lowest(blocks, lfree) /\ Headers(blocks)
      /\ heap_end \in Nat
  BY EndIs DEF Sound, Tiled
<1>1. /\ \A q \in DOMAIN blocks : q \in Nat /\ q % 4 = 0 /\ q <= heap_end
      /\ \A q \in DOMAIN blocks \ {heap_end} :
             /\ blocks[q].next \in DOMAIN blocks /\ blocks[q].next \in Nat
             /\ q + 12 < blocks[q].next
  BY <1>0, TiledNumbers
<1> SUFFICES ASSUME NEW u, u = [blocks EXCEPT ![p].used = TRUE], NEW e, e = blocks[p].next,
                    NEW p2, p2 = p + 12 + size
             PROVE  /\ Sound(c, IF p = lfree THEN NextFree(c, lfree) ELSE lfree)
                    /\ p \notin Used(blocks) /\ Used(c) = Used(blocks) \cup {p}
                    /\ \A q \in Used(blocks) : c[q].next = blocks[q].next
                    /\ Room(c, p) >= size
  OBVIOUS
<1>2. Room(blocks, p) = e - (p + 12) /\ e \in DOMAIN blocks /\ e \in Nat /\ p \in Nat /\ p + 12 < e
  BY <1>1 DEF Room, SIZEOF_STRUCT_MEM
<1>3. /\ Tiled(u) /\ DOMAIN u = DOMAIN blocks
      /\ u[p] = [next |-> e, prev |-> blocks[p].prev, used |-> TRUE]
      /\ \A r \in DOMAIN blocks \ {p} : u[r] = blocks[r]
  <2>1. Tiled(u)
    BY <1>0, MarkTiled
  <2>2. TRUE \in BOOLEAN /\ p \in DOMAIN blocks
    OBVIOUS
  <2> QED BY <1>0, <2>1, <2>2, MarkIs
<1>4. c = IF e - (p + 12) >= size + 24 THEN Split(u, p, p2) ELSE u
  <2>1. size + SIZEOF_STRUCT_MEM + MIN_SIZE_ALIGNED = size + 24 /\ p + SIZEOF_STRUCT_MEM + size = p2
    BY <1>2 DEF SIZEOF_STRUCT_MEM, MIN_SIZE_ALIGNED
  <2> QED BY <1>2, <2>1 DEF Taken
<1>5. blocks[e].used
  BY <1>0 DEF Apart
<1>6. /\ Tiled(c) /\ p \in DOMAIN c /\ c[p].used /\ c[p].next - (p + 12) >= size
      /\ \A r \in DOMAIN blocks \ {p} : r \in DOMAIN c /\ c[r].next = blocks[r].next /\ c[r].used = blocks[r].used
      /\ \A r \in DOMAIN c : r \in DOMAIN blocks \/ (r > p /\ ~c[r].used /\ r # heap_end /\ c[r].next = e)
  <2>1. CASE e - (p + 12) >= size + 24
    <3>1. p2 \in Nat /\ p2 % 4 = 0 /\ p + 12 < p2 /\ p2 + 12 < e
      <4>1. p % 4 = 0
        BY <1>1
      <4> QED BY <1>2, <2>1, <4>1
    <3>2. u[p].next = e /\ p \in DOMAIN u \ {heap_end}
      BY <1>3
    <3>3. c = Split(u, p, p2) /\ Tiled(c) /\ p2 \notin DOMAIN u
      <4>1. Tiled(u) /\ p2 + 12 < u[p].next
        BY <1>3, <3>1, <3>2
      <4>2. Tiled(Split(u, p, p2)) /\ p2 \notin DOMAIN u
        BY <3>1, <3>2, <4>1, SplitTiled
      <4> QED BY <1>4, <2>1, <4>2
    <3>4. Headers(u) /\ e \in DOMAIN u /\ e # p
      BY <1>2, <1>3 DEF Tiled
    <3>5. IsSplit(c, u, p, p2, e)
      BY <3>2, <3>3, <3>4, SplitIs
    <3>6. /\ DOMAIN c = DOMAIN blocks \cup {p2}
          /\ c[p].next = p2 /\ c[p].used /\ c[p2].next = e /\ c[p2].used = FALSE
      BY <1>3, <3>5 DEF IsSplit
    <3>7. \A r \in DOMAIN blocks \ {p} : c[r].next = blocks[r].next /\ c[r].used = blocks[r].used
      <4> SUFFICES ASSUME NEW r \in DOMAIN blocks \ {p}
                   PROVE c[r].next = blocks[r].next /\ c[r].used = blocks[r].used
        OBVIOUS
      <4>1. CASE r = e
        <5>1. u[e] = blocks[e]
          BY <1>2, <1>3, <3>4
        <5>2. c[e].next = u[e].next /\ c[e].used = u[e].used
          BY <3>5 DEF IsSplit
        <5> QED BY <4>1, <5>1, <5>2
      <4>2. CASE r # e
        BY <1>3, <3>5, <4>2 DEF IsSplit
      <4> QED BY <4>1, <4>2
    <3>8. p2 > p /\ p2 # heap_end /\ p2 - (p + 12) >= size
      <4>1. e <= heap_end
        BY <1>1, <1>2
      <4> QED BY <1>0, <1>2, <3>1, <4>1
    <3> QED BY <3>3, <3>6, <3>7, <3>8
  <2>2. CASE ~(e - (p + 12) >= size + 24)
    <3>1. c = u
      BY <1>4, <2>2
    <3>2. e - (p + 12) >= size
      BY <1>2
    <3> QED BY <1>3, <3>1, <3>2
  <2> QED BY <2>1, <2>2
<1>7. p \notin Used(blocks)
  BY DEF Used
<1>8. Used(c) = Used(blocks) \cup {p}
  BY <1>6 DEF Used
<1>9. Apart(c)
  <2> SUFFICES ASSUME NEW q \in DOMAIN c \ {heap_end}, ~c[q].used PROVE c[c[q].next].used
    BY DEF Apart
  <2>1. q # p
    BY <1>6
  <2>2. CASE q \in DOMAIN blocks
    <3>1. blocks[q].next \in DOMAIN blocks /\ blocks[blocks[q].next].used
      BY <1>0, <1>1, <1>6, <2>1, <2>2 DEF Apart
    <3> QED BY <1>6, <2>1, <2>2, <3>1
  <2>3. CASE q \notin DOMAIN blocks
    BY <1>2, <1>5, <1>6, <2>3
  <2> QED BY <2>2, <2>3
<1>10. Lowest(c, IF p = lfree THEN NextFree(c, lfree) ELSE lfree)
  <2>0. lfree \in Nat /\ lfree \in DOMAIN blocks /\ lfree <= p
    BY <1>0, <1>1 DEF Lowest
  <2>1. \A q \in DOMAIN c : ~c[q].used => lfree <= q
    <3> SUFFICES ASSUME NEW q \in DOMAIN c, ~c[q].used PROVE lfree <= q
      OBVIOUS
    <3>1. CASE q \in DOMAIN blocks
      BY <1>0, <1>6, <3>1 DEF Lowest
    <3>2. CASE q \notin DOMAIN blocks
      <4>1. q \in Nat
        BY <1>6, TiledNumbers
      <4> QED BY <1>2, <1>6, <2>0, <3>2, <4>1
    <3> QED BY <3>1, <3>2
  <2>2. CASE p = lfree
    <3>1. Lowest(c, NextFree(c, lfree))
      BY <1>6, <2>0, <2>1, NextFreeIs
    <3> QED BY <2>2, <3>1
  <2>3. CASE p # lfree
    <3>1. Lowest(c, lfree)
      BY <1>0, <1>6, <2>0, <2>1, <2>3 DEF Lowest
    <3> QED BY <2>3, <3>1
  <2> QED BY <2>2, <2>3
<1>11. Room(c, p) >= size
  BY <1>6 DEF Room, SIZEOF_STRUCT_MEM
<1>12. \A q \in Used(blocks) : c[q].next = blocks[q].next
  BY <1>6, <1>7 DEF Used
<1> QED BY <1>6, <1>7, <1>8, <1>9, <1>10, <1>11, <1>12 DEF Sound

LEMMA ReleasedIs ==
    ASSUME HeapSizeAssumption, Sound(blocks, lfree), NEW p \in Used(blocks),
           NEW h, h = Freed([blocks EXCEPT ![p].used = FALSE], p)
    PROVE  /\ Sound(h.blocks, h.lfree)
           /\ Used(h.blocks) = Used(blocks) \ {p}
           /\ \A q \in Used(h.blocks) : h.blocks[q].next = blocks[q].next
<1> HIDE DEF heap_end, Offsets
<1>0. /\ Tiled(blocks) /\ Apart(blocks) /\ Lowest(blocks, lfree) /\ Headers(blocks)
      /\ heap_end \in Nat /\ p \in DOMAIN blocks \ {heap_end}
  BY EndIs DEF Sound, Tiled, Used
<1> SUFFICES ASSUME NEW u, u = [blocks EXCEPT ![p].used = FALSE],
                    NEW lf, lf = IF p < lfree THEN p ELSE lfree
             PROVE  /\ Sound(h.blocks, h.lfree)
                    /\ Used(h.blocks) = Used(blocks) \ {p}
                    /\ \A q \in Used(h.blocks) : h.blocks[q].next = blocks[q].next
  OBVIOUS
<1>1. /\ Tiled(u) /\ DOMAIN u = DOMAIN blocks
      /\ u[p] = [next |-> blocks[p].next, prev |-> blocks[p].prev, used |-> FALSE]
      /\ \A r \in DOMAIN blocks \ {p} : u[r] = blocks[r]
  <2>1. Tiled(u)
    BY <1>0, MarkTiled
  <2>2. FALSE \in BOOLEAN /\ p \in DOMAIN blocks
    BY <1>0
  <2> QED BY <1>0, <2>1, <2>2, MarkIs
<1>2. h = plug_holes([blocks |-> u, lfree |-> lf], p)
  BY DEF Freed
<1>3. ApartBut(u, p)
  <2> SUFFICES ASSUME NEW q \in DOMAIN u \ {heap_end}, q # p, u[q].next # p, ~u[q].used
               PROVE  u[u[q].next].used
    BY DEF ApartBut
  <2>1. u[q] = blocks[q] /\ q \in DOMAIN blocks \ {heap_end}
    BY <1>1
  <2>2. blocks[q].next \in DOMAIN blocks /\ blocks[blocks[q].next].used
    BY <1>0, <2>1, TiledNumbers DEF Apart
  <2> QED BY <1>1, <2>1, <2>2
<1>4. Lowest(u, lf)
  <2>1. p \in Nat /\ lfree \in Nat /\ lfree \in DOMAIN blocks /\ \A q \in DOMAIN blocks : q \in Nat
    BY <1>0, TiledNumbers DEF Lowest
  <2>2. \A q \in DOMAIN blocks : ~blocks[q].used => lfree <= q
    BY <1>0 DEF Lowest
  <2>3. \A q \in DOMAIN u : ~u[q].used => q = p \/ lfree <= q
    BY <1>1, <2>2
  <2>4. \A q \in DOMAIN u : ~u[q].used => lf <= q
    BY <1>1, <2>1, <2>3
  <2>5. lf \in DOMAIN u /\ (lf # heap_end => ~u[lf].used)
    BY <1>0, <1>1, <2>1 DEF Lowest
  <2> QED BY <2>4, <2>5 DEF Lowest
<1>5. p \in DOMAIN u \ {heap_end} /\ ~u[p].used
  BY <1>0, <1>1
<1>6. /\ Tiled(h.blocks) /\ SameUsed(u, h.blocks) /\ Lowest(h.blocks, h.lfree)
      /\ Apart(h.blocks)
  <2>1. Tiled(u)
    BY <1>1
  <2> QED BY <2>1, <1>2, <1>3, <1>4, <1>5, PlugHolesIs
<1>7. Used(u) = Used(blocks) \ {p} /\ \A q \in Used(u) : u[q].next = blocks[q].next
  BY <1>0, <1>1 DEF Used
<1> QED BY <1>6, <1>7 DEF Sound, SameUsed

LEMMA ShrunkIs ==
    ASSUME HeapSizeAssumption, Sound(blocks, lfree), NEW p \in Used(blocks),
           NEW size \in Nat, size % 4 = 0, size > 0, size + 24 < Room(blocks, p),
           NEW p2, p2 = p + 12 + size,
           NEW h, h = Freed(Split(blocks, p, p2), p2)
    PROVE  /\ Sound(h.blocks, h.lfree)
           /\ Used(h.blocks) = Used(blocks)
           /\ \A q \in Used(blocks) \ {p} : h.blocks[q].next = blocks[q].next
           /\ h.blocks[p].next = p2
<1> HIDE DEF heap_end, Offsets
<1>0. /\ Tiled(blocks) /\ Apart(blocks) /\ Lowest(blocks, lfree) /\ Headers(blocks)
      /\ heap_end \in Nat /\ p \in DOMAIN blocks \ {heap_end} /\ blocks[p].used
  BY EndIs DEF Sound, Tiled, Used
<1>1. /\ \A q \in DOMAIN blocks : q \in Nat /\ q % 4 = 0 /\ q <= heap_end
      /\ \A q \in DOMAIN blocks \ {heap_end} :
             /\ blocks[q].next \in DOMAIN blocks /\ blocks[q].next \in Nat
             /\ q + 12 < blocks[q].next
  BY <1>0, TiledNumbers
<1> SUFFICES ASSUME NEW u, u = Split(blocks, p, p2), NEW e, e = blocks[p].next,
                    NEW lf, lf = IF p2 < lfree THEN p2 ELSE lfree
             PROVE  /\ Sound(h.blocks, h.lfree)
                    /\ Used(h.blocks) = Used(blocks)
                    /\ \A q \in Used(blocks) \ {p} : h.blocks[q].next = blocks[q].next
                    /\ h.blocks[p].next = p2
  OBVIOUS
<1>2. /\ size + 24 < e - (p + 12) /\ e \in DOMAIN blocks /\ e \in Nat /\ p \in Nat /\ e <= heap_end
      /\ p % 4 = 0
  BY <1>0, <1>1 DEF Room, SIZEOF_STRUCT_MEM
<1>3. p2 \in Nat /\ p2 % 4 = 0 /\ p + 12 < p2 /\ p2 + 12 < e /\ p2 # heap_end /\ p # p2 /\ e # p
  BY <1>0, <1>2
<1>4. Tiled(u) /\ p2 \notin DOMAIN blocks
  BY <1>0, <1>3, SplitTiled
<1>5. IsSplit(u, blocks, p, p2, e)
  BY <1>0, <1>2, <1>3, <1>4, SplitIs
<1>6. /\ DOMAIN u = DOMAIN blocks \cup {p2}
      /\ u[p].next = p2 /\ u[p].used /\ u[p2].next = e /\ u[p2].used = FALSE
  BY <1>0, <1>5 DEF IsSplit
<1>7. \A r \in DOMAIN blocks \ {p} : u[r].next = blocks[r].next /\ u[r].used = blocks[r].used
  <2> SUFFICES ASSUME NEW r \in DOMAIN blocks \ {p}
               PROVE u[r].next = blocks[r].next /\ u[r].used = blocks[r].used
    OBVIOUS
  <2>1. CASE r = e
    BY <1>5, <2>1 DEF IsSplit
  <2>2. CASE r # e
    BY <1>5, <2>2 DEF IsSplit
  <2> QED BY <2>1, <2>2
<1>8. h = plug_holes([blocks |-> u, lfree |-> lf], p2)
  BY DEF Freed
<1>9. ApartBut(u, p2)
  <2> SUFFICES ASSUME NEW q \in DOMAIN u \ {heap_end}, q # p2, u[q].next # p2, ~u[q].used
               PROVE  u[u[q].next].used
    BY DEF ApartBut
  <2>1. q \in DOMAIN blocks \ {heap_end} /\ q # p /\ u[q].next = blocks[q].next /\ ~blocks[q].used
    BY <1>6, <1>7
  <2>2. blocks[q].next \in DOMAIN blocks /\ blocks[blocks[q].next].used
    BY <1>0, <1>1, <2>1 DEF Apart
  <2> QED BY <1>0, <1>6, <1>7, <2>1, <2>2
<1>10. Lowest(u, lf)
  <2>1. lfree \in Nat /\ lfree \in DOMAIN blocks
    BY <1>0, <1>1 DEF Lowest
  <2>2. \A q \in DOMAIN blocks : ~blocks[q].used => lfree <= q
    BY <1>0 DEF Lowest
  <2>3. \A q \in DOMAIN u : ~u[q].used => q = p2 \/ lfree <= q
    BY <1>6, <1>7, <2>2
  <2>4. \A q \in DOMAIN u : ~u[q].used => lf <= q
    <3>1. \A q \in DOMAIN u : q \in Nat
      BY <1>4, TiledNumbers
    <3> QED BY <1>3, <2>1, <2>3, <3>1
  <2>5. lf \in DOMAIN u /\ (lf # heap_end => ~u[lf].used)
    BY <1>0, <1>6, <1>7, <2>1 DEF Lowest
  <2> QED BY <2>4, <2>5 DEF Lowest
<1>11. p2 \in DOMAIN u \ {heap_end} /\ ~u[p2].used
  BY <1>3, <1>6
<1>12. /\ Tiled(h.blocks) /\ SameUsed(u, h.blocks) /\ Lowest(h.blocks, h.lfree)
       /\ Apart(h.blocks)
  BY <1>4, <1>8, <1>9, <1>10, <1>11, PlugHolesIs
<1>13. Used(u) = Used(blocks)
  BY <1>0, <1>6, <1>7 DEF Used
<1>14. \A q \in Used(blocks) \ {p} : u[q].next = blocks[q].next
  BY <1>7 DEF Used
<1> QED BY <1>6, <1>12, <1>13, <1>14 DEF Sound, SameUsed

-----------------------------------------------------------------------------
(* The inductive invariant *)

Numbers ==
    /\ used_mem \in 0 .. heap_end /\ max_mem \in 0 .. heap_end
    /\ \A t \in Users : /\ DOMAIN objects[t] \subseteq Offsets
                        /\ \A p \in DOMAIN objects[t] : objects[t][p] \in Nat

(* Used blocks are what the threads have. *)
Owned ==
    /\ Used(blocks) = UNION {DOMAIN objects[t] : t \in Users}
    /\ \A t, u \in Users : t # u => DOMAIN objects[t] \cap DOMAIN objects[u] = {}
    /\ \A t \in Users : \A p \in DOMAIN objects[t] : Room(blocks, p) >= objects[t][p]

(* A call of rt_realloc knows a block of its thread, and its size; later also  *)
(* the new one.                                                              *)
CallOf(t) ==
    /\ call[t] \in [rmem : Offsets \cup {Null}, newsize : Nat, size : Nat, nmem : Offsets \cup {Null}]
    /\ step[t] # "run" => /\ call[t].rmem \in DOMAIN objects[t]
                          /\ call[t].size = Room(blocks, call[t].rmem)
    /\ step[t] \in {"copy", "release"} =>
          /\ call[t].nmem \in DOMAIN objects[t] /\ call[t].nmem # call[t].rmem
          /\ Room(blocks, call[t].nmem) >= call[t].newsize

HeapPart ==
    /\ Numbers /\ Sound(blocks, lfree) /\ UsedCounted
    /\ DOMAIN objects = Users /\ Owned

CallPart ==
    /\ step \in [Users -> {"run", "expand", "copy", "release"}]
    /\ DOMAIN call = Users
    /\ \A t \in Users : CallOf(t)

HeapInv == HeapPart /\ CallPart

(* What the threads other than t have, a step does not touch. *)
Others(t) ==
    \A u \in Users \ {t} :
        /\ objects'[u] = objects[u]
        /\ \A q \in DOMAIN objects[u] : Room(blocks', q) = Room(blocks, q)

LEMMA OwnedBlock ==
    ASSUME Owned, NEW t \in Users, NEW p \in DOMAIN objects[t]
    PROVE  p \in Used(blocks)
BY DEF Owned

LEMMA HeapInvSays ==
    ASSUME HeapSizeAssumption, HeapInv
    PROVE  HeapSound /\ ObjectsHaveRoom /\ CopyStaysInside
<1> HIDE DEF heap_end, Offsets
<1>0. Tiled(blocks) /\ Apart(blocks) /\ Lowest(blocks, lfree)
  BY DEF HeapInv, HeapPart, Sound
<1>1. HeapTypeOK
  <2>1. /\ DOMAIN blocks \subseteq Offsets
        /\ \A p \in DOMAIN blocks : blocks[p] \in [next : Offsets, prev : Offsets, used : BOOLEAN]
        /\ lfree \in Offsets
    BY <1>0 DEF Tiled, Headers, Header, Lowest
  <2> QED BY <2>1 DEF HeapTypeOK, HeapInv, HeapPart, CallPart, Numbers, CallOf
<1>2. BlocksTile
  <2>1. lfree = NextFree(blocks, 0)
    BY <1>0, LowestIs
  <2>2. ASSUME NEW p \in DOMAIN blocks \ {heap_end} PROVE Links(p)
    <3>1. Chain(blocks, p) /\ (~blocks[p].used => blocks[blocks[p].next].used)
      BY <1>0 DEF Tiled, Apart
    <3> QED BY <3>1 DEF Links, Chain, SIZEOF_STRUCT_MEM
  <2> QED BY <1>0, <2>1, <2>2 DEF BlocksTile, Tiled
<1>3. ASSUME \A t \in Users : objects[t] = [p \in {} |-> 0]
      PROVE  DOMAIN blocks = {0, heap_end} /\ lfree = 0
  <2>1. \A t \in Users : DOMAIN objects[t] = {}
    BY <1>3
  <2>2. Used(blocks) = {}
    BY <2>1 DEF HeapInv, HeapPart, Owned
  <2>3. 0 \in DOMAIN blocks /\ heap_end \in DOMAIN blocks /\ heap_end \in Nat /\ heap_end # 0
    BY <1>0, EndIs DEF Tiled
  <2>4. ~blocks[0].used
    BY <2>2, <2>3 DEF Used
  <2>5. \A r \in DOMAIN blocks : r \in Nat /\ r <= heap_end
    BY <1>0, TiledNumbers
  <2>6. blocks[0].next \in DOMAIN blocks /\ blocks[blocks[0].next].used
    BY <1>0, <2>3, <2>4, TiledNumbers DEF Apart
  <2>7. blocks[0].next = heap_end
    BY <2>2, <2>6 DEF Used
  <2>8. \A r \in DOMAIN blocks : r <= 0 \/ r >= heap_end
    BY <1>0, <2>3, <2>7, TiledNumbers
  <2>9. lfree <= 0 /\ lfree \in Nat
    BY <1>0, <2>3, <2>4, <2>5 DEF Lowest
  <2>10. \A r \in DOMAIN blocks : r = 0 \/ r = heap_end
    BY <2>3, <2>5, <2>8
  <2> QED BY <2>3, <2>9, <2>10
<1>4. ObjectsHaveRoom
  BY <1>3 DEF ObjectsHaveRoom, HeapInv, HeapPart, Owned, Used
<1>5. ASSUME NEW t \in Users, step[t] = "copy", NEW n,
             n = IF call[t].size < call[t].newsize THEN call[t].size ELSE call[t].newsize
      PROVE  /\ call[t].rmem # call[t].nmem
             /\ {call[t].rmem, call[t].nmem} \subseteq DOMAIN objects[t]
             /\ n <= Room(blocks, call[t].rmem) /\ n <= Room(blocks, call[t].nmem)
  <2>1. CallOf(t)
    BY DEF HeapInv, CallPart
  <2>2. /\ call[t].rmem \in DOMAIN objects[t] /\ call[t].nmem \in DOMAIN objects[t]
        /\ call[t].rmem # call[t].nmem
        /\ call[t].size = Room(blocks, call[t].rmem)
        /\ Room(blocks, call[t].nmem) >= call[t].newsize
        /\ call[t].size \in Nat /\ call[t].newsize \in Nat
    BY <1>5, <2>1 DEF CallOf
  <2>3. Room(blocks, call[t].nmem) \in Int
    <3>1. call[t].nmem \in DOMAIN blocks
      BY <2>2 DEF HeapInv, HeapPart, Owned, Used
    <3>2. call[t].nmem \in Nat /\ blocks[call[t].nmem].next \in Nat
      BY <1>0, <3>1, TiledNumbers, EndIs
    <3> QED BY <3>2 DEF Room, SIZEOF_STRUCT_MEM
  <2> HIDE DEF Room
  <2> QED BY <1>5, <2>2, <2>3
<1>6. CopyStaysInside
  BY <1>5 DEF CopyStaysInside
<1> QED BY <1>1, <1>2, <1>4, <1>6 DEF HeapSound, HeapInv, HeapPart

LEMMA HeapStarts == ASSUME HeapSizeAssumption, HeapInit PROVE HeapInv
<1> HIDE DEF heap_end, Offsets
<1>0. heap_end \in Nat /\ heap_end >= 24 /\ 0 \in Offsets /\ heap_end \in Offsets
  BY EndIs
<1>1. /\ DOMAIN blocks = {0, heap_end}
      /\ blocks[0] = [next |-> heap_end, prev |-> 0, used |-> FALSE]
      /\ blocks[heap_end] = [next |-> heap_end, prev |-> heap_end, used |-> TRUE]
  BY <1>0 DEF HeapInit
<1>2. Headers(blocks)
  <2>1. blocks[0] \in Header
    BY <1>0, <1>1 DEF Header
  <2>2. blocks[heap_end] \in Header
    BY <1>0, <1>1 DEF Header
  <2> QED BY <1>0, <1>1, <2>1, <2>2 DEF Headers
<1>3. Chain(blocks, 0)
  BY <1>0, <1>1 DEF Chain
<1>4. Tiled(blocks)
  BY <1>1, <1>2, <1>3 DEF Tiled
<1>5. Apart(blocks) /\ Lowest(blocks, lfree)
  BY <1>0, <1>1 DEF Apart, Lowest, HeapInit
<1>6. Used(blocks) = {}
  BY <1>1 DEF Used
<1>7. UsedCounted
  <2>1. UsedBytes(blocks) = {}
    BY <1>6 DEF UsedBytes, Used
  <2> QED BY <2>1, FS_EmptySet DEF UsedCounted, HeapInit
<1>8. Numbers /\ DOMAIN objects = Users /\ Owned
  <2>1. DOMAIN objects = Users /\ \A t \in Users : DOMAIN objects[t] = {}
    BY DEF HeapInit
  <2>2. used_mem = 0 /\ max_mem = 0
    BY DEF HeapInit
  <2> QED BY <1>0, <1>6, <2>1, <2>2 DEF Numbers, Owned
<1>9. CallPart
  <2>1. NoCall \in [rmem : Offsets \cup {Null}, newsize : Nat, size : Nat, nmem : Offsets \cup {Null}]
    BY DEF NoCall
  <2> QED BY <2>1 DEF CallPart, CallOf, HeapInit
<1> QED BY <1>4, <1>5, <1>7, <1>8, <1>9 DEF HeapInv, HeapPart, Sound

(* Thread t is given block p for n bytes. *)
LEMMA GivenStep ==
    ASSUME HeapSizeAssumption, HeapPart, NEW t \in Users, NEW n \in Nat, NEW p, p = Found(n),
           p # Null,
           Allocates(p, BlockSize(n)), objects' = [objects EXCEPT ![t] = With(@, p, n)]
    PROVE  /\ HeapPart' /\ Others(t)
           /\ p \notin DOMAIN objects[t] /\ p \in DOMAIN objects'[t] /\ Room(blocks', p) >= n
           /\ \A q \in DOMAIN objects[t] : q \in DOMAIN objects'[t] /\ Room(blocks', q) = Room(blocks, q)
           /\ p \in Offsets
<1> HIDE DEF heap_end, Offsets
<1>0. Sound(blocks, lfree) /\ Tiled(blocks)
  BY DEF HeapPart, Sound
<1>1. p \in DOMAIN blocks \ {heap_end} /\ ~blocks[p].used /\ Room(blocks, p) >= BlockSize(n)
  BY <1>0, FoundIs
<1>2. BlockSize(n) \in Nat /\ BlockSize(n) % 4 = 0 /\ BlockSize(n) >= n /\ BlockSize(n) >= 12
  BY SizeIs
<1> HIDE DEF BlockSize, Found
<1>3. /\ blocks' = Taken(p, BlockSize(n))
      /\ lfree' = IF p = lfree THEN NextFree(blocks', lfree) ELSE lfree
      /\ used_mem' = used_mem + blocks'[p].next - p
      /\ max_mem' = IF max_mem < used_mem' THEN used_mem' ELSE max_mem
  BY DEF Allocates
<1>4. /\ Sound(blocks', IF p = lfree THEN NextFree(blocks', lfree) ELSE lfree)
      /\ p \notin Used(blocks) /\ Used(blocks') = Used(blocks) \cup {p}
      /\ \A q \in Used(blocks) : blocks'[q].next = blocks[q].next
      /\ Room(blocks', p) >= BlockSize(n)
  BY <1>0, <1>1, <1>2, <1>3, TakenIs
<1>5. Sound(blocks', lfree') /\ Tiled(blocks')
  BY <1>3, <1>4 DEF Sound
<1>6. p \in DOMAIN blocks' /\ p \in Nat /\ blocks'[p].next \in Nat /\ p \in Offsets
  <2>1. p \in DOMAIN blocks' /\ p \in DOMAIN blocks
    BY <1>1, <1>4 DEF Used
  <2>2. p \in Nat /\ blocks'[p].next \in Offsets
    BY <1>5, <2>1, TiledNumbers
  <2> QED BY <1>0, <2>1, <2>2, EndIs DEF Tiled, Headers
<1>7. UsedCounted' /\ used_mem' \in 0 .. heap_end
  <2>1. Cardinality(UsedBytes(blocks')) = Cardinality(UsedBytes(blocks)) + (blocks'[p].next - p)
    BY <1>0, <1>4, <1>5, BytesOfBlock
  <2>2. Cardinality(UsedBytes(blocks)) = used_mem /\ used_mem \in 0 .. heap_end
    BY DEF HeapPart, UsedCounted, Numbers
  <2>3. used_mem' = used_mem + (blocks'[p].next - p)
    <3>1. used_mem \in Nat
      BY <2>2, EndIs
    <3> QED BY <1>3, <1>6, <3>1
  <2>4. Cardinality(UsedBytes(blocks')) \in 0 .. heap_end
    BY <1>5, BytesIn
  <2> QED BY <2>1, <2>2, <2>3, <2>4 DEF UsedCounted
<1>8. max_mem' \in 0 .. heap_end
  BY <1>3, <1>7 DEF HeapPart, Numbers
<1>9. /\ DOMAIN objects = Users
      /\ \A u \in Users : \A q \in DOMAIN objects[u] :
             q \in Used(blocks) /\ q \in Offsets /\ objects[u][q] \in Nat /\ Room(blocks, q) >= objects[u][q]
  BY DEF HeapPart, Owned, Numbers
<1>10. /\ DOMAIN objects' = Users
       /\ \A u \in Users \ {t} : objects'[u] = objects[u]
       /\ objects'[t] = With(objects[t], p, n)
  BY <1>9
<1>11. /\ DOMAIN objects'[t] = DOMAIN objects[t] \cup {p} /\ objects'[t][p] = n
       /\ \A q \in DOMAIN objects[t] : q # p => objects'[t][q] = objects[t][q]
  BY <1>10 DEF With
<1>12. \A u \in Users : \A q \in DOMAIN objects[u] : q # p /\ Room(blocks', q) = Room(blocks, q)
  BY <1>4, <1>9 DEF Room
<1>13. Others(t)
  BY <1>10, <1>12 DEF Others
<1>14. Room(blocks', p) >= n
  <2>1. Room(blocks', p) \in Int
    BY <1>6 DEF Room, SIZEOF_STRUCT_MEM
  <2> HIDE DEF Room
  <2> QED BY <1>2, <1>4, <2>1
<1>15. Owned'
  <2>1. Used(blocks') = UNION {DOMAIN objects'[u] : u \in Users}
    <3>1. Used(blocks) = UNION {DOMAIN objects[u] : u \in Users}
      BY DEF HeapPart, Owned
    <3> QED BY <1>4, <1>10, <1>11, <3>1
  <2>2. \A v, u \in Users : v # u => DOMAIN objects'[v] \cap DOMAIN objects'[u] = {}
    <3>1. \A v, u \in Users : v # u => DOMAIN objects[v] \cap DOMAIN objects[u] = {}
      BY DEF HeapPart, Owned
    <3> QED BY <1>10, <1>11, <1>12, <3>1
  <2>3. \A u \in Users : \A q \in DOMAIN objects'[u] : Room(blocks', q) >= objects'[u][q]
    <3> HIDE DEF Room
    <3> SUFFICES ASSUME NEW u \in Users, NEW q \in DOMAIN objects'[u]
                 PROVE  Room(blocks', q) >= objects'[u][q]
      OBVIOUS
    <3>1. CASE u # t
      BY <1>9, <1>10, <1>12, <3>1
    <3>2. CASE u = t /\ q # p
      BY <1>9, <1>11, <1>12, <3>2
    <3>3. CASE u = t /\ q = p
      BY <1>11, <1>14, <3>3
    <3> QED BY <3>1, <3>2, <3>3
  <2> QED BY <2>1, <2>2, <2>3 DEF Owned
<1>16. Numbers'
  <2>1. \A u \in Users : DOMAIN objects'[u] \subseteq Offsets /\ \A q \in DOMAIN objects'[u] : objects'[u][q] \in Nat
    <3> SUFFICES ASSUME NEW u \in Users
                 PROVE DOMAIN objects'[u] \subseteq Offsets /\ \A q \in DOMAIN objects'[u] : objects'[u][q] \in Nat
      OBVIOUS
    <3>1. CASE u # t
      BY <1>9, <1>10, <3>1
    <3>2. CASE u = t
      BY <1>6, <1>9, <1>11, <3>2
    <3> QED BY <3>1, <3>2
  <2> QED BY <1>7, <1>8, <2>1 DEF Numbers
<1>17. p \notin DOMAIN objects[t]
  BY <1>12
<1> QED BY <1>5, <1>6, <1>7, <1>10, <1>11, <1>12, <1>13, <1>14, <1>15, <1>16, <1>17 DEF HeapPart

(* Block p of thread t is taken back. *)
LEMMA TakenBackStep ==
    ASSUME HeapSizeAssumption, HeapPart, NEW t \in Users, NEW p \in DOMAIN objects[t],
           Releases(p), objects' = [objects EXCEPT ![t] = Without(@, p)]
    PROVE  HeapPart' /\ Others(t)
<1> HIDE DEF heap_end, Offsets
<1>0. Sound(blocks, lfree) /\ Tiled(blocks) /\ p \in Used(blocks)
  BY OwnedBlock DEF HeapPart, Sound
<1> SUFFICES ASSUME NEW h, h = Freed([blocks EXCEPT ![p].used = FALSE], p)
             PROVE  HeapPart' /\ Others(t)
  OBVIOUS
<1>3. /\ blocks' = h.blocks /\ lfree' = h.lfree
      /\ used_mem' = used_mem - (blocks[p].next - p) /\ max_mem' = max_mem
  BY DEF Releases
<1>4. /\ Sound(blocks', lfree')
      /\ Used(blocks') = Used(blocks) \ {p}
      /\ \A q \in Used(blocks') : blocks'[q].next = blocks[q].next
  BY <1>0, <1>3, ReleasedIs
<1>5. Tiled(blocks')
  BY <1>4 DEF Sound
<1>7. UsedCounted' /\ used_mem' \in 0 .. heap_end
  <2>1. Cardinality(UsedBytes(blocks)) = Cardinality(UsedBytes(blocks')) + (blocks[p].next - p)
    <3>1. /\ p \notin Used(blocks') /\ Used(blocks) = Used(blocks') \cup {p}
          /\ \A q \in Used(blocks') : blocks[q].next = blocks'[q].next
      BY <1>0, <1>4
    <3> QED BY <1>0, <1>5, <3>1, BytesOfBlock
  <2>2. Cardinality(UsedBytes(blocks)) = used_mem
    BY DEF HeapPart, UsedCounted
  <2>3. Cardinality(UsedBytes(blocks')) \in 0 .. heap_end /\ heap_end \in Nat
    BY <1>5, BytesIn, EndIs
  <2>4. p \in Nat /\ blocks[p].next \in Nat
    BY <1>0, TiledNumbers, EndIs DEF Used
  <2>5. used_mem' = Cardinality(UsedBytes(blocks'))
    BY <1>3, <2>1, <2>2, <2>3, <2>4
  <2> QED BY <2>3, <2>5 DEF UsedCounted
<1>8. max_mem' \in 0 .. heap_end
  BY <1>3 DEF HeapPart, Numbers
<1>9. /\ DOMAIN objects = Users
      /\ \A u \in Users : \A q \in DOMAIN objects[u] :
             q \in Used(blocks) /\ q \in Offsets /\ objects[u][q] \in Nat /\ Room(blocks, q) >= objects[u][q]
  BY DEF HeapPart, Owned, Numbers
<1>10. /\ DOMAIN objects' = Users
       /\ \A u \in Users \ {t} : objects'[u] = objects[u]
       /\ objects'[t] = Without(objects[t], p)
  BY <1>9
<1>11. /\ DOMAIN objects'[t] = DOMAIN objects[t] \ {p}
       /\ \A q \in DOMAIN objects[t] : q # p => objects'[t][q] = objects[t][q]
  BY <1>10 DEF Without
<1>110. \A v, u \in Users : v # u => DOMAIN objects[v] \cap DOMAIN objects[u] = {}
  BY DEF HeapPart, Owned
<1>12. \A u \in Users : \A q \in DOMAIN objects[u] : q # p => Room(blocks', q) = Room(blocks, q)
  BY <1>4, <1>9 DEF Room
<1>120. \A u \in Users \ {t} : \A q \in DOMAIN objects[u] : q # p
  BY <1>110
<1>13. Others(t)
  BY <1>10, <1>12, <1>120 DEF Others
<1>15. Owned'
  <2>1. Used(blocks') = UNION {DOMAIN objects'[u] : u \in Users}
    <3>1. Used(blocks) = UNION {DOMAIN objects[u] : u \in Users}
      BY DEF HeapPart, Owned
    <3>2. \A q : q \in Used(blocks') <=> \E u \in Users : q \in DOMAIN objects'[u]
      BY <1>4, <1>10, <1>11, <1>120, <3>1
    <3> QED BY <3>2
  <2>2. \A v, u \in Users : v # u => DOMAIN objects'[v] \cap DOMAIN objects'[u] = {}
    BY <1>10, <1>11, <1>110
  <2>3. \A u \in Users : \A q \in DOMAIN objects'[u] : Room(blocks', q) >= objects'[u][q]
    <3> HIDE DEF Room
    <3> SUFFICES ASSUME NEW u \in Users, NEW q \in DOMAIN objects'[u]
                 PROVE  Room(blocks', q) >= objects'[u][q]
      OBVIOUS
    <3>1. CASE u # t
      BY <1>9, <1>10, <1>12, <1>120, <3>1
    <3>2. CASE u = t
      BY <1>9, <1>11, <1>12, <3>2
    <3> QED BY <3>1, <3>2
  <2> QED BY <2>1, <2>2, <2>3 DEF Owned
<1>16. Numbers'
  <2>1. \A u \in Users : DOMAIN objects'[u] \subseteq Offsets /\ \A q \in DOMAIN objects'[u] : objects'[u][q] \in Nat
    <3> SUFFICES ASSUME NEW u \in Users
                 PROVE DOMAIN objects'[u] \subseteq Offsets /\ \A q \in DOMAIN objects'[u] : objects'[u][q] \in Nat
      OBVIOUS
    <3>1. CASE u # t
      BY <1>9, <1>10, <3>1
    <3>2. CASE u = t
      BY <1>9, <1>11, <3>2
    <3> QED BY <3>1, <3>2
  <2> QED BY <1>7, <1>8, <2>1 DEF Numbers
<1> QED BY <1>4, <1>7, <1>10, <1>13, <1>15, <1>16 DEF HeapPart

(* Thread t asks n bytes of its block p, which stays where it is. *)
LEMMA ResizedObjects ==
    ASSUME HeapPart, NEW t \in Users, NEW p \in DOMAIN objects[t], NEW n \in Nat,
           objects' = [objects EXCEPT ![t][p] = n],
           Used(blocks') = Used(blocks),
           \A q \in Used(blocks) \ {p} : Room(blocks', q) = Room(blocks, q),
           Room(blocks', p) >= n,
           used_mem' \in 0 .. heap_end, max_mem' = max_mem
    PROVE  Numbers' /\ DOMAIN objects' = Users /\ Owned' /\ Others(t)
<1> HIDE DEF heap_end, Offsets, Room
<1>9. /\ DOMAIN objects = Users
      /\ \A u \in Users : \A q \in DOMAIN objects[u] :
             q \in Used(blocks) /\ q \in Offsets /\ objects[u][q] \in Nat /\ Room(blocks, q) >= objects[u][q]
  BY DEF HeapPart, Owned, Numbers
<1>10. /\ DOMAIN objects' = Users
       /\ \A u \in Users \ {t} : objects'[u] = objects[u]
       /\ objects'[t] = [objects[t] EXCEPT ![p] = n]
  BY <1>9
<1>11. /\ DOMAIN objects'[t] = DOMAIN objects[t] /\ objects'[t][p] = n
       /\ \A q \in DOMAIN objects[t] : q # p => objects'[t][q] = objects[t][q]
  BY <1>10
<1>110. \A v, u \in Users : v # u => DOMAIN objects[v] \cap DOMAIN objects[u] = {}
  BY DEF HeapPart, Owned
<1>12. \A u \in Users : \A q \in DOMAIN objects[u] : q # p => Room(blocks', q) = Room(blocks, q)
  BY <1>9
<1>120. \A u \in Users \ {t} : \A q \in DOMAIN objects[u] : q # p
  BY <1>110
<1>13. Others(t)
  BY <1>10, <1>12, <1>120 DEF Others
<1>15. Owned'
  <2>1. Used(blocks') = UNION {DOMAIN objects'[u] : u \in Users}
    <3>1. Used(blocks) = UNION {DOMAIN objects[u] : u \in Users}
      BY DEF HeapPart, Owned
    <3>2. \A u \in Users : DOMAIN objects'[u] = DOMAIN objects[u]
      BY <1>10, <1>11
    <3> QED BY <3>1, <3>2
  <2>2. \A v, u \in Users : v # u => DOMAIN objects'[v] \cap DOMAIN objects'[u] = {}
    BY <1>10, <1>11, <1>110
  <2>3. \A u \in Users : \A q \in DOMAIN objects'[u] : Room(blocks', q) >= objects'[u][q]
    <3> SUFFICES ASSUME NEW u \in Users, NEW q \in DOMAIN objects'[u]
                 PROVE  Room(blocks', q) >= objects'[u][q]
      OBVIOUS
    <3>1. CASE u # t
      BY <1>9, <1>10, <1>12, <1>120, <3>1
    <3>2. CASE u = t /\ q # p
      BY <1>9, <1>11, <1>12, <3>2
    <3>3. CASE u = t /\ q = p
      BY <1>11, <3>3
    <3> QED BY <3>1, <3>2, <3>3
  <2> QED BY <2>1, <2>2, <2>3 DEF Owned
<1>16. Numbers'
  <2>1. \A u \in Users : DOMAIN objects'[u] \subseteq Offsets /\ \A q \in DOMAIN objects'[u] : objects'[u][q] \in Nat
    <3> SUFFICES ASSUME NEW u \in Users
                 PROVE DOMAIN objects'[u] \subseteq Offsets /\ \A q \in DOMAIN objects'[u] : objects'[u][q] \in Nat
      OBVIOUS
    <3>1. CASE u # t
      BY <1>9, <1>10, <3>1
    <3>2. CASE u = t
      BY <1>9, <1>11, <3>2
    <3> QED BY <3>1, <3>2
  <2> QED BY <2>1 DEF Numbers, HeapPart
<1> QED BY <1>10, <1>13, <1>15, <1>16

LEMMA ShrinkStep ==
    ASSUME HeapSizeAssumption, HeapPart, NEW t \in Users, NEW p \in DOMAIN objects[t],
           NEW n \in Nat, n # 0,
           ReallocShrink(t, p, n)
    PROVE  HeapPart' /\ Others(t)
<1> HIDE DEF heap_end, Offsets
<1>0. Sound(blocks, lfree) /\ Tiled(blocks) /\ p \in Used(blocks)
  BY OwnedBlock DEF HeapPart, Sound
<1>1. RT_ALIGN(n) \in Nat /\ RT_ALIGN(n) % 4 = 0 /\ RT_ALIGN(n) >= n /\ RT_ALIGN(n) > 0
  BY SizeIs
<1> SUFFICES ASSUME NEW size \in Nat, size = RT_ALIGN(n), NEW p2, p2 = p + 12 + size,
                    NEW h, h = Freed(Split(blocks, p, p2), p2)
             PROVE  HeapPart' /\ Others(t)
  BY <1>1
<1>2. size + 24 < Room(blocks, p)
  <2>1. size + 12 + 12 < Room(blocks, p)
    BY DEF ReallocShrink, Shrinks, SIZEOF_STRUCT_MEM, MIN_SIZE
  <2> HIDE DEF Room
  <2> QED BY <2>1
<1>3. /\ blocks' = h.blocks /\ lfree' = h.lfree
      /\ used_mem' = used_mem - (Room(blocks, p) - size) /\ max_mem' = max_mem
      /\ objects' = [objects EXCEPT ![t][p] = n]
  BY DEF ReallocShrink, SIZEOF_STRUCT_MEM
<1>4. /\ Sound(blocks', lfree')
      /\ Used(blocks') = Used(blocks)
      /\ \A q \in Used(blocks) \ {p} : blocks'[q].next = blocks[q].next
      /\ blocks'[p].next = p2
  <2>1. /\ Sound(h.blocks, h.lfree)
        /\ Used(h.blocks) = Used(blocks)
        /\ \A q \in Used(blocks) \ {p} : h.blocks[q].next = blocks[q].next
        /\ h.blocks[p].next = p2
    BY <1>0, <1>1, <1>2, ShrunkIs
  <2> QED BY <1>3, <2>1
<1>5. Tiled(blocks') /\ p \in Nat /\ blocks[p].next \in Nat
  BY <1>0, <1>4, TiledNumbers, EndIs DEF Sound, Used
<1>6. Room(blocks, p) = blocks[p].next - (p + 12) /\ Room(blocks', p) = size
  BY <1>4, <1>5 DEF Room, SIZEOF_STRUCT_MEM
<1>7. UsedCounted' /\ used_mem' \in 0 .. heap_end
  <2>1. Cardinality(UsedBytes(blocks)) = Cardinality(UsedBytes(blocks')) + (blocks[p].next - blocks'[p].next)
    <3>1. blocks'[p].next <= blocks[p].next
      BY <1>2, <1>4, <1>5, <1>6
    <3> QED BY <1>0, <1>4, <1>5, <3>1, BytesCut
  <2>2. Cardinality(UsedBytes(blocks)) = used_mem
    BY DEF HeapPart, UsedCounted
  <2>3. Cardinality(UsedBytes(blocks')) \in 0 .. heap_end /\ heap_end \in Nat
    BY <1>5, BytesIn, EndIs
  <2>4. blocks[p].next - blocks'[p].next = Room(blocks, p) - size
    BY <1>4, <1>5, <1>6
  <2>40. Room(blocks, p) \in Int
    BY <1>5, <1>6
  <2> HIDE DEF Room
  <2>5. used_mem' = Cardinality(UsedBytes(blocks'))
    BY <1>3, <2>1, <2>2, <2>3, <2>4, <2>40
  <2> QED BY <2>3, <2>5 DEF UsedCounted
<1>8. \A q \in Used(blocks) \ {p} : Room(blocks', q) = Room(blocks, q)
  BY <1>4 DEF Room
<1>9. Room(blocks', p) >= n
  BY <1>1, <1>6
<1>10. Numbers' /\ DOMAIN objects' = Users /\ Owned' /\ Others(t)
  BY <1>3, <1>4, <1>7, <1>8, <1>9, ResizedObjects
<1> QED BY <1>4, <1>7, <1>10 DEF HeapPart

LEMMA SameSizeStep ==
    ASSUME HeapSizeAssumption, HeapPart, NEW t \in Users, NEW p \in DOMAIN objects[t],
           NEW n \in Nat,
           ReallocSame(t, p, n)
    PROVE  HeapPart' /\ Others(t)
<1> HIDE DEF heap_end, Offsets
<1>1. /\ blocks' = blocks /\ lfree' = lfree /\ used_mem' = used_mem /\ max_mem' = max_mem
      /\ objects' = [objects EXCEPT ![t][p] = n] /\ Room(blocks, p) = RT_ALIGN(n)
  BY DEF ReallocSame, heapVars
<1>2. Room(blocks', p) >= n
  BY <1>1, SizeIs
<1>3. /\ Used(blocks') = Used(blocks) /\ \A q \in Used(blocks) \ {p} : Room(blocks', q) = Room(blocks, q)
      /\ used_mem' \in 0 .. heap_end
  BY <1>1 DEF HeapPart, Numbers
<1>4. Numbers' /\ DOMAIN objects' = Users /\ Owned' /\ Others(t)
  BY <1>1, <1>2, <1>3, ResizedObjects
<1>5. Sound(blocks', lfree') /\ UsedCounted'
  BY <1>1 DEF HeapPart, UsedCounted
<1> QED BY <1>4, <1>5 DEF HeapPart

(* The heap and what threads have stay. *)
LEMMA HeapUnchanged ==
    ASSUME HeapPart, UNCHANGED <<heapVars, objects>>, NEW t
    PROVE  HeapPart' /\ Others(t)
<1>1. /\ blocks' = blocks /\ lfree' = lfree /\ used_mem' = used_mem /\ max_mem' = max_mem /\ objects' = objects
  BY DEF heapVars
<1> QED BY <1>1 DEF HeapPart, Numbers, UsedCounted, Owned, Others

(* The calls of the threads other than t stay. *)
LEMMA CallsKept ==
    ASSUME CallPart, NEW t \in Users, Others(t),
           NEW where \in {"run", "expand", "copy", "release"}, NEW c,
           step' = [step EXCEPT ![t] = where], call' = call \/ call' = [call EXCEPT ![t] = c], CallOf(t)'
    PROVE  CallPart'
<1>1. /\ step' \in [Users -> {"run", "expand", "copy", "release"}] /\ DOMAIN call' = Users
      /\ \A u \in Users \ {t} : step'[u] = step[u] /\ call'[u] = call[u]
  BY DEF CallPart
<1>2. ASSUME NEW u \in Users \ {t} PROVE CallOf(u)'
  <2>1. CallOf(u)
    BY DEF CallPart
  <2>2. /\ objects'[u] = objects[u]
        /\ \A q \in DOMAIN objects[u] : Room(blocks', q) = Room(blocks, q)
    BY DEF Others
  <2>3. step'[u] = step[u] /\ call'[u] = call[u]
    BY <1>1
  <2> QED BY <2>1, <2>2, <2>3 DEF CallOf
<1> QED BY <1>1, <1>2 DEF CallPart

LEMMA CallsUnchanged ==
    ASSUME CallPart, NEW t \in Users, Others(t), step[t] = "run", UNCHANGED <<step, call>>
    PROVE  CallPart'
<1>1. CallOf(t) /\ step \in [Users -> {"run", "expand", "copy", "release"}] /\ DOMAIN call = Users
  BY DEF CallPart
<1>2. CallOf(t)'
  BY <1>1 DEF CallOf
<1>3. ASSUME NEW u \in Users \ {t} PROVE CallOf(u)'
  <2>1. CallOf(u)
    BY DEF CallPart
  <2>2. /\ objects'[u] = objects[u]
        /\ \A q \in DOMAIN objects[u] : Room(blocks', q) = Room(blocks, q)
    BY DEF Others
  <2> QED BY <2>1, <2>2 DEF CallOf
<1> QED BY <1>1, <1>2, <1>3 DEF CallPart

-----------------------------------------------------------------------------
(* The actions *)

LEMMA MallocStep ==
    ASSUME HeapSizeAssumption, HeapInv, NEW t \in Users, NEW n \in Nat, rt_malloc(t, n)
    PROVE  HeapInv'
<1>0. HeapPart /\ CallPart /\ step[t] = "run" /\ UNCHANGED <<step, call>>
  BY DEF HeapInv, rt_malloc
<1>1. HeapPart' /\ Others(t)
  <2>1. CASE Found(n) = Null
    <3>1. UNCHANGED <<heapVars, objects>>
      BY <2>1 DEF rt_malloc
    <3> QED BY <1>0, <3>1, HeapUnchanged
  <2>2. CASE Found(n) # Null
    <3>1. /\ Allocates(Found(n), BlockSize(n))
          /\ objects' = [objects EXCEPT ![t] = With(@, Found(n), n)]
      BY <2>2 DEF rt_malloc
    <3> HIDE DEF Found
    <3> QED BY <1>0, <2>2, <3>1, GivenStep
  <2> QED BY <2>1, <2>2
<1>2. CallPart'
  BY <1>0, <1>1, CallsUnchanged
<1> QED BY <1>1, <1>2 DEF HeapInv

LEMMA FreeStep ==
    ASSUME HeapSizeAssumption, HeapInv, NEW t \in Users, NEW p \in DOMAIN objects[t],
           step[t] = "run",
           Releases(p), objects' = [objects EXCEPT ![t] = Without(@, p)], UNCHANGED <<step, call>>
    PROVE  HeapInv'
<1>1. HeapPart' /\ Others(t)
  BY TakenBackStep DEF HeapInv
<1>2. CallPart'
  BY <1>1, CallsUnchanged DEF HeapInv
<1> QED BY <1>1, <1>2 DEF HeapInv

LEMMA MoveStep ==
    ASSUME HeapSizeAssumption, HeapInv, NEW t \in Users, NEW p \in DOMAIN objects[t], NEW n \in Nat,
           ReallocMove(t, p, n)
    PROVE  HeapInv'
<1> HIDE DEF heap_end, Offsets
<1>0. HeapPart /\ CallPart /\ UNCHANGED <<heapVars, objects>>
  BY DEF HeapInv, ReallocMove
<1>1. HeapPart' /\ Others(t)
  BY <1>0, HeapUnchanged
<1> SUFFICES ASSUME NEW c, c = [rmem |-> p, newsize |-> RT_ALIGN(n), size |-> Room(blocks, p), nmem |-> Null]
             PROVE  HeapInv'
  OBVIOUS
<1>2. step' = [step EXCEPT ![t] = "expand"] /\ call' = [call EXCEPT ![t] = c]
  BY DEF ReallocMove
<1>3. step'[t] = "expand" /\ call'[t] = c /\ objects' = objects /\ blocks' = blocks
  BY <1>0, <1>2 DEF CallPart, heapVars
<1>4. p \in Offsets /\ Room(blocks, p) \in Nat
  <2>1. Tiled(blocks) /\ p \in DOMAIN blocks \ {heap_end}
    BY <1>0, OwnedBlock DEF HeapPart, Sound, Used
  <2>2. p \in Nat /\ p + 12 < blocks[p].next /\ blocks[p].next \in Nat
    BY <2>1, TiledNumbers
  <2> QED BY <2>1, <2>2 DEF Room, SIZEOF_STRUCT_MEM, Tiled, Headers
<1>5. CallOf(t)'
  <2>1. c \in [rmem : Offsets \cup {Null}, newsize : Nat, size : Nat, nmem : Offsets \cup {Null}]
    BY <1>4, SizeIs
  <2>2. c.rmem = p /\ c.size = Room(blocks, p)
    OBVIOUS
  <2> QED BY <1>3, <2>1, <2>2 DEF CallOf
<1>6. CallPart'
  BY <1>0, <1>1, <1>2, <1>5, CallsKept
<1> QED BY <1>1, <1>6 DEF HeapInv

LEMMA ReallocStep ==
    ASSUME HeapSizeAssumption, HeapInv, NEW t \in Users, NEW p \in DOMAIN objects[t], NEW n \in Nat,
           rt_realloc(t, p, n)
    PROVE  HeapInv'
<1>0. HeapPart /\ CallPart /\ step[t] = "run"
  BY DEF HeapInv, rt_realloc
<1>1. CASE n = 0
  <2>1. ReallocZero(t, p)
    BY <1>1 DEF rt_realloc
  <2> QED BY <1>0, <2>1, FreeStep DEF ReallocZero
<1>2. CASE n # 0 /\ ReallocShrink(t, p, n)
  <2>1. HeapPart' /\ Others(t)
    BY <1>0, <1>2, ShrinkStep
  <2>2. UNCHANGED <<step, call>>
    BY <1>2 DEF ReallocShrink
  <2>3. CallPart'
    BY <1>0, <2>1, <2>2, CallsUnchanged
  <2> QED BY <2>1, <2>3 DEF HeapInv
<1>3. CASE ReallocSame(t, p, n)
  <2>1. HeapPart' /\ Others(t)
    BY <1>0, <1>3, SameSizeStep
  <2>2. UNCHANGED <<step, call>>
    BY <1>3 DEF ReallocSame
  <2>3. CallPart'
    BY <1>0, <2>1, <2>2, CallsUnchanged
  <2> QED BY <2>1, <2>3 DEF HeapInv
<1>4. CASE ReallocMove(t, p, n)
  BY <1>4, MoveStep
<1>5. n = 0 \/ ReallocShrink(t, p, n) \/ ReallocSame(t, p, n) \/ ReallocMove(t, p, n)
  BY DEF rt_realloc
<1> QED BY <1>1, <1>2, <1>3, <1>4, <1>5

LEMMA ExpandStep ==
    ASSUME HeapSizeAssumption, HeapInv, NEW t \in Users, ReallocExpand(t)
    PROVE  HeapInv'
<1> HIDE DEF heap_end, Offsets
<1>0. HeapPart /\ CallPart /\ step[t] = "expand" /\ CallOf(t)
  BY DEF HeapInv, ReallocExpand, CallPart
<1>1. /\ call[t] \in [rmem : Offsets \cup {Null}, newsize : Nat, size : Nat, nmem : Offsets \cup {Null}]
      /\ call[t].rmem \in DOMAIN objects[t] /\ call[t].size = Room(blocks, call[t].rmem)
  BY <1>0 DEF CallOf
<1> SUFFICES ASSUME NEW n \in Nat, n = call[t].newsize PROVE HeapInv'
  BY <1>1
<1>2. CASE Found(n) = Null
  <2>1. /\ step' = [step EXCEPT ![t] = "run"] /\ call' = [call EXCEPT ![t] = NoCall]
        /\ UNCHANGED <<heapVars, objects>>
    BY <1>2 DEF ReallocExpand
  <2>2. HeapPart' /\ Others(t)
    BY <1>0, <2>1, HeapUnchanged
  <2>3. CallOf(t)'
    <3>1. step'[t] = "run" /\ call'[t] = NoCall
      BY <1>0, <2>1 DEF CallPart
    <3> QED BY <3>1 DEF CallOf, NoCall
  <2>4. CallPart'
    BY <1>0, <2>1, <2>2, <2>3, CallsKept
  <2> QED BY <2>2, <2>4 DEF HeapInv
<1>3. CASE Found(n) # Null
  <2> SUFFICES ASSUME NEW p, p = Found(n) PROVE HeapInv'
    OBVIOUS
  <2>1. /\ Allocates(p, BlockSize(n)) /\ objects' = [objects EXCEPT ![t] = With(@, p, n)]
        /\ step' = [step EXCEPT ![t] = "copy"] /\ call' = [call EXCEPT ![t].nmem = p]
    BY <1>3 DEF ReallocExpand
  <2>2. /\ HeapPart' /\ Others(t)
        /\ p \notin DOMAIN objects[t] /\ p \in DOMAIN objects'[t] /\ Room(blocks', p) >= n
        /\ \A q \in DOMAIN objects[t] : q \in DOMAIN objects'[t] /\ Room(blocks', q) = Room(blocks, q)
        /\ p \in Offsets
    <3> HIDE DEF Found, BlockSize
    <3> QED BY <1>0, <1>3, <2>1, GivenStep
  <2> SUFFICES ASSUME NEW c, c = [rmem |-> call[t].rmem, newsize |-> n, size |-> call[t].size, nmem |-> p]
               PROVE  HeapInv'
    OBVIOUS
  <2>3. [call[t] EXCEPT !.nmem = p] = c
    BY <1>1
  <2>4. call' = [call EXCEPT ![t] = c] /\ call'[t] = c /\ step'[t] = "copy"
    BY <1>0, <2>1, <2>3 DEF CallPart
  <2>5. CallOf(t)'
    <3>1. c \in [rmem : Offsets \cup {Null}, newsize : Nat, size : Nat, nmem : Offsets \cup {Null}]
      BY <1>1, <2>2
    <3>2. c.rmem = call[t].rmem /\ c.size = call[t].size /\ c.newsize = n /\ c.nmem = p
      OBVIOUS
    <3>3. /\ c.rmem \in DOMAIN objects'[t] /\ c.size = Room(blocks', c.rmem)
          /\ c.nmem \in DOMAIN objects'[t] /\ c.nmem # c.rmem /\ Room(blocks', c.nmem) >= c.newsize
      <4> HIDE DEF Room
      <4> QED BY <1>1, <2>2, <3>2
    <3> QED BY <2>4, <3>1, <3>3 DEF CallOf
  <2>6. CallPart'
    BY <1>0, <2>1, <2>2, <2>4, <2>5, CallsKept
  <2> QED BY <2>2, <2>6 DEF HeapInv
<1> QED BY <1>2, <1>3

LEMMA CopyStep ==
    ASSUME HeapInv, NEW t \in Users, ReallocCopy(t)
    PROVE  HeapInv'
<1>0. HeapPart /\ CallPart /\ step[t] = "copy" /\ CallOf(t)
  BY DEF HeapInv, ReallocCopy, CallPart
<1>1. step' = [step EXCEPT ![t] = "release"] /\ call' = call /\ UNCHANGED <<heapVars, objects>>
  BY DEF ReallocCopy
<1>2. HeapPart' /\ Others(t)
  BY <1>0, <1>1, HeapUnchanged
<1>3. step'[t] = "release" /\ blocks' = blocks /\ objects' = objects
  BY <1>0, <1>1 DEF CallPart, heapVars
<1>4. CallOf(t)'
  BY <1>0, <1>1, <1>3 DEF CallOf
<1>5. CallPart'
  BY <1>0, <1>1, <1>2, <1>3, <1>4, CallsKept
<1> QED BY <1>2, <1>5 DEF HeapInv

LEMMA MovedStep ==
    ASSUME HeapSizeAssumption, HeapInv, NEW t \in Users, ReallocFree(t)
    PROVE  HeapInv'
<1>0. HeapPart /\ CallPart /\ step[t] = "release" /\ CallOf(t)
  BY DEF HeapInv, ReallocFree, CallPart
<1>1. call[t].rmem \in DOMAIN objects[t]
  BY <1>0 DEF CallOf
<1>2. /\ Releases(call[t].rmem) /\ objects' = [objects EXCEPT ![t] = Without(@, call[t].rmem)]
      /\ step' = [step EXCEPT ![t] = "run"] /\ call' = [call EXCEPT ![t] = NoCall]
  BY DEF ReallocFree
<1>3. HeapPart' /\ Others(t)
  BY <1>0, <1>1, <1>2, TakenBackStep
<1>4. CallOf(t)'
  <2>1. step'[t] = "run" /\ call'[t] = NoCall
    BY <1>0, <1>2 DEF CallPart
  <2> QED BY <2>1 DEF CallOf, NoCall
<1>5. CallPart'
  BY <1>0, <1>2, <1>3, <1>4, CallsKept
<1> QED BY <1>3, <1>5 DEF HeapInv

LEMMA HeapStep ==
    ASSUME HeapSizeAssumption, RequestsAssumption, HeapInv, [HeapNext]_allVars
    PROVE  HeapInv'
<1>0. \A n \in Sizes : n \in Nat
  BY DEF RequestsAssumption
<1>1. CASE HeapNext
  <2>1. PICK t \in Users :
            \/ \E n \in Sizes : rt_malloc(t, n)
            \/ \E p \in DOMAIN objects[t] : rt_free(t, p)
            \/ \E p \in DOMAIN objects[t], n \in Sizes : rt_realloc(t, p, n)
            \/ ReallocExpand(t) \/ ReallocCopy(t) \/ ReallocFree(t)
    BY <1>1 DEF HeapNext
  <2>2. CASE \E n \in Sizes : rt_malloc(t, n)
    BY <1>0, <2>2, MallocStep
  <2>3. CASE \E p \in DOMAIN objects[t] : rt_free(t, p)
    BY <2>3, FreeStep DEF rt_free
  <2>4. CASE \E p \in DOMAIN objects[t], n \in Sizes : rt_realloc(t, p, n)
    BY <1>0, <2>4, ReallocStep
  <2>5. CASE ReallocExpand(t)
    BY <2>5, ExpandStep
  <2>6. CASE ReallocCopy(t)
    BY <2>6, CopyStep
  <2>7. CASE ReallocFree(t)
    BY <2>7, MovedStep
  <2> QED BY <2>1, <2>2, <2>3, <2>4, <2>5, <2>6, <2>7
<1>2. CASE UNCHANGED allVars
  <2>1. UNCHANGED <<heapVars, objects>> /\ step' = step /\ call' = call
    BY <1>2 DEF allVars, heapVars
  <2>2. HeapPart'
    BY <2>1, HeapUnchanged DEF HeapInv
  <2>3. CallPart'
    BY <2>1 DEF HeapInv, CallPart, CallOf, heapVars
  <2> QED BY <2>2, <2>3 DEF HeapInv
<1> QED BY <1>1, <1>2

(* The inductive invariant holds after any calls of rt_malloc, rt_free and  *)
(* rt_realloc, of any number of threads, whose sections at heap_sem come in *)
(* any order.                                                               *)
THEOREM HeapHolds == HeapSpec => []HeapInv
<1>1. HeapInit => HeapInv
  BY HeapStarts, HeapSizeAssumption
<1>2. HeapInv /\ [HeapNext]_allVars => HeapInv'
  BY HeapStep, HeapSizeAssumption, RequestsAssumption
<1> QED BY <1>1, <1>2, PTL DEF HeapSpec

(* For a heap of any size: plug_holes and the splits of rt_malloc and     *)
(* rt_realloc leave blocks that tile the heap, no two free ones side by   *)
(* side; lfree is the lowest free one and used_mem the number of bytes in *)
(* use.                                                                   *)
THEOREM HeapIsSound == HeapSpec => []HeapSound
<1>1. HeapInv => HeapSound
  BY HeapInvSays, HeapSizeAssumption
<1> QED BY <1>1, HeapHolds, PTL

(* For a heap of any size and any threads: no block is given to two threads, *)
(* each is as large as was asked of rt_malloc or rt_realloc, and when all    *)
(* was freed the heap is one free block again.                               *)
THEOREM EveryObjectHasRoom == HeapSpec => []ObjectsHaveRoom
<1>1. HeapInv => ObjectsHaveRoom
  BY HeapInvSays, HeapSizeAssumption
<1> QED BY <1>1, HeapHolds, PTL

(* rt_realloc copies no more than its old and its new block hold, although *)
(* others use the heap between its sections at heap_sem.                   *)
THEOREM CopiesStayInside == HeapSpec => []CopyStaysInside
<1>1. HeapInv => CopyStaysInside
  BY HeapInvSays, HeapSizeAssumption
<1> QED BY <1>1, HeapHolds, PTL
==============================================================================
