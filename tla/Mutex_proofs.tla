----------------------------- MODULE Mutex_proofs -----------------------------
(***************************************************************************)
(* Proofs about Mutex, for any threads, mutexes, priorities and limit of     *)
(* hold: what the threads believe agrees with the mutexes, and inherited     *)
(* priorities are given back.                                               *)
(***************************************************************************)
EXTENDS Mutex, WaitList_proofs

(* The places of m in a list are finitely many. *)
LEMMA PlacesFinite ==
    ASSUME NEW S, NEW list \in Seq(S), NEW m
    PROVE  /\ IsFiniteSet({i \in 1 .. Len(list) : list[i] = m})
           /\ Times(m, list) \in Nat
           /\ Times(m, list) = 0 <=> m \notin Elements(list)
<1> DEFINE P == {i \in 1 .. Len(list) : list[i] = m}
<1>1. 1 \in Int /\ Len(list) \in Int
  OBVIOUS
<1>2. IsFiniteSet(1 .. Len(list))
  BY <1>1, FS_Interval, Zenon
<1>3. IsFiniteSet(P)
  BY <1>2, FS_Subset
<1>4. P = {} <=> m \notin Elements(list)
  BY DEF Elements
<1>5. Times(m, list) = Cardinality(P)
  BY DEF Times
<1> HIDE DEF P
<1>6. Cardinality(P) \in Nat /\ (Cardinality(P) = 0 <=> P = {})
  BY <1>3, FS_CardinalityType, FS_EmptySet
<1> QED BY <1>3, <1>4, <1>5, <1>6 DEF P

(* A take is counted. *)
LEMMA TimesAppended ==
    ASSUME NEW S, NEW list \in Seq(S), NEW x \in S, NEW m
    PROVE  Times(m, Append(list, x)) = Times(m, list) + (IF x = m THEN 1 ELSE 0)
<1> DEFINE new == Append(list, x)
           P == {i \in 1 .. Len(list) : list[i] = m}
           Q == {i \in 1 .. Len(new) : new[i] = m}
           n == Len(list)
<1>1. /\ n \in Nat /\ Len(new) = n + 1 /\ new[n + 1] = x
      /\ \A i \in 1 .. n : new[i] = list[i]
  OBVIOUS
<1> HIDE DEF new
<1>2. IsFiniteSet(P) /\ Times(m, list) = Cardinality(P) /\ Cardinality(P) \in Nat
  BY PlacesFinite DEF Times
<1>3. Times(m, new) = Cardinality(Q)
  BY DEF Times
<1>4. n + 1 \notin P
  BY <1>1
<1>5. CASE x = m
  <2>1. Q = P \cup {n + 1}
    BY <1>1, <1>5
  <2> HIDE DEF P, Q
  <2>2. Cardinality(Q) = Cardinality(P) + 1
    BY <1>2, <1>4, <2>1, FS_AddElement
  <2> QED BY <1>2, <1>3, <1>5, <2>2 DEF new
<1>6. CASE x # m
  <2>1. Q = P
    BY <1>1, <1>6
  <2> HIDE DEF P, Q
  <2> QED BY <1>2, <1>3, <1>6, <2>1 DEF new
<1> QED BY <1>5, <1>6

(* A release undoes a take: one place of m less, the others as before. *)
LEMMA TimesUndone ==
    ASSUME NEW S, NEW list \in Seq(S), NEW m \in Elements(list)
    PROVE  /\ Undone(m, list) \in Seq(S)
           /\ Times(m, Undone(m, list)) = Times(m, list) - 1
           /\ \A x : x # m => Times(x, Undone(m, list)) = Times(x, list)
           /\ list[Len(list)] = m
                => \A i \in 1 .. Len(Undone(m, list)) :
                      i \in 1 .. Len(list) /\ Undone(m, list)[i] = list[i]
<1> DEFINE n == Len(list)
           k == CHOOSE i \in 1 .. n : list[i] = m /\ \A j \in i + 1 .. n : list[j] # m
           new == [i \in 1 .. n - 1 |-> IF i < k THEN list[i] ELSE list[i + 1]]
           f == [i \in 1 .. n - 1 |-> IF i < k THEN i ELSE i + 1]
<1>1. n \in Nat /\ \A i \in 1 .. n : list[i] \in S
  OBVIOUS
<1>2. k \in 1 .. n /\ list[k] = m /\ \A j \in k + 1 .. n : list[j] # m
  BY LastPlace
<1>3. Undone(m, list) = new
  BY DEF Undone
<1> HIDE DEF k
<1>4. new \in Seq(S) /\ Len(new) = n - 1
  BY <1>1, <1>2
<1>5. \A i \in 1 .. n - 1 : f[i] \in 1 .. n \ {k} /\ new[i] = list[f[i]]
  BY <1>1, <1>2
<1>6. \A i, j \in 1 .. n - 1 : f[i] = f[j] => i = j
  BY <1>1, <1>2
<1>7. ASSUME NEW i \in 1 .. n, i # k PROVE \E j \in 1 .. n - 1 : f[j] = i
  <2>1. CASE i < k
    <3>1. i \in 1 .. n - 1 /\ f[i] = i
      BY <1>1, <1>2, <2>1
    <3> QED BY <3>1
  <2>2. CASE i > k
    <3>1. i - 1 \in 1 .. n - 1 /\ f[i - 1] = i
      BY <1>1, <1>2, <2>2
    <3> QED BY <3>1
  <2> QED BY <1>1, <1>2, <1>7, <2>1, <2>2
<1> HIDE DEF f, new
<1>8. ASSUME NEW x
      PROVE  Times(x, new) = IF x = m THEN Times(x, list) - 1 ELSE Times(x, list)
  <2> DEFINE P == {i \in 1 .. n : list[i] = x}
             Q == {i \in 1 .. n - 1 : new[i] = x}
             g == [i \in Q |-> f[i]]
  <2>1. Times(x, list) = Cardinality(P) /\ Times(x, new) = Cardinality(Q)
    BY <1>4 DEF Times
  <2>2. IsFiniteSet(P) /\ IsFiniteSet(Q)
    BY <1>4, PlacesFinite
  <2>3. g \in Injection(Q, P \ {k})
    <3>1. g \in [Q -> P \ {k}]
      BY <1>5
    <3>2. \A a, b \in Q : g[a] = g[b] => a = b
      BY <1>6
    <3> HIDE DEF g, P, Q
    <3> QED BY <3>1, <3>2 DEF Injection, IsInjective
  <2>4. g \in Surjection(Q, P \ {k})
    <3>1. g \in [Q -> P \ {k}]
      BY <1>5
    <3>2. ASSUME NEW i \in P \ {k} PROVE \E j \in Q : g[j] = i
      <4>1. PICK j \in 1 .. n - 1 : f[j] = i
        BY <1>7, <3>2
      <4>2. new[j] = x
        BY <1>5, <3>2, <4>1
      <4> QED BY <4>1, <4>2
    <3> HIDE DEF g, P, Q
    <3> QED BY <3>1, <3>2 DEF Surjection
  <2>5. k \in P <=> x = m
    BY <1>2
  <2> HIDE DEF P, Q, g
  <2>6. ExistsBijection(Q, P \ {k})
    BY <2>3, <2>4 DEF ExistsBijection, Bijection
  <2>7. Cardinality(P \ {k}) = Cardinality(Q)
    BY <2>2, <2>6, FS_Bijection
  <2>8. Cardinality(P \ {k}) = IF k \in P THEN Cardinality(P) - 1 ELSE Cardinality(P)
    BY <2>2, FS_RemoveElement
  <2> QED BY <2>1, <2>5, <2>7, <2>8
<1>9. ASSUME list[n] = m, NEW i \in 1 .. n - 1 PROVE i \in 1 .. n /\ new[i] = list[i]
  <2>1. k = n
    BY <1>1, <1>2, <1>9
  <2>2. i < k
    BY <1>1, <2>1
  <2> QED BY <1>1, <1>2, <2>1, <2>2 DEF new
<1> QED BY <1>3, <1>4, <1>8, <1>9

-----------------------------------------------------------------------------
(* The inductive invariant: Exclusive, and what it needs besides.            *)

(* A mutex is held as long as it has an owner. *)
HeldWhileOwned == \A m \in Mutexes : hold[m] = 0 <=> owner[m] = None

(* rt_mutex_take set the error to RT_EOK before the thread was suspended. *)
WaitsWithoutError == \A t \in Threads : pc[t] = "wait" => error[t] = "EOK"

(* A call that is not over is about a mutex. *)
OnMutex == \A t \in Threads : pc[t] # "run" => on[t] \in Mutexes

IInv == Exclusive /\ HeldWhileOwned /\ WaitsWithoutError /\ OnMutex

(* What OwnerAgrees says of one thread and one mutex. *)
Counted(t, m) ==
    Times(m, held[t]) + (IF Granted(t, m) THEN 1 ELSE 0)
        = IF owner[m] = t THEN hold[m] ELSE 0

LEMMA InitIInv == Init => IInv
<1> SUFFICES ASSUME Init PROVE IInv
  OBVIOUS
<1> USE MutexesAssumption, PriorityAssumption, HoldMaxAssumption DEF Init
<1>1. TypeOK
  <2>1. \A S : <<>> \in Seq(S)
    OBVIOUS
  <2>2. suspend_thread \in [Mutexes -> Seq(Threads)] /\ held \in [Threads -> Seq(Mutexes)]
    BY <2>1
  <2> QED BY <2>2 DEF TypeOK, Steps, NO_PRIORITY
<1>2. ASSUME NEW t \in Threads, NEW m \in Mutexes PROVE Counted(t, m)
  <2>1. <<>> \in Seq(Mutexes) /\ m \notin Elements(<<>>)
    BY DEF Elements
  <2>2. Times(m, <<>>) = 0
    BY <2>1, PlacesFinite
  <2>3. owner[m] # t /\ ~Granted(t, m) /\ held[t] = <<>>
    BY DEF Granted
  <2> QED BY <2>2, <2>3 DEF Counted
<1>3. OwnerAgrees
  BY <1>2 DEF OwnerAgrees, Counted
<1>4. Elements(<<>>) = {} /\ Once(<<>>)
  BY DEF Elements, Once
<1>5. WaitersHaveOwner
  BY <1>4 DEF WaitersHaveOwner
<1> QED BY <1>1, <1>3, <1>5 DEF IInv, Exclusive, HeldWhileOwned, WaitsWithoutError, OnMutex

(* What a thread holds, as the mutex sees it and as the thread does. *)
LEMMA HoldsAgree ==
    ASSUME IInv, NEW t \in Threads, NEW m \in Mutexes
    PROVE  /\ held[t] \in Seq(Mutexes) /\ Times(m, held[t]) \in Nat /\ hold[m] \in Nat
           /\ Counted(t, m)
           /\ owner[m] = t => hold[m] > 0
           /\ m \in Elements(held[t]) => owner[m] = t
           /\ owner[m] = t /\ ~Granted(t, m) => m \in Elements(held[t])
           /\ Granted(t, m) => owner[m] = t
<1>1. held[t] \in Seq(Mutexes) /\ hold[m] \in 0 .. RT_MUTEX_HOLD_MAX
  BY DEF IInv, Exclusive, TypeOK
<1>2. Times(m, held[t]) \in Nat /\ (Times(m, held[t]) = 0 <=> m \notin Elements(held[t]))
  BY <1>1, PlacesFinite
<1>3. Counted(t, m)
  BY DEF IInv, Exclusive, OwnerAgrees, Counted
<1>4. owner[m] = t => hold[m] # 0
  BY MutexesAssumption DEF IInv, HeldWhileOwned
<1>5. hold[m] \in Nat
  BY <1>1, HoldMaxAssumption
<1> QED BY <1>1, <1>2, <1>3, <1>4, <1>5 DEF Counted

(* The lists are as they were when nobody's waiting changed. *)
LEMMA WaitersKept ==
    ASSUME IInv, UNCHANGED <<owner, suspend_thread>>,
           \A t \in Threads, m \in Mutexes :
               (pc'[t] = "wait" /\ on'[t] = m) <=> (pc[t] = "wait" /\ on[t] = m)
    PROVE  WaitersHaveOwner'
<1>1. ASSUME NEW m \in Mutexes
      PROVE  {t \in Threads : pc'[t] = "wait" /\ on'[t] = m} = {t \in Threads : pc[t] = "wait" /\ on[t] = m}
  OBVIOUS
<1> QED BY <1>1 DEF IInv, Exclusive, WaitersHaveOwner

(* And the counts, when nobody takes or releases. *)
LEMMA CountsKept ==
    ASSUME IInv, UNCHANGED <<value, owner, hold, held>>,
           \A t \in Threads, m \in Mutexes : Granted(t, m)' <=> Granted(t, m)
    PROVE  OwnerAgrees'
<1>1. ASSUME NEW t \in Threads, NEW m \in Mutexes PROVE Counted(t, m)'
  <2>1. Counted(t, m) /\ (Granted(t, m)' <=> Granted(t, m))
    BY HoldsAgree
  <2> QED BY <2>1 DEF Counted
<1> QED BY <1>1 DEF IInv, Exclusive, OwnerAgrees, Counted

LEMMA TakeAgainStep ==
    ASSUME IInv, NEW t \in Threads, NEW m \in Mutexes, TakeAgain(t, m)
    PROVE  IInv'
<1> USE DEF TakeAgain, Enters
<1>1. /\ TypeOK /\ pc[t] = "run" /\ owner[m] = t
      /\ UNCHANGED <<value, owner, suspend_thread, pc, on>>
  BY DEF IInv, Exclusive
<1>2. error' \in [Threads -> {"EOK", "ETIMEOUT", "ERROR"}]
  BY <1>1 DEF TypeOK
<1>3. \A u \in Threads : u # t => error'[u] = error[u]
  BY <1>1 DEF TypeOK
<1>4. WaitersHaveOwner'
  BY <1>1, WaitersKept
<1>5. WaitsWithoutError' /\ OnMutex'
  BY <1>1, <1>3 DEF IInv, WaitsWithoutError, OnMutex
<1>6. \A u \in Threads, n \in Mutexes : Granted(u, n)' <=> Granted(u, n)
  BY <1>1, <1>3 DEF Granted
<1>7. CASE hold[m] < RT_MUTEX_HOLD_MAX
  <2>1. hold' = [hold EXCEPT ![m] = @ + 1] /\ held' = [held EXCEPT ![t] = Append(@, m)]
    BY <1>7
  <2>2. hold' \in [Mutexes -> 0 .. RT_MUTEX_HOLD_MAX]
    BY <1>1, <1>7, <2>1, HoldMaxAssumption DEF TypeOK
  <2>3. held' \in [Threads -> Seq(Mutexes)]
    BY <1>1, <2>1 DEF TypeOK
  <2>4. TypeOK'
    BY <1>1, <1>2, <2>2, <2>3 DEF TypeOK
  <2>5. ASSUME NEW u \in Threads, NEW n \in Mutexes PROVE Counted(u, n)'
    <3>1. /\ Counted(u, n) /\ held[u] \in Seq(Mutexes)
          /\ Times(n, held[u]) \in Nat /\ hold[n] \in Nat
      BY HoldsAgree
    <3>2. Granted(u, n)' <=> Granted(u, n)
      BY <1>6
    <3>3. CASE u = t
      <4>1. held'[u] = Append(held[u], m)
        BY <1>1, <2>1, <3>3 DEF TypeOK
      <4>2. Times(n, held'[u]) = Times(n, held[u]) + (IF m = n THEN 1 ELSE 0)
        BY <3>1, <4>1, TimesAppended
      <4>3. hold'[n] = IF m = n THEN hold[n] + 1 ELSE hold[n]
        BY <1>1, <2>1 DEF TypeOK
      <4> QED BY <1>1, <3>1, <3>2, <3>3, <4>2, <4>3 DEF Counted
    <3>4. CASE u # t
      <4>1. held'[u] = held[u] /\ (owner[n] = u => hold'[n] = hold[n])
        BY <1>1, <2>1, <3>4 DEF TypeOK
      <4> QED BY <1>1, <3>1, <3>2, <4>1 DEF Counted
    <3> QED BY <3>3, <3>4
  <2>6. OwnerAgrees'
    BY <1>1, <2>5 DEF OwnerAgrees, Counted, IInv, Exclusive
  <2>7. HeldWhileOwned'
    <3>1. ASSUME NEW n \in Mutexes PROVE hold'[n] = 0 <=> owner'[n] = None
      <4>1. hold[n] = 0 <=> owner[n] = None
        BY DEF IInv, HeldWhileOwned
      <4>2. hold[n] \in Nat
        BY HoldsAgree
      <4>3. CASE n = m
        BY <1>1, <2>1, <4>2, <4>3, MutexesAssumption DEF TypeOK
      <4>4. CASE n # m
        BY <1>1, <2>1, <4>1, <4>4 DEF TypeOK
      <4> QED BY <4>3, <4>4
    <3> QED BY <3>1 DEF HeldWhileOwned
  <2> QED BY <1>4, <1>5, <2>4, <2>6, <2>7 DEF IInv, Exclusive
<1>8. CASE ~(hold[m] < RT_MUTEX_HOLD_MAX)
  <2>1. UNCHANGED <<hold, held>>
    BY <1>8
  <2>2. TypeOK'
    BY <1>1, <1>2, <2>1 DEF TypeOK
  <2>3. OwnerAgrees'
    BY <1>1, <1>6, <2>1, CountsKept
  <2>4. HeldWhileOwned'
    BY <1>1, <2>1 DEF IInv, HeldWhileOwned
  <2> QED BY <1>4, <1>5, <2>2, <2>3, <2>4 DEF IInv, Exclusive
<1> QED BY <1>7, <1>8

LEMMA TakeFreeStep ==
    ASSUME IInv, NEW t \in Threads, NEW m \in Mutexes, TakeFree(t, m)
    PROVE  IInv'
<1> USE DEF TakeFree, Enters
<1>1. /\ TypeOK /\ pc[t] = "run" /\ value[m] = 1
      /\ UNCHANGED <<suspend_thread, current_priority, pc, on, timed, detached>>
  BY DEF IInv, Exclusive, TypeOK
<1>2. owner[m] = None /\ hold[m] = 0 /\ suspend_thread[m] = <<>>
  <2>1. owner[m] = None
    BY <1>1 DEF IInv, Exclusive, OwnerAgrees
  <2>2. owner[m] \notin Threads
    BY <2>1, MutexesAssumption
  <2> QED BY <2>1, <2>2 DEF IInv, Exclusive, WaitersHaveOwner, HeldWhileOwned
<1>3. \A u \in Threads : u # t => error'[u] = error[u]
  BY <1>1 DEF TypeOK
<1>4. /\ owner' = [owner EXCEPT ![m] = t]
      /\ value' = [value EXCEPT ![m] = 0]
      /\ hold' = [hold EXCEPT ![m] = 1]
      /\ held' = [held EXCEPT ![t] = Append(@, m)]
  BY <1>1, <1>2 DEF TypeOK
<1>5. TypeOK'
  <2>1. held' \in [Threads -> Seq(Mutexes)]
    BY <1>1, <1>4 DEF TypeOK
  <2>2. value' \in [Mutexes -> 0 .. 1] /\ owner' \in [Mutexes -> Threads \cup {None}]
    BY <1>1, <1>4 DEF TypeOK
  <2>3. hold' \in [Mutexes -> 0 .. RT_MUTEX_HOLD_MAX]
    BY <1>1, <1>4, HoldMaxAssumption DEF TypeOK
  <2>4. original_priority' \in [Mutexes -> 0 .. NO_PRIORITY]
    BY <1>1 DEF TypeOK
  <2>5. error' \in [Threads -> {"EOK", "ETIMEOUT", "ERROR"}]
    BY <1>1 DEF TypeOK
  <2> QED BY <1>1, <2>1, <2>2, <2>3, <2>4, <2>5 DEF TypeOK
<1>6. \A u \in Threads, n \in Mutexes : Granted(u, n)' <=> Granted(u, n)
  BY <1>1, <1>3 DEF Granted
<1>7. ASSUME NEW u \in Threads, NEW n \in Mutexes PROVE Counted(u, n)'
  <2>1. /\ Counted(u, n) /\ held[u] \in Seq(Mutexes)
        /\ Times(n, held[u]) \in Nat /\ hold[n] \in Nat
    BY HoldsAgree
  <2>2. Granted(u, n)' <=> Granted(u, n)
    BY <1>6
  <2>3. owner[m] # u
    BY <1>2, MutexesAssumption
  <2>4. CASE u = t
    <3>1. held'[u] = Append(held[u], m)
      BY <1>1, <1>4, <2>4 DEF TypeOK
    <3>2. Times(n, held'[u]) = Times(n, held[u]) + (IF m = n THEN 1 ELSE 0)
      BY <2>1, <3>1, TimesAppended
    <3>3. /\ hold'[n] = IF m = n THEN 1 ELSE hold[n]
          /\ owner'[n] = IF m = n THEN t ELSE owner[n]
      BY <1>1, <1>4 DEF TypeOK
    <3>4. CASE m = n
      BY <2>1, <2>2, <2>3, <2>4, <3>2, <3>3, <3>4 DEF Counted
    <3>5. CASE m # n
      BY <2>1, <2>2, <3>2, <3>3, <3>5 DEF Counted
    <3> QED BY <3>4, <3>5
  <2>5. CASE u # t
    <3>1. /\ held'[u] = held[u]
          /\ owner'[n] = u <=> owner[n] = u
          /\ owner[n] = u => hold'[n] = hold[n]
      BY <1>1, <1>4, <2>3, <2>5 DEF TypeOK
    <3> QED BY <2>1, <2>2, <3>1 DEF Counted
  <2> QED BY <2>4, <2>5
<1>8. OwnerAgrees'
  <2>1. ASSUME NEW n \in Mutexes PROVE value'[n] = 1 <=> owner'[n] = None
    <3>1. value[n] = 1 <=> owner[n] = None
      BY DEF IInv, Exclusive, OwnerAgrees
    <3> QED BY <1>1, <1>4, <3>1, MutexesAssumption DEF TypeOK
  <2> QED BY <1>7, <2>1 DEF OwnerAgrees, Counted
<1>9. WaitersHaveOwner'
  <2> SUFFICES ASSUME NEW n \in Mutexes
               PROVE  /\ suspend_thread'[n] # <<>> => owner'[n] \in Threads
                      /\ Elements(suspend_thread'[n])
                            = {u \in Threads : pc'[u] = "wait" /\ on'[u] = n}
                      /\ Once(suspend_thread'[n])
                      /\ owner'[n] \notin Elements(suspend_thread'[n])
    BY DEF WaitersHaveOwner
  <2>1. /\ suspend_thread[n] # <<>> => owner[n] \in Threads
        /\ Elements(suspend_thread[n]) = {u \in Threads : pc[u] = "wait" /\ on[u] = n}
        /\ Once(suspend_thread[n])
        /\ owner[n] \notin Elements(suspend_thread[n])
    BY DEF IInv, Exclusive, WaitersHaveOwner
  <2>2. owner'[n] = IF n = m THEN t ELSE owner[n]
    BY <1>1, <1>4 DEF TypeOK
  <2> QED BY <1>1, <2>1, <2>2
<1>10. HeldWhileOwned'
  <2>1. ASSUME NEW n \in Mutexes PROVE hold'[n] = 0 <=> owner'[n] = None
    <3>1. hold[n] = 0 <=> owner[n] = None
      BY DEF IInv, HeldWhileOwned
    <3> QED BY <1>1, <1>4, <3>1, MutexesAssumption DEF TypeOK
  <2> QED BY <2>1 DEF HeldWhileOwned
<1>11. WaitsWithoutError' /\ OnMutex'
  BY <1>1, <1>3 DEF IInv, WaitsWithoutError, OnMutex
<1> QED BY <1>5, <1>8, <1>9, <1>10, <1>11 DEF IInv, Exclusive

(* A refusal only sets the error of a thread that does not wait. *)
LEMMA RefusedStep ==
    ASSUME IInv, NEW t \in Threads, NEW m \in Mutexes,
           TakeBusy(t, m) \/ ReleaseRefused(t, m)
    PROVE  IInv'
<1>1. /\ TypeOK /\ pc[t] = "run"
      /\ UNCHANGED <<mutexVars, suspend_thread, current_priority, pc, on, timed, detached, held>>
      /\ error' \in [Threads -> {"EOK", "ETIMEOUT", "ERROR"}]
      /\ \A u \in Threads : u # t => error'[u] = error[u]
  BY DEF IInv, Exclusive, TypeOK, TakeBusy, ReleaseRefused
<1>2. TypeOK'
  BY <1>1 DEF TypeOK, mutexVars
<1>3. WaitersHaveOwner'
  BY <1>1, WaitersKept DEF mutexVars
<1>4. \A u \in Threads, n \in Mutexes : Granted(u, n)' <=> Granted(u, n)
  BY <1>1 DEF Granted
<1>5. OwnerAgrees'
  BY <1>1, <1>4, CountsKept DEF mutexVars
<1>6. HeldWhileOwned' /\ WaitsWithoutError' /\ OnMutex'
  BY <1>1 DEF IInv, HeldWhileOwned, WaitsWithoutError, OnMutex, mutexVars
<1> QED BY <1>2, <1>3, <1>5, <1>6 DEF IInv, Exclusive

LEMMA TakeWaitStep ==
    ASSUME IInv, NEW t \in Threads, NEW m \in Mutexes, TakeWait(t, m)
    PROVE  IInv'
<1> USE DEF TakeWait, Enters
<1>1. /\ TypeOK /\ pc[t] = "run" /\ value[m] = 0 /\ owner[m] # t
      /\ pc' = [pc EXCEPT ![t] = "wait"] /\ on' = [on EXCEPT ![t] = m]
      /\ error' = [error EXCEPT ![t] = "EOK"]
      /\ UNCHANGED <<value, owner, hold, original_priority, detached, held>>
  BY DEF IInv, Exclusive, mutexVars
<1>2. owner[m] \in Threads
  <2>1. owner[m] # None
    BY <1>1 DEF IInv, Exclusive, OwnerAgrees
  <2> QED BY <1>1, <2>1 DEF TypeOK
<1>3. PICK k \in 1 .. Len(suspend_thread[m]) + 1 :
          suspend_thread' = [suspend_thread EXCEPT ![m] = InsertedAt(@, k, t)]
  OBVIOUS
<1>4. /\ suspend_thread[m] \in Seq(Threads) /\ Once(suspend_thread[m])
      /\ t \notin Elements(suspend_thread[m])
  BY <1>1 DEF IInv, Exclusive, TypeOK, WaitersHaveOwner
<1> DEFINE list == InsertedAt(suspend_thread[m], k, t)
<1>5. /\ list \in Seq(Threads)
      /\ Elements(list) = Elements(suspend_thread[m]) \cup {t}
      /\ Once(list)
  BY <1>4, InsertedOnce
<1> HIDE DEF list
<1>6. suspend_thread' = [suspend_thread EXCEPT ![m] = list]
  BY <1>1, <1>3 DEF list
<1>7. TypeOK'
  <2>1. suspend_thread' \in [Mutexes -> Seq(Threads)]
    BY <1>1, <1>5, <1>6 DEF TypeOK
  <2>2. current_priority' \in [Threads -> 0 .. NO_PRIORITY]
    BY <1>1 DEF TypeOK, Boosted
  <2>3. /\ pc' \in [Threads -> Steps]
        /\ error' \in [Threads -> {"EOK", "ETIMEOUT", "ERROR"}]
        /\ on' \in [Threads -> Mutexes \cup {None}]
    BY <1>1 DEF TypeOK, Steps
  <2>4. timed' \subseteq Threads
    BY <1>1 DEF TypeOK
  <2> QED BY <1>1, <2>1, <2>2, <2>3, <2>4 DEF TypeOK
<1>8. /\ \A u \in Threads : u # t => error'[u] = error[u] /\ pc'[u] = pc[u] /\ on'[u] = on[u]
      /\ error'[t] = "EOK" /\ pc'[t] = "wait" /\ on'[t] = m
  BY <1>1 DEF TypeOK
<1>9. \A u \in Threads, n \in Mutexes : Granted(u, n)' <=> Granted(u, n)
  BY <1>1, <1>8 DEF Granted
<1>10. OwnerAgrees'
  BY <1>1, <1>9, CountsKept
<1>11. WaitersHaveOwner'
  <2> SUFFICES ASSUME NEW n \in Mutexes
               PROVE  /\ suspend_thread'[n] # <<>> => owner'[n] \in Threads
                      /\ Elements(suspend_thread'[n])
                            = {u \in Threads : pc'[u] = "wait" /\ on'[u] = n}
                      /\ Once(suspend_thread'[n])
                      /\ owner'[n] \notin Elements(suspend_thread'[n])
    BY DEF WaitersHaveOwner
  <2>1. /\ suspend_thread[n] # <<>> => owner[n] \in Threads
        /\ Elements(suspend_thread[n]) = {u \in Threads : pc[u] = "wait" /\ on[u] = n}
        /\ Once(suspend_thread[n])
        /\ owner[n] \notin Elements(suspend_thread[n])
    BY DEF IInv, Exclusive, WaitersHaveOwner
  <2>2. suspend_thread'[n] = IF n = m THEN list ELSE suspend_thread[n]
    BY <1>1, <1>6 DEF TypeOK
  <2>3. CASE n = m
    <3>1. {u \in Threads : pc'[u] = "wait" /\ on'[u] = n}
            = {u \in Threads : pc[u] = "wait" /\ on[u] = n} \cup {t}
      BY <1>8, <2>3
    <3> QED BY <1>1, <1>2, <1>5, <2>1, <2>2, <2>3, <3>1
  <2>4. CASE n # m
    <3>1. {u \in Threads : pc'[u] = "wait" /\ on'[u] = n}
            = {u \in Threads : pc[u] = "wait" /\ on[u] = n}
      BY <1>1, <1>8, <2>4
    <3> QED BY <1>1, <2>1, <2>2, <2>4, <3>1
  <2> QED BY <2>3, <2>4
<1>12. HeldWhileOwned' /\ WaitsWithoutError' /\ OnMutex'
  BY <1>1, <1>8 DEF IInv, HeldWhileOwned, WaitsWithoutError, OnMutex
<1> QED BY <1>7, <1>10, <1>11, <1>12 DEF IInv, Exclusive

LEMMA TakeReturnsStep ==
    ASSUME IInv, NEW t \in Threads, TakeReturns(t)
    PROVE  IInv'
<1> DEFINE m == on[t]
<1>1. /\ TypeOK /\ pc[t] = "resumed" /\ m \in Mutexes
      /\ pc' = [pc EXCEPT ![t] = "run"] /\ on' = [on EXCEPT ![t] = None]
      /\ held' = IF error[t] = "EOK" THEN [held EXCEPT ![t] = Append(@, m)] ELSE held
      /\ UNCHANGED <<value, owner, hold, original_priority, suspend_thread, current_priority,
                     error, timed, detached>>
  BY DEF IInv, Exclusive, OnMutex, TakeReturns, mutexVars
<1> HIDE DEF m
<1>2. /\ \A u \in Threads : u # t => pc'[u] = pc[u] /\ on'[u] = on[u]
      /\ pc'[t] = "run"
  BY <1>1 DEF TypeOK
<1>3. TypeOK'
  <2>1. held' \in [Threads -> Seq(Mutexes)]
    BY <1>1 DEF TypeOK
  <2>2. /\ pc' \in [Threads -> Steps]
        /\ on' \in [Threads -> Mutexes \cup {None}]
    BY <1>1 DEF TypeOK, Steps
  <2> QED BY <1>1, <2>1, <2>2 DEF TypeOK
<1>4. WaitersHaveOwner'
  BY <1>1, <1>2, WaitersKept
<1>5. ASSUME NEW u \in Threads, NEW n \in Mutexes PROVE Counted(u, n)'
  <2>1. /\ Counted(u, n) /\ held[u] \in Seq(Mutexes)
        /\ Times(n, held[u]) \in Nat /\ hold[n] \in Nat
    BY HoldsAgree
  <2>2. CASE u = t /\ error[t] = "EOK"
    <3>1. held'[u] = Append(held[u], m)
      BY <1>1, <2>2 DEF TypeOK
    <3>2. Times(n, held'[u]) = Times(n, held[u]) + (IF m = n THEN 1 ELSE 0)
      BY <1>1, <2>1, <3>1, TimesAppended
    <3>3. ~Granted(u, n)' /\ (Granted(u, n) <=> m = n)
      BY <1>1, <1>2, <2>2 DEF Granted, m
    <3> QED BY <1>1, <2>1, <3>2, <3>3 DEF Counted
  <2>3. CASE u = t /\ error[t] # "EOK"
    <3>1. ~Granted(u, n)' /\ ~Granted(u, n) /\ held' = held
      BY <1>1, <1>2, <2>3 DEF Granted
    <3> QED BY <1>1, <2>1, <3>1 DEF Counted
  <2>4. CASE u # t
    <3>1. held'[u] = held[u] /\ (Granted(u, n)' <=> Granted(u, n))
      BY <1>1, <1>2, <2>4 DEF Granted, TypeOK
    <3> QED BY <1>1, <2>1, <3>1 DEF Counted
  <2> QED BY <2>2, <2>3, <2>4
<1>6. OwnerAgrees'
  BY <1>1, <1>5 DEF IInv, Exclusive, OwnerAgrees, Counted
<1>7. HeldWhileOwned' /\ WaitsWithoutError' /\ OnMutex'
  BY <1>1, <1>2 DEF IInv, HeldWhileOwned, WaitsWithoutError, OnMutex
<1> QED BY <1>3, <1>4, <1>6, <1>7 DEF IInv, Exclusive

(* A thread leaves the list it waits in, perhaps as the new owner. *)
LEMMA LeavesList ==
    ASSUME IInv, NEW m \in Mutexes, NEW u \in Threads, pc[u] = "wait", on[u] = m,
           NEW list \in Seq(Threads), Once(list),
           Elements(list) = Elements(suspend_thread[m]) \ {u},
           suspend_thread' = [suspend_thread EXCEPT ![m] = list],
           pc'[u] = "resumed", on' = on,
           \A v \in Threads : v # u => (pc'[v] = "wait" <=> pc[v] = "wait"),
           owner' = owner \/ owner' = [owner EXCEPT ![m] = u]
    PROVE  /\ WaitersHaveOwner'
           /\ suspend_thread' \in [Mutexes -> Seq(Threads)]
<1>1. TypeOK
  BY DEF IInv, Exclusive
<1>2. /\ pc'[u] = "resumed"
      /\ \A v \in Threads : v # u => (pc'[v] = "wait" <=> pc[v] = "wait")
  OBVIOUS
<1>3. WaitersHaveOwner'
  <2> SUFFICES ASSUME NEW n \in Mutexes
               PROVE  /\ suspend_thread'[n] # <<>> => owner'[n] \in Threads
                      /\ Elements(suspend_thread'[n])
                            = {v \in Threads : pc'[v] = "wait" /\ on'[v] = n}
                      /\ Once(suspend_thread'[n])
                      /\ owner'[n] \notin Elements(suspend_thread'[n])
    BY DEF WaitersHaveOwner
  <2>1. /\ suspend_thread[n] # <<>> => owner[n] \in Threads
        /\ Elements(suspend_thread[n]) = {v \in Threads : pc[v] = "wait" /\ on[v] = n}
        /\ Once(suspend_thread[n])
        /\ owner[n] \notin Elements(suspend_thread[n])
    BY DEF IInv, Exclusive, WaitersHaveOwner
  <2>2. suspend_thread'[n] = IF n = m THEN list ELSE suspend_thread[n]
    BY <1>1 DEF TypeOK
  <2>3. owner'[n] = owner[n] \/ (n = m /\ owner'[n] = u)
    BY <1>1 DEF TypeOK
  <2>4. CASE n = m
    <3>1. {v \in Threads : pc'[v] = "wait" /\ on'[v] = n}
            = {v \in Threads : pc[v] = "wait" /\ on[v] = n} \ {u}
      BY <1>2
    <3>2. u \in Elements(suspend_thread[n])
      BY <2>1, <2>4
    <3>3. suspend_thread[n] # <<>>
      BY <3>2 DEF Elements
    <3> QED BY <2>1, <2>2, <2>3, <2>4, <3>1, <3>3
  <2>5. CASE n # m
    <3>1. {v \in Threads : pc'[v] = "wait" /\ on'[v] = n}
            = {v \in Threads : pc[v] = "wait" /\ on[v] = n}
      BY <1>2, <2>5
    <3> QED BY <2>1, <2>2, <2>3, <2>5, <3>1
  <2> QED BY <2>4, <2>5
<1>4. suspend_thread' \in [Mutexes -> Seq(Threads)]
  BY <1>1 DEF TypeOK
<1> QED BY <1>3, <1>4

(* The first thread of a list, and the list without it. *)
LEMMA FirstWaiter ==
    ASSUME IInv, NEW m \in Mutexes, suspend_thread[m] # <<>>,
           NEW u, u = Head(suspend_thread[m])
    PROVE  /\ u \in Threads /\ pc[u] = "wait" /\ on[u] = m /\ error[u] = "EOK"
           /\ owner[m] # u
           /\ Tail(suspend_thread[m]) \in Seq(Threads)
           /\ Once(Tail(suspend_thread[m]))
           /\ Elements(Tail(suspend_thread[m])) = Elements(suspend_thread[m]) \ {u}
<1>1. suspend_thread[m] \in Seq(Threads) /\ Once(suspend_thread[m])
  BY DEF IInv, Exclusive, TypeOK, WaitersHaveOwner
<1>2. /\ Tail(suspend_thread[m]) \in Seq(Threads)
      /\ u = suspend_thread[m][1]
      /\ u \in Threads /\ u \in Elements(suspend_thread[m])
      /\ Elements(Tail(suspend_thread[m])) = Elements(suspend_thread[m]) \ {u}
      /\ Once(Tail(suspend_thread[m]))
  BY <1>1, TailOnce
<1>3. pc[u] = "wait" /\ on[u] = m /\ owner[m] # u
  BY <1>2 DEF IInv, Exclusive, WaitersHaveOwner
<1>4. error[u] = "EOK"
  BY <1>2, <1>3 DEF IInv, WaitsWithoutError
<1> QED BY <1>2, <1>3, <1>4

(* A thread that leaves a list with an error was granted nothing. *)
LEMMA TimeoutStep ==
    ASSUME IInv, NEW t \in Threads, rt_thread_timeout(t)
    PROVE  IInv'
<1> DEFINE m == on[t]
<1>1. /\ TypeOK /\ pc[t] = "wait" /\ m \in Mutexes
      /\ pc' = [pc EXCEPT ![t] = "resumed"] /\ on' = on
      /\ error' = [error EXCEPT ![t] = "ETIMEOUT"]
      /\ suspend_thread' = [suspend_thread EXCEPT ![m] = Removed(@, t)]
      /\ timed' = timed \ {t}
      /\ UNCHANGED <<value, owner, hold, original_priority, current_priority, detached, held>>
  BY DEF IInv, Exclusive, OnMutex, rt_thread_timeout, mutexVars
<1> DEFINE list == Removed(suspend_thread[m], t)
<1>2. suspend_thread[m] \in Seq(Threads) /\ Once(suspend_thread[m])
  BY <1>1 DEF IInv, Exclusive, TypeOK, WaitersHaveOwner
<1>3. list \in Seq(Threads) /\ Once(list) /\ Elements(list) = Elements(suspend_thread[m]) \ {t}
  BY <1>2, RemovedOnce
<1>4. suspend_thread' = [suspend_thread EXCEPT ![m] = list] /\ on[t] = m
  BY <1>1 DEF TypeOK
<1> HIDE DEF m, list
<1>5. /\ WaitersHaveOwner'
      /\ suspend_thread' \in [Mutexes -> Seq(Threads)]
      /\ pc' \in [Threads -> Steps]
      /\ pc'[t] = "resumed" /\ \A v \in Threads : v # t => pc'[v] = pc[v]
  <2>1. /\ pc' \in [Threads -> Steps]
        /\ pc'[t] = "resumed" /\ \A v \in Threads : v # t => pc'[v] = pc[v]
    BY <1>1 DEF TypeOK, Steps
  <2>2. \A v \in Threads : v # t => (pc'[v] = "wait" <=> pc[v] = "wait")
    BY <2>1
  <2> QED BY <1>1, <1>3, <1>4, <2>1, <2>2, LeavesList
<1>6. error' \in [Threads -> {"EOK", "ETIMEOUT", "ERROR"}]
  BY <1>1 DEF TypeOK
<1>7. error'[t] = "ETIMEOUT" /\ \A v \in Threads : v # t => error'[v] = error[v]
  BY <1>1 DEF TypeOK
<1>8. TypeOK'
  BY <1>1, <1>5, <1>6 DEF TypeOK
<1>9. \A u \in Threads, n \in Mutexes : Granted(u, n)' <=> Granted(u, n)
  BY <1>1, <1>5, <1>7 DEF Granted
<1>10. OwnerAgrees'
  BY <1>1, <1>9, CountsKept
<1>11. HeldWhileOwned' /\ WaitsWithoutError' /\ OnMutex'
  BY <1>1, <1>5, <1>7 DEF IInv, HeldWhileOwned, WaitsWithoutError, OnMutex
<1> QED BY <1>5, <1>8, <1>10, <1>11 DEF IInv, Exclusive

(* What the owner that calls rt_mutex_release holds afterwards. *)
LEMMA ReleasedCount ==
    ASSUME IInv, NEW t \in Threads, NEW m \in Mutexes, Releases(t, m)
    PROVE  /\ m \in Elements(held[t])
           /\ held' \in [Threads -> Seq(Mutexes)]
           /\ held'[t] = Undone(m, held[t])
           /\ \A u \in Threads : u # t => held'[u] = held[u]
           /\ \A n \in Mutexes : Times(n, held'[t])
                  = IF n = m THEN Times(n, held[t]) - 1 ELSE Times(n, held[t])
<1>1. TypeOK /\ ~Granted(t, m) /\ owner[m] = t /\ held[t] \in Seq(Mutexes)
  BY DEF IInv, Exclusive, TypeOK, Releases, Granted
<1>2. m \in Elements(held[t])
  BY <1>1, HoldsAgree
<1>3. /\ Undone(m, held[t]) \in Seq(Mutexes)
      /\ Times(m, Undone(m, held[t])) = Times(m, held[t]) - 1
      /\ \A x : x # m => Times(x, Undone(m, held[t])) = Times(x, held[t])
  BY <1>1, <1>2, TimesUndone
<1>4. held' = [held EXCEPT ![t] = Undone(m, @)]
  BY DEF Releases
<1>5. held'[t] = Undone(m, held[t]) /\ \A u \in Threads : u # t => held'[u] = held[u]
  BY <1>1, <1>4 DEF TypeOK
<1>6. held' \in [Threads -> Seq(Mutexes)]
  BY <1>1, <1>3, <1>4 DEF TypeOK
<1> QED BY <1>2, <1>3, <1>5, <1>6

LEMMA ReleaseOnceStep ==
    ASSUME IInv, NEW t \in Threads, NEW m \in Mutexes, ReleaseOnce(t, m)
    PROVE  IInv'
<1>1. /\ TypeOK /\ Releases(t, m) /\ owner[m] = t /\ hold[m] > 1
      /\ hold' = [hold EXCEPT ![m] = @ - 1]
      /\ UNCHANGED <<value, owner, original_priority, suspend_thread, current_priority,
                     error, pc, on, timed, detached>>
  BY DEF IInv, Exclusive, ReleaseOnce, Releases
<1>2. /\ held' \in [Threads -> Seq(Mutexes)]
      /\ \A u \in Threads : u # t => held'[u] = held[u]
      /\ \A n \in Mutexes : Times(n, held'[t])
             = IF n = m THEN Times(n, held[t]) - 1 ELSE Times(n, held[t])
  BY <1>1, ReleasedCount
<1>3. hold' \in [Mutexes -> 0 .. RT_MUTEX_HOLD_MAX]
  BY <1>1, HoldMaxAssumption DEF TypeOK
<1>4. TypeOK'
  BY <1>1, <1>2, <1>3 DEF TypeOK
<1>5. WaitersHaveOwner'
  BY <1>1, WaitersKept
<1>6. ASSUME NEW u \in Threads, NEW n \in Mutexes PROVE Counted(u, n)'
  <2>1. /\ Counted(u, n) /\ Times(n, held[u]) \in Nat /\ hold[n] \in Nat
    BY HoldsAgree
  <2>2. Granted(u, n)' <=> Granted(u, n)
    BY <1>1 DEF Granted
  <2>3. hold'[n] = IF m = n THEN hold[n] - 1 ELSE hold[n]
    BY <1>1 DEF TypeOK
  <2>4. CASE u = t
    BY <1>1, <1>2, <2>1, <2>2, <2>3, <2>4 DEF Counted
  <2>5. CASE u # t
    <3>1. held'[u] = held[u] /\ (owner[n] = u => hold'[n] = hold[n])
      BY <1>1, <1>2, <2>3, <2>5
    <3> QED BY <1>1, <2>1, <2>2, <3>1 DEF Counted
  <2> QED BY <2>4, <2>5
<1>7. OwnerAgrees'
  BY <1>1, <1>6 DEF IInv, Exclusive, OwnerAgrees, Counted
<1>8. HeldWhileOwned'
  <2>1. ASSUME NEW n \in Mutexes PROVE hold'[n] = 0 <=> owner'[n] = None
    <3>1. (hold[n] = 0 <=> owner[n] = None) /\ hold[n] \in Nat
      BY HoldsAgree DEF IInv, HeldWhileOwned
    <3>2. hold'[n] = IF m = n THEN hold[n] - 1 ELSE hold[n]
      BY <1>1 DEF TypeOK
    <3> QED BY <1>1, <3>1, <3>2, MutexesAssumption
  <2> QED BY <2>1 DEF HeldWhileOwned
<1>9. WaitsWithoutError' /\ OnMutex'
  BY <1>1 DEF IInv, WaitsWithoutError, OnMutex
<1> QED BY <1>4, <1>5, <1>7, <1>8, <1>9 DEF IInv, Exclusive

(* The new owner holds the mutex as the old one did, once. *)
LEMMA HandOverStep ==
    ASSUME IInv, NEW t \in Threads, NEW m \in Mutexes, HandOver(t, m)
    PROVE  IInv'
<1> DEFINE u == Head(suspend_thread[m])
<1>1. /\ TypeOK /\ Releases(t, m) /\ owner[m] = t /\ hold[m] = 1
      /\ pc[t] = "run" /\ suspend_thread[m] # <<>>
      /\ current_priority' = Restored(t, m)
      /\ owner' = [owner EXCEPT ![m] = u]
      /\ original_priority' = [original_priority EXCEPT ![m] = current_priority'[u]]
      /\ suspend_thread' = [suspend_thread EXCEPT ![m] = Tail(@)]
      /\ pc' = [pc EXCEPT ![u] = "resumed"]
      /\ timed' = timed \ {u}
      /\ UNCHANGED <<value, hold, error, on, detached>>
  BY DEF IInv, Exclusive, HandOver, Releases
<1> DEFINE list == Tail(suspend_thread[m])
<1>2. /\ u \in Threads /\ pc[u] = "wait" /\ on[u] = m /\ error[u] = "EOK"
      /\ owner[m] # u
      /\ list \in Seq(Threads) /\ Once(list)
      /\ Elements(list) = Elements(suspend_thread[m]) \ {u}
  <2>1. suspend_thread[m] # <<>>
    BY <1>1
  <2> QED BY <2>1, FirstWaiter
<1>3. suspend_thread' = [suspend_thread EXCEPT ![m] = list]
  BY <1>1 DEF TypeOK
<1> HIDE DEF u, list
<1>4. /\ WaitersHaveOwner'
      /\ suspend_thread' \in [Mutexes -> Seq(Threads)]
      /\ pc' \in [Threads -> Steps]
      /\ pc'[u] = "resumed" /\ \A v \in Threads : v # u => pc'[v] = pc[v]
  <2>1. /\ pc' \in [Threads -> Steps]
        /\ pc'[u] = "resumed" /\ \A v \in Threads : v # u => pc'[v] = pc[v]
    BY <1>1, <1>2 DEF TypeOK, Steps
  <2>2. \A v \in Threads : v # u => (pc'[v] = "wait" <=> pc[v] = "wait")
    BY <2>1
  <2>3. on' = on /\ owner' = [owner EXCEPT ![m] = u]
    BY <1>1
  <2>4. /\ WaitersHaveOwner'
        /\ suspend_thread' \in [Mutexes -> Seq(Threads)]
    BY <1>2, <1>3, <2>1, <2>2, <2>3, LeavesList
  <2> QED BY <2>1, <2>4
<1>5. /\ held' \in [Threads -> Seq(Mutexes)]
      /\ \A v \in Threads : v # t => held'[v] = held[v]
      /\ \A n \in Mutexes : Times(n, held'[t])
             = IF n = m THEN Times(n, held[t]) - 1 ELSE Times(n, held[t])
  BY <1>1, ReleasedCount
<1>6. TypeOK'
  <2>1. current_priority' \in [Threads -> 0 .. NO_PRIORITY]
    BY <1>1 DEF TypeOK, Restored
  <2>2. original_priority' \in [Mutexes -> 0 .. NO_PRIORITY]
    BY <1>1, <1>2, <2>1 DEF TypeOK
  <2>3. owner' \in [Mutexes -> Threads \cup {None}]
    BY <1>1, <1>2 DEF TypeOK
  <2> QED BY <1>1, <1>4, <1>5, <2>1, <2>2, <2>3 DEF TypeOK
<1>7. ASSUME NEW n \in Mutexes PROVE owner'[n] = IF n = m THEN u ELSE owner[n]
  BY <1>1 DEF TypeOK
<1>8. ASSUME NEW v \in Threads, NEW n \in Mutexes PROVE Counted(v, n)'
  <2>1. /\ Counted(v, n) /\ Times(n, held[v]) \in Nat /\ hold[n] \in Nat
    BY HoldsAgree
  <2>2. CASE v = t
    <3>1. ~Granted(v, n) /\ ~Granted(v, n)'
      BY <1>1, <1>2, <1>4, <2>2 DEF Granted
    <3>2. v # u
      BY <1>1, <1>2, <2>2
    <3> QED BY <1>1, <1>5, <1>7, <2>1, <2>2, <3>1, <3>2 DEF Counted
  <2>3. CASE v = u
    <3>1. ~Granted(v, n) /\ (Granted(v, n)' <=> n = m)
      BY <1>1, <1>2, <1>4, <2>3 DEF Granted
    <3>2. held'[v] = held[v] /\ owner[m] # v
      BY <1>1, <1>2, <1>5, <2>3
    <3>3. CASE n = m
      BY <1>1, <1>7, <2>1, <2>3, <3>1, <3>2, <3>3 DEF Counted
    <3>4. CASE n # m
      BY <1>1, <1>7, <2>1, <3>1, <3>2, <3>4 DEF Counted
    <3> QED BY <3>3, <3>4
  <2>4. CASE v # t /\ v # u
    <3>1. Granted(v, n)' <=> Granted(v, n)
      BY <1>1, <1>4, <2>4 DEF Granted
    <3>2. held'[v] = held[v] /\ (owner'[n] = v <=> owner[n] = v)
      BY <1>1, <1>5, <1>7, <2>4
    <3> QED BY <1>1, <2>1, <3>1, <3>2 DEF Counted
  <2> QED BY <2>2, <2>3, <2>4
<1>9. u # None /\ t # None
  BY <1>2, MutexesAssumption
<1>10. OwnerAgrees'
  <2>1. ASSUME NEW n \in Mutexes PROVE value'[n] = 1 <=> owner'[n] = None
    <3>1. value[n] = 1 <=> owner[n] = None
      BY DEF IInv, Exclusive, OwnerAgrees
    <3> QED BY <1>1, <1>7, <1>9, <3>1
  <2> QED BY <1>8, <2>1 DEF OwnerAgrees, Counted
<1>11. HeldWhileOwned'
  <2>1. ASSUME NEW n \in Mutexes PROVE hold'[n] = 0 <=> owner'[n] = None
    <3>1. hold[n] = 0 <=> owner[n] = None
      BY DEF IInv, HeldWhileOwned
    <3> QED BY <1>1, <1>7, <1>9, <3>1
  <2> QED BY <2>1 DEF HeldWhileOwned
<1>12. WaitsWithoutError' /\ OnMutex'
  BY <1>1, <1>2, <1>4 DEF IInv, WaitsWithoutError, OnMutex
<1> QED BY <1>4, <1>6, <1>10, <1>11, <1>12 DEF IInv, Exclusive

LEMMA SetFreeStep ==
    ASSUME IInv, NEW t \in Threads, NEW m \in Mutexes, SetFree(t, m)
    PROVE  IInv'
<1>1. /\ TypeOK /\ Releases(t, m) /\ owner[m] = t /\ hold[m] = 1
      /\ pc[t] = "run" /\ suspend_thread[m] = <<>>
      /\ current_priority' = Restored(t, m)
      /\ value' = [value EXCEPT ![m] = @ + 1]
      /\ owner' = [owner EXCEPT ![m] = None]
      /\ original_priority' = [original_priority EXCEPT ![m] = NO_PRIORITY]
      /\ hold' = [hold EXCEPT ![m] = 0]
      /\ UNCHANGED <<suspend_thread, error, pc, on, timed, detached>>
  BY DEF IInv, Exclusive, SetFree, Releases
<1>2. value[m] = 0
  <2>1. value[m] = 1 <=> owner[m] = None
    BY DEF IInv, Exclusive, OwnerAgrees
  <2>2. owner[m] # None
    BY <1>1, MutexesAssumption
  <2> QED BY <1>1, <2>1, <2>2 DEF TypeOK
<1>3. /\ held' \in [Threads -> Seq(Mutexes)]
      /\ \A v \in Threads : v # t => held'[v] = held[v]
      /\ \A n \in Mutexes : Times(n, held'[t])
             = IF n = m THEN Times(n, held[t]) - 1 ELSE Times(n, held[t])
  BY <1>1, ReleasedCount
<1>4. /\ \A n \in Mutexes : owner'[n] = IF n = m THEN None ELSE owner[n]
      /\ \A n \in Mutexes : value'[n] = IF n = m THEN 1 ELSE value[n]
      /\ \A n \in Mutexes : hold'[n] = IF n = m THEN 0 ELSE hold[n]
  BY <1>1, <1>2 DEF TypeOK
<1>5. TypeOK'
  <2>1. current_priority' \in [Threads -> 0 .. NO_PRIORITY]
    BY <1>1 DEF TypeOK, Restored
  <2>2. original_priority' \in [Mutexes -> 0 .. NO_PRIORITY]
    BY <1>1 DEF TypeOK, NO_PRIORITY
  <2>3. owner' \in [Mutexes -> Threads \cup {None}] /\ value' \in [Mutexes -> 0 .. 1]
    BY <1>1, <1>2 DEF TypeOK
  <2>4. hold' \in [Mutexes -> 0 .. RT_MUTEX_HOLD_MAX]
    BY <1>1, HoldMaxAssumption DEF TypeOK
  <2> QED BY <1>1, <1>3, <2>1, <2>2, <2>3, <2>4 DEF TypeOK
<1>6. ASSUME NEW v \in Threads, NEW n \in Mutexes PROVE Counted(v, n)'
  <2>1. /\ Counted(v, n) /\ Times(n, held[v]) \in Nat /\ hold[n] \in Nat
    BY HoldsAgree
  <2>2. v # None /\ (Granted(v, n)' <=> Granted(v, n))
    BY <1>1, MutexesAssumption DEF Granted
  <2>3. CASE v = t
    <3>1. ~Granted(v, n)
      BY <1>1, <2>3 DEF Granted
    <3> QED BY <1>1, <1>3, <1>4, <2>1, <2>2, <2>3, <3>1 DEF Counted
  <2>4. CASE v # t
    <3>1. /\ held'[v] = held[v] /\ (owner'[n] = v <=> owner[n] = v)
          /\ owner[n] = v => hold'[n] = hold[n]
      BY <1>1, <1>3, <1>4, <2>2, <2>4
    <3> QED BY <2>1, <2>2, <3>1 DEF Counted
  <2> QED BY <2>3, <2>4
<1>7. OwnerAgrees'
  <2>1. ASSUME NEW n \in Mutexes PROVE value'[n] = 1 <=> owner'[n] = None
    BY <1>4 DEF IInv, Exclusive, OwnerAgrees
  <2> QED BY <1>6, <2>1 DEF OwnerAgrees, Counted
<1>8. HeldWhileOwned'
  BY <1>4 DEF IInv, HeldWhileOwned
<1>9. WaitersHaveOwner'
  <2>1. Elements(<<>>) = {}
    BY DEF Elements
  <2> QED BY <1>1, <1>4, <2>1 DEF IInv, Exclusive, WaitersHaveOwner
<1>10. WaitsWithoutError' /\ OnMutex'
  BY <1>1 DEF IInv, WaitsWithoutError, OnMutex
<1> QED BY <1>5, <1>7, <1>8, <1>9, <1>10 DEF IInv, Exclusive

(* rt_ipc_list_resume_all wakes a thread with the error -RT_ERROR. *)
LEMMA DetachResumesStep ==
    ASSUME IInv, NEW t \in Threads, DetachResumes(t)
    PROVE  IInv'
<1> DEFINE m == on[t]
           u == Head(suspend_thread[m])
           list == Tail(suspend_thread[m])
<1>1. /\ TypeOK /\ pc[t] = "resume" /\ m \in Mutexes /\ suspend_thread[m] # <<>>
      /\ error' = [error EXCEPT ![u] = "ERROR"]
      /\ pc' = [pc EXCEPT ![u] = "resumed", ![t] = "look"]
      /\ timed' = timed \ {u}
      /\ suspend_thread' = [suspend_thread EXCEPT ![m] = Tail(@)]
      /\ UNCHANGED <<value, owner, hold, original_priority, current_priority, on, detached, held>>
  BY DEF IInv, Exclusive, OnMutex, DetachResumes, mutexVars
<1> HIDE DEF m
<1>2. /\ u \in Threads /\ pc[u] = "wait" /\ on[u] = m /\ error[u] = "EOK"
      /\ owner[m] # u
      /\ list \in Seq(Threads) /\ Once(list)
      /\ Elements(list) = Elements(suspend_thread[m]) \ {u}
  <2>1. m \in Mutexes /\ suspend_thread[m] # <<>>
    BY <1>1
  <2> QED BY <2>1, FirstWaiter
<1>3. suspend_thread' = [suspend_thread EXCEPT ![m] = list]
  BY <1>1 DEF TypeOK
<1> HIDE DEF u, list
<1>4. /\ WaitersHaveOwner'
      /\ suspend_thread' \in [Mutexes -> Seq(Threads)]
      /\ pc' \in [Threads -> Steps]
      /\ pc'[u] = "resumed" /\ pc'[t] = "look" /\ u # t
      /\ \A v \in Threads : v \notin {t, u} => pc'[v] = pc[v]
  <2>1. u # t
    BY <1>1, <1>2
  <2>2. /\ pc' \in [Threads -> Steps]
        /\ pc'[u] = "resumed" /\ pc'[t] = "look"
        /\ \A v \in Threads : v \notin {t, u} => pc'[v] = pc[v]
    BY <1>1, <1>2, <2>1 DEF TypeOK, Steps, Detaching
  <2>3. \A v \in Threads : v # u => (pc'[v] = "wait" <=> pc[v] = "wait")
    BY <1>1, <2>2
  <2> QED BY <1>1, <1>2, <1>3, <2>1, <2>2, <2>3, LeavesList
<1>5. error' \in [Threads -> {"EOK", "ETIMEOUT", "ERROR"}]
  BY <1>1 DEF TypeOK
<1>6. error'[u] = "ERROR" /\ \A v \in Threads : v # u => error'[v] = error[v]
  BY <1>1, <1>2 DEF TypeOK
<1>7. TypeOK'
  BY <1>1, <1>4, <1>5 DEF TypeOK
<1>8. \A v \in Threads, n \in Mutexes : Granted(v, n)' <=> Granted(v, n)
  BY <1>1, <1>2, <1>4, <1>6 DEF Granted
<1>9. OwnerAgrees'
  BY <1>1, <1>8, CountsKept
<1>10. HeldWhileOwned' /\ WaitsWithoutError' /\ OnMutex'
  BY <1>1, <1>2, <1>4, <1>6 DEF IInv, HeldWhileOwned, WaitsWithoutError, OnMutex
<1> QED BY <1>4, <1>7, <1>9, <1>10 DEF IInv, Exclusive

(* The other steps of rt_mutex_detach change no mutex and no list. *)
LEMMA DetachStep ==
    ASSUME IInv, NEW t \in Threads,
           \/ \E m \in Mutexes : rt_mutex_detach(t, m)
           \/ DetachLooks(t) \/ DetachFindsNone(t) \/ DetachObject(t)
    PROVE  IInv'
<1>1. /\ TypeOK /\ pc[t] \in {"run", "look", "resume", "object"}
      /\ UNCHANGED <<value, owner, hold, original_priority, suspend_thread, current_priority,
                     error, timed, held>>
  BY DEF IInv, Exclusive, rt_mutex_detach, DetachLooks, DetachFindsNone, DetachObject,
         mutexVars
<1>2. /\ pc' \in [Threads -> Steps]
      /\ on' \in [Threads -> Mutexes \cup {None}]
  BY <1>1 DEF TypeOK, Steps, Detaching, rt_mutex_detach, DetachLooks, DetachFindsNone,
              DetachObject
<1>3. /\ \A u \in Threads : u # t => pc'[u] = pc[u] /\ on'[u] = on[u]
      /\ pc'[t] \in {"run", "look", "resume", "object", "halted"}
      /\ pc'[t] # "run" => on'[t] \in Mutexes
  BY <1>1 DEF TypeOK, IInv, OnMutex, rt_mutex_detach, DetachLooks, DetachFindsNone, DetachObject
<1>4. detached' \subseteq Mutexes
  BY <1>1 DEF IInv, OnMutex, TypeOK, rt_mutex_detach, DetachLooks, DetachFindsNone, DetachObject
<1>5. TypeOK'
  BY <1>1, <1>2, <1>4 DEF TypeOK
<1>6. WaitersHaveOwner'
  BY <1>1, <1>3, WaitersKept
<1>7. \A v \in Threads, n \in Mutexes : Granted(v, n)' <=> Granted(v, n)
  BY <1>1, <1>3 DEF Granted
<1>8. OwnerAgrees'
  BY <1>1, <1>7, CountsKept
<1>9. HeldWhileOwned' /\ WaitsWithoutError' /\ OnMutex'
  BY <1>1, <1>3 DEF IInv, HeldWhileOwned, WaitsWithoutError, OnMutex
<1> QED BY <1>5, <1>6, <1>8, <1>9 DEF IInv, Exclusive

LEMMA IInvKept == IInv /\ [Next]_vars => IInv'
<1> SUFFICES ASSUME IInv, [Next]_vars PROVE IInv'
  OBVIOUS
<1>1. CASE UNCHANGED vars
  BY <1>1 DEF vars, IInv, Exclusive, TypeOK, OwnerAgrees, Granted, WaitersHaveOwner,
              HeldWhileOwned, WaitsWithoutError, OnMutex
<1>2. ASSUME NEW t \in Threads, NEW m \in Mutexes,
             rt_mutex_take(t, m) \/ rt_mutex_release(t, m)
      PROVE  IInv'
  BY <1>2, TakeAgainStep, TakeFreeStep, RefusedStep, TakeWaitStep, ReleaseOnceStep,
     HandOverStep, SetFreeStep DEF rt_mutex_take, rt_mutex_release, LastRelease
<1>3. ASSUME NEW t \in Threads,
             \/ TakeReturns(t) \/ rt_thread_timeout(t) \/ DetachResumes(t)
             \/ DetachLooks(t) \/ DetachFindsNone(t) \/ DetachObject(t)
             \/ \E m \in Mutexes : rt_mutex_detach(t, m)
      PROVE  IInv'
  BY <1>3, TakeReturnsStep, TimeoutStep, DetachResumesStep, DetachStep
<1> QED BY <1>1, <1>2, <1>3 DEF Next

(* Whatever timeout, release, take and detach come together, what the threads *)
(* believe agrees with the mutex: at most the owner is inside, hold counts    *)
(* its takes, and who waits stands in the list of a mutex that another owns   *)
(* (rt_mutex_take, rt_mutex_release, rt_thread_timeout, rt_mutex_detach).     *)
THEOREM OwnerIsAlone == Spec => []Exclusive
<1>1. IInv => Exclusive
  BY DEF IInv
<1> QED BY <1>1, InitIInv, IInvKept, PTL DEF Spec

-----------------------------------------------------------------------------
(* Priorities are given back when the mutex taken last is released first.    *)

(* A thread holds mutexes in the order in which it takes them, *)
HeldUpwards ==
    \A t \in Threads : \A i, j \in 1 .. Len(held[t]) : i <= j => held[t][i] <= held[t][j]

(* and asks for one that is not below any of them. *)
AsksUpwards ==
    \A t \in Threads : pc[t] \in {"wait", "resumed"} =>
        \A i \in 1 .. Len(held[t]) : held[t][i] <= on[t]

(* m is the first mutex that t took of those it owns. *)
IsFirst(t, m) == owner[m] = t /\ \A n \in Mutexes : owner[n] = t => m <= n

(* So it remembers the priority the thread had before it inherited any. *)
FirstKeepsPriority ==
    \A t \in Threads, m \in Mutexes : IsFirst(t, m) => original_priority[m] = Priority[t]

PInv == PriorityRestored /\ HeldUpwards /\ AsksUpwards /\ FirstKeepsPriority

LEMMA InitPInv == Init => PInv
<1> SUFFICES ASSUME Init PROVE PInv
  OBVIOUS
<1>1. \A t \in Threads : held[t] = <<>> /\ pc[t] = "run" /\ current_priority[t] = Priority[t]
  BY DEF Init
<1>2. \A t \in Threads, m \in Mutexes : owner[m] # t
  BY MutexesAssumption DEF Init
<1>3. HeldUpwards /\ AsksUpwards
  BY <1>1 DEF HeldUpwards, AsksUpwards
<1>4. PriorityRestored /\ FirstKeepsPriority
  BY <1>1, <1>2 DEF PriorityRestored, FirstKeepsPriority, IsFirst
<1> QED BY <1>3, <1>4 DEF PInv

(* What a thread owns and is not about to get is at most what it asks for,   *)
(* and at most what it took last.                                           *)
LEMMA OwnedBelow ==
    ASSUME IInv, PInv, NEW t \in Threads, NEW n \in Mutexes, owner[n] = t
    PROVE  /\ pc[t] = "wait" => n <= on[t]
           /\ pc[t] = "run" => \E i \in 1 .. Len(held[t]) : held[t][i] = n
           /\ pc[t] = "run" => n <= held[t][Len(held[t])]
<1>1. pc[t] \in {"wait", "run"} => ~Granted(t, n)
  BY DEF Granted
<1>2. pc[t] \in {"wait", "run"} => n \in Elements(held[t])
  BY <1>1, HoldsAgree
<1>3. pc[t] \in {"wait", "run"} => \E i \in 1 .. Len(held[t]) : held[t][i] = n
  BY <1>2 DEF Elements
<1>4. held[t] \in Seq(Mutexes)
  BY HoldsAgree
<1>5. Len(held[t]) \in Nat
  BY <1>4
<1>6. pc[t] = "wait" => n <= on[t]
  BY <1>3 DEF PInv, AsksUpwards
<1>7. pc[t] = "run" => n <= held[t][Len(held[t])]
  <2> SUFFICES ASSUME pc[t] = "run" PROVE n <= held[t][Len(held[t])]
    OBVIOUS
  <2>1. PICK i \in 1 .. Len(held[t]) : held[t][i] = n
    BY <1>3
  <2>2. Len(held[t]) \in 1 .. Len(held[t]) /\ i <= Len(held[t])
    BY <1>5
  <2>3. held[t][i] <= held[t][Len(held[t])]
    BY <2>2 DEF PInv, HeldUpwards
  <2> QED BY <2>1, <2>3
<1> QED BY <1>3, <1>6, <1>7

(* A take at the end of a list keeps it in order. *)
LEMMA AppendUpwards ==
    ASSUME NEW list \in Seq(Mutexes), NEW m \in Mutexes,
           \A i, j \in 1 .. Len(list) : i <= j => list[i] <= list[j],
           \A i \in 1 .. Len(list) : list[i] <= m
    PROVE  \A i, j \in 1 .. Len(Append(list, m)) :
              i <= j => Append(list, m)[i] <= Append(list, m)[j]
<1> DEFINE new == Append(list, m)
<1>1. /\ Len(list) \in Nat /\ Len(new) = Len(list) + 1 /\ new[Len(list) + 1] = m
      /\ \A i \in 1 .. Len(list) : new[i] = list[i]
  OBVIOUS
<1>2. m <= m
  BY MutexesAssumption
<1> HIDE DEF new
<1> SUFFICES ASSUME NEW i \in 1 .. Len(new), NEW j \in 1 .. Len(new), i <= j
             PROVE  new[i] <= new[j]
  BY DEF new
<1>3. CASE j = Len(list) + 1 /\ i = j
  BY <1>1, <1>2, <1>3
<1>4. CASE j = Len(list) + 1 /\ i # j
  <2>1. i \in 1 .. Len(list)
    BY <1>1, <1>4
  <2> QED BY <1>1, <1>4, <2>1
<1>5. CASE j # Len(list) + 1
  <2>1. i \in 1 .. Len(list) /\ j \in 1 .. Len(list)
    BY <1>1, <1>5
  <2> QED BY <1>1, <2>1
<1> QED BY <1>3, <1>4, <1>5

(* The priorities are right as long as neither owners nor priorities change, *)
(* but for the priority of an owner.                                        *)
LEMMA PrioritiesKept ==
    ASSUME IInv, PInv, UNCHANGED <<owner, original_priority>>,
           \A t \in Threads : (\A m \in Mutexes : owner[m] # t)
                               => current_priority'[t] = current_priority[t]
    PROVE  PriorityRestored' /\ FirstKeepsPriority'
<1>1. PriorityRestored'
  BY DEF PInv, PriorityRestored
<1>2. FirstKeepsPriority'
  BY DEF PInv, FirstKeepsPriority, IsFirst
<1> QED BY <1>1, <1>2

LEMMA TakePriorities ==
    ASSUME IInv, PInv, NEW t \in Threads, NEW m \in Mutexes, rt_mutex_take(t, m)
    PROVE  PInv'
<1>1. TypeOK /\ pc[t] = "run" /\ held[t] \in Seq(Mutexes)
  BY DEF IInv, Exclusive, TypeOK, rt_mutex_take, TakeAgain, TakeFree, TakeBusy, TakeWait, Enters
<1>2. ASSUME Enters(t, m), held' = [held EXCEPT ![t] = Append(@, m)], UNCHANGED <<pc, on>>
      PROVE  HeldUpwards' /\ AsksUpwards'
  <2>1. /\ \A u \in Threads : u # t => held'[u] = held[u]
        /\ held'[t] = Append(held[t], m)
    BY <1>1, <1>2 DEF TypeOK
  <2>2. \A i, j \in 1 .. Len(held'[t]) : i <= j => held'[t][i] <= held'[t][j]
    BY <1>1, <1>2, <2>1, AppendUpwards DEF PInv, HeldUpwards, Enters
  <2>3. HeldUpwards'
    BY <2>1, <2>2 DEF PInv, HeldUpwards
  <2>4. AsksUpwards'
    BY <1>1, <1>2, <2>1 DEF PInv, AsksUpwards
  <2> QED BY <2>3, <2>4
<1>3. CASE TakeAgain(t, m)
  <2>1. PriorityRestored' /\ FirstKeepsPriority'
    BY <1>3, PrioritiesKept DEF TakeAgain
  <2>2. CASE hold[m] < RT_MUTEX_HOLD_MAX
    BY <1>2, <1>3, <2>1, <2>2 DEF TakeAgain, PInv
  <2>3. CASE ~(hold[m] < RT_MUTEX_HOLD_MAX)
    BY <1>3, <2>1, <2>3 DEF TakeAgain, PInv, HeldUpwards, AsksUpwards
  <2> QED BY <2>2, <2>3
<1>4. CASE TakeFree(t, m)
  <2>1. HeldUpwards' /\ AsksUpwards'
    BY <1>2, <1>4 DEF TakeFree
  <2>2. /\ \A n \in Mutexes : owner'[n] = IF n = m THEN t ELSE owner[n]
        /\ \A n \in Mutexes : original_priority'[n]
               = IF n = m THEN current_priority[t] ELSE original_priority[n]
        /\ current_priority' = current_priority /\ owner[m] # t
        /\ \A i \in 1 .. Len(held[t]) : held[t][i] <= m
    BY <1>1, <1>4 DEF TakeFree, Enters, TypeOK
  <2>3. owner[m] = None
    BY <1>4 DEF TakeFree, IInv, Exclusive, OwnerAgrees, TypeOK
  <2>4. PriorityRestored'
    <3> SUFFICES ASSUME NEW u \in Threads, \A n \in Mutexes : owner'[n] # u
                 PROVE  current_priority'[u] = Priority[u]
      BY DEF PriorityRestored
    <3>1. \A n \in Mutexes : owner[n] # u
      BY <2>2, <2>3, MutexesAssumption
    <3> QED BY <2>2, <3>1 DEF PInv, PriorityRestored
  <2>5. FirstKeepsPriority'
    <3> SUFFICES ASSUME NEW u \in Threads, NEW n \in Mutexes, IsFirst(u, n)'
                 PROVE  original_priority'[n] = Priority[u]
      BY DEF FirstKeepsPriority
    <3>1. owner'[n] = u /\ \A k \in Mutexes : owner'[k] = u => n <= k
      BY DEF IsFirst
    <3>2. CASE n = m
      <4>1. u = t
        BY <2>2, <3>1, <3>2
      <4>2. ASSUME NEW k \in Mutexes, owner[k] = t PROVE FALSE
        <5>1. \E i \in 1 .. Len(held[t]) : held[t][i] = k
          BY <1>1, <4>2, OwnedBelow
        <5>2. k <= m
          BY <2>2, <5>1
        <5>3. k # m /\ m <= k
          BY <2>2, <3>1, <3>2, <4>1, <4>2
        <5> QED BY <5>2, <5>3, MutexesAssumption
      <4>3. current_priority[t] = Priority[t]
        BY <4>2 DEF PInv, PriorityRestored
      <4> QED BY <2>2, <3>2, <4>1, <4>3
    <3>3. CASE n # m
      <4>1. IsFirst(u, n)
        <5>1. owner[n] = u
          BY <2>2, <3>1, <3>3
        <5>2. ASSUME NEW k \in Mutexes, owner[k] = u PROVE n <= k
          <6>1. k # m
            BY <2>3, <5>2, MutexesAssumption
          <6> QED BY <2>2, <3>1, <5>2, <6>1
        <5> QED BY <5>1, <5>2 DEF IsFirst
      <4> QED BY <2>2, <3>3, <4>1 DEF PInv, FirstKeepsPriority
    <3> QED BY <3>2, <3>3
  <2> QED BY <2>1, <2>4, <2>5 DEF PInv
<1>5. CASE TakeBusy(t, m)
  <2>1. PriorityRestored' /\ FirstKeepsPriority'
    BY <1>5, PrioritiesKept DEF TakeBusy, mutexVars
  <2> QED BY <1>5, <2>1 DEF TakeBusy, PInv, HeldUpwards, AsksUpwards
<1>6. CASE TakeWait(t, m)
  <2>1. UNCHANGED <<owner, original_priority, held>>
    BY <1>6 DEF TakeWait, mutexVars
  <2>2. owner[m] \in Threads \cup {None}
    BY <1>1 DEF TypeOK
  <2>3. ASSUME NEW u \in Threads, \A n \in Mutexes : owner[n] # u
        PROVE  current_priority'[u] = current_priority[u]
    BY <1>1, <1>6, <2>2, <2>3 DEF TakeWait, Boosted, TypeOK
  <2>4. PriorityRestored' /\ FirstKeepsPriority'
    BY <2>1, <2>3, PrioritiesKept
  <2>5. /\ \A u \in Threads : u # t => pc'[u] = pc[u] /\ on'[u] = on[u]
        /\ on'[t] = m /\ \A i \in 1 .. Len(held[t]) : held[t][i] <= m
    BY <1>1, <1>6 DEF TakeWait, Enters, TypeOK
  <2>6. HeldUpwards'
    BY <2>1 DEF PInv, HeldUpwards
  <2>7. AsksUpwards'
    BY <2>1, <2>5 DEF PInv, AsksUpwards
  <2> QED BY <2>4, <2>6, <2>7 DEF PInv
<1> QED BY <1>3, <1>4, <1>5, <1>6 DEF rt_mutex_take

LEMMA TakeReturnsPriorities ==
    ASSUME IInv, PInv, NEW t \in Threads, TakeReturns(t)
    PROVE  PInv'
<1>1. /\ TypeOK /\ pc[t] = "resumed" /\ on[t] \in Mutexes /\ held[t] \in Seq(Mutexes)
      /\ UNCHANGED <<owner, original_priority, current_priority>>
  BY DEF IInv, Exclusive, OnMutex, TakeReturns, mutexVars, TypeOK
<1>2. PriorityRestored' /\ FirstKeepsPriority'
  BY <1>1, PrioritiesKept
<1>3. /\ \A u \in Threads : u # t => pc'[u] = pc[u] /\ on'[u] = on[u] /\ held'[u] = held[u]
      /\ pc'[t] = "run"
      /\ held'[t] = held[t] \/ held'[t] = Append(held[t], on[t])
  BY <1>1 DEF TypeOK, TakeReturns
<1>4. \A i, j \in 1 .. Len(held'[t]) : i <= j => held'[t][i] <= held'[t][j]
  <2>1. /\ \A i, j \in 1 .. Len(held[t]) : i <= j => held[t][i] <= held[t][j]
        /\ \A i \in 1 .. Len(held[t]) : held[t][i] <= on[t]
    BY <1>1 DEF PInv, HeldUpwards, AsksUpwards
  <2>2. CASE held'[t] = held[t]
    BY <2>1, <2>2
  <2>3. CASE held'[t] = Append(held[t], on[t])
    BY <1>1, <2>1, <2>3, AppendUpwards
  <2> QED BY <1>3, <2>2, <2>3
<1>5. HeldUpwards'
  BY <1>3, <1>4 DEF PInv, HeldUpwards
<1>6. AsksUpwards'
  BY <1>3 DEF PInv, AsksUpwards
<1> QED BY <1>2, <1>5, <1>6 DEF PInv

(* A thread that is resumed with an error keeps what it lent to the owner. *)
LEMMA OtherPriorities ==
    ASSUME IInv, PInv, NEW t \in Threads,
           \/ \E m \in Mutexes : ReleaseRefused(t, m) \/ rt_mutex_detach(t, m)
           \/ rt_thread_timeout(t)
           \/ DetachLooks(t) \/ DetachResumes(t) \/ DetachFindsNone(t) \/ DetachObject(t)
    PROVE  PInv'
<1>1. TypeOK /\ UNCHANGED <<owner, original_priority, current_priority, held>>
  BY DEF IInv, Exclusive, ReleaseRefused, rt_mutex_detach, rt_thread_timeout, DetachResumes,
         DetachLooks, DetachFindsNone, DetachObject, mutexVars
<1>2. PriorityRestored' /\ FirstKeepsPriority'
  BY <1>1, PrioritiesKept
<1>3. HeldUpwards'
  BY <1>1 DEF PInv, HeldUpwards
<1>4. ASSUME NEW u \in Threads, pc'[u] \in {"wait", "resumed"}
      PROVE  pc[u] \in {"wait", "resumed"} /\ on'[u] = on[u]
  <2>1. CASE \E m \in Mutexes : ReleaseRefused(t, m)
    BY <1>4, <2>1 DEF ReleaseRefused
  <2>2. CASE \/ \E m \in Mutexes : rt_mutex_detach(t, m)
             \/ rt_thread_timeout(t)
             \/ DetachLooks(t) \/ DetachFindsNone(t) \/ DetachObject(t)
    BY <1>1, <1>4, <2>2 DEF TypeOK, rt_mutex_detach, rt_thread_timeout, DetachLooks,
                            DetachFindsNone, DetachObject
  <2>3. CASE DetachResumes(t)
    <3> DEFINE m == on[t]
               w == Head(suspend_thread[m])
    <3>1. m \in Mutexes /\ suspend_thread[m] # <<>>
      BY <2>3 DEF IInv, OnMutex, DetachResumes
    <3>2. pc' = [pc EXCEPT ![w] = "resumed", ![t] = "look"] /\ on' = on
      BY <2>3 DEF DetachResumes
    <3> HIDE DEF m
    <3>3. w \in Threads /\ pc[w] = "wait"
      BY <3>1, FirstWaiter
    <3> HIDE DEF w
    <3> QED BY <1>1, <1>4, <3>2, <3>3 DEF TypeOK
  <2> QED BY <2>1, <2>2, <2>3
<1>5. AsksUpwards'
  BY <1>1, <1>4 DEF PInv, AsksUpwards
<1> QED BY <1>2, <1>3, <1>5 DEF PInv

(* What the owner holds after a release is what it held before the take. *)
LEMMA ReleaseUpwards ==
    ASSUME Lifo, IInv, PInv, NEW t \in Threads, NEW m \in Mutexes, Releases(t, m), on' = on,
           \A u \in Threads : pc'[u] \in {"wait", "resumed"} => pc[u] \in {"wait", "resumed"}
    PROVE  /\ HeldUpwards' /\ AsksUpwards'
           /\ \A n \in Mutexes : owner[n] = t => n <= m
<1>1. /\ TypeOK /\ pc[t] = "run" /\ held[t] \in Seq(Mutexes) /\ held[t][Len(held[t])] = m
  BY DEF IInv, Exclusive, TypeOK, Releases
<1>2. /\ m \in Elements(held[t])
      /\ held'[t] = Undone(m, held[t])
      /\ \A u \in Threads : u # t => held'[u] = held[u]
  BY ReleasedCount
<1>3. \A i \in 1 .. Len(held'[t]) : i \in 1 .. Len(held[t]) /\ held'[t][i] = held[t][i]
  BY <1>1, <1>2, TimesUndone
<1>4. HeldUpwards'
  BY <1>2, <1>3 DEF PInv, HeldUpwards
<1>5. AsksUpwards'
  BY <1>2, <1>3 DEF PInv, AsksUpwards
<1>6. \A n \in Mutexes : owner[n] = t => n <= m
  BY <1>1, OwnedBelow
<1> QED BY <1>4, <1>5, <1>6

(* The releasing thread: if m was the only mutex it owned its priority is its *)
(* own again, and otherwise the first of them is still the first.            *)
LEMMA ReleaserRestored ==
    ASSUME IInv, PInv, NEW t \in Threads, NEW m \in Mutexes, owner[m] = t,
           \A n \in Mutexes : owner[n] = t => n <= m,
           owner'[m] # t, \A n \in Mutexes : n # m => owner'[n] = owner[n],
           \A n \in Mutexes : n # m => original_priority'[n] = original_priority[n],
           current_priority' = Restored(t, m)
    PROVE  /\ (\A n \in Mutexes : owner'[n] # t) => current_priority'[t] = Priority[t]
           /\ \A n \in Mutexes : IsFirst(t, n)' => original_priority'[n] = Priority[t]
<1>1. TypeOK
  BY DEF IInv, Exclusive
<1>2. ASSUME \A n \in Mutexes : owner'[n] # t PROVE current_priority'[t] = Priority[t]
  <2>1. \A n \in Mutexes : owner[n] = t => n = m
    BY <1>2
  <2>2. m <= m
    BY MutexesAssumption
  <2>3. IsFirst(t, m)
    BY <2>1, <2>2 DEF IsFirst
  <2>4. current_priority'[t] = original_priority[m]
    BY <1>1 DEF TypeOK, Restored
  <2> QED BY <2>3, <2>4 DEF PInv, FirstKeepsPriority
<1>3. ASSUME NEW n \in Mutexes, IsFirst(t, n)' PROVE original_priority'[n] = Priority[t]
  <2>1. owner'[n] = t /\ \A k \in Mutexes : owner'[k] = t => n <= k
    BY <1>3 DEF IsFirst
  <2>2. n # m /\ owner[n] = t
    BY <2>1
  <2>3. ASSUME NEW k \in Mutexes, owner[k] = t PROVE n <= k
    BY <2>1, <2>2, <2>3
  <2>4. IsFirst(t, n)
    BY <2>2, <2>3 DEF IsFirst
  <2> QED BY <2>2, <2>4 DEF PInv, FirstKeepsPriority
<1> QED BY <1>2, <1>3

LEMMA ReleasePriorities ==
    ASSUME Lifo, IInv, PInv, NEW t \in Threads, NEW m \in Mutexes,
           ReleaseOnce(t, m) \/ LastRelease(t, m)
    PROVE  PInv'
<1>1. /\ TypeOK /\ Releases(t, m) /\ owner[m] = t /\ on' = on
  BY DEF IInv, Exclusive, ReleaseOnce, LastRelease, HandOver, SetFree, Releases
<1>2. CASE ReleaseOnce(t, m)
  <2>1. UNCHANGED <<pc, owner, original_priority, current_priority>>
    BY <1>2 DEF ReleaseOnce
  <2>2. HeldUpwards' /\ AsksUpwards'
    BY <1>1, <2>1, ReleaseUpwards
  <2>3. PriorityRestored' /\ FirstKeepsPriority'
    BY <2>1, PrioritiesKept
  <2> QED BY <2>2, <2>3 DEF PInv
<1>3. CASE SetFree(t, m)
  <2>1. /\ UNCHANGED pc /\ current_priority' = Restored(t, m)
        /\ owner'[m] = None
        /\ \A n \in Mutexes : n # m => owner'[n] = owner[n]
        /\ \A n \in Mutexes : n # m => original_priority'[n] = original_priority[n]
        /\ \A u \in Threads : u # t => current_priority'[u] = current_priority[u]
    BY <1>1, <1>3 DEF SetFree, TypeOK, Restored
  <2>2. HeldUpwards' /\ AsksUpwards' /\ \A n \in Mutexes : owner[n] = t => n <= m
    BY <1>1, <2>1, ReleaseUpwards
  <2>3. owner'[m] # t
    BY <2>1, MutexesAssumption
  <2>4. /\ (\A n \in Mutexes : owner'[n] # t) => current_priority'[t] = Priority[t]
        /\ \A n \in Mutexes : IsFirst(t, n)' => original_priority'[n] = Priority[t]
    BY <1>1, <2>1, <2>2, <2>3, ReleaserRestored
  <2>5. ASSUME NEW u \in Threads, u # t
        PROVE  \A n \in Mutexes : owner'[n] = u <=> owner[n] = u
    BY <1>1, <2>1, <2>5, MutexesAssumption
  <2>6. PriorityRestored'
    BY <2>1, <2>4, <2>5 DEF PInv, PriorityRestored
  <2>7. ASSUME NEW u \in Threads, u # t, NEW n \in Mutexes, IsFirst(u, n)'
        PROVE  original_priority'[n] = Priority[u]
    <3>1. IsFirst(u, n)
      BY <2>5, <2>7 DEF IsFirst
    <3>2. n # m
      BY <1>1, <2>7, <3>1 DEF IsFirst
    <3> QED BY <2>1, <3>1, <3>2 DEF PInv, FirstKeepsPriority
  <2>8. FirstKeepsPriority'
    BY <2>4, <2>7 DEF FirstKeepsPriority
  <2> QED BY <2>2, <2>6, <2>8 DEF PInv
<1>4. CASE HandOver(t, m)
  <2> DEFINE w == Head(suspend_thread[m])
  <2>1. /\ current_priority' = Restored(t, m) /\ suspend_thread[m] # <<>>
        /\ owner' = [owner EXCEPT ![m] = w]
        /\ original_priority' = [original_priority EXCEPT ![m] = current_priority'[w]]
        /\ pc' = [pc EXCEPT ![w] = "resumed"]
    BY <1>4 DEF HandOver
  <2>2. w \in Threads /\ pc[w] = "wait" /\ on[w] = m /\ owner[m] # w
    <3>1. suspend_thread[m] # <<>>
      BY <2>1
    <3> QED BY <3>1, FirstWaiter
  <2> HIDE DEF w
  <2>3. /\ owner'[m] = w /\ w # t
        /\ \A n \in Mutexes : n # m => owner'[n] = owner[n]
        /\ \A n \in Mutexes : n # m => original_priority'[n] = original_priority[n]
        /\ original_priority'[m] = current_priority[w]
        /\ \A u \in Threads : u # t => current_priority'[u] = current_priority[u]
    BY <1>1, <2>1, <2>2 DEF TypeOK, Restored
  <2>4. \A u \in Threads : pc'[u] \in {"wait", "resumed"} => pc[u] \in {"wait", "resumed"}
    BY <1>1, <2>1, <2>2 DEF TypeOK
  <2>5. HeldUpwards' /\ AsksUpwards' /\ \A n \in Mutexes : owner[n] = t => n <= m
    BY <1>1, <2>4, ReleaseUpwards
  <2>6. /\ (\A n \in Mutexes : owner'[n] # t) => current_priority'[t] = Priority[t]
        /\ \A n \in Mutexes : IsFirst(t, n)' => original_priority'[n] = Priority[t]
    BY <1>1, <2>1, <2>3, <2>5, ReleaserRestored
  <2>7. ASSUME NEW u \in Threads, u # t
        PROVE  \A n \in Mutexes : owner[n] = u => n # m /\ owner'[n] = u
    BY <1>1, <2>3, <2>7
  <2>8. PriorityRestored'
    <3>1. ASSUME NEW u \in Threads, u # t, \A n \in Mutexes : owner'[n] # u
          PROVE  current_priority'[u] = Priority[u]
      <4>1. \A n \in Mutexes : owner[n] # u
        BY <2>7, <3>1
      <4> QED BY <2>3, <3>1, <4>1 DEF PInv, PriorityRestored
    <3> QED BY <2>6, <3>1 DEF PriorityRestored
  <2>9. ASSUME NEW u \in Threads, u # t, NEW n \in Mutexes, IsFirst(u, n)'
        PROVE  original_priority'[n] = Priority[u]
    <3>1. owner'[n] = u /\ \A k \in Mutexes : owner'[k] = u => n <= k
      BY <2>9 DEF IsFirst
    <3>2. CASE n = m
      <4>1. u = w
        BY <2>3, <3>1, <3>2
      <4>2. ASSUME NEW k \in Mutexes, owner[k] = u PROVE FALSE
        <5>1. k <= m
          BY <2>2, <4>1, <4>2, OwnedBelow
        <5>2. k # m /\ m <= k
          BY <2>7, <2>9, <3>1, <3>2, <4>2
        <5> QED BY <5>1, <5>2, MutexesAssumption
      <4>3. current_priority[u] = Priority[u]
        BY <4>2 DEF PInv, PriorityRestored
      <4> QED BY <2>3, <3>2, <4>1, <4>3
    <3>3. CASE n # m
      <4>1. IsFirst(u, n)
        <5>1. owner[n] = u
          BY <2>3, <3>1, <3>3
        <5>2. ASSUME NEW k \in Mutexes, owner[k] = u PROVE n <= k
          BY <2>7, <2>9, <3>1, <5>2
        <5> QED BY <5>1, <5>2 DEF IsFirst
      <4> QED BY <2>3, <3>3, <4>1 DEF PInv, FirstKeepsPriority
    <3> QED BY <3>2, <3>3
  <2>10. FirstKeepsPriority'
    BY <2>6, <2>9 DEF FirstKeepsPriority
  <2> QED BY <2>5, <2>8, <2>10 DEF PInv
<1> QED BY <1>2, <1>3, <1>4 DEF LastRelease

LEMMA PInvKept == ASSUME Lifo PROVE IInv /\ PInv /\ [Next]_vars => PInv'
<1> SUFFICES ASSUME IInv, PInv, [Next]_vars PROVE PInv'
  OBVIOUS
<1>1. CASE UNCHANGED vars
  BY <1>1 DEF vars, PInv, PriorityRestored, HeldUpwards, AsksUpwards, FirstKeepsPriority, IsFirst
<1>2. ASSUME NEW t \in Threads, NEW m \in Mutexes,
             rt_mutex_take(t, m) \/ rt_mutex_release(t, m) \/ rt_mutex_detach(t, m)
      PROVE  PInv'
  BY <1>2, TakePriorities, ReleasePriorities, OtherPriorities DEF rt_mutex_release
<1>3. ASSUME NEW t \in Threads,
             \/ TakeReturns(t) \/ rt_thread_timeout(t) \/ DetachResumes(t)
             \/ DetachLooks(t) \/ DetachFindsNone(t) \/ DetachObject(t)
      PROVE  PInv'
  BY <1>3, TakeReturnsPriorities, OtherPriorities
<1> QED BY <1>1, <1>2, <1>3 DEF Next

(* When every thread releases first what it took last, one that owns no mutex *)
(* runs at its own priority: what it inherited was given back with the first  *)
(* mutex it took (rt_mutex_release, "change the owner thread to original      *)
(* priority"). Without that order it is false: README.md, section 6.          *)
THEOREM PriorityGivenBack == ASSUME Lifo PROVE Spec => []PriorityRestored
<1>1. Init => IInv /\ PInv
  BY InitIInv, InitPInv
<1>2. IInv /\ PInv /\ [Next]_vars => IInv' /\ PInv'
  BY IInvKept, PInvKept
<1>3. PInv => PriorityRestored
  BY DEF PInv
<1> QED BY <1>1, <1>2, <1>3, PTL DEF Spec
==============================================================================
