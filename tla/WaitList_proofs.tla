--------------------------- MODULE WaitList_proofs ---------------------------
(***************************************************************************)
(* What the list operations of WaitList do to a list that holds every thread *)
(* at most once, for any set of threads.                                    *)
(***************************************************************************)
EXTENDS WaitList, FiniteSetTheorems, WellFoundedInduction, TLAPS

(* Places are shifted by one from the place of the insertion on. *)
LEMMA InsertedPlaces ==
    ASSUME NEW S, NEW list \in Seq(S), NEW x \in S, NEW k \in 1 .. Len(list) + 1
    PROVE  /\ InsertedAt(list, k, x) \in Seq(S)
           /\ Len(InsertedAt(list, k, x)) = Len(list) + 1
           /\ \A i \in 1 .. Len(list) + 1 :
                 /\ i < k => i \in 1 .. Len(list) /\ InsertedAt(list, k, x)[i] = list[i]
                 /\ i = k => InsertedAt(list, k, x)[i] = x
                 /\ i > k => i - 1 \in 1 .. Len(list) /\ InsertedAt(list, k, x)[i] = list[i - 1]
<1>1. Len(list) \in Nat /\ \A i \in 1 .. Len(list) : list[i] \in S
  OBVIOUS
<1> QED BY <1>1 DEF InsertedAt

(* rt_list_insert_before adds the thread to those in the list, once. *)
LEMMA InsertedOnce ==
    ASSUME NEW S, NEW list \in Seq(S), Once(list),
           NEW x \in S, x \notin Elements(list), NEW k \in 1 .. Len(list) + 1
    PROVE  /\ InsertedAt(list, k, x) \in Seq(S)
           /\ Elements(InsertedAt(list, k, x)) = Elements(list) \cup {x}
           /\ Once(InsertedAt(list, k, x))
<1> DEFINE new == InsertedAt(list, k, x)
<1>0. Len(list) \in Nat
  OBVIOUS
<1>1. /\ new \in Seq(S)
      /\ Len(new) = Len(list) + 1
      /\ \A i \in 1 .. Len(new) :
            /\ i < k => i \in 1 .. Len(list) /\ new[i] = list[i]
            /\ i = k => new[i] = x
            /\ i > k => i - 1 \in 1 .. Len(list) /\ new[i] = list[i - 1]
  <2>1. /\ new \in Seq(S)
        /\ Len(new) = Len(list) + 1
        /\ \A i \in 1 .. Len(list) + 1 :
              /\ i < k => i \in 1 .. Len(list) /\ new[i] = list[i]
              /\ i = k => new[i] = x
              /\ i > k => i - 1 \in 1 .. Len(list) /\ new[i] = list[i - 1]
    BY InsertedPlaces
  <2> HIDE DEF new
  <2> QED BY <2>1
<1> HIDE DEF new
<1>2. ASSUME NEW i \in 1 .. Len(new) PROVE new[i] \in Elements(list) \cup {x}
  <2>1. CASE i < k
    BY <1>1, <2>1 DEF Elements
  <2>2. CASE i = k
    BY <1>1, <2>2
  <2>3. CASE i > k
    <3>1. i - 1 \in 1 .. Len(list) /\ new[i] = list[i - 1]
      BY <1>1, <2>3
    <3> QED BY <3>1 DEF Elements
  <2> QED BY <1>0, <1>1, <2>1, <2>2, <2>3
<1>3. x \in Elements(new)
  BY <1>0, <1>1 DEF Elements
<1>4. ASSUME NEW i \in 1 .. Len(list) PROVE list[i] \in Elements(new)
  <2>1. CASE i < k
    BY <1>0, <1>1, <2>1 DEF Elements
  <2>2. CASE i >= k
    <3>1. i + 1 \in 1 .. Len(new) /\ i + 1 > k /\ (i + 1) - 1 = i
      BY <1>0, <1>1, <2>2
    <3>2. new[i + 1] = list[i]
      BY <1>1, <3>1
    <3> QED BY <3>1, <3>2 DEF Elements
  <2> QED BY <1>0, <2>1, <2>2
<1>5. Elements(new) = Elements(list) \cup {x}
  BY <1>2, <1>3, <1>4 DEF Elements
<1>6. Once(new)
  <2> SUFFICES ASSUME NEW i \in 1 .. Len(new), NEW j \in 1 .. Len(new),
                      i < j, new[i] = new[j]
               PROVE  FALSE
    <3>1. \A i, j \in 1 .. Len(new) : i < j => new[i] # new[j]
      OBVIOUS
    <3>2. \A i, j \in 1 .. Len(new) : i < j \/ i = j \/ j < i
      BY <1>0, <1>1
    <3> QED BY <3>1, <3>2 DEF Once
  <2>1. \A m \in 1 .. Len(list) : list[m] # x
    BY DEF Elements
  <2>2. \A m, n \in 1 .. Len(list) : list[m] = list[n] => m = n
    BY DEF Once
  <2>3. CASE j < k
    BY <1>0, <1>1, <2>2, <2>3
  <2>4. CASE j = k
    BY <1>0, <1>1, <2>1, <2>4
  <2>5. CASE j > k
    <3>1. j - 1 \in 1 .. Len(list) /\ new[j] = list[j - 1]
      BY <1>1, <2>5
    <3>2. CASE i < k
      <4>1. i \in 1 .. Len(list) /\ new[i] = list[i] /\ i # j - 1
        BY <1>0, <1>1, <2>5, <3>2
      <4> QED BY <2>2, <3>1, <4>1
    <3>3. CASE i = k
      BY <1>1, <2>1, <3>1, <3>3
    <3>4. CASE i > k
      <4>1. i - 1 \in 1 .. Len(list) /\ new[i] = list[i - 1] /\ i - 1 # j - 1
        BY <1>0, <1>1, <3>4
      <4> QED BY <2>2, <3>1, <4>1
    <3> QED BY <1>0, <1>1, <3>2, <3>3, <3>4
  <2> QED BY <1>0, <1>1, <2>3, <2>4, <2>5
<1> QED BY <1>1, <1>5, <1>6 DEF new

(* The place rt_ipc_list_suspend chooses keeps the list in priority order. *)
LEMMA InsertedInOrder ==
    ASSUME NEW S, NEW list \in Seq(S), NEW x \in S, NEW priority \in [S -> Nat],
           InPriorityOrder(list, priority),
           NEW k \in 1 .. Len(list) + 1, PrioSlot(list, priority, x, k)
    PROVE  InPriorityOrder(InsertedAt(list, k, x), priority)
<1> DEFINE new == InsertedAt(list, k, x)
           p(i) == priority[list[i]]
<1>0. /\ Len(list) \in Nat
      /\ priority[x] \in Nat
      /\ \A i \in 1 .. Len(list) : p(i) \in Nat
  OBVIOUS
<1>1. /\ Len(new) = Len(list) + 1
      /\ \A i \in 1 .. Len(new) :
            /\ i < k => i \in 1 .. Len(list) /\ new[i] = list[i]
            /\ i = k => new[i] = x
            /\ i > k => i - 1 \in 1 .. Len(list) /\ new[i] = list[i - 1]
  BY InsertedPlaces
<1>2. /\ \A i, j \in 1 .. Len(list) : i < j => p(i) <= p(j)
      /\ \A i \in 1 .. k - 1 : priority[x] >= p(i)
      /\ k <= Len(list) => priority[x] < p(k)
  BY DEF InPriorityOrder, PrioSlot
<1> HIDE DEF new, p
<1>3. \A i \in 1 .. Len(list) : i >= k => priority[x] <= p(i)
  <2> SUFFICES ASSUME NEW i \in 1 .. Len(list), i >= k PROVE priority[x] <= p(i)
    OBVIOUS
  <2>1. k \in 1 .. Len(list)
    BY <1>0
  <2> QED BY <1>0, <1>2, <2>1
<1>4. ASSUME NEW i \in 1 .. Len(new), NEW j \in 1 .. Len(new), i < j
      PROVE  priority[new[i]] <= priority[new[j]]
  <2>1. CASE j < k
    <3>1. priority[new[i]] = p(i) /\ priority[new[j]] = p(j) /\ i \in 1 .. Len(list) /\ j \in 1 .. Len(list)
      BY <1>0, <1>1, <1>4, <2>1 DEF p
    <3> QED BY <1>2, <1>4, <3>1
  <2>2. CASE j = k
    <3>1. priority[new[i]] = p(i) /\ priority[new[j]] = priority[x] /\ i \in 1 .. k - 1
      BY <1>0, <1>1, <1>4, <2>2 DEF p
    <3>2. i \in 1 .. Len(list)
      BY <1>0, <3>1
    <3> QED BY <1>0, <1>2, <3>1, <3>2
  <2>3. CASE j > k
    <3>1. j - 1 \in 1 .. Len(list) /\ priority[new[j]] = p(j - 1)
      BY <1>0, <1>1, <2>3 DEF p
    <3>2. CASE i < k
      <4>1. i \in 1 .. Len(list) /\ i < j - 1 /\ priority[new[i]] = p(i)
        BY <1>0, <1>1, <2>3, <3>2 DEF p
      <4> QED BY <1>2, <3>1, <4>1
    <3>3. CASE i = k
      <4>1. priority[new[i]] = priority[x] /\ j - 1 >= k
        BY <1>0, <1>1, <1>4, <3>3
      <4> QED BY <1>3, <3>1, <4>1
    <3>4. CASE i > k
      <4>1. i - 1 \in 1 .. Len(list) /\ i - 1 < j - 1 /\ priority[new[i]] = p(i - 1)
        BY <1>0, <1>1, <1>4, <3>4 DEF p
      <4> QED BY <1>2, <3>1, <4>1
    <3> QED BY <1>0, <1>1, <3>2, <3>3, <3>4
  <2> QED BY <1>0, <1>1, <2>1, <2>2, <2>3
<1> QED BY <1>4 DEF new, InPriorityOrder

(* Places are shifted by one from the place of the removal on. *)
LEMMA RemovedPlaces ==
    ASSUME NEW S, NEW list \in Seq(S), NEW x \in Elements(list)
    PROVE  \E k \in 1 .. Len(list) :
              /\ list[k] = x
              /\ Removed(list, x) \in Seq(S)
              /\ Len(Removed(list, x)) = Len(list) - 1
              /\ \A i \in 1 .. Len(list) - 1 :
                    /\ i < k => Removed(list, x)[i] = list[i]
                    /\ i >= k => Removed(list, x)[i] = list[i + 1]
<1> DEFINE k == CHOOSE i \in 1 .. Len(list) : list[i] = x
           new == [i \in 1 .. Len(list) - 1 |-> IF i < k THEN list[i] ELSE list[i + 1]]
<1>1. Len(list) \in Nat /\ \A i \in 1 .. Len(list) : list[i] \in S
  OBVIOUS
<1>2. k \in 1 .. Len(list) /\ list[k] = x
  BY DEF Elements
<1>3. Removed(list, x) = new
  BY DEF Removed
<1> HIDE DEF k
<1>4. new \in Seq(S) /\ Len(new) = Len(list) - 1
  BY <1>1, <1>2
<1>5. \A i \in 1 .. Len(list) - 1 : /\ i < k => new[i] = list[i]
                                    /\ i >= k => new[i] = list[i + 1]
  BY <1>1, <1>2
<1> HIDE DEF new
<1> QED BY <1>2, <1>3, <1>4, <1>5

(* rt_list_remove takes the thread out and leaves the others as they stand. *)
LEMMA RemovedOnce ==
    ASSUME NEW S, NEW list \in Seq(S), Once(list), NEW x
    PROVE  /\ Removed(list, x) \in Seq(S)
           /\ Elements(Removed(list, x)) = Elements(list) \ {x}
           /\ Once(Removed(list, x))
<1>1. CASE x \notin Elements(list)
  BY <1>1 DEF Removed
<1>2. CASE x \in Elements(list)
  <2> DEFINE new == Removed(list, x)
  <2>1. PICK k \in 1 .. Len(list) :
              /\ list[k] = x
              /\ new \in Seq(S)
              /\ Len(new) = Len(list) - 1
              /\ \A i \in 1 .. Len(list) - 1 :
                    /\ i < k => new[i] = list[i]
                    /\ i >= k => new[i] = list[i + 1]
    BY <1>2, RemovedPlaces
  <2> HIDE DEF new
  <2>2. Len(list) \in Nat /\ \A m, n \in 1 .. Len(list) : list[m] = list[n] => m = n
    BY DEF Once
  <2>3. ASSUME NEW i \in 1 .. Len(new) PROVE new[i] \in Elements(list) \ {x}
    <3>1. CASE i < k
      <4>1. i \in 1 .. Len(list) /\ new[i] = list[i] /\ i # k
        BY <2>1, <2>2, <3>1
      <4> QED BY <2>1, <2>2, <4>1 DEF Elements
    <3>2. CASE i >= k
      <4>1. i + 1 \in 1 .. Len(list) /\ new[i] = list[i + 1] /\ i + 1 # k
        BY <2>1, <2>2, <3>2
      <4> QED BY <2>1, <2>2, <4>1 DEF Elements
    <3> QED BY <2>1, <2>2, <3>1, <3>2
  <2>4. ASSUME NEW i \in 1 .. Len(list), list[i] # x PROVE list[i] \in Elements(new)
    <3>1. CASE i < k
      <4>1. i \in 1 .. Len(new) /\ new[i] = list[i]
        BY <2>1, <2>2, <3>1
      <4> QED BY <4>1 DEF Elements
    <3>2. CASE i > k
      <4>1. i - 1 \in 1 .. Len(new) /\ i - 1 >= k /\ (i - 1) + 1 = i
        BY <2>1, <2>2, <3>2
      <4>2. new[i - 1] = list[i]
        BY <2>1, <4>1
      <4> QED BY <4>1, <4>2 DEF Elements
    <3> QED BY <2>1, <2>2, <2>4, <3>1, <3>2
  <2>5. Elements(new) = Elements(list) \ {x}
    BY <2>3, <2>4 DEF Elements
  <2>6. Once(new)
    <3> SUFFICES ASSUME NEW i \in 1 .. Len(new), NEW j \in 1 .. Len(new), new[i] = new[j]
                 PROVE  i = j
      BY DEF Once
    <3> DEFINE at(n) == IF n < k THEN n ELSE n + 1
    <3>1. at(i) \in 1 .. Len(list) /\ new[i] = list[at(i)]
      BY <2>1, <2>2
    <3>2. at(j) \in 1 .. Len(list) /\ new[j] = list[at(j)]
      BY <2>1, <2>2
    <3>3. at(i) = at(j)
      <4> HIDE DEF at
      <4> QED BY <2>2, <3>1, <3>2
    <3> QED BY <2>1, <2>2, <3>3
  <2> QED BY <2>1, <2>5, <2>6 DEF new
<1> QED BY <1>1, <1>2

(* A list in priority order stays so when a thread leaves it. *)
LEMMA RemovedInOrder ==
    ASSUME NEW S, NEW list \in Seq(S), NEW priority \in [S -> Nat],
           InPriorityOrder(list, priority), NEW x
    PROVE  InPriorityOrder(Removed(list, x), priority)
<1>1. CASE x \notin Elements(list)
  BY <1>1 DEF Removed
<1>2. CASE x \in Elements(list)
  <2> DEFINE new == Removed(list, x)
  <2>1. PICK k \in 1 .. Len(list) :
              /\ list[k] = x
              /\ new \in Seq(S)
              /\ Len(new) = Len(list) - 1
              /\ \A i \in 1 .. Len(list) - 1 :
                    /\ i < k => new[i] = list[i]
                    /\ i >= k => new[i] = list[i + 1]
    BY <1>2, RemovedPlaces
  <2> HIDE DEF new
  <2>2. Len(list) \in Nat
    OBVIOUS
  <2>3. ASSUME NEW i \in 1 .. Len(new), NEW j \in 1 .. Len(new), i < j
        PROVE  priority[new[i]] <= priority[new[j]]
    <3> DEFINE at(n) == IF n < k THEN n ELSE n + 1
    <3>1. at(i) \in 1 .. Len(list) /\ new[i] = list[at(i)]
      <4>1. i \in 1 .. Len(list) - 1
        BY <2>1, <2>2
      <4>2. at(i) \in 1 .. Len(list)
        BY <2>2, <4>1
      <4>3. CASE i < k
        BY <2>1, <4>1, <4>2, <4>3
      <4>4. CASE ~(i < k)
        <5>1. at(i) = i + 1 /\ i >= k
          BY <2>2, <4>1, <4>4
        <5> HIDE DEF at
        <5> QED BY <2>1, <4>1, <4>2, <5>1
      <4> QED BY <4>3, <4>4
    <3>2. at(j) \in 1 .. Len(list) /\ new[j] = list[at(j)]
      <4>1. j \in 1 .. Len(list) - 1
        BY <2>1, <2>2
      <4>2. at(j) \in 1 .. Len(list)
        BY <2>2, <4>1
      <4>3. CASE j < k
        BY <2>1, <4>1, <4>2, <4>3
      <4>4. CASE ~(j < k)
        <5>1. at(j) = j + 1 /\ j >= k
          BY <2>2, <4>1, <4>4
        <5> HIDE DEF at
        <5> QED BY <2>1, <4>1, <4>2, <5>1
      <4> QED BY <4>3, <4>4
    <3>3. i \in Int /\ j \in Int /\ k \in Int /\ i < j
      <4>1. Len(new) \in Nat
        BY <2>1
      <4> QED BY <2>2, <2>3, <4>1
    <3>4. at(i) < at(j)
      BY <3>3
    <3> HIDE DEF at
    <3> QED BY <3>1, <3>2, <3>4 DEF InPriorityOrder
  <2> QED BY <2>3 DEF new, InPriorityOrder
<1> QED BY <1>1, <1>2

(* rt_ipc_list_resume takes the first thread out. *)
LEMMA TailOnce ==
    ASSUME NEW S, NEW list \in Seq(S), list # <<>>, Once(list)
    PROVE  /\ Tail(list) \in Seq(S)
           /\ Head(list) = list[1]
           /\ list[1] \in S /\ list[1] \in Elements(list)
           /\ Elements(Tail(list)) = Elements(list) \ {list[1]}
           /\ Once(Tail(list))
<1> DEFINE new == Tail(list)
<1>1. /\ new \in Seq(S)
      /\ Head(list) = list[1]
      /\ Len(list) \in Nat \ {0}
      /\ Len(new) = Len(list) - 1
      /\ \A i \in 1 .. Len(new) : new[i] = list[i + 1]
      /\ \A i \in 1 .. Len(list) : list[i] \in S
  OBVIOUS
<1> HIDE DEF new
<1>2. ASSUME NEW i \in 1 .. Len(new) PROVE new[i] \in Elements(list) \ {list[1]}
  BY <1>1 DEF Elements, Once
<1>3. ASSUME NEW i \in 1 .. Len(list), list[i] # list[1] PROVE list[i] \in Elements(new)
  <2>1. i - 1 \in 1 .. Len(new) /\ new[i - 1] = list[i]
    BY <1>1, <1>3
  <2> QED BY <2>1 DEF Elements
<1>4. Elements(new) = Elements(list) \ {list[1]}
  BY <1>2, <1>3 DEF Elements
<1>5. Once(new)
  BY <1>1 DEF Once
<1>6. list[1] \in S /\ list[1] \in Elements(list)
  BY <1>1 DEF Elements
<1> QED BY <1>1, <1>4, <1>5, <1>6 DEF new

(* And the order of the others is the same. *)
LEMMA TailInOrder ==
    ASSUME NEW S, NEW list \in Seq(S), list # <<>>, NEW priority \in [S -> Nat],
           InPriorityOrder(list, priority)
    PROVE  InPriorityOrder(Tail(list), priority)
<1> DEFINE new == Tail(list)
<1>1. /\ Len(list) \in Nat \ {0}
      /\ Len(new) = Len(list) - 1
      /\ \A i \in 1 .. Len(new) : new[i] = list[i + 1]
  OBVIOUS
<1> HIDE DEF new
<1>2. ASSUME NEW i \in 1 .. Len(new), NEW j \in 1 .. Len(new), i < j
      PROVE  priority[new[i]] <= priority[new[j]]
  <2>1. i + 1 \in 1 .. Len(list) /\ j + 1 \in 1 .. Len(list) /\ i + 1 < j + 1
    BY <1>1, <1>2
  <2> QED BY <1>1, <2>1 DEF InPriorityOrder
<1> QED BY <1>2 DEF new, InPriorityOrder

(* A set of threads that loses one at most counts one less at most. *)
LEMMA CountLosesOne ==
    ASSUME NEW S, IsFiniteSet(S), NEW A \in SUBSET S, NEW B \in SUBSET S, NEW x,
           A \subseteq B \cup {x}
    PROVE  Cardinality(A) \in Nat /\ Cardinality(B) \in Nat /\ Cardinality(A) <= Cardinality(B) + 1
<1>1. IsFiniteSet(A) /\ IsFiniteSet(B)
  BY FS_Subset
<1>2. Cardinality(A) \in Nat /\ Cardinality(B) \in Nat
  BY <1>1, FS_CardinalityType
<1>3. IsFiniteSet(B \cup {x}) /\ Cardinality(B \cup {x}) <= Cardinality(B) + 1
  BY <1>1, <1>2, FS_AddElement
<1>4. Cardinality(A) <= Cardinality(B \cup {x}) /\ Cardinality(B \cup {x}) \in Nat
  BY <1>3, FS_Subset, FS_CardinalityType
<1> QED BY <1>2, <1>3, <1>4

(* A set of threads that gains one counts one more. *)
LEMMA CountGainsOne ==
    ASSUME NEW S, IsFiniteSet(S), NEW A \in SUBSET S, NEW B \in SUBSET S, NEW x \in B,
           A \subseteq B \ {x}
    PROVE  Cardinality(A) \in Nat /\ Cardinality(B) \in Nat /\ Cardinality(A) + 1 <= Cardinality(B)
<1>1. IsFiniteSet(A) /\ IsFiniteSet(B)
  BY FS_Subset
<1>2. Cardinality(A) \in Nat /\ Cardinality(B) \in Nat
  BY <1>1, FS_CardinalityType
<1>3. IsFiniteSet(B \ {x}) /\ Cardinality(B \ {x}) = Cardinality(B) - 1
  BY <1>1, FS_RemoveElement
<1>4. Cardinality(A) <= Cardinality(B \ {x})
  BY <1>3, FS_Subset
<1> QED BY <1>2, <1>3, <1>4

(* Every set of natural numbers that is not empty has a least one. *)
LEMMA LeastNumber ==
    ASSUME NEW T \in SUBSET Nat, T # {}
    PROVE  \E x \in T : \A y \in T : x <= y
<1> DEFINE R == {ss \in Nat \X Nat : ss[1] < ss[2]}
<1>1. IsWellFoundedOn(R, Nat)
  BY NatLessThanWellFounded DEF OpToRel
<1>2. ASSUME NEW x \in Nat, NEW y \in Nat, y < x PROVE <<y, x>> \in R
  BY <1>2
<1> HIDE DEF R
<1>3. PICK x \in T : \A y \in T : ~(<<y, x>> \in R)
  BY <1>1, WFMin
<1>4. \A y \in T : x <= y
  <2>1. \A y \in T : ~(y < x)
    BY <1>2, <1>3
  <2> QED BY <2>1
<1> QED BY <1>4

(* An element of a list has a last place in it. *)
LEMMA LastPlace ==
    ASSUME NEW S, NEW list \in Seq(S), NEW x \in Elements(list)
    PROVE  \E k \in 1 .. Len(list) : list[k] = x /\ \A j \in k + 1 .. Len(list) : list[j] # x
<1> DEFINE n == Len(list)
           T == {d \in 0 .. n : n - d \in 1 .. n /\ list[n - d] = x}
<1>1. n \in Nat
  OBVIOUS
<1>2. PICK i \in 1 .. n : list[i] = x
  BY DEF Elements
<1>3. n - i \in T
  BY <1>1, <1>2
<1>4. T \in SUBSET Nat
  BY <1>1
<1>5. PICK d \in T : \A e \in T : d <= e
  <2> HIDE DEF T
  <2> QED BY <1>3, <1>4, LeastNumber
<1>6. n - d \in 1 .. n /\ list[n - d] = x
  OBVIOUS
<1>7. ASSUME NEW j \in n - d + 1 .. n, list[j] = x PROVE FALSE
  <2>1. n - j \in 0 .. n /\ n - (n - j) = j /\ j \in 1 .. n /\ n - j < d /\ d \in Nat
    BY <1>1, <1>6
  <2>2. n - j \in T
    BY <1>7, <2>1
  <2> HIDE DEF T
  <2>3. d <= n - j
    BY <1>5, <2>2
  <2> QED BY <1>1, <2>1, <2>3
<1> QED BY <1>6, <1>7
==============================================================================
