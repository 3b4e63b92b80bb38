---------------------------- MODULE Timer_proofs -----------------------------
(***************************************************************************)
(* The timer list, the delays and their abstract specification, for any set  *)
(* of threads and timers, any width of rt_tick_t, any delays and periods     *)
(* below half its range.                                                     *)
(***************************************************************************)
EXTENDS Timer, WaitList_proofs

(* The ticks from r to a, as a number that may be -1: a listed timer is      *)
(* overdue by one tick at most.                                              *)
Ahead(a, r) == IF a = Minus(r, 1) THEN -1 ELSE Minus(a, r)

Soon == -1 .. Half - 1

-----------------------------------------------------------------------------
(* Arithmetic of rt_tick_t *)

LEMMA HalfFacts == Half \in Nat /\ Half >= 3 /\ 2 * Half < TICKS /\ TICKS \in Nat /\ TICKS >= 8 /\ Tick = 0 .. TICKS - 1
BY TicksAssumption DEF Half, RT_TICK_MAX, Tick

(* A sum and a difference are ticks again. *)
LEMMA TickArithmetic ==
    ASSUME NEW a \in Tick, NEW r \in Tick
    PROVE  Plus(a, r) \in Tick /\ Minus(a, r) \in Tick /\ Ahead(a, r) \in Int
BY HalfFacts DEF Plus, Minus, Ahead

(* The comparison of rt_timer_check is right for a timer that is not further  *)
(* away than rt_timer_start allows.                                          *)
LEMMA DueIsDue ==
    ASSUME NEW a \in Tick, NEW r \in Tick, Ahead(a, r) \in Soon
    PROVE  /\ Minus(r, a) < Half <=> Ahead(a, r) <= 0
           /\ Ahead(a, r) >= 0 => Minus(a, r) = Ahead(a, r)
           /\ Ahead(a, r) = 0 => a = r
BY HalfFacts DEF Minus, Ahead, Soon

(* So is the comparison of rt_timer_start. *)
LEMMA LaterIsLater ==
    ASSUME NEW a \in Tick, NEW r \in Tick, NEW n \in 0 .. Half - 1, Ahead(a, r) \in Soon
    PROVE  Later(a, Plus(r, n)) <=> Ahead(a, r) > n
BY HalfFacts DEF Plus, Minus, Ahead, Soon, Later

LEMMA StartsAhead ==
    ASSUME NEW r \in Tick, NEW n \in 0 .. Half - 1
    PROVE  Plus(r, n) \in Tick /\ Ahead(Plus(r, n), r) = n
BY HalfFacts DEF Plus, Minus, Ahead

(* A tick brings every timeout nearer by one, over the end of the range too. *)
LEMMA TickNearer ==
    ASSUME NEW a \in Tick, NEW r \in Tick, Ahead(a, r) \in 0 .. Half - 1
    PROVE  Plus(r, 1) \in Tick /\ Ahead(a, Plus(r, 1)) = Ahead(a, r) - 1
BY HalfFacts DEF Plus, Minus, Ahead

LEMMA TickPasses ==
    ASSUME NEW r \in Tick, NEW l \in Tick, Minus(r, l) < TICKS - 1
    PROVE  Minus(Plus(r, 1), l) = Minus(r, l) + 1
BY HalfFacts DEF Plus, Minus

(* The time rt_thread_delay_until waits is what is left of the increment. *)
LEMMA DelayLeft ==
    ASSUME NEW r \in Tick, NEW l \in Tick, NEW inc \in 0 .. Half - 1, Minus(r, l) < inc
    PROVE  /\ Plus(l, inc) \in Tick
           /\ Minus(Plus(l, inc), r) = inc - Minus(r, l)
           /\ Minus(Plus(l, inc), r) \in 1 .. Half - 1
           /\ Plus(r, Minus(Plus(l, inc), r)) = Plus(l, inc)
BY HalfFacts DEF Plus, Minus

-----------------------------------------------------------------------------
(* Lists in the order of a relation *)

SortedBy(list, R) == \A i, j \in 1 .. Len(list) : i < j => <<list[i], list[j]>> \in R

(* The elements of a sequence in the order of their places. *)
Before(list, x, y) == \E i, j \in 1 .. Len(list) : i < j /\ list[i] = x /\ list[j] = y

LEMMA SortedAnew ==
    ASSUME NEW S, NEW list \in Seq(S), NEW R, NEW Q, SortedBy(list, R),
           \A x, y \in Elements(list) : <<x, y>> \in R => <<x, y>> \in Q
    PROVE  SortedBy(list, Q)
BY DEF SortedBy, Elements

LEMMA TailSorted ==
    ASSUME NEW S, NEW list \in Seq(S), list # <<>>, NEW R, SortedBy(list, R)
    PROVE  SortedBy(Tail(list), R)
<1> DEFINE new == Tail(list)
<1>1. /\ Len(list) \in Nat \ {0}
      /\ Len(new) = Len(list) - 1
      /\ \A i \in 1 .. Len(new) : new[i] = list[i + 1]
  OBVIOUS
<1> HIDE DEF new
<1>2. ASSUME NEW i \in 1 .. Len(new), NEW j \in 1 .. Len(new), i < j
      PROVE  <<new[i], new[j]>> \in R
  <2>1. i + 1 \in 1 .. Len(list) /\ j + 1 \in 1 .. Len(list) /\ i + 1 < j + 1
    BY <1>1, <1>2
  <2> QED BY <1>1, <2>1 DEF SortedBy
<1> QED BY <1>2 DEF new, SortedBy

(* What is left of a list without x stands as it stood. *)
LEMMA RemovedKeepsPlaces ==
    ASSUME NEW S, NEW list \in Seq(S), NEW x
    PROVE  \A i, j \in 1 .. Len(Removed(list, x)) : i < j =>
              \E m, n \in 1 .. Len(list) : m < n /\ Removed(list, x)[i] = list[m] /\ Removed(list, x)[j] = list[n]
<1>1. CASE x \notin Elements(list)
  BY <1>1 DEF Removed
<1>2. CASE x \in Elements(list)
  <2> DEFINE new == Removed(list, x)
  <2>1. PICK k \in 1 .. Len(list) :
              /\ list[k] = x
              /\ new \in Seq(S)
              /\ Len(new) = Len(list) - 1
              /\ \A i \in 1 .. Len(list) - 1 :
                    /\ i < k => new[i] = list[i]
                    /\ i >= k => new[i] = list[i + 1]
    BY <1>2, RemovedPlaces
  <2> HIDE DEF new
  <2>2. Len(list) \in Nat
    OBVIOUS
  <2> DEFINE at(n) == IF n < k THEN n ELSE n + 1
  <2>3. ASSUME NEW i \in 1 .. Len(new)
        PROVE  at(i) \in 1 .. Len(list) /\ new[i] = list[at(i)]
    <3>1. i \in 1 .. Len(list) - 1
      BY <2>1, <2>2
    <3>2. at(i) \in 1 .. Len(list)
      BY <2>2, <3>1
    <3>3. CASE i < k
      BY <2>1, <3>1, <3>2, <3>3
    <3>4. CASE ~(i < k)
      <4>1. at(i) = i + 1 /\ i >= k
        BY <2>2, <3>1, <3>4
      <4> HIDE DEF at
      <4> QED BY <2>1, <3>1, <3>2, <4>1
    <3> QED BY <3>3, <3>4
  <2>4. ASSUME NEW i \in 1 .. Len(new), NEW j \in 1 .. Len(new), i < j PROVE at(i) < at(j)
    <3>1. Len(new) \in Nat
      BY <2>1
    <3> QED BY <2>2, <2>4, <3>1
  <2> HIDE DEF at
  <2> QED BY <2>3, <2>4 DEF new
<1> QED BY <1>1, <1>2

LEMMA RemovedSorted ==
    ASSUME NEW S, NEW list \in Seq(S), NEW R, SortedBy(list, R), NEW x
    PROVE  SortedBy(Removed(list, x), R)
BY RemovedKeepsPlaces DEF SortedBy

(* The others keep their order when x is taken out. *)
LEMMA RemovedBefore ==
    ASSUME NEW S, NEW list \in Seq(S), NEW x, NEW y, NEW z, y # x, z # x, Before(list, y, z)
    PROVE  Before(Removed(list, x), y, z)
<1>1. CASE x \notin Elements(list)
  BY <1>1 DEF Removed
<1>2. CASE x \in Elements(list)
  <2> DEFINE new == Removed(list, x)
  <2>1. PICK k \in 1 .. Len(list) :
              /\ list[k] = x
              /\ new \in Seq(S)
              /\ Len(new) = Len(list) - 1
              /\ \A i \in 1 .. Len(list) - 1 :
                    /\ i < k => new[i] = list[i]
                    /\ i >= k => new[i] = list[i + 1]
    BY <1>2, RemovedPlaces
  <2>2. PICK i \in 1 .. Len(list), j \in 1 .. Len(list) : i < j /\ list[i] = y /\ list[j] = z
    BY DEF Before
  <2> HIDE DEF new
  <2>3. Len(list) \in Nat /\ i # k /\ j # k
    BY <2>1, <2>2
  <2> DEFINE at(n) == IF n < k THEN n ELSE n - 1
  <2>4. ASSUME NEW n \in 1 .. Len(list), n # k
        PROVE  at(n) \in 1 .. Len(new) /\ new[at(n)] = list[n]
    <3>1. CASE n < k
      <4>1. at(n) = n /\ n \in 1 .. Len(list) - 1
        BY <2>3, <3>1
      <4> HIDE DEF at
      <4> QED BY <2>1, <3>1, <4>1
    <3>2. CASE ~(n < k)
      <4>1. at(n) = n - 1 /\ n - 1 \in 1 .. Len(list) - 1 /\ n - 1 >= k /\ (n - 1) + 1 = n
        BY <2>3, <2>4, <3>2
      <4> HIDE DEF at
      <4>2. new[n - 1] = list[(n - 1) + 1]
        BY <2>1, <4>1
      <4> QED BY <2>1, <4>1, <4>2
    <3> QED BY <3>1, <3>2
  <2>5. at(i) < at(j)
    BY <2>2, <2>3
  <2> HIDE DEF at
  <2> QED BY <2>2, <2>3, <2>4, <2>5 DEF new, Before
<1> QED BY <1>1, <1>2

(* A new last element comes after all the others. *)
LEMMA AppendBefore ==
    ASSUME NEW S, NEW list \in Seq(S), NEW x \in S
    PROVE  /\ Append(list, x) \in Seq(S)
           /\ Elements(Append(list, x)) = Elements(list) \cup {x}
           /\ Once(list) /\ x \notin Elements(list) => Once(Append(list, x))
           /\ \A y \in Elements(list) : Before(Append(list, x), y, x)
           /\ \A y, z : Before(list, y, z) => Before(Append(list, x), y, z)
<1> DEFINE new == Append(list, x)
<1>1. /\ new \in Seq(S)
      /\ Len(list) \in Nat
      /\ Len(new) = Len(list) + 1
      /\ new[Len(list) + 1] = x
      /\ \A i \in 1 .. Len(list) : new[i] = list[i]
  OBVIOUS
<1> HIDE DEF new
<1>2. \A i \in 1 .. Len(new) : i \in 1 .. Len(list) \/ i = Len(list) + 1
  BY <1>1
<1>3. \A i \in 1 .. Len(list) : i \in 1 .. Len(new) /\ i < Len(list) + 1
  BY <1>1
<1>4. Len(list) + 1 \in 1 .. Len(new)
  BY <1>1
<1>5. Elements(new) = Elements(list) \cup {x}
  BY <1>1, <1>2, <1>3, <1>4 DEF Elements
<1>6. Once(list) /\ x \notin Elements(list) => Once(new)
  BY <1>1, <1>2 DEF Once, Elements
<1>7. \A y \in Elements(list) : Before(new, y, x)
  BY <1>1, <1>3, <1>4 DEF Elements, Before
<1>8. \A y, z : Before(list, y, z) => Before(new, y, z)
  BY <1>1, <1>3 DEF Before
<1> QED BY <1>1, <1>5, <1>6, <1>7, <1>8 DEF new

LEMMA InsertedSorted ==
    ASSUME NEW S, NEW list \in Seq(S), NEW x \in S, NEW R, SortedBy(list, R),
           NEW k \in 1 .. Len(list) + 1,
           \A i \in 1 .. Len(list) : IF i < k THEN <<list[i], x>> \in R ELSE <<x, list[i]>> \in R
    PROVE  SortedBy(InsertedAt(list, k, x), R)
<1> DEFINE new == InsertedAt(list, k, x)
<1>0. Len(list) \in Nat
  OBVIOUS
<1>1. /\ Len(new) = Len(list) + 1
      /\ \A i \in 1 .. Len(new) :
            /\ i < k => i \in 1 .. Len(list) /\ new[i] = list[i]
            /\ i = k => new[i] = x
            /\ i > k => i - 1 \in 1 .. Len(list) /\ new[i] = list[i - 1]
  BY InsertedPlaces
<1> HIDE DEF new
<1>2. ASSUME NEW i \in 1 .. Len(new), NEW j \in 1 .. Len(new), i < j
      PROVE  <<new[i], new[j]>> \in R
  <2>1. CASE j < k
    <3>1. new[i] = list[i] /\ new[j] = list[j] /\ i \in 1 .. Len(list) /\ j \in 1 .. Len(list)
      BY <1>0, <1>1, <1>2, <2>1
    <3> QED BY <1>2, <3>1 DEF SortedBy
  <2>2. CASE j = k
    <3>1. new[i] = list[i] /\ new[j] = x /\ i \in 1 .. Len(list) /\ i < k
      BY <1>0, <1>1, <1>2, <2>2
    <3> QED BY <3>1
  <2>3. CASE j > k
    <3>1. j - 1 \in 1 .. Len(list) /\ new[j] = list[j - 1]
      BY <1>0, <1>1, <2>3
    <3>2. CASE i < k
      <4>1. i \in 1 .. Len(list) /\ i < j - 1 /\ new[i] = list[i]
        BY <1>0, <1>1, <2>3, <3>2
      <4> QED BY <3>1, <4>1 DEF SortedBy
    <3>3. CASE i = k
      <4>1. new[i] = x /\ ~(j - 1 < k)
        BY <1>0, <1>1, <1>2, <3>3
      <4> QED BY <3>1, <4>1
    <3>4. CASE i > k
      <4>1. i - 1 \in 1 .. Len(list) /\ i - 1 < j - 1 /\ new[i] = list[i - 1]
        BY <1>0, <1>1, <1>2, <3>4
      <4> QED BY <3>1, <4>1 DEF SortedBy
    <3> QED BY <1>0, <1>1, <3>2, <3>3, <3>4
  <2> QED BY <1>0, <1>1, <2>1, <2>2, <2>3
<1> QED BY <1>2 DEF new, SortedBy

-----------------------------------------------------------------------------
(* The inductive invariant *)

Distance(x) == Ahead(timeout_tick[x], rt_tick)

(* The order of the list: by timeout, then by the calls of rt_timer_start. *)
Order == {p \in Timers \X Timers :
             \/ Distance(p[1]) < Distance(p[2])
             \/ Distance(p[1]) = Distance(p[2]) /\ StartedBefore(p[1], p[2])}

(* What a call of a timer function keeps, in a thread and in the interrupt. *)
ListSound ==
    /\ rt_tick \in Tick
    /\ timeout_tick \in [Timers -> Tick]
    /\ activated \subseteq Timers
    /\ timer_list \in Seq(Timers) /\ Once(timer_list)
    /\ started \in Seq(Timers) /\ Once(started)
    /\ Elements(started) = Elements(timer_list)
    /\ Elements(timer_list) \subseteq activated
    /\ \A x \in Elements(timer_list) : Distance(x) \in Soon
    /\ SortedBy(timer_list, Order)

(* Outside the interrupt no timeout is in the past; for a thread in            *)
(* rt_thread_delay_until none is in the present either.                      *)
NothingMissed ==
    \A x \in Elements(timer_list) :
        /\ isr = "off" => Distance(x) >= 0
        /\ x \in Threads /\ stat[x] = "until" => Distance(x) >= 0 /\ (isr = "off" => Distance(x) >= 1)

(* The timer whose function is called is in no list, and has its flag only if   *)
(* it is periodic.                                                           *)
ExpiredIsOut ==
    /\ isr \in {"off", "check"} => expired = None
    /\ isr \in {"callback", "return"} => expired \in Timers
    /\ isr = "callback" => /\ expired \notin Elements(timer_list)
                           /\ expired \in activated => expired \in periodic

(* The ticks that really passed since *tick, known from the timer while the     *)
(* thread waits for *tick and from the counter otherwise.                    *)
OnTime ==
    \A t \in Threads :
        /\ stat[t] = "until" /\ t \in Elements(timer_list) => timeout_tick[t] = last[t] /\ late[t] = -Distance(t)
        /\ stat[t] = "until" /\ t \notin Elements(timer_list) => last[t] = rt_tick /\ late[t] = 0
        /\ stat[t] # "until" => late[t] >= 0 /\ (late[t] < MaxLate => Minus(rt_tick, last[t]) = late[t])

TimerTypes ==
    /\ periodic \subseteq AppTimers
    /\ init_tick \in [Timers -> 0 .. Half - 1]
    /\ \A x \in AppTimers : init_tick[x] \in Periods
    /\ temp \in BOOLEAN

ThreadTypes ==
    /\ isr \in {"off", "check", "callback", "return"}
    /\ expired \in Timers \cup {None}
    /\ stat \in [Threads -> {"run"} \cup Suspended]
    /\ last \in [Threads -> Tick]
    /\ late \in [Threads -> -Half .. MaxLate]

Invariant ==
    /\ ListSound
    /\ TimerTypes
    /\ ThreadTypes
    /\ NothingMissed
    /\ ExpiredIsOut
    /\ NoStaleTimeout
    /\ OnTime

-----------------------------------------------------------------------------
(* What the timer functions do to the list *)

LEMMA StartedIsBefore == \A x, y : StartedBefore(x, y) <=> Before(started, x, y)
BY DEF StartedBefore, Before

(* The order of timers that are neither started nor stopped stays. *)
LEMMA OrderStays ==
    ASSUME ListSound, rt_tick' = rt_tick,
           NEW x, NEW y, <<x, y>> \in Order,
           timeout_tick'[x] = timeout_tick[x], timeout_tick'[y] = timeout_tick[y],
           Before(started, x, y) => Before(started', x, y)
    PROVE  <<x, y>> \in Order'
<1>1. Distance(x)' = Distance(x) /\ Distance(y)' = Distance(y)
  BY DEF Distance
<1>2. StartedBefore(x, y) => StartedBefore(x, y)'
  BY DEF StartedBefore, Before
<1> QED BY <1>1, <1>2 DEF Order

(* rt_timer_start puts a timer in its place, n ticks ahead. *)
LEMMA StartKeepsList ==
    ASSUME ListSound, NEW x \in Timers, NEW n \in 0 .. Half - 1, StartWith(x, n), rt_tick' = rt_tick
    PROVE  /\ ListSound'
           /\ Elements(timer_list)' = Elements(timer_list) \cup {x}
           /\ Distance(x)' = n
           /\ \A y \in Timers : y # x => Distance(y)' = Distance(y) /\ timeout_tick'[y] = timeout_tick[y]
<1> DEFINE at   == Plus(rt_tick, n)
           rest == Removed(timer_list, x)
<1>1. /\ rest \in Seq(Timers)
      /\ Elements(rest) = Elements(timer_list) \ {x}
      /\ Once(rest)
      /\ SortedBy(rest, Order)
  BY RemovedOnce, RemovedSorted DEF ListSound
<1>2. at \in Tick /\ Ahead(at, rt_tick) = n
  BY StartsAhead DEF ListSound
<1>3. /\ timeout_tick' = [timeout_tick EXCEPT ![x] = at]
      /\ timeout_tick' \in [Timers -> Tick]
      /\ timeout_tick'[x] = at
      /\ \A y \in Timers : y # x => timeout_tick'[y] = timeout_tick[y]
  BY <1>2 DEF ListSound, StartWith
<1>4. /\ Distance(x)' = n
      /\ \A y \in Timers : y # x => Distance(y)' = Distance(y)
  BY <1>2, <1>3 DEF Distance
<1>5. PICK k \in 1 .. Len(rest) + 1 : Place(rest, at, k) /\ timer_list' = InsertedAt(rest, k, x)
  BY DEF StartWith
<1> HIDE DEF at, rest
<1>6. /\ timer_list' \in Seq(Timers)
      /\ Elements(timer_list') = Elements(timer_list) \cup {x}
      /\ Once(timer_list')
  <2>1. x \notin Elements(rest)
    BY <1>1
  <2>2. /\ InsertedAt(rest, k, x) \in Seq(Timers)
        /\ Elements(InsertedAt(rest, k, x)) = Elements(rest) \cup {x}
        /\ Once(InsertedAt(rest, k, x))
    BY <1>1, <2>1, InsertedOnce
  <2> QED BY <1>1, <1>5, <2>2
<1>7. /\ started' \in Seq(Timers)
      /\ Elements(started') = Elements(timer_list')
      /\ Once(started')
      /\ \A y \in Elements(rest) : Before(started', y, x)
      /\ \A y, z \in Elements(rest) : Before(started, y, z) => Before(started', y, z)
  <2> DEFINE others == Removed(started, x)
  <2>1. started' = Append(others, x)
    BY DEF StartWith
  <2>2. /\ others \in Seq(Timers)
        /\ Elements(others) = Elements(rest)
        /\ Once(others)
    BY <1>1, RemovedOnce DEF ListSound
  <2>3. ASSUME NEW y \in Elements(rest), NEW z \in Elements(rest), Before(started, y, z)
        PROVE  Before(others, y, z)
    BY <1>1, <2>3, RemovedBefore DEF ListSound
  <2> HIDE DEF others
  <2>4. /\ Append(others, x) \in Seq(Timers)
        /\ Elements(Append(others, x)) = Elements(others) \cup {x}
        /\ Once(others) /\ x \notin Elements(others) => Once(Append(others, x))
        /\ \A y \in Elements(others) : Before(Append(others, x), y, x)
        /\ \A y, z : Before(others, y, z) => Before(Append(others, x), y, z)
    BY <2>2, AppendBefore
  <2> QED BY <1>1, <1>6, <2>1, <2>2, <2>3, <2>4
<1>8. \A y \in Elements(rest) : y \in Timers /\ y # x /\ Distance(y) \in Soon /\ timeout_tick[y] \in Tick
  <2>1. \A y \in Elements(timer_list) : y \in Timers
    BY DEF ListSound, Elements
  <2> QED BY <1>1, <2>1 DEF ListSound
<1>9. SortedBy(rest, Order')
  <2>1. ASSUME NEW y \in Elements(rest), NEW z \in Elements(rest), <<y, z>> \in Order
        PROVE  <<y, z>> \in Order'
    BY <1>3, <1>7, <1>8, <2>1, OrderStays
  <2> QED BY <1>1, <2>1, SortedAnew
<1>10. \A i \in 1 .. Len(rest) : IF i < k THEN <<rest[i], x>> \in Order' ELSE <<x, rest[i]>> \in Order'
  <2> SUFFICES ASSUME NEW i \in 1 .. Len(rest), NEW y, y = rest[i]
               PROVE  IF i < k THEN <<y, x>> \in Order' ELSE <<x, y>> \in Order'
    OBVIOUS
  <2>0. Len(rest) \in Nat /\ y \in Elements(rest)
    BY <1>1 DEF Elements
  <2>1. y \in Timers /\ Distance(y)' = Distance(y) /\ Distance(y) \in Soon
    BY <1>4, <1>8, <2>0
  <2>2. ASSUME NEW j \in 1 .. Len(rest)
        PROVE  Later(timeout_tick[rest[j]], at) <=> Distance(rest[j]) > n
    <3>1. rest[j] \in Elements(rest)
      BY DEF Elements
    <3>2. timeout_tick[rest[j]] \in Tick /\ Ahead(timeout_tick[rest[j]], rt_tick) \in Soon /\ rt_tick \in Tick
      BY <1>8, <3>1 DEF Distance, ListSound
    <3> QED BY <3>2, LaterIsLater DEF Distance, at
  <2>3. CASE i < k
    <3>1. ~(Distance(y) > n)
      <4>1. i \in 1 .. k - 1
        BY <2>0, <2>3
      <4> QED BY <1>5, <2>2, <4>1 DEF Place
    <3>2. Distance(y)' < Distance(x)' \/ Distance(y)' = Distance(x)'
      BY <1>4, <2>1, <3>1, HalfFacts DEF Soon
    <3>3. StartedBefore(y, x)'
      BY <1>7, <2>0 DEF StartedBefore, Before
    <3> QED BY <2>1, <2>3, <3>2, <3>3 DEF Order
  <2>4. CASE ~(i < k)
    <3>1. k \in 1 .. Len(rest) /\ (k = i \/ k < i)
      BY <2>0, <2>4
    <3>2. Distance(rest[k]) > n
      <4>1. k <= Len(rest)
        BY <2>0, <3>1
      <4> QED BY <1>5, <2>2, <3>1, <4>1 DEF Place
    <3>3. rest[k] \in Elements(rest) /\ Distance(rest[k]) \in Soon
      BY <1>8, <3>1 DEF Elements
    <3>4. Distance(rest[k]) <= Distance(y)
      <4>1. CASE k = i
        BY <3>3, <4>1, HalfFacts DEF Soon
      <4>2. CASE k < i
        <5>1. <<rest[k], y>> \in Order
          BY <1>1, <3>1, <4>2 DEF SortedBy
        <5>2. Distance(rest[k]) < Distance(y) \/ Distance(rest[k]) = Distance(y)
          BY <5>1 DEF Order
        <5> QED BY <2>1, <3>3, <5>2, HalfFacts DEF Soon
      <4> QED BY <3>1, <4>1, <4>2
    <3>5. Distance(x)' < Distance(y)'
      BY <1>4, <2>1, <3>2, <3>3, <3>4, HalfFacts DEF Soon
    <3> QED BY <2>1, <2>4, <3>5 DEF Order
  <2> QED BY <2>3, <2>4
<1>11. SortedBy(timer_list', Order')
  BY <1>1, <1>5, <1>9, <1>10, InsertedSorted
<1>12. \A y \in Elements(timer_list') : Distance(y)' \in Soon
  <2>1. n \in Soon
    BY HalfFacts DEF Soon
  <2> QED BY <1>1, <1>4, <1>6, <1>8, <2>1
<1>13. activated' \subseteq Timers /\ Elements(timer_list') \subseteq activated'
  BY <1>6 DEF ListSound, StartWith
<1>14. rt_tick' \in Tick
  BY DEF ListSound
<1>15. Elements(timer_list)' = Elements(timer_list') /\ SortedBy(timer_list, Order)' = SortedBy(timer_list', Order')
  OBVIOUS
<1>16. ListSound'
  BY <1>3, <1>6, <1>7, <1>11, <1>12, <1>13, <1>14, <1>15 DEF ListSound
<1> QED BY <1>3, <1>4, <1>6, <1>16

(* _rt_timer_remove takes a timer out of its place. *)
LEMMA TakeOutKeepsList ==
    ASSUME ListSound, NEW x, TakeOut(x), rt_tick' = rt_tick
    PROVE  /\ ListSound'
           /\ Elements(timer_list)' = Elements(timer_list) \ {x}
           /\ \A y : Distance(y)' = Distance(y)
<1>1. /\ timer_list' \in Seq(Timers)
      /\ Elements(timer_list') = Elements(timer_list) \ {x}
      /\ Once(timer_list')
      /\ SortedBy(timer_list', Order)
  BY RemovedOnce, RemovedSorted DEF ListSound, TakeOut
<1>2. /\ started' \in Seq(Timers)
      /\ Elements(started') = Elements(started) \ {x}
      /\ Once(started')
  BY RemovedOnce DEF ListSound, TakeOut
<1>3. ASSUME NEW y \in Elements(timer_list'), NEW z \in Elements(timer_list'), <<y, z>> \in Order
      PROVE  <<y, z>> \in Order'
  <2>1. timeout_tick' = timeout_tick /\ started' = Removed(started, x) /\ started \in Seq(Timers)
    BY DEF TakeOut, ListSound
  <2>2. Before(started, y, z) => Before(started', y, z)
    BY <1>1, <2>1, RemovedBefore
  <2> QED BY <1>3, <2>1, <2>2, OrderStays
<1>4. SortedBy(timer_list', Order')
  BY <1>1, <1>3, SortedAnew
<1>5. \A y : Distance(y)' = Distance(y)
  BY DEF Distance, TakeOut
<1>6. SortedBy(timer_list, Order)' = SortedBy(timer_list', Order')
  OBVIOUS
<1>7. activated' \subseteq Timers /\ Elements(timer_list') \subseteq activated'
  BY <1>1 DEF ListSound, TakeOut
<1> QED BY <1>1, <1>2, <1>4, <1>5, <1>6, <1>7 DEF ListSound, TakeOut

(* A timer that a step neither lists, takes out nor sets. *)
Stays(y) ==
    /\ y \in Elements(timer_list') <=> y \in Elements(timer_list)
    /\ timeout_tick'[y] = timeout_tick[y]
    /\ Distance(y)' = Distance(y)

(* What a step may do that calls one timer function, for timer x. *)
Called(x) ==
    /\ ListSound'
    /\ TimerTypes'
    /\ \A y \in Timers : y # x => Stays(y)
    /\ x \in Elements(timer_list') => Stays(x) \/ Distance(x)' >= 0

LEMMA ListedAreTimers ==
    ASSUME ListSound PROVE \A x \in Elements(timer_list) : x \in Timers
BY DEF ListSound, Elements

LEMMA UnchangedKeepsList ==
    ASSUME ListSound, rt_tick' = rt_tick, UNCHANGED <<timer_list, activated, timeout_tick, started>>
    PROVE  ListSound' /\ \A y : Stays(y)
<1>1. \A y : Distance(y)' = Distance(y)
  BY DEF Distance
<1>2. Order' = Order
  BY DEF Order, Distance, StartedBefore
<1>3. Elements(timer_list)' = Elements(timer_list) /\ Elements(started)' = Elements(started)
  OBVIOUS
<1>4. SortedBy(timer_list, Order)' = SortedBy(timer_list, Order)
  BY <1>2
<1>5. Once(timer_list)' = Once(timer_list) /\ Once(started)' = Once(started)
  OBVIOUS
<1> QED BY <1>1, <1>3, <1>4, <1>5 DEF ListSound, Stays

(* The calls on a timer of an application. *)
LEMMA CallIsCall ==
    ASSUME ListSound, TimerTypes, NEW x \in AppTimers, TimerCall(x), rt_tick' = rt_tick
    PROVE  Called(x)
<1>0. x \in Timers /\ init_tick[x] \in Periods /\ Periods \subseteq 1 .. Half - 1
  BY PeriodsAssumption DEF TimerTypes, Timers
<1>1. CASE rt_timer_start(x)
  <2> DEFINE n == init_tick[x]
  <2>0. init_tick' = [init_tick EXCEPT ![x] = n] /\ periodic' = periodic /\ temp' \in BOOLEAN
    BY <1>1 DEF rt_timer_start, StartWith, TimerTypes
  <2> SUFFICES ASSUME NEW m, m = n PROVE Called(x)
    OBVIOUS
  <2>1. m \in 0 .. Half - 1 /\ StartWith(x, m)
    <3>1. m \in 0 .. Half - 1
      BY <1>0 DEF TimerTypes
    <3>2. StartWith(x, m)
      BY <1>1, Zenon DEF rt_timer_start
    <3> QED BY <3>1, <3>2
  <2>2. /\ ListSound'
        /\ Elements(timer_list)' = Elements(timer_list) \cup {x}
        /\ Distance(x)' = m
        /\ \A y \in Timers : y # x => Distance(y)' = Distance(y) /\ timeout_tick'[y] = timeout_tick[y]
    BY <1>0, <2>1, StartKeepsList
  <2>3. TimerTypes'
    BY <2>0 DEF TimerTypes
  <2>4. \A y \in Timers : y # x => Stays(y)
    BY <2>2 DEF Stays
  <2>5. Distance(x)' >= 0
    BY <2>1, <2>2, HalfFacts
  <2> QED BY <2>2, <2>3, <2>4, <2>5 DEF Called
<1>2. CASE TakeOut(x)
  <2>1. /\ ListSound'
        /\ Elements(timer_list)' = Elements(timer_list) \ {x}
        /\ \A y : Distance(y)' = Distance(y)
    BY <1>2, TakeOutKeepsList
  <2>2. TimerTypes'
    BY <1>2 DEF TimerTypes, TakeOut
  <2>3. \A y \in Timers : y # x => Stays(y)
    BY <1>2, <2>1 DEF Stays, TakeOut
  <2> QED BY <2>1, <2>2, <2>3 DEF Called
<1>3. CASE UNCHANGED timerUnchanged
  <2>1. ListSound' /\ \A y : Stays(y)
    BY <1>3, UnchangedKeepsList DEF timerUnchanged
  <2>2. TimerTypes'
    BY <1>3 DEF TimerTypes, timerUnchanged
  <2> QED BY <2>1, <2>2 DEF Called
<1>4. CASE rt_timer_control(x)
  <2>1. ListSound' /\ \A y : Stays(y)
    BY <1>4, UnchangedKeepsList DEF rt_timer_control
  <2>2. CASE \E n \in Periods : init_tick' = [init_tick EXCEPT ![x] = n] /\ periodic' = periodic /\ temp' = temp
    <3>1. PICK n \in Periods : init_tick' = [init_tick EXCEPT ![x] = n] /\ periodic' = periodic /\ temp' = temp
      BY <2>2
    <3>2. n \in 0 .. Half - 1
      BY <1>0, HalfFacts
    <3>3. init_tick' \in [Timers -> 0 .. Half - 1]
      BY <1>0, <3>1, <3>2 DEF TimerTypes
    <3>4. \A y \in AppTimers : init_tick'[y] \in Periods
      BY <3>1 DEF TimerTypes, Timers
    <3> QED BY <2>1, <3>1, <3>3, <3>4 DEF Called, TimerTypes
  <2>3. CASE periodic' \in {periodic \ {x}, periodic \cup {x}} /\ init_tick' = init_tick /\ temp' = temp
    BY <2>1, <2>3 DEF Called, TimerTypes
  <2> QED BY <1>4, <2>2, <2>3 DEF rt_timer_control
<1> QED BY <1>1, <1>2, <1>3, <1>4 DEF TimerCall, rt_timer_stop, rt_timer_detach

(* A call that is about no thread's timer keeps everything. *)
LEMMA CallKeeps ==
    ASSUME Invariant, NEW x, x \notin Threads, Called(x), UNCHANGED <<rt_tick, stat, last, late>>,
           isr' \in {"off", "check", "return"}, expired' \in Timers \cup {None},
           isr' = "off" => isr = "off",
           isr' = "return" => expired' \in Timers,
           isr' \in {"off", "check"} => expired' = None,
           isr = "callback" => expired \notin Threads
    PROVE  Invariant'
<1>1. \A t \in Threads : t \in Timers /\ Stays(t)
  BY DEF Called, Timers
<1>2. ThreadTypes'
  BY DEF Invariant, ThreadTypes
<1>3. NothingMissed'
  <2> SUFFICES ASSUME NEW y \in Elements(timer_list')
               PROVE  /\ isr' = "off" => Distance(y)' >= 0
                      /\ y \in Threads /\ stat'[y] = "until" => Distance(y)' >= 0 /\ (isr' = "off" => Distance(y)' >= 1)
    BY DEF NothingMissed
  <2>1. y \in Timers
    BY ListedAreTimers DEF Called, ListSound, Elements
  <2>2. CASE y = x /\ ~Stays(x)
    BY <2>2 DEF Called
  <2>3. CASE Stays(y)
    BY <2>3 DEF Stays, Invariant, NothingMissed
  <2> QED BY <2>1, <2>2, <2>3 DEF Called
<1>4. ExpiredIsOut'
  BY DEF ExpiredIsOut
<1>5. NoStaleTimeout'
  <2> SUFFICES ASSUME NEW t \in Threads
               PROVE  stat'[t] \in Suspended <=> t \in Elements(timer_list')
    BY DEF NoStaleTimeout
  <2> QED BY <1>1 DEF Invariant, NoStaleTimeout, Stays
<1>6. OnTime'
  BY <1>1 DEF Invariant, OnTime, Stays
<1> QED BY <1>2, <1>3, <1>4, <1>5, <1>6 DEF Invariant, Called

-----------------------------------------------------------------------------
(* The steps of threads *)

(* A thread suspends itself and starts its timer. *)
LEMMA SuspendKeeps ==
    ASSUME Invariant, NEW t \in Threads, NEW why \in Suspended, NEW n \in 0 .. Half - 1,
           SuspendFor(t, why, n), stat[t] = "run", isr = "off", UNCHANGED <<rt_tick, isr, expired>>,
           last' \in [Threads -> Tick], late' \in [Threads -> -Half .. MaxLate],
           \A u \in Threads : u # t => last'[u] = last[u] /\ late'[u] = late[u],
           IF why = "until" THEN n >= 1 /\ last'[t] = Plus(rt_tick, n) /\ late'[t] = -n
                            ELSE last'[t] = last[t] /\ late'[t] = late[t]
    PROVE  Invariant'
<1>0. t \in Timers
  BY DEF Timers
<1>1. /\ ListSound'
      /\ Elements(timer_list') = Elements(timer_list) \cup {t}
      /\ Distance(t)' = n
      /\ timeout_tick'[t] = Plus(rt_tick, n)
      /\ \A y \in Timers : y # t => Stays(y)
  <2>1. StartWith(t, n) /\ ListSound
    BY DEF SuspendFor, Invariant
  <2>2. /\ ListSound'
        /\ Elements(timer_list)' = Elements(timer_list) \cup {t}
        /\ Distance(t)' = n
        /\ \A y \in Timers : y # t => Distance(y)' = Distance(y) /\ timeout_tick'[y] = timeout_tick[y]
    BY <1>0, <2>1, StartKeepsList
  <2>3. timeout_tick'[t] = Plus(rt_tick, n)
    BY <1>0, <2>1 DEF StartWith, ListSound
  <2> QED BY <2>2, <2>3 DEF Stays
<1>2. TimerTypes'
  <2>1. init_tick' = [init_tick EXCEPT ![t] = n] /\ periodic' = periodic /\ temp' \in BOOLEAN
    BY DEF SuspendFor, StartWith, Invariant, TimerTypes
  <2>2. init_tick \in [Timers -> 0 .. Half - 1] /\ \A x \in AppTimers : x # t /\ x \in Timers /\ init_tick[x] \in Periods
    BY NamesAssumption DEF Invariant, TimerTypes, Timers
  <2>3. init_tick' \in [Timers -> 0 .. Half - 1]
    BY <1>0, <2>1, <2>2
  <2>4. \A x \in AppTimers : init_tick'[x] \in Periods
    BY <2>1, <2>2
  <2> QED BY <2>1, <2>3, <2>4 DEF TimerTypes, Invariant
<1>3. /\ stat' \in [Threads -> {"run"} \cup Suspended]
      /\ stat'[t] = why
      /\ \A u \in Threads : u # t => stat'[u] = stat[u]
  BY DEF SuspendFor, Invariant, ThreadTypes
<1>4. ThreadTypes'
  BY <1>3 DEF Invariant, ThreadTypes
<1>5. \A u \in Threads : u # t => Stays(u)
  BY <1>1 DEF Timers
<1>6. NothingMissed'
  <2> SUFFICES ASSUME NEW y \in Elements(timer_list')
               PROVE  /\ Distance(y)' >= 0
                      /\ y \in Threads /\ stat'[y] = "until" => Distance(y)' >= 1
    BY HalfFacts DEF NothingMissed
  <2>1. y \in Timers /\ isr = "off"
    BY <1>0, <1>1, ListedAreTimers DEF Invariant
  <2>2. CASE y = t
    BY <1>1, <1>3, <2>2, HalfFacts
  <2>3. CASE y # t
    BY <1>1, <1>3, <2>1, <2>3 DEF Stays, Invariant, NothingMissed
  <2> QED BY <2>2, <2>3
<1>7. ExpiredIsOut'
  BY DEF Invariant, ExpiredIsOut
<1>8. NoStaleTimeout'
  <2> SUFFICES ASSUME NEW u \in Threads
               PROVE  stat'[u] \in Suspended <=> u \in Elements(timer_list')
    BY DEF NoStaleTimeout
  <2>1. CASE u = t
    BY <1>1, <1>3, <2>1
  <2>2. CASE u # t
    BY <1>3, <1>5, <2>2 DEF Invariant, NoStaleTimeout, Stays
  <2> QED BY <2>1, <2>2
<1>9. OnTime'
  <2> SUFFICES ASSUME NEW u \in Threads
               PROVE  /\ stat'[u] = "until" /\ u \in Elements(timer_list') =>
                            timeout_tick'[u] = last'[u] /\ late'[u] = -Distance(u)'
                      /\ stat'[u] = "until" /\ u \notin Elements(timer_list') => last'[u] = rt_tick' /\ late'[u] = 0
                      /\ stat'[u] # "until" =>
                            late'[u] >= 0 /\ (late'[u] < MaxLate => Minus(rt_tick', last'[u]) = late'[u])
    BY DEF OnTime
  <2>1. CASE u = t
    BY <1>1, <1>3, <2>1 DEF Invariant, OnTime
  <2>2. CASE u # t
    BY <1>3, <1>5, <2>2 DEF Invariant, OnTime, Stays
  <2> QED BY <2>1, <2>2
<1> QED BY <1>1, <1>2, <1>4, <1>6, <1>7, <1>8, <1>9 DEF Invariant

LEMMA SleepKeeps ==
    ASSUME Invariant, NEW t \in Threads, rt_thread_sleep(t) \/ WaitFor(t)
    PROVE  Invariant'
<1>1. PICK n \in Delays : SuspendFor(t, "sleep", n) \/ SuspendFor(t, "wait", n)
  BY DEF rt_thread_sleep, WaitFor
<1>2. n \in 0 .. Half - 1
  BY DelaysAssumption
<1>3. stat[t] = "run" /\ isr = "off" /\ UNCHANGED <<rt_tick, isr, expired, last, late>>
  BY DEF rt_thread_sleep, WaitFor, isrVars
<1>4. last' \in [Threads -> Tick] /\ late' \in [Threads -> -Half .. MaxLate]
  BY <1>3 DEF Invariant, ThreadTypes
<1> QED BY <1>1, <1>2, <1>3, <1>4, SuspendKeeps DEF Suspended

LEMMA DelayUntilKeeps ==
    ASSUME Invariant, NEW t \in Threads, rt_thread_delay_until(t)
    PROVE  Invariant'
<1>1. PICK inc \in Delays :
           /\ Minus(rt_tick, last[t]) < inc
           /\ last' = [last EXCEPT ![t] = NextTick(t, inc)]
           /\ late' = [late EXCEPT ![t] = @ - inc]
           /\ SuspendFor(t, "until", Minus(last'[t], rt_tick))
  BY DEF rt_thread_delay_until
<1>2. stat[t] = "run" /\ isr = "off" /\ late[t] < MaxLate /\ UNCHANGED <<rt_tick, isr, expired>>
  BY DEF rt_thread_delay_until, isrVars
<1>3. /\ rt_tick \in Tick
      /\ last \in [Threads -> Tick] /\ late \in [Threads -> -Half .. MaxLate]
      /\ late[t] = Minus(rt_tick, last[t]) /\ late[t] >= 0
  BY <1>2 DEF Invariant, ThreadTypes, ListSound, OnTime
<1>4. inc \in 0 .. Half - 1
  BY DelaysAssumption
<1>5. PICK n : n = Minus(last'[t], rt_tick)
  OBVIOUS
<1>6. last'[t] = Plus(last[t], inc)
  BY <1>1, <1>3 DEF NextTick
<1>7. /\ n = inc - late[t] /\ n \in 1 .. Half - 1
      /\ Plus(rt_tick, n) = last'[t] /\ last'[t] \in Tick
  BY <1>1, <1>3, <1>4, <1>5, <1>6, DelayLeft
<1>8. late'[t] = -n /\ late'[t] \in -Half .. MaxLate
  <2>1. late'[t] = late[t] - inc
    BY <1>1, <1>3
  <2>2. late[t] \in Int
    BY <1>3, HalfFacts, MaxLateAssumption
  <2>3. inc \in Int /\ n \in Int /\ 1 <= n /\ n <= Half - 1
    BY <1>4, <1>7, HalfFacts
  <2> QED BY <1>7, <2>1, <2>2, <2>3, HalfFacts, MaxLateAssumption
<1>9. last' \in [Threads -> Tick] /\ late' \in [Threads -> -Half .. MaxLate]
  <2>1. last' = [last EXCEPT ![t] = last'[t]]
    BY <1>1, <1>3, <1>6 DEF NextTick
  <2>2. late' = [late EXCEPT ![t] = late'[t]]
    BY <1>1, <1>3
  <2> QED BY <1>3, <1>7, <1>8, <2>1, <2>2
<1>10. \A u \in Threads : u # t => last'[u] = last[u] /\ late'[u] = late[u]
  BY <1>1, <1>3
<1>11. SuspendFor(t, "until", n)
  BY <1>1, <1>5, Zenon
<1>12. n \in 0 .. Half - 1 /\ n >= 1
  BY <1>7, HalfFacts
<1> QED BY <1>2, <1>7, <1>8, <1>9, <1>10, <1>11, <1>12, SuspendKeeps DEF Suspended

LEMMA MissedKeeps ==
    ASSUME Invariant, NEW t \in Threads, DelayMissed(t)
    PROVE  Invariant'
<1>1. /\ stat[t] = "run" /\ isr = "off" /\ UNCHANGED <<rt_tick, isr, expired, stat>>
      /\ last' = [last EXCEPT ![t] = rt_tick]
      /\ late' = [late EXCEPT ![t] = 0]
      /\ UNCHANGED <<timer_list, activated, periodic, init_tick, timeout_tick, temp, started>>
  BY DEF DelayMissed, isrVars, timerUnchanged
<1>2. ListSound' /\ \A y : Stays(y)
  BY <1>1, UnchangedKeepsList DEF Invariant
<1>3. /\ rt_tick \in Tick /\ last \in [Threads -> Tick] /\ late \in [Threads -> -Half .. MaxLate]
      /\ 0 \in -Half .. MaxLate /\ Minus(rt_tick, rt_tick) = 0
  BY HalfFacts, MaxLateAssumption DEF Invariant, ThreadTypes, ListSound, Minus
<1>4. ThreadTypes' /\ TimerTypes'
  BY <1>1, <1>3 DEF Invariant, ThreadTypes, TimerTypes
<1>5. NothingMissed'
  BY <1>1, <1>2 DEF Invariant, NothingMissed, Stays
<1>6. ExpiredIsOut' /\ NoStaleTimeout'
  BY <1>1, <1>2 DEF Invariant, ExpiredIsOut, NoStaleTimeout, Stays
<1>7. OnTime'
  <2>1. /\ last'[t] = rt_tick /\ late'[t] = 0
        /\ \A u \in Threads : u # t => last'[u] = last[u] /\ late'[u] = late[u]
    BY <1>1, <1>3
  <2> QED BY <1>1, <1>2, <1>3, <2>1 DEF Invariant, OnTime, Stays
<1> QED BY <1>2, <1>4, <1>5, <1>6, <1>7 DEF Invariant

(* The timer of a waiting thread is activated, so rt_thread_resume stops it. *)
LEMMA ResumeKeeps ==
    ASSUME Invariant, NEW t \in Threads, rt_thread_resume(t)
    PROVE  Invariant'
<1>1. /\ isr = "off" /\ stat[t] = "wait" /\ UNCHANGED <<rt_tick, isr, expired, last, late>>
      /\ stat' = [stat EXCEPT ![t] = "run"]
  BY DEF rt_thread_resume, isrVars
<1>2. t \in activated
  <2>1. t \in Elements(timer_list)
    BY <1>1 DEF Invariant, NoStaleTimeout, Suspended
  <2> QED BY <2>1 DEF Invariant, ListSound
<1>3. TakeOut(t)
  BY <1>2 DEF rt_thread_resume, rt_timer_stop
<1>4. /\ ListSound'
      /\ Elements(timer_list') = Elements(timer_list) \ {t}
      /\ \A y : Distance(y)' = Distance(y)
  BY <1>1, <1>3, TakeOutKeepsList DEF Invariant
<1>5. \A u : u # t => Stays(u)
  BY <1>3, <1>4 DEF Stays, TakeOut
<1>6. /\ stat' \in [Threads -> {"run"} \cup Suspended]
      /\ stat'[t] = "run"
      /\ \A u \in Threads : u # t => stat'[u] = stat[u]
  BY <1>1 DEF Invariant, ThreadTypes
<1>7. ThreadTypes' /\ TimerTypes'
  BY <1>1, <1>3, <1>6 DEF Invariant, ThreadTypes, TimerTypes, TakeOut
<1>8. NothingMissed'
  <2> SUFFICES ASSUME NEW y \in Elements(timer_list')
               PROVE  /\ Distance(y)' >= 0
                      /\ y \in Threads /\ stat'[y] = "until" => Distance(y)' >= 1
    BY HalfFacts DEF NothingMissed
  <2>1. y # t /\ y \in Elements(timer_list) /\ Distance(y)' = Distance(y)
    BY <1>4
  <2> QED BY <1>1, <1>6, <2>1 DEF Invariant, NothingMissed
<1>9. ExpiredIsOut'
  BY <1>1 DEF Invariant, ExpiredIsOut
<1>10. NoStaleTimeout'
  <2> SUFFICES ASSUME NEW u \in Threads
               PROVE  stat'[u] \in Suspended <=> u \in Elements(timer_list')
    BY <1>1 DEF NoStaleTimeout
  <2>1. CASE u = t
    BY <1>4, <1>6, <2>1 DEF Suspended
  <2>2. CASE u # t
    BY <1>1, <1>5, <1>6, <2>2 DEF Invariant, NoStaleTimeout, Stays
  <2> QED BY <2>1, <2>2
<1>11. OnTime'
  <2> SUFFICES ASSUME NEW u \in Threads
               PROVE  /\ stat'[u] = "until" /\ u \in Elements(timer_list') =>
                            timeout_tick'[u] = last'[u] /\ late'[u] = -Distance(u)'
                      /\ stat'[u] = "until" /\ u \notin Elements(timer_list') => last'[u] = rt_tick' /\ late'[u] = 0
                      /\ stat'[u] # "until" =>
                            late'[u] >= 0 /\ (late'[u] < MaxLate => Minus(rt_tick', last'[u]) = late'[u])
    BY DEF OnTime
  <2>1. CASE u = t
    BY <1>1, <1>6, <2>1 DEF Invariant, OnTime
  <2>2. CASE u # t
    BY <1>1, <1>5, <1>6, <2>2 DEF Invariant, OnTime, Stays
  <2> QED BY <2>1, <2>2
<1> QED BY <1>4, <1>7, <1>8, <1>9, <1>10, <1>11 DEF Invariant

-----------------------------------------------------------------------------
(* The steps of the tick interrupt *)

(* A tick moves all timeouts together, so the order of the list stays right    *)
(* when the counter wraps around.                                            *)
LEMMA TickKeepsList ==
    ASSUME Invariant, rt_tick_increase
    PROVE  ListSound' /\ \A y \in Elements(timer_list) : Distance(y)' = Distance(y) - 1 /\ Distance(y) \in 0 .. Half - 1
<1>1. isr = "off" /\ rt_tick' = Plus(rt_tick, 1) /\ UNCHANGED <<timer_list, activated, timeout_tick, started>>
  BY DEF rt_tick_increase, timerUnchanged
<1>2. ASSUME NEW y \in Elements(timer_list)
      PROVE  Distance(y)' = Distance(y) - 1 /\ Distance(y) \in 0 .. Half - 1
  <2>1. y \in Timers
    BY ListedAreTimers DEF Invariant
  <2>2. Distance(y) \in Soon /\ Distance(y) >= 0
    BY <1>1 DEF Invariant, ListSound, NothingMissed
  <2>3. Distance(y) \in 0 .. Half - 1
    BY <2>2, HalfFacts DEF Soon
  <2>4. timeout_tick[y] \in Tick /\ rt_tick \in Tick
    BY <2>1 DEF Invariant, ListSound
  <2>5. Ahead(timeout_tick[y], Plus(rt_tick, 1)) = Ahead(timeout_tick[y], rt_tick) - 1
    BY <2>3, <2>4, TickNearer DEF Distance
  <2> QED BY <1>1, <2>3, <2>5 DEF Distance
<1>3. rt_tick' \in Tick
  <2>1. 1 \in Tick /\ rt_tick \in Tick
    BY HalfFacts DEF Invariant, ListSound
  <2> QED BY <1>1, <2>1, TickArithmetic
<1>4. ASSUME NEW x \in Elements(timer_list), NEW y \in Elements(timer_list), <<x, y>> \in Order
      PROVE  <<x, y>> \in Order'
  <2>1. x \in Timers /\ y \in Timers
    BY ListedAreTimers DEF Invariant
  <2>2. StartedBefore(x, y)' <=> StartedBefore(x, y)
    BY <1>1 DEF StartedBefore
  <2>3. \/ Distance(x) < Distance(y)
        \/ Distance(x) = Distance(y) /\ StartedBefore(x, y)
    BY <1>4 DEF Order
  <2>4. \/ Distance(x)' < Distance(y)'
        \/ Distance(x)' = Distance(y)' /\ StartedBefore(x, y)'
    BY <1>2, <2>2, <2>3, HalfFacts
  <2> QED BY <2>1, <2>4 DEF Order
<1>5. SortedBy(timer_list', Order')
  <2>1. timer_list \in Seq(Timers) /\ SortedBy(timer_list, Order)
    BY DEF Invariant, ListSound
  <2>2. SortedBy(timer_list, Order')
    BY <1>4, <2>1, SortedAnew
  <2> QED BY <1>1, <2>2
<1>6. \A y \in Elements(timer_list) : Distance(y)' \in Soon
  BY <1>2, HalfFacts DEF Soon
<1>7. /\ Elements(timer_list)' = Elements(timer_list) /\ Elements(started)' = Elements(started)
      /\ Once(timer_list)' = Once(timer_list) /\ Once(started)' = Once(started)
      /\ SortedBy(timer_list, Order)' = SortedBy(timer_list', Order')
  BY <1>1
<1>8. ListSound'
  BY <1>1, <1>3, <1>5, <1>6, <1>7 DEF Invariant, ListSound
<1> QED BY <1>2, <1>8

LEMMA TickKeeps ==
    ASSUME Invariant, rt_tick_increase
    PROVE  Invariant'
<1>1. /\ isr = "off" /\ isr' = "check" /\ rt_tick' = Plus(rt_tick, 1)
      /\ late' = [t \in Threads |-> IF late[t] = MaxLate THEN MaxLate ELSE late[t] + 1]
      /\ UNCHANGED <<expired, stat, last, timer_list, activated, periodic, init_tick, timeout_tick, temp, started>>
  BY DEF rt_tick_increase, timerUnchanged
<1>2. ListSound' /\ \A y \in Elements(timer_list) : Distance(y)' = Distance(y) - 1 /\ Distance(y) \in 0 .. Half - 1
  BY TickKeepsList
<1>3. late' \in [Threads -> -Half .. MaxLate]
  <2>1. \A t \in Threads : late[t] \in -Half .. MaxLate
    BY DEF Invariant, ThreadTypes
  <2>2. \A t \in Threads : (IF late[t] = MaxLate THEN MaxLate ELSE late[t] + 1) \in -Half .. MaxLate
    BY <2>1, HalfFacts, MaxLateAssumption
  <2> QED BY <1>1, <2>2
<1>4. ThreadTypes' /\ TimerTypes'
  BY <1>1, <1>3 DEF Invariant, ThreadTypes, TimerTypes
<1>5. NothingMissed'
  <2> SUFFICES ASSUME NEW y \in Elements(timer_list), y \in Threads, stat[y] = "until"
               PROVE  Distance(y)' >= 0
    BY <1>1 DEF NothingMissed
  <2>1. Distance(y) >= 1
    BY <1>1 DEF Invariant, NothingMissed
  <2> QED BY <1>2, <2>1, HalfFacts
<1>6. ExpiredIsOut' /\ NoStaleTimeout'
  BY <1>1 DEF Invariant, ExpiredIsOut, NoStaleTimeout
<1>7. OnTime'
  <2> SUFFICES ASSUME NEW u \in Threads
               PROVE  /\ stat[u] = "until" /\ u \in Elements(timer_list) =>
                            timeout_tick[u] = last[u] /\ late'[u] = -Distance(u)'
                      /\ stat[u] = "until" /\ u \notin Elements(timer_list) => last[u] = rt_tick' /\ late'[u] = 0
                      /\ stat[u] # "until" =>
                            late'[u] >= 0 /\ (late'[u] < MaxLate => Minus(rt_tick', last[u]) = late'[u])
    BY <1>1 DEF OnTime
  <2>0. /\ late[u] \in Int /\ late[u] <= MaxLate
        /\ late'[u] = IF late[u] = MaxLate THEN MaxLate ELSE late[u] + 1
    <3>1. late[u] \in -Half .. MaxLate
      BY DEF Invariant, ThreadTypes
    <3> QED BY <1>1, <3>1, HalfFacts, MaxLateAssumption
  <2>1. CASE stat[u] = "until"
    <3>1. u \in Elements(timer_list)
      BY <1>1, <2>1 DEF Invariant, NoStaleTimeout, Suspended
    <3>2. Distance(u) >= 1 /\ timeout_tick[u] = last[u] /\ late[u] = -Distance(u)
      BY <1>1, <2>1, <3>1 DEF Invariant, NothingMissed, OnTime
    <3>3. Distance(u)' = Distance(u) - 1 /\ Distance(u) \in Int
      BY <1>2, <3>1, HalfFacts
    <3> QED BY <2>0, <2>1, <3>1, <3>2, <3>3, MaxLateAssumption
  <2>2. CASE stat[u] # "until"
    <3>1. late[u] >= 0 /\ (late[u] < MaxLate => Minus(rt_tick, last[u]) = late[u])
      BY <2>2 DEF Invariant, OnTime
    <3>2. rt_tick \in Tick /\ last[u] \in Tick
      BY DEF Invariant, ListSound, ThreadTypes
    <3>3. late'[u] < MaxLate => Minus(rt_tick', last[u]) = late'[u]
      <4> SUFFICES ASSUME late'[u] < MaxLate PROVE Minus(rt_tick', last[u]) = late'[u]
        OBVIOUS
      <4>1. late[u] < MaxLate /\ late[u] < TICKS - 1 /\ late'[u] = late[u] + 1
        BY <2>0, MaxLateAssumption, HalfFacts
      <4>2. Minus(rt_tick, last[u]) = late[u]
        BY <3>1, <4>1
      <4> QED BY <1>1, <3>2, <4>1, <4>2, TickPasses
    <3>4. late'[u] >= 0
      BY <2>0, <3>1, MaxLateAssumption
    <3> QED BY <2>2, <3>3, <3>4
  <2> QED BY <2>1, <2>2
<1> QED BY <1>2, <1>4, <1>5, <1>6, <1>7 DEF Invariant

(* The first timer of the list is due if any is. *)
LEMMA FirstIsNext ==
    ASSUME ListSound, timer_list # <<>>
    PROVE  /\ timer_list[1] \in Elements(timer_list)
           /\ Due(timer_list[1]) <=> Distance(timer_list[1]) <= 0
           /\ \A y \in Elements(timer_list) : Distance(timer_list[1]) <= Distance(y)
<1>1. Len(timer_list) \in Nat /\ 1 \in 1 .. Len(timer_list)
  BY DEF ListSound
<1>2. timer_list[1] \in Elements(timer_list)
  BY <1>1 DEF Elements
<1>3. \A y \in Elements(timer_list) : y \in Timers /\ Distance(y) \in Soon
  BY ListedAreTimers DEF ListSound
<1>4. ASSUME NEW y \in Elements(timer_list) PROVE Due(y) <=> Distance(y) <= 0
  <2>1. timeout_tick[y] \in Tick /\ rt_tick \in Tick /\ Ahead(timeout_tick[y], rt_tick) \in Soon
    BY <1>3 DEF ListSound, Distance
  <2> QED BY <2>1, DueIsDue DEF Due, Distance
<1>5. ASSUME NEW i \in 1 .. Len(timer_list) PROVE Distance(timer_list[1]) <= Distance(timer_list[i])
  <2>1. timer_list[i] \in Elements(timer_list)
    BY DEF Elements
  <2>2. CASE i = 1
    BY <1>2, <1>3, <2>2, HalfFacts DEF Soon
  <2>3. CASE i # 1
    <3>1. 1 < i
      BY <1>1, <2>3
    <3>2. <<timer_list[1], timer_list[i]>> \in Order
      BY <1>1, <3>1 DEF ListSound, SortedBy
    <3>3. Distance(timer_list[1]) < Distance(timer_list[i]) \/ Distance(timer_list[1]) = Distance(timer_list[i])
      BY <3>2 DEF Order
    <3> QED BY <1>2, <1>3, <2>1, <3>3, HalfFacts DEF Soon
  <2> QED BY <2>2, <2>3
<1> QED BY <1>2, <1>4, <1>5 DEF Elements

LEMMA ExpireKeepsList ==
    ASSUME Invariant, Expire
    PROVE  /\ ListSound'
           /\ Elements(timer_list') = Elements(timer_list) \ {expired'}
           /\ expired' \in Elements(timer_list) /\ expired' \in Timers
           /\ Distance(expired') <= 0
           /\ \A y : Distance(y)' = Distance(y)
<1>1. /\ timer_list # <<>> /\ expired' = timer_list[1] /\ Due(timer_list[1])
      /\ timer_list' = Tail(timer_list)
      /\ started' = Removed(started, expired')
      /\ activated' = IF expired' \in periodic THEN activated ELSE activated \ {expired'}
      /\ UNCHANGED <<rt_tick, timeout_tick>>
  BY DEF Expire
<1>2. ListSound
  BY DEF Invariant
<1>3. /\ timer_list' \in Seq(Timers)
      /\ timer_list[1] \in Timers
      /\ Elements(timer_list') = Elements(timer_list) \ {timer_list[1]}
      /\ Once(timer_list')
  BY <1>1, <1>2, TailOnce DEF ListSound
<1>4. SortedBy(timer_list', Order)
  BY <1>1, <1>2, TailSorted DEF ListSound
<1>5. /\ started' \in Seq(Timers)
      /\ Elements(started') = Elements(started) \ {expired'}
      /\ Once(started')
  BY <1>1, <1>2, RemovedOnce DEF ListSound
<1>6. ASSUME NEW y \in Elements(timer_list'), NEW z \in Elements(timer_list'), <<y, z>> \in Order
      PROVE  <<y, z>> \in Order'
  <2>1. y # expired' /\ z # expired' /\ started \in Seq(Timers)
    BY <1>1, <1>2, <1>3 DEF ListSound
  <2>2. Before(started, y, z) => Before(started', y, z)
    BY <1>1, <2>1, RemovedBefore
  <2> QED BY <1>1, <1>2, <1>6, <2>2, OrderStays
<1>7. SortedBy(timer_list', Order')
  BY <1>3, <1>4, <1>6, SortedAnew
<1>8. \A y : Distance(y)' = Distance(y)
  BY <1>1 DEF Distance
<1>9. activated' \subseteq Timers /\ Elements(timer_list') \subseteq activated'
  BY <1>1, <1>2, <1>3 DEF ListSound
<1>10. SortedBy(timer_list, Order)' = SortedBy(timer_list', Order') /\ Elements(timer_list)' = Elements(timer_list')
  OBVIOUS
<1>11. ListSound'
  BY <1>1, <1>2, <1>3, <1>5, <1>7, <1>8, <1>9, <1>10 DEF ListSound
<1>12. timer_list[1] \in Elements(timer_list) /\ Distance(timer_list[1]) <= 0
  BY <1>1, <1>2, FirstIsNext
<1>13. Distance(expired') = Distance(timer_list[1])
  BY <1>1 DEF Distance
<1> QED BY <1>1, <1>3, <1>8, <1>11, <1>12, <1>13

LEMMA ExpireKeeps ==
    ASSUME Invariant, Expire
    PROVE  Invariant'
<1>1. /\ isr = "check" /\ isr' = "callback" /\ temp' = TRUE
      /\ UNCHANGED <<rt_tick, periodic, init_tick, timeout_tick, stat, last, late>>
  BY DEF Expire, threadVars
<1> SUFFICES ASSUME NEW x, x = expired' PROVE Invariant'
  OBVIOUS
<1>2. /\ ListSound'
      /\ Elements(timer_list') = Elements(timer_list) \ {x}
      /\ x \in Elements(timer_list) /\ x \in Timers
      /\ Distance(x) <= 0
      /\ \A y : Distance(y)' = Distance(y)
  <2>1. Distance(expired') = Distance(x)
    BY DEF Distance
  <2> QED BY <2>1, ExpireKeepsList
<1>3. ThreadTypes' /\ TimerTypes'
  BY <1>1, <1>2 DEF Invariant, ThreadTypes, TimerTypes
<1>4. NothingMissed'
  BY <1>1, <1>2 DEF Invariant, NothingMissed
<1>5. ExpiredIsOut'
  <2>1. x \in activated' => x \in periodic'
    BY <1>1 DEF Expire
  <2> QED BY <1>1, <1>2, <2>1 DEF ExpiredIsOut
<1>6. NoStaleTimeout'
  BY <1>1, <1>2 DEF Invariant, NoStaleTimeout
<1>7. OnTime'
  <2> SUFFICES ASSUME NEW u \in Threads
               PROVE  /\ stat[u] = "until" /\ u \in Elements(timer_list') =>
                            timeout_tick[u] = last[u] /\ late[u] = -Distance(u)'
                      /\ stat[u] = "until" /\ u \notin Elements(timer_list') => last[u] = rt_tick /\ late[u] = 0
                      /\ stat[u] # "until" =>
                            late[u] >= 0 /\ (late[u] < MaxLate => Minus(rt_tick, last[u]) = late[u])
    BY <1>1 DEF OnTime
  <2>1. CASE u = x /\ stat[u] = "until"
    <3>1. Distance(u) >= 0 /\ timeout_tick[u] = last[u] /\ late[u] = -Distance(u)
      BY <1>2, <2>1 DEF Invariant, NothingMissed, OnTime
    <3>2. Distance(u) \in Soon /\ timeout_tick[u] \in Tick /\ rt_tick \in Tick
      BY <1>2, <2>1 DEF Invariant, ListSound
    <3>3. Distance(u) = 0
      BY <1>2, <2>1, <3>1, <3>2, HalfFacts DEF Soon
    <3>4. timeout_tick[u] = rt_tick
      BY <3>2, <3>3, DueIsDue DEF Distance
    <3>5. late[u] = 0
      <4>1. \A d \in Int : d <= 0 /\ d >= 0 => -d = 0
        OBVIOUS
      <4>2. Distance(u) \in Int /\ Distance(u) <= 0
        BY <3>3
      <4> QED BY <3>1, <4>1, <4>2, Zenon
    <3>6. u \notin Elements(timer_list')
      BY <1>2, <2>1
    <3> QED BY <2>1, <3>1, <3>4, <3>5, <3>6
  <2>2. CASE ~(u = x /\ stat[u] = "until")
    BY <1>2, <2>2 DEF Invariant, OnTime
  <2> QED BY <2>1, <2>2
<1> QED BY <1>2, <1>3, <1>4, <1>5, <1>6, <1>7 DEF Invariant

LEMMA TimeoutKeeps ==
    ASSUME Invariant, rt_thread_timeout
    PROVE  Invariant'
<1>1. /\ isr = "callback" /\ isr' = "return" /\ expired \in Threads
      /\ stat' = [stat EXCEPT ![expired] = "run"]
      /\ UNCHANGED <<rt_tick, expired, last, late, timer_list, activated, periodic, init_tick, timeout_tick, temp, started>>
  BY DEF rt_thread_timeout, timerUnchanged
<1>2. ListSound' /\ \A y : Stays(y)
  BY <1>1, UnchangedKeepsList DEF Invariant
<1>3. /\ stat' \in [Threads -> {"run"} \cup Suspended]
      /\ stat'[expired] = "run"
      /\ \A u \in Threads : u # expired => stat'[u] = stat[u]
  BY <1>1 DEF Invariant, ThreadTypes
<1>4. expired \notin Elements(timer_list) /\ expired \in Timers
  BY <1>1 DEF Invariant, ExpiredIsOut
<1>5. ThreadTypes' /\ TimerTypes'
  BY <1>1, <1>3 DEF Invariant, ThreadTypes, TimerTypes
<1>6. NothingMissed'
  <2> SUFFICES ASSUME NEW y \in Elements(timer_list), y \in Threads, stat'[y] = "until"
               PROVE  Distance(y)' >= 0
    BY <1>1 DEF NothingMissed
  <2>1. stat[y] = "until" /\ Distance(y)' = Distance(y)
    BY <1>2, <1>3, <1>4 DEF Stays
  <2> QED BY <2>1 DEF Invariant, NothingMissed
<1>7. ExpiredIsOut'
  BY <1>1, <1>4 DEF ExpiredIsOut
<1>8. NoStaleTimeout'
  <2> SUFFICES ASSUME NEW u \in Threads
               PROVE  stat'[u] \in Suspended <=> u \in Elements(timer_list)
    BY <1>1 DEF NoStaleTimeout
  <2>1. CASE u = expired
    BY <1>3, <1>4, <2>1 DEF Suspended
  <2>2. CASE u # expired
    BY <1>3, <2>2 DEF Invariant, NoStaleTimeout
  <2> QED BY <2>1, <2>2
<1>9. OnTime'
  <2> SUFFICES ASSUME NEW u \in Threads
               PROVE  /\ stat'[u] = "until" /\ u \in Elements(timer_list) =>
                            timeout_tick[u] = last[u] /\ late[u] = -Distance(u)'
                      /\ stat'[u] = "until" /\ u \notin Elements(timer_list) => last[u] = rt_tick /\ late[u] = 0
                      /\ stat'[u] # "until" =>
                            late[u] >= 0 /\ (late[u] < MaxLate => Minus(rt_tick, last[u]) = late[u])
    BY <1>1 DEF OnTime
  <2>0. Distance(u)' = Distance(u)
    BY <1>2 DEF Stays
  <2>1. CASE u = expired /\ stat[u] = "until"
    <3>1. last[u] = rt_tick /\ late[u] = 0
      BY <1>4, <2>1 DEF Invariant, OnTime
    <3>2. Minus(rt_tick, rt_tick) = 0
      BY HalfFacts DEF Invariant, ListSound, Minus
    <3> QED BY <1>3, <2>1, <3>1, <3>2
  <2>2. CASE u = expired /\ stat[u] # "until"
    BY <1>3, <2>2 DEF Invariant, OnTime
  <2>3. CASE u # expired
    BY <1>3, <2>0, <2>3 DEF Invariant, OnTime
  <2> QED BY <2>1, <2>2, <2>3
<1> QED BY <1>2, <1>5, <1>6, <1>7, <1>8, <1>9 DEF Invariant

LEMMA FunctionKeeps ==
    ASSUME Invariant, timeout_func
    PROVE  Invariant'
<1>1. /\ isr = "callback" /\ isr' = "return" /\ expired \in AppTimers
      /\ UNCHANGED <<rt_tick, expired, stat, last, late>>
  BY DEF timeout_func, threadVars
<1>2. expired \in Timers /\ expired \notin Threads /\ None \notin Threads /\ None \notin Timers
  BY <1>1, NamesAssumption DEF Timers
<1>3. CASE UNCHANGED timerUnchanged
  <2>1. Called(None)
    <3>1. ListSound' /\ \A y : Stays(y)
      BY <1>1, <1>3, UnchangedKeepsList DEF Invariant, timerUnchanged
    <3>2. TimerTypes'
      BY <1>3 DEF Invariant, TimerTypes, timerUnchanged
    <3> QED BY <3>1, <3>2 DEF Called
  <2> QED BY <1>1, <1>2, <2>1, CallKeeps
<1>4. CASE \E x \in AppTimers : TimerCall(x)
  <2>1. PICK x \in AppTimers : TimerCall(x)
    BY <1>4
  <2>2. x \notin Threads /\ Called(x)
    BY <1>1, <2>1, CallIsCall, NamesAssumption DEF Invariant
  <2> QED BY <1>1, <1>2, <2>2, CallKeeps
<1> QED BY <1>3, <1>4 DEF timeout_func

LEMMA RestartKeeps ==
    ASSUME Invariant, Restart
    PROVE  Invariant'
<1>1. isr = "return" /\ isr' = "check" /\ expired' = None /\ UNCHANGED <<rt_tick, stat, last, late>>
  BY DEF Restart, threadVars
<1>2. None \notin Threads
  BY NamesAssumption DEF Timers
<1>3. CASE temp /\ expired \in periodic \cap activated
  <2> SUFFICES ASSUME NEW x, x = expired PROVE Invariant'
    OBVIOUS
  <2>1. rt_timer_start(x)
    <3>1. rt_timer_start(expired)
      BY <1>3 DEF Restart
    <3> QED BY <3>1, Zenon
  <2>2. x \in AppTimers /\ x \notin Threads
    BY <1>3, NamesAssumption DEF Invariant, TimerTypes
  <2>3. Called(x)
    BY <1>1, <2>1, <2>2, CallIsCall DEF Invariant, TimerCall
  <2> QED BY <1>1, <2>2, <2>3, CallKeeps
<1>4. CASE ~(temp /\ expired \in periodic \cap activated)
  <2>1. temp' = FALSE /\ UNCHANGED <<timer_list, activated, periodic, init_tick, timeout_tick, started>>
    BY <1>4 DEF Restart
  <2>2. Called(None)
    <3>1. ListSound' /\ \A y : Stays(y)
      BY <1>1, <2>1, UnchangedKeepsList DEF Invariant
    <3>2. TimerTypes'
      BY <2>1 DEF Invariant, TimerTypes
    <3> QED BY <3>1, <3>2 DEF Called
  <2> QED BY <1>1, <1>2, <2>2, CallKeeps
<1> QED BY <1>3, <1>4

(* rt_timer_check ends when the first timer is ahead: then all are. *)
LEMMA DoneAllAhead ==
    ASSUME ListSound, timer_list # <<>> => ~Due(timer_list[1])
    PROVE  \A y \in Elements(timer_list) : Distance(y) >= 1
<1> SUFFICES ASSUME NEW y \in Elements(timer_list) PROVE Distance(y) >= 1
  OBVIOUS
<1>1. timer_list # <<>>
  BY DEF Elements
<1>2. timer_list[1] \in Elements(timer_list) /\ ~(Distance(timer_list[1]) <= 0) /\ Distance(timer_list[1]) <= Distance(y)
  BY <1>1, FirstIsNext
<1>3. Distance(timer_list[1]) \in Soon /\ Distance(y) \in Soon
  BY <1>2 DEF ListSound
<1> QED BY <1>2, <1>3, HalfFacts DEF Soon

LEMMA DoneKeeps ==
    ASSUME Invariant, CheckDone
    PROVE  Invariant'
<1>1. /\ isr = "check" /\ isr' = "off" /\ (timer_list # <<>> => ~Due(timer_list[1]))
      /\ UNCHANGED <<rt_tick, expired, stat, last, late, timer_list, activated, periodic,
                     init_tick, timeout_tick, temp, started>>
  BY DEF CheckDone, threadVars, timerUnchanged
<1>2. ListSound' /\ \A y : Stays(y)
  BY <1>1, UnchangedKeepsList DEF Invariant
<1>3. ThreadTypes' /\ TimerTypes'
  BY <1>1 DEF Invariant, ThreadTypes, TimerTypes
<1>4. NothingMissed'
  <2>1. \A y \in Elements(timer_list) : Distance(y) >= 1 /\ Distance(y) \in Soon
    BY <1>1, DoneAllAhead DEF Invariant, ListSound
  <2>2. \A y \in Elements(timer_list) : Distance(y)' >= 1 /\ Distance(y)' >= 0
    BY <1>2, <2>1, HalfFacts DEF Stays, Soon
  <2> QED BY <1>1, <2>2 DEF NothingMissed
<1>5. ExpiredIsOut' /\ NoStaleTimeout'
  BY <1>1 DEF Invariant, ExpiredIsOut, NoStaleTimeout
<1>6. OnTime'
  BY <1>1, <1>2 DEF Invariant, OnTime, Stays
<1> QED BY <1>2, <1>3, <1>4, <1>5, <1>6 DEF Invariant

LEMMA UseKeeps ==
    ASSUME Invariant, NEW x \in AppTimers, UseTimer(x)
    PROVE  Invariant'
<1>1. isr = "off" /\ UNCHANGED <<rt_tick, isr, expired, stat, last, late>> /\ TimerCall(x)
  BY DEF UseTimer, isrVars, threadVars
<1>2. x \notin Threads /\ expired \in Timers \cup {None} /\ expired = None
  BY <1>1, NamesAssumption DEF Invariant, ThreadTypes, ExpiredIsOut
<1>3. Called(x)
  BY <1>1, CallIsCall DEF Invariant
<1> QED BY <1>1, <1>2, <1>3, CallKeeps

LEMMA StutterKeeps ==
    ASSUME Invariant, UNCHANGED vars
    PROVE  Invariant'
<1>1. UNCHANGED <<rt_tick, timer_list, activated, periodic, init_tick, timeout_tick,
                  isr, expired, temp, stat, last, late, started>>
  BY DEF vars
<1>2. ListSound' /\ \A y : Stays(y)
  BY <1>1, UnchangedKeepsList DEF Invariant
<1>3. ThreadTypes' /\ TimerTypes'
  BY <1>1 DEF Invariant, ThreadTypes, TimerTypes
<1>4. NothingMissed' /\ ExpiredIsOut' /\ NoStaleTimeout' /\ OnTime'
  BY <1>1, <1>2 DEF Invariant, NothingMissed, ExpiredIsOut, NoStaleTimeout, OnTime, Stays
<1> QED BY <1>2, <1>3, <1>4 DEF Invariant

-----------------------------------------------------------------------------
(* The theorems *)

LEMMA InitHolds == Init => Invariant
<1> SUFFICES ASSUME Init PROVE Invariant
  OBVIOUS
<1>1. /\ rt_tick = 0 /\ timer_list = <<>> /\ started = <<>> /\ activated = {}
      /\ timeout_tick = [x \in Timers |-> 0]
      /\ isr = "off" /\ expired = None /\ temp = FALSE
      /\ stat = [t \in Threads |-> "run"] /\ last = [t \in Threads |-> 0] /\ late = [t \in Threads |-> 0]
  BY DEF Init
<1>2. 0 \in Tick /\ 0 \in -Half .. MaxLate /\ 0 \in 0 .. Half - 1 /\ Minus(0, 0) = 0
  BY HalfFacts, MaxLateAssumption DEF Minus
<1>3. Elements(timer_list) = {} /\ Elements(started) = {} /\ Once(timer_list) /\ Once(started)
  BY <1>1 DEF Elements, Once
<1>4. SortedBy(timer_list, Order)
  BY <1>1 DEF SortedBy
<1>5. ListSound
  BY <1>1, <1>2, <1>3, <1>4 DEF ListSound
<1>6. TimerTypes
  <2>1. PICK n \in Periods : init_tick = [x \in Timers |-> IF x \in Threads THEN 0 ELSE n]
    BY DEF Init
  <2>2. n \in 0 .. Half - 1
    BY PeriodsAssumption, HalfFacts
  <2>3. init_tick \in [Timers -> 0 .. Half - 1]
    BY <1>2, <2>1, <2>2
  <2>4. \A x \in AppTimers : init_tick[x] \in Periods
    BY <2>1, NamesAssumption DEF Timers
  <2> QED BY <1>1, <2>3, <2>4 DEF TimerTypes, Init
<1>7. ThreadTypes
  BY <1>1, <1>2 DEF ThreadTypes
<1>8. NothingMissed /\ ExpiredIsOut
  BY <1>1, <1>3 DEF NothingMissed, ExpiredIsOut
<1>9. NoStaleTimeout
  BY <1>1, <1>3 DEF NoStaleTimeout, Suspended
<1>10. OnTime
  BY <1>1, <1>2 DEF OnTime
<1> QED BY <1>5, <1>6, <1>7, <1>8, <1>9, <1>10 DEF Invariant

LEMMA StepKeeps == Invariant /\ [Next]_vars => Invariant'
<1> SUFFICES ASSUME Invariant, [Next]_vars PROVE Invariant'
  OBVIOUS
<1>1. CASE rt_tick_increase
  BY <1>1, TickKeeps
<1>2. CASE rt_timer_check
  BY <1>2, ExpireKeeps, TimeoutKeeps, FunctionKeeps, RestartKeeps, DoneKeeps DEF rt_timer_check
<1>3. CASE \E x \in AppTimers : UseTimer(x)
  BY <1>3, UseKeeps
<1>4. ASSUME NEW t \in Threads, Thread(t) PROVE Invariant'
  BY <1>4, SleepKeeps, DelayUntilKeeps, MissedKeeps, ResumeKeeps DEF Thread
<1>5. CASE UNCHANGED vars
  BY <1>5, StutterKeeps
<1> QED BY <1>1, <1>2, <1>3, <1>4, <1>5 DEF Next

(* The list, the threads and the counter fit together in every reachable       *)
(* state: the timeouts of listed timers lie in a window of half the range of *)
(* rt_tick_t that moves with rt_tick, which makes both comparisons of        *)
(* timer.c right although the counter wraps around.                          *)
THEOREM TimersInvariant == Spec => []Invariant
<1> QED BY InitHolds, StepKeeps, PTL DEF Spec

LEMMA InvariantLists == Invariant => TimerListSound
<1> SUFFICES ASSUME Invariant PROVE TimerListSound
  OBVIOUS
<1>1. TypeOK
  BY DEF Invariant, ListSound, TimerTypes, ThreadTypes, TypeOK
<1>2. ASSUME NEW x \in Elements(timer_list)
      PROVE  /\ Distance(x) \in Soon
             /\ Left(x) = IF Distance(x) <= 0 THEN 0 ELSE Distance(x)
             /\ Distance(x) >= 0 => Minus(timeout_tick[x], rt_tick) = Distance(x)
  <2>1. timeout_tick[x] \in Tick /\ rt_tick \in Tick /\ Distance(x) \in Soon
    BY ListedAreTimers DEF Invariant, ListSound
  <2>2. /\ Due(x) <=> Distance(x) <= 0
        /\ Distance(x) >= 0 => Minus(timeout_tick[x], rt_tick) = Distance(x)
    BY <2>1, DueIsDue DEF Distance, Due
  <2>3. ~(Distance(x) <= 0) => Distance(x) >= 0
    BY <2>1, HalfFacts DEF Soon
  <2> QED BY <2>1, <2>2, <2>3 DEF Left
<1>3. ListInOrder
  <2> SUFFICES ASSUME NEW i \in 1 .. Len(timer_list), NEW j \in 1 .. Len(timer_list), i < j,
                      NEW x, NEW y, x = timer_list[i], y = timer_list[j]
               PROVE  Left(x) <= Left(y) /\ (timeout_tick[x] = timeout_tick[y] => StartedBefore(x, y))
    BY DEF ListInOrder
  <2>1. x \in Elements(timer_list) /\ y \in Elements(timer_list)
    BY DEF Elements
  <2>2. \/ Distance(x) < Distance(y)
        \/ Distance(x) = Distance(y) /\ StartedBefore(x, y)
    <3>1. <<x, y>> \in Order
      BY DEF Invariant, ListSound, SortedBy
    <3> QED BY <3>1 DEF Order
  <2>3. Left(x) <= Left(y)
    BY <1>2, <2>1, <2>2, HalfFacts DEF Soon
  <2>4. timeout_tick[x] = timeout_tick[y] => Distance(x) = Distance(y)
    BY DEF Distance
  <2>5. Distance(x) \in Int /\ Distance(y) \in Int
    BY <1>2, <2>1, HalfFacts DEF Soon
  <2> QED BY <2>2, <2>3, <2>4, <2>5
<1>4. NothingOverdue
  <2> SUFFICES ASSUME isr = "off", NEW i \in 1 .. Len(timer_list), NEW x, x = timer_list[i]
               PROVE  Minus(timeout_tick[x], rt_tick) < Half
    BY DEF NothingOverdue
  <2>1. x \in Elements(timer_list)
    BY DEF Elements
  <2>2. Distance(x) >= 0
    BY <2>1 DEF Invariant, NothingMissed
  <2> QED BY <1>2, <2>1, <2>2, HalfFacts DEF Soon
<1> QED BY <1>1, <1>3, <1>4 DEF TimerListSound

(* rt_timer_check may stop at the first timer that is not due: the list is in  *)
(* the order of the timeouts, equal ones in the order of rt_timer_start, and *)
(* holds none past its tick outside the interrupt.                           *)
THEOREM ListStaysSound == Spec => []TimerListSound
<1> QED BY TimersInvariant, InvariantLists, PTL

(* The assertion of rt_thread_timeout holds: no timer outlives the wait it was *)
(* started for.                                                              *)
THEOREM TimeoutsAreFresh == Spec => []NoStaleTimeout
<1>1. Invariant => NoStaleTimeout
  BY DEF Invariant
<1> QED BY <1>1, TimersInvariant, PTL

LEMMA StepWakesOnPeriod ==
    ASSUME Invariant, [Next]_vars, NEW t \in Threads, stat[t] = "until", stat'[t] = "run"
    PROVE  late[t] = 0
<1>0. stat \in [Threads -> {"run"} \cup Suspended]
  BY DEF Invariant, ThreadTypes
<1>1. stat' # stat
  OBVIOUS
<1>2. CASE rt_thread_timeout
  <2>1. t = expired /\ isr = "callback"
    BY <1>0, <1>2 DEF rt_thread_timeout
  <2> QED BY <2>1 DEF Invariant, ExpiredIsOut, OnTime
<1>3. ASSUME NEW u \in Threads, Thread(u) PROVE FALSE
  <2>1. CASE rt_thread_sleep(u) \/ rt_thread_delay_until(u) \/ WaitFor(u)
    <3>1. PICK why \in Suspended : stat' = [stat EXCEPT ![u] = why]
      BY <2>1 DEF rt_thread_sleep, rt_thread_delay_until, WaitFor, SuspendFor, Suspended
    <3> QED BY <1>0, <3>1 DEF Suspended
  <2>2. CASE rt_thread_resume(u)
    BY <1>0, <2>2 DEF rt_thread_resume
  <2>3. CASE DelayMissed(u)
    BY <1>1, <2>3 DEF DelayMissed
  <2> QED BY <1>3, <2>1, <2>2, <2>3 DEF Thread
<1>4. CASE UNCHANGED stat
  BY <1>1, <1>4
<1>5. rt_thread_timeout \/ (\E u \in Threads : Thread(u)) \/ UNCHANGED stat
  <2>1. rt_tick_increase => UNCHANGED stat
    BY DEF rt_tick_increase
  <2>2. Expire \/ timeout_func \/ Restart \/ CheckDone => UNCHANGED stat
    BY DEF Expire, timeout_func, Restart, CheckDone, threadVars
  <2>3. \A x \in AppTimers : UseTimer(x) => UNCHANGED stat
    BY DEF UseTimer, threadVars
  <2>4. UNCHANGED vars => UNCHANGED stat
    BY DEF vars
  <2> QED BY <2>1, <2>2, <2>3, <2>4 DEF Next, rt_timer_check
<1> QED BY <1>2, <1>3, <1>4, <1>5

(* rt_thread_delay_until wakes a thread that came in time in the very tick its *)
(* period ends, however the counter wraps around meanwhile.                  *)
THEOREM PeriodsDoNotDrift == Spec => WakesOnPeriod
<1>1. Invariant /\ [Next]_vars => [\A t \in Threads : stat[t] = "until" /\ stat'[t] = "run" => late[t] = 0]_vars
  BY StepWakesOnPeriod
<1> QED BY <1>1, TimersInvariant, PTL DEF Spec, WakesOnPeriod

-----------------------------------------------------------------------------
(* The timers implement the alarms. *)

Remaining == [x \in Timers |-> IF x \in Elements(timer_list) \cap activated
                               THEN Left(x) ELSE Off]

Again == temp /\ expired \in periodic \cap activated

alarmVars == <<init_tick, periodic, Remaining, isr # "off", expired, Again>>

(* Every listed timer has its flag, so the list alone says what remains. *)
LEMMA RemainingListed ==
    Invariant => \A x \in Timers :
                    Remaining[x] = IF x \in Elements(timer_list) THEN Left(x) ELSE Off
BY DEF Remaining, Invariant, ListSound

LEMMA LeftOfListed ==
    ASSUME Invariant, NEW x \in Elements(timer_list)
    PROVE  /\ x \in Timers
           /\ Distance(x) \in Soon
           /\ Left(x) = IF Distance(x) <= 0 THEN 0 ELSE Distance(x)
           /\ Left(x) \in Nat
<1>1. x \in Timers /\ timeout_tick[x] \in Tick /\ rt_tick \in Tick /\ Distance(x) \in Soon
  BY ListedAreTimers DEF Invariant, ListSound
<1>2. /\ Due(x) <=> Distance(x) <= 0
      /\ Distance(x) >= 0 => Minus(timeout_tick[x], rt_tick) = Distance(x)
  BY <1>1, DueIsDue DEF Distance, Due
<1>3. Left(x) = IF Distance(x) <= 0 THEN 0 ELSE Distance(x)
  BY <1>1, <1>2, HalfFacts DEF Left, Soon
<1>4. Left(x) \in Nat
  BY <1>1, <1>3, HalfFacts DEF Soon
<1> QED BY <1>1, <1>3, <1>4

(* What remains of every timer, by its distance. *)
RemainingIs ==
    \A x \in Timers :
        /\ x \in Elements(timer_list) =>
              /\ Distance(x) \in Soon
              /\ Remaining[x] = IF Distance(x) <= 0 THEN 0 ELSE Distance(x)
              /\ Remaining[x] \in Nat
        /\ x \notin Elements(timer_list) => Remaining[x] = Off

LEMMA InvariantRemaining == Invariant => RemainingIs
BY RemainingListed, LeftOfListed DEF RemainingIs

LEMMA InvariantRemainingNext == Invariant' => RemainingIs'
BY InvariantRemaining, PTL

(* The abstract alarms, in terms of this module. *)
LEMMA AlarmSteps ==
    /\ Alarm!MayCall <=> (isr # "off" => expired # None)
    /\ Alarm!Init <=> /\ init_tick \in [Timers -> Nat] /\ periodic \subseteq Timers
                      /\ Remaining = [x \in Timers |-> Off] /\ (isr # "off") = FALSE
                      /\ expired = None /\ Again = FALSE
    /\ \A x \in Timers : Alarm!Set(x) <=>
          /\ Alarm!MayCall
          /\ init_tick'[x] \in Nat
          /\ init_tick' = [init_tick EXCEPT ![x] = init_tick'[x]]
          /\ Remaining' = [Remaining EXCEPT ![x] = init_tick'[x]]
          /\ Again' = (Again /\ x # expired)
          /\ periodic' = periodic /\ (isr # "off")' = (isr # "off") /\ expired' = expired
    /\ \A x \in Timers : Alarm!Stop(x) <=>
          /\ Alarm!MayCall
          /\ Remaining' = [Remaining EXCEPT ![x] = Off]
          /\ Again' = (Again /\ x # expired)
          /\ init_tick' = init_tick /\ periodic' = periodic
          /\ (isr # "off")' = (isr # "off") /\ expired' = expired
    /\ \A x \in Timers : Alarm!Ask(x) <=>
          /\ Alarm!MayCall
          /\ \/ /\ init_tick'[x] \in Nat
                /\ init_tick' = [init_tick EXCEPT ![x] = init_tick'[x]]
                /\ periodic' = periodic /\ Again' = Again
             \/ /\ periodic' \in {periodic \ {x}, periodic \cup {x}}
                /\ Again' = (Again /\ expired \in periodic')
                /\ init_tick' = init_tick
          /\ Remaining' = Remaining /\ (isr # "off")' = (isr # "off") /\ expired' = expired
    /\ Alarm!Advance <=>
          /\ isr = "off" /\ (isr # "off")' = TRUE
          /\ Remaining' = [x \in Timers |-> IF Remaining[x] \in {Off, 0} THEN Remaining[x] ELSE Remaining[x] - 1]
          /\ init_tick' = init_tick /\ periodic' = periodic /\ expired' = expired /\ Again' = Again
    /\ \A x \in Timers : Alarm!Ring(x) <=>
          /\ isr # "off" /\ expired = None /\ Remaining[x] = 0
          /\ Remaining' = [Remaining EXCEPT ![x] = Off]
          /\ expired' = x /\ Again' = (x \in periodic)
          /\ init_tick' = init_tick /\ periodic' = periodic /\ (isr # "off")' = (isr # "off")
    /\ Alarm!Silence <=>
          /\ expired # None
          /\ Remaining' = IF Again THEN [Remaining EXCEPT ![expired] = init_tick[expired]] ELSE Remaining
          /\ expired' = None /\ Again' = FALSE
          /\ init_tick' = init_tick /\ periodic' = periodic /\ (isr # "off")' = (isr # "off")
    /\ Alarm!Quiet <=>
          /\ isr # "off" /\ expired = None /\ \A x \in Timers : Remaining[x] # 0
          /\ (isr # "off")' = FALSE
          /\ init_tick' = init_tick /\ periodic' = periodic /\ Remaining' = Remaining
          /\ expired' = expired /\ Again' = Again
<1>1. Alarm!MayCall <=> (isr # "off" => expired # None)
  BY DEF Alarm!MayCall
<1>2. Alarm!Init <=> /\ init_tick \in [Timers -> Nat] /\ periodic \subseteq Timers
                     /\ Remaining = [x \in Timers |-> Off] /\ (isr # "off") = FALSE
                     /\ expired = None /\ Again = FALSE
  BY DEF Alarm!Init, Remaining, Again
<1> QED BY <1>1, <1>2 DEF Alarm!Set, Alarm!Stop, Alarm!Ask, Alarm!Advance, Alarm!Ring,
                          Alarm!Silence, Alarm!Quiet, Remaining, Again

(* A timer that is neither started nor taken out has as many ticks left. *)
LEMMA RemainingStays ==
    ASSUME RemainingIs, RemainingIs', NEW x \in Timers, Stays(x)
    PROVE  Remaining'[x] = Remaining[x]
<1>1. CASE x \in Elements(timer_list)
  BY <1>1 DEF RemainingIs, Stays
<1>2. CASE x \notin Elements(timer_list)
  BY <1>2 DEF RemainingIs, Stays
<1> QED BY <1>1, <1>2

LEMMA AllRemain ==
    ASSUME RemainingIs, RemainingIs', \A y \in Timers : Stays(y)
    PROVE  Remaining' = Remaining
<1>1. \A y \in Timers : Remaining'[y] = Remaining[y]
  BY RemainingStays
<1> QED BY <1>1 DEF Remaining

LEMMA OneChanges ==
    ASSUME RemainingIs, RemainingIs', NEW x \in Timers, \A y \in Timers : y # x => Stays(y),
           NEW n, Remaining'[x] = n
    PROVE  Remaining' = [Remaining EXCEPT ![x] = n]
<1>1. \A y \in Timers : y # x => Remaining'[y] = Remaining[y]
  BY RemainingStays
<1> QED BY <1>1 DEF Remaining

(* What a start does to the timers. *)
LEMMA StartRemains ==
    ASSUME Invariant, Invariant', NEW x \in Timers, NEW n \in 0 .. Half - 1, StartWith(x, n),
           rt_tick' = rt_tick
    PROVE  /\ Remaining' = [Remaining EXCEPT ![x] = n]
           /\ init_tick' = [init_tick EXCEPT ![x] = n] /\ init_tick'[x] = n
           /\ periodic' = periodic
<1>1. RemainingIs /\ RemainingIs' /\ ListSound /\ init_tick \in [Timers -> 0 .. Half - 1]
  BY InvariantRemaining, InvariantRemainingNext DEF Invariant, TimerTypes
<1>2. /\ Elements(timer_list)' = Elements(timer_list) \cup {x}
      /\ Distance(x)' = n
      /\ \A y \in Timers : y # x => Distance(y)' = Distance(y) /\ timeout_tick'[y] = timeout_tick[y]
  BY <1>1, StartKeepsList
<1>3. \A y \in Timers : y # x => Stays(y)
  BY <1>2 DEF Stays
<1>4. n \in Nat /\ (IF n <= 0 THEN 0 ELSE n) = n
  BY HalfFacts
<1>5. Remaining'[x] = n
  BY <1>1, <1>2, <1>4 DEF RemainingIs
<1>6. Remaining' = [Remaining EXCEPT ![x] = n]
  BY <1>1, <1>3, <1>5, OneChanges
<1>7. init_tick' = [init_tick EXCEPT ![x] = n] /\ periodic' = periodic
  BY DEF StartWith
<1> QED BY <1>1, <1>6, <1>7

LEMMA StartRefines ==
    ASSUME Invariant, Invariant', NEW x \in Timers, NEW n \in 0 .. Half - 1, StartWith(x, n),
           rt_tick' = rt_tick, expired' = expired, (isr # "off")' = (isr # "off"),
           isr # "off" => expired # None
    PROVE  Alarm!Set(x)
<1>1. /\ Remaining' = [Remaining EXCEPT ![x] = n]
      /\ init_tick' = [init_tick EXCEPT ![x] = n] /\ init_tick'[x] = n
      /\ periodic' = periodic
  BY StartRemains
<1>2. n \in Nat
  BY HalfFacts
<1>3. temp' = (temp /\ x # expired) /\ activated' = activated \cup {x}
  BY DEF StartWith
<1>4. Again' = (Again /\ x # expired)
  BY <1>1, <1>3 DEF Again
<1> QED BY <1>1, <1>2, <1>4, AlarmSteps

LEMMA StopRefines ==
    ASSUME Invariant, Invariant', NEW x \in Timers, TakeOut(x),
           rt_tick' = rt_tick, expired' = expired, (isr # "off")' = (isr # "off"),
           isr # "off" => expired # None
    PROVE  Alarm!Stop(x)
<1>1. RemainingIs /\ RemainingIs' /\ ListSound
  BY InvariantRemaining, InvariantRemainingNext DEF Invariant
<1>2. /\ Elements(timer_list)' = Elements(timer_list) \ {x}
      /\ \A y : Distance(y)' = Distance(y)
  BY <1>1, TakeOutKeepsList
<1>3. /\ UNCHANGED <<periodic, init_tick, timeout_tick>>
      /\ temp' = (temp /\ x # expired) /\ activated' = activated \ {x}
  BY DEF TakeOut
<1>4. \A y \in Timers : y # x => Stays(y)
  BY <1>2, <1>3 DEF Stays
<1>5. Remaining'[x] = Off
  BY <1>1, <1>2 DEF RemainingIs
<1>6. Remaining' = [Remaining EXCEPT ![x] = Off]
  BY <1>1, <1>4, <1>5, OneChanges
<1>7. Again' = (Again /\ x # expired)
  BY <1>3 DEF Again
<1> QED BY <1>3, <1>6, <1>7, AlarmSteps

(* A step that leaves the list and the flags alone. *)
LEMMA SameRemains ==
    ASSUME Invariant, Invariant', rt_tick' = rt_tick,
           UNCHANGED <<timer_list, activated, timeout_tick, started>>
    PROVE  Remaining' = Remaining
<1>1. RemainingIs /\ RemainingIs' /\ ListSound
  BY InvariantRemaining, InvariantRemainingNext DEF Invariant
<1>2. \A y \in Timers : Stays(y)
  BY <1>1, UnchangedKeepsList
<1> QED BY <1>1, <1>2, AllRemain

LEMMA StayRefines ==
    ASSUME Invariant, Invariant', rt_tick' = rt_tick, UNCHANGED timerUnchanged,
           expired' = expired, (isr # "off")' = (isr # "off")
    PROVE  UNCHANGED alarmVars
<1>1. UNCHANGED <<timer_list, activated, periodic, init_tick, timeout_tick, temp, started>>
  BY DEF timerUnchanged
<1>2. Remaining' = Remaining
  BY <1>1, SameRemains
<1>3. Again' = Again
  BY <1>1 DEF Again
<1> QED BY <1>1, <1>2, <1>3 DEF alarmVars

(* rt_timer_control, from a thread or from a timeout function. *)
LEMMA ControlRefines ==
    ASSUME Invariant, Invariant', NEW x \in AppTimers, rt_timer_control(x),
           rt_tick' = rt_tick, expired' = expired, (isr # "off")' = (isr # "off"),
           isr \in {"off", "callback"}
    PROVE  Alarm!Ask(x)
<1>1. x \in Timers /\ None \notin Timers /\ periodic \subseteq AppTimers /\ AppTimers \subseteq Timers
  BY NamesAssumption DEF Timers, Invariant, TimerTypes
<1>2. UNCHANGED <<timer_list, activated, timeout_tick, temp, started>>
  BY DEF rt_timer_control
<1>3. Remaining' = Remaining
  BY <1>2, SameRemains
<1>4. /\ isr = "off" => expired = None
      /\ isr = "callback" => expired \in Timers /\ (expired \in activated => expired \in periodic)
  BY DEF Invariant, ExpiredIsOut
<1>5. Alarm!MayCall
  BY <1>1, <1>4, AlarmSteps
<1>6. CASE /\ \E n \in Periods : init_tick' = [init_tick EXCEPT ![x] = n]
           /\ periodic' = periodic
  <2>1. PICK n \in Periods : init_tick' = [init_tick EXCEPT ![x] = n]
    BY <1>6
  <2>2. n \in Nat
    BY PeriodsAssumption, HalfFacts
  <2>3. init_tick'[x] = n
    BY <1>1, <2>1 DEF Invariant, TimerTypes
  <2>4. Again' = Again
    BY <1>2, <1>6 DEF Again
  <2> QED BY <1>1, <1>3, <1>5, <1>6, <2>1, <2>2, <2>3, <2>4, AlarmSteps
<1>7. CASE periodic' \in {periodic \ {x}, periodic \cup {x}} /\ init_tick' = init_tick
  <2>1. Again' = (Again /\ expired \in periodic')
    <3>1. CASE isr = "off"
      BY <1>1, <1>2, <1>4, <1>7, <3>1 DEF Again
    <3>2. CASE isr = "callback"
      BY <1>1, <1>2, <1>4, <1>7, <3>2 DEF Again
    <3> QED BY <3>1, <3>2
  <2> QED BY <1>1, <1>3, <1>5, <1>7, <2>1, AlarmSteps
<1> QED BY <1>6, <1>7 DEF rt_timer_control

LEMMA CallRefines ==
    ASSUME Invariant, Invariant', NEW x \in AppTimers, TimerCall(x),
           rt_tick' = rt_tick, expired' = expired, (isr # "off")' = (isr # "off"),
           isr \in {"off", "callback"}
    PROVE  Alarm!Set(x) \/ Alarm!Stop(x) \/ Alarm!Ask(x) \/ UNCHANGED alarmVars
<1>1. x \in Timers /\ (isr # "off" => expired # None)
  BY NamesAssumption DEF Timers, Invariant, ExpiredIsOut
<1>2. CASE rt_timer_start(x)
  <2> SUFFICES ASSUME NEW n, n = init_tick[x] PROVE Alarm!Set(x)
    OBVIOUS
  <2>1. n \in 0 .. Half - 1
    BY <1>1 DEF Invariant, TimerTypes
  <2>2. StartWith(x, n)
    BY <1>2, Zenon DEF rt_timer_start
  <2> QED BY <1>1, <2>1, <2>2, StartRefines
<1>3. CASE TakeOut(x)
  BY <1>1, <1>3, StopRefines
<1>4. CASE UNCHANGED timerUnchanged
  BY <1>4, StayRefines
<1>5. CASE rt_timer_control(x)
  BY <1>5, ControlRefines
<1> QED BY <1>2, <1>3, <1>4, <1>5 DEF TimerCall, rt_timer_stop, rt_timer_detach

LEMMA TickRefines ==
    ASSUME Invariant, Invariant', rt_tick_increase
    PROVE  Alarm!Advance
<1>1. /\ isr = "off" /\ isr' = "check"
      /\ UNCHANGED <<expired, timer_list, activated, periodic, init_tick, temp>>
  BY DEF rt_tick_increase, timerUnchanged
<1>2. RemainingIs /\ RemainingIs'
  BY InvariantRemaining, InvariantRemainingNext
<1>3. ASSUME NEW x \in Timers
      PROVE  Remaining'[x] = IF Remaining[x] \in {Off, 0} THEN Remaining[x] ELSE Remaining[x] - 1
  <2>1. CASE x \in Elements(timer_list)
    <3>1. Distance(x)' = Distance(x) - 1 /\ Distance(x) \in 0 .. Half - 1
      BY <2>1, TickKeepsList
    <3>2. Remaining[x] = IF Distance(x) <= 0 THEN 0 ELSE Distance(x)
      BY <1>2, <2>1 DEF RemainingIs
    <3>3. Remaining'[x] = IF Distance(x)' <= 0 THEN 0 ELSE Distance(x)'
      BY <1>1, <1>2, <2>1 DEF RemainingIs
    <3> QED BY <3>1, <3>2, <3>3, HalfFacts DEF Off
  <2>2. CASE x \notin Elements(timer_list)
    BY <1>1, <1>2, <2>2 DEF RemainingIs
  <2> QED BY <2>1, <2>2
<1>4. Remaining' = [x \in Timers |-> IF Remaining[x] \in {Off, 0} THEN Remaining[x] ELSE Remaining[x] - 1]
  BY <1>3 DEF Remaining
<1>5. Again' = Again
  BY <1>1 DEF Again
<1> QED BY <1>1, <1>4, <1>5, AlarmSteps

LEMMA ExpireRefines ==
    ASSUME Invariant, Invariant', Expire
    PROVE  \E x \in Timers : Alarm!Ring(x)
<1>1. /\ isr = "check" /\ isr' = "callback" /\ temp' = TRUE
      /\ UNCHANGED <<rt_tick, timeout_tick, periodic, init_tick>>
  BY DEF Expire
<1> SUFFICES ASSUME NEW x, x = expired' PROVE \E y \in Timers : Alarm!Ring(y)
  OBVIOUS
<1>2. /\ Elements(timer_list') = Elements(timer_list) \ {x}
      /\ x \in Elements(timer_list) /\ x \in Timers
      /\ Distance(x) <= 0
      /\ \A y : Distance(y)' = Distance(y)
  <2>1. Distance(expired') = Distance(x)
    BY DEF Distance
  <2> QED BY <2>1, ExpireKeepsList
<1>3. RemainingIs /\ RemainingIs' /\ expired = None
  BY <1>1, InvariantRemaining, InvariantRemainingNext DEF Invariant, ExpiredIsOut
<1>4. Remaining[x] = 0 /\ Remaining'[x] = Off
  BY <1>2, <1>3 DEF RemainingIs
<1>5. \A y \in Timers : y # x => Stays(y)
  BY <1>1, <1>2 DEF Stays
<1>6. Remaining' = [Remaining EXCEPT ![x] = Off]
  BY <1>2, <1>3, <1>4, <1>5, OneChanges
<1>7. Again' = (x \in periodic)
  <2>1. x \in activated
    BY <1>2 DEF Invariant, ListSound
  <2>2. activated' = IF x \in periodic THEN activated ELSE activated \ {x}
    BY DEF Expire
  <2> QED BY <1>1, <2>1, <2>2 DEF Again
<1> QED BY <1>1, <1>2, <1>3, <1>4, <1>6, <1>7, AlarmSteps

LEMMA RestartRefines ==
    ASSUME Invariant, Invariant', Restart
    PROVE  Alarm!Silence
<1>1. isr = "return" /\ isr' = "check" /\ expired' = None /\ rt_tick' = rt_tick
  BY DEF Restart
<1>2. expired \in Timers /\ expired # None /\ periodic \subseteq AppTimers
  BY <1>1, NamesAssumption DEF Invariant, ExpiredIsOut, TimerTypes
<1>3. Again' = FALSE
  <2>1. expired' \notin periodic'
    BY <1>1, NamesAssumption DEF Invariant, TimerTypes, Timers
  <2> QED BY <2>1 DEF Again
<1>4. CASE Again
  <2> SUFFICES ASSUME NEW x, x = expired, NEW n, n = init_tick[x] PROVE Alarm!Silence
    OBVIOUS
  <2>1. x \in Timers /\ n \in 0 .. Half - 1
    BY <1>2 DEF Invariant, TimerTypes
  <2>2. StartWith(x, n)
    <3>1. rt_timer_start(expired)
      BY <1>4 DEF Restart, Again
    <3> QED BY <3>1, Zenon DEF rt_timer_start
  <2>3. /\ Remaining' = [Remaining EXCEPT ![x] = n]
        /\ init_tick' = [init_tick EXCEPT ![x] = n] /\ periodic' = periodic
    BY <1>1, <2>1, <2>2, StartRemains
  <2>4. init_tick' = init_tick
    BY <2>1, <2>3 DEF Invariant, TimerTypes
  <2> QED BY <1>1, <1>2, <1>3, <1>4, <2>3, <2>4, AlarmSteps
<1>5. CASE ~Again
  <2>1. UNCHANGED <<timer_list, activated, periodic, init_tick, timeout_tick, started>>
    BY <1>5 DEF Restart, Again
  <2>2. Remaining' = Remaining
    BY <1>1, <2>1, SameRemains
  <2> QED BY <1>1, <1>2, <1>3, <1>5, <2>1, <2>2, AlarmSteps
<1> QED BY <1>4, <1>5

LEMMA DoneRefines ==
    ASSUME Invariant, Invariant', CheckDone
    PROVE  Alarm!Quiet
<1>1. /\ isr = "check" /\ isr' = "off" /\ (timer_list # <<>> => ~Due(timer_list[1]))
      /\ UNCHANGED <<rt_tick, expired, timer_list, activated, periodic, init_tick, timeout_tick, temp, started>>
  BY DEF CheckDone, timerUnchanged
<1>2. RemainingIs /\ expired = None
  BY <1>1, InvariantRemaining DEF Invariant, ExpiredIsOut
<1>3. \A x \in Timers : Remaining[x] # 0
  <2> SUFFICES ASSUME NEW x \in Timers PROVE Remaining[x] # 0
    OBVIOUS
  <2>1. CASE x \in Elements(timer_list)
    <3>1. Distance(x) >= 1 /\ Distance(x) \in Soon
      BY <1>1, <2>1, DoneAllAhead DEF Invariant, ListSound
    <3>2. Remaining[x] = IF Distance(x) <= 0 THEN 0 ELSE Distance(x)
      BY <1>2, <2>1 DEF RemainingIs
    <3> QED BY <3>1, <3>2, HalfFacts DEF Soon
  <2>2. CASE x \notin Elements(timer_list)
    BY <1>2, <2>2 DEF RemainingIs, Off
  <2> QED BY <2>1, <2>2
<1>4. Remaining' = Remaining
  BY <1>1, SameRemains
<1>5. Again' = Again
  BY <1>1 DEF Again
<1> QED BY <1>1, <1>2, <1>3, <1>4, <1>5, AlarmSteps

LEMMA ThreadRefines ==
    ASSUME Invariant, Invariant', NEW t \in Threads, Thread(t)
    PROVE  Alarm!Set(t) \/ Alarm!Stop(t) \/ UNCHANGED alarmVars
<1>1. t \in Timers /\ UNCHANGED <<rt_tick, isr, expired>> /\ isr = "off"
  BY DEF Timers, Thread, rt_thread_sleep, rt_thread_delay_until, DelayMissed, WaitFor,
         rt_thread_resume, isrVars
<1>2. ASSUME NEW n, StartWith(t, n) PROVE Alarm!Set(t)
  <2>1. n \in 0 .. Half - 1
    <3>1. init_tick' = [init_tick EXCEPT ![t] = n] /\ init_tick \in [Timers -> 0 .. Half - 1]
          /\ init_tick' \in [Timers -> 0 .. Half - 1]
      BY <1>2 DEF StartWith, Invariant, TimerTypes
    <3> QED BY <1>1, <3>1
  <2> QED BY <1>1, <1>2, <2>1, StartRefines
<1>3. CASE rt_thread_sleep(t) \/ rt_thread_delay_until(t) \/ WaitFor(t)
  <2>1. PICK n : StartWith(t, n)
    BY <1>3 DEF rt_thread_sleep, rt_thread_delay_until, WaitFor, SuspendFor
  <2> QED BY <1>2, <2>1
<1>4. CASE DelayMissed(t)
  BY <1>1, <1>4, StayRefines DEF DelayMissed
<1>5. CASE rt_thread_resume(t)
  <2>1. TakeOut(t) \/ UNCHANGED timerUnchanged
    BY <1>5 DEF rt_thread_resume, rt_timer_stop
  <2> QED BY <1>1, <2>1, StopRefines, StayRefines
<1> QED BY <1>3, <1>4, <1>5 DEF Thread

LEMMA NextRefines ==
    ASSUME Invariant, Invariant', [Next]_vars
    PROVE  Alarm!Next \/ UNCHANGED alarmVars
<1>1. CASE rt_tick_increase
  BY <1>1, TickRefines DEF Alarm!Next
<1>2. CASE Expire
  BY <1>2, ExpireRefines DEF Alarm!Next
<1>3. CASE CheckDone
  BY <1>3, DoneRefines DEF Alarm!Next
<1>4. CASE Restart
  BY <1>4, RestartRefines DEF Alarm!Next
<1>5. CASE rt_thread_timeout
  <2>1. /\ rt_tick' = rt_tick /\ UNCHANGED timerUnchanged /\ expired' = expired
        /\ isr = "callback" /\ isr' = "return"
    BY <1>5 DEF rt_thread_timeout
  <2> QED BY <2>1, StayRefines
<1>6. ASSUME NEW x \in AppTimers, TimerCall(x), rt_tick' = rt_tick, expired' = expired,
             (isr # "off")' = (isr # "off"), isr \in {"off", "callback"}
      PROVE  Alarm!Next \/ UNCHANGED alarmVars
  <2>1. x \in Timers
    BY DEF Timers
  <2>2. Alarm!Set(x) \/ Alarm!Stop(x) \/ Alarm!Ask(x) \/ UNCHANGED alarmVars
    BY <1>6, CallRefines
  <2> QED BY <2>1, <2>2 DEF Alarm!Next
<1>7. CASE timeout_func
  <2>1. isr = "callback" /\ isr' = "return" /\ rt_tick' = rt_tick /\ expired' = expired
    BY <1>7 DEF timeout_func
  <2>2. CASE UNCHANGED timerUnchanged
    BY <2>1, <2>2, StayRefines
  <2>3. CASE \E x \in AppTimers : TimerCall(x)
    BY <1>6, <2>1, <2>3
  <2> QED BY <1>7, <2>2, <2>3 DEF timeout_func
<1>8. ASSUME NEW x \in AppTimers, UseTimer(x) PROVE Alarm!Next \/ UNCHANGED alarmVars
  BY <1>6, <1>8 DEF UseTimer, isrVars
<1>9. ASSUME NEW t \in Threads, Thread(t) PROVE Alarm!Next \/ UNCHANGED alarmVars
  <2>1. t \in Timers
    BY DEF Timers
  <2>2. Alarm!Set(t) \/ Alarm!Stop(t) \/ UNCHANGED alarmVars
    BY <1>9, ThreadRefines
  <2> QED BY <2>1, <2>2 DEF Alarm!Next
<1>10. CASE UNCHANGED vars
  BY <1>10, StayRefines DEF vars, timerUnchanged
<1> QED BY <1>1, <1>2, <1>3, <1>4, <1>5, <1>7, <1>8, <1>9, <1>10 DEF Next, rt_timer_check

LEMMA InitRefines == Init => Alarm!Init
<1> SUFFICES ASSUME Init PROVE Alarm!Init
  OBVIOUS
<1>1. timer_list = <<>> /\ isr = "off" /\ expired = None /\ temp = FALSE
  BY DEF Init
<1>2. Elements(timer_list) = {}
  BY <1>1 DEF Elements
<1>3. Remaining = [x \in Timers |-> Off]
  BY <1>2 DEF Remaining
<1>4. TimerTypes
  BY InitHolds DEF Invariant
<1>5. init_tick \in [Timers -> Nat] /\ periodic \subseteq Timers
  BY <1>4, HalfFacts DEF TimerTypes, Timers
<1>6. Again = FALSE
  BY <1>1 DEF Again
<1> QED BY <1>1, <1>3, <1>5, <1>6, AlarmSteps

(* The sorted list, the wrapping counter and the interrupt that may be in the  *)
(* middle of its work implement Alarms: every timer goes off in the tick that *)
(* is the asked number of ticks after its start, neither early nor late, none *)
(* after it was stopped, and a periodic one is started again after its        *)
(* function unless that started or stopped it.                               *)
THEOREM TimersKeepTime == Spec => KeepsTime
<1>1. Invariant /\ Invariant' /\ [Next]_vars => [Alarm!Next]_alarmVars
  BY NextRefines
<1>2. alarmVars = Alarm!vars
  BY DEF alarmVars, Alarm!vars, Remaining, Again
<1>3. Invariant /\ Invariant' /\ [Next]_vars => [Alarm!Next]_(Alarm!vars)
  BY <1>1, <1>2 DEF alarmVars, Alarm!vars, Remaining, Again
<1> QED BY <1>3, InitRefines, TimersInvariant, PTL DEF Spec, KeepsTime, Alarm!Spec
==============================================================================
