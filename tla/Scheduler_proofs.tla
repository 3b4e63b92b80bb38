--------------------------- MODULE Scheduler_proofs ---------------------------
(***************************************************************************)
(* Proofs about Scheduler, for any threads, priorities and time slice: the   *)
(* ready table is right, only the running thread makes calls, and it is one  *)
(* of highest priority.                                                      *)
(***************************************************************************)
EXTENDS Scheduler, WaitList_proofs

-----------------------------------------------------------------------------
(* The operators on the state of the scheduler, q, when the threads of V are  *)
(* half deleted.                                                             *)

(* The bits and the lists hold exactly the ready threads, each once. *)
Lists(q, V) ==
    /\ q \in State
    /\ \A p \in Levels :
          /\ p \in q.group <=> q.table[p] # <<>>
          /\ Once(q.table[p])
          /\ Elements(q.table[p])
                = {t \in Threads : q.stat[t] = "ready" /\ t \notin V /\ q.priority[t] = p}

LEMMA NobodyListed ==
    ASSUME NEW S, NEW list \in Seq(S)
    PROVE  list = <<>> <=> Elements(list) = {}
<1>1. Len(list) \in Nat /\ (list = <<>> <=> Len(list) = 0)
  OBVIOUS
<1>2. CASE Len(list) = 0
  BY <1>1, <1>2 DEF Elements
<1>3. CASE Len(list) # 0
  <2>1. list[1] \in Elements(list)
    BY <1>1, <1>3 DEF Elements
  <2> QED BY <1>1, <1>3, <2>1
<1> QED BY <1>2, <1>3

(* A thread at the end of a list. *)
LEMMA AppendOnce ==
    ASSUME NEW S, NEW list \in Seq(S), Once(list), NEW x \in S, x \notin Elements(list)
    PROVE  /\ Append(list, x) \in Seq(S) /\ Append(list, x) # <<>>
           /\ Once(Append(list, x))
           /\ Elements(Append(list, x)) = Elements(list) \cup {x}
<1> DEFINE new == Append(list, x)
<1>1. /\ new \in Seq(S) /\ Len(list) \in Nat
      /\ Len(new) = Len(list) + 1 /\ new[Len(list) + 1] = x
      /\ \A i \in 1 .. Len(list) : new[i] = list[i]
  OBVIOUS
<1> HIDE DEF new
<1>2. \A i \in 1 .. Len(new) : i \in 1 .. Len(list) \/ i = Len(list) + 1
  BY <1>1
<1>3. \A i \in 1 .. Len(list) : i \in 1 .. Len(new) /\ list[i] # x
  BY <1>1 DEF Elements
<1>4. Len(list) + 1 \in 1 .. Len(new)
  BY <1>1
<1>5. Elements(new) = Elements(list) \cup {x}
  BY <1>1, <1>2, <1>3, <1>4 DEF Elements
<1>6. Once(new)
  <2> SUFFICES ASSUME NEW i \in 1 .. Len(new), NEW j \in 1 .. Len(new), new[i] = new[j]
               PROVE  i = j
    BY DEF Once
  <2>1. CASE i = Len(list) + 1
    BY <1>1, <1>2, <1>3, <2>1
  <2>2. CASE i # Len(list) + 1
    BY <1>1, <1>2, <1>3, <2>2 DEF Once
  <2> QED BY <2>1, <2>2
<1>7. new # <<>>
  BY <1>1, <1>4
<1> QED BY <1>1, <1>5, <1>6, <1>7 DEF new

(* rt_schedule_insert_thread of a thread that has not got the CPU. *)
LEMMA InsertFields ==
    ASSUME NEW q \in State, NEW t \in Threads, t # q.current, NEW r, r = Insert(q, t)
    PROVE  /\ r \in State
           /\ r.stat = [q.stat EXCEPT ![t] = "ready"]
           /\ r.table = [q.table EXCEPT ![q.priority[t]] = Append(@, t)]
           /\ r.group = q.group \cup {q.priority[t]}
           /\ r.yield = q.yield /\ r.priority = q.priority /\ r.current = q.current
           /\ r.nest = q.nest /\ r.changed = q.changed
<1>1. r = [q EXCEPT !.stat[t] = "ready", !.table[q.priority[t]] = Append(@, t),
                    !.group = @ \cup {q.priority[t]}]
  BY DEF Insert
<1>2. /\ r.stat = [q.stat EXCEPT ![t] = "ready"]
      /\ r.table = [q.table EXCEPT ![q.priority[t]] = Append(@, t)]
      /\ r.group = q.group \cup {q.priority[t]}
      /\ r.yield = q.yield /\ r.priority = q.priority /\ r.current = q.current
      /\ r.nest = q.nest /\ r.changed = q.changed
  BY <1>1 DEF State
<1>3. r.table \in [Levels -> Seq(Threads)] /\ r.group \in SUBSET Levels
  BY <1>2 DEF State
<1>4. r.stat \in [Threads -> Stats]
  BY <1>2 DEF State, Stats
<1>5. r = [table |-> r.table, group |-> r.group, stat |-> r.stat, yield |-> r.yield,
           priority |-> r.priority, current |-> r.current, nest |-> r.nest,
           changed |-> r.changed]
  BY <1>1 DEF State
<1> HIDE <1>1
<1>6. r \in State
  BY <1>2, <1>3, <1>4, <1>5 DEF State
<1> QED BY <1>2, <1>6

(* A thread that is not ready may as well be left out. *)
LEMMA LeftOut ==
    ASSUME NEW V, NEW q, Lists(q, V), NEW t, q.stat[t] # "ready", NEW W, W = V \cup {t}
    PROVE  Lists(q, W)
<1>1. ASSUME NEW p \in Levels
      PROVE  {u \in Threads : q.stat[u] = "ready" /\ u \notin V \cup {t} /\ q.priority[u] = p}
                = {u \in Threads : q.stat[u] = "ready" /\ u \notin V /\ q.priority[u] = p}
  OBVIOUS
<1> QED BY <1>1 DEF Lists

(* The lists are right again when the thread that was left out is inserted. *)
MadeReady(q, V, t, r) ==
    /\ Lists(r, V)
    /\ r.stat[t] = "ready" /\ \A u \in Threads : u # t => r.stat[u] = q.stat[u]
    /\ r.yield = q.yield /\ r.priority = q.priority /\ r.current = q.current
    /\ r.nest = q.nest /\ r.changed = q.changed

LEMMA InsertLists ==
    ASSUME NEW V, NEW t \in Threads, t \notin V, NEW W, W = V \cup {t},
           NEW q, Lists(q, W), t # q.current,
           NEW r, r = Insert(q, t)
    PROVE  MadeReady(q, V, t, r)
<1> USE DEF MadeReady
<1>1. q \in State
  BY DEF Lists
<1>2. /\ r \in State
      /\ r.stat = [q.stat EXCEPT ![t] = "ready"]
      /\ r.table = [q.table EXCEPT ![q.priority[t]] = Append(@, t)]
      /\ r.group = q.group \cup {q.priority[t]}
      /\ r.yield = q.yield /\ r.priority = q.priority /\ r.current = q.current
      /\ r.nest = q.nest /\ r.changed = q.changed
  BY <1>1, InsertFields
<1>3. /\ q.stat \in [Threads -> Stats] /\ q.priority \in [Threads -> Levels]
      /\ q.table \in [Levels -> Seq(Threads)]
  BY <1>1 DEF State
<1>4. r.stat[t] = "ready" /\ \A u \in Threads : u # t => r.stat[u] = q.stat[u]
  BY <1>2, <1>3
<1> SUFFICES ASSUME NEW p \in Levels
             PROVE  /\ p \in r.group <=> r.table[p] # <<>>
                    /\ Once(r.table[p])
                    /\ Elements(r.table[p])
                          = {u \in Threads : r.stat[u] = "ready" /\ u \notin V /\ r.priority[u] = p}
  BY <1>2, <1>4 DEF Lists
<1>5. /\ p \in q.group <=> q.table[p] # <<>>
      /\ Once(q.table[p])
      /\ Elements(q.table[p])
            = {u \in Threads : q.stat[u] = "ready" /\ u \notin V \cup {t} /\ q.priority[u] = p}
  BY DEF Lists
<1>6. CASE p = q.priority[t]
  <2>1. r.table[p] = Append(q.table[p], t)
    BY <1>2, <1>3, <1>6
  <2>2. t \notin Elements(q.table[p]) /\ q.table[p] \in Seq(Threads)
    BY <1>3, <1>5
  <2>3. /\ r.table[p] # <<>> /\ Once(r.table[p])
        /\ Elements(r.table[p]) = Elements(q.table[p]) \cup {t}
    BY <1>5, <2>1, <2>2, AppendOnce
  <2>4. {u \in Threads : r.stat[u] = "ready" /\ u \notin V /\ r.priority[u] = p}
          = {u \in Threads : q.stat[u] = "ready" /\ u \notin V \cup {t} /\ q.priority[u] = p} \cup {t}
    BY <1>2, <1>4, <1>6
  <2> QED BY <1>2, <1>5, <1>6, <2>3, <2>4
<1>7. CASE p # q.priority[t]
  <2>1. r.table[p] = q.table[p]
    BY <1>2, <1>3, <1>7
  <2>2. {u \in Threads : r.stat[u] = "ready" /\ u \notin V /\ r.priority[u] = p}
          = {u \in Threads : q.stat[u] = "ready" /\ u \notin V \cup {t} /\ q.priority[u] = p}
    BY <1>2, <1>4, <1>7
  <2> QED BY <1>2, <1>5, <1>7, <2>1, <2>2
<1> QED BY <1>6, <1>7

(* rt_schedule_remove_thread. *)
LEMMA RemoveFields ==
    ASSUME NEW V, NEW q, Lists(q, V), NEW t \in Threads, NEW r, r = Remove(q, t)
    PROVE  /\ r \in State
           /\ r.stat = q.stat
           /\ r.yield = q.yield /\ r.priority = q.priority /\ r.current = q.current
           /\ r.nest = q.nest /\ r.changed = q.changed
           /\ \A p \in Levels : /\ p \in r.group <=> r.table[p] # <<>>
                                /\ Once(r.table[p])
                                /\ Elements(r.table[p]) = Elements(q.table[p]) \ {t}
<1> DEFINE table == [p \in Levels |-> Removed(q.table[p], t)]
           group == IF table[q.priority[t]] = <<>> THEN q.group \ {q.priority[t]} ELSE q.group
<1>1. /\ q \in State /\ q.table \in [Levels -> Seq(Threads)]
      /\ q.group \in SUBSET Levels /\ q.priority[t] \in Levels
  BY DEF Lists, State
<1>2. ASSUME NEW p \in Levels
      PROVE  /\ table[p] \in Seq(Threads) /\ Once(table[p])
             /\ Elements(table[p]) = Elements(q.table[p]) \ {t}
  <2>1. q.table[p] \in Seq(Threads) /\ Once(q.table[p]) /\ table[p] = Removed(q.table[p], t)
    BY <1>1 DEF Lists
  <2> HIDE DEF table
  <2> QED BY <2>1, RemovedOnce
<1>3. r = [q EXCEPT !.table = table, !.group = group]
  BY DEF Remove
<1>4. table \in [Levels -> Seq(Threads)]
  BY <1>2
<1>5. group \in SUBSET Levels
  BY <1>1
<1>6. ASSUME NEW p \in Levels PROVE p \in group <=> table[p] # <<>>
  <2>1. /\ p \in q.group <=> q.table[p] # <<>>
        /\ q.table[p] \in Seq(Threads)
        /\ Elements(q.table[p])
              = {u \in Threads : q.stat[u] = "ready" /\ u \notin V /\ q.priority[u] = p}
    BY <1>1 DEF Lists
  <2>2. /\ table[p] \in Seq(Threads)
        /\ Elements(table[p]) = Elements(q.table[p]) \ {t}
    BY <1>2
  <2>3. CASE p = q.priority[t]
    <3> HIDE DEF table
    <3>1. table[p] # <<>> => q.table[p] # <<>>
      BY <2>1, <2>2, NobodyListed
    <3> QED BY <2>1, <2>3, <3>1
  <2>4. CASE p # q.priority[t]
    <3> HIDE DEF table
    <3>1. Elements(table[p]) = Elements(q.table[p])
      BY <2>1, <2>2, <2>4
    <3>2. table[p] # <<>> <=> q.table[p] # <<>>
      BY <2>1, <2>2, <3>1, NobodyListed
    <3> QED BY <2>1, <2>4, <3>2
  <2> QED BY <2>3, <2>4
<1> HIDE DEF table, group
<1>7. /\ r.table = table /\ r.group = group /\ r.stat = q.stat
      /\ r.yield = q.yield /\ r.priority = q.priority /\ r.current = q.current
      /\ r.nest = q.nest /\ r.changed = q.changed
  BY <1>1, <1>3 DEF State
<1>8. r \in State
  BY <1>1, <1>3, <1>4, <1>5 DEF State
<1> QED BY <1>2, <1>6, <1>7, <1>8

(* A thread is taken out and has another state: it waits, is dead or runs. *)
TakenOut(q, t, x) == [Remove(q, t) EXCEPT !.stat[t] = x]

LEMMA RemovedLists ==
    ASSUME NEW V, NEW q, Lists(q, V), NEW t \in Threads, NEW x \in Stats, x # "ready",
           NEW r, r = TakenOut(q, t, x)
    PROVE  /\ Lists(r, V)
           /\ r.stat = [q.stat EXCEPT ![t] = x]
           /\ r.yield = q.yield /\ r.priority = q.priority /\ r.current = q.current
           /\ r.nest = q.nest /\ r.changed = q.changed
<1> DEFINE m == Remove(q, t)
<1>1. /\ m \in State /\ m.stat = q.stat
      /\ m.yield = q.yield /\ m.priority = q.priority /\ m.current = q.current
      /\ m.nest = q.nest /\ m.changed = q.changed
      /\ \A p \in Levels : /\ p \in m.group <=> m.table[p] # <<>>
                           /\ Once(m.table[p])
                           /\ Elements(m.table[p]) = Elements(q.table[p]) \ {t}
  BY RemoveFields
<1>2. r = [m EXCEPT !.stat[t] = x]
  BY DEF TakenOut
<1> HIDE DEF m
<1>3. /\ r.table = m.table /\ r.group = m.group /\ r.stat = [q.stat EXCEPT ![t] = x]
      /\ r.yield = q.yield /\ r.priority = q.priority /\ r.current = q.current
      /\ r.nest = q.nest /\ r.changed = q.changed
  BY <1>1, <1>2 DEF State
<1>4. r \in State
  <2>1. r.stat \in [Threads -> Stats]
    <3>1. q.stat \in [Threads -> Stats]
      BY DEF Lists, State
    <3>2. [q.stat EXCEPT ![t] = x] \in [Threads -> Stats]
      BY <3>1, Zenon
    <3> QED BY <1>3, <3>2, Zenon
  <2>2. r = [table |-> r.table, group |-> r.group, stat |-> r.stat, yield |-> r.yield,
             priority |-> r.priority, current |-> r.current, nest |-> r.nest,
             changed |-> r.changed]
    BY <1>1, <1>2 DEF State
  <2>3. /\ r.table \in [Levels -> Seq(Threads)] /\ r.group \in SUBSET Levels
        /\ r.yield \in SUBSET Threads /\ r.priority \in [Threads -> Levels]
        /\ r.current \in Threads /\ r.nest \in 0 .. MaxNest /\ r.changed \in BOOLEAN
    BY <1>1, <1>3 DEF State
  <2> QED BY <2>1, <2>2, <2>3 DEF State
<1>5. q.stat \in [Threads -> Stats]
  BY DEF Lists, State
<1>6. r.stat[t] = x /\ \A u \in Threads : u # t => r.stat[u] = q.stat[u]
  BY <1>3, <1>5
<1>7. ASSUME NEW p \in Levels
      PROVE  Elements(r.table[p])
                = {u \in Threads : r.stat[u] = "ready" /\ u \notin V /\ r.priority[u] = p}
  <2>1. Elements(q.table[p])
          = {u \in Threads : q.stat[u] = "ready" /\ u \notin V /\ q.priority[u] = p}
    BY DEF Lists
  <2>2. {u \in Threads : r.stat[u] = "ready" /\ u \notin V /\ r.priority[u] = p}
          = {u \in Threads : q.stat[u] = "ready" /\ u \notin V /\ q.priority[u] = p} \ {t}
    BY <1>3, <1>6
  <2> QED BY <1>1, <1>3, <2>1, <2>2
<1>8. Lists(r, V)
  BY <1>1, <1>3, <1>4, <1>7 DEF Lists
<1> QED BY <1>3, <1>8

(* What every call of rt_schedule can rely on: nobody but the current thread  *)
(* is RUNNING, and it stands in no list.                                     *)
Sound(q, V) ==
    /\ Lists(q, V)
    /\ \A t \in Threads : q.stat[t] = "running" => t = q.current
    /\ q.stat[q.current] # "ready"
    /\ q.current \notin V
    /\ q.stat[Idle] \in {"ready", "running"} /\ Idle \notin V

(* The lowest bit of the group, and the head of its list. *)
LEMMA HighestReady ==
    ASSUME NEW V, NEW q, Lists(q, V), q.group # {}
    PROVE  LET to == q.table[Highest(q)][1]
           IN  /\ Highest(q) \in Levels
               /\ to \in Threads /\ q.stat[to] = "ready" /\ to \notin V
               /\ q.priority[to] = Highest(q)
               /\ \A t \in Threads : q.stat[t] = "ready" /\ t \notin V
                                        => Highest(q) <= q.priority[t]
<1> DEFINE h == Highest(q)
           to == q.table[h][1]
<1>1. /\ q.group \in SUBSET Levels /\ q.table \in [Levels -> Seq(Threads)]
      /\ q.priority \in [Threads -> Levels]
  BY DEF Lists, State
<1>2. q.group \in SUBSET Nat
  BY <1>1, LevelsAssumption
<1>3. \E p \in q.group : \A r \in q.group : p <= r
  BY <1>2, LeastNumber
<1>4. h \in q.group /\ \A r \in q.group : h <= r
  BY <1>3 DEF Highest
<1> HIDE DEF h
<1>5. h \in Levels /\ q.table[h] \in Seq(Threads) /\ q.table[h] # <<>>
  BY <1>1, <1>4 DEF Lists
<1>6. to \in Threads /\ to \in Elements(q.table[h])
  BY <1>5 DEF Elements
<1>7. q.stat[to] = "ready" /\ to \notin V /\ q.priority[to] = h
  BY <1>5, <1>6 DEF Lists
<1>8. ASSUME NEW t \in Threads, q.stat[t] = "ready", t \notin V
      PROVE  h <= q.priority[t]
  <2>1. q.priority[t] \in Levels /\ q.table[q.priority[t]] \in Seq(Threads)
    BY <1>1
  <2>2. t \in Elements(q.table[q.priority[t]])
    BY <1>8, <2>1 DEF Lists
  <2>3. q.table[q.priority[t]] # <<>>
    BY <2>1, <2>2, NobodyListed
  <2>4. q.priority[t] \in q.group
    BY <2>1, <2>3 DEF Lists
  <2> QED BY <1>4, <2>4
<1> QED BY <1>5, <1>6, <1>7, <1>8 DEF h

(* Without a bit there is no ready thread. *)
LEMMA NobodyReady ==
    ASSUME NEW V, NEW q, Lists(q, V), q.group = {}, NEW t \in Threads, q.stat[t] = "ready"
    PROVE  t \in V
<1> SUFFICES ASSUME t \notin V PROVE FALSE
  OBVIOUS
<1>1. q.priority[t] \in Levels /\ q.table[q.priority[t]] \in Seq(Threads)
  BY DEF Lists, State
<1>2. t \in Elements(q.table[q.priority[t]])
  BY <1>1 DEF Lists
<1>3. q.table[q.priority[t]] # <<>>
  BY <1>1, <1>2, NobodyListed
<1> QED BY <1>1, <1>3 DEF Lists

(* What rt_schedule leaves alone, and what it does to the lists. *)
LEMMA Unyielded ==
    ASSUME NEW V, NEW q, Lists(q, V), NEW r, r = [Unyield(q) EXCEPT !.changed = FALSE]
    PROVE  /\ Lists(r, V) /\ r.stat = q.stat /\ r.priority = q.priority
           /\ r.current = q.current /\ r.nest = q.nest
<1> DEFINE y == IF q.stat[q.current] = "running" THEN q.yield \ {q.current} ELSE q.yield
<1>1. q \in State
  BY DEF Lists
<1>2. r = [q EXCEPT !.yield = y, !.changed = FALSE]
  BY <1>1 DEF Unyield, State
<1>3. y \in SUBSET Threads
  BY <1>1 DEF State
<1> HIDE DEF y
<1>4. /\ r.table = q.table /\ r.group = q.group /\ r.stat = q.stat /\ r.yield = y
      /\ r.priority = q.priority /\ r.current = q.current /\ r.nest = q.nest
      /\ r.changed = FALSE
  BY <1>1, <1>2 DEF State
<1>5. r \in State
  BY <1>1, <1>2, <1>3 DEF State
<1> QED BY <1>4, <1>5 DEF Lists

(* The CPU goes from the current thread to the ready thread "to". *)
LEMMA SwitchSound ==
    ASSUME NEW V, NEW q, Sound(q, V), NEW to \in Threads, q.stat[to] = "ready", to \notin V,
           NEW r, r = SwitchTo(q, to)
    PROVE  /\ Sound(r, V) /\ r.nest = q.nest /\ r.priority = q.priority
           /\ r.current = to /\ r.stat[to] = "running" /\ to # q.current
           /\ \A t \in Threads : t # to /\ t # q.current => r.stat[t] = q.stat[t]
           /\ r.stat[q.current] = IF q.stat[q.current] = "running" THEN "ready"
                                                               ELSE q.stat[q.current]
<1> DEFINE from == q.current
           here == [q EXCEPT !.current = to]
           rest == IF q.stat[from] = "running" THEN Insert(here, from) ELSE here
<1>1. /\ Lists(q, V) /\ q \in State /\ from \in Threads /\ to # from
      /\ q.stat[from] # "ready" /\ from \notin V
  BY DEF Sound, Lists, State
<1>2. /\ here \in State
      /\ here.table = q.table /\ here.group = q.group /\ here.stat = q.stat
      /\ here.priority = q.priority /\ here.current = to /\ here.nest = q.nest
  BY <1>1 DEF State
<1>3. r = TakenOut(rest, to, "running")
  BY DEF SwitchTo, TakenOut
<1> HIDE DEF from, here
<1>4. Lists(here, V)
  BY <1>1, <1>2 DEF Lists
<1>5. /\ Lists(rest, V) /\ rest.nest = q.nest /\ rest.priority = q.priority
      /\ rest.current = to
      /\ rest.stat[from] = IF q.stat[from] = "running" THEN "ready" ELSE q.stat[from]
      /\ \A t \in Threads : t # from => rest.stat[t] = q.stat[t]
  <2>1. CASE q.stat[from] = "running"
    <3>1. rest = Insert(here, from) /\ here.stat[from] # "ready" /\ from # here.current
      BY <1>1, <1>2, <2>1
    <3> HIDE DEF rest
    <3> DEFINE W == V \cup {from}
    <3>2. Lists(here, W)
      BY <1>1, <1>4, <3>1, LeftOut
    <3>3. MadeReady(here, V, from, rest)
      <4>1. from \in Threads /\ from \notin V /\ from # here.current /\ rest = Insert(here, from)
        BY <1>1, <3>1
      <4> QED BY <3>2, <4>1, InsertLists
    <3> QED BY <1>2, <2>1, <3>3 DEF MadeReady
  <2>2. CASE q.stat[from] # "running"
    BY <1>2, <1>4, <2>2
  <2> QED BY <2>1, <2>2
<1> HIDE DEF rest
<1>6. "running" \in Stats
  BY DEF Stats
<1>7. /\ Lists(r, V) /\ r.stat = [rest.stat EXCEPT ![to] = "running"]
      /\ r.priority = q.priority /\ r.current = to /\ r.nest = q.nest
  <2>1. Lists(rest, V)
    BY <1>5
  <2>2. /\ Lists(r, V) /\ r.stat = [rest.stat EXCEPT ![to] = "running"]
        /\ r.priority = rest.priority /\ r.current = rest.current /\ r.nest = rest.nest
    BY <1>3, <1>6, <2>1, RemovedLists
  <2> QED BY <1>5, <2>2
<1>8. /\ r.stat[to] = "running"
      /\ \A t \in Threads : t # to /\ t # from => r.stat[t] = q.stat[t]
      /\ r.stat[from] = IF q.stat[from] = "running" THEN "ready" ELSE q.stat[from]
  <2>1. rest.stat \in [Threads -> Stats]
    BY <1>5 DEF Lists, State
  <2> QED BY <1>1, <1>5, <1>7, <2>1
<1>9. /\ \A t \in Threads : q.stat[t] = "running" => t = from
      /\ q.stat[Idle] \in {"ready", "running"} /\ Idle \notin V /\ Idle \in Threads
  BY ThreadsAssumption DEF Sound, from
<1>10. /\ \A t \in Threads : r.stat[t] = "running" => t = to
       /\ r.stat[Idle] \in {"ready", "running"}
  BY <1>1, <1>8, <1>9
<1>11. Sound(r, V)
  BY <1>7, <1>8, <1>9, <1>10 DEF Sound
<1> QED BY <1>1, <1>7, <1>8, <1>11 DEF from

(* rt_schedule: the lists stay right, the current thread is RUNNING and none  *)
(* of the ready ones has a higher priority.                                  *)
Scheduled(q, V, r) ==
    /\ Sound(r, V) /\ r.nest = q.nest /\ r.priority = q.priority
    /\ q.nest > 0 => r = q
    /\ q.nest = 0 =>
          /\ r.stat[r.current] = "running"
          /\ \A t \in Threads : r.stat[t] = "ready" /\ t \notin V
                                  => r.priority[r.current] <= r.priority[t]
    /\ \A t \in Threads : r.stat[t] # q.stat[t] =>
          q.stat[t] \in {"ready", "running"} /\ r.stat[t] \in {"ready", "running"}
    /\ r.current # q.current => q.stat[r.current] = "ready"
    /\ r.current # q.current => q.nest = 0

LEMMA ScheduleSound ==
    ASSUME NEW V, NEW q, Sound(q, V), NEW r, r = Schedule(q)
    PROVE  Scheduled(q, V, r)
<1> USE DEF Scheduled
<1>1. /\ Lists(q, V) /\ q \in State /\ q.current \in Threads /\ q.nest \in Nat
      /\ q.stat[q.current] # "ready"
  BY SliceAssumption DEF Sound, Lists, State
<1>2. \A t \in Threads : q.priority[t] \in Nat
  BY <1>1, LevelsAssumption DEF State
<1>3. CASE q.nest > 0
  <2>1. r = q
    BY <1>3 DEF Schedule
  <2> QED BY <1>1, <1>3, <2>1
<1>4. CASE q.nest = 0 /\ q.group = {}
  <2>1. r = [q EXCEPT !.changed = FALSE]
    BY <1>4 DEF Schedule
  <2>2. /\ r.table = q.table /\ r.group = q.group /\ r.stat = q.stat
        /\ r.priority = q.priority /\ r.current = q.current /\ r.nest = q.nest
        /\ r \in State
    BY <1>1, <2>1 DEF State
  <2>3. Lists(r, V)
    BY <1>1, <2>2 DEF Lists
  <2>4. Sound(r, V)
    BY <2>2, <2>3 DEF Sound
  <2>5. \A t \in Threads : q.stat[t] = "ready" => t \in V
    BY <1>1, <1>4, NobodyReady
  <2>6. q.stat[Idle] = "running" /\ Idle = q.current
    BY <2>5, ThreadsAssumption DEF Sound
  <2> QED BY <1>1, <1>4, <2>2, <2>4, <2>5, <2>6
<1>5. CASE q.nest = 0 /\ q.group # {}
  <2> DEFINE first == q.table[Highest(q)][1]
             to == IF Keeps(q) THEN q.current ELSE first
             y == [Unyield(q) EXCEPT !.changed = FALSE]
  <2>1. /\ Highest(q) \in Levels
        /\ first \in Threads /\ q.stat[first] = "ready" /\ first \notin V
        /\ q.priority[first] = Highest(q)
        /\ \A t \in Threads : q.stat[t] = "ready" /\ t \notin V
                                 => Highest(q) <= q.priority[t]
    BY <1>1, <1>5, HighestReady
  <2>2. /\ Lists(y, V) /\ y.stat = q.stat /\ y.priority = q.priority
        /\ y.current = q.current /\ y.nest = q.nest
    BY <1>1, Unyielded
  <2>3. r = IF to # q.current THEN SwitchTo(y, to)
            ELSE TakenOut(y, to, "running")
    BY <1>5 DEF Schedule, TakenOut
  <2> HIDE DEF first, y
  <2>4. Sound(y, V)
    BY <2>2 DEF Sound
  <2>5. Highest(q) \in Nat /\ first # q.current
    BY <1>1, <2>1, LevelsAssumption
  <2>6. CASE Keeps(q)
    <3>1. r = TakenOut(y, q.current, "running")
      BY <2>3, <2>6
    <3>2. q.stat[q.current] = "running" /\ q.priority[q.current] <= Highest(q)
      BY <1>1, <1>2, <2>5, <2>6 DEF Keeps
    <3>3. "running" \in Stats
      BY DEF Stats
    <3>4. /\ Lists(r, V) /\ r.stat = [y.stat EXCEPT ![q.current] = "running"]
          /\ r.priority = y.priority /\ r.current = y.current /\ r.nest = y.nest
      <4>1. Lists(y, V) /\ q.current \in Threads
        BY <1>1, <2>2
      <4> QED BY <3>1, <3>3, <4>1, RemovedLists
    <3>5. q.stat \in [Threads -> Stats]
      BY <1>1 DEF State
    <3>6. r.stat = q.stat
      BY <2>2, <3>2, <3>4, <3>5
    <3>7. Sound(r, V)
      BY <2>2, <3>4, <3>6 DEF Sound
    <3>8. ASSUME NEW t \in Threads, r.stat[t] = "ready", t \notin V
          PROVE  r.priority[r.current] <= r.priority[t]
      <4>1. Highest(q) <= q.priority[t]
        BY <2>1, <3>6, <3>8
      <4> QED BY <1>1, <1>2, <2>2, <2>5, <3>2, <3>4, <4>1
    <3> QED BY <1>5, <2>2, <3>2, <3>4, <3>6, <3>7, <3>8
  <2>7. CASE ~Keeps(q)
    <3>1. r = SwitchTo(y, first) /\ y.stat[first] = "ready"
      BY <2>1, <2>2, <2>3, <2>5, <2>7
    <3>2. /\ Sound(r, V) /\ r.nest = y.nest /\ r.priority = y.priority
          /\ r.current = first /\ r.stat[first] = "running" /\ first # y.current
          /\ \A t \in Threads : t # first /\ t # y.current => r.stat[t] = y.stat[t]
          /\ r.stat[y.current] = IF y.stat[y.current] = "running" THEN "ready"
                                                              ELSE y.stat[y.current]
      BY <2>1, <2>4, <3>1, SwitchSound
    <3>3. ASSUME NEW t \in Threads, r.stat[t] = "ready", t \notin V
          PROVE  r.priority[r.current] <= r.priority[t]
      <4>1. CASE t = q.current
        <5>1. q.stat[q.current] = "running"
          BY <1>1, <2>2, <3>2, <3>3, <4>1
        <5>2. Highest(q) <= q.priority[q.current]
          BY <1>1, <1>2, <2>5, <2>7, <5>1 DEF Keeps
        <5> QED BY <2>1, <2>2, <3>2, <4>1, <5>2
      <4>2. CASE t # q.current
        <5>1. q.stat[t] = "ready"
          BY <2>2, <3>2, <3>3, <4>2
        <5> QED BY <2>1, <2>2, <3>2, <3>3, <5>1
      <4> QED BY <4>1, <4>2
    <3>4. ASSUME NEW t \in Threads, r.stat[t] # q.stat[t]
          PROVE  q.stat[t] \in {"ready", "running"} /\ r.stat[t] \in {"ready", "running"}
      BY <2>1, <2>2, <3>2, <3>4
    <3> QED BY <1>5, <2>1, <2>2, <3>2, <3>3, <3>4
  <2> QED BY <2>6, <2>7
<1> QED BY <1>1, <1>3, <1>4, <1>5

(* rt_schedule_remove_thread leaves a thread out. *)
LEMMA RemoveLists ==
    ASSUME NEW V, NEW q, Lists(q, V), NEW t \in Threads, NEW W, W = V \cup {t},
           NEW r, r = Remove(q, t)
    PROVE  /\ Lists(r, W) /\ r.stat = q.stat
           /\ r.yield = q.yield /\ r.priority = q.priority /\ r.current = q.current
           /\ r.nest = q.nest /\ r.changed = q.changed
<1>1. /\ r \in State /\ r.stat = q.stat
      /\ r.yield = q.yield /\ r.priority = q.priority /\ r.current = q.current
      /\ r.nest = q.nest /\ r.changed = q.changed
      /\ \A p \in Levels : /\ p \in r.group <=> r.table[p] # <<>>
                           /\ Once(r.table[p])
                           /\ Elements(r.table[p]) = Elements(q.table[p]) \ {t}
  BY RemoveFields
<1>2. ASSUME NEW p \in Levels
      PROVE  Elements(r.table[p])
                = {u \in Threads : r.stat[u] = "ready" /\ u \notin W /\ r.priority[u] = p}
  <2>1. Elements(q.table[p])
          = {u \in Threads : q.stat[u] = "ready" /\ u \notin V /\ q.priority[u] = p}
    BY DEF Lists
  <2>2. {u \in Threads : r.stat[u] = "ready" /\ u \notin W /\ r.priority[u] = p}
          = {u \in Threads : q.stat[u] = "ready" /\ u \notin V /\ q.priority[u] = p} \ {t}
    BY <1>1
  <2> QED BY <1>1, <2>1, <2>2
<1> QED BY <1>1, <1>2 DEF Lists

(* rt_thread_resume leaves the bits alone when it takes the thread out of its *)
(* list. That is the same as rt_schedule_remove_thread, because the bit is    *)
(* set when it is inserted.                                                  *)
LEMMA ReinsertedSame ==
    ASSUME NEW q \in State, NEW t \in Threads, t # q.current
    PROVE  Insert(Unlist(q, t), t) = Insert(Remove(q, t), t)
<1> DEFINE table == [p \in Levels |-> Removed(q.table[p], t)]
           group == IF table[q.priority[t]] = <<>> THEN q.group \ {q.priority[t]} ELSE q.group
           a == [q EXCEPT !.table = table]
           b == [q EXCEPT !.table = table, !.group = group]
<1>1. Unlist(q, t) = a /\ Remove(q, t) = b
  BY DEF Unlist, Remove
<1>2. q.priority[t] \in Levels
  BY DEF State
<1>3. group \cup {q.priority[t]} = q.group \cup {q.priority[t]}
  OBVIOUS
<1> HIDE DEF table, group
<1>4. /\ a.current = q.current /\ a.priority = q.priority /\ a.group = q.group
      /\ b.current = q.current /\ b.priority = q.priority /\ b.group = group
  BY DEF State
<1> DEFINE new == [table EXCEPT ![q.priority[t]] = Append(@, t)]
           stat == [q.stat EXCEPT ![t] = "ready"]
<1>5. Insert(a, t) = [q EXCEPT !.stat = stat, !.table = new,
                               !.group = q.group \cup {q.priority[t]}]
  BY <1>4 DEF State, Insert
<1>6. Insert(b, t) = [q EXCEPT !.stat = stat, !.table = new,
                               !.group = group \cup {q.priority[t]}]
  BY <1>4 DEF State, Insert
<1> QED BY <1>1, <1>3, <1>5, <1>6

(* What the state of the scheduler q has to do with the other variables: V    *)
(* are half deleted, W waits for an object, A for a timer and d is defunct.  *)
Books(q, V, W, A, d) ==
    /\ Sound(q, V)
    /\ \A t \in W \cup A : q.stat[t] = "suspend" /\ t \notin V
    /\ \A t \in V : q.stat[t] \in {"ready", "suspend"}
    /\ \A t \in Elements(d) : q.stat[t] = "close"
    /\ \A t \in Threads : q.stat[t] \in {"close", "freed"} => t \in Mortal

Dispatched(q, V, W, A, d, r) ==
    /\ Books(r, V, W, A, d) /\ r.nest = q.nest /\ r.priority = q.priority
    /\ r.current \in Threads
    /\ r.stat[r.current] = "running" /\ r.current \notin W \cup A
    /\ r.nest = 0 => \A t \in Threads : r.stat[t] = "ready" /\ t \notin V
                              => r.priority[r.current] <= r.priority[t]
    /\ \A t \in Threads : q.stat[t] \in {"close", "freed"} => t # r.current

LEMMA BooksScheduled ==
    ASSUME NEW V \in SUBSET Threads, NEW W \in SUBSET Threads, NEW A \in SUBSET Threads,
           NEW d \in Seq(Threads), NEW q, Books(q, V, W, A, d),
           q.nest > 0 => q.stat[q.current] = "running",
           NEW r, r = Schedule(q)
    PROVE  Dispatched(q, V, W, A, d, r)
<1> USE DEF Dispatched
<1>1. Sound(q, V) /\ q.nest \in Nat
  BY SliceAssumption DEF Books, Sound, Lists, State
<1>2. Scheduled(q, V, r)
  BY <1>1, ScheduleSound
<1>3. r.current \in Threads /\ r.current \notin V
  BY <1>2 DEF Scheduled, Sound, Lists, State
<1>4. r.stat[r.current] = "running"
  BY <1>1, <1>2 DEF Scheduled
<1>5. \A t \in W \cup A : r.stat[t] = "suspend" /\ t \notin V
  BY <1>2 DEF Scheduled, Books
<1>6. \A t \in V : r.stat[t] \in {"ready", "suspend"}
  <2> SUFFICES ASSUME NEW t \in V PROVE r.stat[t] \in {"ready", "suspend"}
    OBVIOUS
  <2>1. r.stat[t] # "running"
    BY <1>2, <1>3 DEF Scheduled, Sound
  <2> QED BY <1>2, <2>1 DEF Scheduled, Books
<1>7. \A t \in Elements(d) : t \in Threads
  BY DEF Elements
<1>8. \A t \in Elements(d) : r.stat[t] = "close"
  BY <1>2, <1>7 DEF Scheduled, Books
<1>9. \A t \in Threads : r.stat[t] \in {"close", "freed"} => t \in Mortal
  BY <1>2 DEF Scheduled, Books
<1>10. \A t \in Threads : q.stat[t] \in {"close", "freed"} => t # r.current
  BY <1>2, <1>4 DEF Scheduled
<1>11. Books(r, V, W, A, d)
  BY <1>2, <1>5, <1>6, <1>8, <1>9 DEF Scheduled, Books
<1>12. r.current \notin W \cup A
  BY <1>4, <1>5
<1> QED BY <1>1, <1>2, <1>3, <1>4, <1>10, <1>11, <1>12 DEF Scheduled

(* A thread becomes ready, or runs on if it still has the CPU. *)
Resumed(q, V, W, A, d, t, r) ==
    /\ Books(r, V, W \ {t}, A \ {t}, d)
    /\ r.nest = q.nest /\ r.priority = q.priority /\ r.current = q.current
    /\ r.changed = q.changed
    /\ \A u \in Threads : u # t => r.stat[u] = q.stat[u]
    /\ r.stat[t] = IF t = q.current THEN "running" ELSE "ready"

LEMMA BooksInserted ==
    ASSUME NEW V \in SUBSET Threads, NEW W \in SUBSET Threads, NEW A \in SUBSET Threads,
           NEW d \in Seq(Threads), NEW q, Books(q, V, W, A, d),
           NEW t \in Threads, t \notin V, q.stat[t] \in {"init", "suspend"},
           NEW r, r = Insert(q, t)
    PROVE  Resumed(q, V, W, A, d, t, r)
<1> USE DEF Resumed
<1>1. /\ Sound(q, V) /\ Lists(q, V) /\ q \in State /\ q.current \in Threads
      /\ q.stat \in [Threads -> Stats]
  BY DEF Books, Sound, Lists, State
<1>2. /\ Lists(r, V)
      /\ r.nest = q.nest /\ r.priority = q.priority /\ r.current = q.current
      /\ r.changed = q.changed
      /\ \A u \in Threads : u # t => r.stat[u] = q.stat[u]
      /\ r.stat[t] = IF t = q.current THEN "running" ELSE "ready"
  <2>1. CASE t = q.current
    <3>1. r = [q EXCEPT !.stat[t] = "running"]
      BY <2>1 DEF Insert
    <3>2. /\ r.table = q.table /\ r.group = q.group /\ r.yield = q.yield
          /\ r.stat = [q.stat EXCEPT ![t] = "running"]
          /\ r.priority = q.priority /\ r.current = q.current /\ r.nest = q.nest
          /\ r.changed = q.changed
      BY <1>1, <3>1 DEF State
    <3>3. r.stat \in [Threads -> Stats]
      BY <1>1, <3>2 DEF Stats
    <3>4. r = [table |-> r.table, group |-> r.group, stat |-> r.stat, yield |-> r.yield,
               priority |-> r.priority, current |-> r.current, nest |-> r.nest,
               changed |-> r.changed]
      BY <1>1, <3>1 DEF State
    <3>5. r \in State
      BY <1>1, <3>2, <3>3, <3>4 DEF State
    <3>6. r.stat[t] = "running" /\ \A u \in Threads : u # t => r.stat[u] = q.stat[u]
      BY <1>1, <3>2
    <3>7. ASSUME NEW p \in Levels
          PROVE  {u \in Threads : r.stat[u] = "ready" /\ u \notin V /\ r.priority[u] = p}
                    = {u \in Threads : q.stat[u] = "ready" /\ u \notin V /\ q.priority[u] = p}
      BY <3>2, <3>6
    <3>8. Lists(r, V)
      BY <1>1, <3>2, <3>5, <3>7 DEF Lists
    <3> QED BY <2>1, <3>2, <3>6, <3>8
  <2>2. CASE t # q.current
    <3> DEFINE X == V \cup {t}
    <3>1. Lists(q, X)
      BY <1>1, LeftOut
    <3> HIDE DEF X
    <3>2. MadeReady(q, V, t, r)
      BY <2>2, <3>1, InsertLists DEF X
    <3> QED BY <2>2, <3>2 DEF MadeReady
  <2> QED BY <2>1, <2>2
<1>3. Idle \in Threads
  BY ThreadsAssumption
<1>4. Sound(r, V)
  BY <1>1, <1>2, <1>3 DEF Sound
<1>5. \A u \in (W \ {t}) \cup (A \ {t}) : r.stat[u] = "suspend" /\ u \notin V
  BY <1>2 DEF Books
<1>6. \A u \in V : r.stat[u] \in {"ready", "suspend"}
  BY <1>2 DEF Books
<1>7. \A u \in Elements(d) : u \in Threads
  BY DEF Elements
<1>8. \A u \in Elements(d) : r.stat[u] = "close"
  BY <1>2, <1>7 DEF Books
<1>9. \A u \in Threads : r.stat[u] \in {"close", "freed"} => u \in Mortal
  BY <1>2 DEF Books
<1> QED BY <1>2, <1>4, <1>5, <1>6, <1>8, <1>9 DEF Books

(* A step from q to r that changes the state of one thread t only; after it    *)
(* V2 are half deleted, W2 and A2 wait and d2 is defunct.                     *)
OneMoves(q, V, W, A, d, t, r, V2, W2, A2, d2) ==
    /\ Lists(r, V2)
    /\ r.current = q.current
    /\ \A u \in Threads : u # t => r.stat[u] = q.stat[u]
    /\ r.stat[t] = "running" => t = q.current
    /\ r.stat[t] = "ready" => t # q.current
    /\ t = Idle => r.stat[t] \in {"ready", "running"}
    /\ r.stat[t] \in {"close", "freed"} => t \in Mortal
    /\ \A u \in W2 \cup A2 : \/ u \in W \cup A /\ u # t
                             \/ u = t /\ t \notin V2 /\ r.stat[t] = "suspend"
    /\ \A u \in V2 : u \in V \/ u = t
    /\ t \in V2 => t # q.current /\ t # Idle /\ r.stat[t] \in {"ready", "suspend"}
    /\ \A u \in Elements(d2) : \/ u \in Elements(d) /\ u # t
                               \/ u = t /\ r.stat[t] = "close"

LEMMA BooksOf ==
    ASSUME NEW V \in SUBSET Threads, NEW W \in SUBSET Threads, NEW A \in SUBSET Threads,
           NEW d \in Seq(Threads), NEW q, Books(q, V, W, A, d),
           NEW V2, NEW W2, NEW A2, NEW d2, NEW r, NEW t \in Threads,
           OneMoves(q, V, W, A, d, t, r, V2, W2, A2, d2)
    PROVE  Books(r, V2, W2, A2, d2)
<1> USE DEF OneMoves
<1>1. /\ \A u \in Threads : q.stat[u] = "running" => u = q.current
      /\ q.stat[q.current] # "ready" /\ q.current \notin V /\ q.current \in Threads
      /\ q.stat[Idle] \in {"ready", "running"} /\ Idle \notin V /\ Idle \in Threads
  BY ThreadsAssumption DEF Books, Sound, Lists, State
<1>2. /\ \A u \in Threads : r.stat[u] = "running" => u = r.current
      /\ r.stat[r.current] # "ready"
      /\ r.current \notin V2
  BY <1>1
<1>3. r.stat[Idle] \in {"ready", "running"} /\ Idle \notin V2
  BY <1>1
<1>4. Sound(r, V2)
  BY <1>2, <1>3 DEF Sound
<1>5. \A u \in W2 \cup A2 : r.stat[u] = "suspend" /\ u \notin V2
  BY DEF Books
<1>6. \A u \in V2 : r.stat[u] \in {"ready", "suspend"}
  BY DEF Books
<1>7. \A u \in Elements(d) : u \in Threads
  BY DEF Elements
<1>8. \A u \in Elements(d2) : r.stat[u] = "close"
  BY <1>7 DEF Books
<1>9. \A u \in Threads : r.stat[u] \in {"close", "freed"} => u \in Mortal
  BY DEF Books
<1> QED BY <1>4, <1>5, <1>6, <1>8, <1>9 DEF Books

(* The lists do not depend on the priority of a thread that stands in none. *)
LEMMA RepricedLists ==
    ASSUME NEW V, NEW q, Lists(q, V), NEW t \in Threads, t \in V \/ q.stat[t] # "ready",
           NEW r \in State, r.table = q.table, r.group = q.group, r.stat = q.stat,
           \A u \in Threads : u # t => r.priority[u] = q.priority[u]
    PROVE  Lists(r, V)
<1>1. ASSUME NEW p \in Levels
      PROVE  {u \in Threads : r.stat[u] = "ready" /\ u \notin V /\ r.priority[u] = p}
                = {u \in Threads : q.stat[u] = "ready" /\ u \notin V /\ q.priority[u] = p}
  OBVIOUS
<1> QED BY <1>1 DEF Lists

(* Nor on the state of a thread that stands in none and does not become ready. *)
LEMMA RestatedLists ==
    ASSUME NEW V, NEW q, Lists(q, V), NEW t \in Threads, t \in V \/ q.stat[t] # "ready",
           NEW W, NEW r \in State, r.table = q.table, r.group = q.group, r.priority = q.priority,
           r.stat[t] # "ready", \A u \in Threads : u # t => r.stat[u] = q.stat[u],
           \A u \in Threads : u # t => (u \in V <=> u \in W)
    PROVE  Lists(r, W)
<1>1. ASSUME NEW p \in Levels
      PROVE  {u \in Threads : r.stat[u] = "ready" /\ u \notin W /\ r.priority[u] = p}
                = {u \in Threads : q.stat[u] = "ready" /\ u \notin V /\ q.priority[u] = p}
  OBVIOUS
<1> QED BY <1>1 DEF Lists

-----------------------------------------------------------------------------
(* The inductive invariant *)

(* The thread that has the CPU is RUNNING and waits for nothing, or it has     *)
(* suspended itself and comes to its rt_schedule, which is not locked.       *)
CurrentRuns ==
    \/ s.stat[s.current] = "running" /\ s.current \notin waiting \cup armed
    \/ s.stat[s.current] = "suspend" /\ pc[s.current] = "schedule" /\ s.nest = 0

(* Calls of two parts: nobody suspends, resumes or deletes itself in this way, *)
(* and a thread is deleted once.                                             *)
CallsOpen ==
    /\ pc \in [Threads -> {"run", "schedule", "delete", "suspend", "resume"}]
    /\ target \in [Threads -> Threads \cup {None}]
    /\ \A t \in Threads : pc[t] \in {"suspend", "resume"} => target[t] \in Handled /\ target[t] # t
    /\ \A t \in Threads : pc[t] = "delete" => target[t] \in Mortal
    /\ \A t, u \in Threads : pc[t] = "delete" /\ pc[u] = "delete" /\ target[t] = target[u] => t = u

IInv ==
    /\ TypeOK
    /\ Books(s, Victims, waiting, armed, defunct)
    /\ CurrentRuns
    /\ armed \subseteq Timed
    /\ CallsOpen
    /\ Once(defunct)
    /\ RunsHighest

(* What an action can take from the invariant. *)
LEMMA Known ==
    ASSUME IInv
    PROVE  /\ s \in State /\ Lists(s, Victims) /\ Sound(s, Victims)
           /\ s.current \in Threads /\ s.nest \in Nat /\ s.stat \in [Threads -> Stats]
           /\ s.priority \in [Threads -> Levels]
           /\ Victims \in SUBSET Threads /\ Victims \subseteq Mortal
           /\ waiting \in SUBSET Threads /\ armed \in SUBSET Threads /\ defunct \in Seq(Threads)
           /\ Books(s, Victims, waiting, armed, defunct)
           /\ CurrentRuns /\ CallsOpen
<1>1. /\ s \in State /\ Lists(s, Victims) /\ Sound(s, Victims)
      /\ s.current \in Threads /\ s.nest \in Nat /\ s.stat \in [Threads -> Stats]
      /\ s.priority \in [Threads -> Levels]
  BY SliceAssumption DEF IInv, Books, Sound, Lists, State
<1>2. Victims \subseteq Mortal
  BY DEF IInv, CallsOpen, Victims
<1> QED BY <1>1, <1>2, SetsAssumption DEF IInv, TypeOK

(* A thread that makes a call is RUNNING and waits for nothing. *)
LEMMA CallerRuns ==
    ASSUME IInv, NEW t \in Threads, s.current = t, pc[t] # "schedule"
    PROVE  s.stat[t] = "running" /\ t \notin waiting \cup armed
BY DEF IInv, CurrentRuns

(* A step in which t begins or ends a call that deletes nobody. *)
LEMMA CallMoves ==
    ASSUME CallsOpen, NEW t \in Threads, pc[t] # "delete", NEW x \in {"run", "schedule"},
           pc' = [pc EXCEPT ![t] = x],
           target' = target \/ target' = [target EXCEPT ![t] = None]
    PROVE  CallsOpen' /\ Victims' = Victims
<1>1. /\ pc' \in [Threads -> {"run", "schedule", "delete", "suspend", "resume"}]
      /\ pc'[t] = x /\ \A u \in Threads : u # t => pc'[u] = pc[u]
  BY DEF CallsOpen
<1>2. /\ target' \in [Threads -> Threads \cup {None}]
      /\ \A u \in Threads : u # t => target'[u] = target[u]
  BY DEF CallsOpen
<1>3. CallsOpen'
  BY <1>1, <1>2 DEF CallsOpen
<1>4. \A u \in Threads : pc'[u] = "delete" <=> pc[u] = "delete"
  BY <1>1
<1>5. \A u \in Threads : pc[u] = "delete" => target'[u] = target[u]
  BY <1>2
<1>6. Victims' = Victims
  BY <1>4, <1>5 DEF Victims
<1> QED BY <1>3, <1>6

(* A step that opens and closes no call. *)
LEMMA CallsStay ==
    ASSUME CallsOpen, UNCHANGED <<pc, target>>
    PROVE  CallsOpen' /\ Victims' = Victims
BY DEF CallsOpen, Victims

(* The state after a step that ends with rt_schedule. *)
LEMMA AfterSchedule ==
    ASSUME IInv, NEW q, NEW A, NEW W, NEW d, A \subseteq armed, W \subseteq waiting,
           d \in Seq(Threads), Once(d),
           Books(q, Victims, W, A, d), q.nest > 0 => q.stat[q.current] = "running",
           s' = Schedule(q), armed' = A, waiting' = W, defunct' = d,
           CallsOpen', Victims' = Victims,
           remaining' \in [Threads -> 1 .. Slice], isr' \in BOOLEAN
    PROVE  IInv'
<1>1. /\ Victims \in SUBSET Threads /\ W \in SUBSET Threads /\ A \in SUBSET Threads
      /\ armed \subseteq Timed
  BY Known DEF IInv
<1>2. Dispatched(q, Victims, W, A, d, s')
  BY <1>1, BooksScheduled
<1>3. s' \in State
  BY <1>2 DEF Dispatched, Books, Sound, Lists
<1>4. TypeOK'
  BY <1>1, <1>3 DEF TypeOK, CallsOpen
<1>5. CurrentRuns'
  BY <1>2 DEF Dispatched, CurrentRuns
<1>6. RunsHighest'
  BY <1>2 DEF Dispatched, RunsHighest, Ready
<1> QED BY <1>1, <1>2, <1>4, <1>5, <1>6 DEF Dispatched, IInv

LEMMA InitIInv == Init => IInv
<1> SUFFICES ASSUME Init PROVE IInv
  OBVIOUS
<1>1. Idle \in Threads /\ Main \in Threads /\ Main # Idle /\ InitPriority[Idle] \in Levels
  BY ThreadsAssumption, LevelsAssumption
<1>2. /\ s.table = [p \in Levels |-> IF p = InitPriority[Idle] THEN <<Idle>> ELSE <<>>]
      /\ s.group = {InitPriority[Idle]}
      /\ s.stat = [t \in Threads |-> IF t = Main THEN "running"
                                     ELSE IF t = Idle THEN "ready" ELSE "init"]
      /\ s.yield = {} /\ s.priority = InitPriority /\ s.current = Main /\ s.nest = 0
      /\ s.changed = FALSE
  BY DEF Init
<1>3. s \in State
  <2>1. s.table \in [Levels -> Seq(Threads)]
    BY <1>1, <1>2
  <2>2. s.stat \in [Threads -> Stats]
    BY <1>2 DEF Stats
  <2>3. s = [table |-> s.table, group |-> s.group, stat |-> s.stat, yield |-> s.yield,
             priority |-> s.priority, current |-> s.current, nest |-> s.nest,
             changed |-> s.changed]
    BY DEF Init
  <2>4. 0 \in 0 .. MaxNest
    BY SliceAssumption
  <2> QED BY <1>1, <1>2, <2>1, <2>2, <2>3, <2>4, LevelsAssumption DEF State
<1>4. Victims = {} /\ waiting = {} /\ armed = {} /\ defunct = <<>>
  BY DEF Init, Victims
<1>5. Lists(s, Victims)
  <2> SUFFICES ASSUME NEW p \in Levels
               PROVE  /\ p \in s.group <=> s.table[p] # <<>>
                      /\ Once(s.table[p])
                      /\ Elements(s.table[p])
                            = {t \in Threads : s.stat[t] = "ready" /\ t \notin Victims /\ s.priority[t] = p}
    BY <1>3 DEF Lists
  <2>1. {t \in Threads : s.stat[t] = "ready" /\ t \notin Victims /\ s.priority[t] = p}
          = IF p = InitPriority[Idle] THEN {Idle} ELSE {}
    BY <1>1, <1>2, <1>4
  <2>2. CASE p = InitPriority[Idle]
    <3>1. s.table[p] = <<Idle>>
      BY <1>2, <2>2
    <3>2. Elements(<<Idle>>) = {Idle} /\ Once(<<Idle>>)
      BY DEF Elements, Once
    <3> QED BY <1>2, <2>1, <2>2, <3>1, <3>2
  <2>3. CASE p # InitPriority[Idle]
    <3>1. s.table[p] = <<>>
      BY <1>2, <2>3
    <3>2. Elements(<<>>) = {} /\ Once(<<>>)
      BY DEF Elements, Once
    <3> QED BY <1>2, <2>1, <2>3, <3>1, <3>2
  <2> QED BY <2>2, <2>3
<1>6. Elements(defunct) = {} /\ Once(defunct)
  BY <1>4 DEF Elements, Once
<1>7. Books(s, Victims, waiting, armed, defunct)
  BY <1>1, <1>2, <1>4, <1>5, <1>6 DEF Books, Sound
<1>8. CallsOpen
  BY DEF Init, CallsOpen
<1>9. TypeOK
  <2>1. remaining \in [Threads -> 1 .. Slice]
    BY SliceAssumption DEF Init
  <2>2. isr = FALSE
    BY DEF Init
  <2>3. isr \in BOOLEAN
    BY <2>2
  <2>4. defunct \in Seq(Threads)
    BY <1>4
  <2> QED BY <1>3, <1>4, <1>8, <2>1, <2>3, <2>4 DEF TypeOK, CallsOpen
<1>10. CurrentRuns
  BY <1>1, <1>2, <1>4 DEF CurrentRuns
<1>11. RunsHighest
  BY <1>1, <1>2, LevelsAssumption, IdleAssumption DEF RunsHighest, Ready
<1> QED BY <1>4, <1>6, <1>7, <1>8, <1>9, <1>10, <1>11 DEF IInv

-----------------------------------------------------------------------------
(* Every action preserves it: the ones that end with rt_schedule ... *)

(* The flag of rt_thread_yield and of the end of a time slice. *)
LEMMA BooksYielding ==
    ASSUME NEW V, NEW W, NEW A, NEW d, NEW q, Books(q, V, W, A, d), NEW t \in Threads,
           NEW r, r = [q EXCEPT !.yield = @ \cup {t}]
    PROVE  Books(r, V, W, A, d) /\ r.nest = q.nest /\ r.stat = q.stat /\ r.current = q.current
<1>1. q \in State /\ Lists(q, V)
  BY DEF Books, Sound, Lists
<1>2. q.yield \cup {t} \in SUBSET Threads
  BY <1>1 DEF State
<1>3. /\ r.table = q.table /\ r.group = q.group /\ r.stat = q.stat
      /\ r.priority = q.priority /\ r.current = q.current /\ r.nest = q.nest
  BY <1>1 DEF State
<1>4. r \in State
  BY <1>1, <1>2 DEF State
<1>5. Lists(r, V)
  BY <1>1, <1>3, <1>4 DEF Lists
<1>6. Sound(r, V)
  BY <1>3, <1>5 DEF Books, Sound
<1> QED BY <1>3, <1>6 DEF Books

LEMMA ScheduleStep ==
    ASSUME IInv, NEW t \in Threads, rt_schedule(t)
    PROVE  IInv'
<1>1. /\ CallsOpen' /\ Victims' = Victims
  <2>1. /\ CallsOpen /\ pc[t] # "delete" /\ pc' = [pc EXCEPT ![t] = "run"]
        /\ target' = target
    BY Known DEF rt_schedule, GoesOnWith
  <2> QED BY <2>1, CallMoves
<1>2. s.nest > 0 => s.stat[s.current] = "running"
  BY Known DEF CurrentRuns
<1>3. /\ s' = Schedule(s) /\ armed' = armed /\ waiting' = waiting /\ defunct' = defunct
      /\ remaining' = remaining /\ isr' = isr
  BY DEF rt_schedule
<1>4. /\ defunct \in Seq(Threads) /\ Once(defunct) /\ Books(s, Victims, waiting, armed, defunct)
      /\ remaining \in [Threads -> 1 .. Slice] /\ isr \in BOOLEAN
  BY DEF IInv, TypeOK
<1> QED BY <1>1, <1>2, <1>3, <1>4, AfterSchedule

LEMMA YieldStep ==
    ASSUME IInv, NEW t \in Threads, rt_thread_yield(t)
    PROVE  IInv'
<1> DEFINE q == [s EXCEPT !.yield = @ \cup {t}]
<1>1. /\ CallsOpen' /\ Victims' = Victims
  BY Known, CallsStay DEF rt_thread_yield
<1>2. /\ s' = Schedule(q) /\ armed' = armed /\ waiting' = waiting /\ defunct' = defunct
      /\ isr' = isr /\ remaining' = [remaining EXCEPT ![t] = Slice]
  BY DEF rt_thread_yield
<1>3. /\ defunct \in Seq(Threads) /\ Once(defunct) /\ Books(s, Victims, waiting, armed, defunct)
      /\ remaining \in [Threads -> 1 .. Slice] /\ isr \in BOOLEAN
  BY DEF IInv, TypeOK
<1>4. /\ Books(q, Victims, waiting, armed, defunct)
      /\ q.nest = s.nest /\ q.stat = s.stat /\ q.current = s.current
  BY <1>3, BooksYielding
<1>5. q.nest > 0 => q.stat[q.current] = "running"
  BY <1>4, Known DEF CurrentRuns
<1>6. remaining' \in [Threads -> 1 .. Slice] /\ isr' \in BOOLEAN
  BY <1>2, <1>3, SliceAssumption
<1> HIDE DEF q
<1> QED BY <1>1, <1>2, <1>3, <1>4, <1>5, <1>6, AfterSchedule

(* Nothing that the invariant is about but the remaining ticks has changed. *)
LEMMA OnlyTicks ==
    ASSUME IInv, UNCHANGED <<s, pc, waiting, armed, target, defunct>>,
           remaining' \in [Threads -> 1 .. Slice], isr' \in BOOLEAN
    PROVE  IInv'
<1>1. CallsOpen' /\ Victims' = Victims
  BY Known, CallsStay
<1>2. TypeOK'
  BY DEF IInv, TypeOK
<1>3. CurrentRuns' /\ RunsHighest'
  BY <1>1 DEF IInv, CurrentRuns, RunsHighest, Ready
<1> QED BY <1>1, <1>2, <1>3 DEF IInv

LEMMA TickStep ==
    ASSUME IInv, rt_tick_increase
    PROVE  IInv'
<1> DEFINE q == [s EXCEPT !.yield = @ \cup {s.current}]
<1>1. /\ defunct \in Seq(Threads) /\ Once(defunct) /\ Books(s, Victims, waiting, armed, defunct)
      /\ remaining \in [Threads -> 1 .. Slice] /\ s.current \in Threads
  BY Known DEF IInv, TypeOK
<1>2. isr' \in BOOLEAN
  BY DEF rt_tick_increase
<1>3. CASE remaining[s.current] = 1
  <2>1. /\ CallsOpen' /\ Victims' = Victims
    BY Known, CallsStay DEF rt_tick_increase
  <2>2. /\ s' = Schedule(q) /\ armed' = armed /\ waiting' = waiting /\ defunct' = defunct
        /\ remaining' = [remaining EXCEPT ![s.current] = Slice]
    BY <1>3 DEF rt_tick_increase
  <2>3. /\ Books(q, Victims, waiting, armed, defunct)
        /\ q.nest = s.nest /\ q.stat = s.stat /\ q.current = s.current
    BY <1>1, BooksYielding
  <2>4. q.nest > 0 => q.stat[q.current] = "running"
    BY <2>3, Known DEF CurrentRuns
  <2>5. remaining' \in [Threads -> 1 .. Slice]
    BY <1>1, <2>2, SliceAssumption
  <2> HIDE DEF q
  <2> QED BY <1>1, <1>2, <2>1, <2>2, <2>3, <2>4, <2>5, AfterSchedule
<1>4. CASE remaining[s.current] # 1
  <2>1. /\ UNCHANGED <<s, pc, waiting, armed, target, defunct>>
        /\ remaining' = [remaining EXCEPT ![s.current] = @ - 1]
    BY <1>4 DEF rt_tick_increase
  <2>2. remaining[s.current] - 1 \in 1 .. Slice
    BY <1>1, <1>4, SliceAssumption
  <2>3. remaining' \in [Threads -> 1 .. Slice]
    BY <1>1, <2>1, <2>2
  <2> QED BY <1>2, <2>1, <2>3, OnlyTicks
<1> QED BY <1>3, <1>4

LEMMA TimerCheckStep ==
    ASSUME IInv, rt_timer_check
    PROVE  IInv'
<1>1. /\ UNCHANGED <<s, pc, waiting, armed, target, defunct>>
      /\ remaining' \in [Threads -> 1 .. Slice] /\ isr' \in BOOLEAN
  BY DEF rt_timer_check, IInv, TypeOK
<1> QED BY <1>1, OnlyTicks

LEMMA TimeoutStep ==
    ASSUME IInv, NEW u \in Threads, rt_thread_timeout(u)
    PROVE  IInv'
<1> DEFINE q == Insert(s, u)
<1>1. /\ CallsOpen' /\ Victims' = Victims
  BY Known, CallsStay DEF rt_thread_timeout
<1>2. /\ s' = Schedule(q) /\ armed' = armed \ {u} /\ waiting' = waiting \ {u}
      /\ defunct' = defunct /\ remaining' = remaining /\ isr' = isr /\ u \in armed
  BY DEF rt_thread_timeout
<1>3. /\ defunct \in Seq(Threads) /\ Once(defunct)
      /\ remaining \in [Threads -> 1 .. Slice] /\ isr \in BOOLEAN
  BY DEF IInv, TypeOK
<1>4. s.stat[u] = "suspend" /\ u \notin Victims
  BY <1>2, Known DEF Books
<1>5. Resumed(s, Victims, waiting, armed, defunct, u, q)
  BY <1>4, Known, BooksInserted
<1> HIDE DEF q
<1>6. q.nest > 0 => q.stat[q.current] = "running"
  BY <1>4, <1>5, Known DEF CurrentRuns, Resumed
<1>7. Books(q, Victims, waiting \ {u}, armed \ {u}, defunct)
  BY <1>5 DEF Resumed
<1>8. armed \ {u} \subseteq armed /\ waiting \ {u} \subseteq waiting
  OBVIOUS
<1> QED BY <1>1, <1>2, <1>3, <1>6, <1>7, <1>8, AfterSchedule

(* A dead thread in front of _rt_thread_defunct. *)
LEMMA DefunctGrows ==
    ASSUME NEW S, NEW d \in Seq(S), Once(d), NEW t \in S, t \notin Elements(d)
    PROVE  /\ <<t>> \o d \in Seq(S) /\ Once(<<t>> \o d)
           /\ Elements(<<t>> \o d) = Elements(d) \cup {t}
<1> DEFINE new == <<t>> \o d
<1>1. /\ new \in Seq(S) /\ Len(d) \in Nat /\ Len(new) = Len(d) + 1 /\ new[1] = t
      /\ \A i \in 1 .. Len(d) : new[i + 1] = d[i]
  OBVIOUS
<1> HIDE DEF new
<1>2. \A i \in 1 .. Len(new) : i = 1 \/ (i - 1 \in 1 .. Len(d) /\ new[i] = d[i - 1])
  BY <1>1
<1>3. \A i \in 1 .. Len(d) : i + 1 \in 1 .. Len(new) /\ d[i] # t
  BY <1>1 DEF Elements
<1>4. 1 \in 1 .. Len(new)
  BY <1>1
<1>5. Elements(new) = Elements(d) \cup {t}
  <2>1. ASSUME NEW i \in 1 .. Len(new) PROVE new[i] \in Elements(d) \cup {t}
    <3>1. CASE i = 1
      BY <1>1, <3>1
    <3>2. CASE i # 1
      <4>1. i - 1 \in 1 .. Len(d) /\ new[i] = d[i - 1]
        BY <1>2, <3>2
      <4> QED BY <4>1 DEF Elements
    <3> QED BY <3>1, <3>2
  <2>2. \A x \in Elements(d) : x \in Elements(new)
    BY <1>1, <1>3 DEF Elements
  <2>3. t \in Elements(new)
    BY <1>1, <1>4 DEF Elements
  <2>4. \A x \in Elements(new) : x \in Elements(d) \cup {t}
    BY <2>1 DEF Elements
  <2> QED BY <2>2, <2>3, <2>4
<1>6. Once(new)
  <2> SUFFICES ASSUME NEW i \in 1 .. Len(new), NEW j \in 1 .. Len(new), new[i] = new[j]
               PROVE  i = j
    BY DEF Once
  <2>1. CASE i = 1
    BY <1>1, <1>2, <1>3, <2>1
  <2>2. CASE i # 1
    <3>1. i - 1 \in 1 .. Len(d) /\ new[i] = d[i - 1]
      BY <1>2, <2>2
    <3>2. j - 1 \in 1 .. Len(d) /\ new[j] = d[j - 1]
      BY <1>1, <1>2, <1>3, <3>1
    <3>3. i - 1 = j - 1
      BY <3>1, <3>2 DEF Once
    <3> QED BY <3>3
  <2> QED BY <2>1, <2>2
<1> QED BY <1>1, <1>5, <1>6 DEF new

LEMMA ExitStep ==
    ASSUME IInv, NEW t \in Threads, rt_thread_exit(t)
    PROVE  IInv'
<1> DEFINE q == TakenOut(s, t, "close")
           d == <<t>> \o defunct
           A == armed \ {t}
<1>1. /\ CallsOpen' /\ Victims' = Victims
  BY Known, CallsStay DEF rt_thread_exit
<1>2. /\ s' = Schedule(q) /\ armed' = A /\ waiting' = waiting
      /\ defunct' = d /\ remaining' = remaining /\ isr' = isr
      /\ s.current = t /\ pc[t] = "run" /\ t \in Mortal /\ s.nest = 0
  BY DEF rt_thread_exit, Calls, TakenOut
<1>3. /\ defunct \in Seq(Threads) /\ Once(defunct)
      /\ remaining \in [Threads -> 1 .. Slice] /\ isr \in BOOLEAN
  BY DEF IInv, TypeOK
<1>4. s.stat[t] = "running" /\ t \notin waiting \cup armed
  BY <1>2, CallerRuns
<1>5. t \notin Victims /\ t \notin Elements(defunct) /\ t # Idle
  BY <1>2, <1>4, Known, IdleAssumption DEF Books, Sound
<1>6. d \in Seq(Threads) /\ Once(d) /\ Elements(d) = Elements(defunct) \cup {t}
  BY <1>3, <1>5, DefunctGrows
<1>7. /\ Lists(q, Victims) /\ q.stat = [s.stat EXCEPT ![t] = "close"]
      /\ q.current = s.current /\ q.nest = s.nest
  <2>1. Lists(s, Victims) /\ "close" \in Stats /\ "close" # "ready"
    BY Known DEF Stats
  <2> QED BY <2>1, RemovedLists
<1> HIDE DEF q, d, A
<1>8. q.stat[t] = "close" /\ \A u \in Threads : u # t => q.stat[u] = s.stat[u]
  BY <1>7, Known
<1>9. \A u \in waiting \cup A : u \in waiting \cup armed /\ u # t
  BY <1>4 DEF A
<1>10. \A u \in Elements(d) : \/ u \in Elements(defunct) /\ u # t
                              \/ u = t /\ q.stat[t] = "close"
  BY <1>5, <1>6, <1>8
<1>11. Books(q, Victims, waiting, A, d)
  <2>1. OneMoves(s, Victims, waiting, armed, defunct, t, q, Victims, waiting, A, d)
    BY <1>2, <1>5, <1>7, <1>8, <1>9, <1>10 DEF OneMoves
  <2> QED BY <2>1, Known, BooksOf
<1>12. A \subseteq armed /\ ~(q.nest > 0)
  BY <1>2, <1>7 DEF A
<1> QED BY <1>1, <1>2, <1>3, <1>6, <1>11, <1>12, AfterSchedule

-----------------------------------------------------------------------------
(* ... and the others. *)

(* The parts of the invariant that a step has to bring back. *)
LEMMA Assembled ==
    ASSUME IInv, CallsOpen', Books(s, Victims, waiting, armed, defunct)', CurrentRuns', RunsHighest',
           armed' \subseteq Timed, waiting' \subseteq Threads, defunct' \in Seq(Threads), Once(defunct'),
           UNCHANGED <<remaining, isr>>
    PROVE  IInv'
<1>1. s' \in State
  BY DEF Books, Sound, Lists
<1>2. TypeOK'
  BY <1>1, SetsAssumption DEF IInv, TypeOK, CallsOpen
<1> QED BY <1>2 DEF IInv

(* A call that has still to come to its rt_schedule. *)
LEMMA BeforeSchedule ==
    ASSUME IInv, NEW t \in Threads, s'.current = t, pc'[t] = "schedule",
           CallsOpen', NEW V, Victims' = V, Books(s', V, waiting', armed', defunct'),
           \/ s'.stat[t] = "running" /\ t \notin waiting' \cup armed'
           \/ s'.stat[t] = "suspend" /\ s'.nest = 0,
           armed' \subseteq Timed, waiting' \subseteq Threads, defunct' \in Seq(Threads), Once(defunct'),
           UNCHANGED <<remaining, isr>>
    PROVE  IInv'
<1>1. CurrentRuns'
  BY DEF CurrentRuns
<1>2. RunsHighest'
  BY DEF RunsHighest
<1> QED BY <1>1, <1>2, Assembled

(* Another priority of a thread that is not ready. *)
LEMMA BooksRepriced ==
    ASSUME NEW V \in SUBSET Threads, NEW W \in SUBSET Threads, NEW A \in SUBSET Threads,
           NEW d \in Seq(Threads), NEW q, Books(q, V, W, A, d),
           NEW t \in Threads, q.stat[t] # "ready",
           NEW r \in State, r.table = q.table, r.group = q.group, r.stat = q.stat,
           r.current = q.current,
           \A u \in Threads : u # t => r.priority[u] = q.priority[u]
    PROVE  Books(r, V, W, A, d)
<1>1. Lists(q, V)
  BY DEF Books, Sound
<1>2. Lists(r, V)
  BY <1>1, RepricedLists
<1>3. Sound(r, V)
  BY <1>2 DEF Books, Sound
<1> QED BY <1>3 DEF Books

LEMMA StartupStep ==
    ASSUME IInv, NEW t \in Threads, NEW u \in Threads, rt_thread_startup(t, u)
    PROVE  IInv'
<1> DEFINE q == [s EXCEPT !.priority[u] = InitPriority[u]]
<1>1. /\ s' = Insert(q, u) /\ s.current = t /\ pc[t] = "run" /\ s.stat[u] = "init"
      /\ pc' = [pc EXCEPT ![t] = "schedule"]
      /\ UNCHANGED <<remaining, waiting, armed, isr, target, defunct>>
  BY DEF rt_thread_startup, Calls, ThenSchedule
<1>2. s.stat[t] = "running" /\ t \notin waiting \cup armed
  BY <1>1, CallerRuns
<1>3. /\ q.table = s.table /\ q.group = s.group /\ q.stat = s.stat /\ q.current = s.current
      /\ q.priority = [s.priority EXCEPT ![u] = InitPriority[u]]
  BY Known DEF State
<1>4. q \in State
  <2>1. [s.priority EXCEPT ![u] = InitPriority[u]] \in [Threads -> Levels]
    BY Known, LevelsAssumption
  <2> QED BY <2>1, Known DEF State
<1> HIDE DEF q
<1>5. \A v \in Threads : v # u => q.priority[v] = s.priority[v]
  BY <1>3, Known
<1>6. Books(q, Victims, waiting, armed, defunct)
  <2>1. /\ Victims \in SUBSET Threads /\ waiting \in SUBSET Threads
        /\ armed \in SUBSET Threads /\ defunct \in Seq(Threads)
        /\ Books(s, Victims, waiting, armed, defunct) /\ s.stat[u] # "ready"
    BY <1>1, Known
  <2> QED BY <1>3, <1>4, <1>5, <2>1, BooksRepriced
<1>7. u \notin Victims /\ u \notin waiting /\ u \notin armed
  BY <1>1, Known DEF Books
<1>8. Resumed(q, Victims, waiting, armed, defunct, u, s')
  BY <1>1, <1>3, <1>6, <1>7, Known, BooksInserted
<1>9. CallsOpen' /\ Victims' = Victims
  BY <1>1, Known, CallMoves
<1>10. waiting \ {u} = waiting' /\ armed \ {u} = armed' /\ defunct' = defunct
  BY <1>1, <1>7
<1>11. Books(s', Victims, waiting', armed', defunct')
  BY <1>8, <1>10 DEF Resumed
<1>12. s'.current = t /\ s'.stat[t] = "running" /\ t \notin waiting' \cup armed'
  BY <1>1, <1>2, <1>3, <1>8 DEF Resumed
<1>13. pc'[t] = "schedule"
  BY <1>1, Known DEF CallsOpen
<1>14. /\ armed' \subseteq Timed /\ waiting' \subseteq Threads
       /\ defunct' \in Seq(Threads) /\ Once(defunct')
  BY <1>1 DEF IInv, TypeOK
<1> QED BY <1>1, <1>9, <1>11, <1>12, <1>13, <1>14, BeforeSchedule

LEMMA IpcResumeStep ==
    ASSUME IInv, NEW t \in Threads, NEW u \in Threads, rt_ipc_list_resume(t, u)
    PROVE  IInv'
<1>1. /\ s' = Insert(s, u) /\ s.current = t /\ pc[t] = "run" /\ u \in waiting
      /\ pc' = [pc EXCEPT ![t] = "schedule"]
      /\ waiting' = waiting \ {u} /\ armed' = armed \ {u}
      /\ UNCHANGED <<remaining, isr, target, defunct>>
  BY DEF rt_ipc_list_resume, Calls, ThenSchedule
<1>2. s.stat[t] = "running" /\ t \notin waiting \cup armed
  BY <1>1, CallerRuns
<1>3. u \notin Victims /\ s.stat[u] = "suspend"
  BY <1>1, Known DEF Books
<1>4. Resumed(s, Victims, waiting, armed, defunct, u, s')
  BY <1>1, <1>3, Known, BooksInserted
<1>5. CallsOpen' /\ Victims' = Victims
  BY <1>1, Known, CallMoves
<1>6. Books(s', Victims, waiting', armed', defunct')
  BY <1>1, <1>4 DEF Resumed
<1>7. s'.current = t /\ s'.stat[t] = "running" /\ t \notin waiting' \cup armed'
  BY <1>1, <1>2, <1>3, <1>4 DEF Resumed
<1>8. pc'[t] = "schedule"
  BY <1>1, Known DEF CallsOpen
<1>9. /\ armed' \subseteq Timed /\ waiting' \subseteq Threads
      /\ defunct' \in Seq(Threads) /\ Once(defunct')
  BY <1>1 DEF IInv, TypeOK
<1> QED BY <1>1, <1>5, <1>6, <1>7, <1>8, <1>9, BeforeSchedule

LEMMA WaitSelfStep ==
    ASSUME IInv, NEW t \in Threads, WaitSelf(t)
    PROVE  IInv'
<1>1. /\ s' = TakenOut(s, t, "suspend") /\ s.current = t /\ pc[t] = "run" /\ t # Idle /\ s.nest = 0
      /\ pc' = [pc EXCEPT ![t] = "schedule"]
      /\ UNCHANGED <<remaining, isr, target, defunct>>
  BY DEF WaitSelf, Calls, ThenSchedule, TakenOut
<1>2. /\ armed' \subseteq armed \cup {t} /\ waiting' \subseteq waiting \cup {t}
      /\ t \in armed' => t \in Timed
  BY DEF WaitSelf
<1>3. s.stat[t] = "running" /\ t \notin waiting \cup armed
  BY <1>1, CallerRuns
<1>4. t \notin Victims /\ t \notin Elements(defunct)
  BY <1>1, <1>3, Known DEF Books, Sound
<1>5. /\ Lists(s', Victims) /\ s'.stat = [s.stat EXCEPT ![t] = "suspend"]
      /\ s'.current = s.current /\ s'.nest = s.nest
  <2>1. Lists(s, Victims) /\ "suspend" \in Stats /\ "suspend" # "ready"
    BY Known DEF Stats
  <2> QED BY <1>1, <2>1, RemovedLists
<1>6. s'.stat[t] = "suspend" /\ \A u \in Threads : u # t => s'.stat[u] = s.stat[u]
  BY <1>5, Known
<1>7. \A u \in waiting' \cup armed' : \/ u \in waiting \cup armed /\ u # t
                                      \/ u = t /\ t \notin Victims /\ s'.stat[t] = "suspend"
  BY <1>2, <1>3, <1>4, <1>6
<1>8. Books(s', Victims, waiting', armed', defunct')
  <2>1. \A u \in Elements(defunct') : u \in Elements(defunct) /\ u # t
    BY <1>1, <1>4
  <2>2. OneMoves(s, Victims, waiting, armed, defunct, t, s', Victims, waiting', armed', defunct')
    BY <1>1, <1>4, <1>5, <1>6, <1>7, <2>1 DEF OneMoves
  <2> QED BY <2>2, Known, BooksOf
<1>9. CallsOpen' /\ Victims' = Victims
  BY <1>1, Known, CallMoves
<1>10. pc'[t] = "schedule" /\ s'.current = t
  BY <1>1, <1>5, Known DEF CallsOpen
<1>11. /\ armed' \subseteq Timed /\ waiting' \subseteq Threads
       /\ defunct' \in Seq(Threads) /\ Once(defunct')
  BY <1>1, <1>2 DEF IInv, TypeOK
<1> QED BY <1>1, <1>5, <1>6, <1>8, <1>9, <1>10, <1>11, BeforeSchedule

(* t opens a call about another thread that does not end. *)
LEMMA CallOpens ==
    ASSUME CallsOpen, NEW t \in Threads, pc[t] = "run", NEW x \in {"suspend", "resume"},
           NEW u \in Handled, u # t, ThenDoes(t, x, u)
    PROVE  CallsOpen' /\ Victims' = Victims
<1>1. u \in Threads
  BY HandledAssumption
<1>2. /\ pc' \in [Threads -> {"run", "schedule", "delete", "suspend", "resume"}]
      /\ pc'[t] = x /\ \A v \in Threads : v # t => pc'[v] = pc[v]
  BY DEF CallsOpen, ThenDoes
<1>3. /\ target' \in [Threads -> Threads \cup {None}]
      /\ target'[t] = u /\ \A v \in Threads : v # t => target'[v] = target[v]
  BY <1>1 DEF CallsOpen, ThenDoes
<1>4. CallsOpen'
  BY <1>2, <1>3 DEF CallsOpen
<1>5. \A v \in Threads : pc'[v] = "delete" <=> pc[v] = "delete"
  BY <1>2
<1>6. \A v \in Threads : pc[v] = "delete" => target'[v] = target[v]
  BY <1>3
<1>7. Victims' = Victims
  BY <1>5, <1>6 DEF Victims
<1> QED BY <1>4, <1>7

(* rt_thread_suspend and rt_thread_resume look at the state of the thread. *)
LEMMA LookStep ==
    ASSUME IInv, NEW t \in Threads, NEW u \in Threads,
           rt_thread_suspend(t, u) \/ rt_thread_resume(t, u)
    PROVE  IInv'
<1>1. /\ s.current = t /\ pc[t] = "run" /\ u \in Handled
      /\ s.stat[u] \in {"ready", "suspend"}
      /\ UNCHANGED <<s, remaining, waiting, armed, isr, defunct>>
  BY DEF rt_thread_suspend, rt_thread_resume, Calls
<1>2. s.stat[t] = "running" /\ t \notin waiting \cup armed
  BY <1>1, CallerRuns
<1>3. u # t
  BY <1>1, <1>2
<1>4. PICK x \in {"suspend", "resume"} : ThenDoes(t, x, u)
  BY DEF rt_thread_suspend, rt_thread_resume
<1>5. CallsOpen' /\ Victims' = Victims
  BY <1>1, <1>3, <1>4, Known, CallOpens
<1>6. CurrentRuns'
  BY <1>1, <1>2 DEF CurrentRuns
<1>7. RunsHighest'
  BY <1>1, <1>5 DEF IInv, RunsHighest, Ready
<1>8. Books(s, Victims, waiting, armed, defunct)'
  BY <1>1, <1>5, Known
<1>9. /\ armed' \subseteq Timed /\ waiting' \subseteq Threads
      /\ defunct' \in Seq(Threads) /\ Once(defunct')
  BY <1>1 DEF IInv, TypeOK
<1> QED BY <1>1, <1>5, <1>6, <1>7, <1>8, <1>9, Assembled

LEMMA SuspendTargetStep ==
    ASSUME IInv, NEW t \in Threads, SuspendTarget(t)
    PROVE  IInv'
<1> DEFINE u == target[t]
<1>1. /\ s' = TakenOut(s, u, "suspend") /\ s.current = t /\ pc[t] = "suspend"
      /\ waiting' = waiting \ {u} /\ armed' = armed \ {u}
      /\ pc' = [pc EXCEPT ![t] = "run"] /\ target' = [target EXCEPT ![t] = None]
      /\ UNCHANGED <<remaining, isr, defunct>>
  BY DEF SuspendTarget, GoesOnWith, ThenDoes, TakenOut
<1>2. s.stat[t] = "running" /\ t \notin waiting \cup armed
  BY <1>1, CallerRuns
<1>3. u \in Handled /\ u # t /\ u \in Threads /\ u \notin Mortal /\ u # Idle
  BY <1>1, Known, HandledAssumption DEF CallsOpen
<1> HIDE DEF u
<1>4. u \notin Victims /\ u \notin Elements(defunct)
  BY <1>3, Known DEF Books
<1>5. /\ Lists(s', Victims) /\ s'.stat = [s.stat EXCEPT ![u] = "suspend"]
      /\ s'.current = s.current /\ s'.nest = s.nest /\ s'.priority = s.priority
      /\ s'.changed = s.changed
  <2>1. Lists(s, Victims) /\ "suspend" \in Stats /\ "suspend" # "ready"
    BY Known DEF Stats
  <2> QED BY <1>1, <1>3, <2>1, RemovedLists
<1>6. s'.stat[u] = "suspend" /\ \A v \in Threads : v # u => s'.stat[v] = s.stat[v]
  BY <1>3, <1>5, Known
<1>7. /\ \A v \in waiting' \cup armed' : v \in waiting \cup armed /\ v # u
      /\ \A v \in Elements(defunct') : v \in Elements(defunct) /\ v # u
  BY <1>1, <1>4
<1>8. Books(s', Victims, waiting', armed', defunct')
  <2>1. OneMoves(s, Victims, waiting, armed, defunct, u, s', Victims, waiting', armed', defunct')
    BY <1>3, <1>4, <1>5, <1>6, <1>7 DEF OneMoves
  <2> QED BY <1>3, <2>1, Known, BooksOf
<1>9. CallsOpen' /\ Victims' = Victims
  BY <1>1, Known, CallMoves
<1>10. CurrentRuns'
  BY <1>1, <1>2, <1>3, <1>5, <1>6 DEF CurrentRuns
<1>11. RunsHighest'
  BY <1>1, <1>5, <1>6, <1>9 DEF IInv, RunsHighest, Ready
<1>12. /\ armed' \subseteq Timed /\ waiting' \subseteq Threads
       /\ defunct' \in Seq(Threads) /\ Once(defunct')
  BY <1>1 DEF IInv, TypeOK
<1>13. Books(s, Victims, waiting, armed, defunct)'
  BY <1>8, <1>9
<1> QED BY <1>1, <1>9, <1>10, <1>11, <1>12, <1>13, Assembled

(* A thread that was taken out of its list, and left out of the lists of m,   *)
(* is inserted.                                                              *)
LEMMA BooksReinserted ==
    ASSUME NEW V \in SUBSET Threads, NEW W \in SUBSET Threads, NEW A \in SUBSET Threads,
           NEW d \in Seq(Threads), NEW q, Books(q, V, W, A, d),
           NEW u \in Threads, u \notin V, u # q.current, q.stat[u] \notin {"close", "freed"},
           NEW X, X = V \cup {u}, NEW m, Lists(m, X), m.stat = q.stat, m.current = q.current,
           NEW r, r = Insert(m, u)
    PROVE  Books(r, V, W \ {u}, A \ {u}, d) /\ MadeReady(m, V, u, r)
<1>1. MadeReady(m, V, u, r)
  BY InsertLists
<1>2. u \notin Elements(d)
  BY DEF Books
<1>3. OneMoves(q, V, W, A, d, u, r, V, W \ {u}, A \ {u}, d)
  BY <1>1, <1>2 DEF OneMoves, MadeReady
<1>4. Books(r, V, W \ {u}, A \ {u}, d)
  BY <1>3, BooksOf
<1> QED BY <1>1, <1>4

LEMMA ResumeTargetStep ==
    ASSUME IInv, NEW t \in Threads, ResumeTarget(t)
    PROVE  IInv'
<1> DEFINE u == target[t]
           m == Remove(s, u)
           X == Victims \cup {u}
<1>1. /\ s' = Insert(Unlist(s, u), u) /\ s.current = t /\ pc[t] = "resume"
      /\ waiting' = waiting \ {u} /\ armed' = armed \ {u}
      /\ pc' = [pc EXCEPT ![t] = "schedule"] /\ target' = [target EXCEPT ![t] = None]
      /\ UNCHANGED <<remaining, isr, defunct>>
  BY DEF ResumeTarget, GoesOnWith, ThenDoes
<1>2. s.stat[t] = "running" /\ t \notin waiting \cup armed
  BY <1>1, CallerRuns
<1>3. u \in Handled /\ u # t /\ u \in Threads /\ u \notin Mortal /\ u # Idle
  BY <1>1, Known, HandledAssumption DEF CallsOpen
<1> HIDE DEF u
<1>4. u \notin Victims /\ s.stat[u] \notin {"close", "freed"}
  BY <1>3, Known DEF Books
<1>5. s' = Insert(m, u)
  BY <1>1, <1>3, Known, ReinsertedSame
<1>6. Lists(m, X) /\ m.stat = s.stat /\ m.current = s.current
  <2>1. Lists(s, Victims)
    BY Known
  <2> QED BY <1>3, <2>1, RemoveLists
<1> HIDE DEF m
<1>7. Books(s', Victims, waiting \ {u}, armed \ {u}, defunct) /\ MadeReady(m, Victims, u, s')
  <2>1. X = Victims \cup {u}
    OBVIOUS
  <2> HIDE DEF X
  <2> QED BY <1>1, <1>3, <1>4, <1>5, <1>6, <2>1, Known, BooksReinserted
<1>8. CallsOpen' /\ Victims' = Victims
  BY <1>1, Known, CallMoves
<1>9. Books(s', Victims, waiting', armed', defunct')
  BY <1>1, <1>7
<1>10. s'.current = t /\ s'.stat[t] = "running" /\ t \notin waiting' \cup armed'
  BY <1>1, <1>2, <1>3, <1>6, <1>7 DEF MadeReady
<1>11. pc'[t] = "schedule"
  BY <1>1, Known DEF CallsOpen
<1>12. /\ armed' \subseteq Timed /\ waiting' \subseteq Threads
       /\ defunct' \in Seq(Threads) /\ Once(defunct')
  BY <1>1 DEF IInv, TypeOK
<1> QED BY <1>1, <1>8, <1>9, <1>10, <1>11, <1>12, BeforeSchedule

LEMMA ChangePriorityStep ==
    ASSUME IInv, NEW t \in Threads, NEW u \in Threads, NEW p \in Levels, ChangePriority(t, u, p)
    PROVE  IInv'
<1>1. /\ s.current = t /\ pc[t] = "run" /\ u \notin Victims
      /\ s.stat[u] \in {"ready", "running", "suspend"}
      /\ s.stat[u] = "ready" =>
            s' = Insert([Remove(s, u) EXCEPT !.priority[u] = p, !.changed = TRUE], u)
      /\ s.stat[u] # "ready" => s' = [s EXCEPT !.priority[u] = p, !.changed = TRUE]
      /\ UNCHANGED <<pc, remaining, waiting, armed, isr, target, defunct>>
  BY DEF ChangePriority, Calls
<1>2. s.stat[t] = "running" /\ t \notin waiting \cup armed
  BY <1>1, CallerRuns
<1>3. CallsOpen' /\ Victims' = Victims
  BY <1>1, Known, CallsStay
<1>4. /\ Books(s', Victims, waiting, armed, defunct)
      /\ s'.changed = TRUE /\ s'.current = s.current /\ s'.stat[t] = s.stat[t]
  <2>1. CASE s.stat[u] = "ready"
    <3> DEFINE m == Remove(s, u)
               n == [m EXCEPT !.priority[u] = p, !.changed = TRUE]
               X == Victims \cup {u}
    <3>1. s' = Insert(n, u) /\ u # s.current
      BY <1>1, <1>2, <2>1
    <3>2. /\ Lists(m, X) /\ m.stat = s.stat /\ m.current = s.current
      <4>1. Lists(s, Victims)
        BY Known
      <4> QED BY <4>1, RemoveLists
    <3> HIDE DEF m
    <3>3. m \in State
      BY <3>2 DEF Lists
    <3>4. /\ n.table = m.table /\ n.group = m.group /\ n.stat = m.stat /\ n.current = m.current
          /\ n.priority = [m.priority EXCEPT ![u] = p] /\ n.changed = TRUE
      BY <3>3 DEF State
    <3>5. n \in State
      <4>1. [m.priority EXCEPT ![u] = p] \in [Threads -> Levels]
        BY <3>3 DEF State
      <4> QED BY <3>3, <4>1 DEF State
    <3> HIDE DEF n
    <3>6. \A v \in Threads : v # u => n.priority[v] = m.priority[v]
      BY <3>3, <3>4 DEF State
    <3>7. Lists(n, X)
      <4>1. u \in X
        OBVIOUS
      <4> HIDE DEF X
      <4> QED BY <3>2, <3>4, <3>5, <3>6, <4>1, RepricedLists
    <3>8. /\ Books(s', Victims, waiting \ {u}, armed \ {u}, defunct)
          /\ MadeReady(n, Victims, u, s')
      <4>1. /\ X = Victims \cup {u} /\ n.stat = s.stat /\ n.current = s.current
            /\ s.stat[u] \notin {"close", "freed"}
        BY <2>1, <3>2, <3>4
      <4> HIDE DEF X
      <4> QED BY <1>1, <3>1, <3>7, <4>1, Known, BooksReinserted
    <3>9. waiting \ {u} = waiting /\ armed \ {u} = armed
      BY <2>1, Known DEF Books
    <3> QED BY <1>1, <3>1, <3>2, <3>4, <3>8, <3>9 DEF MadeReady
  <2>2. CASE s.stat[u] # "ready"
    <3>1. s' = [s EXCEPT !.priority[u] = p, !.changed = TRUE] /\ s \in State
      BY <1>1, <2>2, Known
    <3>2. /\ s'.table = s.table /\ s'.group = s.group /\ s'.stat = s.stat
          /\ s'.current = s.current /\ s'.changed = TRUE
          /\ s'.priority = [s.priority EXCEPT ![u] = p]
      BY <3>1 DEF State
    <3>3. s' \in State
      <4>1. [s.priority EXCEPT ![u] = p] \in [Threads -> Levels]
        BY <3>1 DEF State
      <4> QED BY <3>1, <4>1 DEF State
    <3>4. \A v \in Threads : v # u => s'.priority[v] = s.priority[v]
      BY <3>2, Known
    <3>5. Books(s', Victims, waiting, armed, defunct)
      <4>1. /\ Victims \in SUBSET Threads /\ waiting \in SUBSET Threads
            /\ armed \in SUBSET Threads /\ defunct \in Seq(Threads)
            /\ Books(s, Victims, waiting, armed, defunct)
        BY Known
      <4> QED BY <2>2, <3>2, <3>3, <3>4, <4>1, BooksRepriced
    <3> QED BY <3>2, <3>5
  <2> QED BY <2>1, <2>2
<1>5. CurrentRuns'
  BY <1>1, <1>2, <1>4 DEF CurrentRuns
<1>6. RunsHighest'
  BY <1>4 DEF RunsHighest
<1>7. /\ armed' \subseteq Timed /\ waiting' \subseteq Threads
      /\ defunct' \in Seq(Threads) /\ Once(defunct')
  BY <1>1 DEF IInv, TypeOK
<1>8. Books(s, Victims, waiting, armed, defunct)'
  BY <1>1, <1>3, <1>4
<1> QED BY <1>1, <1>3, <1>5, <1>6, <1>7, <1>8, Assembled

LEMMA CriticalStep ==
    ASSUME IInv, NEW t \in Threads, rt_enter_critical(t) \/ rt_exit_critical(t)
    PROVE  IInv'
<1>1. /\ s.current = t /\ pc[t] = "run"
      /\ UNCHANGED <<remaining, waiting, armed, isr, target, defunct>>
  BY DEF rt_enter_critical, rt_exit_critical, Calls
<1>2. s.stat[t] = "running" /\ t \notin waiting \cup armed
  BY <1>1, CallerRuns
<1>3. s \in State /\ s.nest \in 0 .. MaxNest /\ MaxNest \in Nat
  BY Known, SliceAssumption DEF State
<1>4. PICK n \in 0 .. MaxNest : /\ s' = [s EXCEPT !.nest = n]
                                /\ (n # 0 /\ pc' = pc) \/ pc' = [pc EXCEPT ![t] = "schedule"]
  <2>1. CASE rt_enter_critical(t)
    <3>1. /\ s.nest + 1 \in 0 .. MaxNest /\ s.nest + 1 # 0 /\ pc' = pc
          /\ s' = [s EXCEPT !.nest = s.nest + 1]
      BY <1>3, <2>1 DEF rt_enter_critical
    <3> QED BY <3>1
  <2>2. CASE rt_exit_critical(t)
    <3>1. /\ s.nest - 1 \in 0 .. MaxNest
          /\ s' = [s EXCEPT !.nest = s.nest - 1]
          /\ (s.nest - 1 # 0 /\ pc' = pc) \/ pc' = [pc EXCEPT ![t] = "schedule"]
      BY <1>3, <2>2 DEF rt_exit_critical, ThenSchedule
    <3> QED BY <3>1
  <2> QED BY <2>1, <2>2
<1>5. /\ s'.table = s.table /\ s'.group = s.group /\ s'.stat = s.stat
      /\ s'.priority = s.priority /\ s'.current = s.current /\ s'.nest = n
      /\ s' \in State
  BY <1>3, <1>4 DEF State
<1>6. Books(s', Victims, waiting, armed, defunct)
  <2>1. Lists(s', Victims)
    BY <1>5, Known DEF Lists
  <2>2. Sound(s', Victims)
    BY <1>5, <2>1, Known DEF Sound
  <2> QED BY <1>5, <2>2, Known DEF Books
<1>7. CallsOpen' /\ Victims' = Victims
  <2>1. CASE pc' = pc
    BY <1>1, <2>1, Known, CallsStay
  <2>2. CASE pc' = [pc EXCEPT ![t] = "schedule"]
    BY <1>1, <2>2, Known, CallMoves
  <2> QED BY <1>4, <2>1, <2>2
<1>8. CurrentRuns'
  BY <1>1, <1>2, <1>5 DEF CurrentRuns
<1>9. RunsHighest'
  <2>1. CASE s'.nest # 0
    BY <2>1 DEF RunsHighest
  <2>2. CASE s'.nest = 0
    <3>1. pc'[s'.current] = "schedule"
      BY <1>1, <1>4, <1>5, <2>2, Known DEF CallsOpen
    <3> QED BY <3>1 DEF RunsHighest
  <2> QED BY <2>1, <2>2
<1>10. /\ armed' \subseteq Timed /\ waiting' \subseteq Threads
       /\ defunct' \in Seq(Threads) /\ Once(defunct')
  BY <1>1 DEF IInv, TypeOK
<1>11. Books(s, Victims, waiting, armed, defunct)'
  BY <1>1, <1>6, <1>7
<1> QED BY <1>1, <1>7, <1>8, <1>9, <1>10, <1>11, Assembled

(* The first half of rt_thread_delete. The victim must have no timer that      *)
(* could put it back into a list.                                            *)
LEMMA DeleteStep ==
    ASSUME IInv, Timed \cap Mortal = {}, NEW t \in Threads, NEW u \in Threads,
           rt_thread_delete(t, u)
    PROVE  IInv'
<1> DEFINE X == Victims \cup {u}
<1>1. /\ s' = Remove(s, u) /\ s.current = t /\ pc[t] = "run"
      /\ u \in Mortal /\ u # t /\ u \notin Victims
      /\ s.stat[u] \notin {"init", "close", "freed"}
      /\ waiting' = waiting \ {u}
      /\ pc' = [pc EXCEPT ![t] = "delete"] /\ target' = [target EXCEPT ![t] = u]
      /\ UNCHANGED <<remaining, armed, isr, defunct>>
  BY DEF rt_thread_delete, Calls, ThenDoes
<1>2. s.stat[t] = "running" /\ t \notin waiting \cup armed
  BY <1>1, CallerRuns
<1>3. s.stat[u] \in {"ready", "suspend"} /\ u # Idle /\ u \notin armed
  <2>1. s.stat[u] \in Stats /\ s.stat[u] # "running"
    BY <1>1, Known DEF Sound
  <2>2. u \notin armed
    BY <1>1 DEF IInv
  <2> QED BY <1>1, <2>1, <2>2, IdleAssumption DEF Stats
<1>4. /\ Lists(s', X) /\ s'.stat = s.stat /\ s'.priority = s.priority
      /\ s'.current = s.current /\ s'.nest = s.nest /\ s'.changed = s.changed
  <2>1. Lists(s, Victims)
    BY Known
  <2> QED BY <1>1, <2>1, RemoveLists
<1>5. Books(s', X, waiting', armed', defunct')
  <2>1. u \notin Elements(defunct)
    BY <1>3, Known DEF Books
  <2>2. OneMoves(s, Victims, waiting, armed, defunct, u, s', X, waiting', armed', defunct')
    BY <1>1, <1>3, <1>4, <2>1 DEF OneMoves
  <2> HIDE DEF X
  <2> QED BY <2>2, Known, BooksOf
<1>6. /\ pc' \in [Threads -> {"run", "schedule", "delete", "suspend", "resume"}]
      /\ pc'[t] = "delete" /\ \A v \in Threads : v # t => pc'[v] = pc[v]
  BY <1>1, Known DEF CallsOpen
<1>7. /\ target' \in [Threads -> Threads \cup {None}]
      /\ target'[t] = u /\ \A v \in Threads : v # t => target'[v] = target[v]
  BY <1>1, Known DEF CallsOpen
<1>8. Victims' = X
  <2>1. \A v \in Threads : pc'[v] = "delete" <=> pc[v] = "delete" \/ v = t
    BY <1>6
  <2>2. \A v \in Threads : pc[v] = "delete" => target'[v] = target[v]
    BY <1>1, <1>7
  <2> QED BY <1>7, <2>1, <2>2 DEF Victims
<1>9. CallsOpen'
  <2>1. \A v \in Threads : pc[v] = "delete" => target[v] # u
    BY <1>1 DEF Victims
  <2> QED BY <1>1, <1>6, <1>7, <2>1, Known DEF CallsOpen
<1>10. CurrentRuns'
  BY <1>1, <1>2, <1>4 DEF CurrentRuns
<1>11. RunsHighest'
  BY <1>1, <1>4, <1>8 DEF IInv, RunsHighest, Ready
<1>12. /\ armed' \subseteq Timed /\ waiting' \subseteq Threads
       /\ defunct' \in Seq(Threads) /\ Once(defunct')
  BY <1>1 DEF IInv, TypeOK
<1>13. Books(s, Victims, waiting, armed, defunct)'
  BY <1>5, <1>8
<1> QED BY <1>1, <1>9, <1>10, <1>11, <1>12, <1>13, Assembled

LEMMA DeleteCloseStep ==
    ASSUME IInv, NEW t \in Threads, DeleteClose(t)
    PROVE  IInv'
<1> DEFINE u == target[t]
           X == Victims \ {u}
<1>1. /\ s' = [s EXCEPT !.stat[u] = "close"] /\ s.current = t /\ pc[t] = "delete"
      /\ armed' = armed \ {u} /\ defunct' = <<u>> \o defunct
      /\ pc' = [pc EXCEPT ![t] = "schedule"] /\ target' = [target EXCEPT ![t] = None]
      /\ UNCHANGED <<remaining, waiting, isr>>
  BY DEF DeleteClose, GoesOnWith, ThenDoes
<1>2. s.stat[t] = "running" /\ t \notin waiting \cup armed
  BY <1>1, CallerRuns
<1>3. u \in Mortal /\ u \in Victims /\ u \in Threads
  BY <1>1, Known, SetsAssumption DEF CallsOpen, Victims
<1>4. \A v \in Threads : pc[v] = "delete" /\ v # t => target[v] # u
  BY <1>1, Known DEF CallsOpen
<1>5. /\ pc' \in [Threads -> {"run", "schedule", "delete", "suspend", "resume"}]
      /\ pc'[t] = "schedule" /\ \A v \in Threads : v # t => pc'[v] = pc[v]
  BY <1>1, Known DEF CallsOpen
<1>6. /\ target' \in [Threads -> Threads \cup {None}]
      /\ \A v \in Threads : v # t => target'[v] = target[v]
  BY <1>1, Known DEF CallsOpen
<1>7. CallsOpen'
  BY <1>5, <1>6, Known DEF CallsOpen
<1>8. Victims' = X
  <2>1. \A v \in Threads : pc'[v] = "delete" <=> pc[v] = "delete" /\ v # t
    BY <1>5
  <2>2. \A v \in Threads : pc'[v] = "delete" => target'[v] = target[v]
    BY <1>6, <2>1
  <2> HIDE DEF u
  <2>3. \A v \in Threads : pc[v] = "delete" /\ v = t => target[v] = u
    BY DEF u
  <2> QED BY <1>4, <2>1, <2>2, <2>3 DEF Victims
<1> HIDE DEF u
<1>9. /\ s.stat[u] \in {"ready", "suspend"} /\ u # t /\ u # Idle
      /\ u \notin Elements(defunct) /\ u \notin waiting \cup armed
  BY <1>1, <1>2, <1>3, Known, IdleAssumption DEF Books
<1>10. /\ s'.table = s.table /\ s'.group = s.group /\ s'.priority = s.priority
       /\ s'.current = s.current /\ s'.stat = [s.stat EXCEPT ![u] = "close"]
  BY <1>1, Known DEF State
<1>11. s' \in State
  <2>1. [s.stat EXCEPT ![u] = "close"] \in [Threads -> Stats]
    BY Known DEF Stats
  <2> QED BY <1>1, <2>1, Known DEF State
<1>12. s'.stat[u] = "close" /\ \A v \in Threads : v # u => s'.stat[v] = s.stat[v]
  BY <1>3, <1>10, Known
<1>13. Lists(s', X)
  <2>1. Lists(s, Victims) /\ s'.stat[u] # "ready"
    BY <1>12, Known
  <2>2. \A v \in Threads : v # u => (v \in Victims <=> v \in X)
    OBVIOUS
  <2>3. s'.table = s.table /\ s'.group = s.group /\ s'.priority = s.priority
    BY <1>10
  <2> HIDE DEF X
  <2> QED BY <1>3, <1>11, <1>12, <2>1, <2>2, <2>3, RestatedLists
<1>14. /\ defunct' \in Seq(Threads) /\ Once(defunct')
       /\ Elements(defunct') = Elements(defunct) \cup {u}
  <2>1. defunct \in Seq(Threads) /\ Once(defunct)
    BY DEF IInv, TypeOK
  <2> QED BY <1>1, <1>3, <1>9, <2>1, DefunctGrows
<1>15. Books(s', X, waiting', armed', defunct')
  <2>1. OneMoves(s, Victims, waiting, armed, defunct, u, s', X, waiting', armed', defunct')
    BY <1>1, <1>3, <1>9, <1>10, <1>12, <1>13, <1>14 DEF OneMoves
  <2> HIDE DEF X
  <2> QED BY <1>3, <2>1, Known, BooksOf
<1>16. s'.current = t /\ s'.stat[t] = "running" /\ t \notin waiting' \cup armed'
  BY <1>1, <1>2, <1>9, <1>10, <1>12
<1>17. armed' \subseteq Timed /\ waiting' \subseteq Threads
  BY <1>1 DEF IInv, TypeOK
<1> HIDE DEF X
<1> QED BY <1>1, <1>5, <1>7, <1>8, <1>14, <1>15, <1>16, <1>17, BeforeSchedule

LEMMA DefunctStep ==
    ASSUME IInv, rt_defunct_execute
    PROVE  IInv'
<1> DEFINE u == defunct[1]
<1>1. /\ s' = [s EXCEPT !.stat[u] = "freed"] /\ s.current = Idle /\ pc[Idle] = "run"
      /\ defunct # <<>> /\ defunct' = Tail(defunct)
      /\ UNCHANGED <<pc, remaining, waiting, armed, isr, target>>
  BY DEF rt_defunct_execute, Calls
<1>2. s.stat[Idle] = "running" /\ Idle \notin waiting \cup armed
  BY <1>1, CallerRuns, ThreadsAssumption
<1>3. defunct \in Seq(Threads) /\ Once(defunct)
  BY DEF IInv, TypeOK
<1>4. u \in Threads /\ u \in Elements(defunct)
  BY <1>1, <1>3 DEF Elements
<1>5. /\ defunct' \in Seq(Threads) /\ Once(defunct')
      /\ Elements(defunct') = Elements(defunct) \ {u}
  BY <1>1, <1>3, TailOnce
<1> HIDE DEF u
<1>6. s.stat[u] = "close" /\ u \in Mortal /\ u # Idle /\ u \notin waiting \cup armed /\ u \notin Victims
  BY <1>2, <1>4, Known DEF Books
<1>7. /\ s'.table = s.table /\ s'.group = s.group /\ s'.priority = s.priority
      /\ s'.current = s.current /\ s'.stat = [s.stat EXCEPT ![u] = "freed"]
      /\ s'.nest = s.nest /\ s'.changed = s.changed
  BY <1>1, Known DEF State
<1>8. s' \in State
  <2>1. [s.stat EXCEPT ![u] = "freed"] \in [Threads -> Stats]
    BY Known DEF Stats
  <2> QED BY <1>1, <2>1, Known DEF State
<1>9. s'.stat[u] = "freed" /\ \A v \in Threads : v # u => s'.stat[v] = s.stat[v]
  BY <1>4, <1>7, Known
<1>10. Lists(s', Victims)
  <2>1. Lists(s, Victims) /\ s'.stat[u] # "ready" /\ s.stat[u] # "ready"
    BY <1>6, <1>9, Known
  <2>2. s'.table = s.table /\ s'.group = s.group /\ s'.priority = s.priority
    BY <1>7
  <2> QED BY <1>4, <1>8, <1>9, <2>1, <2>2, RestatedLists
<1>11. Books(s', Victims, waiting', armed', defunct')
  <2>1. OneMoves(s, Victims, waiting, armed, defunct, u, s', Victims, waiting', armed', defunct')
    BY <1>1, <1>5, <1>6, <1>7, <1>9, <1>10 DEF OneMoves
  <2> QED BY <1>4, <2>1, Known, BooksOf
<1>12. CallsOpen' /\ Victims' = Victims
  BY <1>1, Known, CallsStay
<1>13. CurrentRuns'
  BY <1>1, <1>2, <1>6, <1>7, <1>9, ThreadsAssumption DEF CurrentRuns
<1>14. RunsHighest'
  BY <1>1, <1>6, <1>7, <1>9, <1>12 DEF IInv, RunsHighest, Ready
<1>15. armed' \subseteq Timed /\ waiting' \subseteq Threads
  BY <1>1 DEF IInv, TypeOK
<1>16. Books(s, Victims, waiting, armed, defunct)'
  BY <1>11, <1>12
<1> QED BY <1>1, <1>5, <1>12, <1>13, <1>14, <1>15, <1>16, Assembled

-----------------------------------------------------------------------------
(* Theorems. They are about threads that are deleted or end and have no       *)
(* timeouts: README.md, section 6, has what rt_thread_delete does to a thread *)
(* whose timer ends between its two halves.                                  *)

LEMMA CallPreserves ==
    ASSUME IInv, Timed \cap Mortal = {}, NEW t \in Threads, Call(t)
    PROVE  IInv'
<1>1. CASE rt_thread_yield(t)
  BY <1>1, YieldStep
<1>2. CASE WaitSelf(t)
  BY <1>2, WaitSelfStep
<1>3. CASE rt_enter_critical(t) \/ rt_exit_critical(t)
  BY <1>3, CriticalStep
<1>4. CASE rt_thread_exit(t)
  BY <1>4, ExitStep
<1>5. ASSUME NEW u \in Threads, rt_thread_startup(t, u)
      PROVE  IInv'
  BY <1>5, StartupStep
<1>6. ASSUME NEW u \in Threads, rt_thread_suspend(t, u) \/ rt_thread_resume(t, u)
      PROVE  IInv'
  BY <1>6, LookStep
<1>7. ASSUME NEW u \in Threads, rt_ipc_list_resume(t, u)
      PROVE  IInv'
  BY <1>7, IpcResumeStep
<1>8. ASSUME NEW u \in Threads, rt_thread_delete(t, u)
      PROVE  IInv'
  BY <1>8, DeleteStep
<1>9. ASSUME NEW u \in Threads, NEW p \in Levels, ChangePriority(t, u, p)
      PROVE  IInv'
  BY <1>9, ChangePriorityStep
<1> QED BY <1>1, <1>2, <1>3, <1>4, <1>5, <1>6, <1>7, <1>8, <1>9 DEF Call

LEMMA Preserved ==
    ASSUME IInv, Timed \cap Mortal = {}, [Next]_vars
    PROVE  IInv'
<1>1. ASSUME NEW t \in Threads, Call(t)
      PROVE  IInv'
  BY <1>1, CallPreserves
<1>2. ASSUME NEW t \in Threads, GoesOn(t)
      PROVE  IInv'
  BY <1>2, ScheduleStep, SuspendTargetStep, ResumeTargetStep, DeleteCloseStep DEF GoesOn
<1>3. CASE rt_defunct_execute
  BY <1>3, DefunctStep
<1>4. CASE rt_tick_increase
  BY <1>4, TickStep
<1>5. CASE rt_timer_check
  BY <1>5, TimerCheckStep
<1>6. ASSUME NEW u \in Threads, rt_thread_timeout(u)
      PROVE  IInv'
  BY <1>6, TimeoutStep
<1>7. CASE UNCHANGED vars
  <2>1. /\ UNCHANGED <<s, pc, waiting, armed, target, defunct>>
        /\ remaining' \in [Threads -> 1 .. Slice] /\ isr' \in BOOLEAN
    BY <1>7 DEF vars, IInv, TypeOK
  <2> QED BY <2>1, OnlyTicks
<1> QED BY <1>1, <1>2, <1>3, <1>4, <1>5, <1>6, <1>7 DEF Next

LEMMA Inductive ==
    ASSUME Timed \cap Mortal = {}
    PROVE  Spec => []IInv
<1>1. Init => IInv
  BY InitIInv
<1>2. IInv /\ [Next]_vars => IInv'
  BY Preserved
<1> QED BY <1>1, <1>2, PTL DEF Spec

(* rt_schedule can rely on the ready table: the bits and the lists agree, they *)
(* hold exactly the ready threads, each once in the list of its priority, and *)
(* nobody but the idle thread has a dead thread, whatever was resumed,        *)
(* suspended, deleted, timed out or given another priority.                  *)
THEOREM TableIsRight ==
    ASSUME Timed \cap Mortal = {}
    PROVE  Spec => []ReadyTable
<1>1. ASSUME IInv PROVE ReadyTable
  <2>1. BitsMatchLists
    BY <1>1, Known DEF BitsMatchLists, Lists
  <2>2. ReadyStandsOnce
    <3> SUFFICES ASSUME NEW p \in Levels
                 PROVE  /\ Elements(s.table[p]) = {t \in Ready \ Victims : s.priority[t] = p}
                        /\ Once(s.table[p])
      BY DEF ReadyStandsOnce
    <3>1. /\ Once(s.table[p])
          /\ Elements(s.table[p])
                = {t \in Threads : s.stat[t] = "ready" /\ t \notin Victims /\ s.priority[t] = p}
      BY <1>1, Known DEF Lists
    <3> QED BY <3>1 DEF Ready
  <2>3. FreedIsGone
    BY <1>1, Known DEF FreedIsGone, CurrentRuns, Books
  <2> QED BY <1>1, <2>1, <2>2, <2>3 DEF ReadyTable, IInv
<1> QED BY <1>1, Inductive, PTL

(* A thread that suspended itself gets past its rt_schedule only when its wait *)
(* is over: whoever makes a call is RUNNING and waits for nothing.            *)
THEOREM CallersRun ==
    ASSUME Timed \cap Mortal = {}
    PROVE  Spec => []OnlyRunningCalls
<1>1. ASSUME IInv PROVE OnlyRunningCalls
  BY <1>1, Known DEF OnlyRunningCalls, CurrentRuns
<1> QED BY <1>1, Inductive, PTL

(* No ready thread has a higher priority than the one that executes, unless    *)
(* the scheduler is locked, an rt_schedule has still to come or a priority    *)
(* was changed since the last one.                                           *)
THEOREM HighestRuns ==
    ASSUME Timed \cap Mortal = {}
    PROVE  Spec => []RunsHighest
<1>1. IInv => RunsHighest
  BY DEF IInv
<1> QED BY <1>1, Inductive, PTL
==============================================================================
