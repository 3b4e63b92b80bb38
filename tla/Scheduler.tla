------------------------------- MODULE Scheduler ------------------------------
(***************************************************************************)
(* The scheduler (scheduler.c), the life of threads (thread.c) and what the  *)
(* idle thread does for dead ones (idle.c), on one CPU.                      *)
(*                                                                         *)
(* An action is a stretch with the interrupts disabled. The functions that   *)
(* the kernel calls inside such a stretch are operators on the state s of    *)
(* the scheduler, so that an action can call one after the other.            *)
(***************************************************************************)
EXTENDS WaitList

CONSTANTS
    Threads,
    Main, Idle,    \* the threads that exist when the scheduler starts
    Levels,        \* the priorities, a smaller number first
    InitPriority,  \* init_priority of each thread
    Slice,         \* init_tick, the time slice of a thread
    Timed,         \* threads whose waits have a timeout
    Mortal,        \* threads that exit or are deleted
    Handled,       \* threads that others suspend and resume by name
    MayChange,     \* threads whose priority RT_THREAD_CTRL_CHANGE_PRIORITY changes
    MaxNest,       \* bound of rt_scheduler_lock_nest
    None

ASSUME ThreadsAssumption == /\ {Main, Idle} \subseteq Threads
                            /\ Main # Idle
                            /\ None \notin Threads
ASSUME LevelsAssumption == Levels \subseteq Nat /\ InitPriority \in [Threads -> Levels]
(* rt_thread_idle_init gives the idle thread RT_THREAD_PRIORITY_MAX - 1, and it *)
(* never waits or ends.                                                      *)
ASSUME IdleAssumption == /\ \A t \in Threads : InitPriority[t] <= InitPriority[Idle]
                         /\ Idle \notin Mortal
ASSUME SliceAssumption == Slice \in Nat \ {0} /\ MaxNest \in Nat
ASSUME SetsAssumption == /\ Timed \subseteq Threads /\ Mortal \subseteq Threads
                         /\ MayChange \subseteq Threads \ {Idle}
(* rt_thread_suspend and rt_thread_resume are given threads that do not end. *)
ASSUME HandledAssumption == Handled \subseteq Threads \ (Mortal \cup {Idle})

VARIABLES
    s,          \* table, group, stat, yield, priority, current, nest, changed
    pc,         \* "run", or what is still to do of a call
    remaining,  \* remaining_tick
    waiting,    \* suspended threads that another thread or interrupt will resume
    armed,      \* threads whose thread_timer is active
    isr,        \* whether the tick interrupt is checking the timers
    target,     \* the thread that a call of two parts is about
    defunct     \* _rt_thread_defunct

vars == <<s, pc, remaining, waiting, armed, isr, target, defunct>>

Stats == {"init", "ready", "running", "suspend", "close", "freed"}

State ==
    [table : [Levels -> Seq(Threads)],  \* rt_thread_priority_table
     group : SUBSET Levels,             \* rt_thread_ready_priority_group
     stat : [Threads -> Stats],
     yield : SUBSET Threads,            \* RT_THREAD_STAT_YIELD
     priority : [Threads -> Levels],    \* current_priority
     current : Threads,                 \* rt_current_thread
     nest : 0 .. MaxNest,               \* rt_scheduler_lock_nest
     changed : BOOLEAN]                 \* history: no rt_schedule since a change of priority

TypeOK ==
    /\ s \in State
    /\ pc \in [Threads -> {"run", "schedule", "delete", "suspend", "resume"}]
    /\ remaining \in [Threads -> 1 .. Slice]
    /\ waiting \subseteq Threads
    /\ armed \subseteq Threads
    /\ isr \in BOOLEAN
    /\ target \in [Threads -> Threads \cup {None}]
    /\ defunct \in Seq(Threads)

-----------------------------------------------------------------------------
(* Ready lists *)

(* rt_schedule_insert_thread *)
Insert(q, t) ==
    IF t = q.current THEN [q EXCEPT !.stat[t] = "running"]
    ELSE [q EXCEPT !.stat[t] = "ready",
                   !.table[q.priority[t]] = Append(@, t),
                   !.group = @ \cup {q.priority[t]}]

(* rt_schedule_remove_thread *)
Remove(q, t) ==
    LET table == [p \in Levels |-> Removed(q.table[p], t)]
    IN  [q EXCEPT !.table = table,
                  !.group = IF table[q.priority[t]] = <<>> THEN @ \ {q.priority[t]} ELSE @]

(* __rt_ffs(rt_thread_ready_priority_group) - 1 *)
Highest(q) == CHOOSE p \in q.group : \A r \in q.group : p <= r

(* Mutant: a thread whose time slice is over keeps the CPU. *)
KeepsSlice(q) ==
    /\ q.stat[q.current] = "running"
    /\ q.priority[q.current] <= Highest(q)

(* Mutant: a suspended thread of high priority keeps the CPU. *)
KeepsSuspended(q) ==
    \/ q.priority[q.current] < Highest(q)
    \/ q.priority[q.current] = Highest(q) /\ q.current \notin q.yield

(* Whether the current thread goes on. *)
Keeps(q) ==
    /\ q.stat[q.current] = "running"
    /\ \/ q.priority[q.current] < Highest(q)
       \/ q.priority[q.current] = Highest(q) /\ q.current \notin q.yield

Unyield(q) == IF q.stat[q.current] = "running" THEN [q EXCEPT !.yield = @ \ {q.current}] ELSE q

SwitchTo(q, to) ==
    LET from == q.current
        here == [q EXCEPT !.current = to]
        rest == IF q.stat[from] = "running" THEN Insert(here, from) ELSE here
    IN  [Remove(rest, to) EXCEPT !.stat[to] = "running"]

(* rt_schedule *)
Schedule(q) ==
    IF q.nest > 0 THEN q
    ELSE IF q.group = {} THEN [q EXCEPT !.changed = FALSE]
    ELSE LET to == IF Keeps(q) THEN q.current ELSE q.table[Highest(q)][1]
             r  == [Unyield(q) EXCEPT !.changed = FALSE]
         IN  IF to # q.current THEN SwitchTo(r, to)
             ELSE [Remove(r, to) EXCEPT !.stat[to] = "running"]

-----------------------------------------------------------------------------
(* rt_system_scheduler_start with the main and the idle thread. *)
Init ==
    /\ s = [table |-> [p \in Levels |-> IF p = InitPriority[Idle] THEN <<Idle>> ELSE <<>>],
            group |-> {InitPriority[Idle]},
            stat |-> [t \in Threads |-> IF t = Main THEN "running"
                                        ELSE IF t = Idle THEN "ready" ELSE "init"],
            yield |-> {},
            priority |-> InitPriority,
            current |-> Main,
            nest |-> 0,
            changed |-> FALSE]
    /\ pc = [t \in Threads |-> "run"]
    /\ remaining = [t \in Threads |-> Slice]
    /\ waiting = {}
    /\ armed = {}
    /\ isr = FALSE
    /\ target = [t \in Threads |-> None]
    /\ defunct = <<>>

(* Threads in the middle of rt_thread_delete. *)
Victims == {target[t] : t \in {u \in Threads : pc[u] = "delete"}}

(* The thread that executes is t, and it is about to make another call. *)
Calls(t) == ~isr /\ s.current = t /\ pc[t] = "run"

(* The rest of the call is rt_schedule, with the interrupts enabled before it. *)
ThenSchedule(t) == pc' = [pc EXCEPT ![t] = "schedule"]

(* The rest of the call is about u, with the interrupts enabled before it. *)
ThenDoes(t, rest, u) ==
    /\ pc' = [pc EXCEPT ![t] = rest]
    /\ target' = [target EXCEPT ![t] = u]

(* t does the rest of a call of two parts. *)
GoesOnWith(t, rest) == ~isr /\ s.current = t /\ pc[t] = rest

rt_thread_startup(t, u) ==
    /\ Calls(t)
    /\ s.stat[u] = "init"
    /\ s' = Insert([s EXCEPT !.priority[u] = InitPriority[u]], u)
    /\ ThenSchedule(t)
    /\ UNCHANGED <<remaining, waiting, armed, isr, target, defunct>>

(* The end of a call: rt_schedule, by a thread that may have lost the CPU and  *)
(* got it again since it did the rest.                                       *)
rt_schedule(t) ==
    /\ GoesOnWith(t, "schedule")
    /\ s' = Schedule(s)
    /\ pc' = [pc EXCEPT ![t] = "run"]
    /\ UNCHANGED <<remaining, waiting, armed, isr, target, defunct>>

rt_thread_yield(t) ==
    /\ Calls(t)
    /\ remaining' = [remaining EXCEPT ![t] = Slice]
    /\ s' = Schedule([s EXCEPT !.yield = @ \cup {t}])
    /\ UNCHANGED <<pc, waiting, armed, isr, target, defunct>>

(* The current thread suspends itself: rt_thread_sleep (its timer runs), or a  *)
(* wait for an IPC object, with or without a timeout.                        *)
WaitSelf(t) ==
    /\ Calls(t)
    /\ t # Idle
    /\ s.nest = 0       \* a thread does not wait with the scheduler locked
    /\ s' = [Remove(s, t) EXCEPT !.stat[t] = "suspend"]
    /\ \/ t \in Timed /\ armed' = armed \cup {t} /\ waiting' \in {waiting, waiting \cup {t}}
       \/ armed' = armed \ {t} /\ waiting' = waiting \cup {t}
    /\ ThenSchedule(t)
    /\ UNCHANGED <<remaining, isr, target, defunct>>

(* rt_thread_suspend of another thread looks at its state with the interrupts  *)
(* enabled ...                                                               *)
rt_thread_suspend(t, u) ==
    /\ Calls(t)
    /\ u \in Handled
    /\ s.stat[u] = "ready"
    /\ ThenDoes(t, "suspend", u)
    /\ UNCHANGED <<s, remaining, waiting, armed, isr, defunct>>

(* ... then takes it out of the list it is in by now and stops its timer. *)
SuspendTarget(t) ==
    LET u == target[t]
    IN  /\ GoesOnWith(t, "suspend")
        /\ s' = [Remove(s, u) EXCEPT !.stat[u] = "suspend"]
        /\ armed' = armed \ {u}
        /\ waiting' = waiting \ {u}
        /\ ThenDoes(t, "run", None)
        /\ UNCHANGED <<remaining, isr, defunct>>

(* rt_thread_resume looks in the same way ... *)
rt_thread_resume(t, u) ==
    /\ Calls(t)
    /\ u \in Handled
    /\ s.stat[u] = "suspend"
    /\ ThenDoes(t, "resume", u)
    /\ UNCHANGED <<s, remaining, waiting, armed, isr, defunct>>

(* rt_list_remove, which leaves the bits alone. *)
Unlist(q, u) == [q EXCEPT !.table = [p \in Levels |-> Removed(q.table[p], u)]]

(* ... and puts the thread, ready by now or not, into the ready table. *)
ResumeTarget(t) ==
    LET u == target[t]
    IN  /\ GoesOnWith(t, "resume")
        /\ s' = Insert(Unlist(s, u), u)
        /\ armed' = armed \ {u}
        /\ waiting' = waiting \ {u}
        /\ ThenDoes(t, "schedule", None)
        /\ UNCHANGED <<remaining, isr, defunct>>

(* An IPC object resumes a thread that waits for it, with the interrupts       *)
(* disabled, and calls rt_schedule.                                          *)
rt_ipc_list_resume(t, u) ==
    /\ Calls(t)
    /\ u \in waiting
    /\ s' = Insert(s, u)
    /\ waiting' = waiting \ {u}
    /\ armed' = armed \ {u}
    /\ ThenSchedule(t)
    /\ UNCHANGED <<remaining, isr, target, defunct>>

(* rt_thread_control(RT_THREAD_CTRL_CHANGE_PRIORITY), which does not schedule. *)
ChangePriority(t, u, p) ==
    /\ Calls(t)
    /\ u \in MayChange \ Victims /\ p < InitPriority[Idle]
    /\ s.stat[u] \in {"ready", "running", "suspend"}
    /\ s' = IF s.stat[u] = "ready"
            THEN Insert([Remove(s, u) EXCEPT !.priority[u] = p, !.changed = TRUE], u)
            ELSE [s EXCEPT !.priority[u] = p, !.changed = TRUE]
    /\ UNCHANGED <<pc, remaining, waiting, armed, isr, target, defunct>>

rt_enter_critical(t) ==
    /\ Calls(t)
    /\ s.nest < MaxNest
    /\ s' = [s EXCEPT !.nest = @ + 1]
    /\ UNCHANGED <<pc, remaining, waiting, armed, isr, target, defunct>>

(* Mutant: the scheduler is unlocked and rt_schedule not called. *)
ExitSilently(t) ==
    /\ Calls(t)
    /\ s.nest > 0
    /\ s' = [s EXCEPT !.nest = @ - 1]
    /\ UNCHANGED <<pc, remaining, waiting, armed, isr, target, defunct>>

rt_exit_critical(t) ==
    /\ Calls(t)
    /\ s.nest > 0
    /\ s' = [s EXCEPT !.nest = @ - 1]
    /\ IF s.nest = 1 THEN ThenSchedule(t) ELSE UNCHANGED pc
    /\ UNCHANGED <<remaining, waiting, armed, isr, target, defunct>>

-----------------------------------------------------------------------------
(* The end of threads *)

(* Mutant: the dead thread is the idle thread's before it has left the CPU. *)
ExitEnabled(t) ==
    /\ Calls(t)
    /\ t \in Mortal
    /\ s.nest = 0
    /\ s' = [Remove(s, t) EXCEPT !.stat[t] = "close"]
    /\ armed' = armed \ {t}
    /\ defunct' = <<t>> \o defunct
    /\ ThenSchedule(t)
    /\ UNCHANGED <<remaining, waiting, isr, target>>

(* The thread's function returns. *)
rt_thread_exit(t) ==
    /\ Calls(t)
    /\ t \in Mortal
    /\ s.nest = 0
    /\ s' = Schedule([Remove(s, t) EXCEPT !.stat[t] = "close"])
    /\ armed' = armed \ {t}
    /\ defunct' = <<t>> \o defunct
    /\ UNCHANGED <<pc, remaining, waiting, isr, target>>

(* rt_thread_delete of another thread: it is taken out of the list it is in ... *)
rt_thread_delete(t, u) ==
    /\ Calls(t)
    /\ u \in Mortal \ ({t} \cup Victims)
    /\ s.stat[u] \notin {"init", "close", "freed"}
    /\ s' = Remove(s, u)
    /\ waiting' = waiting \ {u}
    /\ ThenDoes(t, "delete", u)
    /\ UNCHANGED <<remaining, armed, isr, defunct>>

(* ... and, after the interrupts were enabled, closed and left to the idle      *)
(* thread.                                                                   *)
DeleteClose(t) ==
    /\ GoesOnWith(t, "delete")
    /\ s' = [s EXCEPT !.stat[target[t]] = "close"]
    /\ armed' = armed \ {target[t]}
    /\ defunct' = <<target[t]>> \o defunct
    /\ ThenDoes(t, "schedule", None)
    /\ UNCHANGED <<remaining, waiting, isr>>

(* The idle thread frees a dead thread and its stack. *)
rt_defunct_execute ==
    /\ Calls(Idle)
    /\ defunct # <<>>
    /\ s' = [s EXCEPT !.stat[defunct[1]] = "freed"]
    /\ defunct' = Tail(defunct)
    /\ UNCHANGED <<pc, remaining, waiting, armed, isr, target>>

-----------------------------------------------------------------------------
(* Interrupts *)

(* The tick of the time slice. *)
rt_tick_increase ==
    /\ ~isr
    /\ isr' = TRUE
    /\ IF remaining[s.current] = 1
       THEN /\ remaining' = [remaining EXCEPT ![s.current] = Slice]
            /\ s' = Schedule([s EXCEPT !.yield = @ \cup {s.current}])
       ELSE /\ remaining' = [remaining EXCEPT ![s.current] = @ - 1]
            /\ UNCHANGED s
    /\ UNCHANGED <<pc, waiting, armed, target, defunct>>

(* rt_timer_check calls the timeout function of a thread. *)
rt_thread_timeout(u) ==
    /\ isr
    /\ u \in armed
    /\ s' = Schedule(Insert(s, u))
    /\ armed' = armed \ {u}
    /\ waiting' = waiting \ {u}
    /\ UNCHANGED <<pc, remaining, isr, target, defunct>>

rt_timer_check ==
    /\ isr
    /\ isr' = FALSE
    /\ UNCHANGED <<s, pc, remaining, waiting, armed, target, defunct>>

Call(t) ==
    \/ rt_thread_yield(t) \/ WaitSelf(t) \/ rt_enter_critical(t) \/ rt_exit_critical(t)
    \/ rt_thread_exit(t)
    \/ \E u \in Threads : \/ rt_thread_startup(t, u) \/ rt_thread_suspend(t, u)
                          \/ rt_thread_resume(t, u) \/ rt_ipc_list_resume(t, u)
                          \/ rt_thread_delete(t, u)
                          \/ \E p \in Levels : ChangePriority(t, u, p)

GoesOn(t) == rt_schedule(t) \/ SuspendTarget(t) \/ ResumeTarget(t) \/ DeleteClose(t)

Next ==
    \/ \E t \in Threads : Call(t) \/ GoesOn(t)
    \/ rt_defunct_execute
    \/ rt_tick_increase
    \/ rt_timer_check
    \/ \E u \in Threads : rt_thread_timeout(u)

Spec == Init /\ [][Next]_vars

(* Ticks go on; interrupts end; the thread that has the CPU goes on with its   *)
(* call and leaves a critical section it entered, interrupted though it is.  *)
FairSpec ==
    /\ Spec
    /\ WF_vars(rt_tick_increase \/ rt_timer_check)
    /\ SF_vars(GoesOn(s.current))
    /\ SF_vars(rt_exit_critical(s.current))

-----------------------------------------------------------------------------
(* Properties *)

Ready == {t \in Threads : s.stat[t] = "ready"}

(* The bits of rt_thread_ready_priority_group and the lists agree. *)
BitsMatchLists == \A p \in Levels : p \in s.group <=> s.table[p] # <<>>

(* A thread stands once in the list of its current priority if it is ready    *)
(* (and not half deleted), and in no list otherwise.                         *)
ReadyStandsOnce ==
    \A p \in Levels :
        /\ Elements(s.table[p]) = {t \in Ready \ Victims : s.priority[t] = p}
        /\ Once(s.table[p])

(* The memory of a dead thread is freed only when no list and no CPU has it;   *)
(* rt_thread_exit relies on the interrupts being disabled up to rt_schedule. *)
FreedIsGone ==
    \A t \in Threads : s.stat[t] \in {"close", "freed"} =>
        s.current # t /\ t \notin waiting \cup armed

(* What rt_schedule relies on when it takes the lowest bit of                 *)
(* rt_thread_ready_priority_group and the head of that list, whatever was    *)
(* resumed, suspended, deleted or given another priority in between: the     *)
(* bits and the lists agree, they hold exactly the ready threads, each once, *)
(* and no thread that is dead is left to anybody but the idle thread.        *)
ReadyTable == TypeOK /\ BitsMatchLists /\ ReadyStandsOnce /\ FreedIsGone

(* A thread that suspended itself does not get past its rt_schedule until its  *)
(* wait is over, also when a timeout comes between the two and resumes it    *)
(* while it still has the CPU: whoever makes a call is RUNNING and waits for  *)
(* nothing.                                                                  *)
OnlyRunningCalls ==
    ~isr /\ pc[s.current] # "schedule" =>
        s.stat[s.current] = "running" /\ s.current \notin waiting \cup armed

(* The thread that executes has the highest priority of all ready threads,    *)
(* except while the scheduler is locked, a call has still to come to its     *)
(* rt_schedule, or priorities were changed and rt_schedule not yet called.   *)
RunsHighest ==
    s.nest = 0 /\ pc[s.current] # "schedule" /\ ~s.changed =>
        \A t \in Ready \ Victims : s.priority[s.current] <= s.priority[t]

(* A ready thread gets the CPU in its turn, unless threads of higher priority  *)
(* take it again and again, or other threads put it back at the end of a     *)
(* ready list again and again, by rt_thread_resume or by changes of priority; *)
(* nobody keeps the CPU beyond a time slice.                                  *)
RoundRobin ==
    \A t \in Threads \ {Idle} :
        \/ []<>(t \notin Ready \ Victims)
        \/ []<>(s.priority[s.current] < s.priority[t])
        \/ []<>(\E u \in Threads : pc[u] = "resume" /\ target[u] = t)
        \/ []<>s.changed

(* thread.c, rt_thread_delete: "The thread object will be removed from thread  *)
(* queue", so a deleted thread is in no ready list.                          *)
DeletedIsRemoved ==
    \A t \in Threads : s.stat[t] \in {"close", "freed"} =>
        \A p \in Levels : t \notin Elements(s.table[p])
=============================================================================
