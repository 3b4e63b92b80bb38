-------------------------------- MODULE Timer ---------------------------------
(***************************************************************************)
(* The tick (clock.c), the timer list (timer.c) and the delays of threads    *)
(* (thread.c). An action is a stretch with the interrupts disabled; the tick *)
(* interrupt takes several, because a timeout function may call the timer    *)
(* functions itself. Hard timers only and one row per list, as rtconfig.h    *)
(* says.                                                                     *)
(***************************************************************************)
EXTENDS WaitList

CONSTANTS
    Threads,     \* each has a timer of its own, named like the thread
    AppTimers,   \* timers created with rt_timer_create
    TICKS,       \* number of values of rt_tick_t, 2^32 on the board
    Delays,      \* ticks that threads wait
    Periods,     \* values of init_tick of the other timers
    MaxLate,     \* no thread is later than this for rt_thread_delay_until
    None         \* no timer

Timers == Threads \cup AppTimers

RT_TICK_MAX == TICKS - 1
Half == RT_TICK_MAX \div 2

ASSUME TicksAssumption == TICKS \in Nat /\ TICKS >= 8
ASSUME MaxLateAssumption == MaxLate \in Nat /\ MaxLate < TICKS
ASSUME NamesAssumption == None \notin Timers /\ Threads \cap AppTimers = {}
(* RT_ASSERT(timer->init_tick < RT_TICK_MAX / 2) in rt_timer_start. With a     *)
(* period of 0 rt_timer_check would never come to an end.                    *)
ASSUME DelaysAssumption == Delays \subseteq 0 .. Half - 1
ASSUME PeriodsAssumption == Periods \subseteq 1 .. Half - 1 /\ Periods # {}

VARIABLES
    rt_tick,
    timer_list,     \* rt_timer_list, the timers in the order of the list
    activated,      \* the timers with RT_TIMER_FLAG_ACTIVATED
    periodic,       \* the timers with RT_TIMER_FLAG_PERIODIC
    init_tick, timeout_tick,
    isr,            \* where the tick interrupt is: "off", "check", "callback", "return"
    expired,        \* the timer t of rt_timer_check
    temp,           \* whether t is still on the temporary list
    stat,           \* "run" (ready or running) or what a suspended thread waits for
    last,           \* the variable *tick that each thread gives rt_thread_delay_until
    late,           \* history: ticks that really passed since that tick
    started         \* history: the listed timers in the order they were started

vars == <<rt_tick, timer_list, activated, periodic, init_tick, timeout_tick,
          isr, expired, temp, stat, last, late, started>>
isrVars == <<isr, expired>>
threadVars == <<stat, last, late>>

Tick == 0 .. RT_TICK_MAX
Suspended == {"sleep", "until", "wait"}

TypeOK ==
    /\ rt_tick \in Tick
    /\ timer_list \in Seq(Timers)
    /\ activated \subseteq Timers
    /\ periodic \subseteq AppTimers
    /\ init_tick \in [Timers -> 0 .. Half - 1]
    /\ timeout_tick \in [Timers -> Tick]
    /\ isr \in {"off", "check", "callback", "return"}
    /\ expired \in Timers \cup {None}
    /\ temp \in BOOLEAN
    /\ stat \in [Threads -> {"run"} \cup Suspended]
    /\ last \in [Threads -> Tick]
    /\ late \in [Threads -> -Half .. MaxLate]
    /\ started \in Seq(Timers)

-----------------------------------------------------------------------------
(* Arithmetic of rt_tick_t: unsigned and modulo TICKS. *)

Plus(a, b)  == IF a + b < TICKS THEN a + b ELSE a + b - TICKS
Minus(a, b) == IF a >= b THEN a - b ELSE a - b + TICKS

(* The comparison of rt_timer_start that ends its search. *)
Later(a, b) == Minus(a, b) # 0 /\ Minus(a, b) < Half

(* Where rt_timer_start puts a timer that is to go off at tick "at". *)
Place(list, at, k) ==
    /\ \A i \in 1 .. k - 1 : ~Later(timeout_tick[list[i]], at)
    /\ k <= Len(list) => Later(timeout_tick[list[k]], at)

(* rt_timer_control(RT_TIMER_CTRL_SET_TIME) and rt_timer_start of a timer     *)
(* that has the time n.                                                      *)
StartWith(x, n) ==
    LET at   == Plus(rt_tick, n)
        rest == Removed(timer_list, x)
    IN  /\ timeout_tick' = [timeout_tick EXCEPT ![x] = at]
        /\ \E k \in 1 .. Len(rest) + 1 :
               Place(rest, at, k) /\ timer_list' = InsertedAt(rest, k, x)
        /\ activated' = activated \cup {x}
        /\ init_tick' = [init_tick EXCEPT ![x] = n]
        /\ temp' = (temp /\ x # expired)
        /\ started' = Append(Removed(started, x), x)
        /\ UNCHANGED periodic

(* _rt_timer_remove and the flag, as in rt_timer_stop, _detach and _delete. *)
TakeOut(x) ==
    /\ timer_list' = Removed(timer_list, x)
    /\ activated' = activated \ {x}
    /\ temp' = (temp /\ x # expired)
    /\ started' = Removed(started, x)
    /\ UNCHANGED <<periodic, init_tick, timeout_tick>>

timerUnchanged == <<timer_list, activated, periodic, init_tick, timeout_tick, temp, started>>

-----------------------------------------------------------------------------
Init ==
    /\ rt_tick = 0
    /\ timer_list = <<>>
    /\ activated = {}
    /\ periodic \in SUBSET AppTimers
    /\ \E n \in Periods : init_tick = [x \in Timers |-> IF x \in Threads THEN 0 ELSE n]
    /\ timeout_tick = [x \in Timers |-> 0]
    /\ isr = "off"
    /\ expired = None
    /\ temp = FALSE
    /\ stat = [t \in Threads |-> "run"]
    /\ last = [t \in Threads |-> rt_tick]
    /\ late = [t \in Threads |-> 0]
    /\ started = <<>>

(* Calls on the timers of an application, from a thread or a timeout function. *)
rt_timer_start(x) == StartWith(x, init_tick[x])

rt_timer_stop(x) == IF x \in activated THEN TakeOut(x) ELSE UNCHANGED timerUnchanged

rt_timer_detach(x) == TakeOut(x)

rt_timer_control(x) ==
    \/ /\ \E n \in Periods : init_tick' = [init_tick EXCEPT ![x] = n]
       /\ UNCHANGED <<timer_list, activated, periodic, timeout_tick, temp, started>>
    \/ /\ periodic' \in {periodic \ {x}, periodic \cup {x}}
       /\ UNCHANGED <<timer_list, activated, init_tick, timeout_tick, temp, started>>

TimerCall(x) == rt_timer_start(x) \/ rt_timer_stop(x) \/ rt_timer_detach(x) \/ rt_timer_control(x)

UseTimer(x) ==
    /\ isr = "off"
    /\ TimerCall(x)
    /\ UNCHANGED <<rt_tick, isrVars, threadVars>>

-----------------------------------------------------------------------------
(* Threads *)

(* rt_thread_suspend, which stops the timer of the thread anyway, followed by  *)
(* the start of that timer.                                                  *)
SuspendFor(t, why, n) ==
    /\ stat' = [stat EXCEPT ![t] = why]
    /\ StartWith(t, n)

rt_thread_sleep(t) ==
    /\ isr = "off"
    /\ stat[t] = "run"
    /\ \E n \in Delays : SuspendFor(t, "sleep", n)
    /\ UNCHANGED <<rt_tick, isrVars, last, late>>

(* Mutant: the next period begins at the tick of the call. *)
NextTickFromNow(t, inc) == Plus(rt_tick, inc)

(* *tick += inc_tick *)
NextTick(t, inc) == Plus(last[t], inc)

(* rt_thread_delay_until of a thread that is in time for its next tick ... *)
rt_thread_delay_until(t) ==
    /\ isr = "off"
    /\ stat[t] = "run"
    /\ late[t] < MaxLate
    /\ \E inc \in Delays :
           /\ Minus(rt_tick, last[t]) < inc
           /\ last' = [last EXCEPT ![t] = NextTick(t, inc)]
           /\ late' = [late EXCEPT ![t] = @ - inc]
           /\ SuspendFor(t, "until", Minus(last'[t], rt_tick))
    /\ UNCHANGED <<rt_tick, isrVars>>

(* ... and of one that is too late and goes on at once. *)
DelayMissed(t) ==
    /\ isr = "off"
    /\ stat[t] = "run"
    /\ late[t] < MaxLate
    /\ \E inc \in Delays : Minus(rt_tick, last[t]) >= inc
    /\ last' = [last EXCEPT ![t] = rt_tick]
    /\ late' = [late EXCEPT ![t] = 0]
    /\ UNCHANGED <<rt_tick, isrVars, stat, timerUnchanged>>

(* The wait for an IPC object with a timeout (rt_sem_take, rt_mq_recv, ...). *)
WaitFor(t) ==
    /\ isr = "off"
    /\ stat[t] = "run"
    /\ \E n \in Delays : n > 0 /\ SuspendFor(t, "wait", n)
    /\ UNCHANGED <<rt_tick, isrVars, last, late>>

(* Mutant: the thread's timer is not stopped. *)
ResumeOnly(t) ==
    /\ isr = "off"
    /\ stat[t] = "wait"
    /\ stat' = [stat EXCEPT ![t] = "run"]
    /\ UNCHANGED <<rt_tick, isrVars, last, late, timerUnchanged>>

(* The object is given to the waiting thread. *)
rt_thread_resume(t) ==
    /\ isr = "off"
    /\ stat[t] = "wait"
    /\ stat' = [stat EXCEPT ![t] = "run"]
    /\ rt_timer_stop(t)
    /\ UNCHANGED <<rt_tick, isrVars, last, late>>

-----------------------------------------------------------------------------
(* The tick interrupt *)

rt_tick_increase ==
    /\ isr = "off"
    /\ isr' = "check"
    /\ rt_tick' = Plus(rt_tick, 1)
    /\ late' = [t \in Threads |-> IF late[t] = MaxLate THEN MaxLate ELSE late[t] + 1]
    /\ UNCHANGED <<expired, stat, last, timerUnchanged>>

(* Mutant: a timer goes off in the tick before its timeout. *)
DueEarly(x) == Minus(Plus(rt_tick, 1), timeout_tick[x]) < Half

(* The comparison of rt_timer_check. *)
Due(x) == Minus(rt_tick, timeout_tick[x]) < Half

(* rt_timer_check up to the call of the timeout function. *)
Expire ==
    /\ isr = "check"
    /\ timer_list # <<>>
    /\ Due(timer_list[1])
    /\ expired' = timer_list[1]
    /\ timer_list' = Tail(timer_list)
    /\ activated' = IF expired' \in periodic THEN activated ELSE activated \ {expired'}
    /\ temp' = TRUE
    /\ isr' = "callback"
    /\ started' = Removed(started, expired')
    /\ UNCHANGED <<rt_tick, periodic, init_tick, timeout_tick, threadVars>>

(* The timeout function of a thread's timer. *)
rt_thread_timeout ==
    /\ isr = "callback"
    /\ expired \in Threads
    /\ stat[expired] \in Suspended      \* RT_ASSERT
    /\ stat' = [stat EXCEPT ![expired] = "run"]
    /\ isr' = "return"
    /\ UNCHANGED <<rt_tick, expired, last, late, timerUnchanged>>

(* The timeout function of another timer, which may call a timer function. *)
timeout_func ==
    /\ isr = "callback"
    /\ expired \in AppTimers
    /\ UNCHANGED timerUnchanged \/ \E x \in AppTimers : TimerCall(x)
    /\ isr' = "return"
    /\ UNCHANGED <<rt_tick, expired, threadVars>>

(* Mutant: one timer is handled per tick. *)
RestartOnce ==
    /\ isr = "return"
    /\ isr' = "off"
    /\ expired' = None
    /\ IF temp /\ expired \in periodic \cap activated
       THEN rt_timer_start(expired)
       ELSE temp' = FALSE /\ UNCHANGED <<timer_list, activated, periodic, init_tick, timeout_tick, started>>
    /\ UNCHANGED <<rt_tick, threadVars>>

(* The rest of the loop's body: a periodic timer is started again, unless the  *)
(* function stopped, started or detached it.                                 *)
Restart ==
    /\ isr = "return"
    /\ isr' = "check"
    /\ expired' = None
    /\ IF temp /\ expired \in periodic \cap activated
       THEN rt_timer_start(expired)
       ELSE temp' = FALSE /\ UNCHANGED <<timer_list, activated, periodic, init_tick, timeout_tick, started>>
    /\ UNCHANGED <<rt_tick, threadVars>>

CheckDone ==
    /\ isr = "check"
    /\ timer_list # <<>> => ~Due(timer_list[1])
    /\ isr' = "off"
    /\ UNCHANGED <<rt_tick, expired, threadVars, timerUnchanged>>

rt_timer_check == Expire \/ rt_thread_timeout \/ timeout_func \/ Restart \/ CheckDone

Thread(t) == rt_thread_sleep(t) \/ rt_thread_delay_until(t) \/ DelayMissed(t)
             \/ WaitFor(t) \/ rt_thread_resume(t)

Next ==
    \/ rt_tick_increase
    \/ rt_timer_check
    \/ \E x \in AppTimers : UseTimer(x)
    \/ \E t \in Threads : Thread(t)

Spec == Init /\ [][Next]_vars

(* The tick interrupt comes again and again and runs to its end. *)
FairSpec == Spec /\ WF_vars(rt_tick_increase) /\ WF_vars(rt_timer_check)

-----------------------------------------------------------------------------
(* Properties *)

(* The ticks until a listed timer goes off; none are left when it is overdue.  *)
Left(x) == IF Due(x) THEN 0 ELSE Minus(timeout_tick[x], rt_tick)

StartedBefore(x, y) == \E i, j \in 1 .. Len(started) : i < j /\ started[i] = x /\ started[j] = y

(* No timer behind another goes off earlier, and timers of the same tick stand  *)
(* in the order in which rt_timer_start was called.                           *)
ListInOrder ==
    \A i, j \in 1 .. Len(timer_list) : i < j =>
        LET x == timer_list[i]
            y == timer_list[j]
        IN  Left(x) <= Left(y) /\ (timeout_tick[x] = timeout_tick[y] => StartedBefore(x, y))

(* Outside the tick interrupt a listed timer has its timeout ahead of it, less *)
(* than half the range of rt_tick_t away.                                     *)
NothingOverdue ==
    isr = "off" => \A i \in 1 .. Len(timer_list) :
                       Minus(timeout_tick[timer_list[i]], rt_tick) < Half

(* rt_timer_check only looks at the first timer of rt_timer_list. That is      *)
(* enough: however the tick counter wraps around, and whatever the timeout    *)
(* functions start and stop, the list stays in the order of the timeouts      *)
(* ("the timer inserted early get called early", timer.c, for equal ones) and *)
(* keeps no timer past its tick.                                              *)
TimerListSound == TypeOK /\ ListInOrder /\ NothingOverdue

(* rt_thread_timeout asserts that its thread is suspended. A thread's timer is *)
(* listed exactly while the thread waits, so no timeout of an earlier wait,  *)
(* ended by rt_thread_resume, is left to come.                                *)
NoStaleTimeout ==
    \A t \in Threads : stat[t] \in Suspended <=>
        t \in Elements(timer_list) \/ (isr = "callback" /\ expired = t)

(* rt_thread_delay_until: a thread that came in time wakes in the very tick    *)
(* its period ends, as counted by ticks that passed, whatever *tick and the  *)
(* wrapped difference cur_tick - *tick are; so the period does not drift.     *)
WakesOnPeriod ==
    [][\A t \in Threads : stat[t] = "until" /\ stat'[t] = "run" => late[t] = 0]_vars

(* The timers implement the abstract alarms: a timer that is started goes off *)
(* in the tick that is the asked number of ticks away, neither early nor      *)
(* late, never after it was stopped, and only one at a time; the periodic one *)
(* that went off is started again unless its function, or what that called,   *)
(* started or stopped it (rt_timer_start, rt_timer_stop, rt_timer_control,    *)
(* rt_timer_check).                                                           *)
Off == -1
Alarm == INSTANCE Alarms WITH
             Alarm <- Timers,
             Silent <- None,
             asked <- init_tick,
             every <- periodic,
             left <- [x \in Timers |-> IF x \in Elements(timer_list) \cap activated
                                       THEN Left(x) ELSE Off],
             ringing <- isr # "off",
             bell <- expired,
             again <- temp /\ expired \in periodic \cap activated

KeepsTime == Alarm!Spec

(* A sleeping thread wakes, however many timers are started, stopped or       *)
(* started again by timeout functions meanwhile.                             *)
SleepersWake == \A t \in Threads : stat[t] \in Suspended ~> stat[t] = "run"

(* timer.c, RT_TIMER_CTRL_GET_STATE: a timer with RT_TIMER_FLAG_ACTIVATED "is   *)
(* start and run".                                                           *)
ActivatedRuns == isr = "off" => \A x \in activated : x \in Elements(timer_list)
=============================================================================
