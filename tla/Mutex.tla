-------------------------------- MODULE Mutex ---------------------------------
(***************************************************************************)
(* RT-Thread's mutexes with priority inheritance (rt-thread/src/ipc.c).      *)
(* An action is a stretch with the interrupts disabled. Any thread that is   *)
(* not suspended may be the running one: the others may be asleep.           *)
(*                                                                         *)
(* Threads take mutexes in increasing order, the discipline that keeps them  *)
(* from a deadlock; whether they release them in the reverse order is Lifo.  *)
(***************************************************************************)
EXTENDS WaitList, FiniteSets

CONSTANTS
    Threads,
    Mutexes,             \* a set of numbers, the order in which they are taken
    Priority,            \* init_priority of each thread, a smaller number first
    None,
    RT_MUTEX_HOLD_MAX,   \* largest value of hold, 255 on the board
    Lifo,                \* whether the mutex taken last is released first
    MayDetach            \* the mutexes that rt_mutex_detach is called for

NO_PRIORITY == 255

ASSUME MutexesAssumption == Mutexes \subseteq Nat /\ None \notin Mutexes \cup Threads
ASSUME PriorityAssumption == Priority \in [Threads -> 0 .. NO_PRIORITY - 1]
ASSUME HoldMaxAssumption == RT_MUTEX_HOLD_MAX \in Nat \ {0}
ASSUME LifoAssumption == Lifo \in BOOLEAN /\ MayDetach \subseteq Mutexes

VARIABLES
    value, owner, hold, original_priority,  \* of each mutex
    suspend_thread,     \* the threads that wait for it, in the order of the list
    current_priority, error,                \* of each thread
    pc,                 \* "run", or where it is in its call
    on,                 \* the mutex of that call
    timed,              \* the threads whose timer runs
    detached,           \* mutexes that are no longer objects of the kernel
    held                \* history: what each thread took and did not release, in order

vars == <<value, owner, hold, original_priority, suspend_thread, current_priority,
          error, pc, on, timed, detached, held>>
mutexVars  == <<value, owner, hold, original_priority>>

Detaching == {"look", "resume", "object"}   \* where rt_mutex_detach is
Steps     == {"run", "wait", "resumed", "halted"} \cup Detaching

TypeOK ==
    /\ value \in [Mutexes -> 0 .. 1]
    /\ owner \in [Mutexes -> Threads \cup {None}]
    /\ hold \in [Mutexes -> 0 .. RT_MUTEX_HOLD_MAX]
    /\ original_priority \in [Mutexes -> 0 .. NO_PRIORITY]
    /\ suspend_thread \in [Mutexes -> Seq(Threads)]
    /\ current_priority \in [Threads -> 0 .. NO_PRIORITY]
    /\ error \in [Threads -> {"EOK", "ETIMEOUT", "ERROR"}]
    /\ pc \in [Threads -> Steps]
    /\ on \in [Threads -> Mutexes \cup {None}]
    /\ timed \subseteq Threads
    /\ detached \subseteq Mutexes
    /\ held \in [Threads -> Seq(Mutexes)]

(* rt_mutex_init of every mutex. *)
Init ==
    /\ value = [m \in Mutexes |-> 1]
    /\ owner = [m \in Mutexes |-> None]
    /\ hold = [m \in Mutexes |-> 0]
    /\ original_priority = [m \in Mutexes |-> NO_PRIORITY]
    /\ suspend_thread = [m \in Mutexes |-> <<>>]
    /\ current_priority = Priority
    /\ error = [t \in Threads |-> "EOK"]
    /\ pc = [t \in Threads |-> "run"]
    /\ on = [t \in Threads |-> None]
    /\ timed = {}
    /\ detached = {}
    /\ held = [t \in Threads |-> <<>>]

Times(m, list) == Cardinality({i \in 1 .. Len(list) : list[i] = m})

(* The last of the takes of m in a list is undone. *)
Undone(m, list) ==
    LET k == CHOOSE i \in 1 .. Len(list) :
                 list[i] = m /\ \A j \in i + 1 .. Len(list) : list[j] # m
    IN  [i \in 1 .. Len(list) - 1 |-> IF i < k THEN list[i] ELSE list[i + 1]]

-----------------------------------------------------------------------------
(* rt_mutex_take *)

(* The thread calls rt_mutex_take, which first sets its error to RT_EOK. *)
Enters(t, m) ==
    /\ pc[t] = "run"
    /\ m \notin detached
    /\ \A i \in 1 .. Len(held[t]) : held[t][i] <= m
    /\ error' = [error EXCEPT ![t] = "EOK"]

(* The owner takes its mutex again, or gets -RT_EFULL. *)
TakeAgain(t, m) ==
    /\ Enters(t, m)
    /\ owner[m] = t
    /\ IF hold[m] < RT_MUTEX_HOLD_MAX
       THEN /\ hold' = [hold EXCEPT ![m] = @ + 1]
            /\ held' = [held EXCEPT ![t] = Append(@, m)]
       ELSE UNCHANGED <<hold, held>>
    /\ UNCHANGED <<value, owner, original_priority, suspend_thread, current_priority,
                   pc, on, timed, detached>>

(* The mutex is available. hold is 0 then, so the test of RT_MUTEX_HOLD_MAX   *)
(* that stands here too never fails.                                         *)
TakeFree(t, m) ==
    /\ Enters(t, m)
    /\ owner[m] # t /\ value[m] > 0
    /\ value' = [value EXCEPT ![m] = @ - 1]
    /\ owner' = [owner EXCEPT ![m] = t]
    /\ original_priority' = [original_priority EXCEPT ![m] = current_priority[t]]
    /\ hold' = [hold EXCEPT ![m] = @ + 1]
    /\ held' = [held EXCEPT ![t] = Append(@, m)]
    /\ UNCHANGED <<suspend_thread, current_priority, pc, on, timed, detached>>

(* It is not, and the caller does not wait. *)
TakeBusy(t, m) ==
    /\ pc[t] = "run" /\ m \notin detached
    /\ owner[m] # t /\ value[m] = 0
    /\ error' = [error EXCEPT ![t] = "ETIMEOUT"]
    /\ UNCHANGED <<mutexVars, suspend_thread, current_priority, pc, on, timed, detached, held>>

(* The owner of m inherits the priority of t if that is higher:               *)
(* rt_thread_control(RT_THREAD_CTRL_CHANGE_PRIORITY), which leaves a suspended *)
(* owner where it stands in the list it waits in.                            *)
Boosted(m, t) ==
    IF current_priority[t] < current_priority[owner[m]]
    THEN [current_priority EXCEPT ![owner[m]] = current_priority[t]]
    ELSE current_priority

(* It is not, and the caller waits, with or without its timer. *)
TakeWait(t, m) ==
    /\ Enters(t, m)
    /\ owner[m] # t /\ value[m] = 0
    /\ current_priority' = Boosted(m, t)
    /\ \E k \in 1 .. Len(suspend_thread[m]) + 1 :
           /\ PrioSlot(suspend_thread[m], current_priority, t, k)
           /\ suspend_thread' = [suspend_thread EXCEPT ![m] = InsertedAt(@, k, t)]
    /\ pc' = [pc EXCEPT ![t] = "wait"]
    /\ on' = [on EXCEPT ![t] = m]
    /\ \/ timed' = timed \cup {t}
       \/ UNCHANGED timed
    /\ UNCHANGED <<mutexVars, detached, held>>

(* rt_schedule has returned: the caller looks at its error. *)
TakeReturns(t) ==
    /\ pc[t] = "resumed"
    /\ held' = IF error[t] = "EOK" THEN [held EXCEPT ![t] = Append(@, on[t])] ELSE held
    /\ pc' = [pc EXCEPT ![t] = "run"]
    /\ on' = [on EXCEPT ![t] = None]
    /\ UNCHANGED <<mutexVars, suspend_thread, current_priority, error, timed, detached>>

rt_mutex_take(t, m) == TakeAgain(t, m) \/ TakeFree(t, m) \/ TakeBusy(t, m) \/ TakeWait(t, m)

(* rt_thread_timeout: the thread leaves the list and is ready again. What it  *)
(* lent to the owner stays with the owner.                                   *)
rt_thread_timeout(t) ==
    /\ pc[t] = "wait" /\ t \in timed
    /\ error' = [error EXCEPT ![t] = "ETIMEOUT"]
    /\ suspend_thread' = [suspend_thread EXCEPT ![on[t]] = Removed(@, t)]
    /\ timed' = timed \ {t}
    /\ pc' = [pc EXCEPT ![t] = "resumed"]
    /\ UNCHANGED <<mutexVars, current_priority, on, detached, held>>

-----------------------------------------------------------------------------
(* rt_mutex_release *)

(* Not the owner: -RT_ERROR. *)
ReleaseRefused(t, m) ==
    /\ pc[t] = "run" /\ m \notin detached
    /\ owner[m] # t
    /\ error' = [error EXCEPT ![t] = "ERROR"]
    /\ UNCHANGED <<mutexVars, suspend_thread, current_priority, pc, on, timed, detached, held>>

(* The owner calls it; with Lifo, for what it took last. *)
Releases(t, m) ==
    /\ pc[t] = "run" /\ m \notin detached
    /\ owner[m] = t
    /\ Lifo => held[t][Len(held[t])] = m
    /\ held' = [held EXCEPT ![t] = Undone(m, @)]

(* One of several holds ends. *)
ReleaseOnce(t, m) ==
    /\ Releases(t, m)
    /\ hold[m] > 1
    /\ hold' = [hold EXCEPT ![m] = @ - 1]
    /\ UNCHANGED <<value, owner, original_priority, suspend_thread, current_priority,
                   error, pc, on, timed, detached>>

(* Mutant: the priority is only given back when nobody waits. *)
RestoredIfIdle(t, m) ==
    IF suspend_thread[m] = <<>>
    THEN [current_priority EXCEPT ![t] = original_priority[m]]
    ELSE current_priority

(* The priority the owner had when it took m. *)
Restored(t, m) == [current_priority EXCEPT ![t] = original_priority[m]]

(* The last hold ends and the first waiting thread is the new owner before it *)
(* runs: rt_ipc_list_resume makes it ready and stops its timer.              *)
HandOver(t, m) ==
    /\ Releases(t, m)
    /\ hold[m] = 1 /\ suspend_thread[m] # <<>>
    /\ current_priority' = Restored(t, m)
    /\ LET u == Head(suspend_thread[m])
       IN  /\ owner' = [owner EXCEPT ![m] = u]
           /\ original_priority' = [original_priority EXCEPT ![m] = current_priority'[u]]
           /\ suspend_thread' = [suspend_thread EXCEPT ![m] = Tail(@)]
           /\ pc' = [pc EXCEPT ![u] = "resumed"]
           /\ timed' = timed \ {u}
    /\ UNCHANGED <<value, hold, error, on, detached>>  \* hold goes down and up again

(* Mutant: a waiting thread is left to take the mutex itself. *)
SetFreeAnyway(t, m) ==
    /\ Releases(t, m)
    /\ hold[m] = 1
    /\ current_priority' = Restored(t, m)
    /\ value' = [value EXCEPT ![m] = @ + 1]
    /\ owner' = [owner EXCEPT ![m] = None]
    /\ original_priority' = [original_priority EXCEPT ![m] = NO_PRIORITY]
    /\ hold' = [hold EXCEPT ![m] = 0]
    /\ UNCHANGED <<suspend_thread, error, pc, on, timed, detached>>

(* The last hold ends and nobody waits. value is 0 then, far below            *)
(* RT_MUTEX_VALUE_MAX.                                                       *)
SetFree(t, m) ==
    /\ Releases(t, m)
    /\ hold[m] = 1 /\ suspend_thread[m] = <<>>
    /\ current_priority' = Restored(t, m)
    /\ value' = [value EXCEPT ![m] = @ + 1]
    /\ owner' = [owner EXCEPT ![m] = None]
    /\ original_priority' = [original_priority EXCEPT ![m] = NO_PRIORITY]
    /\ hold' = [hold EXCEPT ![m] = 0]
    /\ UNCHANGED <<suspend_thread, error, pc, on, timed, detached>>

LastRelease(t, m) == HandOver(t, m) \/ SetFree(t, m)

rt_mutex_release(t, m) == ReleaseRefused(t, m) \/ ReleaseOnce(t, m) \/ LastRelease(t, m)

-----------------------------------------------------------------------------
(* rt_mutex_detach and rt_mutex_delete *)

(* rt_ipc_list_resume_all looks at the list with the interrupts enabled ...    *)
rt_mutex_detach(t, m) ==
    /\ pc[t] = "run" /\ m \in MayDetach \ detached
    /\ \A u \in Threads : ~(pc[u] \in Detaching /\ on[u] = m)
    /\ pc' = [pc EXCEPT ![t] = "look"]
    /\ on' = [on EXCEPT ![t] = m]
    /\ UNCHANGED <<mutexVars, suspend_thread, current_priority, error, timed, detached, held>>

DetachLooks(t) ==
    /\ pc[t] = "look"
    /\ pc' = [pc EXCEPT ![t] = IF suspend_thread[on[t]] = <<>> THEN "object" ELSE "resume"]
    /\ UNCHANGED <<mutexVars, suspend_thread, current_priority, error, on, timed, detached, held>>

(* ... disables them and resumes the thread that is the first now ... *)
DetachResumes(t) ==
    /\ pc[t] = "resume"
    /\ suspend_thread[on[t]] # <<>>
    /\ LET u == Head(suspend_thread[on[t]])
       IN  /\ error' = [error EXCEPT ![u] = "ERROR"]
           /\ pc' = [pc EXCEPT ![u] = "resumed", ![t] = "look"]
           /\ timed' = timed \ {u}
    /\ suspend_thread' = [suspend_thread EXCEPT ![on[t]] = Tail(@)]
    /\ UNCHANGED <<mutexVars, current_priority, on, detached, held>>

(* ... or, when the list was emptied meanwhile, takes the mutex itself for a  *)
(* thread: the list's head is where a thread has its tlist. The type of the  *)
(* object fails the assertion of rt_thread_resume, which loops for ever with *)
(* the interrupts disabled.                                                  *)
DetachFindsNone(t) ==
    /\ pc[t] = "resume"
    /\ suspend_thread[on[t]] = <<>>
    /\ pc' = [pc EXCEPT ![t] = "halted"]
    /\ UNCHANGED <<mutexVars, suspend_thread, current_priority, error, on, timed, detached, held>>

(* rt_object_detach. *)
DetachObject(t) ==
    /\ pc[t] = "object"
    /\ detached' = detached \cup {on[t]}
    /\ pc' = [pc EXCEPT ![t] = "run"]
    /\ on' = [on EXCEPT ![t] = None]
    /\ UNCHANGED <<mutexVars, suspend_thread, current_priority, error, timed, held>>

-----------------------------------------------------------------------------
Halted == \E t \in Threads : pc[t] = "halted"

Next ==
    /\ ~Halted
    /\ \E t \in Threads :
          \/ \E m \in Mutexes :
                rt_mutex_take(t, m) \/ rt_mutex_release(t, m) \/ rt_mutex_detach(t, m)
          \/ TakeReturns(t) \/ rt_thread_timeout(t)
          \/ DetachLooks(t) \/ DetachResumes(t) \/ DetachFindsNone(t) \/ DetachObject(t)

Spec == Init /\ [][Next]_vars

-----------------------------------------------------------------------------
(* Properties *)

(* The thread whose turn it already is, but which has not returned yet from  *)
(* rt_mutex_take.                                                            *)
Granted(t, m) == pc[t] = "resumed" /\ on[t] = m /\ error[t] = "EOK"

(* A thread whose takes succeeded is the owner, and hold counts them. *)
OwnerAgrees ==
    \A m \in Mutexes :
        /\ value[m] = 1 <=> owner[m] = None
        /\ \A t \in Threads :
              Times(m, held[t]) + (IF Granted(t, m) THEN 1 ELSE 0)
                  = IF owner[m] = t THEN hold[m] ELSE 0

(* A mutex that threads wait for has an owner which is none of them, and a    *)
(* thread is suspended exactly while it stands in a list, once.              *)
WaitersHaveOwner ==
    \A m \in Mutexes :
        /\ suspend_thread[m] # <<>> => owner[m] \in Threads
        /\ Elements(suspend_thread[m]) = {t \in Threads : pc[t] = "wait" /\ on[t] = m}
        /\ Once(suspend_thread[m])
        /\ owner[m] \notin Elements(suspend_thread[m])

(* Whatever timeout, release and take come together, and between a look of    *)
(* rt_ipc_list_resume_all at the list and its act, what the threads believe   *)
(* agrees with the mutex, so no two are ever inside, and nobody waits for one *)
(* that is free (rt_mutex_take, rt_mutex_release, rt_thread_timeout). That a  *)
(* detach may halt the system there is ResumesThreads.                       *)
Exclusive == TypeOK /\ OwnerAgrees /\ WaitersHaveOwner

(* Priority inheritance: whoever waits for a mutex, its owner never runs at a *)
(* lower priority, and the first in line is of the highest. Of ipc.c:740,     *)
(* that a mutex solves "the unbounded priority inversion problem".           *)
OwnerBoosted ==
    \A m \in Mutexes :
        /\ InPriorityOrder(suspend_thread[m], current_priority)
        /\ \A i \in 1 .. Len(suspend_thread[m]) :
               current_priority[owner[m]] <= current_priority[suspend_thread[m][i]]

(* A thread that holds no mutex runs at its own priority: what it inherited   *)
(* is given back (ipc.c:1119, "change the owner thread to original           *)
(* priority").                                                               *)
PriorityRestored ==
    \A t \in Threads :
        (\A m \in Mutexes : owner[m] # t) => current_priority[t] = Priority[t]

(* Of ipc.c:753, "When the mutex is successfully detached, it will resume all *)
(* suspended threads in the mutex list".                                     *)
DetachedIsQuiet == \A m \in detached : suspend_thread[m] = <<>>

(* thread.c:837, RT_ASSERT(rt_object_get_type((rt_object_t)thread) ==          *)
(* RT_Object_Class_Thread): rt_ipc_list_resume_all resumes only threads.     *)
ResumesThreads == ~Halted

==============================================================================
