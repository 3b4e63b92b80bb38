------------------------------- MODULE Semaphore ------------------------------
(***************************************************************************)
(* RT-Thread's semaphore (rt-thread/src/ipc.c). An action is a stretch with   *)
(* the interrupts disabled; interrupts release and reset as threads do, and   *)
(* any thread that is not suspended may be the running one.                  *)
(***************************************************************************)
EXTENDS WaitList, FiniteSets

CONSTANTS
    Threads,
    Priority,            \* priority of each thread, a smaller number first
    Flag,                \* "FIFO" or "PRIO": order of the waiting threads
    InitValue,           \* value at rt_sem_init
    RT_SEM_VALUE_MAX,    \* 65535 on the board
    MayDetach            \* whether rt_sem_detach is called

ASSUME ValueAssumption == RT_SEM_VALUE_MAX \in Nat /\ InitValue \in 0 .. RT_SEM_VALUE_MAX
ASSUME ThreadsAssumption == IsFiniteSet(Threads)
ASSUME PriorityAssumption == Priority \in [Threads -> Nat]
ASSUME FlagAssumption == Flag \in {"FIFO", "PRIO"} /\ MayDetach \in BOOLEAN

VARIABLES
    value,
    suspend_thread,   \* the threads that wait, in the order of the list
    error, pc,        \* of each thread; "run", "wait" or "resumed"
    timed,            \* the threads whose timer runs
    detach,           \* "no", or where rt_sem_detach is: "look", "resume", "object",
                      \* "done"; "halted" in the loop of a failed assertion
    permits           \* history: InitValue + releases - takes that returned RT_EOK

vars == <<value, suspend_thread, error, pc, timed, detach, permits>>

TypeOK ==
    /\ value \in 0 .. RT_SEM_VALUE_MAX
    /\ suspend_thread \in Seq(Threads)
    /\ error \in [Threads -> {"EOK", "ETIMEOUT", "ERROR"}]
    /\ pc \in [Threads -> {"run", "wait", "resumed"}]
    /\ timed \subseteq Threads
    /\ detach \in {"no", "look", "resume", "object", "done", "halted"}
    /\ permits \in Int

Init ==
    /\ value = InitValue
    /\ suspend_thread = <<>>
    /\ error = [t \in Threads |-> "EOK"]
    /\ pc = [t \in Threads |-> "run"]
    /\ timed = {}
    /\ detach = "no"
    /\ permits = InitValue

(* Mutant: a thread is put at the head of the list. *)
PlaceFront(list, t, k) == k = 1

(* rt_ipc_list_suspend *)
Place(list, t, k) == IF Flag = "FIFO" THEN k = Len(list) + 1
                                      ELSE PrioSlot(list, Priority, t, k)

-----------------------------------------------------------------------------
(* rt_sem_take: there is one ... *)
Take(t) ==
    /\ pc[t] = "run" /\ detach \notin {"done", "halted"}
    /\ value > 0
    /\ value' = value - 1
    /\ permits' = permits - 1
    /\ UNCHANGED <<suspend_thread, error, pc, timed, detach>>

(* ... there is none, and with time 0 the call returns -RT_ETIMEOUT without a *)
(* change (rt_sem_trytake); or it waits, with its timer or without.          *)
TakeWait(t, time) ==
    /\ pc[t] = "run" /\ detach \notin {"done", "halted"}
    /\ value = 0
    /\ error' = [error EXCEPT ![t] = "EOK"]
    /\ \E k \in 1 .. Len(suspend_thread) + 1 :
           /\ Place(suspend_thread, t, k)
           /\ suspend_thread' = InsertedAt(suspend_thread, k, t)
    /\ pc' = [pc EXCEPT ![t] = "wait"]
    /\ timed' = IF time = "ticks" THEN timed \cup {t} ELSE timed
    /\ UNCHANGED <<value, detach, permits>>

(* Mutant: the error is not looked at. *)
TakeReturnsUnchecked(t) ==
    /\ pc[t] = "resumed" /\ detach # "halted"
    /\ permits' = permits - 1
    /\ pc' = [pc EXCEPT ![t] = "run"]
    /\ UNCHANGED <<value, suspend_thread, error, timed, detach>>

(* rt_schedule has returned. *)
TakeReturns(t) ==
    /\ pc[t] = "resumed" /\ detach # "halted"
    /\ permits' = IF error[t] = "EOK" THEN permits - 1 ELSE permits
    /\ pc' = [pc EXCEPT ![t] = "run"]
    /\ UNCHANGED <<value, suspend_thread, error, timed, detach>>

(* The timer of the thread ends its wait. *)
rt_thread_timeout(t) ==
    /\ pc[t] = "wait" /\ t \in timed /\ detach # "halted"
    /\ error' = [error EXCEPT ![t] = "ETIMEOUT"]
    /\ suspend_thread' = Removed(suspend_thread, t)
    /\ timed' = timed \ {t}
    /\ pc' = [pc EXCEPT ![t] = "resumed"]
    /\ UNCHANGED <<value, detach, permits>>

-----------------------------------------------------------------------------
(* rt_sem_release: the first thread that waits is given the permit ... *)
ReleaseTo ==
    /\ suspend_thread # <<>> /\ detach \notin {"done", "halted"}
    /\ LET u == Head(suspend_thread)
       IN  pc' = [pc EXCEPT ![u] = "resumed"] /\ timed' = timed \ {u}
    /\ suspend_thread' = Tail(suspend_thread)
    /\ permits' = permits + 1
    /\ UNCHANGED <<value, error, detach>>

(* ... or it is counted ... *)
ReleaseCount ==
    /\ suspend_thread = <<>> /\ detach \notin {"done", "halted"}
    /\ value < RT_SEM_VALUE_MAX
    /\ value' = value + 1
    /\ permits' = permits + 1
    /\ UNCHANGED <<suspend_thread, error, pc, timed, detach>>

(* ... or the value is at its limit and the call returns -RT_EFULL. *)
ReleaseFull ==
    /\ suspend_thread = <<>> /\ detach \notin {"done", "halted"}
    /\ value = RT_SEM_VALUE_MAX
    /\ UNCHANGED vars

rt_sem_release == ReleaseTo \/ ReleaseCount \/ ReleaseFull

(* Every thread in the list is ready again, with the error -RT_ERROR. *)
ResumeAll ==
    /\ error' = [t \in Threads |-> IF pc[t] = "wait" THEN "ERROR" ELSE error[t]]
    /\ pc' = [t \in Threads |-> IF pc[t] = "wait" THEN "resumed" ELSE pc[t]]
    /\ timed' = {}
    /\ suspend_thread' = <<>>

(* Threads that were given a permit and have not returned yet. *)
Granted == {t \in Threads : pc[t] = "resumed" /\ error[t] = "EOK"}

(* Mutant: the waiting threads are left alone. *)
ResetValueOnly ==
    /\ detach \notin {"done", "halted"}
    /\ \E v \in 0 .. RT_SEM_VALUE_MAX : value' = v /\ permits' = v + Cardinality(Granted)
    /\ UNCHANGED <<suspend_thread, error, pc, timed, detach>>

(* rt_sem_control(RT_IPC_CMD_RESET), all of it with the interrupts disabled. *)
Reset ==
    /\ detach \notin {"done", "halted"}
    /\ ResumeAll
    /\ \E v \in 0 .. RT_SEM_VALUE_MAX : value' = v /\ permits' = v + Cardinality(Granted)
    /\ UNCHANGED detach

-----------------------------------------------------------------------------
(* rt_sem_detach and rt_sem_delete. The loop of rt_ipc_list_resume_all looks   *)
(* at the list with the interrupts enabled ...                               *)
rt_sem_detach ==
    /\ MayDetach /\ detach = "no"
    /\ detach' = "look"
    /\ UNCHANGED <<value, suspend_thread, error, pc, timed, permits>>

DetachLooks ==
    /\ detach = "look"
    /\ detach' = IF suspend_thread = <<>> THEN "object" ELSE "resume"
    /\ UNCHANGED <<value, suspend_thread, error, pc, timed, permits>>

(* ... disables them and resumes the thread that is the first now ... *)
DetachResumes ==
    /\ detach = "resume" /\ suspend_thread # <<>>
    /\ LET u == Head(suspend_thread)
       IN  /\ error' = [error EXCEPT ![u] = "ERROR"]
           /\ pc' = [pc EXCEPT ![u] = "resumed"]
           /\ timed' = timed \ {u}
    /\ suspend_thread' = Tail(suspend_thread)
    /\ detach' = "look"
    /\ UNCHANGED <<value, permits>>

(* ... or, when the list was emptied meanwhile, takes the semaphore itself for *)
(* a thread: the list's head is where a thread has its tlist. The type of the *)
(* object fails the assertion of rt_thread_resume, which loops for ever with *)
(* the interrupts disabled.                                                  *)
DetachFindsNone ==
    /\ detach = "resume" /\ suspend_thread = <<>>
    /\ detach' = "halted"
    /\ UNCHANGED <<value, suspend_thread, error, pc, timed, permits>>

(* rt_object_detach *)
DetachObject ==
    /\ detach = "object"
    /\ detach' = "done"
    /\ UNCHANGED <<value, suspend_thread, error, pc, timed, permits>>

-----------------------------------------------------------------------------
Next ==
    \/ \E t \in Threads :
          \/ Take(t) \/ TakeReturns(t) \/ rt_thread_timeout(t)
          \/ \E time \in {"ticks", "forever"} : TakeWait(t, time)
    \/ rt_sem_release \/ Reset
    \/ rt_sem_detach \/ DetachLooks \/ DetachResumes \/ DetachFindsNone \/ DetachObject

Spec == Init /\ [][Next]_vars

(* Whoever releases keeps doing so, and the scheduler runs a thread that was  *)
(* resumed. Nothing is assumed of those who take.                            *)
FairSpec == Spec /\ WF_vars(rt_sem_release) /\ \A t \in Threads : WF_vars(TakeReturns(t))

-----------------------------------------------------------------------------
(* Properties *)

(* No permit is lost or made up, whichever of release, timeout, reset and the *)
(* steps of a detach comes first: what was put in and not taken out is the   *)
(* value, together with what threads were given that have not returned from  *)
(* rt_sem_take yet.                                                          *)
PermitsConserved == permits = value + Cardinality(Granted)

(* No wake-up is lost: while there is a permit nobody waits for one, and a    *)
(* thread is suspended exactly while it stands in the list, once and in the   *)
(* order of the flag.                                                        *)
NoLostWakeup ==
    /\ value > 0 => suspend_thread = <<>>
    /\ Elements(suspend_thread) = {t \in Threads : pc[t] = "wait"}
    /\ Once(suspend_thread)
    /\ Flag = "PRIO" => InPriorityOrder(suspend_thread, Priority)

(* With RT_IPC_FLAG_FIFO no thread that waits is passed over for ever, unless  *)
(* the semaphore is taken away from its users by rt_sem_detach.               *)
WaitersServed == \A t \in Threads : pc[t] = "wait" ~> pc[t] = "run" \/ detach # "no"

(* thread.c:837, RT_ASSERT(rt_object_get_type((rt_object_t)thread) ==          *)
(* RT_Object_Class_Thread): rt_ipc_list_resume_all resumes only threads.     *)
ResumesThreads == detach # "halted"
==============================================================================
