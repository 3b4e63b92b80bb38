------------------------------- MODULE WaitList -------------------------------
(***************************************************************************)
(* The linked lists of rtservice.h in which threads and timers wait, as      *)
(* sequences, and the order in which rt_ipc_list_suspend (ipc.c) keeps them. *)
(***************************************************************************)
EXTENDS Integers, Sequences

Elements(list) == {list[i] : i \in 1 .. Len(list)}

Once(list) == \A i, j \in 1 .. Len(list) : list[i] = list[j] => i = j

(* Mutant: the elements behind the one taken out are not linked again. *)
RemovedCut(list, x) ==
    IF x \notin Elements(list) THEN list
    ELSE SubSeq(list, 1, (CHOOSE i \in 1 .. Len(list) : list[i] = x) - 1)

(* rt_list_remove. *)
Removed(list, x) ==
    IF x \notin Elements(list) THEN list
    ELSE LET k == CHOOSE i \in 1 .. Len(list) : list[i] = x
         IN  [i \in 1 .. Len(list) - 1 |-> IF i < k THEN list[i] ELSE list[i + 1]]

(* rt_list_insert_before the element in place k, or _after the one before it. *)
InsertedAt(list, k, x) == [i \in 1 .. Len(list) + 1 |->
                              IF i < k THEN list[i] ELSE IF i = k THEN x ELSE list[i - 1]]

(* The place k that rt_ipc_list_suspend finds for thread t with               *)
(* RT_IPC_FLAG_PRIO: before the first thread of lower priority.              *)
PrioSlot(list, priority, t, k) ==
    /\ \A i \in 1 .. k - 1 : priority[t] >= priority[list[i]]
    /\ k <= Len(list) => priority[t] < priority[list[k]]

InPriorityOrder(list, priority) ==
    \A i, j \in 1 .. Len(list) : i < j => priority[list[i]] <= priority[list[j]]
==============================================================================
