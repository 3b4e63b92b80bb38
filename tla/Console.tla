-------------------------------- MODULE Console -------------------------------
(***************************************************************************)
(* Input of the console: the receiver of the USART, its interrupt handler     *)
(* (drv_usart.c, serial.c), the ring buffer, and the shell thread that waits  *)
(* for characters at a semaphore (finsh/shell.c). The semaphore is the one    *)
(* of module Semaphore, with the shell as its only thread.                   *)
(*                                                                         *)
(* No thread runs during the handler, but characters go on arriving at the   *)
(* receiver: they are numbered in the order in which they were sent.         *)
(***************************************************************************)
EXTENDS Integers, Sequences

CONSTANTS
    Shell,               \* the thread tshell
    bufsz,               \* RT_SERIAL_RB_BUFSZ, 64 on the board
    SemValueMax,         \* RT_SEM_VALUE_MAX, 65535 on the board
    MaxChars             \* characters that are sent, 1 .. MaxChars

ASSUME BufferAssumption == bufsz \in Nat /\ bufsz >= 2
ASSUME CharsAssumption == MaxChars \in Nat /\ SemValueMax \in Nat \ {0}

VARIABLES
    sent,                        \* how many characters were sent
    DATAR, rxne,                 \* data register of the receiver and its flag
    isr,                         \* "off", "getc", "indicate" or "clear"
    buffer, put_index, get_index, is_full,   \* rx_fifo
    at,                          \* where the shell is: "read", "take" or "use"
    ch,                          \* the character it read last
    kept,                        \* history: what the handler put into rx_fifo
    sem_value, sem_suspend_thread, sem_error, sem_pc,     \* of Semaphore
    sem_timed, sem_detach, sem_permits

fifoVars == <<buffer, put_index, get_index, is_full>>
semVars  == <<sem_value, sem_suspend_thread, sem_error, sem_pc,
              sem_timed, sem_detach, sem_permits>>
consoleVars == <<sent, DATAR, rxne, isr, fifoVars, at, ch, kept, semVars>>

rx_sem == INSTANCE Semaphore WITH
    Threads <- {Shell}, Priority <- [t \in {Shell} |-> 11], Flag <- "FIFO",
    InitValue <- 0, RT_SEM_VALUE_MAX <- SemValueMax, MayDetach <- FALSE,
    value <- sem_value, suspend_thread <- sem_suspend_thread, error <- sem_error,
    pc <- sem_pc, timed <- sem_timed, detach <- sem_detach, permits <- sem_permits

Chars == 0 .. MaxChars
Index == 0 .. bufsz - 1

ConsoleTypeOK ==
    /\ sent \in Chars /\ DATAR \in Chars /\ rxne \in BOOLEAN
    /\ isr \in {"off", "getc", "indicate", "clear"}
    /\ buffer \in [Index -> Chars]
    /\ put_index \in Index /\ get_index \in Index /\ is_full \in BOOLEAN
    /\ at \in {"read", "take", "use"} /\ ch \in Chars
    /\ kept \in Seq(Chars)
    /\ rx_sem!TypeOK

ConsoleInit ==
    /\ sent = 0 /\ DATAR = 0 /\ rxne = FALSE
    /\ isr = "off"
    /\ buffer = [i \in Index |-> 0]
    /\ put_index = 0 /\ get_index = 0 /\ is_full = FALSE
    /\ at = "read" /\ ch = 0
    /\ kept = <<>>
    /\ rx_sem!Init

-----------------------------------------------------------------------------
(* The receiver has a character. If the last one was not read it stays and    *)
(* the new one is lost.                                                      *)
Arrive ==
    /\ sent < MaxChars
    /\ sent' = sent + 1
    /\ DATAR' = IF rxne THEN DATAR ELSE sent'
    /\ rxne' = TRUE
    /\ UNCHANGED <<isr, fifoVars, at, ch, kept, semVars>>

-----------------------------------------------------------------------------
(* The handler *)

USART1_IRQHandler ==
    /\ isr = "off" /\ rxne
    /\ isr' = "getc"
    /\ UNCHANGED <<sent, DATAR, rxne, fifoVars, at, ch, kept, semVars>>

(* The next index of the ring. *)
Step(i) == IF i + 1 >= bufsz THEN 0 ELSE i + 1

(* Mutant: when the ring is full the read index stays. *)
PutOver ==
    /\ buffer' = [buffer EXCEPT ![put_index] = DATAR]
    /\ put_index' = Step(put_index)
    /\ is_full' = (put_index' = get_index \/ is_full)
    /\ UNCHANGED get_index

(* A character is put into the ring; when the ring is full the oldest goes. *)
Put ==
    /\ buffer' = [buffer EXCEPT ![put_index] = DATAR]
    /\ put_index' = Step(put_index)
    /\ IF put_index' = get_index
       THEN get_index' = Step(get_index) /\ is_full' = TRUE
       ELSE UNCHANGED <<get_index, is_full>>

(* One turn of the loop in rt_hw_serial_isr: ch32_getc returns a character,   *)
(* and reading it clears the flag ...                                        *)
IsrReceives ==
    /\ isr = "getc" /\ rxne
    /\ Put
    /\ rxne' = FALSE
    /\ kept' = Append(kept, DATAR)
    /\ UNCHANGED <<sent, DATAR, isr, at, ch, semVars>>

(* ... or -1. *)
IsrEmpty ==
    /\ isr = "getc" /\ ~rxne
    /\ isr' = "indicate"
    /\ UNCHANGED <<sent, DATAR, rxne, fifoVars, at, ch, kept, semVars>>

(* rx_length *)
Length == IF put_index >= get_index THEN put_index - get_index
                                    ELSE bufsz - (get_index - put_index)

(* Mutant: finsh_rx_ind is called only when the ring was empty. *)
IsrIndicatesFirst ==
    /\ isr = "indicate"
    /\ IF Length = 1 THEN rx_sem!rt_sem_release ELSE UNCHANGED semVars
    /\ isr' = "clear"
    /\ UNCHANGED <<sent, DATAR, rxne, fifoVars, at, ch, kept>>

(* rx_indicate is finsh_rx_ind, which releases the semaphore of the shell. *)
IsrIndicates ==
    /\ isr = "indicate"
    /\ IF Length # 0 THEN rx_sem!rt_sem_release ELSE UNCHANGED semVars
    /\ isr' = "clear"
    /\ UNCHANGED <<sent, DATAR, rxne, fifoVars, at, ch, kept>>

(* USART_ClearITPendingBit at the end of uart_isr: also a character that came *)
(* after the loop is not received any more.                                  *)
IsrClears ==
    /\ isr = "clear"
    /\ rxne' = FALSE
    /\ isr' = "off"
    /\ UNCHANGED <<sent, DATAR, fifoVars, at, ch, kept, semVars>>

Isr == USART1_IRQHandler \/ IsrReceives \/ IsrEmpty \/ IsrIndicates \/ IsrClears

-----------------------------------------------------------------------------
(* finsh_getchar *)

(* Mutant: a full ring is taken for an empty one. *)
EmptyRing == get_index = put_index \/ is_full

Empty == get_index = put_index /\ ~is_full

(* _serial_int_rx of one character: there is one ... *)
ShellReads ==
    /\ isr = "off" /\ at = "read"
    /\ ~Empty
    /\ ch' = buffer[get_index]
    /\ get_index' = Step(get_index)
    /\ is_full' = FALSE
    /\ at' = "use"
    /\ UNCHANGED <<sent, DATAR, rxne, isr, buffer, put_index, kept, semVars>>

(* ... or none, and the shell goes to its semaphore. *)
ShellFindsNone ==
    /\ isr = "off" /\ at = "read"
    /\ Empty
    /\ at' = "take"
    /\ UNCHANGED <<sent, DATAR, rxne, isr, fifoVars, ch, kept, semVars>>

(* rt_sem_take(&shell->rx_sem, RT_WAITING_FOREVER) *)
ShellTakes ==
    /\ isr = "off" /\ at = "take" /\ sem_pc[Shell] = "run"
    /\ \/ rx_sem!Take(Shell) /\ at' = "read"
       \/ rx_sem!TakeWait(Shell, "forever") /\ UNCHANGED at
    /\ UNCHANGED <<sent, DATAR, rxne, isr, fifoVars, ch, kept>>

ShellResumes ==
    /\ isr = "off" /\ at = "take"
    /\ rx_sem!TakeReturns(Shell)
    /\ at' = "read"
    /\ UNCHANGED <<sent, DATAR, rxne, isr, fifoVars, ch, kept>>

(* finsh_thread_entry has done with the character. *)
ShellUses ==
    /\ isr = "off" /\ at = "use"
    /\ at' = "read"
    /\ UNCHANGED <<sent, DATAR, rxne, isr, fifoVars, ch, kept, semVars>>

ShellRuns == ShellReads \/ ShellFindsNone \/ ShellTakes \/ ShellResumes \/ ShellUses

-----------------------------------------------------------------------------
ConsoleNext == Arrive \/ Isr \/ ShellRuns

ConsoleSpec == ConsoleInit /\ [][ConsoleNext]_consoleVars

(* Interrupts are served, and the shell runs when the threads above it sleep. *)
ConsoleFairSpec == ConsoleSpec /\ WF_consoleVars(Isr) /\ WF_consoleVars(ShellRuns)

-----------------------------------------------------------------------------
(* Properties *)

Count == IF is_full /\ get_index = put_index THEN bufsz ELSE Length

(* The ring holds the characters received last, in their order: never an old  *)
(* or a foreign one, and as many as it has place for when the shell is late.  *)
RingHoldsNewest ==
    /\ ConsoleTypeOK
    /\ Count <= Len(kept)
    /\ \A i \in 0 .. Count - 1 :
           buffer[(get_index + i) % bufsz] = kept[Len(kept) - Count + 1 + i]
    /\ Count < bufsz - 1 => \A i \in 1 .. Len(kept) - Count : kept[i] <= ch

(* The shell never sleeps on unread characters: between its look at the ring  *)
(* and its rt_sem_take the handler may put one there.                        *)
NoSleepOnInput ==
    isr \in {"off", "clear"} /\ Count > 0 =>
        /\ sem_pc[Shell] # "wait"
        /\ at = "take" => sem_value > 0 \/ sem_pc[Shell] = "resumed"

(* Every character that came into the ring is read or dropped for a newer    *)
(* one: at last the shell has the newest.                                    *)
InputIsRead == \A n \in 1 .. MaxChars : (kept # <<>> /\ kept[Len(kept)] = n) ~> ch >= n
==============================================================================
