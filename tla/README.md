# Verification of the CH32V307 drum machine

TLA+ models of the drum machine's firmware (`src/software/applications`) and of
the parts of RT-Thread and of the SPI driver it stands on, the TLC runs that
check them on small instances, and TLAPS proofs for every size.

All paths below are under `src/software/`.

## 1. Inventory

The repository is an RT-Thread project. The program's own code is about 600
lines in `applications/`; much of it is commented out (playback, beat timer,
display) and never compiled. The kernel (`rt-thread/src`), the device framework
(`rt-thread/components/drivers`) and the board drivers
(`libraries/hal_drivers`) are vendored, but the firmware's correctness depends on
a few of their algorithms, which are therefore in scope.

| Component | Code | State | Operations |
|---|---|---|---|
| main thread (priority 5) | `applications/main.c` | heartbeat LED on PA0 | creates the queue and the two tasks, then blinks every 500 ms |
| input task (7) | `applications/input/input.c` | `input_events`, `button_data`, `led_data` | every 10 ms: copy the LED image, exchange it for the keys, parse, send an event |
| keyboard driver | `applications/input/keyboard.c` | `kb_led_data` (shared, no lock), `button_data_prev` | `kbInit`, `kbLEDDataGet`, `kbTransferData`, `kbParseButtons` |
| sequencer task (6) | `applications/logic/sequencer.c` | 16 steps of a page, its `input_events` | wait for an event, toggle steps, redraw `kb_led_data` |
| SPI driver and core | `libraries/hal_drivers/drv_spi.c`, `rt-thread/components/drivers/spi/spi_core.c` | data register, status flags, buffers | `rt_spi_transfer` -> `spixfer` -> `SPI_TransmitReceive` -> `SPIx_ReadWriteByte`, polled with a limit of 200 |
| message queue | `rt-thread/src/ipc.c` | list of messages, free list, `entry`, two wait lists | `rt_mq_create`, `rt_mq_send`, `rt_mq_send_wait`, `rt_mq_urgent`, `rt_mq_recv`, `rt_mq_control` |
| thread wait lists | `rt-thread/src/ipc.c`, `thread.c` | `suspend_thread` lists | `rt_ipc_list_suspend`, `_resume`, `_resume_all`, `rt_thread_timeout` |
| semaphores, mutexes, mailboxes | `rt-thread/src/ipc.c` | value, owner and original priority, ring of words | init, take, release, send, urgent, receive, control, detach |
| scheduler and threads | `rt-thread/src/scheduler.c`, `thread.c`, `idle.c` | ready table, bitmap, lock nesting, defunct list | `rt_schedule`, start-up, yield, suspend, resume, change of priority, exit, delete |
| tick, timers, delays | `rt-thread/src/clock.c`, `timer.c`, `thread.c` | `rt_tick`, sorted timer list | `rt_tick_increase`, `rt_timer_start`, `_stop`, `_control`, `_check`, `rt_thread_sleep`, `rt_thread_delay_until` |
| heap | `rt-thread/src/mem.c` | list of blocks, `lfree`, `used_mem` | `rt_malloc`, `rt_realloc`, `rt_free` |
| console input | `libraries/hal_drivers/drv_usart.c`, `rt-thread/components/drivers/serial/serial.c`, `finsh/shell.c` | receive ring, `rx_sem` | the receive interrupt, `_serial_int_rx`, `finsh_getchar` |
| shell line | `rt-thread/components/finsh/shell.c`, `msh.c` | `line` and its two positions, history | one operation per key |
| events, other drivers, file systems, network, chip library | `rt-thread/...`, `libraries/...` | | not modelled, see section 7 |

How they interact:

- `main` calls `inputTaskInit` and `sequencerTaskInit`. It has the highest
  priority, so neither task runs before it first sleeps.
- The input task sends `struct InputEvents` by value through `input_event_mq`
  (8 messages, `RT_IPC_FLAG_PRIO`); `rt_mq_send` never waits. The sequencer waits
  for ever in `rt_mq_recv`.
- Back from the sequencer to the input task goes `kb_led_data`, three bytes of
  plain memory. Nothing protects them but the priorities.
- The keyboard is two chains of shift registers, one for buttons and one for
  LEDs, on one SPI bus and one latch line. The pulse at the start of a scan
  samples the buttons and at the same time shows the LED bytes clocked out in the
  scan before.

What is hard here, and what makes each part correct:

- *Unlocked sharing.* `kbLEDDataSend` clears the image and redraws it bit by bit.
  The LEDs must only ever show a finished picture (`WholeFrame`).
- *Events that cannot be repeated.* `kbParseButtons` remembers the new key state
  before the event is sent. A lost or doubled event would leave the pattern wrong
  for good (`PatternFollowsPresses`, `SequencerKeepsUp`, `EventsAlternate`).
- *A pipeline over three scans* between the key, the pattern and the LED
  (`DisplayLag`, `LedsSettle`).
- *Polls that expire* in the SPI driver while the hardware goes on
  (`LedFrameShifted`, and two of the divergences in section 6).
- *Unchecked failures at boot*: a missing queue or thread is not noticed until an
  assertion spins at some priority (`QueueFailureStopsScan`,
  `KeptEventsFitTogether`, `Heartbeat`).
- *Split critical sections* in the message queue: blocks are filled and read with
  interrupts enabled, while other threads, timeouts and resets intervene
  (`BlocksInOnePlace`, `EntryCounts`, `NoLostWakeup`, `WaitListsOrdered`,
  `KeepsPromise`).

- *State tested before interrupts are disabled* in `rt_thread_resume`,
  `rt_thread_suspend` and `rt_thread_delete` (`ReadyTable`, `OnlyRunningCalls`,
  `RunsHighest`).
- *A tick counter that wraps around*, with timeout functions that work on the list
  while it is being checked (`TimerListSound`, `KeepsTime`, `WakesOnPeriod`,
  `NoStaleTimeout`, `SleepersWake`).
- *A timeout racing a release* of a semaphore, mutex or mailbox, and priorities
  lent and given back (`PermitsConserved`, `Exclusive`, `PriorityRestored`,
  `NoLostWakeup`, `WaitersServed`).
- *Long series of legal calls* on the heap and the command line (`HeapSound`,
  `ObjectsHaveRoom`, `LineIsText`, `EditsText`), and a copy outside the lock in
  `rt_realloc` (`CopyStaysInside`).
- *An interrupt handler and a thread on one ring* (`RingHoldsNewest`,
  `NoSleepOnInput`, `InputIsRead`).

`PROJECT.json` lists each of these hazards at the line where it bites.

## 2. Modules

| Module | Models |
|---|---|
| `SpiPort` | the polled exchange of `drv_spi.c`, with the SPI peripheral and the two register chains (external: hardware) |
| `DrumMachine` | extends `SpiPort`; the three threads, their priorities, boot with failing allocations, the shared image, the queue as its users see it |
| `EventQueue` | abstract: what a message queue promises |
| `MessageQueue` | `ipc.c`'s queue, one action per critical section and per unlocked copy; implements `EventQueue` |
| `Mailbox` | `ipc.c`'s mailbox, a ring with two offsets; implements `EventQueue` |
| `WaitList` | the lists in which threads and timers wait; extended by `MessageQueue`, `Mailbox`, `Semaphore`, `Mutex`, `Scheduler` and `Timer` |
| `Semaphore` | `ipc.c`'s semaphore |
| `Mutex` | `ipc.c`'s mutexes: recursion, priority inheritance, several at a time |
| `Alarms` | abstract: what timers promise, without a wrapping counter and without a list |
| `Timer` | tick, timer list, sleeps and timeouts of threads; implements `Alarms` |
| `Scheduler` | ready table, switches, time slices, life and death of threads |
| `Heap` | blocks, `rt_malloc`, `rt_realloc`, `rt_free` |
| `Console` | receiver, interrupt handler, ring and `finsh_getchar`; uses `Semaphore` as `rx_sem` |
| `LineEditor` | abstract: a text with a cursor, the last commands, and what each key does to them |
| `ShellLine` | the shell's buffer, keys, history and completion; implements `LineEditor` |
| `MC...` | give TLC priorities, names and symmetries |
| `WaitList_proofs` | lemmas on lists, shared by the proofs below |
| `DrumMachine_proofs`, `MessageQueue_proofs`, `Mailbox_proofs`, `Mutex_proofs`, `Scheduler_proofs`, `Timer_proofs` | theorems about the module named, checked by TLAPS |
| `Services_proofs` | theorems about `Semaphore`, `Console`, `ShellLine` and `Heap` |

### SpiPort

A byte is the set of its bits that are 1, so `&`, `|`, `^`, `~` are set
operations. `wire` holds the bytes written and not yet shifted (a transmit buffer
and a shift register: at most two), `dr` the received byte nobody has read. One
call of `SPIx_ReadWriteByte` is `SendByte` or `TxTimeout`, then `ReceiveByte` or
`RxTimeout`; a timeout stores 0 and goes on to the next byte exactly as
`SPI_TransmitReceive` does, and the returned length is always the requested one.
`ClockByte` is the hardware: it shifts a byte through both chains and loses the
received byte if an unread one is still there. An RXNE poll may expire at any
time (up to `MaxFaults` times); a TXE poll expires only when the buffer is
really full.

### DrumMachine

Each thread has a program counter, and an action is what it does between two
points where another thread could look. `kbLEDDataGet` copies one byte at a time
and `kbLEDDataSend` draws one step at a time, because that is the grain at which
an unlocked array can be seen half done. `kbParseButtons`, `seqStepToggle` and
the queue's operations touch only the thread's own data, or run inside the
kernel, and are one action each. `Running(t)` is the scheduler: `t` is ready and
no thread with a smaller priority number is. A failed `RT_ASSERT` makes a thread
spin (`"halt"`) and stay ready.

`MayFail` names the allocations that may fail: `"kb"` (the SPI device of
`kbInit`, after which `rt_spi_configure`'s assertion stops `main`), `"mq"`,
`"input"` and `"sequencer"`. `rt_thread_delay_until` either sleeps or returns
at once; the tick interrupt may wake a sleeper at any time, which includes every
real timing.

History variables record what the player did (`sample`, `want`, `want1`,
`want2`, `latches`) and what the sequencer was told (`down`, `dropped`); no
guard reads them.

Two facts about hardware are assumed. The bytes an expired poll left on the wire
(two at most, some 30 microseconds) are gone before the next latch pulse, and a
register whose serial input has nothing to give shifts in zeros. `PowerUp` is the
set of bytes that the LED registers and the steps of the page (memory from
`rt_malloc`, never cleared) may hold at power-up.

### MessageQueue

| Code | Actions |
|---|---|
| `rt_mq_send_wait`, first critical section | `TakeFree`, `SendFull`, `SendSuspend` |
| copy of the message, interrupts enabled | `CopyIn` |
| second critical section | `Link` |
| `rt_mq_urgent` | the same with its own program counters; `Link` then puts the block at the head |
| `rt_mq_recv`, first critical section | `Unlink`, `RecvEmpty`, `RecvSuspend` |
| copy to the caller's buffer | `CopyOut` |
| second critical section | `Release` |
| `rt_thread_timeout` | `RecvTimeout`, `SendTimeout` |
| `rt_mq_control(RT_IPC_CMD_RESET)` | `Reset` |

A thread resumed from a wait list is at `"recvretry"` or `"sendretry"`: it looks
again with what is left of its timeout, as the loops in `ipc.c` do. Any ready
thread may step, so the results hold whatever the scheduler chooses. Senders and
receivers call with every timeout (0, positive, for ever), which is more than
the drum machine does.

### EventQueue

The abstract queue: a message offered is put into a bounded FIFO once and the
call succeeds, or it is refused and never seen; a message taken reaches one
receiver unchanged; urgent messages overtake; a reset discards the contents.
`MessageQueue` maps the queued blocks to their contents and regards a message as
received from the moment its block is unlinked.
`Mailbox` maps its ring to the same specification, from `out_offset` on.

### WaitList, Semaphore, Mutex, Mailbox

A list is a sequence; `rt_list_remove` of a thread that is in none does nothing.
`rt_ipc_list_suspend` puts a thread at the end or, with `RT_IPC_FLAG_PRIO`, in
front of the first one of lower priority. An action is a stretch with interrupts
disabled, as in `MessageQueue`, and any thread that is not suspended may step.
After a wait a thread returns from its call in a step of its own, because its
`error` is read then: between being resumed and returning, a reset, a timeout or
a release may come. `rt_sem_detach` and `rt_mutex_detach` are several actions.
The loop of `rt_ipc_list_resume_all` tests the list with interrupts enabled
(`ipc.c:213`, `DetachLooks`) and takes its first thread after it has disabled them
(`ipc.c:216`, `DetachResumes`), without another test. A timeout, a release or a reset
in between may have emptied the list: `DetachFindsNone`. Then `list->next` is the list
head itself, the object that contains it is taken for a thread, and the assertion of
`rt_thread_resume` (`thread.c:837`) fails; `rt_assert_handler` loops (`kservice.c:1375`)
with interrupts disabled, so nothing else happens in the model either ("halted").
After a test that finds the list empty, and before `rt_object_detach`, threads may
still begin to wait.

In `Mutex` threads take mutexes in increasing order, the discipline under which
they cannot wait for each other in a circle; `Lifo` says whether they release
them in reverse order. As in the code, a thread whose priority changes while it
waits keeps its place in the list, and inheritance goes no further than the owner.

### Timer and Alarms

`rt_tick` runs modulo `TICKS`. The tick interrupt is a series of actions:
`rt_tick_increase`, then for each due timer its removal into the temporary list,
the timeout function, which may start, stop, detach or reconfigure any timer, and
the restart of a periodic one. `rt_thread_timeout` is the timeout function of a
thread's timer. `Alarms` knows how many ticks were asked for each alarm (`init_tick`),
which are repeated, how many ticks each has left, and which one rings. Setting an alarm
gives it the ticks asked for it; every tick takes one from each; an alarm rings only
with 0 left, and the tick is not over while one has 0 left; a stopped one has none
left and cannot ring; one that is repeated is set again when its bell falls silent,
unless it was set or stopped while it rang. Early, late and missing expiries, a stop
that leaves the timer in the list, a start with a wrong number of ticks and a periodic
timer that is not restarted are all no steps of `Alarms`. The refinement mapping takes
`timeout_tick - rt_tick` modulo `TICKS` for the ticks left of a timer that is listed
and activated, and `expired` for the bell.
`MaxLate` bounds how late a thread calls `rt_thread_delay_until`: beyond half of the
counter's range no code could tell late from early.

### Scheduler

The record `s` is what `rt_schedule` works on; the kernel's functions are
operators on it, so that an action is a composition of calls as the code is. Only
`s.current` steps, so the interleavings are those one CPU has: interrupts between
critical sections, and switches where `rt_schedule` makes them. `rt_thread_resume`,
`rt_thread_suspend` and `rt_thread_delete` are two actions each, because they test
first and disable interrupts later. `WaitSelf` is what every waiting call of the
kernel does, with a timeout for the threads in `Timed`; `rt_ipc_list_resume` wakes it.

### Heap

Offsets in bytes as in `mem.c`, with `sizeof(struct heap_mem)` 12 and alignment 4.
An action is what happens between taking and releasing `heap_sem`. `used_mem` is
compared with the number of bytes in used blocks, headers included. `rt_realloc`
that has to move takes it three times and copies in between; `call` holds the
local variables that are then stale. The `prev` of the last header is left as the
code leaves it: not kept up to date.

### Console, ShellLine, LineEditor

Characters are numbers in the order sent. The receiver holds one; a character
that arrives while it is unread is lost, and one that arrives between the last
read and `USART_ClearITPendingBit` loses its interrupt. The shell reads the ring
until it is empty and then waits at `rx_sem`, which is an instance of `Semaphore`,
at its value limit too: a release at the limit fails and must not matter.

`ShellLine` has one action per character from `finsh_getchar`, escape sequences as
three of them. The last character of a full line makes both positions 0 and leaves
what was typed in the buffer (`Letter`). Two history variables serve the mapping:
`pressed`, the key handled last, and `discarded`, from such a line to the next Enter or
recalled command. `LineEditor` knows a text and a cursor, no buffer, no zero characters
and no arrays of rows, and has one action per key: Left moves left, Up shows the
command before the one shown last, and so on. With `TabAlways = FALSE` the one who types
does not use completion while `discarded`, where the code takes the characters left
behind for the line (section 6, number 12); every other series of keys is in the run.

## 3. Runs

| Run | Shows | Bounds | Distinct states |
|---|---|---|---|
| `drum_play` | with any of the four allocations failing and no SPI fault: `PatternFollowsPresses`, `DisplayLag`, `SequencerKeepsUp`, `QueueFailureStopsScan`, `KeptEventsFitTogether`; under fairness `LedsSettle` and `Heartbeat` | Width 2, queue of 2, 3 key movements | 377 k |
| `drum_faults` | with expired polls: `WholeFrame`, `LedFrameShifted`, `EventsAlternate` | Width 1, 2 faults, 2 movements | 1.6 M |
| `drum_function_keys` | the first divergence of section 6 | Width 1 | |
| `mq_queue` | `BlocksInOnePlace`, `EntryCounts`, `NoLostWakeup`, `WaitListsOrdered`; `MessageQueue` implements `EventQueue` (`KeepsPromise`) | 2 senders of different priority, 1 receiver, 2 messages, 2 blocks, resets | 1.4 M |
| `timer_ticks` | `TimerListSound`, `NoStaleTimeout`, `WakesOnPeriod`; `Timer` implements `Alarms` (`KeepsTime`); `SleepersWake` | a thread and an application timer, 8 ticks, delays 0 and 2, periods 1 and 2, 3 ticks late | 438 k |
| `sched_threads` | `ReadyTable`, `OnlyRunningCalls`, `RunsHighest`; under fairness `RoundRobin` | main, two equals and idle, 3 priorities, slices of 1, lock nesting 1, one thread that dies, one suspended by name, two that change priority | 281 k |
| `mutex_nested` | `Exclusive`, `PriorityRestored` | 3 threads, 2 mutexes, hold up to 2, both may be detached | 1.2 M |
| `sem_permits` | `PermitsConserved`, `NoLostWakeup`; under fairness `WaitersServed` | 3 threads, value up to 2, resets and detach | 6 k |
| `mb_ring` | `OffsetsAgree`, `NoLostWakeup`; `Mailbox` implements `EventQueue` (`KeepsPromise`) | 2 senders, 1 receiver, 2 mails, ring of 3 | 1.2 M |
| `heap_blocks` | `HeapSound`, `ObjectsHaveRoom`, `CopyStaysInside` | 2 threads with 2 objects each, 108 bytes, requests of 0, 5 and 40 | 1.4 M |
| `console_input` | `RingHoldsNewest`, `NoSleepOnInput`; under fairness `InputIsRead` | ring of 3, semaphore limit 2, 6 characters | 14 k |
| `shell_edit` | `LineIsText`; `ShellLine` implements `LineEditor` (`EditsText`) | lines of 4, history of 2, two letters, three commands, no completion after a discarded line | 1.0 M |

Why the bounds are enough to meet the interesting cases:

- `Width` is 8 on the board. Bits of a register are treated alike by the code,
  except by `type << j`; two bits show that a step lights its own bit and not its
  neighbour, and that two keys of one register may move between scans. With one
  bit there are still three registers and two steps, so order and layout of the
  registers show. Both runs start with the first bit of the uncleared memory set, the
  case in which something is lit that nobody pressed.
- `MaxFaults = 2` reaches a byte that arrives late, the overrun after it, two
  bytes on the wire and the TXE poll that then expires.
- `QueueLen` is 8 in `input.c`. Two messages are filled by three key movements when
  nobody empties the queue. `SequencerKeepsUp` is proved for all lengths.
- `MaxChanges` bounds key movements only, never scans or wake-ups: behaviours are
  infinite, and the checks cover any number of scans between two movements. Three
  movements press, release and press a key again, or press one while another one moves.
- Two blocks and two senders make the pool run dry, a wait list hold two threads of
  different priority, and a timeout or a reset fall between the two critical
  sections of another call. `max_msgs = RT_MQ_ENTRY_MAX` puts the counter at its
  limit. A ring of three words makes both offsets wrap around, in both directions.
- Eight ticks wrap around every few steps; a delay of 2 is the largest that the
  assertion of `rt_timer_start` (`init_tick < RT_TICK_MAX / 2`) then allows.
- Two equal threads, one above and the idle thread below make every branch of
  `rt_schedule` happen; three priorities are needed for a change of priority in
  either direction.
- Three threads of three priorities and two mutexes are the least in which an
  inherited priority can be lent on or given back wrongly.
- 108 bytes hold three blocks, or one large and two small ones: a free block can
  lie before, behind and on both sides of another. 5 is not aligned and below the
  minimum, 40 leaves rests of every kind, 0 is `rt_realloc` as `rt_free`.
- Six characters go round a ring of three twice, and the semaphore stands at its
  limit while the shell is busy.
- A line of four has a first, an inner and a last place and is discarded at the
  fourth letter; a history of two overflows at the third command.

Deadlock is checked, except in `mutex_nested` and `sem_permits`, where nothing may
be left to do after the object is detached or a detach has halted the system, and in
`console_input`, which ends
when the characters do.

Each property has a mutant of the modelled code that violates it, listed in
`PROJECT.json`: swapped priorities, a missing `memset`, an unshifted type, a block
freed before it is copied, a sender woken only by the first free block, a timer not
stopped by a resume, a time slice that does not end, an indication given before the
character is in the ring, and so on. The mutated definitions stand beside the
originals and are used by nothing else.

## 4. Fairness

`DrumMachine` (`drum_play`):

- Weak fairness of `Main`: it has the highest priority, so once ready it stays
  so and runs.
- Weak fairness of `mainWake`, `inputWake` and `spiClock`: the tick interrupt and
  the SPI clock do not stop.
- Strong fairness of `Input` and `Sequencer`: `main` preempts them again and
  again, so they are not continuously able to run, but it does so for
  microseconds every half second. The sequencer takes a bounded time per event
  and only the input task makes events, so the input task too gets on. A task
  below one that spins in a failed assertion is never able to run, and strong
  fairness does not claim that it does.
- Nothing is assumed of the player, nor that polls succeed.

`Timer` (`timer_ticks`): weak fairness of the tick and of each step of its
interrupt. The SysTick counter does not stop and the handler runs to its end;
`PeriodsAssumption` excludes the period 0, with which it would not.

`Scheduler` (`sched_threads`): weak fairness of the tick; strong fairness of the
second half of a call of the current thread (`GoesOn`), which only interrupts
delay, and of `rt_exit_critical`: a thread that locks the scheduler unlocks it.
Nothing is assumed of what threads call otherwise; a thread may run for ever, and
`RoundRobin` shows that the time slice ends its turn. Its exceptions are what the
code allows: threads of higher priority, and calls that put a thread at the end
of its list again and again.

`Semaphore` (`sem_permits`): weak fairness of `rt_sem_release`, the condition under
which waiting can end at all, and of the return of a resumed thread.
`WaitersServed` speaks of the FIFO flag; with priorities a low thread may starve.

`Console` (`console_input`): weak fairness of the interrupt and of the shell
thread, which is the only thread of the model.

`MessageQueue`, `Mailbox`, `Mutex`, `Heap` and `ShellLine` are checked for safety
and refinement only.

## 5. Proofs

The proofs hold for every value of the constants that meets the named
assumptions: `Width` and `QueueLen` positive, bounds natural numbers,
`max_msgs <= RT_MQ_ENTRY_MAX` and `size <= RT_MB_ENTRY_MAX` (in C both sides are 16
bits wide), an initial value within the semaphore's limit, finitely many threads,
`Priority` a function from threads to naturals, a ring of at least 2 characters, a
heap that is a multiple of 4 bytes and at least 12, lines and histories of at least
one. Theorems about `Mutex`, `Scheduler` and `ShellLine` have a hypothesis of their
own, named below.

### DrumMachine_proofs

The whole way from a key to its LED, in four inductive invariants, each resting
on the ones before.

1. `FramesStayWhole`, `SequencerAlwaysKeepsUp`, `QueueFailureAlwaysStopsScan`, from
   `IInv`. `WholeFrame` is about the end of a copy; the invariant has to say what
   holds in the middle of one and in the middle of a drawing:
   - `Drawing`: while the sequencer draws, the image shows the steps before
     `ledPos`; while it waits or toggles, the image is the finished picture.
   - `Copying`: the bytes copied so far are those of the finished picture.
   - `InputBetweenScans`: while the sequencer is ready, the input task has not
     begun to copy. This is where the priorities enter: the input task only steps
     when the sequencer waits, and only its own send, at the end of a scan, can make
     the sequencer ready.
   - `QueueShort`: the queue is empty or holds the event just sent.
   - `BootFirst`: neither task has run before `main` first sleeps.
2. `TypeCorrect` and `FramesShiftThrough`, from `TInv`, which adds the SPI transfer.
   `Transfer` ties the driver's program counter to the bytes received; `sent`
   can only fall behind the bytes due (a wait for TXE expired). `Shifting`: as long
   as it has not, the bytes of the transfer are on the wire or, in their order, at the
   end of the LED registers. Expired receive polls do not disturb that.
3. `PressesMakeThePattern` and `LedsLagTwoPulses`, from `PlayInv`, for behaviours
   up to the first expired poll. `Sampling`: each byte is answered before the next is
   sent, so what is read, waits in the data register or is still in the button
   registers is the sample, in order. `Outstanding` names the presses that have
   been sampled and not been toggled, wherever they are: unread, in the event, in
   the queue or with the sequencer. `Toggling` says that the steps are the pattern
   of the presses without the outstanding ones; `Lagging` that the picture being
   sent is one latch pulse old.
4. `KeptEventsAlwaysFit` and `EventsAlwaysAlternate`, from `EventInv`, polls
   expiring or not. `Alternating`: the events received (or kept by a queue without
   a reader) and the one on its way lead exactly to the keys `kbParseButtons`
   compares with next. The lemmas `OneMoreHeld` and `OneMoreFits` say what a queue
   does with one event more; the first event dropped ends the claim, and from then
   on the queue is full.

### WaitList_proofs

Lemmas: insertion at a place, removal and `Tail` of a list that holds each thread
at most once give such a list again, with the members one expects, and keep the
order of priorities; how the number of threads at a program counter changes when
one thread moves. `LeastNumber` (a set of naturals has a least member) takes the
place of an induction where one is needed. The modules below use them.

### MessageQueue_proofs

`TypeCorrect`, `BlocksStayInOnePlace`, `EntryAlwaysCounts` and
`WaitListsStayOrdered`, from one inductive invariant: types, `entry` is the
length of the queue, a thread has a block in hand exactly at the program counters
where the code has one (`HandsMatch`), `BlocksInOnePlace` and `WaitListsOrdered`.
None of them is inductive alone: without `HandsMatch` a `Link` could put block 0
in the queue, and without the blocks being in one place `entry` could pass the
size of the pool. That `entry < RT_MQ_ENTRY_MAX` when a block is linked is a
counting argument: the queued blocks are distinct, and the one in hand is not
among them, so there are fewer than `max_msgs`.

`WakeupsNeverLost`: with that invariant `NoLostWakeup` is inductive. A `Link` that
finds a receiver suspended adds one to the messages and one to the receivers about
to look; a resumed receiver that takes a message subtracts one from both; a
receiver is only suspended when there is no message. The same for senders and
blocks.

`QueueKeepsPromise`: every step is a step of `EventQueue` or a stutter. Besides the
invariant it needs `CopiesKept`: from the copy, made with interrupts enabled, to the
link the block in hand keeps the message, whatever other threads do.

### Mailbox_proofs

`OffsetsAlwaysAgree` and `MailboxKeepsPromise`, the refinement of `EventQueue`, for
any ring size and number of threads. The invariant adds to `OffsetsAgree` and the
types that each wait list holds exactly the threads that wait there
(`ReceiversWait`, `SendersWait`), without which a resumed thread might be anywhere in
its call, and that a thread has a mail in hand exactly while it sends
(`OffersHeld`), which the abstract `Offer` requires. The refinement proof shows for
each action which abstract step, or stutter, it is; its core are the lemmas that a
put at `in_offset` appends to the queued words, an urgent put before `out_offset`
prepends, and a get takes the first, modulo `size`. `WakeupsNeverLost` is the
counting argument of the queue, with places of the ring for blocks.

### Services_proofs

The semaphore and what threads reach through one. The module extends all four
components, and that is why in `Console`, `ShellLine` and `Heap` the names that every
specification has begin with the component's (`HeapInit`, `ShellSpec`), the
semaphore's state is `sem_value`, `sem_pc` and so on in `Console`, and the threads of
`Heap` are `Users`. The constants are those that the modules' assumptions allow.

*Semaphore*: `PermitsAlwaysConserved`, `WakeupsNeverLost` and `SemaphoreTypes`. The
invariant adds that a waiting thread's `error` is `RT_EOK` (`WaitsWithoutError`): it is
granted a permit by being resumed, and the count of granted threads is what keeps the
permits and the value together. The counting uses the library's facts on the
cardinality of finite sets.

*Console*: `RingAlwaysHoldsNewest` and `InputAlwaysWakes`, for a ring of any size and
any number of characters, from one invariant, `ConsoleInv`:

- `FullRing`: `is_full` is only seen with `put_index` one place behind `get_index`,
  because an overflow moves both. That is why the ring never has more than
  `bufsz - 1` characters, and why `_serial_int_rx` may take equal indices for empty.
- `Ring` and `ReadUpTo`: the ring is the end of `kept`, place by place modulo `bufsz`
  (`PutKeepsRing`, `ReadKeepsRing`), and what was overwritten is not newer than what
  the shell has read; `Ascending` keeps the order of the characters for that.
- `ShellWaits` and `Awake`: the shell waits only in `rt_sem_take`, and a character put
  in the ring after it looked leaves a permit or resumes it (`ReleaseWakes`), at the
  limit of `value` too: then there are permits already.

*ShellLine*: `LineStaysText` and `LineIsEdited`, the refinement of `LineEditor`, for any
letters, names, `FINSH_CMD_SIZE` and `FINSH_HISTORY_LINES`. The hypothesis `~TabAlways`
says that nothing is completed while what a discarded line left is in the buffer;
without it both are false (section 6, number 12). `LineInv` adds to `LineIsText` that
every row of the history up to `history_count` is a command, letters and then zeros to
its end, and that the last place of the buffer is a letter while `discarded`
(`DiscardedIsFull`): no row has one there, so that `memcmp` then finds no repetition
(`DiscardedDiffers`), which is what `LineEditor` says of Enter after a spoilt text.
Lemmas tell what the buffer holds after each key as a text (`InsertedText`,
`ErasedText`, `RecalledText`, `CompletedText`), so that each key is the step that
`LineEditor` has for that key; `SameIsSame` shows that `memcmp` over whole rows
otherwise finds exactly the repeated commands, and `PushAppends` that the shifted array
is the list without its oldest.

*Heap*: `HeapIsSound`, `EveryObjectHasRoom` and `CopiesStayInside`, for a heap of any
size, any threads and whatever they ask for. The invariant, `HeapInv`, has two halves.

- `HeapPart`: `Tiled` (each header's `next` is the next header, whose `prev` points
  back, the last header's `prev` excepted), `Apart` (no two free blocks touch),
  `Lowest` (`lfree` is the lowest free block), `UsedCounted`, and `Owned` (the used
  blocks are those that threads have, each large enough). While `plug_holes` works only
  the block just freed may touch a free one (`ApartBut`); `PlugForwardIs` and
  `PlugBackwardIs` show how its two halves restore `Apart`. `used_mem` is the
  cardinality of the set of bytes in used blocks, of which the proofs add and remove
  intervals.
- `CallPart`: between its critical sections, a `rt_realloc` that moves still owns its
  old block, of the size it noted, and then its new one. It holds because other
  threads' calls leave blocks that they do not have alone (`Others`).

### Mutex_proofs

`OwnerIsAlone`: the invariant adds to `Exclusive` that `hold` is 0 exactly when there
is no owner, that waiting threads have no error yet and that an open call is about a
mutex. Its core is the balance, for every thread and mutex, of the takes the thread
counts, a grant it has not seen yet, and `hold`.

`PriorityGivenBack` has the hypothesis `Lifo`: mutexes are released in the reverse
order of taking. Without it the property is false (section 6, number 7). `PInv` adds
that threads hold and ask for mutexes upwards, and that the first mutex a thread took
notes its own priority: with the reverse order, the first taken is the last released.

### Scheduler_proofs

`TableIsRight`, `CallersRun` and `HighestRuns`, on which `Running` of `DrumMachine`
rests. They have the hypothesis `Timed \cap Mortal = {}`: no thread that sleeps with a
timeout is deleted by another one. Without it the properties are false: a timeout
between the two critical sections of `rt_thread_delete` puts the victim back into the
ready table (section 6, number 6). On the board no thread deletes another.

The proof is in two layers. The first is about the operators `Insert`, `Remove`,
`Schedule`: `Lists` says that bits and lists hold exactly the ready threads, and the
lemmas say which thread is left out, or put in, and that `Schedule` ends with the
first thread of the lowest bit (`HighestReady`, `SwitchSound`, `ScheduleSound`). The
second is about the actions: `Books` ties the table to the threads that wait, have a
timer armed, are half deleted (`Victims`) or defunct; `CurrentRuns` says where a thread
can be that has the CPU and is suspended, namely before its `rt_schedule`.

### Timer_proofs

`ListStaysSound`, `TimeoutsAreFresh`, `PeriodsDoNotDrift` and `TimersKeepTime`, the
refinement of `Alarms`, for any set of threads and timers, any range `TICKS >= 8` of
the counter (2^32 on the board), delays below half of it, as `rt_timer_start` asserts,
and periods that are not 0. One inductive invariant, `Invariant`, carries all four:

- `Distance`: a listed timeout is -1 to `Half - 1` ticks ahead of `rt_tick`. It is
  the signed number that the unsigned differences of `timer.c` stand for; the lemmas
  `DueIsDue` and `LaterIsLater` say that within this window the comparison of
  `rt_timer_check` means "not ahead" and that of `rt_timer_start` "further ahead",
  `TickNearer` that a tick takes one from every distance, over the wrap too.
- `ListSound`: the list is sorted by distance and, where equal, by the calls of
  `rt_timer_start`; `StartKeepsList` shows it for a timer put where the search ends.
- `NothingMissed`: outside the interrupt no distance is negative. That
  `rt_timer_check` may stop at the first timer ahead is `DoneAllAhead`; that timeout
  functions start no timer that is due at once follows from the periods not being 0.
- `NoStaleTimeout` needs that listed timers are activated, or `rt_timer_stop` in
  `rt_thread_resume` would return early, and `ExpiredIsOut`.
- `OnTime`: the ticks that really passed since `*tick` are minus the distance of the
  thread's timer while it waits for `*tick`, and `cur_tick - *tick` while it runs.

The refinement then says for each action which step of `Alarms` it is: starting a timer
is a `Set` to its `init_tick` because the new distance is exactly that; `rt_tick_increase`
is `Advance` by `TickNearer`; a removal by `rt_timer_check` is a `Ring` because a due
timer (distance 0, or -1 when it was started with 0 ticks) has no ticks left; the end of
the check is `Quiet` by `DoneAllAhead`; and `ExpiredIsOut` tells that the timer whose
timeout function runs is listed again only if that function started it.

### Model-checked only

Liveness (`LedsSettle`, `Heartbeat`, `SleepersWake`, `RoundRobin`, `WaitersServed`,
`InputIsRead`) is outside the prover's reach. Every other property of the passing runs
is also a theorem.

## 6. Where code and documentation differ

1. `drum_function_keys` (a run of the project): `input.c:32` says "If there are any
   updates to the keyboard or encoder, then send event queue", but the loop of
   `kbParseButtons` (`keyboard.c:59`) ends at 2 of 3 registers: a movement of a
   function key sends nothing.

The following are statements of comments that the modules define and that TLC
refutes as well. They have no standing run; each is found by giving the named
definition to TLC as the only INVARIANT (PROPERTY for `SendWaitsWhenFull`), with
`SPECIFICATION Spec` (`HeapSpec`, `ShellSpec`) and the constants of the run named,
changed as noted.

2. `LengthIsActual` (`drum_faults`): `spi.h:238` says `rt_spi_transfer` returns "the
   actual length of transmitted"; after an expired TXE poll (`drv_spi.c:271`) a byte
   was not sent and the full length is returned. `kbTransferData` tests for 0, which
   cannot occur.
3. `ButtonLayout` (`drum_faults`, `MaxFaults = 1`): `keyboard.c:82` gives the
   registers of the three bytes. After an expired RXNE poll (`drv_spi.c:279`) the late
   byte is taken for the answer to the next one, and the shift lasts into later
   transfers in which nothing expires.
4. `SendWaitsWhenFull` (`mq_queue`): the comment of `rt_mq_send` (`ipc.c:2887`) says
   the thread waits when the queue is full; it passes timeout 0 and returns at once.
5. `ActivatedRuns` (`timer_ticks`, `Threads = {}`): `timer.c:504` calls an activated
   timer "start and run". A periodic timer whose timeout function makes it one-shot
   keeps `RT_TIMER_FLAG_ACTIVATED` and is in no list (`timer.c:581`).
6. `DeletedIsRemoved` (`sched_threads`, `Timed = Mortal = {a}`, `Handled = {}`):
   `thread.c:457` says a deleted thread "will be removed from thread queue". A timeout
   between the two critical sections of `rt_thread_delete` (`thread.c:485`) puts it
   into the ready table, where it stays after it is closed.
7. `PriorityRestored` (`mutex_nested`, `Lifo = FALSE`): `ipc.c:1119` says "change the
   owner thread to original priority". `rt_mutex_take` (`ipc.c:948`) notes the current,
   perhaps inherited, priority as the original one of a second mutex; released in the
   order of taking, the thread keeps an inherited priority after it holds none.
8. `OwnerBoosted` (`mutex_nested`): `ipc.c:740` says that mutexes are there for "the
   unbounded priority inversion problem". The release of an inner mutex takes away
   what the thread inherited through the outer one it still holds (`ipc.c:1120`).
9. `DetachedIsQuiet` (`mutex_nested`, `MayDetach = {1}`): `ipc.c:753` says a detach
   "will resume all suspended threads in the mutex list". A thread that begins to wait
   after the last look at the list (`ipc.c:776`) is not resumed.
10. `NullOnlyWhenFull` (`heap_blocks`, one thread with 3 objects, 72 bytes,
    `Sizes = {24, 36}`, no `rt_realloc`, no symmetry): `mem.c:270` says "NULL if no free memory
    was found". The search ends at `ptr < mem_size_aligned - size` (`mem.c:306`) and
    does not look at a last block that fits exactly.
11. `BlocksAreLargeEnough` (`heap_blocks`, one thread, 72 bytes, `Sizes = {5, 40}`, no symmetry):
    `mem.c:298` says "every data block must be at least MIN_SIZE_ALIGNED long";
    `rt_realloc` cuts a block down below that (`mem.c:471`). `HeapSound` holds all
    the same.
12. `HistoryDoesNotRepeat` (`shell_edit`) and `LineIsText` (`shell_edit`,
    `TabAlways = TRUE`): `shell.c:484` says "if current cmd is same as last cmd, don't
    push" and `shell.c:724` "it's a large line, discard it". A line that reached
    `FINSH_CMD_SIZE` leaves its characters behind (`shell.c:757`): the comparison of the
    whole buffer differs and the command is pushed again, and a completion takes what
    was discarded for the line, with `line_position = FINSH_CMD_SIZE`.
13. `ResumesThreads` (`sem_permits` with `Spec`, and `mutex_nested`): `ipc.c:313` says a
    detach "will resume all suspended threads in the semaphore list", and `thread.c:837`
    asserts that what is resumed is a thread. When a timeout or a release empties the
    list between the test of `rt_ipc_list_resume_all` (`ipc.c:213`) and its critical
    section (`ipc.c:216`), `error` is written beyond the semaphore or mutex, the
    assertion fails and the system stops.

Also visible in the models: `is_held` in an event is 0 for a register that did not
change, even if keys of it are held.

## 7. Not modelled

- `encoder.c`: `encUpdate` is a stub that returns 0 (part of `kbParseButtons`'
  action); `encInit` writes timer registers.
- `display.c` and the lower halves of `keyboard.c`, `sequencer.c` and `main.c`:
  commented out.
- Events: `main` creates an event object nobody uses. `rt_mq_delete`,
  `rt_mq_detach`, `rt_mb_delete`, `rt_mb_detach`: never called by the firmware, and built
  from the same `rt_ipc_list_resume_all` that `Semaphore` and `Mutex` model.
- `rt_thread_init` and `rt_thread_detach`, soft timers and skip lists of more than
  one level, hooks, object names: unused or switched off in `rtconfig.h`.
- Half-duplex SPI transfers, chip select, DMA and transmission of the UART, pin
  driver, chip library: register I/O.
- Echo, password, lookup and execution of shell commands.
- The greater part of the repository by size: file systems, four versions of lwIP,
  libc and POSIX layers, USB, other CPU ports. `rtconfig.h` does not enable them,
  they are not compiled into the firmware and share nothing with it; modelling
  them would verify other programs. The share of the whole tree's lines that the
  models cover is therefore very small, while of the code that runs on the board
  (applications, the kernel's scheduling, IPC, timers and heap, the SPI, UART and
  shell input paths) most of the control is modelled.
- Real time. That a scan fits in 10 ms and that polls do not expire on the real
  board are questions of speed.

## 8. Plan

Done: the modules of section 2 and the proofs of section 5. Next, in this order:

1. `MessageList`: the linked list of `ipc.c` with its head, tail and free pointers,
   refining the sequence and the set of `MessageQueue`.
2. `DrumMachine` with `EventQueue` in place of its own sequence.
