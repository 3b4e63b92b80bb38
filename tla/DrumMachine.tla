----------------------------- MODULE DrumMachine -----------------------------
(***************************************************************************)
(* The drum machine's firmware as its three threads run it: main (boot and  *)
(* heartbeat), the input task that scans the keyboard every 10 ms, and the  *)
(* sequencer task that toggles steps and draws them on the LEDs. The tasks  *)
(* meet in the message queue input_event_mq and in the array kb_led_data,   *)
(* which no lock protects: only the threads' priorities order the accesses. *)
(*                                                                         *)
(* Bit i*8+j of a 16-bit row, and step i*8+j of the page, is written        *)
(* <<i, j>>, with j < Width in place of j < 8.                              *)
(***************************************************************************)
EXTENDS SpiPort

CONSTANTS
    QueueLen,    \* messages input_event_mq holds, 8 in input.c
    MaxChanges,  \* bound: key movements in a behaviour
    MayFail      \* allocations that may fail: those of kbInit, the queue, the threads

ASSUME QueueLenAssumption == QueueLen \in Nat \ {0}
ASSUME ChangesAssumption == MaxChanges \in Nat
ASSUME MayFailAssumption == MayFail \subseteq {"kb", "mq", "input", "sequencer"}

VARIABLES
    main_pc,           \* "start", "started", "run", "sleep", "halt"
    led1,              \* the heartbeat LED on PA0
    mq_state,          \* input_event_mq: "none" (not created yet), "ok", "null"
    input_event_mq,    \* the queued events
    kb_led_data,       \* the LED image shared by the two tasks
    in_pc,             \* the input task
    led_data,          \* its copy of kb_led_data, as far as copied
    button_data, button_data_prev, input_events,
    seq_pc,            \* the sequencer task
    step,              \* type of each step, as the set of its bits
    seq_events,        \* the sequencer's input_events
    ledPos,            \* loop indices <<i, j>> of kbLEDDataSend
    keys,              \* keys held down, per button register
    changes,           \* key movements so far
    ledOut             \* the LEDs that are lit, per LED register

\* History: what the environment did and the tasks reported
VARIABLES
    sample,            \* keys at the last latch pulse
    want, want1, want2,\* steps pressed an odd number of times, at the last
                       \* latch pulse and at the two before
    latches,           \* latch pulses, up to 2
    down,              \* keys held according to the events received
    dropped            \* a send found the queue full

threadVars == <<main_pc, led1, mq_state, input_event_mq, kb_led_data, in_pc,
                led_data, button_data, button_data_prev, input_events,
                seq_pc, step, seq_events, ledPos, keys, changes, ledOut>>
historyVars == <<sample, want, want1, want2, latches, down, dropped>>
vars == <<spiVars, threadVars, historyVars>>

Regs  == 0 .. KB_CHAIN_LENGTH - 1
Row   == (0 .. 1) \X Bits
Image == [Regs -> Byte]
Dark  == [r \in Regs |-> {}]

(* enum StepType: empty, simple, complex are 0, 1, 2. *)
StepType == SUBSET {0, 1}
empty    == {}

ButtonData == [main_row : SUBSET Row, function : Byte]
InputEvents == [is_held : ButtonData, just_pressed : ButtonData, just_released : ButtonData]
NoButtons == [main_row |-> {}, function |-> {}]
NoEvents  == [is_held |-> NoButtons, just_pressed |-> NoButtons, just_released |-> NoButtons]

Xor(S, T) == (S \ T) \cup (T \ S)

(* Byte 0 holds keys 16 .. 9 and byte 1 keys 8 .. 1. *)
MainRow(bytes) == {p \in Row : p[2] \in bytes[1 - p[1]]}

(***************************************************************************)
(* Scheduling. A thread runs while no thread of higher priority (a smaller  *)
(* number) is ready; a failed RT_ASSERT ("halt") spins and stays ready.     *)
(***************************************************************************)
(* Mutants: the tasks' priorities swapped; main below them. *)
PrioritySwapped  == [main |-> 5, sequencer |-> 7, input |-> 6]
PriorityMainLast == [main |-> 8, sequencer |-> 6, input |-> 7]

Threads  == {"main", "sequencer", "input"}
Priority == [main |-> 5, sequencer |-> 6, input |-> 7]

Ready(t) ==
    CASE t = "main"      -> main_pc # "sleep"
      [] t = "input"     -> in_pc \notin {"absent", "sleep"}
      [] t = "sequencer" -> /\ seq_pc # "absent"
                            /\ ~(seq_pc = "recv" /\ mq_state = "ok" /\ input_event_mq = <<>>)

Running(t) ==
    /\ Ready(t)
    /\ \A u \in Threads : Priority[u] < Priority[t] => ~Ready(u)

TypeOK ==
    /\ SpiTypeOK
    /\ main_pc \in {"start", "started", "run", "sleep", "halt"}
    /\ led1 \in BOOLEAN
    /\ mq_state \in {"none", "ok", "null"}
    /\ input_event_mq \in Seq(InputEvents)
    /\ Len(input_event_mq) <= QueueLen
    /\ kb_led_data \in Image
    /\ in_pc \in {"absent", "get", "latch", "xfer", "parse", "send", "delay", "sleep", "halt"}
    /\ led_data \in Seq(Byte)
    /\ Len(led_data) <= KB_CHAIN_LENGTH
    /\ button_data \in Image
    /\ button_data_prev \in Image
    /\ input_events \in InputEvents
    /\ seq_pc \in {"absent", "start", "recv", "toggle", "clear", "draw", "halt"}
    /\ step \in [Row -> StepType]
    /\ seq_events \in InputEvents
    /\ ledPos \in Row
    /\ keys \in Image
    /\ changes \in 0 .. MaxChanges
    /\ ledOut \in Image
    /\ sample \in Image
    /\ {want, want1, want2, down} \subseteq SUBSET Row
    /\ latches \in 0 .. 2
    /\ dropped \in BOOLEAN

(* The stack slot of the sequence is not initialised before seqTaskEntry     *)
(* clears it, nor are the LED outputs before the first latch pulse.          *)
Init ==
    /\ SpiInit
    /\ main_pc = "start"
    /\ led1 = FALSE
    /\ mq_state = "none"
    /\ input_event_mq = <<>>
    /\ kb_led_data = Dark
    /\ in_pc = "absent"
    /\ led_data = <<>>
    /\ button_data = Dark
    /\ button_data_prev = Dark
    /\ input_events = NoEvents
    /\ seq_pc = "absent"
    /\ step \in [Row -> {byte \cap {0, 1} : byte \in PowerUp}]
    /\ seq_events = NoEvents
    /\ ledPos = <<0, 0>>
    /\ keys = Dark
    /\ changes = 0
    /\ ledOut = Dark
    /\ sample = Dark
    /\ want = {} /\ want1 = {} /\ want2 = {}
    /\ latches = 0
    /\ down = {}
    /\ dropped = FALSE

-----------------------------------------------------------------------------
(* main *)

(* The outcomes of a call that allocates memory. *)
Outcomes(call, good, bad) == {good} \cup (IF call \in MayFail THEN {bad} ELSE {})

(* kbInit: the SPI device must have been allocated and attached, or an       *)
(* assertion fails in main.                                                  *)
kbInit == Outcomes("kb", "started", "halt")

(* rt_mq_create: RT_NULL if there is no memory for the queue or its pool. *)
rt_mq_create == Outcomes("mq", "ok", "null")

(* rt_thread_create and rt_thread_startup: the thread is at its entry, or    *)
(* there was no memory for it or its stack.                                  *)
rt_thread_create(name, entry) == Outcomes(name, entry, "absent")

(* inputTaskInit, called by main. What rt_mq_create returned is not looked   *)
(* at; the thread is started if it could be created.                         *)
inputTaskInit ==
    /\ Running("main")
    /\ main_pc = "start"
    /\ main_pc' \in kbInit
    /\ \/ /\ main_pc' = "halt"
          /\ UNCHANGED <<mq_state, in_pc>>
       \/ /\ main_pc' # "halt"
          /\ mq_state' \in rt_mq_create
          /\ in_pc' \in rt_thread_create("input", "get")
    /\ UNCHANGED <<spiVars, historyVars, led1, input_event_mq, kb_led_data, led_data,
                   button_data, button_data_prev, input_events, seq_pc, step,
                   seq_events, ledPos, keys, changes, ledOut>>

(* sequencerTaskInit, then the GPIO set-up before the blink loop. *)
sequencerTaskInit ==
    /\ Running("main")
    /\ main_pc = "started"
    /\ main_pc' = "run"
    /\ led1' = FALSE
    /\ seq_pc' \in rt_thread_create("sequencer", "start")
    /\ UNCHANGED <<spiVars, historyVars, mq_state, input_event_mq, kb_led_data, in_pc,
                   led_data, button_data, button_data_prev, input_events, step,
                   seq_events, ledPos, keys, changes, ledOut>>

mainOnlyUnchanged == <<spiVars, historyVars, mq_state, input_event_mq, kb_led_data,
                       in_pc, led_data, button_data, button_data_prev, input_events,
                       seq_pc, step, seq_events, ledPos, keys, changes, ledOut>>

(* One half of the blink loop: the LED, then rt_thread_mdelay(500). *)
blink ==
    /\ Running("main")
    /\ main_pc = "run"
    /\ led1' = ~led1
    /\ main_pc' = "sleep"
    /\ UNCHANGED mainOnlyUnchanged

(* The tick interrupt wakes main. *)
mainWake ==
    /\ main_pc = "sleep"
    /\ main_pc' = "run"
    /\ UNCHANGED <<mainOnlyUnchanged, led1>>

-----------------------------------------------------------------------------
(* The input task *)

inputOnlyUnchanged == <<main_pc, led1, mq_state, kb_led_data, seq_pc, step,
                        seq_events, ledPos, keys, changes>>

(* kbLEDDataGet: the memcpy, one byte of the shared array at a time. *)
kbLEDDataGet ==
    /\ Running("input")
    /\ in_pc = "get"
    /\ led_data' = Append(led_data, kb_led_data[Len(led_data)])
    /\ in_pc' = IF Len(led_data) + 1 = KB_CHAIN_LENGTH THEN "latch" ELSE "get"
    /\ UNCHANGED <<spiVars, historyVars, inputOnlyUnchanged, input_event_mq,
                   button_data, button_data_prev, input_events, ledOut>>

(* kbTransferData up to the transfer: the latch pulse loads the buttons      *)
(* (a pressed key reads 0) and shows the image clocked out in the last pass, *)
(* then rt_spi_transfer starts. Assumption on time: what an expired poll left *)
(* on the wire, two bytes at most, is gone before the next pulse.             *)
kbLatch ==
    /\ Running("input")
    /\ in_pc = "latch"
    /\ wire = <<>>
    /\ ledOut' = [r \in Regs |-> ledChain[r + 1]]
    /\ btnChain' = [i \in 1 .. KB_CHAIN_LENGTH |-> Bits \ keys[i - 1]]
    /\ rt_spi_transfer([i \in 1 .. KB_CHAIN_LENGTH |-> led_data[i]])
    /\ in_pc' = "xfer"
    /\ sample' = keys
    /\ want' = Xor(want, MainRow(keys) \ MainRow(sample))
    /\ want1' = want
    /\ want2' = want1
    /\ latches' = IF latches < 2 THEN latches + 1 ELSE 2
    /\ UNCHANGED <<inputOnlyUnchanged, wire, dr, ledChain, faults, input_event_mq,
                   led_data, button_data, button_data_prev, input_events, down, dropped>>

(* The driver's polling loop, on the input task's time. *)
spiPoll ==
    /\ Running("input")
    /\ in_pc = "xfer"
    /\ SendByte \/ TxTimeout \/ ReceiveByte \/ RxTimeout
    /\ UNCHANGED <<threadVars, historyVars>>

(* kbTransferData after the transfer: the length is never 0, and the bytes   *)
(* are inverted whatever happened to them.                                   *)
kbInvert ==
    /\ Running("input")
    /\ in_pc = "xfer"
    /\ spi_pc = "done"
    /\ TransferredLength # 0
    /\ spi_pc' = "idle"
    /\ button_data' = [r \in Regs |-> Bits \ recv_buf[r + 1]]
    /\ in_pc' = "parse"
    /\ UNCHANGED <<send_buf, recv_buf, wire, dr, btnChain, ledChain, faults, sent, expired,
                   historyVars, inputOnlyUnchanged, input_event_mq, led_data,
                   button_data_prev, input_events, ledOut>>

(* The registers kbParseButtons finds changed: its loop stops at i < 2. *)
Changed == {r \in 0 .. 1 : button_data[r] # button_data_prev[r]}

(* A per-register value, for the changed registers only, as ButtonData. *)
Collect(value) ==
    LET masked == [r \in Regs |-> IF r \in Changed THEN value[r] ELSE {}]
    IN  [main_row |-> MainRow(masked), function |-> masked[2]]

(* Mutant: keys that are held count as pressed. *)
PressedWhileHeld == [r \in Regs |-> button_data[r]]

JustPressed  == [r \in Regs |-> button_data[r] \ button_data_prev[r]]
JustReleased == [r \in Regs |-> button_data_prev[r] \ button_data[r]]

(* Mutant: the data is not remembered for the next scan. *)
NotRemembered == button_data_prev

Remembered == [r \in Regs |-> IF r \in Changed THEN button_data[r] ELSE button_data_prev[r]]

(* kbParseButtons, then encUpdate, which is a stub that returns 0. *)
kbParseButtons ==
    /\ Running("input")
    /\ in_pc = "parse"
    /\ button_data_prev' = Remembered
    /\ IF Changed # {}
       THEN /\ input_events' =
                 [is_held |-> Collect(button_data),
                  just_pressed |-> Collect(JustPressed),
                  just_released |-> Collect(JustReleased)]
            /\ in_pc' = "send"
       ELSE /\ in_pc' = "delay"
            /\ UNCHANGED input_events
    /\ UNCHANGED <<spiVars, historyVars, inputOnlyUnchanged, input_event_mq, led_data,
                   button_data, ledOut>>

(* Mutant: a full queue makes room by losing its oldest message. *)
EnqueueDropOldest(event) ==
    IF Len(input_event_mq) < QueueLen THEN Append(input_event_mq, event)
                                      ELSE Append(Tail(input_event_mq), event)

(* rt_mq_send as its users see it (MessageQueue has the details): a full     *)
(* queue stays as it is and the call returns -RT_EFULL at once.              *)
Enqueue(event) ==
    IF Len(input_event_mq) < QueueLen THEN Append(input_event_mq, event)
                                      ELSE input_event_mq

(* inputQueueSend: rt_mq_send asserts that the queue exists; an event it     *)
(* does not take is gone.                                                    *)
inputQueueSend ==
    /\ Running("input")
    /\ in_pc = "send"
    /\ \/ /\ mq_state # "ok"
          /\ in_pc' = "halt"
          /\ UNCHANGED <<input_event_mq, dropped>>
       \/ /\ mq_state = "ok"
          /\ in_pc' = "delay"
          /\ input_event_mq' = Enqueue(input_events)
          /\ dropped' = (dropped \/ Len(input_event_mq) = QueueLen)
    /\ UNCHANGED <<spiVars, inputOnlyUnchanged, led_data, button_data, button_data_prev,
                   input_events, ledOut, sample, want, want1, want2, latches, down>>

(* rt_thread_delay_until sleeps to the end of the period, or returns at once *)
(* when the pass has used it up.                                             *)
inputDelay ==
    /\ Running("input")
    /\ in_pc = "delay"
    /\ in_pc' \in {"sleep", "get"}
    /\ led_data' = <<>>
    /\ UNCHANGED <<spiVars, historyVars, inputOnlyUnchanged, input_event_mq,
                   button_data, button_data_prev, input_events, ledOut>>

(* The tick interrupt wakes the input task. *)
inputWake ==
    /\ in_pc = "sleep"
    /\ in_pc' = "get"
    /\ UNCHANGED <<spiVars, historyVars, inputOnlyUnchanged, input_event_mq, led_data,
                   button_data, button_data_prev, input_events, ledOut>>

-----------------------------------------------------------------------------
(* The sequencer task *)

seqOnlyUnchanged == <<spiVars, main_pc, led1, mq_state, in_pc, led_data, button_data,
                      button_data_prev, input_events, keys, changes, ledOut,
                      sample, want, want1, want2, latches, dropped>>

(* seqTaskEntry clears the sequence. *)
seqTaskEntry ==
    /\ Running("sequencer")
    /\ seq_pc = "start"
    /\ step' = [p \in Row |-> empty]
    /\ seq_pc' = "recv"
    /\ UNCHANGED <<seqOnlyUnchanged, input_event_mq, kb_led_data, seq_events, ledPos, down>>

(* seqInputQueueGet: rt_mq_recv asserts that the queue exists and waits      *)
(* forever while it is empty (then the task is not Ready).                   *)
seqInputQueueGet ==
    /\ Running("sequencer")
    /\ seq_pc = "recv"
    /\ \/ /\ mq_state # "ok"
          /\ seq_pc' = "halt"
          /\ UNCHANGED <<input_event_mq, seq_events, down>>
       \/ /\ mq_state = "ok"
          /\ seq_events' = Head(input_event_mq)
          /\ input_event_mq' = Tail(input_event_mq)
          /\ down' = (down \cup Head(input_event_mq).just_pressed.main_row)
                       \ Head(input_event_mq).just_released.main_row
          /\ seq_pc' = "toggle"
    /\ UNCHANGED <<seqOnlyUnchanged, kb_led_data, step, ledPos>>

(* seqStepToggle: type ^= 1 for the steps whose key was just pressed. *)
seqStepToggle ==
    /\ Running("sequencer")
    /\ seq_pc = "toggle"
    /\ step' = [p \in Row |-> IF p \in seq_events.just_pressed.main_row
                              THEN Xor(step[p], {0})
                              ELSE step[p]]
    /\ seq_pc' = "clear"
    /\ UNCHANGED <<seqOnlyUnchanged, input_event_mq, kb_led_data, seq_events, ledPos, down>>

(* Mutant: the memset is missing. *)
kbLEDDataKeep ==
    /\ Running("sequencer")
    /\ seq_pc = "clear"
    /\ ledPos' = <<0, 0>>
    /\ seq_pc' = "draw"
    /\ UNCHANGED <<seqOnlyUnchanged, input_event_mq, kb_led_data, step, seq_events, down>>

(* kbLEDDataSend: the memset of the shared array ... *)
kbLEDDataClear ==
    /\ Running("sequencer")
    /\ seq_pc = "clear"
    /\ kb_led_data' = Dark
    /\ ledPos' = <<0, 0>>
    /\ seq_pc' = "draw"
    /\ UNCHANGED <<seqOnlyUnchanged, input_event_mq, step, seq_events, down>>

(* Mutant: the type is not shifted to its step's bit. *)
Unshifted(type, j) == {b \in Bits : b \in type}

(* type << j, cut to a byte. *)
ShiftLeft(type, j) == {b \in Bits : b - j \in type}

(* ... and one turn of its inner loop. *)
kbLEDDataSend ==
    /\ Running("sequencer")
    /\ seq_pc = "draw"
    /\ LET i == ledPos[1]
           j == ledPos[2]
       IN  /\ kb_led_data' = [kb_led_data EXCEPT ![i + 1] = @ \cup ShiftLeft(step[ledPos], j)]
           /\ IF j + 1 < Width
              THEN ledPos' = <<i, j + 1>> /\ UNCHANGED seq_pc
              ELSE IF i = 0
              THEN ledPos' = <<1, 0>> /\ UNCHANGED seq_pc
              ELSE seq_pc' = "recv" /\ UNCHANGED ledPos
    /\ UNCHANGED <<seqOnlyUnchanged, input_event_mq, step, seq_events, down>>

-----------------------------------------------------------------------------
(* rt_assert_handler: the thread whose assertion failed spins, ready for ever. *)
rt_assert_handler ==
    /\ \/ Running("main") /\ main_pc = "halt"
       \/ Running("sequencer") /\ seq_pc = "halt"
       \/ Running("input") /\ in_pc = "halt"
    /\ UNCHANGED vars

(* The player presses or releases a key. *)
moveKey ==
    /\ changes < MaxChanges
    /\ changes' = changes + 1
    /\ \E r \in Regs, b \in Bits : keys' = [keys EXCEPT ![r] = Xor(@, {b})]
    /\ UNCHANGED <<spiVars, historyVars, main_pc, led1, mq_state, input_event_mq,
                   kb_led_data, in_pc, led_data, button_data, button_data_prev,
                   input_events, seq_pc, step, seq_events, ledPos, ledOut>>

(* The SPI peripheral finishes a byte. *)
spiClock == ClockByte /\ UNCHANGED <<threadVars, historyVars>>

Main == inputTaskInit \/ sequencerTaskInit \/ blink

Input == \/ kbLEDDataGet \/ kbLatch \/ spiPoll \/ kbInvert
         \/ kbParseButtons \/ inputQueueSend \/ inputDelay

Sequencer == \/ seqTaskEntry \/ seqInputQueueGet \/ seqStepToggle
             \/ kbLEDDataClear \/ kbLEDDataSend

Next ==
    \/ inputTaskInit \/ sequencerTaskInit \/ blink \/ mainWake
    \/ kbLEDDataGet \/ kbLatch \/ spiPoll \/ kbInvert
    \/ kbParseButtons \/ inputQueueSend \/ inputDelay \/ inputWake
    \/ seqTaskEntry \/ seqInputQueueGet \/ seqStepToggle \/ kbLEDDataClear \/ kbLEDDataSend
    \/ rt_assert_handler \/ moveKey \/ spiClock

Spec == Init /\ [][Next]_vars

(* The tick interrupt and the peripheral never stop. Main runs for           *)
(* microseconds every 500 ms, so a lower-priority task that is able to go on *)
(* again and again does go on: strong fairness for the two tasks.            *)
FairSpec ==
    /\ Spec
    /\ WF_vars(Main) /\ WF_vars(mainWake)
    /\ SF_vars(Input) /\ WF_vars(inputWake)
    /\ SF_vars(Sequencer)
    /\ WF_vars(spiClock)

-----------------------------------------------------------------------------
(* Properties *)

(* The sequencer has dealt with every event sent so far. *)
SequencerWaits == seq_pc = "recv" /\ mq_state = "ok" /\ input_event_mq = <<>>

Lit == {p \in Row : step[p] # empty}

(* The LED bytes that show a set of steps: keyboard.c and sequencer.c put    *)
(* steps 1 .. 8 in byte 1 and 9 .. 16 in byte 2.                             *)
LedImage(S) == [r \in Regs |-> IF r = 0 THEN {} ELSE {j \in Bits : <<r - 1, j>> \in S}]

(* As long as no SPI poll expired: once the sequencer has dealt with a scan, *)
(* a step is simple when its key went down an odd number of times between    *)
(* the samples and empty otherwise, however presses and releases of several  *)
(* keys fall between scans (kbParseButtons, rt_mq_send, seqStepToggle).      *)
PatternFollowsPresses ==
    faults = 0 /\ SequencerWaits /\ in_pc \in {"get", "latch", "delay", "sleep"}
        => step = [p \in Row |-> IF p \in want THEN {0} ELSE empty]

(* The LEDs show, after each latch pulse, exactly the pattern of the samples *)
(* up to the one two pulses earlier: one scan to toggle and copy, one to     *)
(* shift out (kbLEDDataSend, kbLEDDataGet, kbTransferData).                  *)
DisplayLag ==
    faults = 0 /\ mq_state = "ok" /\ seq_pc # "absent" /\ latches = 2
        => ledOut = LedImage(want2)

(* The image the input task copied byte by byte from kb_led_data is the      *)
(* finished picture of the current steps, never one that the sequencer was   *)
(* in the middle of drawing (no lock: the priorities alone prevent it).      *)
WholeFrame ==
    seq_pc # "absent" /\ in_pc \in {"latch", "xfer", "parse", "send"}
        => [r \in Regs |-> led_data[r + 1]] = LedImage(Lit)

(* The sequencer never sees a key pressed twice without a release between,   *)
(* nor released when it was not down, even if SPI polls expire.              *)
EventsAlternate ==
    [][seq_pc = "recv" /\ seq_pc' = "toggle"
        => /\ seq_events'.just_pressed.main_row \cap down = {}
           /\ seq_events'.just_released.main_row \subseteq down]_vars

(* While the sequencer exists the queue never holds more than one event and  *)
(* rt_mq_send never fails, whatever QueueLen is.                             *)
SequencerKeepsUp ==
    seq_pc # "absent" => Len(input_event_mq) <= 1 /\ ~dropped

(* Whichever polls expired, if all bytes of a transfer were sent, then when  *)
(* the wire is quiet the LED registers hold exactly the bytes of that        *)
(* transfer (SPIx_ReadWriteByte).                                            *)
LedFrameShifted ==
    latches > 0 /\ wire = <<>> /\ sent = KB_CHAIN_LENGTH => ledChain = send_buf

(* When the queue could not be created, the sequencer's assertion stops the  *)
(* lower-priority input task before its first scan: the keyboard is never    *)
(* read and the LEDs never written (input.c does not check rt_mq_create).    *)
QueueFailureStopsScan ==
    mq_state = "null" /\ seq_pc # "absent" => latches = 0 /\ led_data = <<>>

(* With nobody to receive, rt_mq_send keeps the oldest events and drops the  *)
(* newest, so those kept still fit together: between two presses of a key    *)
(* there is its release, and a release comes after a press.                  *)
KeptEventsFitTogether ==
    LET Pressed(k)  == input_event_mq[k].just_pressed.main_row
        Released(k) == input_event_mq[k].just_released.main_row
    IN  seq_pc = "absent" =>
          \A k \in 1 .. Len(input_event_mq) :
              /\ \A l \in 1 .. k - 1 : \A p \in Pressed(k) \cap Pressed(l) :
                     \E m \in l + 1 .. k - 1 : p \in Released(m)
              /\ \A p \in Released(k) : \E l \in 1 .. k - 1 :
                     /\ p \in Pressed(l)
                     /\ \A m \in l + 1 .. k - 1 : p \notin Released(m)

(* An allocation failed at boot and left the board without one of its parts. *)
BootFailed ==
    \/ main_pc = "halt" \/ mq_state = "null"
    \/ main_pc # "start" /\ in_pc = "absent"
    \/ main_pc \notin {"start", "started"} /\ seq_pc = "absent"

(* When the player stops, the LEDs come to show the pattern the presses      *)
(* describe, and keep showing it, unless the board did not boot completely.  *)
LedsSettle == <>BootFailed \/ <>[](ledOut = LedImage(want))

(* The heartbeat goes on whatever the two tasks do, assertion loops included; *)
(* it only never starts if the board stops in kbInit.                         *)
Heartbeat == <>(main_pc = "halt") \/ ([]<>led1 /\ []<>~led1)

(* input.c, above the test in inputTaskEntry: "If there are any updates to   *)
(* the keyboard or encoder, then send event queue".                          *)
UpdatesAreSent ==
    [][in_pc = "parse" /\ in_pc' # "parse" /\ button_data # button_data_prev
        => in_pc' = "send"]_vars

(* drivers/spi.h on rt_spi_transfer: "@return the actual length of           *)
(* transmitted".                                                             *)
LengthIsActual == spi_pc = "done" => sent = TransferredLength

(* keyboard.c in kbParseButtons: "[0] == 16 15 14 13 12 11 10 9, [1] == 8 7  *)
(* 6 5 4 3 2 1, [2] == function buttons R to L", here asked only of a        *)
(* transfer in which no poll expired.                                        *)
ButtonLayout == in_pc = "parse" /\ ~expired => button_data = sample
==============================================================================
