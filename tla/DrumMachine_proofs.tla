-------------------------- MODULE DrumMachine_proofs --------------------------
(***************************************************************************)
(* Proofs about DrumMachine for every register width, queue length, number  *)
(* of key movements and expired polls, and every set of allocations that    *)
(* may fail: the priorities alone keep the LED image whole and the queue    *)
(* short.                                                                   *)
(***************************************************************************)
EXTENDS DrumMachine, TLAPS

(* The parts of the inductive invariant. *)

CoreTypes ==
    /\ kb_led_data \in Image
    /\ led_data \in Seq(Byte)
    /\ step \in [Row -> StepType]
    /\ ledPos \in Row
    /\ in_pc \in {"absent", "get", "latch", "xfer", "parse", "send", "delay", "sleep", "halt"}
    /\ seq_pc \in {"absent", "start", "recv", "toggle", "clear", "draw", "halt"}
    /\ main_pc \in {"start", "started", "run", "sleep", "halt"}

(* While main boots, neither task has run. *)
BootFirst ==
    main_pc \in {"start", "started"} =>
        /\ input_event_mq = <<>>
        /\ ~dropped
        /\ led_data = <<>>
        /\ kb_led_data = Dark
        /\ latches = 0
        /\ in_pc \in {"absent", "get"}
        /\ seq_pc = "absent"

(* The queue holds at most the event the input task sent last. *)
QueueShort ==
    seq_pc # "absent" =>
        /\ input_event_mq = <<>> \/ input_event_mq = <<input_events>>
        /\ ~dropped

(* While the sequencer is ready, the input task is between two scans. *)
InputBetweenScans ==
    seq_pc # "absent" /\ Ready("sequencer") =>
        \/ in_pc \in {"absent", "delay", "sleep"}
        \/ in_pc = "get" /\ led_data = <<>>

Before(p, q) == p[1] < q[1] \/ (p[1] = q[1] /\ p[2] < q[2])

(* How far kbLEDDataSend has drawn the steps. *)
Drawing ==
    /\ seq_pc \notin {"absent", "start"} => \A p \in Row : step[p] \in {empty, {0}}
    /\ seq_pc = "start" => kb_led_data = Dark
    /\ seq_pc \in {"recv", "toggle"} => kb_led_data = LedImage(Lit)
    /\ seq_pc = "draw" => kb_led_data = LedImage({p \in Lit : Before(p, ledPos)})

(* How far kbLEDDataGet has copied the picture. *)
Copying ==
    /\ Len(led_data) <= KB_CHAIN_LENGTH
    /\ in_pc = "get" => Len(led_data) < KB_CHAIN_LENGTH
    /\ in_pc = "sleep" => led_data = <<>>
    /\ in_pc \in {"latch", "xfer", "parse", "send"} => Len(led_data) = KB_CHAIN_LENGTH
    /\ seq_pc # "absent" /\ in_pc \in {"get", "latch", "xfer", "parse", "send"} =>
           \A k \in 1 .. Len(led_data) : led_data[k] = LedImage(Lit)[k - 1]

IInv ==
    /\ CoreTypes
    /\ BootFirst
    /\ QueueShort
    /\ InputBetweenScans
    /\ Drawing
    /\ Copying
    /\ QueueFailureStopsScan

(* What the invariant is about. *)
core == <<mq_state, input_event_mq, kb_led_data, in_pc, led_data, input_events,
          seq_pc, step, ledPos, latches, dropped>>

(* A step that leaves all this alone, with main past its boot. *)
LEMMA QuietStep ==
    ASSUME IInv, UNCHANGED core,
           \/ UNCHANGED main_pc
           \/ main_pc \notin {"start", "started"} /\ main_pc' \in {"run", "sleep"}
    PROVE  IInv'
<1> USE DEF IInv, core
<1>1. CoreTypes'
  BY DEF CoreTypes
<1>2. BootFirst'
  BY DEF BootFirst
<1>3. QueueShort' /\ InputBetweenScans'
  BY DEF QueueShort, InputBetweenScans, Ready
<1>4. Drawing' /\ Copying'
  <2>1. Lit' = Lit
    BY DEF Lit
  <2> QED BY <2>1 DEF Drawing, Copying
<1>5. QueueFailureStopsScan'
  BY DEF QueueFailureStopsScan
<1> QED BY <1>1, <1>2, <1>3, <1>4, <1>5

(* The invariant holds when the board comes up. *)
LEMMA InitIInv == Init => IInv
<1> SUFFICES ASSUME Init PROVE IInv
  OBVIOUS
<1> USE DEF Init
<1>1. WidthAssumption /\ 0 \in Bits
  BY WidthAssumption DEF WidthAssumption, Bits
<1>2. step \in [Row -> StepType]
  <2>1. {byte \cap {0, 1} : byte \in PowerUp} \subseteq StepType
    BY DEF StepType
  <2> QED BY <2>1
<1>3. CoreTypes
  BY <1>1, <1>2 DEF CoreTypes, Image, Dark, Regs, Byte, Row, KB_CHAIN_LENGTH
<1>4. BootFirst /\ QueueShort /\ InputBetweenScans /\ QueueFailureStopsScan
  BY DEF BootFirst, QueueShort, InputBetweenScans, QueueFailureStopsScan
<1>5. Drawing /\ Copying
  <2>1. Len(led_data) <= KB_CHAIN_LENGTH
    BY DEF KB_CHAIN_LENGTH
  <2> QED BY <2>1 DEF Drawing, Copying
<1> QED BY <1>3, <1>4, <1>5 DEF IInv

(* The input task runs only while the sequencer waits or does not exist, and *)
(* main sleeps.                                                              *)
LEMMA InputRuns ==
    ASSUME Running("input"), IInv
    PROVE  /\ main_pc = "sleep"
           /\ \/ seq_pc = "absent"
              \/ seq_pc = "recv" /\ mq_state = "ok" /\ input_event_mq = <<>>
           /\ seq_pc # "absent" => kb_led_data = LedImage(Lit) /\ mq_state = "ok"
BY DEF Running, Ready, Threads, Priority, IInv, Drawing

(* The sequencer runs only while main sleeps and it exists itself. *)
LEMMA SequencerRuns ==
    ASSUME Running("sequencer"), IInv
    PROVE  /\ main_pc = "sleep"
           /\ seq_pc # "absent"
           /\ \/ in_pc \in {"absent", "delay", "sleep"}
              \/ in_pc = "get" /\ led_data = <<>>
BY DEF Running, Ready, Threads, Priority, IInv, InputBetweenScans

(* What every step of the input task keeps. *)
LEMMA InputStep ==
    ASSUME IInv, Running("input"),
           UNCHANGED <<main_pc, mq_state, kb_led_data, seq_pc, step, ledPos>>
    PROVE  /\ BootFirst' /\ Drawing' /\ QueueFailureStopsScan'
           /\ Lit' = Lit
<1>1. main_pc = "sleep" /\ (seq_pc # "absent" => mq_state = "ok")
  BY InputRuns
<1>2. Lit' = Lit
  BY DEF Lit
<1>3. Drawing'
  BY <1>2 DEF IInv, Drawing
<1> QED BY <1>1, <1>2, <1>3 DEF BootFirst, QueueFailureStopsScan

(* ... and what it keeps if it does not send. *)
LEMMA InputSilent ==
    ASSUME IInv, Running("input"),
           UNCHANGED <<mq_state, seq_pc, input_event_mq, dropped>>
    PROVE  QueueShort' /\ InputBetweenScans'
BY InputRuns DEF IInv, QueueShort, InputBetweenScans, Ready

(* kbLEDDataGet copies one more byte of a finished picture. *)
LEMMA GetStep == ASSUME IInv, kbLEDDataGet PROVE IInv'
<1>1. /\ Running("input") /\ in_pc = "get"
      /\ UNCHANGED <<main_pc, mq_state, kb_led_data, seq_pc, step, ledPos,
                     input_event_mq, dropped>>
      /\ led_data' = Append(led_data, kb_led_data[Len(led_data)])
      /\ in_pc' = IF Len(led_data) + 1 = KB_CHAIN_LENGTH THEN "latch" ELSE "get"
  BY DEF kbLEDDataGet, inputOnlyUnchanged, historyVars
<1>2. /\ BootFirst' /\ Drawing' /\ QueueFailureStopsScan' /\ Lit' = Lit
      /\ QueueShort' /\ InputBetweenScans'
  BY <1>1, InputStep, InputSilent
<1>3. /\ led_data \in Seq(Byte)
      /\ Len(led_data) \in Regs
      /\ kb_led_data[Len(led_data)] \in Byte
  <2>1. led_data \in Seq(Byte) /\ kb_led_data \in Image /\ Len(led_data) < KB_CHAIN_LENGTH
    BY <1>1 DEF IInv, CoreTypes, Copying
  <2>2. Len(led_data) \in Nat
    BY <2>1
  <2>3. ASSUME NEW n \in Nat, n < KB_CHAIN_LENGTH PROVE n \in Regs
    BY <2>3 DEF Regs, KB_CHAIN_LENGTH
  <2>4. Len(led_data) \in Regs
    BY <2>1, <2>2, <2>3
  <2> QED BY <2>1, <2>4 DEF Image
<1>4. /\ led_data' \in Seq(Byte)
      /\ Len(led_data') = Len(led_data) + 1
      /\ \A k \in 1 .. Len(led_data) : led_data'[k] = led_data[k]
      /\ led_data'[Len(led_data) + 1] = kb_led_data[Len(led_data)]
  BY <1>1, <1>3
<1>5. CoreTypes'
  BY <1>1, <1>4 DEF IInv, CoreTypes
<1>6. Copying'
  <2>1. in_pc' = "get" => Len(led_data') < KB_CHAIN_LENGTH
    BY <1>1, <1>3, <1>4 DEF Regs, KB_CHAIN_LENGTH
  <2>2. in_pc' = "latch" => Len(led_data') = KB_CHAIN_LENGTH
    BY <1>1, <1>4
  <2>3. ASSUME seq_pc # "absent", NEW k \in 1 .. Len(led_data')
        PROVE  led_data'[k] = LedImage(Lit)[k - 1]
    <3>1. kb_led_data = LedImage(Lit)
      BY <1>1, <2>3, InputRuns
    <3>2. CASE k = Len(led_data) + 1
      <4>1. k - 1 = Len(led_data)
        BY <3>2, <1>3
      <4> QED BY <3>1, <3>2, <4>1, <1>4
    <3>3. CASE k \in 1 .. Len(led_data)
      BY <1>1, <2>3, <3>3, <1>4 DEF IInv, Copying
    <3> QED BY <1>3, <1>4, <3>2, <3>3
  <2>4. Len(led_data') <= KB_CHAIN_LENGTH
    <3>1. \A n \in Regs : n + 1 <= 3
      BY DEF Regs, KB_CHAIN_LENGTH
    <3> QED BY <1>3, <1>4, <3>1 DEF KB_CHAIN_LENGTH
  <2> QED BY <1>1, <1>2, <2>1, <2>2, <2>3, <2>4 DEF Copying
<1> QED BY <1>2, <1>5, <1>6 DEF IInv

(* The steps of a scan between the copy and the send. *)
LEMMA ScanSteps == ASSUME IInv, kbLatch \/ kbInvert \/ kbParseButtons PROVE IInv'
<1>1. /\ Running("input")
      /\ in_pc \in {"latch", "xfer", "parse"}
      /\ in_pc' \in {"xfer", "parse", "send", "delay"}
      /\ UNCHANGED <<main_pc, mq_state, kb_led_data, seq_pc, step, ledPos,
                     input_event_mq, dropped, led_data>>
  BY DEF kbLatch, kbInvert, kbParseButtons, inputOnlyUnchanged, historyVars
<1>2. /\ BootFirst' /\ Drawing' /\ QueueFailureStopsScan' /\ Lit' = Lit
      /\ QueueShort' /\ InputBetweenScans'
  BY <1>1, InputStep, InputSilent
<1>3. CoreTypes'
  BY <1>1 DEF IInv, CoreTypes
<1>4. Copying'
  BY <1>1, <1>2 DEF IInv, Copying
<1> QED BY <1>2, <1>3, <1>4 DEF IInv

(* inputQueueSend finds the queue empty, so its event fits. *)
LEMMA SendFits ==
    ASSUME IInv, inputQueueSend, seq_pc # "absent"
    PROVE  /\ input_event_mq' = <<input_events>>
           /\ ~dropped'
           /\ in_pc' = "delay"
<1>1. mq_state = "ok" /\ input_event_mq = <<>> /\ ~dropped
  BY InputRuns DEF IInv, QueueShort, inputQueueSend
<1>2. Len(input_event_mq) < QueueLen /\ Len(input_event_mq) # QueueLen
  BY <1>1, QueueLenAssumption
<1>3. /\ input_event_mq' = Append(input_event_mq, input_events)
      /\ dropped' = (dropped \/ Len(input_event_mq) = QueueLen)
      /\ in_pc' = "delay"
  BY <1>1, <1>2 DEF inputQueueSend, Enqueue
<1>4. Append(<<>>, input_events) = <<input_events>>
  OBVIOUS
<1>5. ~dropped'
  BY <1>1, <1>2, <1>3
<1> QED BY <1>1, <1>3, <1>4, <1>5

LEMMA SendStep == ASSUME IInv, inputQueueSend PROVE IInv'
<1>1. /\ Running("input")
      /\ in_pc = "send"
      /\ in_pc' \in {"halt", "delay"}
      /\ UNCHANGED <<main_pc, mq_state, kb_led_data, seq_pc, step, ledPos, led_data,
                     input_events>>
  BY DEF inputQueueSend, inputOnlyUnchanged
<1>2. BootFirst' /\ Drawing' /\ QueueFailureStopsScan' /\ Lit' = Lit
  BY <1>1, InputStep
<1>3. seq_pc # "absent" => /\ input_event_mq' = <<input_events>>
                           /\ ~dropped'
                           /\ in_pc' = "delay"
  BY SendFits
<1>4. QueueShort' /\ InputBetweenScans'
  BY <1>1, <1>3 DEF QueueShort, InputBetweenScans
<1>5. CoreTypes' /\ Copying'
  BY <1>1 DEF IInv, CoreTypes, Copying
<1> QED BY <1>2, <1>4, <1>5 DEF IInv

(* rt_thread_delay_until ends a scan and forgets the copied picture. *)
LEMMA DelayStep == ASSUME IInv, inputDelay PROVE IInv'
<1>1. /\ Running("input")
      /\ in_pc' \in {"sleep", "get"}
      /\ led_data' = <<>>
      /\ UNCHANGED <<main_pc, mq_state, kb_led_data, seq_pc, step, ledPos,
                     input_event_mq, dropped>>
  BY DEF inputDelay, inputOnlyUnchanged, historyVars
<1>2. /\ BootFirst' /\ Drawing' /\ QueueFailureStopsScan' /\ Lit' = Lit
      /\ QueueShort' /\ InputBetweenScans'
  BY <1>1, InputStep, InputSilent
<1>3. CoreTypes'
  BY <1>1 DEF IInv, CoreTypes
<1>4. Copying'
  BY <1>1 DEF Copying, KB_CHAIN_LENGTH
<1> QED BY <1>2, <1>3, <1>4 DEF IInv

(* The tick interrupt may wake the input task at any time. *)
LEMMA WakeStep == ASSUME IInv, inputWake PROVE IInv'
<1>1. /\ in_pc = "sleep" /\ in_pc' = "get"
      /\ UNCHANGED <<main_pc, mq_state, kb_led_data, seq_pc, step, ledPos,
                     input_event_mq, dropped, led_data, latches, input_events>>
  BY DEF inputWake, inputOnlyUnchanged, historyVars
<1>2. led_data = <<>>
  BY <1>1 DEF IInv, Copying
<1>3. Lit' = Lit
  BY <1>1 DEF Lit
<1>4. CoreTypes' /\ BootFirst'
  BY <1>1 DEF IInv, CoreTypes, BootFirst
<1>5. QueueShort' /\ InputBetweenScans' /\ QueueFailureStopsScan'
  BY <1>1, <1>2 DEF IInv, QueueShort, InputBetweenScans, QueueFailureStopsScan
<1>6. Drawing'
  BY <1>1, <1>3 DEF IInv, Drawing
<1>7. Copying'
  BY <1>1, <1>2, <1>3 DEF Copying, KB_CHAIN_LENGTH
<1> QED BY <1>4, <1>5, <1>6, <1>7 DEF IInv

(* What every step of the sequencer keeps. *)
LEMMA SequencerStep ==
    ASSUME IInv, Running("sequencer"), seq_pc' # "absent",
           UNCHANGED <<main_pc, mq_state, in_pc, led_data, input_events, latches, dropped>>
    PROVE  /\ BootFirst' /\ InputBetweenScans' /\ QueueFailureStopsScan' /\ Copying'
<1>1. /\ main_pc = "sleep"
      /\ seq_pc # "absent"
      /\ \/ in_pc \in {"absent", "delay", "sleep"}
         \/ in_pc = "get" /\ led_data = <<>>
  BY SequencerRuns
<1>2. BootFirst' /\ InputBetweenScans' /\ QueueFailureStopsScan'
  BY <1>1 DEF IInv, BootFirst, InputBetweenScans, QueueFailureStopsScan
<1>3. Copying'
  BY <1>1 DEF IInv, Copying, KB_CHAIN_LENGTH
<1> QED BY <1>2, <1>3

(* seqTaskEntry clears the steps over a dark image. *)
LEMMA EntryStep == ASSUME IInv, seqTaskEntry PROVE IInv'
<1>1. /\ Running("sequencer") /\ seq_pc = "start" /\ seq_pc' = "recv"
      /\ step' = [p \in Row |-> empty]
      /\ UNCHANGED <<main_pc, mq_state, in_pc, led_data, input_events, latches, dropped,
                     input_event_mq, kb_led_data, ledPos>>
  BY DEF seqTaskEntry, seqOnlyUnchanged
<1>2. BootFirst' /\ InputBetweenScans' /\ QueueFailureStopsScan' /\ Copying'
  BY <1>1, SequencerStep
<1>3. CoreTypes' /\ QueueShort'
  BY <1>1 DEF IInv, CoreTypes, QueueShort, StepType, empty
<1>4. Drawing'
  <2>1. Lit' = {}
    BY <1>1 DEF Lit
  <2>2. LedImage({}) = Dark
    BY DEF LedImage, Dark
  <2>3. kb_led_data' = Dark
    BY <1>1 DEF IInv, Drawing
  <2>4. \A p \in Row : step'[p] \in {empty, {0}}
    BY <1>1
  <2> QED BY <1>1, <2>1, <2>2, <2>3, <2>4 DEF Drawing
<1> QED BY <1>2, <1>3, <1>4 DEF IInv

(* seqInputQueueGet empties the queue, or halts when there is none. *)
LEMMA ReceiveStep == ASSUME IInv, seqInputQueueGet PROVE IInv'
<1>1. /\ Running("sequencer") /\ seq_pc = "recv" /\ seq_pc' \in {"halt", "toggle"}
      /\ input_event_mq' \in {input_event_mq, Tail(input_event_mq)}
      /\ seq_pc' = "toggle" => input_event_mq' = Tail(input_event_mq) /\ mq_state = "ok"
      /\ UNCHANGED <<main_pc, mq_state, in_pc, led_data, input_events, latches, dropped,
                     step, kb_led_data, ledPos>>
  BY DEF seqInputQueueGet, seqOnlyUnchanged
<1>2. BootFirst' /\ InputBetweenScans' /\ QueueFailureStopsScan' /\ Copying'
  BY <1>1, SequencerStep
<1>3. CoreTypes'
  BY <1>1 DEF IInv, CoreTypes
<1>4. QueueShort'
  <2>1. seq_pc # "absent" /\ ~dropped
    BY <1>1 DEF IInv, QueueShort
  <2>2. CASE input_event_mq' = input_event_mq
    BY <1>1, <2>1, <2>2 DEF IInv, QueueShort
  <2>3. CASE seq_pc' = "toggle"
    <3>1. input_event_mq # <<>>
      BY <1>1, <2>3 DEF Running, Ready
    <3>2. input_event_mq = <<input_events>>
      BY <2>1, <3>1 DEF IInv, QueueShort
    <3>3. Tail(<<input_events>>) = <<>>
      OBVIOUS
    <3> QED BY <1>1, <2>1, <2>3, <3>2, <3>3 DEF QueueShort
  <2>4. seq_pc' # "toggle" => input_event_mq' = input_event_mq
    BY <1>1 DEF seqInputQueueGet
  <2> QED BY <2>2, <2>3, <2>4
<1>5. Drawing'
  <2>1. Lit' = Lit
    BY <1>1 DEF Lit
  <2> QED BY <1>1, <2>1 DEF IInv, Drawing
<1> QED BY <1>2, <1>3, <1>4, <1>5 DEF IInv

(* seqStepToggle leaves every step empty or simple. *)
LEMMA ToggleStep == ASSUME IInv, seqStepToggle PROVE IInv'
<1>1. /\ Running("sequencer") /\ seq_pc = "toggle" /\ seq_pc' = "clear"
      /\ step' = [p \in Row |-> IF p \in seq_events.just_pressed.main_row
                                THEN Xor(step[p], {0}) ELSE step[p]]
      /\ UNCHANGED <<main_pc, mq_state, in_pc, led_data, input_events, latches, dropped,
                     input_event_mq, kb_led_data, ledPos>>
  BY DEF seqStepToggle, seqOnlyUnchanged
<1>2. BootFirst' /\ InputBetweenScans' /\ QueueFailureStopsScan' /\ Copying'
  BY <1>1, SequencerStep
<1>3. \A p \in Row : step'[p] \in {empty, {0}}
  <2>1. Xor(empty, {0}) = {0} /\ Xor({0}, {0}) = empty
    BY DEF Xor, empty
  <2>2. \A p \in Row : step[p] \in {empty, {0}}
    BY <1>1 DEF IInv, Drawing
  <2> QED BY <1>1, <2>1, <2>2
<1>4. step' \in [Row -> StepType]
  <2>1. empty \in StepType /\ {0} \in StepType
    BY DEF empty, StepType
  <2>2. step' = [p \in Row |-> step'[p]]
    BY <1>1
  <2> QED BY <1>3, <2>1, <2>2
<1>5. CoreTypes' /\ QueueShort'
  BY <1>1, <1>4 DEF IInv, CoreTypes, QueueShort
<1>6. Drawing'
  BY <1>1, <1>3 DEF Drawing
<1> QED BY <1>2, <1>5, <1>6 DEF IInv

(* After the memset nothing is drawn, and no step comes before the first. *)
LEMMA ClearStep == ASSUME IInv, kbLEDDataClear PROVE IInv'
<1>1. /\ Running("sequencer") /\ seq_pc = "clear" /\ seq_pc' = "draw"
      /\ kb_led_data' = Dark
      /\ ledPos' = <<0, 0>>
      /\ UNCHANGED <<main_pc, mq_state, in_pc, led_data, input_events, latches, dropped,
                     input_event_mq, step>>
  BY DEF kbLEDDataClear, seqOnlyUnchanged
<1>2. BootFirst' /\ InputBetweenScans' /\ QueueFailureStopsScan' /\ Copying'
  BY <1>1, SequencerStep
<1>3. 0 \in Bits /\ \A b \in Bits : b \in Nat
  BY WidthAssumption DEF Bits
<1>4. CoreTypes'
  <2>1. <<0, 0>> \in Row /\ Dark \in Image
    BY <1>3 DEF Row, Dark, Image, Byte
  <2> QED BY <1>1, <2>1 DEF IInv, CoreTypes
<1>5. QueueShort'
  BY <1>1 DEF IInv, QueueShort
<1>6. Drawing'
  <2>1. ASSUME NEW p \in Row PROVE ~Before(p, <<0, 0>>)
    BY <1>3 DEF Before, Row
  <2>2. {p \in Lit' : Before(p, <<0, 0>>)} = {}
    BY <2>1 DEF Lit
  <2>3. LedImage({}) = Dark
    BY DEF LedImage, Dark
  <2> QED BY <1>1, <2>2, <2>3 DEF IInv, Drawing
<1> QED BY <1>2, <1>4, <1>5, <1>6 DEF IInv

(* A step's type, shifted to its column, is the step's bit or nothing. *)
LEMMA ShiftedType ==
    ASSUME NEW j \in Bits
    PROVE  ShiftLeft(empty, j) = {} /\ ShiftLeft({0}, j) = {j}
<1>1. \A b \in Bits : b \in Int
  BY WidthAssumption DEF Bits
<1>2. \A b \in Bits : b - j = 0 <=> b = j
  BY <1>1
<1> QED BY <1>2 DEF ShiftLeft, empty

(* One more step on a picture changes one bit of one byte. *)
LEMMA DrawOne ==
    ASSUME NEW i \in 0 .. 1, NEW j \in Bits, NEW S
    PROVE  LedImage(S \cup {<<i, j>>}) = [LedImage(S) EXCEPT ![i + 1] = @ \cup {j}]
<1> DEFINE U == S \cup {<<i, j>>}
<1>1. i + 1 \in Regs /\ i + 1 # 0 /\ (i + 1) - 1 = i
  BY DEF Regs, KB_CHAIN_LENGTH
<1>2. LedImage(U)[i + 1] = LedImage(S)[i + 1] \cup {j}
  <2>1. LedImage(U)[i + 1] = {b \in Bits : <<i, b>> \in U}
    BY <1>1 DEF LedImage
  <2>2. LedImage(S)[i + 1] = {b \in Bits : <<i, b>> \in S}
    BY <1>1 DEF LedImage
  <2>3. {b \in Bits : <<i, b>> \in U} = {b \in Bits : <<i, b>> \in S} \cup {j}
    OBVIOUS
  <2> QED BY <2>1, <2>2, <2>3
<1>3. ASSUME NEW r \in Regs, r # i + 1 PROVE LedImage(U)[r] = LedImage(S)[r]
  <2>1. r \in Int /\ i \in Int
    BY DEF Regs, KB_CHAIN_LENGTH
  <2>2. r - 1 # i
    BY <1>3, <2>1
  <2>3. \A b \in Bits : <<r - 1, b>> \in U <=> <<r - 1, b>> \in S
    BY <2>2
  <2> HIDE DEF U
  <2> QED BY <2>3 DEF LedImage
<1> HIDE DEF U
<1>4. LedImage(S) = [r \in Regs |-> LedImage(S)[r]] /\ LedImage(U) = [r \in Regs |-> LedImage(U)[r]]
  BY DEF LedImage
<1>5. [LedImage(S) EXCEPT ![i + 1] = @ \cup {j}]
         = [r \in Regs |-> IF r = i + 1 THEN LedImage(S)[r] \cup {j} ELSE LedImage(S)[r]]
  BY <1>1, <1>4
<1>6. [r \in Regs |-> IF r = i + 1 THEN LedImage(S)[r] \cup {j} ELSE LedImage(S)[r]]
         = [r \in Regs |-> LedImage(U)[r]]
  BY <1>2, <1>3
<1>7. LedImage(U) = [LedImage(S) EXCEPT ![i + 1] = @ \cup {j}]
  BY <1>4, <1>5, <1>6
<1> QED BY <1>7 DEF U

(* The loop visits the steps in their order. *)
LEMMA NextPosition ==
    ASSUME NEW i \in 0 .. 1, NEW j \in Bits
    PROVE  /\ j + 1 < Width => /\ <<i, j + 1>> \in Row
                              /\ \A p \in Row : Before(p, <<i, j + 1>>) <=>
                                     Before(p, <<i, j>>) \/ p = <<i, j>>
           /\ ~(j + 1 < Width) /\ i = 0 =>
                              /\ <<1, 0>> \in Row
                              /\ \A p \in Row : Before(p, <<1, 0>>) <=>
                                     Before(p, <<i, j>>) \/ p = <<i, j>>
           /\ ~(j + 1 < Width) /\ i # 0 =>
                              \A p \in Row : Before(p, <<i, j>>) \/ p = <<i, j>>
<1>1. Width \in Nat /\ Width > 0 /\ j \in Int /\ 0 <= j /\ j < Width
  BY WidthAssumption DEF Bits
<1>2. ASSUME NEW p \in Row
      PROVE  /\ p[1] \in 0 .. 1 /\ p[2] \in Int /\ 0 <= p[2] /\ p[2] < Width
             /\ p = <<i, j>> <=> p[1] = i /\ p[2] = j
  BY WidthAssumption DEF Row, Bits
<1>3. j + 1 < Width => <<i, j + 1>> \in Row
  BY <1>1 DEF Row, Bits
<1>4. <<1, 0>> \in Row
  BY <1>1 DEF Row, Bits
<1> QED BY <1>1, <1>2, <1>3, <1>4 DEF Before

(* One turn of kbLEDDataSend's loop draws the step at ledPos. *)
LEMMA DrawStep == ASSUME IInv, kbLEDDataSend PROVE IInv'
<1> DEFINE row == ledPos[1]
           col == ledPos[2]
           Drawn == {p \in Lit : Before(p, ledPos)}
           Then == {p \in Lit : Before(p, ledPos) \/ p = ledPos}
<1>1. /\ Running("sequencer") /\ seq_pc = "draw"
      /\ UNCHANGED <<main_pc, mq_state, in_pc, led_data, input_events, latches, dropped,
                     input_event_mq, step>>
      /\ kb_led_data' = [kb_led_data EXCEPT ![row + 1] = @ \cup ShiftLeft(step[ledPos], col)]
  BY DEF kbLEDDataSend, seqOnlyUnchanged
<1>2. \/ col + 1 < Width /\ ledPos' = <<row, col + 1>> /\ seq_pc' = "draw"
      \/ ~(col + 1 < Width) /\ row = 0 /\ ledPos' = <<1, 0>> /\ seq_pc' = "draw"
      \/ ~(col + 1 < Width) /\ row # 0 /\ ledPos' = ledPos /\ seq_pc' = "recv"
  BY <1>1 DEF kbLEDDataSend
<1>3. row \in 0 .. 1 /\ col \in Bits /\ ledPos = <<row, col>> /\ ledPos \in Row
  BY DEF IInv, CoreTypes, Row
<1>4. /\ step[ledPos] \in {empty, {0}}
      /\ kb_led_data = LedImage(Drawn)
      /\ \A p \in Row : step[p] \in {empty, {0}}
  BY <1>1, <1>3 DEF IInv, Drawing
<1>5. BootFirst' /\ InputBetweenScans' /\ QueueFailureStopsScan' /\ Copying'
  BY <1>1, <1>2, SequencerStep
<1> HIDE DEF row, col
<1>6. /\ <<row, col + 1>> \in Row \/ ~(col + 1 < Width)
      /\ <<1, 0>> \in Row \/ col + 1 < Width \/ row # 0
  BY <1>3, NextPosition, Zenon
<1>7. col + 1 < Width => \A p \in Row : Before(p, <<row, col + 1>>) <=>
                                           Before(p, ledPos) \/ p = ledPos
  BY <1>3, NextPosition, Zenon
<1>8. ~(col + 1 < Width) /\ row = 0 => \A p \in Row : Before(p, <<1, 0>>) <=>
                                           Before(p, ledPos) \/ p = ledPos
  BY <1>3, NextPosition, Zenon
<1>9. ~(col + 1 < Width) /\ row # 0 => \A p \in Row : Before(p, ledPos) \/ p = ledPos
  BY <1>3, NextPosition, Zenon
<1>10. kb_led_data' = LedImage(Then)
  <2>1. ShiftLeft(empty, col) = {} /\ ShiftLeft({0}, col) = {col}
    BY <1>3, ShiftedType
  <2>2. CASE step[ledPos] = empty
    <3>1. Then = Drawn
      BY <2>2 DEF Lit
    <3> HIDE DEF Drawn, Then
    <3>2. kb_led_data' = [kb_led_data EXCEPT ![row + 1] = @ \cup {}]
      BY <1>1, <2>1, <2>2
    <3>3. LedImage(Drawn) = [r \in Regs |-> LedImage(Drawn)[r]]
      BY DEF LedImage
    <3>4. kb_led_data' = kb_led_data
      BY <1>4, <3>2, <3>3
    <3> QED BY <1>4, <3>1, <3>4
  <2>3. CASE step[ledPos] = {0}
    <3>1. Then = Drawn \cup {<<row, col>>}
      BY <1>3, <2>3 DEF Lit, empty
    <3> HIDE DEF Drawn, Then
    <3>2. LedImage(Drawn \cup {<<row, col>>}) = [LedImage(Drawn) EXCEPT ![row + 1] = @ \cup {col}]
      BY <1>3, DrawOne
    <3>3. kb_led_data' = [kb_led_data EXCEPT ![row + 1] = @ \cup {col}]
      BY <1>1, <2>1, <2>3
    <3> QED BY <1>4, <3>1, <3>2, <3>3
  <2> QED BY <1>4, <2>2, <2>3
<1>11. Lit' = Lit /\ Lit \subseteq Row
  BY <1>1 DEF Lit
<1>12. CoreTypes'
  <2>1. ledPos' \in Row
    BY <1>2, <1>3, <1>6, Zenon
  <2>2. LedImage(Then) \in Image
    BY DEF LedImage, Image, Byte
  <2> HIDE DEF Then
  <2> QED BY <1>1, <1>2, <1>10, <2>1, <2>2 DEF IInv, CoreTypes
<1>13. QueueShort'
  BY <1>1 DEF IInv, QueueShort
<1>14. Drawing'
  <2>1. CASE seq_pc' = "draw"
    <3>1. \A p \in Row : Before(p, ledPos') <=> Before(p, ledPos) \/ p = ledPos
      BY <1>2, <2>1, <1>7, <1>8, Zenon
    <3>2. {p \in Lit' : Before(p, ledPos')} = Then
      BY <1>11, <3>1
    <3> HIDE DEF Then
    <3> QED BY <1>1, <1>4, <1>10, <2>1, <3>2 DEF Drawing
  <2>2. CASE seq_pc' = "recv"
    <3>1. \A p \in Row : Before(p, ledPos) \/ p = ledPos
      BY <1>2, <2>2, <1>9, Zenon
    <3>2. Lit' = Then
      BY <1>11, <3>1
    <3> HIDE DEF Then
    <3> QED BY <1>1, <1>4, <1>10, <2>2, <3>2 DEF Drawing
  <2> QED BY <1>2, <2>1, <2>2
<1> QED BY <1>5, <1>12, <1>13, <1>14 DEF IInv

(* main's two calls that create the queue and the threads. *)
LEMMA BootSteps == ASSUME IInv, inputTaskInit \/ sequencerTaskInit PROVE IInv'
<1>1. /\ main_pc \in {"start", "started"}
      /\ UNCHANGED <<input_event_mq, kb_led_data, led_data, input_events, step, ledPos,
                     latches, dropped>>
  BY DEF inputTaskInit, sequencerTaskInit, historyVars
<1>2. /\ input_event_mq = <<>> /\ ~dropped /\ led_data = <<>> /\ kb_led_data = Dark
      /\ latches = 0 /\ in_pc \in {"absent", "get"} /\ seq_pc = "absent"
  BY <1>1 DEF IInv, BootFirst
<1>3. \/ /\ main_pc' \in {"halt", "started"} /\ in_pc' \in {"absent", "get"}
         /\ seq_pc' = "absent"
      \/ /\ main_pc' = "run" /\ in_pc' = in_pc /\ seq_pc' \in {"start", "absent"}
  BY <1>2 DEF inputTaskInit, sequencerTaskInit, kbInit, rt_thread_create, Outcomes
<1>4. CoreTypes' /\ BootFirst' /\ QueueShort'
  BY <1>1, <1>2, <1>3 DEF IInv, CoreTypes, BootFirst, QueueShort
<1>5. InputBetweenScans' /\ QueueFailureStopsScan'
  BY <1>1, <1>2, <1>3 DEF InputBetweenScans, QueueFailureStopsScan
<1>6. Drawing' /\ Copying'
  BY <1>1, <1>2, <1>3 DEF Drawing, Copying, KB_CHAIN_LENGTH
<1> QED BY <1>4, <1>5, <1>6 DEF IInv

(* Steps of main's loop, of the peripheral, of the player, and polls. *)
LEMMA OtherSteps ==
    ASSUME IInv,
           blink \/ mainWake \/ spiPoll \/ rt_assert_handler \/ moveKey \/ spiClock
    PROVE  IInv'
<1>1. UNCHANGED core
  BY DEF core, blink, mainWake, spiPoll, rt_assert_handler, moveKey, spiClock,
         mainOnlyUnchanged, threadVars, historyVars, vars
<1>2. \/ UNCHANGED main_pc
      \/ main_pc \notin {"start", "started"} /\ main_pc' \in {"run", "sleep"}
  BY DEF blink, mainWake, spiPoll, rt_assert_handler, moveKey, spiClock, threadVars, vars
<1> QED BY <1>1, <1>2, QuietStep

(* Every step keeps the inductive invariant. *)
LEMMA NextIInv == IInv /\ [Next]_vars => IInv'
<1> SUFFICES ASSUME IInv, [Next]_vars PROVE IInv'
  OBVIOUS
<1>1. CASE UNCHANGED vars
  <2>1. UNCHANGED core /\ UNCHANGED main_pc
    BY <1>1 DEF vars, core, threadVars, historyVars
  <2> QED BY <2>1, QuietStep
<1>2. CASE Next
  BY <1>2, BootSteps, OtherSteps, GetStep, ScanSteps, SendStep, DelayStep, WakeStep,
     EntryStep, ReceiveStep, ToggleStep, ClearStep, DrawStep DEF Next
<1> QED BY <1>1, <1>2

(* The inductive invariant holds in every reachable state. *)
THEOREM Invariance == Spec => []IInv
BY InitIInv, NextIInv, PTL DEF Spec

(* The image the input task sends to the LEDs is always the finished picture *)
(* of the current steps, although kbLEDDataGet and kbLEDDataSend share       *)
(* kb_led_data without a lock.                                               *)
THEOREM FramesStayWhole == Spec => []WholeFrame
<1>1. ASSUME IInv PROVE WholeFrame
  <2> SUFFICES ASSUME seq_pc # "absent", in_pc \in {"latch", "xfer", "parse", "send"}
               PROVE  [r \in Regs |-> led_data[r + 1]] = LedImage(Lit)
    BY DEF WholeFrame
  <2>1. \A k \in 1 .. 3 : led_data[k] = LedImage(Lit)[k - 1]
    BY <1>1 DEF IInv, Copying, KB_CHAIN_LENGTH
  <2>2. \A r \in Regs : r + 1 \in 1 .. 3 /\ (r + 1) - 1 = r
    BY DEF Regs, KB_CHAIN_LENGTH
  <2>3. \A r \in Regs : led_data[r + 1] = LedImage(Lit)[r]
    BY <2>1, <2>2
  <2>4. LedImage(Lit) = [r \in Regs |-> LedImage(Lit)[r]]
    BY DEF LedImage
  <2> QED BY <2>3, <2>4
<1> QED BY <1>1, Invariance, PTL

(* With a sequencer the queue never holds more than one event and rt_mq_send *)
(* never fails, for every queue length from 1 on.                            *)
THEOREM SequencerAlwaysKeepsUp == Spec => []SequencerKeepsUp
<1>1. Len(<<>>) = 0 /\ Len(<<input_events>>) = 1
  OBVIOUS
<1>2. IInv => SequencerKeepsUp
  <2> SUFFICES ASSUME IInv, seq_pc # "absent" PROVE Len(input_event_mq) <= 1 /\ ~dropped
    BY DEF SequencerKeepsUp
  <2>1. ~dropped /\ (input_event_mq = <<>> \/ input_event_mq = <<input_events>>)
    BY DEF IInv, QueueShort
  <2>2. Len(input_event_mq) = 0 \/ Len(input_event_mq) = 1
    BY <1>1, <2>1, Zenon
  <2>3. \A n : n = 0 \/ n = 1 => n <= 1
    OBVIOUS
  <2>4. Len(input_event_mq) <= 1
    BY <2>2, <2>3, Zenon
  <2> QED BY <2>1, <2>4, Zenon
<1> QED BY <1>2, Invariance, PTL

(* Without a queue the sequencer's failed assertion keeps the input task     *)
(* from ever scanning.                                                       *)
THEOREM QueueFailureAlwaysStopsScan == Spec => []QueueFailureStopsScan
<1>1. IInv => QueueFailureStopsScan
  BY DEF IInv
<1> QED BY <1>1, Invariance, PTL

-----------------------------------------------------------------------------
(* The SPI transfer *)

(* Bytes that the driver's loop has got through to the transmit register, if *)
(* no wait for it expired, and bytes that the peripheral has clocked.        *)
Due == Len(recv_buf) + (IF spi_pc = "rxne" THEN 1 ELSE 0)
Clocked == sent - Len(wire)

(* How far the transfer is. *)
Transfer ==
    /\ spi_pc \in {"txe", "rxne"} => Len(recv_buf) < KB_CHAIN_LENGTH
    /\ spi_pc = "done" \/ (spi_pc = "idle" /\ latches > 0) => Len(recv_buf) = KB_CHAIN_LENGTH
    /\ spi_pc = "idle" <=> in_pc # "xfer"
    /\ sent <= Due

(* Unless a byte was left out, the bytes of the transfer are on the wire or at *)
(* the end of the LED registers, in their order.                             *)
Shifting ==
    sent = Due =>
        /\ Len(wire) <= sent
        /\ \A i \in 1 .. Len(wire) : wire[i] = send_buf[Clocked + i]
        /\ \A i \in 1 .. Clocked : ledChain[KB_CHAIN_LENGTH - Clocked + i] = send_buf[i]

SpiInv == SpiTypeOK /\ Transfer /\ Shifting

(* The types of the sequences, with the numbers the provers need. *)
LEMMA SpiNumbers ==
    ASSUME SpiInv
    PROVE  /\ recv_buf \in Seq(Byte) /\ Len(recv_buf) \in 0 .. 3
           /\ wire \in Seq(Byte) /\ Len(wire) \in 0 .. 2
           /\ dr \in Seq(Byte) /\ Len(dr) \in 0 .. 1
           /\ sent \in 0 .. 3 /\ Due \in 0 .. 3 /\ sent <= Due
           /\ faults \in Nat /\ MaxFaults \in Nat
           /\ send_buf \in [1 .. 3 -> Byte] /\ ledChain \in [1 .. 3 -> Byte]
           /\ btnChain \in [1 .. 3 -> Byte]
<1>1. /\ recv_buf \in Seq(Byte) /\ Len(recv_buf) <= 3
      /\ wire \in Seq(Byte) /\ Len(wire) <= 2
      /\ dr \in Seq(Byte) /\ Len(dr) <= 1
      /\ sent \in 0 .. 3 /\ faults \in 0 .. MaxFaults /\ sent <= Due
      /\ send_buf \in [1 .. 3 -> Byte] /\ ledChain \in [1 .. 3 -> Byte]
      /\ btnChain \in [1 .. 3 -> Byte]
  BY DEF SpiInv, SpiTypeOK, Chain, KB_CHAIN_LENGTH, Transfer
<1>2. Len(recv_buf) \in 0 .. 3 /\ Len(wire) \in 0 .. 2 /\ Len(dr) \in 0 .. 1
  <2>1. Len(recv_buf) \in Nat /\ Len(wire) \in Nat /\ Len(dr) \in Nat
    BY <1>1
  <2>2. Len(recv_buf) <= 3 /\ Len(wire) <= 2 /\ Len(dr) <= 1
    BY <1>1
  <2>3. \A k \in Nat : /\ k <= 3 => k \in 0 .. 3
                       /\ k <= 2 => k \in 0 .. 2
                       /\ k <= 1 => k \in 0 .. 1
    OBVIOUS
  <2> QED BY <2>1, <2>2, <2>3, Zenon
<1>3. Due \in 0 .. 3
  BY <1>2 DEF SpiInv, Transfer, Due, KB_CHAIN_LENGTH
<1> QED BY <1>1, <1>2, <1>3, FaultsAssumption

LEMMA SendByteStep ==
    ASSUME SpiInv, SendByte, UNCHANGED <<in_pc, latches>>
    PROVE  SpiInv'
<1> DEFINE n == Len(recv_buf)
           byte == send_buf[n + 1]
<1>1. /\ spi_pc = "txe" /\ spi_pc' = "rxne" /\ sent' = sent + 1
      /\ wire' = Append(wire, byte) /\ Len(wire) < 2
      /\ UNCHANGED <<send_buf, recv_buf, dr, btnChain, ledChain, faults, expired>>
  BY DEF SendByte, TXE
<1>2. n \in 0 .. 2 /\ Due = n /\ Due' = n + 1 /\ sent \in 0 .. n
  <2>1. n \in 0 .. 3 /\ n < 3 /\ sent \in 0 .. 3 /\ sent <= Due
    BY <1>1, SpiNumbers DEF SpiInv, Transfer, KB_CHAIN_LENGTH
  <2>2. Due = n /\ Due' = n + 1
    BY <1>1, <2>1 DEF Due
  <2> QED BY <2>1, <2>2
<1>3. byte \in Byte
  <2>1. n + 1 \in 1 .. 3 /\ send_buf \in [1 .. 3 -> Byte]
    BY <1>2, SpiNumbers
  <2> QED BY <2>1
<1>4. /\ wire' \in Seq(Byte) /\ Len(wire') = Len(wire) + 1
      /\ \A i \in 1 .. Len(wire) : wire'[i] = wire[i]
      /\ wire'[Len(wire) + 1] = byte
  BY <1>1, <1>3, SpiNumbers
<1>5. SpiTypeOK'
  BY <1>1, <1>2, <1>4, SpiNumbers DEF SpiInv, SpiTypeOK, KB_CHAIN_LENGTH
<1>6. Transfer'
  BY <1>1, <1>2 DEF SpiInv, Transfer, KB_CHAIN_LENGTH
<1>7. Shifting'
  <2> SUFFICES ASSUME sent' = Due'
               PROVE  /\ Len(wire') <= sent'
                      /\ \A i \in 1 .. Len(wire') : wire'[i] = send_buf[Clocked' + i]
                      /\ \A i \in 1 .. Clocked' : ledChain[3 - Clocked' + i] = send_buf[i]
    BY <1>1 DEF Shifting, KB_CHAIN_LENGTH
  <2>1. sent = n /\ Clocked' = Clocked
    <3>1. sent \in Int /\ Len(wire) \in Int
      BY SpiNumbers
    <3>2. sent' = sent + 1 /\ Len(wire') = Len(wire) + 1
      BY <1>1, <1>4
    <3> QED BY <1>2, <3>1, <3>2 DEF Clocked
  <2>2. /\ Len(wire) <= sent
        /\ \A i \in 1 .. Len(wire) : wire[i] = send_buf[Clocked + i]
        /\ \A i \in 1 .. Clocked : ledChain[3 - Clocked + i] = send_buf[i]
    BY <1>2, <2>1 DEF SpiInv, Shifting, KB_CHAIN_LENGTH
  <2>3. Clocked + (Len(wire) + 1) = n + 1
    BY <1>2, <2>1, SpiNumbers DEF Clocked
  <2>4. \A i \in 1 .. Len(wire') : i \in 1 .. Len(wire) \/ i = Len(wire) + 1
    BY <1>4, SpiNumbers
  <2>5. Len(wire') <= sent'
    BY <1>1, <1>2, <1>4, <2>2, SpiNumbers
  <2> QED BY <1>4, <2>1, <2>2, <2>3, <2>4, <2>5
<1> QED BY <1>5, <1>6, <1>7 DEF SpiInv

(* A byte is stored: the one received, or 0 when a wait expired. *)
LEMMA StoreStep ==
    ASSUME SpiInv, NEW byte \in Byte, Store(byte), spi_pc \in {"txe", "rxne"},
           UNCHANGED <<send_buf, wire, btnChain, ledChain, sent, in_pc, latches>>,
           dr' \in {dr, <<>>}, faults' \in 0 .. MaxFaults, expired' \in BOOLEAN
    PROVE  SpiInv'
<1> DEFINE n == Len(recv_buf)
<1>1. n \in 0 .. 2
  <2>1. n \in 0 .. 3 /\ n < 3
    BY SpiNumbers DEF SpiInv, Transfer, KB_CHAIN_LENGTH
  <2> QED BY <2>1
<1>2. /\ recv_buf' \in Seq(Byte) /\ Len(recv_buf') = n + 1
      /\ spi_pc' = IF n + 1 = 3 THEN "done" ELSE "txe"
  BY SpiNumbers DEF Store, KB_CHAIN_LENGTH
<1>3. SpiTypeOK'
  <2>1. dr' \in Seq(Byte) /\ Len(dr') <= 1
    <3>1. <<>> \in Seq(Byte) /\ Len(<<>>) = 0 /\ dr \in Seq(Byte) /\ Len(dr) <= 1
      BY DEF SpiInv, SpiTypeOK
    <3>2. CASE dr' = dr
      BY <3>1, <3>2
    <3>3. CASE dr' = <<>>
      BY <3>1, <3>3
    <3> QED BY <3>2, <3>3
  <2>2. Len(recv_buf') = n + 1 /\ spi_pc' \in {"txe", "done"}
    BY <1>2
  <2>3. Len(recv_buf') <= 3
    <3>1. \A k \in 0 .. 2 : k + 1 <= 3
      OBVIOUS
    <3> QED BY <1>1, <2>2, <3>1, Zenon
  <2> QED BY <1>2, <2>1, <2>2, <2>3 DEF SpiInv, SpiTypeOK, KB_CHAIN_LENGTH
<1>4. Due' = n + 1 /\ Due <= n + 1 /\ (spi_pc = "rxne" => Due = n + 1)
  BY <1>1, <1>2 DEF Due
<1>5. Transfer'
  BY <1>1, <1>2, <1>4, SpiNumbers DEF SpiInv, Transfer, KB_CHAIN_LENGTH
<1>6. Shifting'
  <2>1. sent' = Due' => sent = Due
    BY <1>4, SpiNumbers
  <2>2. Clocked' = Clocked
    BY DEF Clocked
  <2> QED BY <2>1, <2>2 DEF SpiInv, Shifting
<1> QED BY <1>3, <1>5, <1>6 DEF SpiInv

LEMMA PollStep ==
    ASSUME SpiInv, SendByte \/ TxTimeout \/ ReceiveByte \/ RxTimeout, UNCHANGED <<in_pc, latches>>
    PROVE  SpiInv'
<1>1. CASE SendByte
  BY <1>1, SendByteStep
<1>2. CASE TxTimeout \/ RxTimeout
  <2>1. /\ {} \in Byte /\ Store({}) /\ spi_pc \in {"txe", "rxne"}
        /\ UNCHANGED <<send_buf, wire, btnChain, ledChain, sent, dr>>
        /\ expired' \in BOOLEAN
    BY <1>2 DEF TxTimeout, RxTimeout, Byte
  <2>2. faults' \in 0 .. MaxFaults
    <3>1. faults \in 0 .. MaxFaults
      BY DEF SpiInv, SpiTypeOK
    <3>2. faults' = faults \/ (faults' = faults + 1 /\ faults < MaxFaults)
      BY <1>2 DEF TxTimeout, RxTimeout
    <3> QED BY <3>1, <3>2, FaultsAssumption
  <2> QED BY <2>1, <2>2, StoreStep
<1>3. CASE ReceiveByte
  <2>1. /\ Store(dr[1]) /\ spi_pc = "rxne" /\ dr # <<>> /\ dr' = <<>>
        /\ UNCHANGED <<send_buf, wire, btnChain, ledChain, faults, sent, expired>>
    BY <1>3 DEF ReceiveByte, RXNE
  <2>2. dr[1] \in Byte
    BY <2>1, SpiNumbers
  <2>3. faults \in 0 .. MaxFaults /\ expired \in BOOLEAN
    BY DEF SpiInv, SpiTypeOK
  <2> QED BY <2>1, <2>2, <2>3, StoreStep
<1> QED BY <1>1, <1>2, <1>3

(* The first byte on the wire goes, and the others move up. *)
LEMMA WireMoves ==
    ASSUME SpiInv, wire # <<>>
    PROVE  /\ Len(wire) \in 1 .. 2 /\ wire[1] \in Byte
           /\ Tail(wire) \in Seq(Byte) /\ Len(Tail(wire)) = Len(wire) - 1
           /\ \A i \in 1 .. Len(wire) - 1 : Tail(wire)[i] = wire[i + 1]
<1>1. wire \in Seq(Byte) /\ Len(wire) \in 0 .. 2
  BY SpiNumbers
<1>2. Len(wire) # 0
  BY <1>1
<1>3. Len(wire) \in 1 .. 2
  <2>1. \A k \in 0 .. 2 : k # 0 => k \in 1 .. 2
    OBVIOUS
  <2> QED BY <1>1, <1>2, <2>1, Zenon
<1> QED BY <1>1, <1>3

LEMMA ClockStep ==
    ASSUME SpiInv, ClockByte, UNCHANGED <<in_pc, latches>>
    PROVE  SpiInv'
<1>1. /\ wire # <<>> /\ wire' = Tail(wire)
      /\ dr' = IF dr # <<>> THEN dr ELSE <<btnChain[1]>>
      /\ ledChain' = Shifted(ledChain, wire[1]) /\ btnChain' = Shifted(btnChain, {})
      /\ UNCHANGED <<spi_pc, send_buf, recv_buf, faults, sent, expired>>
  BY DEF ClockByte, RXNE
<1>2. /\ Len(wire) \in 1 .. 2 /\ wire[1] \in Byte
      /\ wire' \in Seq(Byte) /\ Len(wire') = Len(wire) - 1
      /\ \A i \in 1 .. Len(wire) - 1 : wire'[i] = wire[i + 1]
  BY <1>1, WireMoves
<1>3. /\ ledChain' \in [1 .. 3 -> Byte] /\ btnChain' \in [1 .. 3 -> Byte]
      /\ ledChain'[3] = wire[1] /\ \A i \in 1 .. 2 : ledChain'[i] = ledChain[i + 1]
  <2>1. /\ ledChain' = [i \in 1 .. 3 |-> IF i = 3 THEN wire[1] ELSE ledChain[i + 1]]
        /\ btnChain' = [i \in 1 .. 3 |-> IF i = 3 THEN {} ELSE btnChain[i + 1]]
    BY <1>1 DEF Shifted, KB_CHAIN_LENGTH
  <2>2. {} \in Byte
    BY DEF Byte
  <2>3. ledChain \in [1 .. 3 -> Byte] /\ btnChain \in [1 .. 3 -> Byte]
    BY SpiNumbers
  <2>4. \A i \in 1 .. 3 : i # 3 => i + 1 \in 1 .. 3
    OBVIOUS
  <2>5. ledChain'[3] = wire[1] /\ \A i \in 1 .. 2 : ledChain'[i] = ledChain[i + 1]
    BY <2>1
  <2> QED BY <1>2, <2>1, <2>2, <2>3, <2>4, <2>5
<1>4. dr' \in Seq(Byte) /\ Len(dr') <= 1
  <2>1. btnChain[1] \in Byte /\ dr \in Seq(Byte) /\ Len(dr) <= 1
    BY SpiNumbers DEF SpiInv, SpiTypeOK
  <2>2. CASE dr # <<>>
    BY <1>1, <2>1, <2>2
  <2>3. CASE dr = <<>>
    <3>1. dr' = <<btnChain[1]>>
      BY <1>1, <2>3
    <3> QED BY <2>1, <3>1
  <2> QED BY <2>2, <2>3
<1>5. SpiTypeOK'
  <2>1. Len(wire') <= 2
    <3>1. \A k \in 1 .. 2 : k - 1 <= 2
      OBVIOUS
    <3> QED BY <1>2, <3>1, Zenon
  <2> QED BY <1>1, <1>2, <1>3, <1>4, <2>1 DEF SpiInv, SpiTypeOK, Chain, KB_CHAIN_LENGTH
<1>6. Due' = Due
  BY <1>1 DEF Due
<1>7. Transfer'
  BY <1>1, <1>6 DEF SpiInv, Transfer
<1>8. Shifting'
  <2> SUFFICES ASSUME sent = Due
               PROVE  /\ Len(wire') <= sent
                      /\ \A i \in 1 .. Len(wire') : wire'[i] = send_buf[Clocked' + i]
                      /\ \A i \in 1 .. Clocked' : ledChain'[3 - Clocked' + i] = send_buf[i]
    BY <1>1, <1>6 DEF Shifting, KB_CHAIN_LENGTH
  <2>1. /\ Len(wire) <= sent
        /\ \A i \in 1 .. Len(wire) : wire[i] = send_buf[Clocked + i]
        /\ \A i \in 1 .. Clocked : ledChain[3 - Clocked + i] = send_buf[i]
    BY DEF SpiInv, Shifting, KB_CHAIN_LENGTH
  <2>2. sent \in 0 .. 3
    BY SpiNumbers
  <2>3. Clocked \in 0 .. 2 /\ Clocked' = Clocked + 1
    <3>1. \A a \in 0 .. 3, b \in 1 .. 2 : b <= a => a - b \in 0 .. 2 /\ a - (b - 1) = (a - b) + 1
      OBVIOUS
    <3>2. Clocked = sent - Len(wire) /\ Clocked' = sent - (Len(wire) - 1)
      BY <1>1, <1>2 DEF Clocked
    <3> QED BY <1>2, <2>1, <2>2, <3>1, <3>2, Zenon
  <2>4. Len(wire') <= sent
    <3>1. \A a \in 0 .. 3, b \in 1 .. 2 : b <= a => b - 1 <= a
      OBVIOUS
    <3> QED BY <1>2, <2>1, <2>2, <3>1, Zenon
  <2>5. ASSUME NEW i \in 1 .. Len(wire') PROVE wire'[i] = send_buf[Clocked' + i]
    <3>1. i \in 1 .. Len(wire) - 1 /\ i + 1 \in 1 .. Len(wire)
      BY <1>2, <2>5
    <3>2. Clocked + (i + 1) = Clocked' + i
      BY <2>3, <3>1
    <3> QED BY <1>2, <2>1, <3>1, <3>2
  <2>6. ASSUME NEW i \in 1 .. Clocked' PROVE ledChain'[3 - Clocked' + i] = send_buf[i]
    <3>1. CASE i = Clocked'
      <4>1. 3 - Clocked' + i = 3 /\ Clocked + 1 = i /\ 1 \in 1 .. Len(wire)
        BY <1>2, <2>3, <3>1
      <4> QED BY <1>3, <2>1, <4>1
    <3>2. CASE i # Clocked'
      <4>1. /\ i \in 1 .. Clocked /\ 3 - Clocked' + i \in 1 .. 2
            /\ (3 - Clocked' + i) + 1 = 3 - Clocked + i
        BY <2>3, <3>2
      <4> QED BY <1>3, <2>1, <4>1
    <3> QED BY <3>1, <3>2
  <2> QED BY <2>4, <2>5, <2>6
<1> QED BY <1>5, <1>7, <1>8 DEF SpiInv

(* kbTransferData begins a transfer: the copied picture has its full length. *)
LEMMA LatchSpi ==
    ASSUME IInv, SpiInv, keys \in Image, kbLatch
    PROVE  SpiInv'
<1>1. /\ in_pc = "latch" /\ in_pc' = "xfer" /\ wire = <<>> /\ spi_pc' = "txe"
      /\ send_buf' = [i \in 1 .. 3 |-> led_data[i]] /\ recv_buf' = <<>> /\ sent' = 0
      /\ expired' = FALSE /\ btnChain' = [i \in 1 .. 3 |-> Bits \ keys[i - 1]]
      /\ UNCHANGED <<wire, dr, ledChain, faults>>
  BY DEF kbLatch, rt_spi_transfer, KB_CHAIN_LENGTH
<1>2. send_buf' \in [1 .. 3 -> Byte]
  <2>1. led_data \in Seq(Byte) /\ Len(led_data) = 3
    BY <1>1 DEF IInv, CoreTypes, Copying, KB_CHAIN_LENGTH
  <2>2. \A i \in 1 .. 3 : led_data[i] \in Byte
    BY <2>1
  <2> QED BY <1>1, <2>2
<1>3. btnChain' \in [1 .. 3 -> Byte]
  BY <1>1 DEF Byte
<1>4. Len(<<>>) = 0 /\ <<>> \in Seq(Byte)
  OBVIOUS
<1>5. SpiTypeOK'
  <2>1. expired' \in BOOLEAN
    BY <1>1
  <2>2. sent' \in 0 .. 3 /\ Len(recv_buf') <= 3 /\ recv_buf' \in Seq(Byte)
    BY <1>1, <1>4
  <2> QED BY <1>1, <1>2, <1>3, <2>1, <2>2 DEF SpiInv, SpiTypeOK, Chain, KB_CHAIN_LENGTH
<1>6. Due' = 0 /\ Clocked' = 0
  <2>1. Len(recv_buf') = 0 /\ Len(wire') = 0 /\ sent' = 0 /\ spi_pc' # "rxne"
    BY <1>1, <1>4
  <2> QED BY <2>1 DEF Due, Clocked
<1>7. Transfer'
  BY <1>1, <1>4, <1>6 DEF Transfer, KB_CHAIN_LENGTH
<1>8. Shifting'
  <2>1. Len(wire') = 0
    BY <1>1, <1>4
  <2> QED BY <1>1, <1>6, <2>1 DEF Shifting
<1> QED BY <1>5, <1>7, <1>8 DEF SpiInv

LEMMA InvertSpi ==
    ASSUME SpiInv, kbInvert
    PROVE  SpiInv'
<1>1. /\ in_pc = "xfer" /\ in_pc' = "parse" /\ spi_pc = "done" /\ spi_pc' = "idle"
      /\ UNCHANGED <<send_buf, recv_buf, wire, dr, btnChain, ledChain, faults, sent, expired>>
  BY DEF kbInvert
<1>2. Due' = Due /\ Clocked' = Clocked
  BY <1>1 DEF Due, Clocked
<1> QED BY <1>1, <1>2 DEF SpiInv, SpiTypeOK, Transfer, Shifting

(* The steps that have nothing to do with the transfer. *)
LEMMA QuietSpi ==
    ASSUME SpiInv, UNCHANGED <<spiVars, latches>>, in_pc = "xfer" <=> in_pc' = "xfer"
    PROVE  SpiInv'
<1>1. Due' = Due /\ Clocked' = Clocked
  BY DEF Due, Clocked, spiVars
<1> QED BY <1>1 DEF SpiInv, SpiTypeOK, Transfer, Shifting, spiVars

-----------------------------------------------------------------------------
(* The types of the rest of the state *)

ScanTypes ==
    /\ button_data \in Image /\ button_data_prev \in Image
    /\ keys \in Image /\ sample \in Image /\ ledOut \in Image
    /\ changes \in 0 .. MaxChanges
    /\ latches \in 0 .. 2
    /\ led1 \in BOOLEAN
    /\ mq_state \in {"none", "ok", "null"}

EventTypes ==
    /\ input_events \in InputEvents /\ seq_events \in InputEvents
    /\ input_event_mq \in Seq(InputEvents) /\ Len(input_event_mq) <= QueueLen
    /\ dropped \in BOOLEAN
    /\ want \subseteq Row /\ want1 \subseteq Row /\ want2 \subseteq Row /\ down \subseteq Row

LEMMA ScanTypesKept ==
    ASSUME ScanTypes, SpiInv, [Next]_vars
    PROVE  ScanTypes'
<1> USE DEF ScanTypes
<1>1. CASE kbLatch
  <2>1. /\ ledOut' = [r \in Regs |-> ledChain[r + 1]] /\ sample' = keys
        /\ latches' = IF latches < 2 THEN latches + 1 ELSE 2
        /\ UNCHANGED <<button_data, button_data_prev, keys, changes, led1, mq_state>>
    BY <1>1 DEF kbLatch, inputOnlyUnchanged
  <2>2. \A r \in Regs : ledChain[r + 1] \in Byte
    <3>1. \A r \in Regs : r + 1 \in 1 .. 3
      BY DEF Regs, KB_CHAIN_LENGTH
    <3> QED BY <3>1, SpiNumbers
  <2>3. ledOut' \in Image
    BY <2>1, <2>2 DEF Image
  <2>4. latches' \in 0 .. 2
    BY <2>1
  <2> QED BY <2>1, <2>3, <2>4
<1>2. CASE kbInvert
  <2>1. /\ button_data' = [r \in Regs |-> Bits \ recv_buf[r + 1]]
        /\ UNCHANGED <<button_data_prev, keys, sample, ledOut, changes, latches, led1, mq_state>>
    BY <1>2 DEF kbInvert, inputOnlyUnchanged, historyVars
  <2>2. button_data' \in Image
    BY <2>1 DEF Image, Byte
  <2> QED BY <2>1, <2>2
<1>3. CASE kbParseButtons
  <2>1. /\ button_data_prev' = Remembered
        /\ UNCHANGED <<button_data, keys, sample, ledOut, changes, latches, led1, mq_state>>
    BY <1>3 DEF kbParseButtons, inputOnlyUnchanged, historyVars
  <2>2. button_data_prev' \in Image
    BY <2>1 DEF Remembered, Image
  <2> QED BY <2>1, <2>2
<1>4. CASE moveKey
  <2>1. /\ changes < MaxChanges /\ changes' = changes + 1
        /\ \E r \in Regs, b \in Bits : keys' = [keys EXCEPT ![r] = Xor(@, {b})]
        /\ UNCHANGED <<button_data, button_data_prev, sample, ledOut, latches, led1, mq_state>>
    BY <1>4 DEF moveKey, historyVars
  <2>2. changes' \in 0 .. MaxChanges
    BY <2>1, ChangesAssumption
  <2>3. PICK r \in Regs, b \in Bits : keys' = [keys EXCEPT ![r] = Xor(@, {b})]
    BY <2>1
  <2>4. Xor(keys[r], {b}) \in Byte
    BY <2>3 DEF Xor, Byte, Image
  <2>5. keys' \in Image
    BY <2>3, <2>4 DEF Image
  <2> QED BY <2>1, <2>2, <2>5
<1>5. CASE inputTaskInit \/ sequencerTaskInit \/ blink
  <2>1. /\ mq_state' \in {mq_state, "ok", "null"} /\ led1' \in {led1, FALSE, ~led1}
        /\ UNCHANGED <<button_data, button_data_prev, keys, sample, ledOut, changes, latches>>
    BY <1>5 DEF inputTaskInit, sequencerTaskInit, blink, mainOnlyUnchanged, historyVars,
                rt_mq_create, Outcomes
  <2>2. led1' \in BOOLEAN
    BY <2>1
  <2> QED BY <2>1, <2>2
<1>6. CASE mainWake \/ kbLEDDataGet \/ inputQueueSend \/ inputDelay \/ inputWake
  <2>1. UNCHANGED <<button_data, button_data_prev, keys, sample, ledOut, changes, latches,
                    led1, mq_state>>
    BY <1>6 DEF mainWake, kbLEDDataGet, inputQueueSend, inputDelay, inputWake,
                mainOnlyUnchanged, inputOnlyUnchanged, historyVars
  <2> QED BY <2>1
<1>7. CASE seqTaskEntry \/ seqInputQueueGet \/ seqStepToggle \/ kbLEDDataClear \/ kbLEDDataSend
  <2>1. UNCHANGED <<button_data, button_data_prev, keys, sample, ledOut, changes, latches,
                    led1, mq_state>>
    BY <1>7 DEF seqTaskEntry, seqInputQueueGet, seqStepToggle, kbLEDDataClear, kbLEDDataSend,
                seqOnlyUnchanged
  <2> QED BY <2>1
<1>8. CASE spiPoll \/ rt_assert_handler \/ spiClock \/ UNCHANGED vars
  <2>1. UNCHANGED <<button_data, button_data_prev, keys, sample, ledOut, changes, latches,
                    led1, mq_state>>
    BY <1>8 DEF spiPoll, rt_assert_handler, spiClock, vars, threadVars, historyVars
  <2> QED BY <2>1
<1> QED BY <1>1, <1>2, <1>3, <1>4, <1>5, <1>6, <1>7, <1>8 DEF Next

(* What kbParseButtons collects has the type of an event. *)
LEMMA CollectType ==
    ASSUME NEW value, \A r \in Regs : value[r] \in Byte
    PROVE  Collect(value) \in ButtonData
<1> DEFINE masked == [r \in Regs |-> IF r \in Changed THEN value[r] ELSE {}]
<1>1. 2 \in Regs /\ {} \in Byte
  BY DEF Regs, KB_CHAIN_LENGTH, Byte
<1>2. masked[2] \in Byte
  BY <1>1
<1>3. MainRow(masked) \in SUBSET Row
  BY DEF MainRow
<1> QED BY <1>2, <1>3 DEF Collect, ButtonData

LEMMA EventTypesKept ==
    ASSUME IInv, ScanTypes, EventTypes, [Next]_vars
    PROVE  EventTypes'
<1> USE DEF EventTypes
<1>1. CASE kbLatch
  <2>1. /\ want' = Xor(want, MainRow(keys) \ MainRow(sample)) /\ want1' = want /\ want2' = want1
        /\ UNCHANGED <<input_events, seq_events, input_event_mq, dropped, down>>
    BY <1>1 DEF kbLatch, inputOnlyUnchanged
  <2>2. want' \subseteq Row
    BY <2>1 DEF Xor, MainRow
  <2> QED BY <2>1, <2>2
<1>2. CASE kbParseButtons
  <2>1. UNCHANGED <<seq_events, input_event_mq, dropped, want, want1, want2, down>>
    BY <1>2 DEF kbParseButtons, inputOnlyUnchanged, historyVars
  <2>2. \/ UNCHANGED input_events
        \/ input_events' = [is_held |-> Collect(button_data), just_pressed |-> Collect(JustPressed),
                            just_released |-> Collect(JustReleased)]
    BY <1>2 DEF kbParseButtons
  <2>3. /\ Collect(button_data) \in ButtonData /\ Collect(JustPressed) \in ButtonData
        /\ Collect(JustReleased) \in ButtonData
    <3>1. \A r \in Regs : /\ button_data[r] \in Byte /\ JustPressed[r] \in Byte
                          /\ JustReleased[r] \in Byte
      BY DEF ScanTypes, Image, JustPressed, JustReleased, Byte
    <3> QED BY <3>1, CollectType
  <2>4. input_events' \in InputEvents
    BY <2>2, <2>3 DEF InputEvents
  <2> QED BY <2>1, <2>4
<1>3. CASE inputQueueSend
  <2>1. UNCHANGED <<input_events, seq_events, want, want1, want2, down>>
    BY <1>3 DEF inputQueueSend, inputOnlyUnchanged
  <2>2. \/ UNCHANGED <<input_event_mq, dropped>>
        \/ /\ input_event_mq' = Enqueue(input_events)
           /\ dropped' = (dropped \/ Len(input_event_mq) = QueueLen)
    BY <1>3 DEF inputQueueSend
  <2>3. dropped' \in BOOLEAN
    BY <2>2
  <2>4. /\ Append(input_event_mq, input_events) \in Seq(InputEvents)
        /\ Len(Append(input_event_mq, input_events)) = Len(input_event_mq) + 1
        /\ Len(input_event_mq) \in Nat
    OBVIOUS
  <2>5. \A n \in Nat : n < QueueLen => n + 1 <= QueueLen
    BY QueueLenAssumption
  <2>6. input_event_mq' \in Seq(InputEvents) /\ Len(input_event_mq') <= QueueLen
    BY <2>2, <2>4, <2>5, Zenon DEF Enqueue
  <2> QED BY <2>1, <2>3, <2>6
<1>4. CASE seqInputQueueGet
  <2>1. UNCHANGED <<input_events, dropped, want, want1, want2>>
    BY <1>4 DEF seqInputQueueGet, seqOnlyUnchanged
  <2>2. CASE mq_state # "ok"
    <3>1. UNCHANGED <<input_event_mq, seq_events, down>>
      BY <1>4, <2>2 DEF seqInputQueueGet
    <3> QED BY <2>1, <3>1
  <2>3. CASE mq_state = "ok"
    <3>1. /\ seq_events' = Head(input_event_mq) /\ input_event_mq' = Tail(input_event_mq)
          /\ down' = (down \cup Head(input_event_mq).just_pressed.main_row)
                       \ Head(input_event_mq).just_released.main_row
      BY <1>4, <2>3 DEF seqInputQueueGet
    <3>2. input_event_mq = <<input_events>>
      BY <1>4, <2>3 DEF IInv, QueueShort, Running, Ready, seqInputQueueGet
    <3>3. Head(<<input_events>>) = input_events /\ Tail(<<input_events>>) = <<>>
      OBVIOUS
    <3>4. seq_events' \in InputEvents /\ input_event_mq' = <<>>
      BY <3>1, <3>2, <3>3
    <3>5. input_event_mq' \in Seq(InputEvents) /\ Len(input_event_mq') <= QueueLen
      <4>1. Len(<<>>) = 0 /\ <<>> \in Seq(InputEvents)
        OBVIOUS
      <4> QED BY <3>4, <4>1, QueueLenAssumption
    <3>6. down' \subseteq Row
      <4>1. input_events.just_pressed.main_row \subseteq Row
        BY DEF InputEvents, ButtonData
      <4> QED BY <3>1, <3>2, <3>3, <4>1
    <3> QED BY <2>1, <3>4, <3>5, <3>6
  <2> QED BY <2>2, <2>3
<1>5. CASE inputTaskInit \/ sequencerTaskInit \/ blink \/ mainWake \/ moveKey
  <2>1. UNCHANGED <<input_events, seq_events, input_event_mq, dropped, want, want1, want2, down>>
    BY <1>5 DEF inputTaskInit, sequencerTaskInit, blink, mainWake, moveKey, mainOnlyUnchanged,
                historyVars
  <2> QED BY <2>1
<1>6. CASE kbLEDDataGet \/ kbInvert \/ inputDelay \/ inputWake
  <2>1. UNCHANGED <<input_events, seq_events, input_event_mq, dropped, want, want1, want2, down>>
    BY <1>6 DEF kbLEDDataGet, kbInvert, inputDelay, inputWake, inputOnlyUnchanged, historyVars
  <2> QED BY <2>1
<1>7. CASE seqTaskEntry \/ seqStepToggle \/ kbLEDDataClear \/ kbLEDDataSend
  <2>1. UNCHANGED <<input_events, seq_events, input_event_mq, dropped, want, want1, want2, down>>
    BY <1>7 DEF seqTaskEntry, seqStepToggle, kbLEDDataClear, kbLEDDataSend, seqOnlyUnchanged
  <2> QED BY <2>1
<1>8. CASE spiPoll \/ rt_assert_handler \/ spiClock \/ UNCHANGED vars
  <2>1. UNCHANGED <<input_events, seq_events, input_event_mq, dropped, want, want1, want2, down>>
    BY <1>8 DEF spiPoll, rt_assert_handler, spiClock, vars, threadVars, historyVars
  <2> QED BY <2>1
<1> QED BY <1>1, <1>2, <1>3, <1>4, <1>5, <1>6, <1>7, <1>8 DEF Next

(* Every step keeps what is known of the transfer. *)
LEMMA SpiKept ==
    ASSUME IInv, SpiInv, ScanTypes, [Next]_vars
    PROVE  SpiInv'
<1>1. CASE kbLatch
  BY <1>1, LatchSpi DEF ScanTypes
<1>2. CASE kbInvert
  BY <1>2, InvertSpi
<1>3. CASE spiPoll
  <2>1. /\ SendByte \/ TxTimeout \/ ReceiveByte \/ RxTimeout
        /\ UNCHANGED <<in_pc, latches>>
    BY <1>3 DEF spiPoll, threadVars, historyVars
  <2> QED BY <2>1, PollStep
<1>4. CASE spiClock
  <2>1. ClockByte /\ UNCHANGED <<in_pc, latches>>
    BY <1>4 DEF spiClock, threadVars, historyVars
  <2> QED BY <2>1, ClockStep
<1>5. CASE inputTaskInit \/ sequencerTaskInit \/ blink \/ mainWake \/ moveKey
  <2>1. UNCHANGED <<spiVars, latches>>
    BY <1>5 DEF inputTaskInit, sequencerTaskInit, blink, mainWake, moveKey, mainOnlyUnchanged,
                historyVars
  <2>2. in_pc = "xfer" <=> in_pc' = "xfer"
    <3>1. CASE inputTaskInit
      <4>1. in_pc \in {"absent", "get"}
        BY <3>1 DEF inputTaskInit, IInv, BootFirst
      <4>2. in_pc' \in {in_pc, "get", "absent"}
        BY <3>1 DEF inputTaskInit, rt_thread_create, Outcomes
      <4> QED BY <4>1, <4>2
    <3>2. CASE sequencerTaskInit \/ blink \/ mainWake \/ moveKey
      BY <3>2 DEF sequencerTaskInit, blink, mainWake, moveKey, mainOnlyUnchanged
    <3> QED BY <1>5, <3>1, <3>2
  <2> QED BY <2>1, <2>2, QuietSpi
<1>6. CASE kbLEDDataGet \/ kbParseButtons \/ inputQueueSend \/ inputDelay \/ inputWake
  <2>1. UNCHANGED <<spiVars, latches>> /\ in_pc # "xfer" /\ in_pc' # "xfer"
    BY <1>6 DEF kbLEDDataGet, kbParseButtons, inputQueueSend, inputDelay, inputWake,
                inputOnlyUnchanged, historyVars
  <2> QED BY <2>1, QuietSpi
<1>7. CASE seqTaskEntry \/ seqInputQueueGet \/ seqStepToggle \/ kbLEDDataClear \/ kbLEDDataSend
  <2>1. UNCHANGED <<spiVars, latches>> /\ in_pc' = in_pc
    BY <1>7 DEF seqTaskEntry, seqInputQueueGet, seqStepToggle, kbLEDDataClear, kbLEDDataSend,
                seqOnlyUnchanged
  <2> QED BY <2>1, QuietSpi
<1>8. CASE rt_assert_handler \/ UNCHANGED vars
  <2>1. UNCHANGED <<spiVars, latches>> /\ in_pc' = in_pc
    BY <1>8 DEF rt_assert_handler, vars, threadVars, historyVars
  <2> QED BY <2>1, QuietSpi
<1> QED BY <1>1, <1>2, <1>3, <1>4, <1>5, <1>6, <1>7, <1>8 DEF Next

(* All of it holds at power-up. *)
LEMMA InitTypes ==
    ASSUME Init
    PROVE  SpiInv /\ ScanTypes /\ EventTypes
<1>1. <<>> \in Seq(Byte) /\ Len(<<>>) = 0 /\ {} \in Byte /\ PowerUp \subseteq Byte
  BY PowerUpAssumption DEF Byte, Bits
<1>2. SpiTypeOK
  <2>1. send_buf \in Chain /\ btnChain \in Chain
    BY <1>1 DEF Init, SpiInit, Chain
  <2>2. ledChain \in Chain
    BY <1>1 DEF Init, SpiInit, Chain
  <2>3. faults \in 0 .. MaxFaults /\ sent \in 0 .. KB_CHAIN_LENGTH /\ expired \in BOOLEAN
    <3>1. faults = 0 /\ sent = 0 /\ expired = FALSE
      BY DEF Init, SpiInit
    <3>2. 0 \in 0 .. MaxFaults /\ 0 \in 0 .. KB_CHAIN_LENGTH
      BY FaultsAssumption DEF KB_CHAIN_LENGTH
    <3> QED BY <3>1, <3>2
  <2>4. /\ recv_buf \in Seq(Byte) /\ wire \in Seq(Byte) /\ dr \in Seq(Byte)
        /\ Len(recv_buf) <= 3 /\ Len(wire) <= 2 /\ Len(dr) <= 1
    BY <1>1 DEF Init, SpiInit
  <2> QED BY <2>1, <2>2, <2>3, <2>4 DEF Init, SpiInit, SpiTypeOK, KB_CHAIN_LENGTH
<1>3. /\ spi_pc = "idle" /\ in_pc = "absent" /\ latches = 0 /\ sent = 0
      /\ recv_buf = <<>> /\ wire = <<>>
  BY DEF Init, SpiInit
<1>4. Due = 0 /\ Clocked = 0
  <2>1. Len(recv_buf) = 0 /\ Len(wire) = 0 /\ sent = 0 /\ spi_pc # "rxne"
    BY <1>1, <1>3
  <2> QED BY <2>1 DEF Due, Clocked
<1>5. Transfer /\ Shifting
  <2>1. Len(wire) = 0
    BY <1>1, <1>3
  <2> QED BY <1>3, <1>4, <2>1 DEF Transfer, Shifting
<1>6. ScanTypes
  <2>1. Dark \in Image
    BY <1>1 DEF Dark, Image
  <2>2. /\ button_data = Dark /\ button_data_prev = Dark /\ keys = Dark /\ sample = Dark
        /\ ledOut = Dark /\ changes = 0 /\ latches = 0 /\ led1 = FALSE /\ mq_state = "none"
    BY DEF Init
  <2>3. 0 \in 0 .. MaxChanges /\ 0 \in 0 .. 2
    BY ChangesAssumption
  <2> QED BY <2>1, <2>2, <2>3 DEF ScanTypes
<1>7. EventTypes
  <2>1. NoEvents \in InputEvents
    BY <1>1 DEF NoEvents, NoButtons, InputEvents, ButtonData
  <2>2. <<>> \in Seq(InputEvents)
    OBVIOUS
  <2>3. input_event_mq = <<>> /\ Len(input_event_mq) = 0
    BY <1>1 DEF Init
  <2>4. Len(input_event_mq) <= QueueLen
    BY <2>3, QueueLenAssumption
  <2> QED BY <2>1, <2>2, <2>3, <2>4 DEF Init, EventTypes
<1> QED BY <1>2, <1>5, <1>6, <1>7 DEF SpiInv

(* The second part of the inductive invariant. *)
TInv == IInv /\ SpiInv /\ ScanTypes /\ EventTypes

THEOREM TypesInvariant == Spec => []TInv
<1>1. Init => TInv
  BY InitIInv, InitTypes DEF TInv
<1>2. TInv /\ [Next]_vars => TInv'
  BY NextIInv, SpiKept, ScanTypesKept, EventTypesKept DEF TInv
<1> QED BY <1>1, <1>2, PTL DEF Spec

(* Every variable keeps to its type. *)
THEOREM TypeCorrect == Spec => []TypeOK
<1>1. TInv => TypeOK
  <2> SUFFICES ASSUME TInv PROVE TypeOK
    OBVIOUS
  <2>1. SpiTypeOK
    BY DEF TInv, SpiInv
  <2>2. Len(led_data) <= KB_CHAIN_LENGTH
    BY DEF TInv, IInv, Copying
  <2> QED BY <2>1, <2>2 DEF TInv, IInv, CoreTypes, ScanTypes, EventTypes, TypeOK
<1> QED BY <1>1, TypesInvariant, PTL

(* With every byte sent and the wire quiet, the bytes are in the registers. *)
LEMMA SentIsShifted == SpiInv => LedFrameShifted
<1> SUFFICES ASSUME SpiInv, wire = <<>>, sent = 3
             PROVE  ledChain = send_buf
  BY DEF LedFrameShifted, KB_CHAIN_LENGTH
<1>1. /\ sent = Due /\ Clocked = 3
      /\ send_buf \in [1 .. 3 -> Byte] /\ ledChain \in [1 .. 3 -> Byte]
  <2>1. sent <= Due /\ Due \in 0 .. 3
    BY SpiNumbers
  <2>2. Len(wire) = 0
    OBVIOUS
  <2> QED BY <2>1, <2>2, SpiNumbers DEF Clocked
<1>2. \A i \in 1 .. 3 : ledChain[3 - Clocked + i] = send_buf[i]
  BY <1>1 DEF SpiInv, Shifting, KB_CHAIN_LENGTH
<1>3. \A i \in 1 .. 3 : 3 - Clocked + i = i
  BY <1>1
<1> QED BY <1>1, <1>2, <1>3

(* When all bytes of a transfer were sent and the wire is quiet, the LED     *)
(* registers hold the transfer's bytes, whichever polls expired.             *)
THEOREM FramesShiftThrough == Spec => []LedFrameShifted
<1>1. TInv => LedFrameShifted
  BY SentIsShifted DEF TInv
<1> QED BY <1>1, TypesInvariant, PTL

-----------------------------------------------------------------------------
(* What a scan without an expired poll reads *)

(* Byte i of a transfer that reads the keys as they were at the latch pulse. *)
Sampled(i) == Bits \ sample[i - 1]

(* While no wait expired, the bytes come back one by one: at most one is on  *)
(* its way, and what is read, waits to be read or is still in the registers  *)
(* is the sample, in order.                                                  *)
Sampling ==
    faults = 0 =>
        /\ sent = Due
        /\ spi_pc # "rxne" => wire = <<>> /\ dr = <<>>
        /\ spi_pc = "rxne" => \/ Len(wire) = 1 /\ dr = <<>>
                              \/ wire = <<>> /\ dr = <<Sampled(Due)>>
        /\ \A i \in 1 .. Len(recv_buf) : recv_buf[i] = Sampled(i)
        /\ spi_pc # "idle" => \A i \in 1 .. KB_CHAIN_LENGTH - Clocked :
                                  btnChain[i] = Sampled(Clocked + i)

(* What kbInvert and kbParseButtons make of it. *)
Reading ==
    faults = 0 =>
        /\ in_pc = "parse" => button_data = sample
        /\ in_pc \notin {"xfer", "parse"} => MainRow(button_data_prev) = MainRow(sample)

LEMMA SendByteSamples ==
    ASSUME SpiInv, Sampling, SendByte, UNCHANGED sample
    PROVE  Sampling'
<1> SUFFICES ASSUME faults' = 0 PROVE Sampling'
  BY DEF Sampling
<1> DEFINE n == Len(recv_buf)
<1>1. /\ spi_pc = "txe" /\ spi_pc' = "rxne" /\ sent' = sent + 1
      /\ wire' = Append(wire, send_buf[n + 1])
      /\ UNCHANGED <<recv_buf, dr, btnChain, faults>>
  BY DEF SendByte
<1>2. /\ sent = Due /\ wire = <<>> /\ dr = <<>>
      /\ \A i \in 1 .. n : recv_buf[i] = Sampled(i)
      /\ \A i \in 1 .. 3 - Clocked : btnChain[i] = Sampled(Clocked + i)
  BY <1>1 DEF Sampling, KB_CHAIN_LENGTH
<1>3. n \in 0 .. 3 /\ Due = n /\ Due' = n + 1
  BY <1>1, SpiNumbers DEF Due
<1>4. wire' = <<send_buf[n + 1]>> /\ Len(wire) = 0 /\ Len(wire') = 1
  BY <1>1, <1>2
<1>5. sent' = Due' /\ Clocked' = Clocked
  BY <1>1, <1>2, <1>3, <1>4 DEF Clocked
<1>6. \A i : Sampled(i)' = Sampled(i)
  BY DEF Sampled
<1> QED BY <1>1, <1>2, <1>4, <1>5, <1>6 DEF Sampling, KB_CHAIN_LENGTH

LEMMA ReceiveByteSamples ==
    ASSUME SpiInv, Sampling, ReceiveByte, UNCHANGED sample
    PROVE  Sampling'
<1> SUFFICES ASSUME faults' = 0 PROVE Sampling'
  BY DEF Sampling
<1> DEFINE n == Len(recv_buf)
<1>1. /\ spi_pc = "rxne" /\ spi_pc' \in {"txe", "done"} /\ dr # <<>> /\ dr' = <<>>
      /\ recv_buf' = Append(recv_buf, dr[1])
      /\ UNCHANGED <<wire, btnChain, faults, sent>>
  BY DEF ReceiveByte, RXNE, Store
<1>2. /\ sent = Due /\ wire = <<>> /\ dr = <<Sampled(Due)>>
      /\ \A i \in 1 .. n : recv_buf[i] = Sampled(i)
      /\ \A i \in 1 .. 3 - Clocked : btnChain[i] = Sampled(Clocked + i)
  BY <1>1 DEF Sampling, KB_CHAIN_LENGTH
<1>3. n \in 0 .. 3 /\ Due = n + 1 /\ recv_buf \in Seq(Byte) /\ dr \in Seq(Byte)
  BY <1>1, SpiNumbers DEF Due
<1>4. dr[1] \in Byte /\ dr[1] = Sampled(n + 1)
  BY <1>1, <1>2, <1>3
<1>5. /\ Len(recv_buf') = n + 1 /\ recv_buf'[n + 1] = Sampled(n + 1)
      /\ \A i \in 1 .. n : recv_buf'[i] = recv_buf[i]
  BY <1>1, <1>3, <1>4
<1>6. Due' = Due /\ Clocked' = Clocked
  BY <1>1, <1>3, <1>5 DEF Due, Clocked
<1>7. \A i : Sampled(i)' = Sampled(i)
  BY DEF Sampled
<1>8. \A i \in 1 .. Len(recv_buf') : recv_buf'[i] = Sampled(i)
  <2>1. \A i \in 1 .. n + 1 : i \in 1 .. n \/ i = n + 1
    BY <1>3
  <2> QED BY <1>2, <1>5, <2>1
<1> QED BY <1>1, <1>2, <1>6, <1>7, <1>8 DEF Sampling, KB_CHAIN_LENGTH

(* Without an earlier expiry no wait for TXE expires; an expiry ends the claim. *)
LEMMA TimeoutSamples ==
    ASSUME SpiInv, Sampling, TxTimeout \/ RxTimeout
    PROVE  Sampling'
<1>1. CASE TxTimeout
  <2>1. spi_pc = "txe" /\ ~(Len(wire) < 2) /\ UNCHANGED faults
    BY <1>1 DEF TxTimeout, TXE
  <2>2. faults # 0
    BY <2>1 DEF Sampling
  <2> QED BY <2>1, <2>2 DEF Sampling
<1>2. CASE RxTimeout
  <2>1. faults' = faults + 1 /\ faults \in Nat
    BY <1>2, SpiNumbers DEF RxTimeout
  <2> QED BY <2>1 DEF Sampling
<1> QED BY <1>1, <1>2

LEMMA ClockByteSamples ==
    ASSUME SpiInv, Sampling, ClockByte, UNCHANGED sample
    PROVE  Sampling'
<1> SUFFICES ASSUME faults' = 0 PROVE Sampling'
  BY DEF Sampling
<1>1. /\ wire # <<>> /\ wire' = Tail(wire)
      /\ dr' = IF dr # <<>> THEN dr ELSE <<btnChain[1]>>
      /\ btnChain' = Shifted(btnChain, {})
      /\ UNCHANGED <<spi_pc, recv_buf, faults, sent>>
  BY DEF ClockByte, RXNE
<1>2. /\ sent = Due /\ spi_pc = "rxne" /\ Len(wire) = 1 /\ dr = <<>>
      /\ \A i \in 1 .. Len(recv_buf) : recv_buf[i] = Sampled(i)
      /\ \A i \in 1 .. 3 - Clocked : btnChain[i] = Sampled(Clocked + i)
  BY <1>1 DEF Sampling, KB_CHAIN_LENGTH
<1>3. wire' = <<>> /\ Len(wire') = 0
  <2>1. wire \in Seq(Byte)
    BY SpiNumbers
  <2> QED BY <1>1, <1>2, <2>1
<1>4. Due \in 1 .. 3 /\ Due' = Due
  <2>1. Len(recv_buf) \in 0 .. 3 /\ Due \in 0 .. 3
    BY SpiNumbers
  <2> QED BY <1>1, <1>2, <2>1 DEF Due
<1>5. Clocked \in 0 .. 2 /\ Clocked + 1 = Due /\ Clocked' = Clocked + 1
  <2>1. sent' = Due /\ sent = Due /\ Len(wire) = 1 /\ Len(wire') = 0
    BY <1>1, <1>2, <1>3
  <2>2. Clocked = Due - 1 /\ Clocked' = Due - 0
    BY <2>1 DEF Clocked
  <2> QED BY <1>4, <2>2
<1>6. dr' = <<Sampled(Due)>>
  <2>1. 1 \in 1 .. 3 - Clocked
    BY <1>5
  <2> QED BY <1>1, <1>2, <1>5, <2>1
<1>7. ASSUME NEW i \in 1 .. 3 - Clocked' PROVE btnChain'[i] = Sampled(Clocked' + i)
  <2>1. /\ i \in 1 .. 3 /\ i # 3 /\ i + 1 \in 1 .. 3 - Clocked
        /\ Clocked + (i + 1) = Clocked' + i
    BY <1>5
  <2>2. btnChain'[i] = btnChain[i + 1]
    BY <1>1, <2>1 DEF Shifted, KB_CHAIN_LENGTH
  <2> QED BY <1>2, <2>1, <2>2
<1>8. \A i : Sampled(i)' = Sampled(i)
  BY DEF Sampled
<1> QED BY <1>1, <1>2, <1>3, <1>4, <1>6, <1>7, <1>8 DEF Sampling, KB_CHAIN_LENGTH

LEMMA LatchSamples ==
    ASSUME SpiInv, Sampling, kbLatch
    PROVE  Sampling'
<1> SUFFICES ASSUME faults' = 0 PROVE Sampling'
  BY DEF Sampling
<1>1. /\ in_pc = "latch" /\ wire = <<>> /\ spi_pc = "idle" /\ spi_pc' = "txe"
      /\ recv_buf' = <<>> /\ sent' = 0 /\ sample' = keys
      /\ btnChain' = [i \in 1 .. 3 |-> Bits \ keys[i - 1]]
      /\ UNCHANGED <<wire, dr, faults>>
  BY DEF kbLatch, rt_spi_transfer, KB_CHAIN_LENGTH
<1>2. dr = <<>>
  BY <1>1 DEF Sampling
<1>3. Len(recv_buf') = 0 /\ Len(wire') = 0
  BY <1>1
<1>4. Due' = 0 /\ Clocked' = 0
  <2>1. spi_pc' # "rxne" /\ sent' = 0
    BY <1>1
  <2> QED BY <1>3, <2>1 DEF Due, Clocked
<1>5. \A i \in 1 .. 3 : btnChain'[i] = Sampled(i)'
  BY <1>1 DEF Sampled
<1>6. \A i \in 1 .. 3 - Clocked' : i \in 1 .. 3 /\ Clocked' + i = i
  BY <1>4
<1>7. \A i \in 1 .. 3 - Clocked' : btnChain'[i] = Sampled(Clocked + i)'
  <2>1. ASSUME NEW i \in 1 .. 3 - Clocked' PROVE btnChain'[i] = Bits \ sample'[(Clocked' + i) - 1]
    BY <1>5, <1>6 DEF Sampled
  <2> QED BY <2>1 DEF Sampled
<1>8. \A i \in 1 .. Len(recv_buf') : recv_buf'[i] = Sampled(i)'
  BY <1>3
<1> QED BY <1>1, <1>2, <1>4, <1>7, <1>8 DEF Sampling, KB_CHAIN_LENGTH

(* The end of a transfer, and the steps that have nothing to do with one. *)
LEMMA QuietSamples ==
    ASSUME Sampling, UNCHANGED <<send_buf, recv_buf, wire, dr, btnChain, faults, sent, sample>>,
           spi_pc' = spi_pc \/ (spi_pc = "done" /\ spi_pc' = "idle")
    PROVE  Sampling'
<1>1. Due' = Due /\ Clocked' = Clocked
  BY DEF Due, Clocked
<1>2. \A i : Sampled(i)' = Sampled(i)
  BY DEF Sampled
<1> QED BY <1>1, <1>2 DEF Sampling

(* What the rest is about. *)
play == <<mq_state, input_event_mq, kb_led_data, in_pc, led_data, button_data,
          button_data_prev, input_events, seq_pc, step, seq_events, ledOut, sample, want,
          want1, want2, latches, down, dropped>>

(* The steps that leave it alone: those of main's loop, of the player, of    *)
(* the driver's polls and of the peripheral.                                 *)
Aside == blink \/ mainWake \/ spiPoll \/ rt_assert_handler \/ moveKey \/ spiClock \/ UNCHANGED vars

LEMMA AsideSteps ==
    ASSUME SpiInv, Aside
    PROVE  UNCHANGED play /\ UNCHANGED send_buf /\ (faults' = 0 => faults = 0)
<1>1. CASE blink \/ mainWake \/ rt_assert_handler \/ moveKey \/ UNCHANGED vars
  BY <1>1 DEF blink, mainWake, rt_assert_handler, moveKey, mainOnlyUnchanged, vars, play,
              threadVars, historyVars, spiVars
<1>2. CASE spiClock
  BY <1>2 DEF spiClock, ClockByte, play, threadVars, historyVars
<1>3. CASE spiPoll
  <2>1. UNCHANGED play
    BY <1>3 DEF spiPoll, play, threadVars, historyVars
  <2>2. UNCHANGED send_buf /\ (faults' = faults \/ faults' = faults + 1)
    BY <1>3 DEF spiPoll, SendByte, TxTimeout, ReceiveByte, RxTimeout
  <2> QED BY <2>1, <2>2, SpiNumbers
<1> QED BY <1>1, <1>2, <1>3 DEF Aside

LEMMA SamplingKept ==
    ASSUME SpiInv, Sampling, [Next]_vars
    PROVE  Sampling'
<1>1. CASE kbLatch
  BY <1>1, LatchSamples
<1>2. CASE kbInvert
  <2>1. /\ spi_pc = "done" /\ spi_pc' = "idle"
        /\ UNCHANGED <<send_buf, recv_buf, wire, dr, btnChain, faults, sent, sample>>
    BY <1>2 DEF kbInvert, historyVars
  <2> QED BY <2>1, QuietSamples
<1>3. CASE spiPoll \/ spiClock
  <2>1. /\ SendByte \/ TxTimeout \/ ReceiveByte \/ RxTimeout \/ ClockByte
        /\ UNCHANGED sample
    BY <1>3 DEF spiPoll, spiClock, historyVars
  <2> QED BY <2>1, SendByteSamples, TimeoutSamples, ReceiveByteSamples, ClockByteSamples
<1>4. CASE \/ inputTaskInit \/ sequencerTaskInit \/ blink \/ mainWake \/ moveKey
           \/ rt_assert_handler \/ UNCHANGED vars
  <2>1. UNCHANGED <<spiVars, sample>>
    BY <1>4 DEF inputTaskInit, sequencerTaskInit, blink, mainWake, moveKey, mainOnlyUnchanged,
                rt_assert_handler, vars, historyVars
  <2> QED BY <2>1, QuietSamples DEF spiVars
<1>5. CASE kbLEDDataGet \/ kbParseButtons \/ inputQueueSend \/ inputDelay \/ inputWake
  <2>1. UNCHANGED <<spiVars, sample>>
    BY <1>5 DEF kbLEDDataGet, kbParseButtons, inputQueueSend, inputDelay, inputWake, historyVars
  <2> QED BY <2>1, QuietSamples DEF spiVars
<1>6. CASE seqTaskEntry \/ seqInputQueueGet \/ seqStepToggle \/ kbLEDDataClear \/ kbLEDDataSend
  <2>1. UNCHANGED <<spiVars, sample>>
    BY <1>6 DEF seqTaskEntry, seqInputQueueGet, seqStepToggle, kbLEDDataClear, kbLEDDataSend,
                seqOnlyUnchanged
  <2> QED BY <2>1, QuietSamples DEF spiVars
<1> QED BY <1>1, <1>2, <1>3, <1>4, <1>5, <1>6 DEF Next

(* The keys of the main row are in the registers that kbParseButtons compares. *)
LEMMA MainRowOf ==
    ASSUME NEW f, NEW g, \A r \in 0 .. 1 : f[r] = g[r]
    PROVE  MainRow(f) = MainRow(g)
<1>1. \A p \in Row : 1 - p[1] \in 0 .. 1
  BY DEF Row
<1> QED BY <1>1 DEF MainRow

LEMMA RememberedRow ==
    ASSUME ScanTypes
    PROVE  /\ MainRow(Remembered) = MainRow(button_data)
           /\ Changed = {} => MainRow(button_data) = MainRow(button_data_prev)
<1>1. \A r \in 0 .. 1 : r \in Regs
  BY DEF Regs, KB_CHAIN_LENGTH
<1>2. \A r \in 0 .. 1 : Remembered[r] = button_data[r]
  BY <1>1 DEF Remembered, Changed
<1>3. Changed = {} => \A r \in 0 .. 1 : button_data[r] = button_data_prev[r]
  BY DEF Changed
<1> QED BY <1>2, <1>3, MainRowOf

(* What kbParseButtons reports of the main row. *)
LEMMA CollectedRow ==
    /\ Collect(JustPressed).main_row = MainRow(button_data) \ MainRow(button_data_prev)
    /\ Collect(JustReleased).main_row = MainRow(button_data_prev) \ MainRow(button_data)
<1>1. \A r \in 0 .. 1 : r \in Regs
  BY DEF Regs, KB_CHAIN_LENGTH
<1>2. \A p \in Row : 1 - p[1] \in 0 .. 1
  BY DEF Row
<1>3. Collect(JustPressed).main_row = MainRow(button_data) \ MainRow(button_data_prev)
  <2> DEFINE masked == [r \in Regs |-> IF r \in Changed THEN JustPressed[r] ELSE {}]
  <2>1. \A r \in 0 .. 1 : masked[r] = button_data[r] \ button_data_prev[r]
    BY <1>1 DEF JustPressed, Changed
  <2>2. Collect(JustPressed).main_row = MainRow(masked)
    BY DEF Collect
  <2> HIDE DEF masked
  <2> QED BY <1>2, <2>1, <2>2 DEF MainRow
<1>4. Collect(JustReleased).main_row = MainRow(button_data_prev) \ MainRow(button_data)
  <2> DEFINE masked == [r \in Regs |-> IF r \in Changed THEN JustReleased[r] ELSE {}]
  <2>1. \A r \in 0 .. 1 : masked[r] = button_data_prev[r] \ button_data[r]
    BY <1>1 DEF JustReleased, Changed
  <2>2. Collect(JustReleased).main_row = MainRow(masked)
    BY DEF Collect
  <2> HIDE DEF masked
  <2> QED BY <1>2, <2>1, <2>2 DEF MainRow
<1> QED BY <1>3, <1>4

(* The steps that change neither the keys read nor where the scan is. *)
Elsewhere ==
    \/ inputTaskInit \/ sequencerTaskInit \/ kbLEDDataGet \/ inputQueueSend \/ inputDelay
    \/ inputWake \/ seqTaskEntry \/ seqInputQueueGet \/ seqStepToggle \/ kbLEDDataClear
    \/ kbLEDDataSend

LEMMA ElsewhereSteps ==
    ASSUME IInv, Elsewhere
    PROVE  /\ UNCHANGED <<spiVars, button_data, button_data_prev, sample, want, want1, want2,
                          latches, ledOut>>
           /\ \/ in_pc' = in_pc
              \/ in_pc \notin {"xfer", "parse"} /\ in_pc' \notin {"xfer", "parse"}
<1>1. CASE inputTaskInit \/ sequencerTaskInit
  <2>1. in_pc \in {"absent", "get"}
    BY <1>1 DEF inputTaskInit, sequencerTaskInit, IInv, BootFirst
  <2> QED BY <1>1, <2>1 DEF inputTaskInit, sequencerTaskInit, rt_thread_create, Outcomes,
                            historyVars
<1>2. CASE kbLEDDataGet \/ inputQueueSend \/ inputDelay \/ inputWake
  BY <1>2 DEF kbLEDDataGet, inputQueueSend, inputDelay, inputWake, historyVars
<1>3. CASE seqTaskEntry \/ seqInputQueueGet \/ seqStepToggle \/ kbLEDDataClear \/ kbLEDDataSend
  BY <1>3 DEF seqTaskEntry, seqInputQueueGet, seqStepToggle, kbLEDDataClear, kbLEDDataSend,
              seqOnlyUnchanged
<1> QED BY <1>1, <1>2, <1>3 DEF Elsewhere

(* Every step is one of these, or one of the three that read the keys. *)
LEMMA StepKinds ==
    ASSUME [Next]_vars
    PROVE  Aside \/ Elsewhere \/ kbLatch \/ kbInvert \/ kbParseButtons
BY DEF Next, Aside, Elsewhere

LEMMA ReadingKept ==
    ASSUME IInv, SpiInv, ScanTypes, Sampling, Reading, [Next]_vars
    PROVE  Reading'
<1>1. CASE Aside
  BY <1>1, AsideSteps DEF Reading, play
<1>2. CASE Elsewhere
  BY <1>2, ElsewhereSteps DEF Reading, spiVars
<1>3. CASE kbLatch
  BY <1>3 DEF kbLatch, Reading
<1>4. CASE kbInvert
  <2> SUFFICES ASSUME faults = 0 PROVE button_data' = sample'
    BY <1>4 DEF kbInvert, Reading
  <2>1. /\ spi_pc = "done" /\ UNCHANGED sample
        /\ button_data' = [r \in Regs |-> Bits \ recv_buf[r + 1]]
    BY <1>4 DEF kbInvert, historyVars
  <2>2. \A i \in 1 .. 3 : recv_buf[i] = Bits \ sample[i - 1]
    BY <2>1 DEF Sampling, Sampled, SpiInv, Transfer, KB_CHAIN_LENGTH
  <2>3. \A r \in Regs : r + 1 \in 1 .. 3 /\ (r + 1) - 1 = r
    BY DEF Regs, KB_CHAIN_LENGTH
  <2>4. \A r \in Regs : recv_buf[r + 1] = Bits \ sample[r]
    BY <2>2, <2>3
  <2>5. \A r \in Regs : sample[r] \subseteq Bits
    BY DEF ScanTypes, Image, Byte
  <2>6. \A r \in Regs : Bits \ recv_buf[r + 1] = sample[r]
    BY <2>4, <2>5
  <2>7. sample = [r \in Regs |-> sample[r]]
    BY DEF ScanTypes, Image
  <2> QED BY <2>1, <2>6, <2>7
<1>5. CASE kbParseButtons
  <2>1. /\ in_pc = "parse" /\ in_pc' \in {"send", "delay"} /\ button_data_prev' = Remembered
        /\ UNCHANGED <<faults, sample>>
    BY <1>5 DEF kbParseButtons, spiVars, historyVars
  <2> QED BY <2>1, RememberedRow DEF Reading
<1> QED BY <1>1, <1>2, <1>3, <1>4, <1>5, StepKinds

-----------------------------------------------------------------------------
(* From a key to its LED *)

Pressed(e) == e.just_pressed.main_row
Released(e) == e.just_released.main_row

(* Before the first latch pulse no press counts, and the sequencer starts    *)
(* before it; an event that is being dealt with has left the queue.          *)
Fresh ==
    /\ latches = 0 => want = {} /\ in_pc \in {"absent", "get", "latch"}
    /\ seq_pc = "start" => latches = 0 /\ input_event_mq = <<>>
    /\ seq_pc \in {"toggle", "clear", "draw"} => input_event_mq = <<>>

(* The presses that want counts already and the steps do not show yet: they  *)
(* are in the sequencer's hands, in the queue or the input task's event, or  *)
(* still to be found by kbParseButtons.                                      *)
Outstanding ==
    IF seq_pc = "toggle" THEN Pressed(seq_events)
    ELSE IF input_event_mq # <<>> \/ in_pc = "send" THEN Pressed(input_events)
    ELSE IF in_pc \in {"xfer", "parse"} THEN MainRow(sample) \ MainRow(button_data_prev)
    ELSE {}

Pattern(S) == [p \in Row |-> IF p \in S THEN {0} ELSE empty]

Toggling ==
    faults = 0 /\ mq_state = "ok" /\ seq_pc \notin {"absent", "start"}
        => step = Pattern(Xor(want, Outstanding))

(* The picture under way is one latch pulse old. *)
Lagging ==
    faults = 0 /\ mq_state = "ok" /\ seq_pc # "absent" /\ latches > 0
        => send_buf = [i \in 1 .. KB_CHAIN_LENGTH |-> LedImage(want1)[i - 1]]

LEMMA FreshKept ==
    ASSUME IInv, SpiInv, ScanTypes, Fresh, [Next]_vars
    PROVE  Fresh'
<1>1. CASE Aside
  BY <1>1, AsideSteps DEF Fresh, play
<1>2. CASE inputTaskInit \/ sequencerTaskInit
  <2>1. /\ main_pc \in {"start", "started"} /\ seq_pc' \in {"start", "absent"}
        /\ in_pc' \in {in_pc, "get", "absent"}
        /\ UNCHANGED <<latches, want, input_event_mq>>
    BY <1>2 DEF inputTaskInit, sequencerTaskInit, rt_thread_create, Outcomes, historyVars,
                IInv, BootFirst
  <2>2. input_event_mq = <<>> /\ latches = 0
    BY <2>1 DEF IInv, BootFirst
  <2> QED BY <2>1, <2>2 DEF Fresh
<1>3. CASE kbLEDDataGet \/ inputQueueSend \/ inputDelay \/ inputWake
  <2>1. /\ UNCHANGED <<latches, want, seq_pc>>
        /\ in_pc \in {"get", "send", "delay", "sleep"}
        /\ in_pc' \in {"latch", "get"} \/ in_pc # "get"
    BY <1>3 DEF kbLEDDataGet, inputQueueSend, inputDelay, inputWake, inputOnlyUnchanged,
                historyVars
  <2>2. seq_pc \in {"start", "toggle", "clear", "draw"} => UNCHANGED input_event_mq
    <3>1. CASE inputQueueSend
      BY <3>1, InputRuns DEF inputQueueSend
    <3>2. CASE kbLEDDataGet \/ inputDelay \/ inputWake
      BY <3>2 DEF kbLEDDataGet, inputDelay, inputWake
    <3> QED BY <1>3, <3>1, <3>2
  <2> QED BY <2>1, <2>2 DEF Fresh
<1>4. CASE kbLatch \/ kbInvert \/ kbParseButtons
  <2>1. /\ Running("input") /\ UNCHANGED <<seq_pc, input_event_mq>>
        /\ in_pc \in {"xfer", "parse"} => UNCHANGED latches
        /\ in_pc = "latch" => latches' = IF latches < 2 THEN latches + 1 ELSE 2
        /\ in_pc \in {"latch", "xfer", "parse"}
    BY <1>4 DEF kbLatch, kbInvert, kbParseButtons, inputOnlyUnchanged, historyVars
  <2>2. seq_pc \in {"absent", "recv"}
    BY <2>1, InputRuns
  <2>3. latches' # 0
    BY <2>1 DEF Fresh, ScanTypes
  <2> QED BY <2>1, <2>2, <2>3 DEF Fresh
<1>5. CASE seqTaskEntry \/ seqStepToggle \/ kbLEDDataClear \/ kbLEDDataSend
  <2>1. /\ UNCHANGED <<latches, want, in_pc, input_event_mq>>
        /\ seq_pc' \in {"recv", "clear", "draw"}
        /\ seq_pc \in {"toggle", "clear", "draw"} \/ seq_pc' = "recv"
    BY <1>5 DEF seqTaskEntry, seqStepToggle, kbLEDDataClear, kbLEDDataSend, seqOnlyUnchanged
  <2> QED BY <2>1 DEF Fresh
<1>6. CASE seqInputQueueGet
  <2>1. /\ UNCHANGED <<latches, want, in_pc>> /\ Running("sequencer") /\ seq_pc = "recv"
        /\ \/ seq_pc' = "halt"
           \/ seq_pc' = "toggle" /\ mq_state = "ok" /\ input_event_mq' = Tail(input_event_mq)
    BY <1>6 DEF seqInputQueueGet, seqOnlyUnchanged
  <2>2. seq_pc' = "toggle" => input_event_mq = <<input_events>>
    BY <2>1 DEF IInv, QueueShort, Running, Ready
  <2>3. Tail(<<input_events>>) = <<>>
    OBVIOUS
  <2> QED BY <2>1, <2>2, <2>3 DEF Fresh
<1> QED BY <1>1, <1>2, <1>3, <1>4, <1>5, <1>6, StepKinds DEF Elsewhere

(* Toggling twice is not toggling. *)
LEMMA XorTwice ==
    ASSUME NEW S, NEW T
    PROVE  Xor(Xor(S, T), T) = S /\ Xor(S, {}) = S
BY DEF Xor

(* seqStepToggle toggles the pattern's steps. *)
LEMMA TogglePattern ==
    ASSUME NEW S, NEW T
    PROVE  [p \in Row |-> IF p \in T THEN Xor(Pattern(S)[p], {0}) ELSE Pattern(S)[p]]
              = Pattern(Xor(S, T))
<1>1. Xor(empty, {0}) = {0} /\ Xor({0}, {0}) = empty
  BY DEF Xor, empty
<1>2. ASSUME NEW p \in Row
      PROVE  (IF p \in T THEN Xor(Pattern(S)[p], {0}) ELSE Pattern(S)[p])
                = (IF p \in Xor(S, T) THEN {0} ELSE empty)
  <2>1. Pattern(S)[p] = IF p \in S THEN {0} ELSE empty
    BY DEF Pattern
  <2>2. p \in Xor(S, T) <=> ~(p \in S <=> p \in T)
    BY DEF Xor
  <2> QED BY <1>1, <2>1, <2>2
<1> QED BY <1>2 DEF Pattern

LEMMA ToggleToggles ==
    ASSUME IInv, Fresh, Toggling, seqStepToggle
    PROVE  Toggling'
<1> SUFFICES ASSUME faults' = 0, mq_state' = "ok"
             PROVE  step' = Pattern(Xor(want', Outstanding'))
  BY DEF Toggling
<1>1. /\ Running("sequencer") /\ seq_pc = "toggle" /\ seq_pc' = "clear"
      /\ step' = [p \in Row |-> IF p \in Pressed(seq_events) THEN Xor(step[p], {0}) ELSE step[p]]
      /\ UNCHANGED <<mq_state, faults, want, in_pc, input_event_mq>>
  BY DEF seqStepToggle, seqOnlyUnchanged, Pressed, spiVars
<1>2. step = Pattern(Xor(want, Pressed(seq_events)))
  BY <1>1 DEF Toggling, Outstanding
<1>3. Outstanding' = {}
  <2>1. in_pc \in {"absent", "delay", "sleep", "get"} /\ input_event_mq = <<>>
    BY <1>1, SequencerRuns DEF Fresh
  <2> QED BY <1>1, <2>1 DEF Outstanding
<1>4. step' = Pattern(Xor(Xor(want, Pressed(seq_events)), Pressed(seq_events)))
  BY <1>1, <1>2, TogglePattern
<1> QED BY <1>1, <1>3, <1>4, XorTwice

LEMMA LatchToggles ==
    ASSUME IInv, Reading, Toggling, kbLatch
    PROVE  Toggling'
<1> SUFFICES ASSUME faults' = 0, mq_state' = "ok", seq_pc' \notin {"absent", "start"}
             PROVE  step' = Pattern(Xor(want', Outstanding'))
  BY DEF Toggling
<1> DEFINE P == MainRow(keys) \ MainRow(sample)
<1>1. /\ Running("input") /\ in_pc = "latch" /\ in_pc' = "xfer" /\ sample' = keys
      /\ want' = Xor(want, P)
      /\ UNCHANGED <<mq_state, seq_pc, faults, input_event_mq, step, button_data_prev>>
  BY DEF kbLatch, inputOnlyUnchanged
<1>2. seq_pc = "recv" /\ input_event_mq = <<>>
  BY <1>1, InputRuns
<1>3. step = Pattern(want)
  BY <1>1, <1>2, XorTwice DEF Toggling, Outstanding
<1>4. MainRow(button_data_prev) = MainRow(sample)
  BY <1>1 DEF Reading
<1>5. Outstanding' = P
  <2>1. Outstanding' = MainRow(sample') \ MainRow(button_data_prev')
    BY <1>1, <1>2 DEF Outstanding
  <2> QED BY <1>1, <1>4, <2>1
<1> HIDE DEF P
<1> QED BY <1>1, <1>3, <1>5, XorTwice

LEMMA ParseToggles ==
    ASSUME IInv, ScanTypes, Reading, Toggling, kbParseButtons
    PROVE  Toggling'
<1> SUFFICES ASSUME faults' = 0, mq_state' = "ok", seq_pc' \notin {"absent", "start"}
             PROVE  step' = Pattern(Xor(want', Outstanding'))
  BY DEF Toggling
<1>1. /\ Running("input") /\ in_pc = "parse"
      /\ UNCHANGED <<mq_state, seq_pc, faults, input_event_mq, step, want>>
  BY DEF kbParseButtons, inputOnlyUnchanged, spiVars, historyVars
<1>2. seq_pc = "recv" /\ input_event_mq = <<>>
  BY <1>1, InputRuns
<1>3. Outstanding = MainRow(button_data) \ MainRow(button_data_prev)
  BY <1>1, <1>2 DEF Outstanding, Reading
<1>4. Outstanding' = Outstanding
  <2>1. CASE Changed = {}
    <3>1. in_pc' = "delay"
      BY <2>1 DEF kbParseButtons
    <3>2. Outstanding' = {}
      BY <1>1, <1>2, <3>1 DEF Outstanding
    <3> QED BY <1>3, <2>1, <3>2, RememberedRow
  <2>2. CASE Changed # {}
    <3>1. in_pc' = "send" /\ input_events'.just_pressed = Collect(JustPressed)
      BY <2>2 DEF kbParseButtons
    <3>2. Outstanding' = input_events'.just_pressed.main_row
      BY <1>1, <1>2, <3>1 DEF Outstanding, Pressed
    <3> QED BY <1>3, <3>1, <3>2, CollectedRow
  <2> QED BY <2>1, <2>2
<1>5. step = Pattern(Xor(want, Outstanding))
  BY <1>1, <1>2 DEF Toggling
<1> QED BY <1>1, <1>4, <1>5

(* The steps that hand an event on, or change nothing of the pattern. *)
LEMMA HandOver ==
    ASSUME IInv, Fresh, Toggling, Elsewhere, ~seqStepToggle
    PROVE  Toggling'
<1> SUFFICES ASSUME faults' = 0, mq_state' = "ok", seq_pc' \notin {"absent", "start"}
             PROVE  step' = Pattern(Xor(want', Outstanding'))
  BY DEF Toggling
<1>1. CASE inputTaskInit \/ sequencerTaskInit
  <2>1. seq_pc' \in {"absent", "start"}
    BY <1>1 DEF inputTaskInit, sequencerTaskInit, rt_thread_create, Outcomes, IInv, BootFirst
  <2> QED BY <2>1
<1>2. CASE kbLEDDataGet \/ inputDelay \/ inputWake
  <2>1. /\ in_pc \in {"get", "delay", "sleep"} /\ in_pc' \in {"get", "latch", "sleep"}
        /\ UNCHANGED <<mq_state, seq_pc, faults, input_event_mq, step, want, seq_events,
                       input_events>>
    BY <1>2 DEF kbLEDDataGet, inputDelay, inputWake, inputOnlyUnchanged, spiVars, historyVars
  <2>2. Outstanding' = Outstanding
    BY <2>1 DEF Outstanding, Pressed
  <2> QED BY <2>1, <2>2 DEF Toggling
<1>3. CASE inputQueueSend
  <2>1. /\ in_pc = "send" /\ Running("input")
        /\ UNCHANGED <<mq_state, seq_pc, faults, step, want, seq_events, input_events>>
    BY <1>3 DEF inputQueueSend, inputOnlyUnchanged, spiVars
  <2>2. seq_pc = "recv" /\ input_event_mq' = <<input_events>> /\ <<input_events>> # <<>>
    BY <1>3, <2>1, InputRuns, SendFits
  <2>3. Outstanding' = Outstanding
    BY <2>1, <2>2 DEF Outstanding, Pressed
  <2> QED BY <2>1, <2>2, <2>3 DEF Toggling
<1>4. CASE seqTaskEntry
  <2>1. /\ Running("sequencer") /\ seq_pc = "start" /\ seq_pc' = "recv"
        /\ step' = [p \in Row |-> empty]
        /\ UNCHANGED <<want, in_pc, input_event_mq>>
    BY <1>4 DEF seqTaskEntry, seqOnlyUnchanged
  <2>2. want = {} /\ input_event_mq = <<>> /\ in_pc \in {"absent", "get", "latch"}
    BY <2>1 DEF Fresh
  <2>3. Outstanding' = {}
    BY <2>1, <2>2 DEF Outstanding
  <2>4. Pattern({}) = [p \in Row |-> empty]
    BY DEF Pattern
  <2> QED BY <2>1, <2>2, <2>3, <2>4, XorTwice
<1>5. CASE seqInputQueueGet
  <2>1. /\ Running("sequencer") /\ seq_pc = "recv" /\ mq_state = "ok" /\ seq_pc' = "toggle"
        /\ seq_events' = Head(input_event_mq)
        /\ UNCHANGED <<faults, step, want, in_pc>>
    BY <1>5 DEF seqInputQueueGet, seqOnlyUnchanged, spiVars
  <2>2. input_event_mq = <<input_events>>
    BY <2>1 DEF IInv, QueueShort, Running, Ready
  <2>3. Head(<<input_events>>) = input_events /\ <<input_events>> # <<>>
    OBVIOUS
  <2>4. Outstanding' = Outstanding
    BY <2>1, <2>2, <2>3 DEF Outstanding, Pressed
  <2> QED BY <2>1, <2>4 DEF Toggling
<1>6. CASE kbLEDDataClear \/ kbLEDDataSend
  <2>1. /\ seq_pc \in {"clear", "draw"} /\ seq_pc' \in {"draw", "recv"}
        /\ UNCHANGED <<mq_state, faults, step, want, in_pc, input_event_mq, input_events,
                       sample, button_data_prev>>
    BY <1>6 DEF kbLEDDataClear, kbLEDDataSend, seqOnlyUnchanged, spiVars
  <2>2. Outstanding' = Outstanding
    BY <2>1 DEF Outstanding, Pressed
  <2> QED BY <2>1, <2>2 DEF Toggling
<1> QED BY <1>1, <1>2, <1>3, <1>4, <1>5, <1>6 DEF Elsewhere

LEMMA TogglingKept ==
    ASSUME IInv, SpiInv, ScanTypes, Reading, Fresh, Toggling, [Next]_vars
    PROVE  Toggling'
<1>1. CASE Aside
  <2>1. Outstanding' = Outstanding
    BY <1>1, AsideSteps DEF Outstanding, Pressed, play
  <2> QED BY <1>1, <2>1, AsideSteps DEF Toggling, play
<1>2. CASE kbInvert
  <2>1. /\ in_pc = "xfer" /\ in_pc' = "parse"
        /\ UNCHANGED <<mq_state, seq_pc, faults, input_event_mq, step, want, seq_events,
                       input_events, sample, button_data_prev>>
    BY <1>2 DEF kbInvert, inputOnlyUnchanged, historyVars
  <2>2. Outstanding' = Outstanding
    BY <2>1 DEF Outstanding, Pressed
  <2> QED BY <2>1, <2>2 DEF Toggling
<1> QED BY <1>1, <1>2, StepKinds, HandOver, ToggleToggles, LatchToggles, ParseToggles

(* At a latch pulse the sequencer has caught up. *)
LEMMA CaughtUp ==
    ASSUME Toggling, EventTypes, faults = 0, SequencerWaits,
           in_pc \in {"get", "latch", "delay", "sleep"}
    PROVE  step = Pattern(want) /\ Lit = want
<1>1. Outstanding = {} /\ seq_pc = "recv" /\ mq_state = "ok"
  BY DEF Outstanding, SequencerWaits
<1>2. step = Pattern(want)
  BY <1>1, XorTwice DEF Toggling
<1>3. want \subseteq Row /\ empty # {0}
  BY DEF EventTypes, empty
<1> QED BY <1>2, <1>3 DEF Lit, Pattern

LEMMA LaggingKept ==
    ASSUME IInv, SpiInv, EventTypes, Toggling, Lagging, [Next]_vars
    PROVE  Lagging'
<1>1. CASE Aside
  BY <1>1, AsideSteps DEF Lagging, play
<1>2. CASE inputTaskInit \/ sequencerTaskInit
  <2>1. latches' = 0
    BY <1>2 DEF inputTaskInit, sequencerTaskInit, historyVars, IInv, BootFirst
  <2> QED BY <2>1 DEF Lagging
<1>3. CASE \/ kbLEDDataGet \/ inputQueueSend \/ inputDelay \/ inputWake
           \/ kbInvert \/ kbParseButtons
  <2>1. UNCHANGED <<send_buf, faults, mq_state, seq_pc, latches, want1>>
    BY <1>3 DEF kbLEDDataGet, inputQueueSend, inputDelay, inputWake, kbInvert, kbParseButtons,
                inputOnlyUnchanged, historyVars, spiVars
  <2> QED BY <2>1 DEF Lagging
<1>4. CASE seqTaskEntry \/ seqInputQueueGet \/ seqStepToggle \/ kbLEDDataClear \/ kbLEDDataSend
  <2>1. UNCHANGED <<send_buf, faults, mq_state, latches, want1>> /\ seq_pc # "absent"
    BY <1>4 DEF seqTaskEntry, seqInputQueueGet, seqStepToggle, kbLEDDataClear, kbLEDDataSend,
                seqOnlyUnchanged, spiVars
  <2> QED BY <2>1 DEF Lagging
<1>5. CASE kbLatch
  <2> SUFFICES ASSUME faults = 0, seq_pc # "absent"
               PROVE  send_buf' = [i \in 1 .. 3 |-> LedImage(want)[i - 1]]
    BY <1>5 DEF kbLatch, inputOnlyUnchanged, Lagging, LedImage, KB_CHAIN_LENGTH
  <2>1. /\ Running("input") /\ in_pc = "latch"
        /\ send_buf' = [i \in 1 .. 3 |-> led_data[i]]
    BY <1>5 DEF kbLatch, rt_spi_transfer, KB_CHAIN_LENGTH
  <2>2. Lit = want
    BY <2>1, InputRuns, CaughtUp DEF SequencerWaits
  <2>3. \A i \in 1 .. 3 : led_data[i] = LedImage(want)[i - 1]
    BY <2>1, <2>2 DEF IInv, Copying, KB_CHAIN_LENGTH
  <2> QED BY <2>1, <2>3
<1> QED BY <1>1, <1>2, <1>3, <1>4, <1>5, StepKinds DEF Elsewhere

(* The latch pulse shows the picture of the transfer before. *)
LEMMA DisplayKept ==
    ASSUME IInv, SpiInv, ScanTypes, Sampling, Lagging, DisplayLag, [Next]_vars
    PROVE  DisplayLag'
<1>1. CASE Aside
  BY <1>1, AsideSteps DEF DisplayLag, play
<1>2. CASE inputTaskInit \/ sequencerTaskInit
  <2>1. latches' = 0
    BY <1>2 DEF inputTaskInit, sequencerTaskInit, historyVars, IInv, BootFirst
  <2> QED BY <2>1 DEF DisplayLag
<1>3. CASE \/ kbLEDDataGet \/ inputQueueSend \/ inputDelay \/ inputWake
           \/ kbInvert \/ kbParseButtons
  <2>1. UNCHANGED <<faults, mq_state, seq_pc, latches, want2, ledOut>>
    BY <1>3 DEF kbLEDDataGet, inputQueueSend, inputDelay, inputWake, kbInvert, kbParseButtons,
                inputOnlyUnchanged, historyVars, spiVars
  <2> QED BY <2>1 DEF DisplayLag, LedImage
<1>4. CASE seqTaskEntry \/ seqInputQueueGet \/ seqStepToggle \/ kbLEDDataClear \/ kbLEDDataSend
  <2>1. UNCHANGED <<faults, mq_state, latches, want2, ledOut>> /\ seq_pc # "absent"
    BY <1>4 DEF seqTaskEntry, seqInputQueueGet, seqStepToggle, kbLEDDataClear, kbLEDDataSend,
                seqOnlyUnchanged, spiVars
  <2> QED BY <2>1 DEF DisplayLag, LedImage
<1>5. CASE kbLatch
  <2>1. /\ Running("input") /\ in_pc = "latch" /\ wire = <<>> /\ spi_pc = "idle"
        /\ ledOut' = [r \in Regs |-> ledChain[r + 1]] /\ want2' = want1
        /\ latches' = IF latches < 2 THEN latches + 1 ELSE 2
        /\ UNCHANGED <<faults, mq_state, seq_pc>>
    BY <1>5 DEF kbLatch, rt_spi_transfer, inputOnlyUnchanged
  <2> SUFFICES ASSUME faults = 0, mq_state = "ok", seq_pc # "absent", latches' = 2
               PROVE  ledOut' = LedImage(want1)
    BY <2>1 DEF DisplayLag, LedImage
  <2>2. latches > 0
    BY <2>1 DEF ScanTypes
  <2>3. sent = 3
    <3>1. sent = Due /\ Len(recv_buf) = 3
      BY <2>1, <2>2 DEF Sampling, SpiInv, Transfer, KB_CHAIN_LENGTH
    <3> QED BY <2>1, <3>1 DEF Due
  <2>4. ledChain = send_buf
    BY <2>1, <2>2, <2>3, SentIsShifted DEF LedFrameShifted, KB_CHAIN_LENGTH
  <2>5. send_buf = [i \in 1 .. 3 |-> LedImage(want1)[i - 1]]
    BY <2>2 DEF Lagging, KB_CHAIN_LENGTH
  <2>6. \A r \in Regs : r + 1 \in 1 .. 3 /\ (r + 1) - 1 = r
    BY DEF Regs, KB_CHAIN_LENGTH
  <2>7. \A r \in Regs : ledChain[r + 1] = LedImage(want1)[r]
    BY <2>4, <2>5, <2>6
  <2>8. LedImage(want1) = [r \in Regs |-> LedImage(want1)[r]]
    BY DEF LedImage
  <2> QED BY <2>1, <2>7, <2>8
<1> QED BY <1>1, <1>2, <1>3, <1>4, <1>5, StepKinds DEF Elsewhere

(* The third part of the inductive invariant: what a scan without an expired *)
(* poll reads, and how far it has got on its way to the LEDs.                *)
PlayInv == Sampling /\ Reading /\ Fresh /\ Toggling /\ Lagging /\ DisplayLag

LEMMA InitPlay == ASSUME Init PROVE PlayInv
<1>1. /\ spi_pc = "idle" /\ wire = <<>> /\ dr = <<>> /\ recv_buf = <<>> /\ sent = 0
      /\ in_pc = "absent" /\ latches = 0 /\ want = {} /\ seq_pc = "absent"
      /\ button_data_prev = Dark /\ sample = Dark
  BY DEF Init, SpiInit
<1>2. Len(recv_buf) = 0
  BY <1>1
<1>3. Due = 0
  BY <1>1, <1>2 DEF Due
<1>4. Sampling
  BY <1>1, <1>2, <1>3 DEF Sampling
<1>5. Reading /\ Fresh /\ Toggling /\ Lagging /\ DisplayLag
  BY <1>1 DEF Reading, Fresh, Toggling, Lagging, DisplayLag
<1> QED BY <1>4, <1>5 DEF PlayInv

THEOREM PlayInvariant == Spec => [](TInv /\ PlayInv)
<1>1. Init => TInv /\ PlayInv
  BY InitIInv, InitTypes, InitPlay DEF TInv
<1>2. TInv /\ PlayInv /\ [Next]_vars => (TInv /\ PlayInv)'
  <2> SUFFICES ASSUME TInv, PlayInv, [Next]_vars PROVE TInv' /\ PlayInv'
    OBVIOUS
  <2>1. TInv'
    BY NextIInv, SpiKept, ScanTypesKept, EventTypesKept DEF TInv
  <2>2. PlayInv'
    BY SamplingKept, ReadingKept, FreshKept, TogglingKept, LaggingKept, DisplayKept
       DEF TInv, PlayInv
  <2> QED BY <2>1, <2>2
<1> QED BY <1>1, <1>2, PTL DEF Spec

(* As long as no poll expired, every step whose key went down an odd number  *)
(* of times is simple and every other is empty, once the sequencer waits.    *)
THEOREM PressesMakeThePattern == Spec => []PatternFollowsPresses
<1>1. TInv /\ PlayInv => PatternFollowsPresses
  <2> SUFFICES ASSUME TInv, PlayInv, faults = 0, SequencerWaits,
                      in_pc \in {"get", "latch", "delay", "sleep"}
               PROVE  step = Pattern(want)
    BY DEF PatternFollowsPresses, Pattern
  <2> QED BY CaughtUp DEF TInv, PlayInv
<1> QED BY <1>1, PlayInvariant, PTL

(* As long as no poll expired, the LEDs show the pattern of two latch pulses *)
(* before, for every width, queue length and sequence of key movements.      *)
THEOREM LedsLagTwoPulses == Spec => []DisplayLag
<1>1. PlayInv => DisplayLag
  BY DEF PlayInv
<1> QED BY <1>1, PlayInvariant, PTL

-----------------------------------------------------------------------------
(* The order of the events, whichever polls expired *)

(* The keys that a sequence of events leaves held. *)
HeldIn(q) ==
    {p \in Row : \E l \in 1 .. Len(q) : /\ p \in Pressed(q[l])
                                        /\ \A m \in l + 1 .. Len(q) : p \notin Released(q[m])}

(* Between two presses of a key there is its release, and a release follows  *)
(* a press.                                                                  *)
FitTogether(q) ==
    \A k \in 1 .. Len(q) :
        /\ \A l \in 1 .. k - 1 : \A p \in Pressed(q[k]) \cap Pressed(q[l]) :
               \E m \in l + 1 .. k - 1 : p \in Released(q[m])
        /\ \A p \in Released(q[k]) : \E l \in 1 .. k - 1 :
               /\ p \in Pressed(q[l])
               /\ \A m \in l + 1 .. k - 1 : p \notin Released(q[m])

(* Event e can follow keys H and leads to keys R. *)
Fits(e, H, R) ==
    /\ Pressed(e) \cap H = {}
    /\ Released(e) \subseteq H
    /\ Pressed(e) \cap Released(e) = {}
    /\ (H \ Released(e)) \cup Pressed(e) = R

(* The keys held according to the events received, or kept for a sequencer   *)
(* that does not exist; and an event that is not among them yet.             *)
HeldBefore == IF seq_pc = "absent" THEN HeldIn(input_event_mq) ELSE down
EventPending == in_pc = "send" \/ (seq_pc # "absent" /\ input_event_mq # <<>>)

(* The events received and the one on its way lead to the keys that          *)
(* kbParseButtons compares with, until an event is dropped, after which none *)
(* is taken any more.                                                        *)
Alternating ==
    /\ seq_pc \in {"absent", "start"} => down = {}
    /\ seq_pc = "absent" /\ dropped => Len(input_event_mq) = QueueLen
    /\ in_pc # "halt" /\ ~dropped =>
           IF EventPending THEN Fits(input_events, HeldBefore, MainRow(button_data_prev))
                           ELSE HeldBefore = MainRow(button_data_prev)

(* One event more. *)
LEMMA OneMoreHeld ==
    ASSUME NEW q \in Seq(InputEvents), NEW e \in InputEvents
    PROVE  HeldIn(Append(q, e)) = (HeldIn(q) \ Released(e)) \cup Pressed(e)
<1> DEFINE n == Len(q)
           r == Append(q, e)
<1>1. /\ n \in Nat /\ Len(r) = n + 1 /\ r[n + 1] = e
      /\ \A k \in 1 .. n : r[k] = q[k]
  OBVIOUS
<1>2. Pressed(e) \subseteq Row
  BY DEF Pressed, InputEvents, ButtonData
<1> HIDE DEF r, n
<1>3. ASSUME NEW p \in HeldIn(r) PROVE p \in (HeldIn(q) \ Released(e)) \cup Pressed(e)
  <2>1. PICK l \in 1 .. n + 1 : /\ p \in Pressed(r[l])
                                /\ \A m \in l + 1 .. n + 1 : p \notin Released(r[m])
    BY <1>1, <1>3 DEF HeldIn
  <2>2. CASE l = n + 1
    BY <1>1, <2>1, <2>2
  <2>3. CASE l # n + 1
    <3>1. l \in 1 .. n /\ n + 1 \in l + 1 .. n + 1
      BY <1>1, <2>3
    <3>2. p \in Pressed(q[l]) /\ p \notin Released(e)
      BY <1>1, <2>1, <3>1
    <3>3. \A m \in l + 1 .. n : p \notin Released(q[m])
      <4>1. \A m \in l + 1 .. n : m \in 1 .. n /\ m \in l + 1 .. n + 1
        BY <1>1, <3>1
      <4> QED BY <1>1, <2>1, <4>1
    <3> QED BY <1>3, <3>1, <3>2, <3>3 DEF HeldIn, n
  <2> QED BY <2>2, <2>3
<1>4. ASSUME NEW p \in Pressed(e) PROVE p \in HeldIn(r)
  <2>1. n + 1 \in 1 .. n + 1 /\ \A m \in (n + 1) + 1 .. n + 1 : FALSE
    BY <1>1
  <2> QED BY <1>1, <1>2, <1>4, <2>1 DEF HeldIn
<1>5. ASSUME NEW p \in HeldIn(q), p \notin Released(e) PROVE p \in HeldIn(r)
  <2>1. PICK l \in 1 .. n : /\ p \in Pressed(q[l])
                            /\ \A m \in l + 1 .. n : p \notin Released(q[m])
    BY <1>5 DEF HeldIn, n
  <2>2. l \in 1 .. n + 1 /\ p \in Pressed(r[l])
    BY <1>1, <2>1
  <2>3. \A m \in l + 1 .. n + 1 : p \notin Released(r[m])
    <3>1. \A m \in l + 1 .. n + 1 : m = n + 1 \/ (m \in 1 .. n /\ m \in l + 1 .. n)
      BY <1>1, <2>1
    <3> QED BY <1>1, <1>5, <2>1, <3>1
  <2> QED BY <1>1, <1>5, <2>2, <2>3 DEF HeldIn
<1> QED BY <1>3, <1>4, <1>5 DEF r

LEMMA OneMoreFits ==
    ASSUME NEW q \in Seq(InputEvents), NEW e \in InputEvents, FitTogether(q),
           Pressed(e) \cap HeldIn(q) = {}, Released(e) \subseteq HeldIn(q)
    PROVE  FitTogether(Append(q, e))
<1> DEFINE n == Len(q)
           r == Append(q, e)
<1>1. /\ n \in Nat /\ Len(r) = n + 1 /\ r[n + 1] = e
      /\ \A k \in 1 .. n : r[k] = q[k]
  OBVIOUS
<1>2. \A p \in Pressed(e) : p \in Row
  BY DEF Pressed, InputEvents, ButtonData
<1> HIDE DEF r
<1> SUFFICES ASSUME NEW k \in 1 .. n + 1
             PROVE  /\ \A l \in 1 .. k - 1 : \A p \in Pressed(r[k]) \cap Pressed(r[l]) :
                           \E m \in l + 1 .. k - 1 : p \in Released(r[m])
                    /\ \A p \in Released(r[k]) : \E l \in 1 .. k - 1 :
                           /\ p \in Pressed(r[l])
                           /\ \A m \in l + 1 .. k - 1 : p \notin Released(r[m])
  BY <1>1 DEF FitTogether, r
<1>3. \A l \in 1 .. k - 1 : l \in 1 .. n /\ r[l] = q[l]
  BY <1>1
<1>4. \A l \in 1 .. k - 1 : \A m \in l + 1 .. k - 1 : m \in 1 .. n /\ r[m] = q[m]
  BY <1>1
<1>5. CASE k \in 1 .. n
  <2>1. /\ \A l \in 1 .. k - 1 : \A p \in Pressed(q[k]) \cap Pressed(q[l]) :
               \E m \in l + 1 .. k - 1 : p \in Released(q[m])
        /\ \A p \in Released(q[k]) : \E l \in 1 .. k - 1 :
               /\ p \in Pressed(q[l])
               /\ \A m \in l + 1 .. k - 1 : p \notin Released(q[m])
    BY <1>5 DEF FitTogether
  <2>2. r[k] = q[k]
    BY <1>1, <1>5
  <2> QED BY <1>3, <1>4, <2>1, <2>2
<1>6. CASE k = n + 1
  <2>1. k - 1 = n /\ r[k] = e
    BY <1>1, <1>6
  <2>2. ASSUME NEW l \in 1 .. n, NEW p \in Pressed(e) \cap Pressed(q[l])
        PROVE  \E m \in l + 1 .. n : p \in Released(q[m])
    BY <1>2, <2>2 DEF HeldIn
  <2>3. ASSUME NEW p \in Released(e)
        PROVE  \E l \in 1 .. n : /\ p \in Pressed(q[l])
                                 /\ \A m \in l + 1 .. n : p \notin Released(q[m])
    BY <2>3 DEF HeldIn
  <2> QED BY <1>3, <1>4, <2>1, <2>2, <2>3
<1> QED BY <1>1, <1>5, <1>6

LEMMA NothingHeld == HeldIn(<<>>) = {} /\ FitTogether(<<>>)
<1>1. Len(<<>>) = 0 /\ 1 .. 0 = {}
  OBVIOUS
<1> QED BY <1>1 DEF HeldIn, FitTogether

(* The property speaks of the queue itself. *)
LEMMA KeptMeans == KeptEventsFitTogether <=> (seq_pc = "absent" => FitTogether(input_event_mq))
BY DEF KeptEventsFitTogether, FitTogether, Pressed, Released

(* kbParseButtons starts from the keys the events so far lead to. *)
LEMMA ParseAlternates ==
    ASSUME IInv, ScanTypes, Alternating, kbParseButtons
    PROVE  Alternating'
<1>1. /\ Running("input") /\ in_pc = "parse" /\ button_data_prev' = Remembered
      /\ UNCHANGED <<seq_pc, input_event_mq, dropped, down>>
  BY DEF kbParseButtons, inputOnlyUnchanged, historyVars
<1>2. HeldBefore' = HeldBefore
  BY <1>1 DEF HeldBefore
<1>3. seq_pc = "absent" \/ input_event_mq = <<>>
  BY <1>1, InputRuns
<1>4. ~dropped => HeldBefore = MainRow(button_data_prev)
  BY <1>1, <1>3 DEF Alternating, EventPending
<1>5. MainRow(button_data_prev') = MainRow(button_data)
  BY <1>1, RememberedRow
<1>6. CASE Changed = {}
  <2>1. in_pc' = "delay"
    BY <1>6 DEF kbParseButtons
  <2>2. ~EventPending'
    BY <1>1, <1>3, <2>1 DEF EventPending
  <2>3. MainRow(button_data) = MainRow(button_data_prev)
    BY <1>6, RememberedRow
  <2> QED BY <1>1, <1>2, <1>4, <1>5, <2>2, <2>3 DEF Alternating
<1>7. CASE Changed # {}
  <2>1. /\ in_pc' = "send"
        /\ Pressed(input_events') = Collect(JustPressed).main_row
        /\ Released(input_events') = Collect(JustReleased).main_row
    BY <1>7 DEF kbParseButtons, Pressed, Released
  <2>2. /\ EventPending'
        /\ Pressed(input_events') = MainRow(button_data) \ MainRow(button_data_prev)
        /\ Released(input_events') = MainRow(button_data_prev) \ MainRow(button_data)
    BY <2>1, CollectedRow DEF EventPending
  <2>3. Fits(input_events', MainRow(button_data_prev), MainRow(button_data))
    BY <2>2 DEF Fits
  <2>4. ~dropped => Fits(input_events', HeldBefore, MainRow(button_data_prev'))
    BY <1>4, <1>5, <2>3
  <2> QED BY <1>1, <1>2, <2>2, <2>4 DEF Alternating
<1> QED BY <1>6, <1>7

(* inputQueueSend: the event reaches the queue, whose reader will take it or *)
(* which keeps it; a full queue keeps what it has.                           *)
LEMMA SendAlternates ==
    ASSUME IInv, EventTypes, Alternating, KeptEventsFitTogether, inputQueueSend
    PROVE  Alternating' /\ KeptEventsFitTogether'
<1>1. /\ in_pc = "send" /\ in_pc' \in {"delay", "halt"}
      /\ UNCHANGED <<seq_pc, down, input_events, button_data_prev>>
  BY DEF inputQueueSend, inputOnlyUnchanged
<1>2. /\ ~dropped => Fits(input_events, HeldBefore, MainRow(button_data_prev))
      /\ seq_pc = "absent" => FitTogether(input_event_mq)
  BY <1>1, KeptMeans DEF Alternating, EventPending
<1>3. CASE seq_pc # "absent"
  <2>1. input_event_mq' = <<input_events>> /\ <<input_events>> # <<>> /\ ~dropped
    BY <1>3, SendFits DEF IInv, QueueShort
  <2>2. EventPending' /\ HeldBefore' = HeldBefore
    BY <1>1, <1>3, <2>1 DEF EventPending, HeldBefore
  <2>3. KeptEventsFitTogether'
    BY <1>1, <1>3 DEF KeptEventsFitTogether
  <2> QED BY <1>1, <1>2, <1>3, <2>1, <2>2, <2>3 DEF Alternating
<1>4. CASE seq_pc = "absent" /\ UNCHANGED <<input_event_mq, dropped>> /\ in_pc' = "halt"
  <2>1. Alternating'
    BY <1>1, <1>4 DEF Alternating
  <2>2. KeptEventsFitTogether'
    BY <1>1, <1>4 DEF KeptEventsFitTogether
  <2> QED BY <2>1, <2>2
<1>5. CASE /\ seq_pc = "absent" /\ in_pc' = "delay" /\ input_event_mq' = Enqueue(input_events)
           /\ dropped' = (dropped \/ Len(input_event_mq) = QueueLen)
  <2>1. /\ input_event_mq \in Seq(InputEvents) /\ input_events \in InputEvents
        /\ Len(input_event_mq) <= QueueLen /\ Len(input_event_mq) \in Nat
    BY DEF EventTypes
  <2>2. CASE Len(input_event_mq) < QueueLen
    <3>1. Len(input_event_mq) # QueueLen
      BY <2>1, <2>2, QueueLenAssumption
    <3>2. ~dropped /\ ~dropped' /\ input_event_mq' = Append(input_event_mq, input_events)
      BY <1>5, <2>2, <3>1 DEF Alternating, Enqueue
    <3>3. Fits(input_events, HeldIn(input_event_mq), MainRow(button_data_prev))
      BY <1>2, <1>5, <3>2 DEF HeldBefore
    <3>4. HeldIn(input_event_mq') = MainRow(button_data_prev)
      BY <2>1, <3>2, <3>3, OneMoreHeld DEF Fits
    <3>5. FitTogether(input_event_mq')
      BY <1>2, <1>5, <2>1, <3>2, <3>3, OneMoreFits DEF Fits
    <3>6. ~EventPending' /\ HeldBefore' = HeldIn(input_event_mq')
      BY <1>1, <1>5 DEF EventPending, HeldBefore
    <3>7. Alternating'
      BY <1>1, <1>5, <3>2, <3>4, <3>6 DEF Alternating
    <3>8. KeptEventsFitTogether'
      BY <3>5 DEF KeptEventsFitTogether, FitTogether, Pressed, Released
    <3> QED BY <3>7, <3>8
  <2>3. CASE Len(input_event_mq) = QueueLen
    <3>1. dropped' /\ input_event_mq' = input_event_mq
      <4>1. ~(Len(input_event_mq) < QueueLen)
        BY <2>1, <2>3, QueueLenAssumption
      <4>2. input_event_mq' = input_event_mq
        BY <1>5, <4>1 DEF Enqueue
      <4>3. dropped'
        BY <1>5, <2>3, Zenon
      <4> QED BY <4>2, <4>3
    <3>2. Alternating'
      BY <1>1, <1>5, <2>3, <3>1 DEF Alternating
    <3>3. KeptEventsFitTogether'
      BY <1>1, <3>1 DEF KeptEventsFitTogether
    <3> QED BY <3>2, <3>3
  <2> QED BY <2>1, <2>2, <2>3, QueueLenAssumption
<1> QED BY <1>3, <1>4, <1>5 DEF inputQueueSend

(* What seqInputQueueGet takes fits what it has seen. *)
LEMMA TakenFits ==
    ASSUME IInv, Alternating, seqInputQueueGet, mq_state = "ok"
    PROVE  /\ input_event_mq = <<input_events>> /\ input_event_mq' = <<>>
           /\ seq_events' = input_events
           /\ down' = (down \cup Pressed(input_events)) \ Released(input_events)
           /\ Fits(input_events, down, MainRow(button_data_prev))
<1>1. /\ Running("sequencer") /\ seq_pc = "recv"
      /\ seq_events' = Head(input_event_mq) /\ input_event_mq' = Tail(input_event_mq)
      /\ down' = (down \cup Pressed(Head(input_event_mq))) \ Released(Head(input_event_mq))
  BY DEF seqInputQueueGet, Pressed, Released
<1>2. input_event_mq = <<input_events>> /\ ~dropped
  BY <1>1 DEF IInv, QueueShort, Running, Ready
<1>3. /\ Head(<<input_events>>) = input_events /\ Tail(<<input_events>>) = <<>>
      /\ <<input_events>> # <<>>
  OBVIOUS
<1>4. in_pc # "halt"
  BY <1>1, SequencerRuns
<1>5. EventPending /\ HeldBefore = down
  BY <1>1, <1>2, <1>3 DEF EventPending, HeldBefore
<1>6. Fits(input_events, down, MainRow(button_data_prev))
  BY <1>2, <1>4, <1>5 DEF Alternating
<1> QED BY <1>1, <1>2, <1>3, <1>6

LEMMA ReceiveAlternates ==
    ASSUME IInv, Alternating, seqInputQueueGet
    PROVE  Alternating'
<1>1. /\ Running("sequencer") /\ seq_pc = "recv" /\ seq_pc' \in {"halt", "toggle"}
      /\ UNCHANGED <<in_pc, button_data_prev, input_events, dropped>>
  BY DEF seqInputQueueGet, seqOnlyUnchanged
<1>2. CASE mq_state # "ok"
  <2>1. UNCHANGED <<input_event_mq, down>>
    BY <1>2 DEF seqInputQueueGet
  <2>2. HeldBefore' = HeldBefore /\ EventPending' = EventPending
    BY <1>1, <2>1 DEF HeldBefore, EventPending
  <2> QED BY <1>1, <2>1, <2>2 DEF Alternating
<1>3. CASE mq_state = "ok"
  <2>1. /\ input_event_mq' = <<>>
        /\ down' = (down \cup Pressed(input_events)) \ Released(input_events)
        /\ Fits(input_events, down, MainRow(button_data_prev))
    BY <1>3, TakenFits
  <2>2. down' = MainRow(button_data_prev)
    BY <2>1 DEF Fits
  <2>3. in_pc # "send"
    BY <1>1, SequencerRuns
  <2>4. ~EventPending' /\ HeldBefore' = down'
    BY <1>1, <2>1, <2>3 DEF EventPending, HeldBefore
  <2> QED BY <1>1, <2>2, <2>4 DEF Alternating
<1> QED BY <1>2, <1>3

LEMMA AlternatingKept ==
    ASSUME IInv, SpiInv, ScanTypes, EventTypes, Alternating, KeptEventsFitTogether, [Next]_vars
    PROVE  Alternating' /\ KeptEventsFitTogether'
<1>1. CASE Aside
  <2>1. UNCHANGED <<seq_pc, in_pc, input_event_mq, down, dropped, input_events, button_data_prev>>
    BY <1>1, AsideSteps DEF play
  <2>2. HeldBefore' = HeldBefore /\ EventPending' = EventPending
    BY <2>1 DEF HeldBefore, EventPending
  <2> QED BY <2>1, <2>2 DEF Alternating, KeptEventsFitTogether
<1>2. CASE inputTaskInit \/ sequencerTaskInit
  <2>1. /\ seq_pc' \in {"absent", "start"} /\ in_pc' \in {"absent", "get"}
        /\ main_pc \in {"start", "started"}
        /\ UNCHANGED <<input_event_mq, down, dropped, input_events, button_data_prev>>
    BY <1>2 DEF inputTaskInit, sequencerTaskInit, rt_thread_create, Outcomes, historyVars,
                IInv, BootFirst
  <2>2. /\ input_event_mq = <<>> /\ ~dropped /\ seq_pc = "absent"
        /\ in_pc \in {"absent", "get"}
    BY <2>1 DEF IInv, BootFirst
  <2>3. /\ HeldBefore = {} /\ HeldBefore' = {} /\ ~EventPending /\ ~EventPending'
        /\ down = {}
    BY <2>1, <2>2, NothingHeld DEF HeldBefore, EventPending, Alternating
  <2>4. Alternating'
    BY <2>1, <2>2, <2>3 DEF Alternating
  <2>5. KeptEventsFitTogether'
    BY <2>1, <2>2 DEF KeptEventsFitTogether
  <2> QED BY <2>4, <2>5
<1>3. CASE kbLEDDataGet \/ kbLatch \/ kbInvert \/ inputDelay \/ inputWake
  <2>1. /\ in_pc \notin {"send", "halt"} /\ in_pc' \notin {"send", "halt"}
        /\ UNCHANGED <<seq_pc, input_event_mq, down, dropped, input_events, button_data_prev>>
    BY <1>3 DEF kbLEDDataGet, kbLatch, kbInvert, inputDelay, inputWake, inputOnlyUnchanged,
                historyVars
  <2>2. HeldBefore' = HeldBefore /\ EventPending' = EventPending
    BY <2>1 DEF HeldBefore, EventPending
  <2> QED BY <2>1, <2>2 DEF Alternating, KeptEventsFitTogether
<1>4. CASE seqTaskEntry \/ seqStepToggle \/ kbLEDDataClear \/ kbLEDDataSend
  <2>1. /\ seq_pc # "absent" /\ seq_pc' \in {"recv", "clear", "draw"}
        /\ UNCHANGED <<in_pc, input_event_mq, down, dropped, input_events, button_data_prev>>
    BY <1>4 DEF seqTaskEntry, seqStepToggle, kbLEDDataClear, kbLEDDataSend, seqOnlyUnchanged
  <2>2. HeldBefore' = HeldBefore /\ EventPending' = EventPending
    BY <2>1 DEF HeldBefore, EventPending
  <2> QED BY <2>1, <2>2 DEF Alternating, KeptEventsFitTogether
<1>5. CASE kbParseButtons
  <2>1. UNCHANGED <<seq_pc, input_event_mq>>
    BY <1>5 DEF kbParseButtons, inputOnlyUnchanged
  <2> QED BY <1>5, <2>1, ParseAlternates DEF KeptEventsFitTogether
<1>6. CASE seqInputQueueGet
  <2>1. seq_pc' # "absent"
    BY <1>6 DEF seqInputQueueGet
  <2> QED BY <1>6, <2>1, ReceiveAlternates DEF KeptEventsFitTogether
<1>7. CASE inputQueueSend
  BY <1>7, SendAlternates
<1> QED BY <1>1, <1>2, <1>3, <1>4, <1>5, <1>6, <1>7, StepKinds DEF Elsewhere

(* The fourth part of the inductive invariant. *)
EventInv == TInv /\ Alternating /\ KeptEventsFitTogether

THEOREM EventInvariant == Spec => []EventInv
<1>1. ASSUME Init PROVE EventInv
  <2>1. TInv
    BY <1>1, InitIInv, InitTypes DEF TInv
  <2>2. /\ input_event_mq = <<>> /\ ~dropped /\ seq_pc = "absent" /\ in_pc = "absent"
        /\ down = {} /\ button_data_prev = Dark
    BY <1>1 DEF Init
  <2>3. MainRow(Dark) = {}
    <3>1. \A p \in Row : Dark[1 - p[1]] = {}
      BY DEF Row, Dark, Regs, KB_CHAIN_LENGTH
    <3> QED BY <3>1 DEF MainRow
  <2>4. HeldBefore = {} /\ ~EventPending
    BY <2>2, NothingHeld DEF HeldBefore, EventPending
  <2>5. Alternating
    BY <2>2, <2>3, <2>4 DEF Alternating
  <2>6. KeptEventsFitTogether
    BY <2>2, NothingHeld, KeptMeans
  <2> QED BY <2>1, <2>5, <2>6 DEF EventInv
<1>2. EventInv /\ [Next]_vars => EventInv'
  BY NextIInv, SpiKept, ScanTypesKept, EventTypesKept, AlternatingKept DEF EventInv, TInv
<1> QED BY <1>1, <1>2, PTL DEF Spec

(* With nobody to receive, the events the queue keeps fit together, whatever *)
(* its length and however many are dropped after them.                       *)
THEOREM KeptEventsAlwaysFit == Spec => []KeptEventsFitTogether
<1>1. EventInv => KeptEventsFitTogether
  BY DEF EventInv
<1> QED BY <1>1, EventInvariant, PTL

(* The sequencer never receives a press of a key that is down, nor a release *)
(* of one that is not, even if SPI polls expire.                             *)
THEOREM EventsAlwaysAlternate == Spec => EventsAlternate
<1> DEFINE A == seq_pc = "recv" /\ seq_pc' = "toggle"
                   => /\ seq_events'.just_pressed.main_row \cap down = {}
                      /\ seq_events'.just_released.main_row \subseteq down
<1>1. EventInv /\ [Next]_vars => [A]_vars
  <2> SUFFICES ASSUME EventInv, Next, seq_pc = "recv", seq_pc' = "toggle"
               PROVE  /\ seq_events'.just_pressed.main_row \cap down = {}
                      /\ seq_events'.just_released.main_row \subseteq down
    OBVIOUS
  <2>1. seqInputQueueGet
    <3>1. UNCHANGED seq_pc => FALSE
      OBVIOUS
    <3>2. ~(kbLEDDataGet \/ kbLatch \/ kbInvert \/ kbParseButtons \/ inputQueueSend \/ inputDelay
            \/ inputWake)
      BY <3>1 DEF kbLEDDataGet, kbLatch, kbInvert, kbParseButtons, inputQueueSend, inputDelay,
                  inputWake, inputOnlyUnchanged
    <3>3. ~(inputTaskInit \/ sequencerTaskInit \/ seqTaskEntry \/ seqStepToggle
            \/ kbLEDDataClear \/ kbLEDDataSend)
      BY DEF inputTaskInit, sequencerTaskInit, rt_thread_create, Outcomes, seqTaskEntry,
             seqStepToggle, kbLEDDataClear, kbLEDDataSend
    <3>4. ~Aside
      BY <3>1, AsideSteps DEF EventInv, TInv, play
    <3> QED BY <3>2, <3>3, <3>4, StepKinds DEF Elsewhere
  <2>2. mq_state = "ok"
    BY <2>1 DEF seqInputQueueGet
  <2>3. seq_events' = input_events /\ Fits(input_events, down, MainRow(button_data_prev))
    BY <2>1, <2>2, TakenFits DEF EventInv, TInv
  <2> QED BY <2>3 DEF Fits, Pressed, Released
<1> QED BY <1>1, EventInvariant, PTL DEF EventsAlternate, Spec
==============================================================================
