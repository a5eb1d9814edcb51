------------------------ MODULE CameraPipeline_proofs ------------------------
(***************************************************************************)
(* Proofs about CameraPipeline for every number of instances of thread1,   *)
(* every array and every assignment of pixels to subpages.                 *)
(***************************************************************************)
EXTENDS CameraPipeline, TLAPS

USE ThreadAssumption, CountAssumption, WritesAssumption

\* The system is switched on in a state of the invariant.
LEMMA InitIInv == Init => IInv
<1> SUFFICES ASSUME Init PROVE IInv
  OBVIOUS
<1> USE DEF Init
<1>1. TypeOK
  <2>1. todo \in Seq(Initialisers)
    BY DEF LinkOrder, Initialisers
  <2>2. ram \in [Words -> Ages]
    BY DEF Ages, Words
  <2>3. frame \in [Words -> FrameWord] /\ frame832 \in Control /\ pre \in [Threads -> Preamble]
    BY DEF FrameWord, Control, Preamble, Zero, ZeroControl, NoPreamble, Ages, None, Modes, Subpages
  <2>4. pos \in [Threads -> 1 .. N + 1] /\ cnt \in [Threads -> 0 .. MaxAttempts - 1]
    OBVIOUS
  <2>5. QED
    BY <2>1, <2>2, <2>3, <2>4 DEF TypeOK, Modes, Subpages, Words, Pixels, Ages, Places
<1>2. BootOrder
  BY DEF BootOrder, LinkOrder
<1>3. LastMeasured
  BY DEF LastMeasured, Words, Modes, Subpages
<1>4. \A t \in Threads : CallIntact(t) /\ CalculationIntact(t)
  BY DEF CallIntact, CalculationIntact
<1>5. QED
  BY <1>1, <1>2, <1>3, <1>4 DEF IInv, Heals

\* What is left of the initialisers after each of them.
LEMMA Tails ==
    ASSUME BootOrder, NEW f, Initialise(f)
    PROVE  \/ /\ f = "rt_hw_lcd_init" /\ todo = LinkOrder
              /\ todo' = <<"mlx90640_init", "MLX90640_INIT", "thread_sample">>
           \/ /\ f = "mlx90640_init" /\ todo = <<"mlx90640_init", "MLX90640_INIT", "thread_sample">>
              /\ todo' = <<"MLX90640_INIT", "thread_sample">>
           \/ /\ f = "MLX90640_INIT" /\ todo = <<"MLX90640_INIT", "thread_sample">>
              /\ todo' = <<"thread_sample">>
           \/ /\ f = "thread_sample" /\ todo = <<"thread_sample">>
              /\ todo' = <<>>
<1>1. CASE todo = LinkOrder
  BY <1>1 DEF Initialise, LinkOrder
<1>2. CASE todo = <<"mlx90640_init", "MLX90640_INIT", "thread_sample">>
  BY <1>2 DEF Initialise
<1>3. CASE todo = <<"MLX90640_INIT", "thread_sample">>
  BY <1>3 DEF Initialise
<1>4. CASE todo = <<"thread_sample">>
  BY <1>4 DEF Initialise
<1>5. CASE todo = <<>>
  BY <1>5 DEF Initialise
<1>6. QED
  BY <1>1, <1>2, <1>3, <1>4, <1>5 DEF BootOrder

\* Every step keeps the types.
LEMMA NextTypeOK == TypeOK /\ BootOrder /\ [Next]_vars => TypeOK'
<1> SUFFICES ASSUME TypeOK, BootOrder, [Next]_vars PROVE TypeOK'
  OBVIOUS
<1> USE DEF sensorVars, bootVars, frameVars, threadVars
<1>1. CASE Measure
  <2>1. \A a \in Ages : Older(a) \in Ages
    BY DEF Ages, Older, None
  <2>2. ram' \in [Words -> Ages]
    BY <1>1, <2>1 DEF Measure, TypeOK, Ages
  <2>3. frame' \in [Words -> FrameWord]
    <3>1. \A w \in Words : [frame[w] EXCEPT !.age = Older(@)] \in FrameWord
      BY <2>1 DEF TypeOK, FrameWord
    <3>2. QED
      BY <1>1, <3>1 DEF Measure
  <2>4. pre' \in [Threads -> Preamble]
    BY <1>1, <2>1 DEF Measure, TypeOK, Preamble
  <2>5. sub' \in Subpages
    BY <1>1 DEF Measure, TypeOK, Subpages
  <2>6. QED
    BY <1>1, <2>2, <2>3, <2>4, <2>5 DEF Measure, TypeOK
<1>2. ASSUME NEW f, Initialise(f)
      PROVE  todo' \in Seq(Initialisers)
  <2>1. <<"mlx90640_init", "MLX90640_INIT", "thread_sample">> \in Seq(Initialisers)
    BY DEF Initialisers
  <2>2. <<"MLX90640_INIT", "thread_sample">> \in Seq(Initialisers)
    BY DEF Initialisers
  <2>3. <<"thread_sample">> \in Seq(Initialisers) /\ <<>> \in Seq(Initialisers)
    BY DEF Initialisers
  <2>4. QED
    BY <1>2, <2>1, <2>2, <2>3, Tails, Zenon
<1>3. CASE rt_hw_lcd_init
  BY <1>2, <1>3 DEF rt_hw_lcd_init, TypeOK
<1>4. CASE mlx90640_init
  BY <1>2, <1>4 DEF mlx90640_init, TypeOK
<1>5. CASE MLX90640_INIT
  BY <1>2, <1>5 DEF MLX90640_INIT, TypeOK, Modes
<1>6. CASE thread_sample
  BY <1>2, <1>6 DEF thread_sample, StartThread, TypeOK, Places
<1>7. ASSUME NEW t \in Threads, Step(t) \/ Fails(t) \/ ShellCommand(t)
      PROVE  TypeOK'
  <2> USE <1>7 DEF TypeOK, Goto, Touch, Return, Places
  <2>1. CASE ShellCommand(t)
    BY <2>1 DEF ShellCommand, StartThread
  <2>2. CASE NoBus(t)
    BY <2>2 DEF NoBus, Subpages
  <2>3. CASE ReadFails(t)
    BY <2>3 DEF ReadFails, Subpages
  <2>4. CASE Poll(t)
    BY <2>4 DEF Poll
  <2>5. CASE ClearReady(t)
    <3>1. intact' \in [Threads -> BOOLEAN]
      BY <2>5 DEF ClearReady
    <3>2. pc' \in Places /\ pos' \in [Threads -> 1 .. N + 1] /\ ready' \in BOOLEAN
      <4>1. pc' \in Places
        BY <2>5 DEF ClearReady
      <4>2. pos' \in [Threads -> 1 .. N + 1]
        BY <2>5 DEF ClearReady
      <4>3. ready' \in BOOLEAN
        BY <2>5 DEF ClearReady
      <4>4. QED
        BY <4>1, <4>2, <4>3
    <3>3. UNCHANGED <<sub, ram, mode, running, made, bootVars, frameVars, To,
                      cnt, status, pre, settled, clean>>
      BY <2>5 DEF ClearReady
    <3>4. QED
      BY <3>1, <3>2, <3>3
  <2>6. CASE ClearFails(t)
    <3>1. ready' \in BOOLEAN /\ intact' \in [Threads -> BOOLEAN]
      <4>1. ready' \in BOOLEAN
        BY <2>6 DEF ClearFails
      <4>2. intact' \in [Threads -> BOOLEAN]
        BY <2>6 DEF ClearFails
      <4>3. QED
        BY <4>1, <4>2
    <3>2. cnt' \in [Threads -> 0 .. MaxAttempts - 1] /\ status' \in [Threads -> Subpages]
      <4>1. cnt' \in [Threads -> 0 .. MaxAttempts - 1]
        BY <2>6 DEF ClearFails, Subpages
      <4>2. status' \in [Threads -> Subpages]
        BY <2>6 DEF ClearFails, Subpages
      <4>3. QED
        BY <4>1, <4>2
    <3>3. QED
      BY <2>6, <3>1, <3>2 DEF ClearFails
  <2>7. CASE BurstWord(t)
    <3>1. frame' \in [Words -> FrameWord]
      BY <2>7 DEF BurstWord, FrameWord
    <3>2. pos' \in [Threads -> 1 .. N + 1]
      BY <2>7 DEF BurstWord, Words
    <3>3. QED
      BY <2>7, <3>1, <3>2 DEF BurstWord
  <2>8. CASE VerifyClear(t) \/ BurstDone(t) \/ SwapDone(t)
    <3>1. CASE VerifyClear(t)
      BY <3>1 DEF VerifyClear
    <3>2. CASE BurstDone(t)
      BY <3>2 DEF BurstDone
    <3>3. CASE SwapDone(t)
      BY <3>3 DEF SwapDone
    <3>4. QED
      BY <2>8, <3>1, <3>2, <3>3
  <2>9. CASE SwapBytes(t)
    <3>1. \A word \in FrameWord : Swapped(word) \in FrameWord
      BY DEF Swapped, FrameWord
    <3>2. frame' \in [Words -> FrameWord]
      BY <2>9, <3>1 DEF SwapBytes
    <3>3. pos' \in [Threads -> 1 .. N + 1]
      BY <2>9 DEF SwapBytes, Words
    <3>4. QED
      BY <2>9, <3>2, <3>3 DEF SwapBytes
  <2>10. CASE CheckReady(t)
    <3>1. cnt' \in [Threads -> 0 .. MaxAttempts - 1] /\ status' \in [Threads -> Subpages]
      <4>1. cnt' \in [Threads -> 0 .. MaxAttempts - 1]
        <5>1. \/ cnt' = [cnt EXCEPT ![t] = 0]
              \/ cnt[t] + 1 < MaxAttempts /\ cnt' = [cnt EXCEPT ![t] = @ + 1]
          BY <2>10 DEF CheckReady, Again, Accept, GiveUp
        <5>2. cnt \in [Threads -> 0 .. MaxAttempts - 1]
          OBVIOUS
        <5>3. CASE cnt' = [cnt EXCEPT ![t] = 0]
          BY <5>2, <5>3
        <5>4. CASE cnt[t] + 1 < MaxAttempts /\ cnt' = [cnt EXCEPT ![t] = @ + 1]
          <6>1. cnt[t] + 1 \in 0 .. MaxAttempts - 1
            BY <5>2, <5>4
          <6>2. QED
            BY <5>2, <5>4, <6>1, Zenon
        <5>5. QED
          BY <5>1, <5>3, <5>4
      <4>2. status' \in [Threads -> Subpages]
        BY <2>10 DEF CheckReady, Again, Accept, GiveUp, Subpages
      <4>3. QED
        BY <4>1, <4>2
    <3>2. pc' \in Places /\ pos' \in [Threads -> 1 .. N + 1] /\ intact' \in [Threads -> BOOLEAN]
      <4>1. pc' \in Places
        BY <2>10 DEF CheckReady, Again, Accept, GiveUp
      <4>2. pos' \in [Threads -> 1 .. N + 1]
        BY <2>10 DEF CheckReady, Again, Accept, GiveUp
      <4>3. intact' \in [Threads -> BOOLEAN]
        BY <2>10 DEF CheckReady, Again, Accept, GiveUp
      <4>4. QED
        BY <4>1, <4>2, <4>3
    <3>3. UNCHANGED <<sensorVars, bootVars, frameVars, To, pre, settled, clean>>
      BY <2>10 DEF CheckReady
    <3>4. QED
      BY <3>1, <3>2, <3>3
  <2>11. CASE ReadControl(t)
    <3>1. intact' \in [Threads -> BOOLEAN]
      BY <2>11 DEF ReadControl
    <3>2. cnt' \in [Threads -> 0 .. MaxAttempts - 1] /\ status' \in [Threads -> Subpages]
      <4>1. cnt' \in [Threads -> 0 .. MaxAttempts - 1]
        BY <2>11 DEF ReadControl, Subpages
      <4>2. status' \in [Threads -> Subpages]
        BY <2>11 DEF ReadControl, Subpages
      <4>3. QED
        BY <4>1, <4>2
    <3>3. frame832' \in Control /\ frame833' \in Subpages
      <4>1. frame832' \in Control
        BY <2>11 DEF ReadControl, Control
      <4>2. frame833' \in Subpages
        BY <2>11 DEF ReadControl, Control
      <4>3. QED
        BY <4>1, <4>2
    <3>4. pc' \in Places /\ pos' \in [Threads -> 1 .. N + 1] /\ settled' \in BOOLEAN
      <4>1. pc' \in Places
        BY <2>11 DEF ReadControl
      <4>2. pos' \in [Threads -> 1 .. N + 1]
        BY <2>11 DEF ReadControl
      <4>3. settled' \in BOOLEAN
        BY <2>11 DEF ReadControl
      <4>4. QED
        BY <4>1, <4>2, <4>3
    <3>5. UNCHANGED <<sensorVars, bootVars, frame, To, pre, clean>>
      BY <2>11 DEF ReadControl
    <3>6. QED
      BY <3>1, <3>2, <3>3, <3>4, <3>5
  <2>12. CASE ControlFails(t)
    <3>1. intact' \in [Threads -> BOOLEAN]
      BY <2>12 DEF ControlFails
    <3>2. cnt' \in [Threads -> 0 .. MaxAttempts - 1] /\ status' \in [Threads -> Subpages]
      <4>1. cnt' \in [Threads -> 0 .. MaxAttempts - 1]
        BY <2>12 DEF ControlFails, Subpages
      <4>2. status' \in [Threads -> Subpages]
        BY <2>12 DEF ControlFails, Subpages
      <4>3. QED
        BY <4>1, <4>2
    <3>3. frame832' \in Control /\ frame833' \in Subpages
      <4>1. frame832' \in Control
        BY <2>12 DEF ControlFails, Control
      <4>2. frame833' \in Subpages
        BY <2>12 DEF ControlFails, Control
      <4>3. QED
        BY <4>1, <4>2
    <3>4. pc' \in Places /\ pos' \in [Threads -> 1 .. N + 1] /\ settled' \in BOOLEAN
      <4>1. pc' \in Places
        BY <2>12 DEF ControlFails
      <4>2. pos' \in [Threads -> 1 .. N + 1]
        BY <2>12 DEF ControlFails
      <4>3. settled' \in BOOLEAN
        BY <2>12 DEF ControlFails
      <4>4. QED
        BY <4>1, <4>2, <4>3
    <3>5. UNCHANGED <<sensorVars, bootVars, frame, To, pre, clean>>
      BY <2>12 DEF ControlFails
    <3>6. QED
      BY <3>1, <3>2, <3>3, <3>4, <3>5
  <2>13. CASE Preliminaries(t)
    <3>1. pre' \in [Threads -> Preamble]
      BY <2>13 DEF Preliminaries, Preamble, FrameWord, Control, Ages, Words
    <3>2. QED
      BY <2>13, <3>1 DEF Preliminaries
  <2>14. CASE CalculateTo(t)
    <3>1. pos' \in [Threads -> 1 .. N + 1]
      BY <2>14 DEF CalculateTo, Pixels
    <3>2. To' \in [Pixels -> {"whole", "mixed"}]
      BY <2>14 DEF CalculateTo, Temperature
    <3>3. QED
      BY <2>14, <3>1, <3>2 DEF CalculateTo
  <2>15. CASE Calculated(t)
    <3>1. pre' \in [Threads -> Preamble]
      BY <2>15 DEF Calculated, Preamble, NoPreamble, Ages, None, Subpages, Modes
    <3>2. clean' \subseteq Subpages
      BY <2>15 DEF Calculated, Preamble
    <3>3. QED
      BY <2>15, <3>1, <3>2 DEF Calculated
  <2>16. CASE Draw(t)
    BY <2>16 DEF Draw
  <2>17. QED
    BY <2>1, <2>2, <2>3, <2>4, <2>5, <2>6, <2>7, <2>8, <2>9, <2>10, <2>11, <2>12, <2>13,
       <2>14, <2>15, <2>16 DEF Step, Fails
<1>8. CASE UNCHANGED vars
  BY <1>8 DEF vars, TypeOK
<1>9. QED
  BY <1>1, <1>3, <1>4, <1>5, <1>6, <1>7, <1>8 DEF Next, Boot

\* A step that leaves alone what a thread has read and computed.
LEMMA Untouched ==
    ASSUME NEW u \in Threads, CallIntact(u), CalculationIntact(u),
           UNCHANGED <<ready, made, mode, ram, frame, frame832, frame833, params, To>>,
           pc'[u] = pc[u], pos'[u] = pos[u], status'[u] = status[u], pre'[u] = pre[u],
           intact'[u] = intact[u]
    PROVE  CallIntact(u)' /\ CalculationIntact(u)'
BY DEF CallIntact, CalculationIntact, Reading, OneMeasurement, GoodFrame

\* The initialisers keep the invariant.
LEMMA BootIInv == IInv /\ Boot => IInv'
<1> SUFFICES ASSUME IInv, Boot PROVE IInv'
  OBVIOUS
<1> USE DEF IInv, sensorVars, bootVars, frameVars, threadVars
<1>1. TypeOK'
  BY NextTypeOK DEF Next
<1>2. \A t \in Threads : pc[t] = "none"
  BY Tails DEF Boot, rt_hw_lcd_init, mlx90640_init, MLX90640_INIT, thread_sample, BootOrder,
               Initialise
<1>3. clean = {} /\ ~settled
  BY Tails DEF Boot, rt_hw_lcd_init, mlx90640_init, MLX90640_INIT, thread_sample, BootOrder,
               Initialise
<1>4. \A t \in Threads : pc'[t] \in {"none", "poll"}
  BY <1>2, <1>1 DEF Boot, rt_hw_lcd_init, mlx90640_init, MLX90640_INIT, thread_sample,
                    StartThread, TypeOK, Places
<1>5. clean' = {} /\ ~settled'
  BY <1>3 DEF Boot, rt_hw_lcd_init, mlx90640_init, MLX90640_INIT, thread_sample, StartThread
<1>6. UNCHANGED <<made, sub, ram>>
  BY DEF Boot, rt_hw_lcd_init, mlx90640_init, MLX90640_INIT, thread_sample, StartThread
<1>7. BootOrder'
  <2>1. CASE rt_hw_lcd_init
    <3>1. todo' = <<"mlx90640_init", "MLX90640_INIT", "thread_sample">>
      BY <2>1, Tails DEF rt_hw_lcd_init
    <3>2. todo' # <<>> /\ todo' # <<"thread_sample">>
      BY <3>1
    <3>3. lcd' /\ UNCHANGED pc
      BY <2>1 DEF rt_hw_lcd_init
    <3>4. QED
      BY <1>2, <1>5, <3>1, <3>2, <3>3, Zenon DEF BootOrder
  <2>2. CASE mlx90640_init
    <3>1. /\ todo = <<"mlx90640_init", "MLX90640_INIT", "thread_sample">>
          /\ todo' = <<"MLX90640_INIT", "thread_sample">>
      BY <2>2, Tails DEF mlx90640_init
    <3>2. todo' # <<>> /\ todo' # <<"thread_sample">> /\ todo # LinkOrder
      BY <3>1 DEF LinkOrder
    <3>3. lcd' /\ UNCHANGED pc
      BY <2>2, <3>2 DEF mlx90640_init, BootOrder
    <3>4. QED
      BY <1>2, <1>5, <3>1, <3>2, <3>3, Zenon DEF BootOrder
  <2>3. CASE MLX90640_INIT
    BY <1>2, <1>5, <2>3, Tails DEF MLX90640_INIT, BootOrder, LinkOrder
  <2>4. CASE thread_sample
    BY <1>5, <2>4, Tails DEF thread_sample, StartThread, BootOrder, LinkOrder
  <2>5. QED
    BY <2>1, <2>2, <2>3, <2>4 DEF Boot
<1>8. \A t \in Threads : CallIntact(t)' /\ CalculationIntact(t)'
  BY <1>4 DEF CallIntact, CalculationIntact
<1>9. QED
  BY <1>1, <1>5, <1>6, <1>7, <1>8 DEF LastMeasured, Heals

\* A measurement keeps the invariant: what has been read grows older together.
LEMMA MeasureIInv == IInv /\ Measure => IInv'
<1> SUFFICES ASSUME IInv, Measure PROVE IInv'
  OBVIOUS
<1> USE DEF IInv
<1>1. TypeOK /\ TypeOK'
  BY NextTypeOK DEF Next
<1>2. BootOrder'
  BY DEF BootOrder, Measure, bootVars
<1>3. LastMeasured'
  BY <1>1 DEF LastMeasured, Measure, TypeOK, Modes, Subpages
<1>4. /\ \A w \in Words : frame'[w].order = frame[w].order /\ frame'[w].age = Older(frame[w].age)
      /\ \A t \in Threads : /\ pre'[t].age = Older(pre[t].age)
                            /\ pre'[t].sub = pre[t].sub /\ pre'[t].mode = pre[t].mode
  BY <1>1 DEF Measure, TypeOK, FrameWord, Preamble
<1>5. \A a \in Ages : a # None => Older(a) # None
  BY DEF Ages, Older, None
<1>6. ASSUME NEW s \in Subpages, OneMeasurement(s)
      PROVE  OneMeasurement(s)'
  <2>1. \A w \in Writes[mode][s] : w \in Words
    BY <1>1 DEF TypeOK
  <2>2. N \in Words /\ frame[N].age \in Ages
    BY <1>1 DEF Words, TypeOK, FrameWord
  <2>3. mode' = mode /\ s' = s
    BY DEF Measure
  <2>4. QED
    BY <1>4, <1>5, <1>6, <2>1, <2>2, <2>3 DEF OneMeasurement
<1>7. GoodFrame => GoodFrame'
  BY <1>1, <1>6 DEF GoodFrame, Measure, TypeOK, OneMeasurement
<1>8. ASSUME NEW t \in Threads
      PROVE  CallIntact(t)' /\ CalculationIntact(t)'
  <2>1. CallIntact(t)'
    BY <1>1, <1>6 DEF CallIntact, Reading, Measure, TypeOK, OneMeasurement
  <2>2. CalculationIntact(t)'
    BY <1>4, <1>7 DEF CalculationIntact, Measure, Words, bootVars
  <2>3. QED
    BY <2>1, <2>2
<1>9. Heals'
  BY DEF Heals, Measure, bootVars
<1>10. QED
  BY <1>1, <1>2, <1>3, <1>7, <1>8, <1>9 DEF Measure

\* What the steps of a thread have in common: the types, and boot is over.
LEMMA ThreadSteps ==
    ASSUME IInv, NEW t \in Threads, Step(t) \/ Fails(t) \/ ShellCommand(t)
    PROVE  /\ TypeOK /\ TypeOK'
           /\ todo = <<>>
           /\ UNCHANGED <<bootVars, mode, running, made, sub, ram>>
           /\ BootOrder' /\ LastMeasured'
<1> USE DEF sensorVars, bootVars, frameVars, threadVars, Goto, Return
<1>1. TypeOK /\ TypeOK'
  BY NextTypeOK DEF IInv, Next
<1>2. UNCHANGED <<bootVars, mode, running, made, sub, ram>>
  BY DEF Step, Fails, ShellCommand, StartThread, NoBus, ReadFails, Poll, ClearReady, ClearFails,
         VerifyClear, BurstWord, BurstDone, SwapBytes, SwapDone, CheckReady, ReadControl,
         ControlFails, Preliminaries, CalculateTo, Calculated, Draw
<1>3. todo = <<>>
  <2>1. CASE ShellCommand(t)
    BY <2>1 DEF ShellCommand
  <2>2. CASE Step(t) \/ Fails(t)
    <3>1. pc[t] # "none"
      BY <2>2 DEF Step, Fails, NoBus, ReadFails, Poll, ClearReady, ClearFails,
                  VerifyClear, BurstWord, BurstDone, SwapBytes, SwapDone, CheckReady,
                  ReadControl, ControlFails, Preliminaries, CalculateTo, Calculated, Draw
    <3>2. QED
      BY <3>1 DEF IInv, BootOrder
  <2>3. QED
    BY <2>1, <2>2
<1>4. BootOrder'
  BY <1>2, <1>3 DEF IInv, BootOrder
<1>5. LastMeasured'
  BY <1>2 DEF IInv, LastMeasured
<1>6. QED
  BY <1>1, <1>2, <1>3, <1>4, <1>5

\* The steps of a thread that neither write what is shared nor leave a claim about
\* the thread itself: a call that ends in an error, and the ends of a turn.
LEMMA PrivateIInv ==
    ASSUME IInv, NEW t \in Threads,
           \/ ShellCommand(t) \/ NoBus(t) \/ ReadFails(t) \/ Poll(t) \/ Draw(t)
           \/ VerifyClear(t) \/ BurstDone(t) \/ SwapDone(t)
    PROVE  IInv'
<1> USE DEF IInv, sensorVars, bootVars, frameVars, threadVars, Goto, Return
<1>1. Step(t) \/ Fails(t) \/ ShellCommand(t)
  BY DEF Step, Fails
<1>2. /\ UNCHANGED <<sensorVars, frameVars, params, To, settled, clean, pre>>
      /\ \A u \in Threads \ {t} : /\ pc'[u] = pc[u] /\ pos'[u] = pos[u]
                                  /\ status'[u] = status[u] /\ intact'[u] = intact[u]
  BY ThreadSteps, <1>1 DEF TypeOK, Places, ShellCommand, StartThread, NoBus, ReadFails, Poll,
                           Draw, VerifyClear, BurstDone, SwapDone
<1>3. \A u \in Threads \ {t} : CallIntact(u)' /\ CalculationIntact(u)'
  BY <1>2, Untouched
<1>4. CallIntact(t)' /\ CalculationIntact(t)'
  <2>1. CASE NoBus(t) \/ ReadFails(t)
    <3>1. ~intact'[t]
      BY <2>1, ThreadSteps, <1>1 DEF NoBus, ReadFails, TypeOK
    <3>2. QED
      BY <3>1 DEF CallIntact, CalculationIntact, Reading
  <2>2. CASE ShellCommand(t) \/ Poll(t) \/ Draw(t)
    <3>1. pc'[t] \in {"poll", "clear"}
      BY <2>2, ThreadSteps, <1>1 DEF ShellCommand, StartThread, Poll, Draw, TypeOK, Places
    <3>2. QED
      BY <3>1 DEF CallIntact, CalculationIntact
  <2>3. CASE BurstDone(t)
    <3>1. pc[t] = "burst" /\ pos[t] = N + 1 /\ pc'[t] = "swap" /\ UNCHANGED intact
      BY <2>3, ThreadSteps, <1>1 DEF BurstDone, TypeOK, Places
    <3>2. Reading(t, Words, "bus")
      BY <3>1 DEF CallIntact, Words
    <3>3. pos'[t] = 1 /\ 1 .. pos'[t] - 1 = {} /\ pos'[t] .. N = Words
      BY <2>3, ThreadSteps, <1>1 DEF BurstDone, TypeOK, Words
    <3>4. QED
      BY <1>2, <3>1, <3>2, <3>3 DEF CallIntact, CalculationIntact, Reading
  <2>4. CASE VerifyClear(t)
    <3>1. pc[t] = "verify" /\ pc'[t] = "burst" /\ UNCHANGED <<pos, intact>>
      BY <2>4, ThreadSteps, <1>1 DEF VerifyClear, TypeOK, Places
    <3>2. Reading(t, 1 .. pos[t] - 1, "bus")
      BY <3>1 DEF CallIntact
    <3>3. QED
      BY <1>2, <3>1, <3>2 DEF CallIntact, CalculationIntact, Reading
  <2>5. CASE SwapDone(t)
    <3>1. pc[t] = "swap" /\ pos[t] = N + 1 /\ pc'[t] = "status" /\ UNCHANGED intact
      BY <2>5, ThreadSteps, <1>1 DEF SwapDone, TypeOK, Places
    <3>2. Reading(t, Words, "host")
      BY <3>1 DEF CallIntact, Words
    <3>3. QED
      BY <1>2, <3>1, <3>2 DEF CallIntact, CalculationIntact, Reading
  <2>6. QED
    BY <2>1, <2>2, <2>3, <2>4, <2>5
<1>5. Heals' /\ (settled => GoodFrame)'
  BY <1>2 DEF Heals, GoodFrame, OneMeasurement
<1>6. QED
  BY <1>1, <1>3, <1>4, <1>5, ThreadSteps

\* The steps of a call that write the ready bit or frame.
LEMMA FrameIInv ==
    ASSUME IInv, NEW t \in Threads,
           \/ ClearReady(t) \/ ClearFails(t) \/ BurstWord(t) \/ SwapBytes(t)
           \/ ReadControl(t) \/ ControlFails(t)
    PROVE  IInv'
<1> USE DEF IInv, sensorVars, bootVars, frameVars, threadVars, Goto, Return, Touch
<1>1. Step(t) \/ Fails(t) \/ ShellCommand(t)
  BY DEF Step, Fails
<1>2. /\ TypeOK /\ TypeOK' /\ BootOrder' /\ LastMeasured'
      /\ UNCHANGED <<bootVars, mode, running, made, sub, ram>>
  BY <1>1, ThreadSteps
<1>3. UNCHANGED <<To, clean>>
  BY DEF ClearReady, ClearFails, BurstWord, SwapBytes, ReadControl, ControlFails
<1>4. Heals'
  BY <1>2, <1>3 DEF Heals
<1>5. (settled => GoodFrame)'
  <2>1. CASE ClearReady(t) \/ ClearFails(t)
    BY <1>2, <2>1 DEF ClearReady, ClearFails, GoodFrame, OneMeasurement
  <2>2. CASE BurstWord(t) \/ SwapBytes(t) \/ ReadControl(t) \/ ControlFails(t)
    BY <2>2 DEF BurstWord, SwapBytes, ReadControl, ControlFails
  <2>3. QED
    BY <2>1, <2>2
<1>6. \A u \in Threads \ {t} : ~intact'[u]
  BY <1>2 DEF ClearReady, ClearFails, BurstWord, SwapBytes, ReadControl, ControlFails
<1>7. \A u \in Threads \ {t} : CallIntact(u)' /\ CalculationIntact(u)'
  BY <1>6 DEF CallIntact, CalculationIntact, Reading
<1>8. CallIntact(t)' /\ CalculationIntact(t)'
  <2>1. CASE ClearFails(t) \/ ControlFails(t)
    <3>1. ~intact'[t]
      BY <2>1 DEF ClearFails, ControlFails
    <3>2. QED
      BY <3>1 DEF CallIntact, CalculationIntact, Reading
  <2>2. CASE ClearReady(t)
    <3>1. pc'[t] = "verify" /\ pos'[t] = 1
      BY <1>2, <2>2 DEF ClearReady, TypeOK, Places
    <3>2. intact'[t] => made' = mode'
      BY <1>2, <2>2 DEF ClearReady
    <3>3. QED
      BY <3>1, <3>2 DEF CallIntact, CalculationIntact, Reading
  <2>3. CASE BurstWord(t)
    <3>1. /\ pc[t] = "burst" /\ pc'[t] = "burst" /\ pos'[t] = pos[t] + 1 /\ pos[t] \in Words
          /\ frame' = [frame EXCEPT ![pos[t]] = [age |-> ram[pos[t]], order |-> "bus"]]
          /\ UNCHANGED <<ready, ram>>
      BY <1>2, <2>3 DEF BurstWord, TypeOK
    <3>2. intact'[t] => intact[t]
      BY <1>2, <2>3 DEF BurstWord
    <3>3. ASSUME intact'[t], ~ready'
          PROVE  Reading(t, 1 .. pos[t] - 1, "bus")
      BY <3>1 DEF CallIntact
    <3>4. ASSUME intact'[t], ~ready', NEW w \in 1 .. pos[t]
          PROVE  frame'[w] = [age |-> ram[w], order |-> "bus"]
      <4>1. frame \in [Words -> FrameWord] /\ w \in Words
        BY <1>2, <3>1 DEF TypeOK, Words
      <4>2. CASE w = pos[t]
        BY <3>1, <4>1, <4>2
      <4>3. CASE w # pos[t]
        <5>1. w \in 1 .. pos[t] - 1
          BY <3>1, <4>3 DEF Words
        <5>2. frame[w] = [age |-> ram[w], order |-> "bus"]
          BY <3>1, <3>2, <3>3, <3>4, <5>1 DEF Reading
        <5>3. QED
          BY <3>1, <4>1, <4>3, <5>2
      <4>4. QED
        BY <4>2, <4>3
    <3>5. intact'[t] /\ ~ready' => made' = mode'
      BY <1>2, <3>1, <3>2, <3>3 DEF Reading
    <3>6. 1 .. pos'[t] - 1 = 1 .. pos[t]
      BY <3>1 DEF Words
    <3>7. QED
      BY <3>1, <3>4, <3>5, <3>6 DEF CallIntact, CalculationIntact, Reading
  <2>4. CASE SwapBytes(t)
    <3>1. /\ pc[t] = "swap" /\ pc'[t] = "swap" /\ pos'[t] = pos[t] + 1 /\ pos[t] \in Words
          /\ frame' = [frame EXCEPT ![pos[t]] = Swapped(frame[pos[t]])]
          /\ UNCHANGED <<ready, ram>>
      BY <1>2, <2>4 DEF SwapBytes, TypeOK
    <3>2. intact'[t] => intact[t]
      BY <1>2, <2>4 DEF SwapBytes
    <3>3. Reading(t, 1 .. pos[t] - 1, "host") /\ Reading(t, pos[t] .. N, "bus")
      BY <3>1 DEF CallIntact
    <3>4. frame \in [Words -> FrameWord]
      BY <1>2 DEF TypeOK
    <3>5. ASSUME intact'[t], ~ready', NEW w \in 1 .. pos[t]
          PROVE  frame'[w] = [age |-> ram[w], order |-> "host"]
      <4>1. CASE w = pos[t]
        <5>1. w \in pos[t] .. N /\ w \in Words
          BY <3>1, <4>1 DEF Words
        <5>2. frame[w] = [age |-> ram[w], order |-> "bus"]
          BY <3>1, <3>2, <3>3, <3>5, <5>1 DEF Reading
        <5>3. Swapped(frame[w]) = [age |-> ram[w], order |-> "host"]
          BY <5>2 DEF Swapped
        <5>4. QED
          BY <3>1, <3>4, <4>1, <5>1, <5>3
      <4>2. CASE w # pos[t]
        <5>1. w \in 1 .. pos[t] - 1 /\ w \in Words
          BY <3>1, <4>2 DEF Words
        <5>2. frame[w] = [age |-> ram[w], order |-> "host"]
          BY <3>1, <3>2, <3>3, <3>5, <5>1 DEF Reading
        <5>3. QED
          BY <3>1, <3>4, <4>2, <5>1, <5>2
      <4>3. QED
        BY <4>1, <4>2
    <3>6. ASSUME intact'[t], ~ready', NEW w \in pos[t] + 1 .. N
          PROVE  frame'[w] = [age |-> ram[w], order |-> "bus"]
      <4>1. w \in pos[t] .. N /\ w \in Words /\ w # pos[t]
        BY <3>1 DEF Words
      <4>2. frame[w] = [age |-> ram[w], order |-> "bus"]
        BY <3>1, <3>2, <3>3, <3>6, <4>1 DEF Reading
      <4>3. QED
        BY <3>1, <3>4, <4>1, <4>2
    <3>7. intact'[t] /\ ~ready' => made' = mode'
      BY <1>2, <3>1, <3>2, <3>3 DEF Reading
    <3>8. 1 .. pos'[t] - 1 = 1 .. pos[t] /\ pos'[t] .. N = pos[t] + 1 .. N
      BY <3>1 DEF Words
    <3>9. Reading(t, 1 .. pos[t] - 1, "host")'
      BY <3>1, <3>5, <3>7, <3>8 DEF Reading
    <3>10. Reading(t, pos[t] .. N, "bus")'
      BY <3>1, <3>6, <3>7, <3>8 DEF Reading
    <3>11. QED
      BY <3>1, <3>9, <3>10 DEF CallIntact, CalculationIntact
  <2>5. CASE ReadControl(t)
    <3>1. /\ pc[t] = "ctrl" /\ pc'[t] = "calc" /\ frame' = frame
          /\ frame832' = [mode |-> mode, good |-> TRUE] /\ frame833' = status[t]
      BY <1>2, <2>5 DEF ReadControl, TypeOK, Places
    <3>2. intact'[t] => intact[t]
      BY <1>2, <2>5 DEF ReadControl
    <3>3. intact'[t] => OneMeasurement(status[t])
      BY <3>1, <3>2 DEF CallIntact
    <3>4. intact'[t] => GoodFrame'
      BY <1>2, <3>1, <3>3 DEF GoodFrame, OneMeasurement
    <3>5. QED
      BY <3>1, <3>4 DEF CallIntact, CalculationIntact
  <2>6. QED
    BY <2>1, <2>2, <2>3, <2>4, <2>5
<1>9. QED
  BY <1>2, <1>4, <1>5, <1>7, <1>8

\* The second status read: the words of the subpage it names are those of the last
\* measurement, if none has ended since the ready bit was cleared.
LEMMA CheckReadyIInv == ASSUME IInv, NEW t \in Threads, CheckReady(t) PROVE IInv'
<1> USE DEF IInv, sensorVars, bootVars, frameVars, threadVars, Return
<1>1. Step(t) \/ Fails(t) \/ ShellCommand(t)
  BY DEF Step
<1>2. /\ TypeOK /\ TypeOK' /\ BootOrder' /\ LastMeasured'
      /\ UNCHANGED <<sensorVars, bootVars, frameVars, To, pre, settled, clean>>
  BY <1>1, ThreadSteps DEF CheckReady
<1>3. \A u \in Threads \ {t} : /\ pc'[u] = pc[u] /\ pos'[u] = pos[u]
                               /\ status'[u] = status[u] /\ intact'[u] = intact[u]
  BY <1>2 DEF CheckReady, Again, Accept, GiveUp, TypeOK, Places
<1>4. \A u \in Threads \ {t} : CallIntact(u)' /\ CalculationIntact(u)'
  BY <1>2, <1>3, Untouched
<1>5. CallIntact(t)' /\ CalculationIntact(t)'
  <2>1. CASE Again(t)
    <3>1. pc'[t] = "clear"
      BY <1>2, <2>1 DEF Again, TypeOK, Places
    <3>2. QED
      BY <3>1 DEF CallIntact, CalculationIntact
  <2>2. CASE GiveUp(t)
    <3>1. ~intact'[t]
      BY <1>2, <2>2 DEF GiveUp, TypeOK
    <3>2. QED
      BY <3>1 DEF CallIntact, CalculationIntact, Reading
  <2>3. CASE Accept(t) /\ ~ready
    <3>1. pc[t] = "status" /\ pc'[t] = "ctrl" /\ status'[t] = sub /\ UNCHANGED intact
      BY <1>2, <2>3 DEF CheckReady, Accept, TypeOK, Places
    <3>2. ASSUME intact[t]
          PROVE  OneMeasurement(sub)
      <4>1. Reading(t, Words, "host")
        BY <3>1 DEF CallIntact
      <4>2. made = mode
        BY <2>3, <3>2, <4>1 DEF Reading
      <4>3. \A w \in Words : frame[w] = [age |-> ram[w], order |-> "host"]
        BY <2>3, <3>2, <4>1 DEF Reading
      <4>4. \A w \in Writes[mode][sub] : w \in Words /\ ram[w] = 0
        BY <1>2, <4>2 DEF LastMeasured, TypeOK
      <4>5. N \in Words /\ N \in Writes[mode][sub]
        BY <1>2 DEF TypeOK, Words
      <4>6. ASSUME NEW w \in Writes[mode][sub]
            PROVE  frame[w].age = 0 /\ frame[w].order = "host"
        <5>1. frame[w] = [age |-> 0, order |-> "host"]
          BY <4>3, <4>4
        <5>2. QED
          BY <5>1
      <4>7. frame[N].age = 0
        BY <4>5, <4>6
      <4>8. QED
        BY <4>6, <4>7 DEF OneMeasurement, None
    <3>3. OneMeasurement(sub) => OneMeasurement(status[t])'
      BY <1>2, <3>1 DEF OneMeasurement
    <3>4. QED
      BY <3>1, <3>2, <3>3 DEF CallIntact, CalculationIntact
  <2>4. QED
    BY <2>1, <2>2, <2>3 DEF CheckReady
<1>6. Heals' /\ (settled => GoodFrame)'
  BY <1>2 DEF Heals, GoodFrame, OneMeasurement
<1>7. QED
  BY <1>2, <1>4, <1>5, <1>6

\* The calculation, of a frame that is good or by a thread that is not intact.
LEMMA CalculationIInv ==
    ASSUME IInv, NEW t \in Threads, Preliminaries(t) \/ CalculateTo(t) \/ Calculated(t)
    PROVE  IInv'
<1> USE DEF IInv, sensorVars, bootVars, frameVars, threadVars, Goto, Touch
<1>1. Step(t) \/ Fails(t) \/ ShellCommand(t)
  BY DEF Step
<1>2. /\ TypeOK /\ TypeOK' /\ BootOrder' /\ LastMeasured'
      /\ UNCHANGED <<sensorVars, bootVars, frameVars, status>>
  BY <1>1, ThreadSteps DEF Preliminaries, CalculateTo, Calculated
<1>3. GoodFrame' <=> GoodFrame
  BY <1>2 DEF GoodFrame, OneMeasurement
<1>4. CASE Preliminaries(t)
  <2>1. /\ pc[t] = "calc" /\ pc'[t] = "pixels" /\ pos'[t] = 1
        /\ intact'[t] = (intact[t] \/ settled)
        /\ pre'[t] = [age |-> IF frame[N].order = "host" /\ frame832.good /\ params = "sensor"
                              THEN frame[N].age ELSE None,
                      sub |-> frame833, mode |-> frame832.mode]
    BY <1>2, <1>4 DEF Preliminaries, TypeOK, Places
  <2>2. /\ UNCHANGED <<To, settled, clean>>
        /\ \A u \in Threads \ {t} : /\ pc'[u] = pc[u] /\ pos'[u] = pos[u] /\ pre'[u] = pre[u]
                                    /\ intact'[u] = intact[u]
    BY <1>2, <1>4 DEF Preliminaries, TypeOK, Places
  <2>3. \A u \in Threads \ {t} : CallIntact(u)' /\ CalculationIntact(u)'
    BY <1>2, <2>2, Untouched
  <2>4. intact'[t] => GoodFrame
    BY <2>1 DEF CalculationIntact
  <2>5. N \in Writes[mode][frame833]
    BY <1>2 DEF TypeOK
  <2>6. intact'[t] => /\ pre'[t].sub = frame833' /\ pre'[t].mode = mode'
                      /\ params' = "sensor" => pre'[t].age = frame'[N].age
    BY <1>2, <2>1, <2>4, <2>5 DEF GoodFrame, OneMeasurement
  <2>7. CallIntact(t)' /\ CalculationIntact(t)'
    BY <1>3, <2>1, <2>4, <2>6 DEF CallIntact, CalculationIntact
  <2>8. Heals' /\ (settled => GoodFrame)'
    BY <1>2, <1>3, <2>2 DEF Heals
  <2>9. QED
    BY <1>2, <2>3, <2>7, <2>8
<1>5. CASE CalculateTo(t) /\ pos[t] \notin Writes[pre[t].mode][frame833]
  <2>1. /\ UNCHANGED <<To, settled, clean, intact, pre, pc>>
        /\ pc[t] = "pixels" /\ pos[t] \in Pixels /\ pos'[t] = pos[t] + 1
        /\ \A u \in Threads \ {t} : pos'[u] = pos[u]
    BY <1>2, <1>5 DEF CalculateTo, TypeOK
  <2>2. \A u \in Threads \ {t} : CallIntact(u)' /\ CalculationIntact(u)'
    BY <1>2, <2>1, Untouched
  <2>3. ASSUME intact[t], params = "sensor", NEW p \in 1 .. pos[t], p \in Writes[mode][frame833]
        PROVE  To[p] = "whole"
    <3>1. p # pos[t]
      BY <1>5, <2>1, <2>3 DEF CalculationIntact
    <3>2. p \in 1 .. pos[t] - 1
      BY <2>1, <3>1 DEF Pixels
    <3>3. QED
      BY <2>1, <2>3, <3>2 DEF CalculationIntact
  <2>4. 1 .. pos'[t] - 1 = 1 .. pos[t]
    BY <2>1 DEF Pixels
  <2>5. CallIntact(t)' /\ CalculationIntact(t)'
    BY <1>2, <1>3, <2>1, <2>3, <2>4 DEF CallIntact, CalculationIntact
  <2>6. Heals' /\ (settled => GoodFrame)'
    BY <1>2, <1>3, <2>1 DEF Heals
  <2>7. QED
    BY <1>2, <2>2, <2>5, <2>6
<1>6. CASE CalculateTo(t) /\ pos[t] \in Writes[pre[t].mode][frame833]
  <2>1. /\ UNCHANGED <<settled, pre, pc>>
        /\ pc[t] = "pixels" /\ pos[t] \in Pixels /\ pos'[t] = pos[t] + 1
        /\ To' = [To EXCEPT ![pos[t]] = Temperature(frame[pos[t]], pre[t])]
    BY <1>2, <1>6 DEF CalculateTo, TypeOK
  <2>2. /\ \A u \in Threads \ {t} : ~intact'[u]
        /\ intact'[t] <=> intact[t]
        /\ clean' = IF intact[t] THEN clean ELSE {}
    BY <1>2, <1>6 DEF CalculateTo, TypeOK
  <2>3. \A u \in Threads \ {t} : CallIntact(u)' /\ CalculationIntact(u)'
    BY <2>2 DEF CallIntact, CalculationIntact, Reading
  <2>4. ASSUME intact[t], params = "sensor"
        PROVE  To'[pos[t]] = "whole"
    <3>1. /\ GoodFrame /\ pre[t].sub = frame833 /\ pre[t].mode = mode
          /\ pre[t].age = frame[N].age
      BY <2>1, <2>4 DEF CalculationIntact
    <3>2. frame[pos[t]].order = "host" /\ frame[pos[t]].age = frame[N].age /\ frame[N].age # None
      BY <1>6, <3>1 DEF GoodFrame, OneMeasurement
    <3>3. Temperature(frame[pos[t]], pre[t]) = "whole"
      BY <3>1, <3>2 DEF Temperature
    <3>4. QED
      BY <1>2, <2>1, <3>3 DEF TypeOK
  <2>5. \A p \in Pixels : p # pos[t] => To'[p] = To[p]
    BY <1>2, <2>1 DEF TypeOK
  <2>6. ASSUME intact'[t], params' = "sensor", NEW p \in 1 .. pos[t], p \in Writes[mode][frame833]
        PROVE  To'[p] = "whole"
    <3>1. params = "sensor" /\ intact[t]
      BY <1>2, <2>2, <2>6
    <3>2. CASE p = pos[t]
      BY <2>4, <3>1, <3>2
    <3>3. CASE p # pos[t]
      <4>1. p \in 1 .. pos[t] - 1 /\ p \in Pixels
        BY <2>1, <3>3 DEF Pixels
      <4>2. To[p] = "whole"
        BY <2>1, <2>6, <3>1, <4>1 DEF CalculationIntact
      <4>3. QED
        BY <2>5, <3>3, <4>1, <4>2
    <3>4. QED
      BY <3>2, <3>3
  <2>7. 1 .. pos'[t] - 1 = 1 .. pos[t]
    BY <2>1 DEF Pixels
  <2>8. CallIntact(t)' /\ CalculationIntact(t)'
    BY <1>2, <1>3, <2>1, <2>2, <2>6, <2>7 DEF CallIntact, CalculationIntact
  <2>9. Heals'
    <3>1. SUFFICES ASSUME params' = "sensor", NEW s \in clean', NEW p \in Pixels \cap Writes[mode'][s]
                   PROVE  To'[p] = "whole"
      BY DEF Heals
    <3>2. intact[t]
      BY <2>2, <3>1
    <3>3. s \in clean
      BY <2>2, <3>1, <3>2
    <3>4. params = "sensor" /\ mode' = mode
      BY <1>2, <3>1
    <3>5. CASE p = pos[t]
      BY <2>4, <3>2, <3>4, <3>5
    <3>6. CASE p # pos[t]
      BY <2>5, <3>1, <3>3, <3>4, <3>6 DEF Heals
    <3>7. QED
      BY <3>5, <3>6
  <2>10. (settled => GoodFrame)'
    BY <1>3, <2>1
  <2>11. QED
    BY <1>2, <2>3, <2>8, <2>9, <2>10
<1>7. CASE Calculated(t)
  <2>1. /\ pos[t] = N /\ pc[t] = "pixels" /\ pc'[t] = "draw" /\ To' = To
        /\ \A u \in Threads \ {t} : /\ pc'[u] = pc[u] /\ pos'[u] = pos[u] /\ pre'[u] = pre[u]
                                    /\ intact'[u] = intact[u]
    BY <1>2, <1>7 DEF Calculated, TypeOK, Places
  <2>2. /\ settled' => settled \/ intact[t]
        /\ clean' = IF intact[t] THEN clean \cup {pre[t].sub} ELSE clean
    BY <1>7 DEF Calculated
  <2>3. \A u \in Threads \ {t} : CallIntact(u)' /\ CalculationIntact(u)'
    BY <1>2, <2>1, Untouched
  <2>4. CallIntact(t)' /\ CalculationIntact(t)'
    BY <2>1 DEF CallIntact, CalculationIntact
  <2>5. (settled => GoodFrame)'
    BY <1>3, <2>1, <2>2 DEF CalculationIntact
  <2>6. Heals'
    <3>1. SUFFICES ASSUME params' = "sensor", NEW s \in clean', NEW p \in Pixels \cap Writes[mode'][s]
                   PROVE  To'[p] = "whole"
      BY DEF Heals
    <3>2. params = "sensor" /\ mode' = mode
      BY <1>2, <3>1
    <3>3. CASE s \in clean
      BY <2>1, <3>1, <3>2, <3>3 DEF Heals
    <3>4. CASE intact[t] /\ s = pre[t].sub
      <4>1. p \in 1 .. pos[t] - 1 /\ s = frame833
        BY <2>1, <3>1, <3>4 DEF CalculationIntact, Pixels
      <4>2. QED
        BY <2>1, <3>1, <3>2, <3>4, <4>1 DEF CalculationIntact
    <3>5. QED
      BY <2>2, <3>3, <3>4
  <2>7. QED
    BY <1>2, <2>3, <2>4, <2>5, <2>6
<1>8. QED
  BY <1>4, <1>5, <1>6, <1>7

\* Every step keeps the invariant.
LEMMA NextIInv == IInv /\ [Next]_vars => IInv'
<1> SUFFICES ASSUME IInv, [Next]_vars PROVE IInv'
  OBVIOUS
<1>1. CASE Measure
  BY <1>1, MeasureIInv
<1>2. CASE Boot
  BY <1>2, BootIInv
<1>3. ASSUME NEW t \in Threads, Step(t) \/ Fails(t) \/ ShellCommand(t)
      PROVE  IInv'
  BY <1>3, PrivateIInv, FrameIInv, CheckReadyIInv, CalculationIInv DEF Step, Fails
<1>4. CASE UNCHANGED vars
  <2>1. TypeOK'
    BY <1>4, NextTypeOK DEF IInv
  <2>2. /\ UNCHANGED <<sub, ram, ready, mode, made, todo, lcd, params, frame, frame832, frame833>>
        /\ UNCHANGED <<To, pc, pos, status, pre, intact, settled, clean>>
    BY <1>4 DEF vars, sensorVars, bootVars, frameVars, threadVars
  <2>3. \A u \in Threads : CallIntact(u)' /\ CalculationIntact(u)'
    BY <2>2, Untouched DEF IInv
  <2>4. QED
    BY <2>1, <2>2, <2>3 DEF IInv, BootOrder, LastMeasured, GoodFrame, OneMeasurement, Heals
<1>5. QED
  BY <1>1, <1>2, <1>3, <1>4 DEF Next

\* The invariant behind the theorems, for every set of threads, array and pattern.
THEOREM InvariantHolds == Spec => []IInv
BY InitIInv, NextIInv, PTL DEF Spec

\* The state keeps its types: no loop index of thread1 leaves the array, and the
\* attempts of MLX90640_GetFrameData never exceed their limit.
THEOREM TypeCorrect == Spec => []TypeOK
<1>1. IInv => TypeOK
  BY DEF IInv
<1>2. QED
  BY <1>1, InvariantHolds, PTL

\* The initialisers of the display and of the sensor have run before any instance of
\* thread1 does.
THEOREM BootedFirstHolds == Spec => []BootedFirst
<1>1. IInv => BootedFirst
  <2> SUFFICES ASSUME IInv, NEW t \in Threads, pc[t] # "none"
               PROVE  lcd /\ params # "zero"
    BY DEF BootedFirst
  <2>1. todo = <<>>
    BY DEF IInv, BootOrder
  <2>2. todo # LinkOrder
    BY <2>1 DEF LinkOrder
  <2>3. QED
    BY <2>1, <2>2 DEF IInv, BootOrder
<1>2. QED
  BY <1>1, InvariantHolds, PTL

\* However many instances of thread1 interfere and whatever fails, one undisturbed
\* call for a subpage makes its temperatures whole again.
THEOREM HealsHolds == Spec => []Heals
<1>1. IInv => Heals
  BY DEF IInv
<1>2. QED
  BY <1>1, InvariantHolds, PTL
=============================================================================
