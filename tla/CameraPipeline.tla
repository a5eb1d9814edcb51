--------------------------- MODULE CameraPipeline ---------------------------
(***************************************************************************)
(* Boot and the loop of thread1 (MLX90640_DISPLAY.c) as far as the         *)
(* temperatures: the device-level initialisers in link order, then any     *)
(* number of instances of thread1, since thread_sample is also a command   *)
(* of the shell.  They share frame and mlx90640To and call                 *)
(* MLX90640_GetFrameData and MLX90640_CalculateTo whatever the call before *)
(* returned.  Any transfer may fail.                                       *)
(*                                                                         *)
(* The sensor is external.  A word of its RAM, and of frame, is            *)
(* represented by its age: how many measurements ago it was measured,      *)
(* modulo M.  Two words belong to one measurement if they have one age.    *)
(* Which pixels a measurement writes depends on the mode in the control    *)
(* register, chess or interleaved.                                         *)
(*                                                                         *)
(* Words 1 to N - 1 are pixels; word N stands for the auxiliary words      *)
(* (gain, Vdd, Ta, compensation pixels), which each measurement writes.    *)
(* A temperature is "whole" when the pixel word and the auxiliary words it *)
(* was computed from belong to one measurement, are in host byte order,    *)
(* came with its subpage and a control register that had been read, and    *)
(* met the parameters of this sensor; otherwise it is "mixed".  The pixels *)
(* are not deviating ones, whose correction is the subject of BadPixels.   *)
(***************************************************************************)
EXTENDS Integers, Sequences

CONSTANTS
    Threads,      \* the instances of thread1
    First,        \* the one that is started at boot
    N,            \* number of RAM words
    Writes,       \* Writes[mode][s]: the words a measurement of subpage s writes
    PowerUpModes, \* the modes a sensor may be in when power comes on
    M,            \* ages are kept modulo M
    MaxAttempts   \* attempts of MLX90640_GetFrameData, 5 in the code

Modes == {"chess", "interleaved"}
Subpages == {0, 1}
Words == 1 .. N
Pixels == 1 .. N - 1

ASSUME ThreadAssumption == First \in Threads /\ PowerUpModes \subseteq Modes
ASSUME CountAssumption == N \in Nat /\ N > 1 /\ M \in Nat /\ M > 1 /\ MaxAttempts \in Nat \ {0}
ASSUME WritesAssumption ==
    /\ Writes \in [Modes -> [Subpages -> SUBSET Words]]
    /\ \A m \in Modes, s \in Subpages : N \in Writes[m][s]

\* Mutant of LinkOrder: the application is linked before the board drivers.
LinkOrderAppFirst == <<"mlx90640_init", "MLX90640_INIT", "thread_sample", "rt_hw_lcd_init">>

Initialisers == {"rt_hw_lcd_init", "mlx90640_init", "MLX90640_INIT", "thread_sample"}

\* The device-level initialisers, in the order of their objects in the link.
LinkOrder == <<"rt_hw_lcd_init", "mlx90640_init", "MLX90640_INIT", "thread_sample">>

None == -1
Ages == (0 .. M - 1) \cup {None}
Older(age) == IF age = None THEN None ELSE IF age = M - 1 THEN 0 ELSE age + 1

\* A word of frame, and what frame[832] says of the mode.
FrameWord == [age: Ages, order: {"host", "bus"}]
Control == [mode: Modes, good: BOOLEAN]

\* What MLX90640_CalculateTo has computed before its loop: the age of the auxiliary
\* words, None if they are of no use, the subpage and the mode.
Preamble == [age: Ages, sub: Subpages, mode: Modes]

Zero == [age |-> None, order |-> "host"]
NoPreamble == [age |-> None, sub |-> 0, mode |-> "chess"]
ZeroControl == [mode |-> "interleaved", good |-> FALSE]

VARIABLES
    sub, ram, ready,          \* sensor: subpage of the last measurement, RAM, ready bit
    mode, running, made,      \* sensor: mode in the control register, of the measurement under way,
                              \* and of the last measurement
    todo,                     \* initialisers still to run
    lcd, i2c_bus,             \* the LCD has been initialised; mlx90640_init has found the bus
    params,                   \* what the structure mlx90640 was filled from
    frame, frame832, frame833,\* the shared array
    To,                       \* mlx90640To
    pc, pos, cnt, status,     \* per thread: place, loop index, attempts, subpage bit of the status read
    pre,                      \* per thread: the Preamble of its calculation
    intact,                   \* per thread, monitor: the RAM was measured in the present mode, and since
                              \* the ready bit was cleared no transfer has failed and no other thread has
                              \* written what the threads share
    settled,                  \* monitor: frame has not been written since an intact thread calculated it
    clean                     \* monitor: subpages calculated by intact threads since any other has written
                              \* mlx90640To

sensorVars == <<sub, ram, ready, mode, running, made>>
bootVars == <<todo, lcd, i2c_bus, params>>
frameVars == <<frame, frame832, frame833>>
threadVars == <<pc, pos, cnt, status, pre>>
vars == <<sensorVars, bootVars, frameVars, To, threadVars, intact, settled, clean>>

Places == [Threads -> {"none", "poll", "clear", "verify", "burst", "swap", "status",
                      "ctrl", "calc", "pixels", "draw"}]

TypeOK ==
    /\ sub \in Subpages /\ ready \in BOOLEAN
    /\ ram \in [Words -> Ages]
    /\ mode \in Modes /\ running \in Modes /\ made \in Modes
    /\ todo \in Seq(Initialisers)
    /\ lcd \in BOOLEAN /\ i2c_bus \in BOOLEAN
    /\ params \in {"zero", "sensor", "broken"}
    /\ frame \in [Words -> FrameWord]
    /\ frame832 \in Control /\ frame833 \in Subpages
    /\ To \in [Pixels -> {"whole", "mixed"}]
    /\ pc \in Places
    /\ pos \in [Threads -> 1 .. N + 1]
    /\ cnt \in [Threads -> 0 .. MaxAttempts - 1]
    /\ status \in [Threads -> Subpages]
    /\ pre \in [Threads -> Preamble]
    /\ intact \in [Threads -> BOOLEAN]
    /\ settled \in BOOLEAN /\ clean \subseteq Subpages

\* Power is on, the sensor is measuring in the mode its own EEPROM gives it.
Init ==
    /\ sub \in Subpages /\ ready = FALSE
    /\ mode \in PowerUpModes /\ running = mode /\ made = mode
    /\ ram = [w \in Words |-> IF w \in Writes[mode][sub] THEN 0 ELSE None]
    /\ todo = LinkOrder
    /\ lcd = FALSE /\ i2c_bus = FALSE /\ params = "zero"
    /\ frame = [w \in Words |-> Zero] /\ frame832 = ZeroControl /\ frame833 = 0
    /\ To = [p \in Pixels |-> "mixed"]
    /\ pc = [t \in Threads |-> "none"]
    /\ pos = [t \in Threads |-> 1]
    /\ cnt = [t \in Threads |-> 0]
    /\ status = [t \in Threads |-> 0]
    /\ pre = [t \in Threads |-> NoPreamble]
    /\ intact = [t \in Threads |-> FALSE]
    /\ settled = FALSE /\ clean = {}
-----------------------------------------------------------------------------
(* The sensor.                                                             *)

\* A measurement ends, in the mode in which it began, and the next one begins;
\* what was measured before grows older.
Measure ==
    /\ sub' = 1 - sub
    /\ ram' = [w \in Words |-> IF w \in Writes[running][1 - sub] THEN 0 ELSE Older(ram[w])]
    /\ ready' = TRUE
    /\ made' = running
    /\ running' = mode
    /\ frame' = [w \in Words |-> [frame[w] EXCEPT !.age = Older(@)]]
    /\ pre' = [t \in Threads |-> [pre[t] EXCEPT !.age = Older(@)]]
    /\ UNCHANGED <<mode, bootVars, frame832, frame833, To, pc, pos, cnt, status,
                   intact, settled, clean>>
-----------------------------------------------------------------------------
(* Boot: rt_components_init calls the initialisers one after the other.    *)

Initialise(f) == todo # <<>> /\ Head(todo) = f /\ todo' = Tail(todo)

rt_hw_lcd_init ==
    /\ Initialise("rt_hw_lcd_init")
    /\ lcd' = TRUE
    /\ UNCHANGED <<i2c_bus, params, sensorVars, frameVars, To, threadVars, intact, settled, clean>>

\* rt_device_find finds sci9i unless its board-level initialiser failed.
mlx90640_init ==
    /\ Initialise("mlx90640_init")
    /\ i2c_bus' \in BOOLEAN
    /\ UNCHANGED <<lcd, params, sensorVars, frameVars, To, threadVars, intact, settled, clean>>

\* MLX90640_SetRefreshRate, MLX90640_SetChessMode, MLX90640_DumpEE and
\* MLX90640_ExtractParameters.  No result stops what follows; a write reported as
\* failed may have reached the sensor; a dump that fails leaves zeros or words in
\* bus byte order, from which the parameters are extracted all the same.  The
\* refresh rate shows only in the pace of Measure.
MLX90640_INIT ==
    /\ Initialise("MLX90640_INIT")
    /\ IF i2c_bus
       THEN mode' \in {mode, "chess"} /\ params' \in {"sensor", "broken"}
       ELSE params' = "broken" /\ UNCHANGED mode
    /\ UNCHANGED <<lcd, i2c_bus, sub, ram, ready, running, made,
                   frameVars, To, threadVars, intact, settled, clean>>

\* rt_thread_create and rt_thread_startup, at boot or from the shell.
StartThread(t) ==
    /\ pc[t] = "none"
    /\ pc' = [pc EXCEPT ![t] = "poll"]
    /\ UNCHANGED <<lcd, i2c_bus, params, sensorVars, frameVars, To,
                   pos, cnt, status, pre, intact, settled, clean>>

thread_sample == Initialise("thread_sample") /\ StartThread(First)

ShellCommand(t) == todo = <<>> /\ StartThread(t) /\ UNCHANGED todo
-----------------------------------------------------------------------------
(* thread1: MLX90640_GetFrameData.                                         *)

Goto(t, from, to) == pc[t] = from /\ pc' = [pc EXCEPT ![t] = to]

\* rt_i2c_transfer holds the mutex of the bus for one transfer.  A transfer of one
\* word is one step; a burst holds the mutex from its first word to its last.
HoldsBus(t) == pc[t] = "burst" /\ pos[t] > 1

\* t may begin a transfer, or go on with its own.
BusFree(t) == \A u \in Threads \ {t} : ~HoldsBus(u)

\* t writes something the others share.
Touch(t) == intact' = [u \in Threads |-> u = t /\ intact[t]]

\* The call returns; its variables are dead and get their first values back.  The
\* loop of thread1 goes on to the calculation after a failed call too.
Return(t) ==
    /\ pc' = [pc EXCEPT ![t] = "calc"]
    /\ pos' = [pos EXCEPT ![t] = 1]
    /\ cnt' = [cnt EXCEPT ![t] = 0]
    /\ status' = [status EXCEPT ![t] = 0]

\* MLX90640_I2CRead returns -1 at once when there is no bus.
NoBus(t) ==
    /\ pc[t] = "poll" /\ ~i2c_bus
    /\ Return(t)
    /\ intact' = [intact EXCEPT ![t] = FALSE]
    /\ UNCHANGED <<sensorVars, bootVars, frameVars, To, pre, settled, clean>>

\* A read fails; what a burst has brought so far stays in bus byte order.
ReadFails(t) ==
    /\ pc[t] \in {"poll", "burst", "status"} /\ i2c_bus /\ BusFree(t)
    /\ Return(t)
    /\ intact' = [intact EXCEPT ![t] = FALSE]
    /\ UNCHANGED <<sensorVars, bootVars, frameVars, To, pre, settled, clean>>

Poll(t) ==
    /\ i2c_bus /\ BusFree(t)
    /\ Goto(t, "poll", IF ready THEN "clear" ELSE "poll")
    /\ UNCHANGED <<sensorVars, bootVars, frameVars, To, pos, cnt, status, pre, intact, settled, clean>>

\* MLX90640_I2CWrite(0x8000, 0x0030): the write.
ClearReady(t) ==
    /\ BusFree(t)
    /\ Goto(t, "clear", "verify")
    /\ ready' = FALSE
    /\ pos' = [pos EXCEPT ![t] = 1]
    /\ intact' = [u \in Threads |-> u = t /\ made = mode]
    /\ UNCHANGED <<sub, ram, mode, running, made, bootVars, frameVars, To,
                   cnt, status, pre, settled, clean>>

ClearFails(t) ==
    /\ pc[t] = "clear" /\ BusFree(t)
    /\ ready' \in {ready, FALSE}
    /\ Return(t)
    /\ intact' = [u \in Threads |-> FALSE]
    /\ UNCHANGED <<sub, ram, mode, running, made, bootVars, frameVars, To,
                   pre, settled, clean>>

\* Its read-back, a transfer of its own.  Whether it fails and what it brings is the
\* same to the caller, who looks for -1 only.
VerifyClear(t) ==
    /\ BusFree(t)
    /\ Goto(t, "verify", "burst")
    /\ UNCHANGED <<sensorVars, bootVars, frameVars, To, pos, cnt, status, pre, intact, settled, clean>>

\* A word of the burst arrives in frame.
BurstWord(t) ==
    /\ pc[t] = "burst" /\ pos[t] \in Words /\ BusFree(t)
    /\ frame' = [frame EXCEPT ![pos[t]] = [age |-> ram[pos[t]], order |-> "bus"]]
    /\ pos' = [pos EXCEPT ![t] = @ + 1]
    /\ Touch(t)
    /\ settled' = FALSE
    /\ UNCHANGED <<sensorVars, bootVars, frame832, frame833, To, pc, cnt, status, pre, clean>>

\* The transfer has succeeded and the bus is released.
BurstDone(t) ==
    /\ pos[t] = N + 1
    /\ Goto(t, "burst", "swap")
    /\ pos' = [pos EXCEPT ![t] = 1]
    /\ UNCHANGED <<sensorVars, bootVars, frameVars, To, cnt, status, pre, intact, settled, clean>>

Swapped(word) == [word EXCEPT !.order = IF @ = "bus" THEN "host" ELSE "bus"]

\* _mlx90640_i2cread exchanges the bytes of one word after the other, after the bus
\* was released.
SwapBytes(t) ==
    /\ pc[t] = "swap" /\ pos[t] \in Words
    /\ frame' = [frame EXCEPT ![pos[t]] = Swapped(@)]
    /\ pos' = [pos EXCEPT ![t] = @ + 1]
    /\ Touch(t)
    /\ settled' = FALSE
    /\ UNCHANGED <<sensorVars, bootVars, frame832, frame833, To, pc, cnt, status, pre, clean>>

SwapDone(t) ==
    /\ pos[t] = N + 1
    /\ Goto(t, "swap", "status")
    /\ pos' = [pos EXCEPT ![t] = 1]
    /\ UNCHANGED <<sensorVars, bootVars, frameVars, To, cnt, status, pre, intact, settled, clean>>

\* The next attempt, the control register, or the end of the call.
Again(t) ==
    /\ pc' = [pc EXCEPT ![t] = "clear"]
    /\ cnt' = [cnt EXCEPT ![t] = @ + 1]
    /\ UNCHANGED <<pos, status, intact>>

Accept(t) ==
    /\ pc' = [pc EXCEPT ![t] = "ctrl"]
    /\ cnt' = [cnt EXCEPT ![t] = @ + 1]
    /\ status' = [status EXCEPT ![t] = sub]
    /\ UNCHANGED <<pos, intact>>

GiveUp(t) ==
    /\ Return(t)
    /\ intact' = [intact EXCEPT ![t] = FALSE]

\* Mutant of CheckReady: the bit of the second status read is not looked at.
CheckReadyNot(t) ==
    /\ pc[t] = "status" /\ BusFree(t)
    /\ \/ cnt[t] + 1 < MaxAttempts /\ Accept(t)
       \/ cnt[t] + 1 = MaxAttempts /\ GiveUp(t)
    /\ UNCHANGED <<sensorVars, bootVars, frameVars, To, pre, settled, clean>>

\* Mutant of CheckReady: the attempts are not counted.
CheckReadyForever(t) ==
    /\ pc[t] = "status" /\ BusFree(t)
    /\ \/ ready /\ pc' = [pc EXCEPT ![t] = "clear"] /\ UNCHANGED <<pos, cnt, status, intact>>
       \/ ~ready /\ Accept(t)
    /\ UNCHANGED <<sensorVars, bootVars, frameVars, To, pre, settled, clean>>

\* The second status read: a measurement since the bit was cleared costs another
\* attempt, and the last attempt is given up in any case.
CheckReady(t) ==
    /\ pc[t] = "status" /\ BusFree(t)
    /\ \/ cnt[t] + 1 < MaxAttempts /\ ready /\ Again(t)
       \/ cnt[t] + 1 < MaxAttempts /\ ~ready /\ Accept(t)
       \/ cnt[t] + 1 = MaxAttempts /\ GiveUp(t)
    /\ UNCHANGED <<sensorVars, bootVars, frameVars, To, pre, settled, clean>>

\* Mutant of ReadControl: the subpage is taken from the sensor once more.
ReadControlLate(t) ==
    /\ BusFree(t)
    /\ pc[t] = "ctrl" /\ Return(t)
    /\ frame832' = [mode |-> mode, good |-> TRUE]
    /\ frame833' = sub
    /\ Touch(t)
    /\ settled' = FALSE
    /\ UNCHANGED <<sensorVars, bootVars, frame, To, pre, clean>>

\* The control register and the subpage are stored.
ReadControl(t) ==
    /\ BusFree(t)
    /\ pc[t] = "ctrl" /\ Return(t)
    /\ frame832' = [mode |-> mode, good |-> TRUE]
    /\ frame833' = status[t]
    /\ Touch(t)
    /\ settled' = FALSE
    /\ UNCHANGED <<sensorVars, bootVars, frame, To, pre, clean>>

\* They are stored before the error of the read is looked at, too.
ControlFails(t) ==
    /\ BusFree(t)
    /\ pc[t] = "ctrl" /\ Return(t)
    /\ frame832' \in [mode: Modes, good: {FALSE}]
    /\ frame833' = status[t]
    /\ intact' = [u \in Threads |-> FALSE]
    /\ settled' = FALSE
    /\ UNCHANGED <<sensorVars, bootVars, frame, To, pre, clean>>
-----------------------------------------------------------------------------
(* thread1: MLX90640_CalculateTo.                                          *)

\* What comes before the loop.  A thread whose call failed before it wrote frame
\* calculates the frame of the call before again.
Preliminaries(t) ==
    /\ Goto(t, "calc", "pixels")
    /\ pre' = [pre EXCEPT ![t] =
          [age |-> IF frame[N].order = "host" /\ frame832.good /\ params = "sensor"
                    THEN frame[N].age ELSE None,
           sub |-> frame833, mode |-> frame832.mode]]
    /\ pos' = [pos EXCEPT ![t] = 1]
    /\ intact' = [intact EXCEPT ![t] = @ \/ settled]
    /\ UNCHANGED <<sensorVars, bootVars, frameVars, To, cnt, status, settled, clean>>

\* What the formula gives for a word of frame.
Temperature(word, p) ==
    IF word.order = "host" /\ word.age = p.age /\ p.age # None /\ p.sub = frame833
    THEN "whole" ELSE "mixed"

\* A turn of the loop: the pixel is calculated if the pattern of the mode gives it
\* the subpage that frame[833] holds now.
CalculateTo(t) ==
    /\ pc[t] = "pixels" /\ pos[t] \in Pixels
    /\ pos' = [pos EXCEPT ![t] = @ + 1]
    /\ IF pos[t] \in Writes[pre[t].mode][frame833]
       THEN /\ To' = [To EXCEPT ![pos[t]] = Temperature(frame[pos[t]], pre[t])]
            /\ clean' = IF intact[t] THEN clean ELSE {}
            /\ Touch(t)
       ELSE UNCHANGED <<To, clean, intact>>
    /\ UNCHANGED <<sensorVars, bootVars, frameVars, pc, cnt, status, pre, settled>>

Calculated(t) ==
    /\ pos[t] = N
    /\ Goto(t, "pixels", "draw")
    /\ settled' = (settled \/ intact[t])
    /\ clean' = IF intact[t] THEN clean \cup {pre[t].sub} ELSE clean
    /\ pos' = [pos EXCEPT ![t] = 1]
    /\ pre' = [pre EXCEPT ![t] = NoPreamble]
    /\ intact' = [intact EXCEPT ![t] = FALSE]
    /\ UNCHANGED <<sensorVars, bootVars, frameVars, To, cnt, status>>

\* Correction, interpolation, drawing and the delay; then the next call.
Draw(t) ==
    /\ Goto(t, "draw", "poll")
    /\ UNCHANGED <<sensorVars, bootVars, frameVars, To, pos, cnt, status, pre, intact, settled, clean>>
-----------------------------------------------------------------------------
Boot ==
    \/ rt_hw_lcd_init \/ mlx90640_init \/ MLX90640_INIT
    \/ thread_sample

Step(t) ==
    \/ NoBus(t) \/ Poll(t) \/ ClearReady(t) \/ VerifyClear(t) \/ BurstWord(t)
    \/ BurstDone(t) \/ SwapBytes(t) \/ SwapDone(t) \/ CheckReady(t) \/ ReadControl(t)
    \/ Preliminaries(t) \/ CalculateTo(t) \/ Calculated(t) \/ Draw(t)

Fails(t) == ReadFails(t) \/ ClearFails(t) \/ ControlFails(t)

Next ==
    \/ Measure \/ Boot
    \/ \E t \in Threads : Step(t) \/ Fails(t) \/ ShellCommand(t)

Spec == Init /\ [][Next]_vars

\* The main thread boots, each thread that can go on does at some time (the
\* threads have equal priority and a time slice), the sensor measures for ever.
\* Failures and shell commands may happen but are never owed.
Fairness ==
    /\ WF_vars(Boot)
    /\ \A t \in Threads : WF_vars(Step(t))
    /\ WF_vars(Measure)

FairSpec == Spec /\ Fairness
-----------------------------------------------------------------------------
(* Properties.                                                             *)

\* The display and the bus have been looked for, and the sensor configured, by
\* the time an instance of thread1 runs.
BootedFirst ==
    (\E t \in Threads : pc[t] # "none") => lcd /\ params # "zero"

\* Whatever failed frames, interfering threads or a change of mode have left in
\* frame and mlx90640To, it is gone from a subpage as soon as one undisturbed call
\* for that subpage has succeeded, and it stays away through calls that fail before
\* the burst, provided boot has read the parameters: this is why thread1 may print
\* an error and go on.
Heals ==
    params = "sensor" =>
        \A s \in clean : \A p \in Pixels \cap Writes[mode][s] : To[p] = "whole"

\* Some instance always draws again: they may take the ready bit from each other,
\* but not so that all of them wait.
KeepsDrawing == []<>(\E t \in Threads : pc[t] = "draw")
-----------------------------------------------------------------------------
(* The inductive invariant behind BootedFirst and Heals.                   *)

\* The initialisers run in order, and threads only after all of them.
BootOrder ==
    /\ todo \in {<<>>, <<"thread_sample">>, <<"MLX90640_INIT", "thread_sample">>,
                 <<"mlx90640_init", "MLX90640_INIT", "thread_sample">>, LinkOrder}
    /\ todo # LinkOrder => lcd
    /\ todo \in {<<>>, <<"thread_sample">>} => params # "zero"
    /\ todo # <<>> => clean = {} /\ ~settled /\ \A t \in Threads : pc[t] = "none"

\* The last measurement is in the RAM.
LastMeasured == \A w \in Writes[made][sub] : ram[w] = 0

\* The words of subpage s belong to one measurement, in host byte order.
OneMeasurement(s) ==
    /\ frame[N].age # None
    /\ \A w \in Writes[mode][s] : frame[w].order = "host" /\ frame[w].age = frame[N].age

\* frame is what a successful call leaves.
GoodFrame == frame832 = [mode |-> mode, good |-> TRUE] /\ OneMeasurement(frame833)

\* While no measurement has ended, the words read are still those of the RAM.
Reading(t, words, order) ==
    intact[t] /\ ~ready =>
        /\ made = mode
        /\ \A w \in words : frame[w] = [age |-> ram[w], order |-> order]

CallIntact(t) ==
    /\ pc[t] \in {"verify", "burst"} => Reading(t, 1 .. pos[t] - 1, "bus")
    /\ pc[t] = "swap" => Reading(t, 1 .. pos[t] - 1, "host") /\ Reading(t, pos[t] .. N, "bus")
    /\ pc[t] = "status" => Reading(t, Words, "host")
    /\ pc[t] = "ctrl" /\ intact[t] => OneMeasurement(status[t])

CalculationIntact(t) ==
    /\ pc[t] = "calc" /\ intact[t] => GoodFrame
    /\ pc[t] = "pixels" /\ intact[t] =>
          /\ GoodFrame
          /\ pre[t].sub = frame833 /\ pre[t].mode = mode
          /\ params = "sensor" =>
                /\ pre[t].age = frame[N].age
                /\ \A p \in 1 .. pos[t] - 1 : p \in Writes[mode][frame833] => To[p] = "whole"

IInv ==
    /\ TypeOK
    /\ BootOrder
    /\ LastMeasured
    /\ \A t \in Threads : CallIntact(t) /\ CalculationIntact(t)
    /\ settled => GoodFrame
    /\ Heals
=============================================================================
