# A verification project for the MLX90640 thermal camera firmware

The repository is the firmware of a thermal camera: a Renesas RA8D1 board running
RT-Thread reads a 32 x 24 infrared array (Melexis MLX90640) over I2C, computes
temperatures, repairs deviating pixels, and draws an interpolated false-colour
image on a MIPI LCD. This directory holds TLA+ models of the parts that are hard
to test on the board, TLC runs that check them on small instances, and TLAPS
proofs for instances of every size.

All source paths below are relative to `src/MLX90640/`.

## 1. Inventory

| Part | Source | State it keeps | Operations |
|---|---|---|---|
| Frame acquisition | `packages/MLX90640/functions/MLX90640_API.c` | `frameData[834]` of the caller, the sensor's RAM and status register | `MLX90640_GetFrameData` |
| Control register access | same file | register 0x800D of the sensor | `MLX90640_SetResolution`, `SetRefreshRate`, `SetInterleavedMode`, `SetChessMode`, the three getters, `MLX90640_I2CRead/Write` |
| Deviating pixels | same file, `headers/MLX90640_API.h` | `brokenPixels`, `outlierPixels` in `paramsMLX90640`; `mlx90640To` | `ExtractDeviatingPixels`, `CheckAdjacentPixels`, `IsPixelBad`, `MLX90640_BadPixelsCorrection` |
| Calibration parameters | same file | the rest of `paramsMLX90640` | `ExtractVDDParameters` ... `ExtractCILCParameters` |
| Temperature computation | same file | `mlx90640To` | `MLX90640_CalculateTo`, `GetImage`, `GetVdd`, `GetTa` |
| I2C transfer path | `libraries/HAL_Drivers/drv_sci.c`, `ra/fsp/src/r_sci_b_i2c/r_sci_b_i2c.c`, `rt-thread/.../i2c_core.c`, `ipc.c` | the driver's control block, the completion event, the peripheral's registers | `rt_i2c_transfer`, `ra_i2c_mst_xfer`, `R_SCI_B_I2C_Read/Write`, the TXI and STI interrupt handlers |
| Frame pipeline and boot | `MLX90640_DISPLAY.c` | `frame`, `mlx90640To`, `src_matrix`, `dest_matrix` (all global) | `MLX90640_INIT`, `thread_sample`, the loop of `thread1_entry` |
| Image geometry and text | `MLX90640_DISPLAY.c` | the frame buffer | `bilinear_interpolation`, `find_max/min_temperature`, `LCD_Show*` |
| LCD driver | `libraries/HAL_Drivers/drv_lcd.c`, `completion.c` | working buffer, vsync completion | `lcd_draw_pixel`, `lcd_fill_array`, `ra_lcd_control`, `DisplayVsyncCallback` |
| MIPI configuration | `board/ports/mipi_lcd/mipi_config.c` | `g_message_sent` | `mipi_dsi_push_table`, its callback |
| Main loop | `src/hal_entry.c` | none | blinks two LEDs |

**How the parts interact.** The device-level initialisers (`rt_hw_lcd_init`,
`mlx90640_init`, `MLX90640_INIT`, `thread_sample`) run before the main thread, in
link order. `thread1` then repeats for ever: `MLX90640_GetFrameData`, `GetTa`,
`CalculateTo` (which rewrites the half of `mlx90640To` that belongs to the subpage
just measured), two calls of `BadPixelsCorrection`, interpolation, drawing. Every
access to the sensor goes through `rt_i2c_transfer`, which holds the bus mutex,
`ra_i2c_mst_xfer`, which starts one message at a time and waits on an event with a
limit of 400 ms, and the interrupt handlers of the FSP driver, which move the bytes
and send the event. The LCD signals vsync from an interrupt through a completion.
Beside the interrupts, the sensor itself is the concurrent actor that matters: it
measures on its own clock and overwrites its RAM while the RAM is being read.

**What is hard.** Measurements that overtake a burst; transfers that fail at any
point, a write reported as failed that took effect, a read-back whose result is
ignored; a completion interrupt on either side of the wait for it; interrupts of a
transfer that was given up, arriving during the next; fixed lists without room for
their terminator; a correction that reads what another has not yet written. The
list with source lines is under `hazards` in `PROJECT.json`.

**What makes each part correct.**

* Frame acquisition: a successful call returns one whole image with its own subpage
  number, no image twice, and each call returns.
* Control register: a setter changes its own field and nothing else; getters and
  setters agree.
* Deviating pixels: the verdict 0 means the lists are exact and the pixels apart;
  images then depend on no deviating pixel, and on a sensor in chess mode no correction
  mixes two measurements.
* I2C path: the bus carries what the messages say; the thread is told once per
  message; nothing is left over for the next transfer; no byte is moved outside a
  message. All of this for a transfer that finds the driver at rest.
* Calibration: the parameters are those the EEPROM words stand for, whatever the words;
  the extraction ends for every image of the EEPROM.
* Pipeline: what a failed frame, a second thread or the change of mode leaves in the
  temperatures is removed by the next undisturbed frame; the camera keeps drawing.
* LCD: no write outside the buffers; a wait for vsync waits for a new one.
* MIPI: each table entry is sent once, after the one before was acknowledged.
* Picture: no read past a matrix counts, nothing is drawn off the screen, marks and
  numbers belong to the extreme temperatures.

## 2. Plan

Order: the sensor protocol first, since the rest of the camera rests on it.

1. `Mlx90640Frame` with the abstract `FrameMailbox` (done, proved).
2. `SciI2c`, the transfer path below it (done, proved).
3. `BadPixels`, extraction and correction (done, proved).
4. `ControlRegister`, the read-modify-write calls (done, proved).
5. `CameraPipeline`: boot in link order with failing transfers, and the loop of
   `thread1`, composed of frame acquisition and the calculation of a subpage, for any
   number of instances (done, proved).
6. The display: `LcdUpdate` (buffer swap, buffer change, vsync completion; done,
   proved), `Picture` (geometry of image, crosses and text; done, proved), `MipiTable`
   (panel settings with their callback; done, proved).
7. `Calibration`: the fields of the EEPROM words, the sums over them and the search for
   the scales of kta and kv (done, proved for every EEPROM image).
8. Left: an atomic transfer as the abstract specification of `SciI2c`, with the
   refinement.

Abstract specifications worth stating: the mailbox of images (done); an atomic
transfer that `SciI2c` implements.

## 3. The modules

### Mlx90640Frame and FrameMailbox

`Mlx90640Frame` is one call of `MLX90640_GetFrameData` after another, with one
action per transfer. The sensor is external: `Measure` is one step that writes the
RAM words of the subpage measured (subpages alternate), the subpage bit and the
ready bit. A RAM word is represented by the number of the measurement that wrote
it, modulo `M`; a word of `frameData` also by its byte order, because
`_mlx90640_i2cread` swaps the bytes only after the whole transfer has succeeded.

| Action | Code |
|---|---|
| `Poll` | the loop `while(dataReady == 0)` |
| `ClearReady`, `ClearFails`, `VerifyClear` | `MLX90640_I2CWrite(0x8000, 0x0030)`: the write; its failure, after which the bit may or may not be cleared; the read-back, whose verdict -2 is not an error for the caller |
| `BurstWord`, `BurstDone` | the 832-word read, word by word, and the byte swap |
| `CheckReady` | the second status read, `cnt`, and the verdict -8 |
| `ReadControl`, `ControlFails` | the control register, stored before its error is looked at |
| `ReadFails` | -1 from any other read |
| `Call` | the loop of `thread1`, which calls again whatever was returned |

`FrameMailbox` is what the caller may rely on: a place that holds the newest image,
from which an image can be taken at most once. The refinement mapping takes the
image at the status read that finds the ready bit still clear; from then on it is in
`frameData` and the control register may still fail to be read.

### SciI2c

One transfer after another on the bus: the thread in `ra_i2c_mst_xfer` (`Transfer`,
`Issue`, `ResetTrackers`, `Enable`, `RunHwMaster`, `WaitComplete`, `Timeout`,
`NextMessage`) and the interrupt handlers (`ByteDone` is TXI with its ACK and NACK
branches, `ConditionDone` is STI).
The peripheral and the slave are external: a request for START, RESTART or STOP
raises STI, a byte in TDR raises TXI with the acknowledge bit. A handler is one step.
The thread fills the control block with interrupts enabled
(`r_sci_b_i2c.c:288`, `:322`, `:546`-`:571`, `:782`-`:797`), so each of those stores is a
step (`Issue` and `ResetTrackers`, `pc` naming the store that comes next), with two
exceptions: `total` goes with `p_buff`, since no handler reads it, and the fields
`addr_high`, `addr_total`, `addr_remain` and `activation_on_txi` are left out, since they
are constant or never read in this build. The last step, `RunHwMaster`, takes the write to
TDR (`:839`) and `addr_loaded++` (`:843`) together: it assumes that the thread gets from one
to the other within the nine SCL periods after which the byte raises TXI. The
variable `plan` is a monitor: an automaton whose state is the message and the item of it
(START, address, byte, RESTART or STOP) that must come next on the bus, `StopOnly` after
a refused byte, `Over` when nothing may come, `Broken` once anything else came. A transfer
ends with a message that asks for a STOP, as the three the API makes do
(`TransfersAssumption`; `MLX90640_API.c:78`, `:112`, `:146`).
`Timeout` is always possible: `ra_wait_complete` gives up after 400 ms, and nothing
clears the event or stops the peripheral, whose interrupts may then arrive during the
next transfer. `fresh` is a monitor of the transfers that are spared this: they begin
`AtRest` (nothing under way in the hardware, no event pending, no RESTART to continue
from) and have not timed out. The properties about traffic and data speak about those,
and so say that the driver recovers by itself once the peripheral has come to rest,
whatever the transfers before left in the control block. About the others only the types
are claimed: see the first observation in section 7.
The build uses no DTC and 7-bit addresses, so those branches are left out.

### ControlRegister

The setters and getters of register 0x800D on 16-bit words, the byte order of the
bus, arguments that do not fit their field, and a failure of each transfer. The masks,
shifts and ors of the code are written as arithmetic (`Weight`, `Size`, `Masked`,
`Cleared`), since the prover knows no bitwise operators; `FieldsAreMasks` in
`MCControlRegister` compares them with `&` and `|`, for every value of the bits from the
lowest field upwards. `before` and `last` are monitors. The read-back of
`_mlx90640_i2cwrite` ignores its error and compares an uninitialised variable, so
`VerifyFails` returns 0 or -2.

### BadPixels

`ScanPixel` and `JudgePixels` are `ExtractDeviatingPixels`; `CalculateTo`,
`CorrectPixel`, `ListDone` are what `thread1` does with each frame, whatever the
verdict was. `CalculateTo` follows the mode of the sensor (`mode`), which `frame[832]`
carries. The correction does not: `thread1` passes the literal 1
(`MLX90640_DISPLAY.c:217`), so a deviating pixel is always replaced by its diagonal
neighbours (`ChessSources`), on an interleaved sensor too. `OneSubpage` therefore speaks
about chess mode only. The other branch of `MLX90640_BadPixelsCorrection`, and
`IsPixelBad` which only it calls, are never reached and left out.

A temperature is represented by the set of pixels whose raw measurement it depends on,
which is what the properties speak about; the arithmetic on it
(average, median, extrapolation) is left out. Both lists are the last members of
`paramsMLX90640`, so the walk of a full `brokenPixels` runs on into `outlierPixels`
(`Member`), and the walk of a full `outlierPixels` leaves the structure
(`GoAstray`, after which the model says nothing).

### MipiTable

`mipi_dsi_push_table` as the loop over the table (`End`, `SoftwareDelay`, `Begin`,
`Command`, `Sent`) and the interrupt (`SequenceEnds` in the link, `Callback`), with
every order of the two sides. `Begin` and `Command` are separate because the link may
be done before the thread looks at `g_message_sent`. An entry is its kind and size;
the register values are left out. The link ends a sequence with the status "finished"
or with an error bit; after the latter the callback does not set the flag.
`PanelInOrder` speaks about positions in the table: the panel has received those of the
commands before the entry reached, and perhaps that entry, in increasing order.

### LcdUpdate

`RTGRAPHIC_CTRL_RECT_UPDATE` as several threads run it: the shell in `lcd_test`, and
the instances of `thread1`. The swap of `lcd_current_working_buffer` is two steps,
`Load` and `Store`, since nothing protects it; `BufferChange` is
`R_GLCDC_BufferChange` with the assertion on its result; `VsyncWait` and `Resume` are
`rt_completion_wait` before and after the suspension; `Vsync` is the takeover of the
shadow register together with `DisplayVsyncCallback` and `rt_completion_done`.
`rt_assert_handler` never returns: after the assertion in `ra_lcd_control` the thread
loops with interrupts on (`halted`), after the one in `rt_completion_wait` with
interrupts off, so that nothing but the controller goes on (`stopped`). Buffers are
addresses counted in pixels, so that the pointer arithmetic of `rt_hw_lcd_init` is
visible. A buffer change is refused while one is pending (`pven`) and while the start of
the controller is (`ven`, `r_glcdc.c:670`-`:671`). `Init` assumes that `ra_bsp_lcd_init`
has succeeded, whose result `rt_hw_lcd_init` does not look at (`drv_lcd.c:393`); whether
the first vsync has come is left open. `owner` and `fresh` are monitors.
`Delay` assumes that the 1000 ms of
`lcd_test` contain a vsync.

### Picture

The rest of the loop of `thread1`: conversion of `mlx90640To` to `src_matrix`
(`Convert`), `bilinear_interpolation` (`Interpolate`, with `Reads` the four reads and
their weights), the extremes (`FindMax`, `FindMin`: any of the pixels `Spots`), image,
crosses, and the two lines of text. What a step draws is a set of rectangles; the
number on the screen is a set of characters with their x. Positions are exact
fractions: for the sizes of the code the float products truncate to the same integers.
A negative temperature converted to `uint16_t` is 0 with the conversion instruction of
this processor, and a temperature of 100 degrees or more is shown modulo 100;
`NumbersAreRight` therefore speaks about 0 to 99.99 degrees.

### CameraPipeline

Boot and the loop of `thread1` as far as the temperatures. `rt_hw_lcd_init`,
`mlx90640_init`, `MLX90640_INIT` and `thread_sample` run in `LinkOrder`, the order of
their object files in `project.uvprojx`; the bus may not be found, each transfer of
`MLX90640_INIT` may fail, and a failed `MLX90640_DumpEE` leaves parameters that are not
this sensor's (`params = "broken"`). `ShellCommand` is `thread_sample` typed at the shell:
another instance of `thread1`, which shares `frame` and `mlx90640To` with the others and
has its own local variables. The calls of `MLX90640_GetFrameData` are those of
`Mlx90640Frame` (`Poll` to `ControlFails`), one action per transfer. `rt_i2c_transfer`
holds the bus mutex for one transfer: a transfer of one word is one step, a burst holds
the mutex from its first word to its last (`HoldsBus`, `BusFree`). Between the write that
clears the ready bit, its read-back (`VerifyClear`) and the burst another thread may get
the bus, and clear the bit or read the RAM. The byte swap works on the shared array, word by
word, with the bus released (`SwapBytes`, `SwapDone`). A word is read or swapped in one
step; a thread that meets another's half-swapped word is no longer intact, so that the
properties claim nothing about what it reads. `Preliminaries`
and `CalculateTo` are the part of `MLX90640_CalculateTo` before its loop and the turns of
the loop: another thread may write `frame` in between.

Beside what `Mlx90640Frame` has, the sensor has the two modes; `SetChessMode` takes effect
with the next measurement, the one under way still ends in the old mode (`running`). Words
are represented by their age, counted in measurements, so that "from one measurement" is
"of one age"; a temperature is `"whole"` or `"mixed"`. `intact`, `settled` and `clean` are
monitors: a thread is intact while nothing has failed and no other thread has written
what they share since it cleared the ready bit; `clean` is the set of subpages that
intact threads have calculated since any other has written `mlx90640To`.

### Calibration

`MLX90640_ExtractParameters` up to `ExtractDeviatingPixels`, one action per function, for
any content of the 832 EEPROM words: the masks and shifts (`Bits`), the sign by comparison
(`Signed`), the conversions to `int8_t` and `int16_t`, the rows and columns in nibbles, and
for kta and kv the search for the largest coefficient (`Search`), the loop that doubles it
(`Double`) and the rounding (`Round`). A float that is an integer divided by a power of two
is represented by its numerator, which a `float` holds exactly. The exception are the
sensitivities: `Sensitivity` is the compensated sum, `TwiceQuotient` the quotient
`SCALEALPHA/alphaTemp` by long division (`LongDivision`), and `StoredAlpha` its rounding to
the `uint16_t` in `alpha`; `alphaScale` is 0, the search for it being commented out. The
model's difference and quotient are exact where the code's are floats, so that within a
2^-22th part of the middle between two whole numbers the code may store the other one.
A quotient that does not fit `uint16_t` (a sensitivity of 0, a negative or a very small
one) is converted without a defined result: `alpha` is then `Undefined`.

## 4. The runs

| Run | Checks | Bounds |
|---|---|---|
| `frame` | `TypeOK`, `NoTornFrame`, refinement of `FrameMailbox`, `CallReturns` | 3 words (one per subpage, one shared), measurements modulo 3: enough for a burst to be overtaken twice, so that old, current and new words differ |
| `i2c_transfer` | `TypeOK`, `BusConforms`, `QuietOnReturn`, `ReadIsExact`, `NoOverrun`, `TransferReturns`, with timeouts | a burst and the write of a register; a burst of 3 bytes, so that its first byte, its last but one, where NACK is prepared, and its last differ; timeouts at any moment, also several in a row, with their interrupts between any two stores of the next transfers; counters modulo 4 and `addr_loaded` modulo 3, so that leftover counts wrap |
| `control_register` | `TypeOK`, `OnlyOwnField`, `RoundTrip` | the power-up value, all bits clear, all bits set; arguments inside and outside each field's width |
| `bad_pixels` | `TypeOK`, `ListsExact`, `DeviatingApart`, `ImageIsClean`, `OneSubpage`, `AstrayOnlyOnOutliers` | 6 x 3 pixels, lists of 3: corners, edges, interior columns and every placement of up to 3 deviating pixels, so that each verdict occurs and both lists fill up |
| `mipi_table` | `PanelTypeOK`, `PanelInOrder`, `TablePushed` | every table of up to 4 entries of two commands and a delay: commands and delays in every neighbourhood, at both ends too |
| `mipi_delay` | a violation, see section 7 | the last part of the real table behind a first entry of its size |
| `lcd_update` | `ListIsExact`, `PaintsAreShown`, `HaltsOnOverlap`, `UpdateReturns` | the shell and two instances of `thread1`: three overlapping updates, so that one takes the vsync of another while a third comes in |
| `lcd_buffers` | a violation, see section 7 | the shell and one `thread1` |
| `picture` | `DrawsOnScreen`, `CrossInImage`, `EdgesWeighNothing`, `MarksInPlace`, `NumbersAreRight` | the sizes of the code (32 x 24, 320 x 240, 480 x 360); extremes in corners, on edges, next to edges and inside; temperatures on both sides of 0, 1, 10 and 100 degrees |
| `camera` | `BootedFirst`, `Heals` | one `thread1`; two pixels, which are one subpage in interleaved and two in chess mode, and one auxiliary word; the code's 5 attempts; both modes at power-up; ages modulo 3 |
| `camera_shared` | `Heals`, `KeepsDrawing` | two instances of `thread1`, one pixel and one auxiliary word, 2 attempts: enough for one thread to poll, clear, burst, swap or calculate between any two steps of the other, except for transfers inside the other's burst |
| `calibration` | `TypeOK`, `OffsetExact`, `AlphaCompensated`, `CoefficientsAccurate`, `ExtractionEnds` | 4 x 4 pixels; about 1500 EEPROM images: zeros, a calibration and all ones with one word replaced by patterns at the limits of its fields, and words that are used together replaced together |

`bad_pixels` does not check for deadlock: the walk that leaves the structure is
where the model stops. Neither do the MIPI runs, since the table has an end, and
the wait after a failed sequence has none. Nor does `calibration`, which ends with the
last parameter. All other runs do.

**Fairness.** `frame`: `thread1` is scheduled again (weak fairness of the
call's steps; every transfer ends within the 400 ms of `ra_wait_complete`), and the
sensor measures continuously. The poll loop has no timeout, so without the second
assumption the call would wait for ever, and so does the firmware. A failure is
never assumed to happen. `i2c_transfer`: the thread runs when it can and the
peripheral finishes what it was asked; that a timeout ends a wait is not assumed, so
that `TransferReturns` says the wake-up is never lost. `mipi_table`: the
initialising thread runs, a sequence that was started ends in some way, its interrupt
is taken. `lcd_update`: the controller refreshes the screen for ever, and a ready
thread gets the processor; since a thread caught in an assertion keeps it, the
conclusion of `UpdateReturns` names that case. That the user types a command is never
assumed. `camera_shared`: boot goes on, each thread that can go on does some time (the
instances of `thread1` have one priority and a time slice, `MLX90640_DISPLAY.c:175`), and
the sensor measures for ever. Failures and shell commands are never owed. `calibration`:
the main thread keeps running.

`TypeOK` of `LcdUpdate`, `Picture` and `CameraPipeline` and `LinesReversed` of `Picture` are
in no run, since they are proved for every size.

Every property has a mutant, a small plausible change of one definition, under
which TLC finds the property violated (`mutants` in `PROJECT.json`).

## 5. What is proved

`Mlx90640Frame_proofs`, for every frame length, every division of the words into
subpages and every number of measurements:

* `TypeCorrect`: `Spec => []TypeOK`;
* `NoTornFrameHolds`: `Spec => []NoTornFrame`;
* `ImplementsMailbox`: `Spec => MailboxSpec`.

The assumptions are `NAssumption`, `MAssumption` (at least three measurement numbers),
`SubpageAssumption` (every word belongs to a subpage, each subpage has a word) and
`NoImageAssumption`. `NoTornFrame` speaks only about calls
that have returned. The inductive invariant `IInv` adds why: the RAM is always the
image of the last measurement (`RamIsImage`); as long as the ready bit is still
clear, what the burst has read equals the RAM (`BurstIsCurrent`), and so does the
whole frame once swapped (`FrameIsCurrent`); a call that has passed the second
status read holds an image of the subpage in `status` (`TakenIsImage`), whatever
the sensor does afterwards.

`BadPixels_proofs`, for every even width above 3, every height above 2 and every
list length (`GeometryAssumption`, `ListAssumption`, `EepromAssumption`):
`TypeCorrect`, `ListsExactHolds`, `DeviatingApartHolds`, `ImageIsCleanHolds`,
`OneSubpageHolds`, `AstrayOnlyOnOutliersHolds`. The invariant says that the lists
hold exactly what the scan has met, followed by terminators, and that one of them
always has a free place (`ScanInv`); that the walk has met no terminator in the list
it is in (`WalkInv`); and that a temperature which depends on a deviating pixel
belongs to a pixel the correction has still to come to (`CleanInv`). Lemmas about
line, column and the two patterns (`LineColumn`, `Crossing`, `PatternByPlace`,
`AtPlace`) reduce the index arithmetic of the code to coordinates; `SourcesFit` is
the fact about `MLX90640_BadPixelsCorrection` that everything else uses.

`SciI2c_proofs`, for every set of transfers, of any number of messages of any length
(`TransfersAssumption`): `TypeCorrect`, `BusConformsCorrect`,
`QuietOnReturnCorrect`, `ReadIsExactCorrect`, `NoOverrunCorrect`. Beside the types, which
hold whatever interrupts of a given-up transfer do to the descriptor of the next, the
invariant is `FreshInv` about a transfer that found the driver at rest. While the thread
fills the control block, nothing is under way and the fields stored so far have their
values, the others any (`Beginning`, `Stored`); from then on it goes case by case of what
the peripheral works on (`Starting`, `Addressing`, `WritingByte`, `ReadingByte`, `Ending`,
`Refused`):
the counters, the byte under way, the place of the monitor and the bytes stored so far
belong together. It also says where the completion is: on its way, an event bit, or in
the thread's hands, never in two places and never lost.

`ControlRegister_proofs`, for every value of the register at power-up and every argument
(`RegAssumption`): `TypeCorrect`, `OnlyOwnFieldCorrect`, `RoundTripCorrect`. A word is
split into its fields and the bits around them (`WordOf`, `WordFields`), and what a setter
writes is that word with one part replaced (`Replaced`); `BytesKept` shows that the two
byte orders cancel. The invariant adds what the register and the local variable are at
each point of a call (`Progress`), that every field holds what it was last set to except
the one being set (`Kept`), and that what a getter returned is in the register
(`Answered`).

`Display_proofs`, for any number of instances of `thread1` and any buffer size
(`ClientAssumption`, `PixelAssumption`): `TypeCorrect`, `ListIsExactHolds`,
`PaintsAreShownHolds`, `HaltsOnOverlapHolds`. The strengthening is `PendingOwner`: the
thread whose change is pending is past its update and has seen no vsync since. A change
is also refused before the first vsync after the start (`ven`). A wait
that returns early is harmless for a single user because `lcd_test` sleeps over a vsync
and `thread1` updates once. The module also extends `MipiTable`, whose names are
therefore its own, and proves for every table (`TablesAssumption`)
`PanelTypeCorrect` and `PanelInOrderCorrect`. Their invariant `PanelInv` says that
a message that is waited for is on the link, in the pending interrupt, acknowledged in
`g_message_sent` or lost with an error, and what the panel has in each of these cases.

`Picture_proofs`, for all sizes with a small matrix that divides the large one and an
image that fits the screen (`SizeAssumption`, `SpotAssumption`,
`TemperatureAssumption`): `TypeCorrect`, `DrawsOnScreenHolds`, `CrossInImageHolds`,
`LinesReversedHolds`, `EdgesWeighNothingHolds`, `MarksInPlaceHolds`. The invariant adds
that the conversion stays inside `src_matrix` and that the marked positions follow from
the extreme pixels. The arithmetic rests on two facts about quotients: the whole part
of a position reaches the last index only with fraction 0, and the position marked for
pixel p lies between p - 1 and p + 1 on the scale of the interpolation.
`NumbersAreRightHolds` covers every temperature from 0 to 99.99 degrees: `TextInv` says
which characters stand after each round of `LCD_ShowFloatNum1`, and `Digits` that
the divisions of the two functions give the decimal digits.

`CameraPipeline_proofs`, for any number of instances of `thread1`, any number of words and
attempts, and any assignment of words to subpages in the two modes (`ThreadAssumption`,
`CountAssumption`, `WritesAssumption`: each measurement writes the auxiliary words):
`TypeCorrect`, `BootedFirstHolds`, `HealsHolds`. `Heals` speaks about temperatures; the
invariant follows a frame there. The RAM holds the last measurement (`LastMeasured`); what
an intact thread has read equals the RAM while the ready bit is clear, in the byte order of
its place (`Reading`, `CallIntact`); after the second status read the words of the subpage
have one age, which later measurements change for all of them together (`OneMeasurement`);
an intact calculation has its preliminaries from the same frame, and the pixels it has
passed are whole (`CalculationIntact`). `settled` carries this over to a call that fails
before its burst and calculates the old frame again. `FrameIInv` and `CalculationIInv`
show for each step that writes shared state that every other thread is no longer intact.

`Calibration_proofs`, for every array up to 24 x 32 and every EEPROM image
(`SizeAssumption`): `TypeCorrect`, `OffsetExactHolds`, `AlphaCompensatedHolds`,
`CoefficientsAccurateHolds`. The reference definitions read a field as a number in two's
complement (`Field`); the lemmas `Nibbles`, `Bytes`, `OtherFields` and `NibbleIsField` show
that the masks and comparisons of the code give the same, `Absorbed` that a conversion to
`int16_t` half-way through a sum makes no difference to the conversion of the sum,
`ScaledLemma` that the rounded coefficient is within half a unit. `AlphaCompensated` says
that the stored `alpha` is `StoredAlpha` of the sensitivity the fields stand for
(`TrueSensitivity`); that the recursion of the long division is a division is checked by
TLC only (`DivisionIsExact`). The invariant adds the
order of the calls (`InOrder`), the values `ExtractAlphaParameters` takes from earlier
calls (`FieldsSet`), and for the loop that `temp` is the largest magnitude, doubled
`scale` times, and was below 64 before the last doubling (`SearchInv`), which is why the
result fits `int8_t`.

## 6. What is only model-checked

* Liveness (`CallReturns`, `TransferReturns`, `TablePushed`, `UpdateReturns`,
  `KeepsDrawing`, `ExtractionEnds`): the prover does not handle fairness and `ENABLED`.
* That the arithmetic of `ControlRegister` is the masks of the code (`FieldsAreMasks`):
  the bitwise operators are recursive definitions, out of the prover's reach. For the same
  reason, that `LongDivision` of `Calibration` is a division (`DivisionIsExact`).

Every invariant and every action property of the passing runs is proved.

## 7. Findings

* `mipi_dsi_push_table` delays by the size of the first entry of the table instead of
  the entry reached (`board/ports/mipi_lcd/mipi_config.c:179`): 6 ms instead of 120 ms
  after Sleep Out (run `mipi_delay`).
* `gp_double_buffer` (`drv_lcd.c:389`) is one buffer further than meant: a byte count is
  added to a pointer to 16-bit pixels, and the working buffer lies behind
  `fb_background` (run `lcd_buffers`).

Observations without a run of their own:

* `R_SCI_B_I2C_Write` is documented to fail when a transfer is in progress
  (`ra/fsp/src/r_sci_b_i2c/r_sci_b_i2c.c:299`) and has no such test: after
  `ra_wait_complete` has given up, the next transfer may start on a busy peripheral, and
  may take an event of the old one for its own. Such transfers are not `fresh`. The
  handlers may also leave the new buffer: a TXI of the old transfer between the stores at
  `:783` (`loaded = 0`) and `:784` (`remain = total`) moves a byte that is not counted, and
  one more byte than the message has is moved; a TXI between `:546` (`p_buff`) and `:783`
  uses the old `loaded` with the new buffer. Both need an interrupt of a transfer given up
  400 ms earlier within these few instructions. Without `fresh` TLC finds `NoOverrun`
  violated in this way.
* `thread1` tells `MLX90640_BadPixelsCorrection` chess mode, and `MLX90640_INIT` ignores
  whether `MLX90640_SetChessMode` succeeded (`MLX90640_DISPLAY.c:32`, `:217`): a sensor
  left in interleaved mode has its deviating pixels replaced by pixels of the other
  subpage. The image stays free of deviating pixels (`ImageIsClean`) but `OneSubpage` holds
  in chess mode only.
* `RT_ASSERT(err == 0)` after `R_GLCDC_BufferChange` (`drv_lcd.c:277`) fails when
  `lcd_test` is typed, or a second `thread1` started, within a frame of another update.
  `HaltsOnOverlap` shows that this is the only way once the first frame has been shown.
* `vsync_wait` returns at once when a vsync has come since the last wait (`drv_lcd.c:65`),
  which `HaltsOnOverlap` shows to be harmless for a single user.
* The range test of `lcd_draw_pixel` (`drv_lcd.c:95`) lets `x = LCD_WIDTH` and
  `y = LCD_HEIGHT` pass, where `thread1` never draws (`DrawsOnScreen`).
* The search for `alphaScale` is commented out (`MLX90640_API.c:1051`), so that the
  reciprocals of the sensitivities are rounded to whole numbers: for a typical sensor
  about 11, coarse enough to swallow the compensation of `tgc` (`StoredAlpha`).
* With `ktaScale2` above 5 the sum of a kta coefficient may need 8 bits, round to 128 and
  wrap in `int8_t` (`MLX90640_API.c:1235`); `CoefficientsAccurate` excludes these images.

## 8. What is not modelled

* Floating point: the formulas of `CalculateTo`, `GetImage`, `GetVdd`, `GetTa`,
  `Temp2RGB`, the choice `GetMedian` makes; the rounding of the floats on the way to
  `alpha` (section 3).
* The interleaved branch of `MLX90640_BadPixelsCorrection`, which no call reaches.
* The FSP functions the firmware does not use after start-up (open, close, abort,
  10-bit addresses, DTC), the UART and SPI over the same peripheral, the 2D engine,
  the graphics controller except for its buffer register, and the RT-Thread kernel
  except for the event, the completion and the assertion handler.
* Of the LCD driver: `ROTATION_180` (never set), the backlight, the other controls, and
  the functions for the 2D engine, two of which nobody calls. That the reads past
  `src_matrix` have weight 0 is shown in exact arithmetic; in floating point a weight of
  0 times an infinity or NaN found there would still spoil the pixel.
* The values of the panel settings and of the character bitmaps.
* `mlx90640_port.c`, `mlx90640_tools.c`: not part of the build.
* Nearly all lines of the repository are vendored: RT-Thread with its components, the FSP,
  CMSIS and device headers. The firmware's own code is the few files of section 1, and what
  of the vendored code it runs concurrently with is modelled with them.
