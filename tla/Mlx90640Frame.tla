--------------------------- MODULE Mlx90640Frame ---------------------------
(***************************************************************************)
(* MLX90640_GetFrameData (packages/MLX90640/functions/MLX90640_API.c) run  *)
(* by thread1 against a sensor that keeps measuring while it is read.      *)
(*                                                                         *)
(* The sensor is external: it is modelled from how the driver uses it.     *)
(* Measurements are numbered modulo M.  A measurement belongs to one of    *)
(* two subpages, which alternate, and rewrites the RAM words of its        *)
(* subpage; a RAM word is represented by the number of the measurement     *)
(* that wrote it.  The update of the RAM, of the subpage bit and of the    *)
(* data-ready bit of the status register is one step of the sensor.        *)
(*                                                                         *)
(* A bus transfer may fail at any point.  The 832-word burst is read word  *)
(* by word, so that measurements can overtake it; the words arrive in bus  *)
(* byte order and are swapped only when the whole transfer succeeded.      *)
(***************************************************************************)
EXTENDS Integers

CONSTANTS
    N,             \* number of RAM words in the burst (832 in the code)
    SubpageWords,  \* SubpageWords[s]: the words a measurement of subpage s rewrites
    M,             \* measurement numbers are kept modulo M
    ControlReg,    \* the value of control register 0x800D
    NoImage,       \* stands for the absence of a RAM image
    Garbage        \* a value frameData[832] takes from an uninitialised variable

ASSUME NAssumption == N \in Nat \ {0}

\* A word is rewritten at the latest by the second measurement after its own,
\* so three numbers tell the old value of a word from the new one.
ASSUME MAssumption == M \in Nat /\ M > 2

\* Each word belongs to a subpage; words measured with both may be in both.
ASSUME SubpageAssumption ==
    /\ SubpageWords \in [{0, 1} -> SUBSET (1 .. N)]
    /\ SubpageWords[0] \cup SubpageWords[1] = 1 .. N
    /\ \A s \in {0, 1} : SubpageWords[s] # {}

Words == 1 .. N

Subpages == {0, 1}

Measurements == 0 .. M - 1

NextMeasurement(m) == IF m = M - 1 THEN 0 ELSE m + 1

PrevMeasurement(m) == IF m = 0 THEN M - 1 ELSE m - 1

\* The RAM after measurement m of subpage s: its own words are new, the others
\* are those of the measurement before, which was of the other subpage.
RamImage(m, s) ==
    [w \in Words |-> IF w \in SubpageWords[s] THEN m ELSE PrevMeasurement(m)]

Images == [Words -> Measurements]

ASSUME NoImageAssumption == NoImage \notin Images

\* A word of frameData: the measurement it comes from and its byte order.
FrameWord == [meas: Measurements, order: {"host", "bus"}]

ImageOf(f) == [w \in Words |-> f[w].meas]

HostFrame(image) == [w \in Words |-> [meas |-> image[w], order |-> "host"]]

MaxAttempts == 5

VARIABLES
    meas, sub, ram, ready,   \* sensor: last measurement, its subpage, RAM, status bit 0x0008
    frame,                   \* frameData[0..831]
    frame832, frame833,      \* frameData[832] (control register), frameData[833] (subpage)
    pc,                      \* where the call is
    cnt,                     \* attempts made, the local variable cnt
    next,                    \* next word of the burst
    status,                  \* the local variable statusRegister
    ret                      \* the return value of the last finished call

sensorVars == <<meas, sub, ram, ready>>
frameVars == <<frame, frame832, frame833>>
callVars == <<pc, cnt, next, status, ret>>
vars == <<sensorVars, frameVars, callVars>>

TypeOK ==
    /\ meas \in Measurements
    /\ sub \in Subpages
    /\ ram \in Images
    /\ ready \in BOOLEAN
    /\ frame \in [Words -> FrameWord]
    /\ frame832 \in {ControlReg, Garbage}
    /\ frame833 \in Subpages
    /\ pc \in {"idle", "poll", "clear", "verify", "burst", "status", "ctrl"}
    /\ cnt \in 0 .. MaxAttempts
    /\ next \in 1 .. N + 1
    /\ status \in [ready: BOOLEAN, sub: Subpages]
    /\ ret \in {-8, -1, 0, 1}

\* thread1 has just entered its first call; frame is a zeroed static array.
Init ==
    /\ meas \in Measurements
    /\ sub \in Subpages
    /\ ram = RamImage(meas, sub)
    /\ ready = FALSE
    /\ frame = HostFrame([w \in Words |-> 0])
    /\ frame832 = Garbage
    /\ frame833 = 0
    /\ pc = "poll"
    /\ cnt = 0
    /\ next = 1
    /\ status = [ready |-> FALSE, sub |-> 0]
    /\ ret = -1
-----------------------------------------------------------------------------
(* The sensor.                                                             *)

\* A measurement completes.  The "enable overwrite" bit that the driver writes
\* with 0x0030 lets it replace the RAM whether or not it has been read.
Measure ==
    LET m == NextMeasurement(meas)
        s == 1 - sub
    IN /\ meas' = m
       /\ sub' = s
       /\ ram' = [w \in Words |-> IF w \in SubpageWords[s] THEN m ELSE ram[w]]
       /\ ready' = TRUE
       /\ UNCHANGED <<frameVars, callVars>>
-----------------------------------------------------------------------------
(* MLX90640_GetFrameData.                                                  *)

Return(value) ==
    /\ pc' = "idle"
    /\ ret' = value
    /\ UNCHANGED <<cnt, next>>

\* thread1 calls again after drawing, whatever the last call returned.
Call ==
    /\ pc = "idle"
    /\ pc' = "poll"
    /\ cnt' = 0
    /\ UNCHANGED <<next, status, ret, sensorVars, frameVars>>

\* MLX90640_I2CRead reports -1 while the call polls, reads the burst or reads
\* the status again: the call returns it.  A burst that fails leaves the words
\* that had arrived as they came.
ReadFails ==
    /\ pc \in {"poll", "burst", "status"}
    /\ Return(-1)
    /\ UNCHANGED <<status, sensorVars, frameVars>>

\* Mutant of Poll: the first status read is not looked at.
PollWithoutWaiting ==
    /\ pc = "poll"
    /\ status' = [ready |-> ready, sub |-> sub]
    /\ pc' = "clear"
    /\ UNCHANGED <<cnt, next, ret, sensorVars, frameVars>>

\* while (dataReady == 0): one read of the status register.
Poll ==
    /\ pc = "poll"
    /\ status' = [ready |-> ready, sub |-> sub]
    /\ pc' = IF ready THEN "clear" ELSE "poll"
    /\ UNCHANGED <<cnt, next, ret, sensorVars, frameVars>>

\* The write transfer of MLX90640_I2CWrite(0x8000, 0x0030).
ClearReady ==
    /\ pc = "clear"
    /\ ready' = FALSE
    /\ pc' = "verify"
    /\ UNCHANGED <<cnt, next, status, ret, meas, sub, ram, frameVars>>

\* A write transfer that is reported as failed may have reached the sensor.
ClearFails ==
    /\ pc = "clear"
    /\ ready' \in {ready, FALSE}
    /\ Return(-1)
    /\ UNCHANGED <<status, meas, sub, ram, frameVars>>

\* The read-back of MLX90640_I2CWrite.  Its result, 0 or -2 (which an
\* uninitialised data_check also gives when the read-back fails), is not -1, so
\* the call goes on to the burst in each case.
VerifyClear ==
    /\ pc = "verify"
    /\ pc' = "burst"
    /\ next' = 1
    /\ UNCHANGED <<cnt, status, ret, sensorVars, frameVars>>

\* One word of the burst arrives, in bus byte order.
BurstWord ==
    /\ pc = "burst"
    /\ next \in Words
    /\ frame' = [frame EXCEPT ![next] = [meas |-> ram[next], order |-> "bus"]]
    /\ next' = next + 1
    /\ UNCHANGED <<pc, cnt, status, ret, frame832, frame833, sensorVars>>

\* The burst is complete: its words are swapped to host byte order.
BurstDone ==
    /\ pc = "burst"
    /\ next = N + 1
    /\ frame' = HostFrame(ImageOf(frame))
    /\ pc' = "status"
    /\ UNCHANGED <<cnt, next, status, ret, frame832, frame833, sensorVars>>

\* Mutant of CheckReady: the bound is tested as cnt > 5.
CheckReadyOffByOne ==
    /\ pc = "status"
    /\ status' = [ready |-> ready, sub |-> sub]
    /\ cnt' = cnt + 1
    /\ \/ cnt' <= MaxAttempts /\ pc' = (IF ready THEN "clear" ELSE "ctrl") /\ UNCHANGED ret
       \/ cnt' > MaxAttempts /\ pc' = "idle" /\ ret' = -8
    /\ UNCHANGED <<next, sensorVars, frameVars>>

\* Mutant of CheckReady: dataReady keeps the value of the first status read.
CheckReadyStale ==
    /\ pc = "status"
    /\ status' = [ready |-> FALSE, sub |-> sub]
    /\ pc' = "ctrl"
    /\ UNCHANGED <<cnt, next, ret, sensorVars, frameVars>>

\* Mutant of CheckReady: the number of attempts is not bounded.
CheckReadyForever ==
    /\ pc = "status"
    /\ status' = [ready |-> ready, sub |-> sub]
    /\ pc' = IF ready THEN "clear" ELSE "ctrl"
    /\ UNCHANGED <<cnt, next, ret, sensorVars, frameVars>>

\* The status register is read again; a new measurement since the bit was
\* cleared costs another attempt, and the fifth attempt is given up in any case.
CheckReady ==
    /\ pc = "status"
    /\ status' = [ready |-> ready, sub |-> sub]
    /\ cnt' = cnt + 1
    /\ \/ /\ cnt' < MaxAttempts
          /\ pc' = IF ready THEN "clear" ELSE "ctrl"
          /\ UNCHANGED ret
       \/ /\ cnt' = MaxAttempts
          /\ pc' = "idle"
          /\ ret' = -8
    /\ UNCHANGED <<next, sensorVars, frameVars>>

\* The control register is read; the subpage is the one of the last status read.
ReadControl ==
    /\ pc = "ctrl"
    /\ frame832' = ControlReg
    /\ frame833' = status.sub
    /\ Return(status.sub)
    /\ UNCHANGED <<status, frame, sensorVars>>

\* The read of the control register fails; the uninitialised (or half-read)
\* variable and the subpage are stored before the error is looked at.
ControlFails ==
    /\ pc = "ctrl"
    /\ frame832' \in {ControlReg, Garbage}
    /\ frame833' = status.sub
    /\ Return(-1)
    /\ UNCHANGED <<status, frame, sensorVars>>

GetFrameData ==
    \/ Poll \/ ClearReady \/ VerifyClear
    \/ BurstWord \/ BurstDone
    \/ CheckReady \/ ReadControl

TransferFails == ReadFails \/ ClearFails \/ ControlFails

Next == Measure \/ Call \/ GetFrameData \/ TransferFails

Spec == Init /\ [][Next]_vars

\* thread1 always runs again, and each transfer ends within the 400 ms that
\* ra_wait_complete allows it: a step of the call is not delayed for ever, while
\* a failure may happen but is never owed.  The sensor measures continuously.
Fairness ==
    /\ WF_vars(Call)
    /\ WF_vars(GetFrameData)
    /\ WF_vars(Measure)

FairSpec == Spec /\ Fairness
-----------------------------------------------------------------------------
(* Properties.                                                             *)

Succeeded == pc = "idle" /\ ret \in Subpages

\* When MLX90640_GetFrameData returns a subpage number, the 832 words come from
\* one RAM image, none is left in bus byte order, frameData[833] is the subpage
\* of that image and frameData[832] is the control register: no measurement
\* that overtook the burst leaves a trace.
NoTornFrame ==
    Succeeded =>
        /\ ret = frame833
        /\ frame832 = ControlReg
        /\ \E m \in Measurements : frame = HostFrame(RamImage(m, frame833))

\* The inductive invariant behind NoTornFrame.  As long as the ready bit is
\* still clear, what the burst has read so far is what the RAM holds.
RamIsImage == ram = RamImage(meas, sub)

BurstIsCurrent ==
    pc = "burst" /\ ~ready =>
        \A w \in 1 .. next - 1 : frame[w] = [meas |-> ram[w], order |-> "bus"]

FrameIsCurrent == pc = "status" /\ ~ready => frame = HostFrame(ram)

TakenIsImage ==
    pc = "ctrl" => \E m \in Measurements : frame = HostFrame(RamImage(m, status.sub))

IInv ==
    /\ TypeOK
    /\ RamIsImage
    /\ pc = "clear" => ready
    /\ BurstIsCurrent
    /\ FrameIsCurrent
    /\ TakenIsImage
    /\ NoTornFrame

\* Each call returns: the poll loop, which has no timeout, ends because the
\* sensor measures, and the retry loop because of its bound.
CallReturns == (pc = "poll") ~> (pc = "idle")

\* The call as the mailbox its caller sees.  The image is taken by the status
\* read that finds the ready bit still clear, before the control register is read.
Mailbox == INSTANCE FrameMailbox WITH
    newest <- ram,
    unread <- ready \/ pc \in {"verify", "burst", "status"},
    taken  <- IF pc = "ctrl" THEN ImageOf(frame) ELSE NoImage,
    answer <- [status |-> IF pc # "idle" THEN "pending"
                          ELSE IF ret \in Subpages THEN "ok" ELSE "error",
               image  |-> IF Succeeded THEN ImageOf(frame) ELSE NoImage]

\* Seen from its caller, MLX90640_GetFrameData is the mailbox: an answer is a
\* whole image that was the newest when it was taken, and no image is returned
\* by two calls.
MailboxSpec == Mailbox!Spec
=============================================================================
