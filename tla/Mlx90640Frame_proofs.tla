------------------------ MODULE Mlx90640Frame_proofs ------------------------
(***************************************************************************)
(* Proofs about Mlx90640Frame for every number of RAM words, every layout  *)
(* of the subpages and every range of measurement numbers.                 *)
(***************************************************************************)
EXTENDS Mlx90640Frame, TLAPS

USE NAssumption, MAssumption, SubpageAssumption DEF Images

\* The next and the previous measurement number are inverse to each other, and
\* a number differs from both of its neighbours, which differ from one another.
LEMMA MeasurementArithmetic ==
    /\ 0 \in Measurements
    /\ \A m \in Measurements :
          /\ NextMeasurement(m) \in Measurements
          /\ PrevMeasurement(m) \in Measurements
          /\ PrevMeasurement(NextMeasurement(m)) = m
          /\ NextMeasurement(m) \notin {m, PrevMeasurement(m)}
BY DEF Measurements, NextMeasurement, PrevMeasurement

\* What the sensor's RAM holds after a measurement is an image.
LEMMA RamImageType ==
    ASSUME NEW m \in Measurements, NEW s \in Subpages
    PROVE  RamImage(m, s) \in Images
BY MeasurementArithmetic DEF RamImage

\* One measurement turns the image of measurement m into the image of the next.
LEMMA MeasureImage ==
    ASSUME NEW m \in Measurements, NEW s \in Subpages
    PROVE  [w \in Words |-> IF w \in SubpageWords[1 - s] THEN NextMeasurement(m)
                            ELSE RamImage(m, s)[w]]
           = RamImage(NextMeasurement(m), 1 - s)
<1>1. ASSUME NEW w \in Words, w \notin SubpageWords[1 - s]
      PROVE  RamImage(m, s)[w] = PrevMeasurement(NextMeasurement(m))
  <2>1. w \in SubpageWords[s]
    BY <1>1 DEF Subpages, Words
  <2>2. QED
    BY <2>1, MeasurementArithmetic DEF RamImage
<1>2. QED
  BY <1>1 DEF RamImage

\* A measurement rewrites at least one word, so the image is a new one.
LEMMA MeasureIsNew ==
    ASSUME NEW m \in Measurements, NEW s \in Subpages
    PROVE  RamImage(NextMeasurement(m), 1 - s) # RamImage(m, s)
<1>1. PICK w \in SubpageWords[1 - s] : TRUE
  BY DEF Subpages
<1>2. w \in Words
  BY <1>1 DEF Subpages, Words
<1>3. RamImage(NextMeasurement(m), 1 - s)[w] = NextMeasurement(m)
  BY <1>1, <1>2 DEF RamImage
<1>4. RamImage(m, s)[w] \in {m, PrevMeasurement(m)}
  BY <1>2 DEF RamImage
<1>5. QED
  BY <1>3, <1>4, MeasurementArithmetic

\* Swapping the bytes of an image gives a frame of the right type.
LEMMA HostFrameType ==
    ASSUME NEW image \in Images
    PROVE  HostFrame(image) \in [Words -> FrameWord]
BY DEF HostFrame, FrameWord

\* The state in which thread1 enters its first call satisfies the invariant.
LEMMA InitIInv == Init => IInv
<1> SUFFICES ASSUME Init PROVE IInv
  OBVIOUS
<1>1. ram \in Images
  BY RamImageType DEF Init
<1>2. frame \in [Words -> FrameWord]
  BY MeasurementArithmetic, HostFrameType DEF Init
<1>3. cnt \in 0 .. MaxAttempts /\ next \in 1 .. N + 1
  BY DEF Init, MaxAttempts
<1>4. status \in [ready: BOOLEAN, sub: Subpages] /\ frame833 \in Subpages
  BY DEF Init, Subpages
<1>5. TypeOK
  BY <1>1, <1>2, <1>3, <1>4 DEF Init, TypeOK
<1>6. QED
  BY <1>5 DEF Init, IInv, RamIsImage, BurstIsCurrent, FrameIsCurrent,
              TakenIsImage, NoTornFrame, Succeeded

\* The step of every action from a state of the right types.
LEMMA NextTypeOK == TypeOK /\ [Next]_vars => TypeOK'
<1> SUFFICES ASSUME TypeOK, [Next]_vars PROVE TypeOK'
  OBVIOUS
<1> USE DEF TypeOK
<1>1. CASE Measure
  <2>1. /\ NextMeasurement(meas) \in Measurements
        /\ 1 - sub \in Subpages
    BY MeasurementArithmetic DEF Subpages
  <2>2. ram' \in Images
    BY <1>1, <2>1 DEF Measure
  <2>3. QED
    BY <1>1, <2>1, <2>2 DEF Measure, frameVars, callVars
<1>2. CASE Call
  BY <1>2 DEF Call, sensorVars, frameVars, MaxAttempts
<1>3. CASE ReadFails
  BY <1>3 DEF ReadFails, Return, sensorVars, frameVars
<1>4. CASE ClearFails
  BY <1>4 DEF ClearFails, Return, frameVars
<1>5. CASE ControlFails
  BY <1>5 DEF ControlFails, Return, sensorVars
<1>6. CASE Poll
  BY <1>6 DEF Poll, sensorVars, frameVars
<1>7. CASE ClearReady
  BY <1>7 DEF ClearReady, frameVars
<1>8. CASE VerifyClear
  BY <1>8 DEF VerifyClear, sensorVars, frameVars
<1>9. CASE BurstWord
  <2>1. next \in 1 .. N /\ next + 1 \in 1 .. N + 1
    BY <1>9 DEF BurstWord, Words
  <2>2. [meas |-> ram[next], order |-> "bus"] \in FrameWord
    BY <1>9 DEF BurstWord, FrameWord
  <2>3. frame' \in [Words -> FrameWord]
    BY <1>9, <2>2 DEF BurstWord
  <2>4. QED
    BY <1>9, <2>1, <2>3 DEF BurstWord, sensorVars
<1>10. CASE BurstDone
  <2>1. frame' \in [Words -> FrameWord]
    BY <1>10, HostFrameType DEF BurstDone, ImageOf, FrameWord
  <2>2. QED
    BY <1>10, <2>1 DEF BurstDone, sensorVars
<1>11. CASE CheckReady
  <2>1. cnt' \in 0 .. MaxAttempts
    BY <1>11 DEF CheckReady, MaxAttempts
  <2>2. QED
    BY <1>11, <2>1 DEF CheckReady, sensorVars, frameVars
<1>12. CASE ReadControl
  BY <1>12 DEF ReadControl, Return, sensorVars, Subpages
<1>13. CASE UNCHANGED vars
  BY <1>13 DEF vars, sensorVars, frameVars, callVars
<1>14. QED
  BY <1>1, <1>2, <1>3, <1>4, <1>5, <1>6, <1>7, <1>8, <1>9, <1>10, <1>11, <1>12,
     <1>13 DEF Next, GetFrameData, TransferFails

\* Every reachable state of the call and of the sensor has the types of
\* TypeOK: the counter of attempts never passes 5 and the burst never runs
\* past the RAM.
THEOREM TypeCorrect == Spec => []TypeOK
<1>1. Init => TypeOK
  BY InitIInv DEF IInv
<1>2. QED
  BY <1>1, NextTypeOK, PTL DEF Spec

\* The step of every action from a state of the inductive invariant: one case
\* per action, and under it the conjuncts the action can disturb.
LEMMA NextIInv == IInv /\ [Next]_vars => IInv'
<1> SUFFICES ASSUME IInv, [Next]_vars PROVE IInv'
  OBVIOUS
<1>0. TypeOK /\ TypeOK'
  BY NextTypeOK DEF IInv
<1>1. CASE Measure
  \* The image moves on, and the ready bit withdraws every claim about the burst.
  <2>1. ram' = RamImage(NextMeasurement(meas), 1 - sub)
    BY <1>0, <1>1, MeasureImage DEF Measure, IInv, RamIsImage, TypeOK
  <2>2. RamIsImage'
    BY <1>1, <2>1 DEF Measure, RamIsImage, RamImage
  <2>3. TakenIsImage' /\ NoTornFrame'
    BY <1>1 DEF Measure, frameVars, callVars, IInv, TakenIsImage, NoTornFrame, Succeeded,
                HostFrame, RamImage
  <2>4. QED
    BY <1>0, <1>1, <2>2, <2>3 DEF Measure, IInv, BurstIsCurrent, FrameIsCurrent
<1> DEFINE SameRam == UNCHANGED <<meas, sub, ram>>
<1>2. SameRam => RamIsImage'
  BY DEF IInv, RamIsImage, RamImage
<1>3. CASE Call
  BY <1>0, <1>2, <1>3 DEF Call, sensorVars, IInv, BurstIsCurrent, FrameIsCurrent,
                          TakenIsImage, NoTornFrame, Succeeded
<1>4. CASE ReadFails
  BY <1>0, <1>2, <1>4 DEF ReadFails, Return, sensorVars, IInv, BurstIsCurrent,
         FrameIsCurrent, TakenIsImage, NoTornFrame, Succeeded, Subpages
<1>5. CASE ClearFails
  BY <1>0, <1>2, <1>5 DEF ClearFails, Return, IInv, BurstIsCurrent,
         FrameIsCurrent, TakenIsImage, NoTornFrame, Succeeded, Subpages
<1>6. CASE ControlFails
  BY <1>0, <1>2, <1>6 DEF ControlFails, Return, sensorVars, IInv, BurstIsCurrent,
         FrameIsCurrent, TakenIsImage, NoTornFrame, Succeeded, Subpages
<1>7. CASE Poll
  BY <1>0, <1>2, <1>7 DEF Poll, sensorVars, IInv, BurstIsCurrent, FrameIsCurrent,
         TakenIsImage, NoTornFrame, Succeeded
<1>8. CASE ClearReady
  BY <1>0, <1>2, <1>8 DEF ClearReady, IInv, BurstIsCurrent, FrameIsCurrent,
         TakenIsImage, NoTornFrame, Succeeded
<1>9. CASE VerifyClear
  BY <1>0, <1>2, <1>9 DEF VerifyClear, sensorVars, IInv, BurstIsCurrent, FrameIsCurrent,
         TakenIsImage, NoTornFrame, Succeeded
<1>10. CASE BurstWord
  <2>1. BurstIsCurrent'
    <3> SUFFICES ASSUME ~ready, NEW w \in 1 .. next
                 PROVE  frame'[w] = [meas |-> ram[w], order |-> "bus"]
      BY <1>0, <1>10 DEF BurstWord, BurstIsCurrent, TypeOK, sensorVars
    <3>1. CASE w = next
      BY <1>0, <1>10, <3>1 DEF BurstWord, TypeOK
    <3>2. CASE w # next
      <4>1. w \in 1 .. next - 1
        BY <1>0, <3>2 DEF TypeOK
      <4>2. frame'[w] = frame[w]
        BY <1>0, <1>10, <3>2, <4>1 DEF BurstWord, TypeOK, Words
      <4>3. QED
        BY <1>10, <4>1, <4>2 DEF BurstWord, IInv, BurstIsCurrent
    <3>3. QED
      BY <3>1, <3>2
  <2>2. QED
    BY <1>0, <1>2, <1>10, <2>1 DEF BurstWord, sensorVars, IInv, FrameIsCurrent,
           TakenIsImage, NoTornFrame, Succeeded
<1>11. CASE BurstDone
  <2>1. FrameIsCurrent'
    <3> SUFFICES ASSUME ~ready PROVE frame' = HostFrame(ram)
      BY <1>11 DEF BurstDone, FrameIsCurrent, sensorVars, HostFrame
    <3>1. next - 1 = N
      BY <1>11 DEF BurstDone
    <3>2. \A w \in Words : frame[w] = [meas |-> ram[w], order |-> "bus"]
      BY <1>11, <3>1 DEF BurstDone, IInv, BurstIsCurrent, Words
    <3>3. ASSUME NEW w \in Words PROVE ImageOf(frame)[w] = ram[w]
      <4>1. frame[w] = [meas |-> ram[w], order |-> "bus"]
        BY <3>2
      <4>2. frame[w].meas = ram[w]
        BY <4>1
      <4>3. QED
        BY <4>2 DEF ImageOf
    <3>4. QED
      BY <1>11, <3>3 DEF BurstDone, HostFrame
  <2>2. QED
    BY <1>0, <1>2, <1>11, <2>1 DEF BurstDone, sensorVars, IInv, BurstIsCurrent,
           TakenIsImage, NoTornFrame, Succeeded
<1>12. CASE CheckReady
  <2>1. TakenIsImage'
    <3> SUFFICES ASSUME pc' = "ctrl"
                 PROVE  (\E m \in Measurements : frame = HostFrame(RamImage(m, status.sub)))'
      BY DEF TakenIsImage
    <3>1. ~ready /\ status'.sub = sub /\ frame' = frame
      BY <1>0, <1>12 DEF CheckReady, frameVars, TypeOK
    <3>2. frame = HostFrame(RamImage(meas, sub))
      BY <1>12, <3>1 DEF CheckReady, IInv, FrameIsCurrent, RamIsImage
    <3>3. QED
      BY <1>0, <3>1, <3>2 DEF TypeOK, HostFrame, RamImage
  <2>2. NoTornFrame'
    BY <1>12 DEF CheckReady, NoTornFrame, Succeeded, Subpages
  <2>3. QED
    BY <1>0, <1>2, <1>12, <2>1, <2>2 DEF CheckReady, sensorVars, IInv, BurstIsCurrent,
           FrameIsCurrent
<1>13. CASE ReadControl
  <2>1. NoTornFrame'
    BY <1>13 DEF ReadControl, Return, IInv, TakenIsImage, NoTornFrame, Succeeded,
                 HostFrame, RamImage
  <2>2. QED
    BY <1>0, <1>2, <1>13, <2>1 DEF ReadControl, Return, sensorVars, IInv, BurstIsCurrent,
           FrameIsCurrent, TakenIsImage
<1>14. CASE UNCHANGED vars
  BY <1>0, <1>2, <1>14 DEF vars, sensorVars, frameVars, callVars, IInv, BurstIsCurrent,
         FrameIsCurrent, TakenIsImage, NoTornFrame, Succeeded, HostFrame, RamImage
<1>15. QED
  BY <1>1, <1>3, <1>4, <1>5, <1>6, <1>7, <1>8, <1>9, <1>10, <1>11, <1>12, <1>13,
     <1>14 DEF Next, GetFrameData, TransferFails

\* In every reachable state the words of the burst read so far are those of the
\* RAM unless the ready bit says that a measurement came in between: the reason
\* why one look at the bit after the burst is enough.
THEOREM InductiveInvariant == Spec => []IInv
BY InitIInv, NextIInv, PTL DEF Spec

\* A frame that MLX90640_GetFrameData reports as good is one RAM image of the
\* sensor in host byte order, with the subpage and the control register that
\* belong to it, however the sensor's measurements fall between the words of
\* the burst and wherever transfers fail.
THEOREM NoTornFrameHolds == Spec => []NoTornFrame
BY InductiveInvariant, PTL DEF IInv
-----------------------------------------------------------------------------
(* The call implements FrameMailbox.                                       *)

\* Byte-swapping an image and reading the measurements back loses nothing.
LEMMA HostFrameImage ==
    ASSUME NEW image \in Images
    PROVE  ImageOf(HostFrame(image)) = image
<1>1. ASSUME NEW w \in Words PROVE ImageOf(HostFrame(image))[w] = image[w]
  BY DEF HostFrame, ImageOf
<1>2. QED
  BY <1>1 DEF ImageOf

\* What frameData holds is always an image, never the absence of one.
LEMMA FrameImageType ==
    ASSUME TypeOK
    PROVE  ImageOf(frame) \in Images /\ ImageOf(frame) # NoImage
<1>1. ImageOf(frame) \in Images
  BY DEF TypeOK, ImageOf, FrameWord
<1>2. QED
  BY <1>1, NoImageAssumption

\* The first call begins as a pending request on a mailbox with nothing to read.
LEMMA InitMailbox == Init => Mailbox!Init
<1> SUFFICES ASSUME Init PROVE Mailbox!Init
  OBVIOUS
<1>1. ram \in Images
  BY InitIInv DEF IInv, TypeOK
<1>2. QED
  BY <1>1 DEF Init, Mailbox!Init, Mailbox!Pending, Succeeded

\* Every step of the call or of the sensor is a step of the mailbox or leaves
\* it as it is.
LEMMA NextMailbox == IInv /\ [Next]_vars => [Mailbox!Next]_(Mailbox!vars)
<1> SUFFICES ASSUME IInv, [Next]_vars PROVE [Mailbox!Next]_(Mailbox!vars)
  OBVIOUS
<1>0. TypeOK /\ TypeOK' /\ (pc = "clear" => ready)
  BY NextTypeOK DEF IInv
<1> USE DEF Succeeded, Subpages
<1>1. CASE Measure
  <2>1. ram' = RamImage(NextMeasurement(meas), 1 - sub) /\ ram = RamImage(meas, sub)
    BY <1>0, <1>1, MeasureImage DEF Measure, IInv, RamIsImage, TypeOK
  <2>2. ram' # ram
    BY <1>0, <2>1, MeasureIsNew DEF TypeOK
  <2>3. Mailbox!Publish
    BY <1>0, <1>1, <2>2 DEF Measure, frameVars, callVars, Mailbox!Publish, TypeOK, ImageOf
  <2>4. QED
    BY <2>3 DEF Mailbox!Next
<1>2. CASE Call
  <2>1. Mailbox!Request
    BY <1>0, <1>2 DEF Call, sensorVars, frameVars, Mailbox!Request, Mailbox!Pending, TypeOK
  <2>2. QED
    BY <2>1 DEF Mailbox!Next
<1>3. CASE ReadFails
  <2>1. Mailbox!Fail
    BY <1>0, <1>3 DEF ReadFails, Return, sensorVars, Mailbox!Fail, Mailbox!Error, TypeOK
  <2>2. QED
    BY <2>1 DEF Mailbox!Next
<1>4. CASE ClearFails
  <2>1. Mailbox!Fail
    BY <1>0, <1>4 DEF ClearFails, Return, Mailbox!Fail, Mailbox!Error, TypeOK
  <2>2. QED
    BY <2>1 DEF Mailbox!Next
<1>5. CASE ControlFails
  <2>1. Mailbox!Fail
    BY <1>0, <1>5 DEF ControlFails, Return, sensorVars, Mailbox!Fail, Mailbox!Error, TypeOK
  <2>2. QED
    BY <2>1 DEF Mailbox!Next
<1>6. CASE Poll
  BY <1>0, <1>6 DEF Poll, sensorVars, frameVars, Mailbox!vars, TypeOK
<1>7. CASE ClearReady
  BY <1>0, <1>7 DEF ClearReady, frameVars, Mailbox!vars, TypeOK
<1>8. CASE VerifyClear
  BY <1>0, <1>8 DEF VerifyClear, sensorVars, frameVars, Mailbox!vars, TypeOK
<1>9. CASE BurstWord
  BY <1>0, <1>9 DEF BurstWord, sensorVars, Mailbox!vars, TypeOK
<1>10. CASE BurstDone
  BY <1>0, <1>10 DEF BurstDone, sensorVars, Mailbox!vars, TypeOK
<1>11. CASE CheckReady
  <2>1. CASE pc' = "clear"
    BY <1>0, <1>11, <2>1 DEF CheckReady, sensorVars, frameVars, Mailbox!vars, TypeOK
  <2>2. CASE pc' = "ctrl"
    <3>1. ~ready /\ frame' = frame
      BY <1>0, <1>11, <2>2 DEF CheckReady, frameVars, TypeOK
    <3>2. ImageOf(frame') = ram
      BY <1>0, <1>11, <3>1, HostFrameImage DEF CheckReady, IInv, FrameIsCurrent, TypeOK
    <3>3. Mailbox!Take
      BY <1>0, <1>11, <2>2, <3>1, <3>2 DEF CheckReady, sensorVars, Mailbox!Take, TypeOK
    <3>4. QED
      BY <3>3 DEF Mailbox!Next
  <2>3. CASE pc' = "idle"
    <3>1. Mailbox!Fail
      BY <1>0, <1>11, <2>3 DEF CheckReady, sensorVars, Mailbox!Fail, Mailbox!Error, TypeOK
    <3>2. QED
      BY <3>1 DEF Mailbox!Next
  <2>4. QED
    BY <1>11, <2>1, <2>2, <2>3 DEF CheckReady
<1>12. CASE ReadControl
  <2>1. ImageOf(frame) # NoImage
    BY <1>0, FrameImageType
  <2>2. Mailbox!Answer
    BY <1>0, <1>12, <2>1 DEF ReadControl, Return, sensorVars, Mailbox!Answer, TypeOK
  <2>3. QED
    BY <2>2 DEF Mailbox!Next
<1>13. CASE UNCHANGED vars
  BY <1>13 DEF vars, sensorVars, frameVars, callVars, Mailbox!vars, ImageOf
<1>14. QED
  BY <1>1, <1>2, <1>3, <1>4, <1>5, <1>6, <1>7, <1>8, <1>9, <1>10, <1>11, <1>12,
     <1>13 DEF Next, GetFrameData, TransferFails

\* MLX90640_GetFrameData implements the mailbox: an answer is one whole image
\* that was the newest when it was taken, and no image is answered twice.
THEOREM ImplementsMailbox == Spec => MailboxSpec
BY InitMailbox, NextMailbox, InductiveInvariant, PTL DEF Spec, MailboxSpec, Mailbox!Spec
=============================================================================
