-------------------------- MODULE ControlRegister --------------------------
(***************************************************************************)
(* Control register 1 (0x800D) of the sensor and the functions of          *)
(* MLX90640_API.c that change one of its fields by reading, modifying and  *)
(* writing it back, or that read a field.  The calls are made one at a     *)
(* time; each transfer of _mlx90640_i2cread and _mlx90640_i2cwrite is a    *)
(* step that may fail.  The register itself is external.                   *)
(***************************************************************************)
EXTENDS Integers

CONSTANTS
    RegValues,   \* values the register may have at power-up
    Arguments    \* arguments callers pass to the setters (a uint8_t in the code)

Words == 0 .. 65535

ASSUME RegAssumption ==
    RegValues \subseteq Words /\ Arguments \subseteq 0 .. 255

Fields == {"resolution", "refreshRate", "mode"}

Unknown == -1

VARIABLES
    reg,               \* the register
    pc, op,            \* where the call is, and which call
    controlRegister1,  \* the local variable
    ret,               \* what the last call returned
    before,            \* monitor: the register when the call began
    last               \* monitor: what each field was last set to

vars == <<reg, pc, op, controlRegister1, ret, before, last>>

\* A call: the field, whether it is set, and the argument.
Setters ==
    [field: {"resolution", "refreshRate"}, set: {TRUE}, arg: Arguments]
    \cup [field: {"mode"}, set: {TRUE}, arg: {0, 1}]

Getters == [field: Fields, set: {FALSE}, arg: {0}]

TypeOK ==
    /\ reg \in Words
    /\ pc \in {"idle", "read", "write", "verify"}
    /\ op \in Setters \cup Getters
    /\ controlRegister1 \in Words
    /\ ret \in -2 .. 7
    /\ before \in Words
    /\ last \in [Fields -> Unknown .. 7]

Init ==
    /\ reg \in RegValues
    /\ pc = "idle"
    /\ op = [field |-> "mode", set |-> FALSE, arg |-> 0]
    /\ controlRegister1 = 0
    /\ ret = -1
    /\ before = reg
    /\ last = [f \in Fields |-> Unknown]
-----------------------------------------------------------------------------
(* Words on the bus: the high byte comes first, the host keeps the low     *)
(* byte first.                                                             *)

Low(w) == w % 256

High(w) == w \div 256

SwapBytes(w) == Low(w) * 256 + High(w)

\* The bytes of register word w stored in the order they arrive, as the host
\* reads them, and what _mlx90640_i2cread makes of them.
Received(w) == High(w) + 256 * Low(w)

HostWord(w) == SwapBytes(Received(w))

\* The bytes buf[2], buf[3] of _mlx90640_i2cwrite as the sensor takes them.
Sent(w) == High(w) * 256 + Low(w)
-----------------------------------------------------------------------------
(* The fields.  A mask of adjacent bits is arithmetic: Size(f) values in   *)
(* units of Weight(f).                                                     *)

Weight(f) == CASE f = "resolution" -> 1024 [] f = "refreshRate" -> 128 [] f = "mode" -> 4096

Size(f) == CASE f = "resolution" -> 4 [] f = "refreshRate" -> 8 [] f = "mode" -> 2

\* controlRegister1 & 0x0C00, & 0x0380, & 0x1000.
Masked(f, r) == ((r \div Weight(f)) % Size(f)) * Weight(f)

\* controlRegister1 & 0xF3FF, & 0xFC7F, & 0xEFFF.
Cleared(f, r) == r - Masked(f, r)

\* Mutant of Modified: the argument is not cut to the width of its field, so
\* that its other bits go to the fields above.
ModifiedWide(o, r) == Cleared(o.field, r) + o.arg * Weight(o.field)

\* The bitwise or of two numbers below 8.
OrOf(a, b) ==
    LET bit(w) == IF (a \div w) % 2 = 1 \/ (b \div w) % 2 = 1 THEN w ELSE 0
    IN  bit(1) + bit(2) + bit(4)

\* Mutant of Modified: the old value of the field is not cleared.
ModifiedOr(o, r) ==
    Cleared(o.field, r) + Weight(o.field) * OrOf(Masked(o.field, r) \div Weight(o.field),
                                                 o.arg % Size(o.field))

\* The value each setter writes back; SetInterleavedMode sets mode 0 and
\* SetChessMode mode 1.  The bits put in are clear in what is left, so that
\* the or is a sum.
Modified(o, r) == Cleared(o.field, r) + (o.arg % Size(o.field)) * Weight(o.field)

\* Mutant of FieldOf: the refresh rate is shifted as the mode of CalculateTo is.
FieldOfShiftedBy5(f, r) ==
    IF f = "refreshRate" THEN Masked(f, r) \div 32 ELSE Masked(f, r) \div Weight(f)

\* The value each getter returns.
FieldOf(f, r) == Masked(f, r) \div Weight(f)
-----------------------------------------------------------------------------
(* The calls.                                                              *)

Call(o) ==
    /\ pc = "idle"
    /\ op' = o
    /\ before' = reg
    /\ pc' = "read"
    /\ UNCHANGED <<reg, controlRegister1, ret, last>>

\* A setter that does not report success leaves its field in doubt.
Return(value) ==
    /\ pc' = "idle"
    /\ ret' = value
    /\ last' = IF ~op.set THEN last
               ELSE [last EXCEPT ![op.field] =
                        IF value # 0 THEN Unknown
                        ELSE op.arg % Size(op.field)]

\* MLX90640_I2CRead(0x800D): a getter returns its field, a setter goes on.
ReadControl ==
    /\ pc = "read"
    /\ controlRegister1' = HostWord(reg)
    /\ \/ op.set /\ pc' = "write" /\ UNCHANGED <<ret, last>>
       \/ ~op.set /\ Return(FieldOf(op.field, controlRegister1'))
    /\ UNCHANGED <<reg, op, before>>

ReadFails ==
    /\ pc = "read"
    /\ Return(-1)
    /\ UNCHANGED <<reg, op, controlRegister1, before>>

\* The write transfer of _mlx90640_i2cwrite, whose parameter is 16 bits wide.
WriteControl ==
    /\ pc = "write"
    /\ reg' = Sent(Modified(op, controlRegister1) % 65536)
    /\ pc' = "verify"
    /\ UNCHANGED <<op, controlRegister1, ret, before, last>>

\* A write that is reported as failed may have reached the sensor.
WriteFails ==
    /\ pc = "write"
    /\ reg' \in {reg, Sent(Modified(op, controlRegister1) % 65536)}
    /\ Return(-1)
    /\ UNCHANGED <<op, controlRegister1, before>>

\* The read-back of _mlx90640_i2cwrite.
Verify ==
    /\ pc = "verify"
    /\ Return(IF HostWord(reg) = Modified(op, controlRegister1) THEN 0 ELSE -2)
    /\ UNCHANGED <<reg, op, controlRegister1, before>>

\* The result of the read-back is not looked at: when it fails, data_check is
\* uninitialised or half read, and the comparison goes either way.
VerifyFails ==
    /\ pc = "verify"
    /\ \E value \in {0, -2} : Return(value)
    /\ UNCHANGED <<reg, op, controlRegister1, before>>

Next ==
    \/ \E o \in Setters \cup Getters : Call(o)
    \/ ReadControl \/ WriteControl \/ Verify
    \/ ReadFails \/ WriteFails \/ VerifyFails

Spec == Init /\ [][Next]_vars
-----------------------------------------------------------------------------
(* Properties.                                                             *)

\* Whatever transfers fail and whatever the argument, a setter changes no bit
\* outside its field, and a getter changes no bit.
OnlyOwnField ==
    IF op.set THEN Cleared(op.field, reg) = Cleared(op.field, before)
              ELSE reg = before

\* A getter that does not report an error returns what the last successful
\* setter of its field was given, however many other fields were set, or
\* failed to be set, in between.
RoundTrip ==
    pc = "idle" /\ ~op.set /\ ret >= 0 =>
        last[op.field] \in {Unknown, ret}
=============================================================================
