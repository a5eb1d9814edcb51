----------------------- MODULE ControlRegister_proofs -----------------------
(***************************************************************************)
(* The theorems of ControlRegister: for every value the register may power *)
(* up with and every argument, whatever transfers fail.                    *)
(***************************************************************************)
EXTENDS ControlRegister, TLAPS
-----------------------------------------------------------------------------
(* The fields of a word.                                                   *)

LEMMA Layout ==
    /\ Weight("resolution") = 1024 /\ Size("resolution") = 4
    /\ Weight("refreshRate") = 128 /\ Size("refreshRate") = 8
    /\ Weight("mode") = 4096 /\ Size("mode") = 2
BY DEF Weight, Size

LEMMA InRange ==
    ASSUME NEW lo \in Int, NEW hi \in Int, NEW x \in Int
    PROVE  x \in lo .. hi <=> lo <= x /\ x <= hi
OBVIOUS

LEMMA WordRange ==
    ASSUME NEW w
    PROVE  w \in Words <=> w \in Int /\ 0 <= w /\ w <= 65535
<1>1. PICK hi \in Int : hi = 65535
  OBVIOUS
<1>2. w \in 0 .. hi <=> w \in Int /\ 0 <= w /\ w <= hi
  BY SMT
<1>3. Words = 0 .. hi
  BY <1>1 DEF Words
<1>4. w \in Words <=> w \in Int /\ 0 <= w /\ w <= hi
  BY <1>2, <1>3
<1> QED BY ONLY <1>1, <1>4, SMT

\* Quotient and remainder are determined by x = q * d + r with 0 <= r < d.
LEMMA DivModUnique ==
    ASSUME NEW x \in Int, NEW d \in Nat \ {0}, NEW q \in Int, NEW r \in Int, 0 <= r, r < d,
           x = q * d + r
    PROVE  x \div d = q /\ x % d = r
BY SMT

\* Quotient and remainder, put together, give the number.
LEMMA DivMod ==
    ASSUME NEW x \in Nat, NEW d \in Nat \ {0}
    PROVE  /\ x \div d \in Nat
           /\ x % d \in Int /\ 0 <= x % d /\ x % d < d
           /\ x = (x \div d) * d + (x % d)
BY SMT

\* The bytes of a word come back in their order, whatever the direction.
LEMMA BytesKept ==
    ASSUME NEW w \in Words
    PROVE  HostWord(w) = w /\ Sent(w) = w
<1>0. w \in Nat /\ w <= 65535 /\ 256 \in Nat \ {0}
  BY WordRange, SMT
<1>1. PICK h \in Nat, l \in Nat : l < 256 /\ h = w \div 256 /\ l = w % 256 /\ w = h * 256 + l
  BY <1>0, DivMod, SMT
<1>2. h < 256
  BY <1>0, <1>1, SMT
<1>3. Received(w) = l * 256 + h
  <2>1. Received(w) = h + 256 * l
    BY <1>1 DEF Received, High, Low
  <2> QED BY <2>1, SMT
<1>4. l * 256 + h \in Int
  BY SMT
<1>5. Received(w) \div 256 = l /\ Received(w) % 256 = h
  BY <1>0, <1>1, <1>2, <1>3, <1>4, DivModUnique, SMT
<1> QED BY <1>1, <1>5 DEF HostWord, SwapBytes, Sent, High, Low

\* A word of the register: its fields and the bits around them.
Word(below, refreshRate, resolution, mode, above) ==
    below + refreshRate * 128 + resolution * 1024 + mode * 4096 + above * 8192

Parts(b, f, s, m, a) ==
    /\ b \in Nat /\ b < 128
    /\ f \in Nat /\ f < 8
    /\ s \in Nat /\ s < 4
    /\ m \in Nat /\ m < 2
    /\ a \in Nat /\ a < 8

\* Every value of the register is made of them.
LEMMA WordOf ==
    ASSUME NEW r \in Words
    PROVE  \E b, f, s, m, a : Parts(b, f, s, m, a) /\ r = Word(b, f, s, m, a)
<1> DEFINE q1 == r \div 128
           b  == r % 128
           q2 == q1 \div 8
           f  == q1 % 8
           q3 == q2 \div 4
           s  == q2 % 4
           a  == q3 \div 2
           m  == q3 % 2
<1>0. r \in Nat /\ r <= 65535
  BY WordRange, SMT
<1>1. q1 \in Nat /\ b \in Nat /\ b < 128 /\ r = q1 * 128 + b
  BY <1>0, SMT
<1>2. q2 \in Nat /\ f \in Nat /\ f < 8 /\ q1 = q2 * 8 + f
  <2> HIDE DEF q1
  <2> QED BY <1>1, SMT
<1>3. q3 \in Nat /\ s \in Nat /\ s < 4 /\ q2 = q3 * 4 + s
  <2> HIDE DEF q2
  <2> QED BY <1>2, SMT
<1>4. a \in Nat /\ m \in Nat /\ m < 2 /\ q3 = a * 2 + m
  <2> HIDE DEF q3
  <2> QED BY <1>3, SMT
<1> HIDE DEF q1, b, q2, f, q3, s, a, m
<1>5. r = b + f * 128 + s * 1024 + m * 4096 + a * 8192
  BY <1>1, <1>2, <1>3, <1>4, SMT
<1>6. a < 8
  BY <1>0, <1>1, <1>2, <1>3, <1>4, <1>5, SMT
<1>7. Parts(b, f, s, m, a)
  BY <1>1, <1>2, <1>3, <1>4, <1>6 DEF Parts
<1> QED BY <1>5, <1>7 DEF Word

\* What the masks and shifts of the code make of such a word.
LEMMA WordFields ==
    ASSUME NEW b, NEW f, NEW s, NEW m, NEW a, Parts(b, f, s, m, a)
    PROVE  LET r == Word(b, f, s, m, a)
           IN  /\ r \in Words
               /\ Masked("refreshRate", r) = f * 128 /\ FieldOf("refreshRate", r) = f
               /\ Masked("resolution", r) = s * 1024 /\ FieldOf("resolution", r) = s
               /\ Masked("mode", r) = m * 4096 /\ FieldOf("mode", r) = m
<1> DEFINE r == Word(b, f, s, m, a)
<1>0. /\ b \in Int /\ 0 <= b /\ b < 128
      /\ f \in Int /\ 0 <= f /\ f < 8
      /\ s \in Int /\ 0 <= s /\ s < 4
      /\ m \in Int /\ 0 <= m /\ m < 2
      /\ a \in Int /\ 0 <= a /\ a < 8
  BY SMT DEF Parts
<1>1. r \in Int /\ r = b + f * 128 + s * 1024 + m * 4096 + a * 8192
  BY <1>0, SMT DEF Word
<1> HIDE DEF r
<1>2. r \in Words
  <2>1. 0 <= r /\ r <= 65535
    BY <1>0, <1>1, SMT
  <2> QED BY <1>1, <2>1, WordRange
<1>3. (r \div 128) % 8 = f
  <2>1. r \div 128 = f + s * 8 + m * 32 + a * 64
    BY <1>0, <1>1, SMT
  <2>2. (f + s * 8 + m * 32 + a * 64) % 8 = f
    BY <1>0, SMT
  <2> QED BY <2>1, <2>2
<1>4. (r \div 1024) % 4 = s
  <2>1. r \div 1024 = s + m * 4 + a * 8
    BY <1>0, <1>1, SMT
  <2>2. (s + m * 4 + a * 8) % 4 = s
    BY <1>0, SMT
  <2> QED BY <2>1, <2>2
<1>5. (r \div 4096) % 2 = m
  <2>1. r \div 4096 = m + a * 2
    BY <1>0, <1>1, SMT
  <2>2. (m + a * 2) % 2 = m
    BY <1>0, SMT
  <2> QED BY <2>1, <2>2
<1>6. Masked("refreshRate", r) = f * 128 /\ Masked("resolution", r) = s * 1024 /\ Masked("mode", r) = m * 4096
  BY <1>3, <1>4, <1>5, Layout DEF Masked
<1>7. (f * 128) \div 128 = f /\ (s * 1024) \div 1024 = s /\ (m * 4096) \div 4096 = m
  BY <1>0, SMT
<1>8. FieldOf("refreshRate", r) = f /\ FieldOf("resolution", r) = s /\ FieldOf("mode", r) = m
  BY <1>6, <1>7, Layout DEF FieldOf
<1> QED BY <1>2, <1>6, <1>8 DEF r

\* What a caller passes.
LEMMA Calls ==
    ASSUME NEW o \in Setters \cup Getters
    PROVE  o.field \in Fields /\ o.set \in BOOLEAN /\ o.arg \in Nat
<1>1. Arguments \subseteq Nat
  BY RegAssumption, SMT
<1>a. 0 \in Nat /\ 1 \in Nat
  BY SMT
<1>2. CASE o \in [field: {"resolution", "refreshRate"}, set: {TRUE}, arg: Arguments]
  BY <1>1, <1>2 DEF Fields
<1>3. CASE o \in [field: {"mode"}, set: {TRUE}, arg: {0, 1}]
  BY <1>a, <1>3 DEF Fields
<1>4. CASE o \in [field: Fields, set: {FALSE}, arg: {0}]
  BY <1>a, <1>4
<1> QED BY <1>2, <1>3, <1>4 DEF Setters, Getters

\* A field holds at most three bits.
LEMMA FieldWidth ==
    ASSUME NEW r \in Words, NEW g \in Fields
    PROVE  FieldOf(g, r) \in 0 .. 7
<1>1. PICK b, f, s, m, a : Parts(b, f, s, m, a) /\ r = Word(b, f, s, m, a)
  BY WordOf
<1>2. /\ FieldOf("refreshRate", r) = f /\ FieldOf("resolution", r) = s
      /\ FieldOf("mode", r) = m
  BY <1>1, WordFields
<1>3. f \in 0 .. 7 /\ s \in 0 .. 7 /\ m \in 0 .. 7
  BY <1>1, SMT DEF Parts
<1> QED BY <1>2, <1>3 DEF Fields

\* What a setter writes back: a word of the register with its own field set to
\* as much of the argument as fits, and every other bit and field as it was.
LEMMA Replaced ==
    ASSUME NEW r \in Words, NEW o, o.field \in Fields, o.arg \in Nat
    PROVE  /\ Modified(o, r) \in Words
           /\ FieldOf(o.field, Modified(o, r)) = o.arg % Size(o.field)
           /\ Cleared(o.field, Modified(o, r)) = Cleared(o.field, r)
           /\ \A g \in Fields \ {o.field} : FieldOf(g, Modified(o, r)) = FieldOf(g, r)
<1>1. PICK b, f, s, m, a : Parts(b, f, s, m, a) /\ r = Word(b, f, s, m, a)
  BY WordOf
<1>2. /\ Masked("refreshRate", r) = f * 128 /\ FieldOf("refreshRate", r) = f
      /\ Masked("resolution", r) = s * 1024 /\ FieldOf("resolution", r) = s
      /\ Masked("mode", r) = m * 4096 /\ FieldOf("mode", r) = m
  BY <1>1, WordFields
<1>3. b \in Int /\ f \in Int /\ s \in Int /\ m \in Int /\ a \in Int
  BY <1>1, SMT DEF Parts
<1>4. CASE o.field = "refreshRate"
  <2>1. PICK n : n = o.arg % 8 /\ n \in Nat /\ n < 8
    BY SMT
  <2>2. Parts(b, n, s, m, a)
    BY <1>1, <2>1 DEF Parts
  <2>3. Modified(o, r) = Word(b, n, s, m, a)
    <3>1. Modified(o, r) = r - f * 128 + n * 128
      BY <1>2, <1>4, <2>1, Layout DEF Modified, Cleared
    <3> QED BY <1>1, <1>3, <2>1, <3>1, SMT DEF Word
  <2>4. /\ Modified(o, r) \in Words
        /\ Masked("refreshRate", Modified(o, r)) = n * 128
        /\ FieldOf("refreshRate", Modified(o, r)) = n
        /\ FieldOf("resolution", Modified(o, r)) = s /\ FieldOf("mode", Modified(o, r)) = m
    BY <2>2, <2>3, WordFields
  <2>5. Cleared("refreshRate", Modified(o, r)) = Cleared("refreshRate", r)
    <3>1. Word(b, n, s, m, a) - n * 128 = Word(b, f, s, m, a) - f * 128
      BY <1>3, <2>1, SMT DEF Word
    <3> QED BY <1>1, <1>2, <2>3, <2>4, <3>1 DEF Cleared
  <2> QED BY <1>2, <1>4, <2>1, <2>4, <2>5, Layout DEF Fields
<1>5. CASE o.field = "resolution"
  <2>1. PICK n : n = o.arg % 4 /\ n \in Nat /\ n < 4
    BY SMT
  <2>2. Parts(b, f, n, m, a)
    BY <1>1, <2>1 DEF Parts
  <2>3. Modified(o, r) = Word(b, f, n, m, a)
    <3>1. Modified(o, r) = r - s * 1024 + n * 1024
      BY <1>2, <1>5, <2>1, Layout DEF Modified, Cleared
    <3> QED BY <1>1, <1>3, <2>1, <3>1, SMT DEF Word
  <2>4. /\ Modified(o, r) \in Words
        /\ Masked("resolution", Modified(o, r)) = n * 1024
        /\ FieldOf("resolution", Modified(o, r)) = n
        /\ FieldOf("refreshRate", Modified(o, r)) = f /\ FieldOf("mode", Modified(o, r)) = m
    BY <2>2, <2>3, WordFields
  <2>5. Cleared("resolution", Modified(o, r)) = Cleared("resolution", r)
    <3>1. Word(b, f, n, m, a) - n * 1024 = Word(b, f, s, m, a) - s * 1024
      BY <1>3, <2>1, SMT DEF Word
    <3> QED BY <1>1, <1>2, <2>3, <2>4, <3>1 DEF Cleared
  <2> QED BY <1>2, <1>5, <2>1, <2>4, <2>5, Layout DEF Fields
<1>6. CASE o.field = "mode"
  <2>1. PICK n : n = o.arg % 2 /\ n \in Nat /\ n < 2
    BY SMT
  <2>2. Parts(b, f, s, n, a)
    BY <1>1, <2>1 DEF Parts
  <2>3. Modified(o, r) = Word(b, f, s, n, a)
    <3>1. Modified(o, r) = r - m * 4096 + n * 4096
      BY <1>2, <1>6, <2>1, Layout DEF Modified, Cleared
    <3> QED BY <1>1, <1>3, <2>1, <3>1, SMT DEF Word
  <2>4. /\ Modified(o, r) \in Words
        /\ Masked("mode", Modified(o, r)) = n * 4096
        /\ FieldOf("mode", Modified(o, r)) = n
        /\ FieldOf("refreshRate", Modified(o, r)) = f /\ FieldOf("resolution", Modified(o, r)) = s
    BY <2>2, <2>3, WordFields
  <2>5. Cleared("mode", Modified(o, r)) = Cleared("mode", r)
    <3>1. Word(b, f, s, n, a) - n * 4096 = Word(b, f, s, m, a) - m * 4096
      BY <1>3, <2>1, SMT DEF Word
    <3> QED BY <1>1, <1>2, <2>3, <2>4, <3>1 DEF Cleared
  <2> QED BY <1>2, <1>6, <2>1, <2>4, <2>5, Layout DEF Fields
<1> QED BY <1>4, <1>5, <1>6 DEF Fields

\* As much of an argument as fits is at most three bits.
LEMMA ArgumentWidth ==
    ASSUME NEW o, o.field \in Fields, o.arg \in Nat
    PROVE  o.arg % Size(o.field) \in 0 .. 7
<1>1. o.arg % 4 \in 0 .. 7 /\ o.arg % 8 \in 0 .. 7 /\ o.arg % 2 \in 0 .. 7
  BY SMT
<1> QED BY <1>1, Layout DEF Fields

\* The 16-bit parameter and the byte order of the write change nothing.
LEMMA SentUnchanged ==
    ASSUME NEW w \in Words
    PROVE  Sent(w % 65536) = w
<1>1. w % 65536 = w
  BY WordRange, SMT
<1> QED BY <1>1, BytesKept
-----------------------------------------------------------------------------
(* The inductive invariant.                                                *)

\* The register and the local variable at each point of a call.
Progress ==
    /\ pc \in {"read", "write"} => reg = before
    /\ pc \in {"write", "verify"} => op.set /\ controlRegister1 = before
    /\ pc = "verify" => reg = Modified(op, before)

\* Every field still holds what it was last set to, except the one being set.
Kept ==
    \A f \in Fields :
        last[f] \in {Unknown, FieldOf(f, reg)} \/ (pc = "verify" /\ f = op.field)

\* What a getter has returned is in the register.
Answered ==
    pc = "idle" /\ ~op.set /\ ret >= 0 => ret = FieldOf(op.field, reg)

IInv == TypeOK /\ Progress /\ OnlyOwnField /\ Kept /\ Answered

LEMMA InitInv == Init => IInv
<1> SUFFICES ASSUME Init  PROVE  IInv
  OBVIOUS
<1> USE DEF Init
<1>1. reg \in Words /\ before \in Words /\ 0 \in Words
  BY RegAssumption, WordRange, SMT
<1>2. op \in Setters \cup Getters
  BY DEF Getters, Fields
<1>3. ret \in -2 .. 7 /\ Unknown \in Unknown .. 7 /\ ~(ret >= 0)
  BY SMT DEF Unknown
<1>4. last \in [Fields -> Unknown .. 7]
  BY <1>3
<1>5. TypeOK
  BY <1>1, <1>2, <1>3, <1>4 DEF TypeOK
<1>6. Progress /\ OnlyOwnField /\ Kept /\ Answered
  BY <1>3 DEF Progress, OnlyOwnField, Kept, Answered
<1> QED BY <1>5, <1>6 DEF IInv

\* A call that returns: the type of what it leaves behind, and its field,
\* which is in doubt unless the call succeeded and put its argument there.
LEMMA Returned ==
    ASSUME TypeOK, NEW value \in -2 .. 7, Return(value)
    PROVE  /\ pc' = "idle" /\ ret' = value
           /\ last' \in [Fields -> Unknown .. 7]
           /\ ~op.set => last' = last
           /\ op.set => /\ \A f \in Fields \ {op.field} : last'[f] = last[f]
                        /\ last'[op.field] =
                             IF value # 0 THEN Unknown ELSE op.arg % Size(op.field)
<1>1. op.field \in Fields /\ op.arg \in Nat
  BY Calls DEF TypeOK
<1>2. op.arg % Size(op.field) \in Unknown .. 7 /\ Unknown \in Unknown .. 7
  <2>1. 0 .. 7 \subseteq Unknown .. 7 /\ Unknown \in Unknown .. 7
    BY SMT DEF Unknown
  <2> QED BY <1>1, <2>1, ArgumentWidth
<1>3. last \in [Fields -> Unknown .. 7]
  BY DEF TypeOK
<1>4. CASE ~op.set
  BY <1>3, <1>4 DEF Return
<1>5. CASE op.set
  <2>1. last' = [last EXCEPT ![op.field] =
                    IF value # 0 THEN Unknown ELSE op.arg % Size(op.field)]
    BY <1>5 DEF Return
  <2> QED BY <1>1, <1>2, <1>3, <1>5, <2>1 DEF Return
<1> QED BY <1>4, <1>5

LEMMA CallInv ==
    ASSUME IInv, NEW o \in Setters \cup Getters, Call(o)
    PROVE  IInv'
<1> USE DEF IInv, Call
<1>1. TypeOK'
  BY DEF TypeOK
<1>2. Progress' /\ OnlyOwnField' /\ Answered'
  BY DEF Progress, OnlyOwnField, Answered
<1>3. Kept'
  BY DEF Kept
<1> QED BY <1>1, <1>2, <1>3

\* The word that is read is the register's.
LEMMA ReadControlInv == IInv /\ ReadControl => IInv'
<1> SUFFICES ASSUME IInv, ReadControl  PROVE  IInv'
  OBVIOUS
<1>1. TypeOK /\ Progress /\ OnlyOwnField /\ Kept
  BY DEF IInv
<1>2. /\ controlRegister1' = reg /\ reg = before /\ pc = "read"
      /\ UNCHANGED <<reg, op, before>>
  BY <1>1, BytesKept DEF ReadControl, TypeOK, Progress
<1>3. CASE op.set /\ pc' = "write" /\ UNCHANGED <<ret, last>>
  <2>1. TypeOK'
    BY <1>1, <1>2, <1>3 DEF TypeOK
  <2>2. Progress' /\ OnlyOwnField' /\ Answered'
    BY <1>1, <1>2, <1>3 DEF Progress, OnlyOwnField, Answered
  <2>3. Kept'
    BY <1>1, <1>2, <1>3 DEF Kept
  <2> QED BY <2>1, <2>2, <2>3 DEF IInv
<1>4. CASE ~op.set /\ Return(FieldOf(op.field, controlRegister1'))
  <2>1. op.field \in Fields
    BY <1>1, Calls DEF TypeOK
  <2>2. FieldOf(op.field, controlRegister1') \in -2 .. 7
    <3>1. 0 .. 7 \subseteq -2 .. 7
      BY SMT
    <3> QED BY <1>1, <1>2, <2>1, <3>1, FieldWidth DEF TypeOK
  <2>3. /\ pc' = "idle" /\ ret' = FieldOf(op.field, reg) /\ last' = last
    BY <1>1, <1>2, <1>4, <2>2, Returned
  <2>4. TypeOK'
    BY <1>1, <1>2, <2>2, <2>3 DEF TypeOK
  <2>5. Progress' /\ OnlyOwnField' /\ Answered'
    BY <1>1, <1>2, <1>4, <2>3 DEF Progress, OnlyOwnField, Answered
  <2>6. Kept'
    BY <1>1, <1>2, <2>3 DEF Kept
  <2> QED BY <2>4, <2>5, <2>6 DEF IInv
<1> QED BY <1>3, <1>4 DEF ReadControl

\* A call that ends in an error with the register as it was.
LEMMA ReadFailsInv == IInv /\ ReadFails => IInv'
<1> SUFFICES ASSUME IInv, ReadFails  PROVE  IInv'
  OBVIOUS
<1>1. TypeOK /\ Progress /\ OnlyOwnField /\ Kept
  BY DEF IInv
<1>2. -1 \in -2 .. 7 /\ -1 # 0 /\ ~(-1 >= 0)
  BY SMT
<1>3. pc = "read" /\ UNCHANGED <<reg, op, controlRegister1, before>>
  BY DEF ReadFails
<1>4. /\ pc' = "idle" /\ ret' = -1 /\ last' \in [Fields -> Unknown .. 7]
      /\ \A f \in Fields : last'[f] \in {Unknown, last[f]}
  <2>1. Return(-1)
    BY DEF ReadFails
  <2>2. op.field \in Fields
    BY <1>1, Calls DEF TypeOK
  <2> QED BY <1>1, <1>2, <2>1, <2>2, Returned
<1>5. TypeOK'
  BY <1>1, <1>2, <1>3, <1>4 DEF TypeOK
<1>6. Progress' /\ OnlyOwnField' /\ Answered'
  BY <1>1, <1>2, <1>3, <1>4 DEF Progress, OnlyOwnField, Answered
<1>7. Kept'
  BY <1>1, <1>3, <1>4 DEF Kept
<1> QED BY <1>5, <1>6, <1>7 DEF IInv

\* The word a setter sends, and what the register is once it has it.
LEMMA Write ==
    ASSUME IInv, pc = "write", UNCHANGED <<op, before>>,
           reg' = Sent(Modified(op, controlRegister1) % 65536)
    PROVE  /\ op.set /\ op.field \in Fields /\ op.arg \in Nat
           /\ reg' = Modified(op, before) /\ reg' \in Words
           /\ FieldOf(op.field, reg') = op.arg % Size(op.field)
           /\ OnlyOwnField'
           /\ \A f \in Fields \ {op.field} : FieldOf(f, reg') = FieldOf(f, reg)
<1>1. op.set /\ controlRegister1 = before /\ reg = before /\ before \in Words
  BY DEF IInv, Progress, TypeOK
<1>2. op.field \in Fields /\ op.arg \in Nat
  BY Calls DEF IInv, TypeOK
<1>3. /\ Modified(op, before) \in Words
      /\ FieldOf(op.field, Modified(op, before)) = op.arg % Size(op.field)
      /\ Cleared(op.field, Modified(op, before)) = Cleared(op.field, before)
      /\ \A g \in Fields \ {op.field} : FieldOf(g, Modified(op, before)) = FieldOf(g, before)
  BY <1>1, <1>2, Replaced
<1>4. reg' = Modified(op, before)
  BY <1>1, <1>3, SentUnchanged
<1>5. OnlyOwnField'
  BY <1>1, <1>3, <1>4 DEF OnlyOwnField
<1> QED BY <1>1, <1>2, <1>3, <1>4, <1>5

LEMMA WriteControlInv == IInv /\ WriteControl => IInv'
<1> SUFFICES ASSUME IInv, WriteControl  PROVE  IInv'
  OBVIOUS
<1>1. TypeOK /\ Progress /\ Kept
  BY DEF IInv
<1>2. /\ pc = "write" /\ pc' = "verify"
      /\ UNCHANGED <<op, controlRegister1, ret, before, last>>
      /\ reg' = Sent(Modified(op, controlRegister1) % 65536)
  BY DEF WriteControl
<1>3. /\ op.set /\ reg' = Modified(op, before) /\ reg' \in Words /\ OnlyOwnField'
      /\ \A f \in Fields \ {op.field} : FieldOf(f, reg') = FieldOf(f, reg)
  BY <1>2, Write
<1>4. TypeOK'
  BY <1>1, <1>2, <1>3 DEF TypeOK
<1>5. Progress' /\ Answered'
  BY <1>1, <1>2, <1>3 DEF Progress, Answered
<1>6. Kept'
  BY <1>1, <1>2, <1>3 DEF Kept
<1> QED BY <1>3, <1>4, <1>5, <1>6 DEF IInv

\* The field is in doubt, whether or not the word got there.
LEMMA WriteFailsInv == IInv /\ WriteFails => IInv'
<1> SUFFICES ASSUME IInv, WriteFails  PROVE  IInv'
  OBVIOUS
<1>1. TypeOK /\ Progress /\ OnlyOwnField /\ Kept
  BY DEF IInv
<1>2. -1 \in -2 .. 7 /\ -1 # 0 /\ ~(-1 >= 0)
  BY SMT
<1>3. pc = "write" /\ op.set /\ UNCHANGED <<op, controlRegister1, before>>
  BY <1>1 DEF WriteFails, Progress
<1>4. op.field \in Fields
  BY <1>1, Calls DEF TypeOK
<1>5. /\ reg' \in Words /\ OnlyOwnField'
      /\ \A f \in Fields \ {op.field} : FieldOf(f, reg') = FieldOf(f, reg)
  <2>1. CASE reg' = reg
    BY <1>1, <1>3, <2>1 DEF TypeOK, OnlyOwnField
  <2>2. CASE reg' = Sent(Modified(op, controlRegister1) % 65536)
    BY <1>3, <2>2, Write
  <2> QED BY <2>1, <2>2 DEF WriteFails
<1>6. /\ pc' = "idle" /\ ret' = -1 /\ last' \in [Fields -> Unknown .. 7]
      /\ last'[op.field] = Unknown
      /\ \A f \in Fields \ {op.field} : last'[f] = last[f]
  <2>1. Return(-1)
    BY DEF WriteFails
  <2> QED BY <1>1, <1>2, <1>3, <2>1, Returned
<1>7. TypeOK'
  BY <1>1, <1>2, <1>3, <1>5, <1>6 DEF TypeOK
<1>8. Progress' /\ Answered'
  BY <1>2, <1>3, <1>6 DEF Progress, Answered
<1>9. Kept'
  BY <1>1, <1>3, <1>5, <1>6 DEF Kept
<1> QED BY <1>5, <1>7, <1>8, <1>9 DEF IInv

\* A setter whose write was not reported as failed: the register holds its
\* argument, whatever the read-back compares it with.
LEMMA CheckInv ==
    ASSUME IInv, pc = "verify", NEW value \in {0, -2}, Return(value),
           UNCHANGED <<reg, op, controlRegister1, before>>
    PROVE  IInv'
<1>1. TypeOK /\ Progress /\ OnlyOwnField /\ Kept
  BY DEF IInv
<1>2. value \in -2 .. 7
  BY SMT
<1>3. op.set /\ reg = Modified(op, before) /\ before \in Words
  BY <1>1 DEF Progress, TypeOK
<1>4. op.field \in Fields /\ op.arg \in Nat
  BY <1>1, Calls DEF TypeOK
<1>5. FieldOf(op.field, reg) = op.arg % Size(op.field)
  BY <1>3, <1>4, Replaced
<1>6. /\ pc' = "idle" /\ ret' = value /\ last' \in [Fields -> Unknown .. 7]
      /\ last'[op.field] \in {Unknown, FieldOf(op.field, reg)}
      /\ \A f \in Fields \ {op.field} : last'[f] = last[f]
  BY <1>1, <1>2, <1>3, <1>5, Returned
<1>7. TypeOK'
  BY <1>1, <1>2, <1>6 DEF TypeOK
<1>8. Progress' /\ OnlyOwnField' /\ Answered'
  BY <1>1, <1>3, <1>6 DEF Progress, OnlyOwnField, Answered
<1>9. Kept'
  BY <1>1, <1>6 DEF Kept
<1> QED BY <1>7, <1>8, <1>9 DEF IInv

LEMMA NextInv == IInv /\ [Next]_vars => IInv'
<1> SUFFICES ASSUME IInv, [Next]_vars  PROVE  IInv'
  OBVIOUS
<1>1. ASSUME NEW o \in Setters \cup Getters, Call(o)  PROVE  IInv'
  BY <1>1, CallInv
<1>2. CASE Verify
  <2>1. PICK value \in {0, -2} : Return(value)
    BY <1>2 DEF Verify
  <2> QED BY <1>2, <2>1, CheckInv DEF Verify
<1>3. CASE VerifyFails
  <2>1. PICK value \in {0, -2} : Return(value)
    BY <1>3 DEF VerifyFails
  <2> QED BY <1>3, <2>1, CheckInv DEF VerifyFails
<1>4. CASE UNCHANGED vars
  BY <1>4 DEF vars, IInv, TypeOK, Progress, OnlyOwnField, Kept, Answered
<1> QED BY <1>1, <1>2, <1>3, <1>4, ReadControlInv, ReadFailsInv, WriteControlInv,
           WriteFailsInv DEF Next

\* Register, call and monitors belong together in every reachable state of the
\* calls of MLX90640_API.c.
THEOREM Invariance == Spec => []IInv
<1>1. IInv /\ [Next]_vars => IInv'
  BY NextInv
<1> QED BY <1>1, InitInv, PTL DEF Spec

\* The register, the local variable and what is returned stay in their range,
\* for every value the register may power up with and every argument.
THEOREM TypeCorrect == Spec => []TypeOK
<1>1. IInv => TypeOK
  BY DEF IInv
<1> QED BY <1>1, Invariance, PTL

\* No setter of MLX90640_API.c changes a bit outside its field, whatever its
\* argument, the value of the register and the transfers that fail.
THEOREM OnlyOwnFieldCorrect == Spec => []OnlyOwnField
<1>1. IInv => OnlyOwnField
  BY DEF IInv
<1> QED BY <1>1, Invariance, PTL

\* A getter of MLX90640_API.c that reports no error returns what the last
\* successful setter of its field was given, after any sequence of calls.
THEOREM RoundTripCorrect == Spec => []RoundTrip
<1>1. IInv => RoundTrip
  <2> SUFFICES ASSUME IInv, pc = "idle", ~op.set, ret >= 0
               PROVE  last[op.field] \in {Unknown, ret}
    BY DEF RoundTrip
  <2>1. op.field \in Fields
    BY Calls DEF IInv, TypeOK
  <2> QED BY <2>1 DEF IInv, Kept, Answered
<1> QED BY <1>1, Invariance, PTL
=============================================================================
