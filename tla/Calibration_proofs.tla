------------------------- MODULE Calibration_proofs -------------------------
(***************************************************************************)
(* Proofs about Calibration, for arrays of every size up to that of the    *)
(* sensor and for every EEPROM image.                                      *)
(***************************************************************************)
EXTENDS Calibration, TLAPS

(* Arithmetic.                                                             *)

\* The powers of two as far as the exponents of the code reach.
LEMMA Powers ==
    /\ Pow2(0) = 1 /\ Pow2(1) = 2 /\ Pow2(2) = 4 /\ Pow2(3) = 8 /\ Pow2(4) = 16
    /\ Pow2(5) = 32 /\ Pow2(6) = 64 /\ Pow2(7) = 128 /\ Pow2(8) = 256 /\ Pow2(9) = 512
    /\ Pow2(10) = 1024 /\ Pow2(11) = 2048 /\ Pow2(12) = 4096 /\ Pow2(13) = 8192 /\ Pow2(14) = 16384
    /\ Pow2(15) = 32768 /\ Pow2(16) = 65536 /\ Pow2(17) = 131072 /\ Pow2(18) = 262144 /\ Pow2(19) = 524288
    /\ Pow2(20) = 1048576 /\ Pow2(21) = 2097152 /\ Pow2(22) = 4194304 /\ Pow2(23) = 8388608 /\ Pow2(24) = 16777216
    /\ Pow2(25) = 33554432 /\ Pow2(26) = 67108864 /\ Pow2(27) = 134217728 /\ Pow2(28) = 268435456 /\ Pow2(29) = 536870912
    /\ Pow2(30) = 1073741824
BY SMT DEF Pow2

LEMMA PowerStep ==
    ASSUME NEW k \in 0 .. 29
    PROVE  Pow2(k + 1) = 2 * Pow2(k) /\ Pow2(k) \in Int /\ Pow2(k) > 0
<1>1. \/ k = 0 \/ k = 1 \/ k = 2 \/ k = 3 \/ k = 4 \/ k = 5 \/ k = 6 \/ k = 7 \/ k = 8 \/ k = 9
      \/ k = 10 \/ k = 11 \/ k = 12 \/ k = 13 \/ k = 14 \/ k = 15 \/ k = 16 \/ k = 17 \/ k = 18 \/ k = 19
      \/ k = 20 \/ k = 21 \/ k = 22 \/ k = 23 \/ k = 24 \/ k = 25 \/ k = 26 \/ k = 27 \/ k = 28 \/ k = 29
  BY SMT
<1>2. QED
  BY <1>1, Powers, SMT

LEMMA PowerInt == ASSUME NEW k \in 0 .. 15 PROVE Pow2(k) \in Int
<1>1. k \in 0 .. 29
  BY SMT
<1>2. QED
  BY <1>1, PowerStep

LEMMA PowerGrows ==
    ASSUME NEW j \in 0 .. 29, NEW k \in 0 .. 29, j <= k
    PROVE  Pow2(j) <= Pow2(k)
<1>1. \/ j = 0 \/ j = 1 \/ j = 2 \/ j = 3 \/ j = 4 \/ j = 5 \/ j = 6 \/ j = 7 \/ j = 8 \/ j = 9
      \/ j = 10 \/ j = 11 \/ j = 12 \/ j = 13 \/ j = 14 \/ j = 15 \/ j = 16 \/ j = 17 \/ j = 18 \/ j = 19
      \/ j = 20 \/ j = 21 \/ j = 22 \/ j = 23 \/ j = 24 \/ j = 25 \/ j = 26 \/ j = 27 \/ j = 28 \/ j = 29
  BY SMT
<1>2. \/ k = 0 \/ k = 1 \/ k = 2 \/ k = 3 \/ k = 4 \/ k = 5 \/ k = 6 \/ k = 7 \/ k = 8 \/ k = 9
      \/ k = 10 \/ k = 11 \/ k = 12 \/ k = 13 \/ k = 14 \/ k = 15 \/ k = 16 \/ k = 17 \/ k = 18 \/ k = 19
      \/ k = 20 \/ k = 21 \/ k = 22 \/ k = 23 \/ k = 24 \/ k = 25 \/ k = 26 \/ k = 27 \/ k = 28 \/ k = 29
  BY SMT
<1>3. QED
  BY <1>1, <1>2, Powers, SMT

LEMMA PowerSum ==
    ASSUME NEW e \in 0 .. 23, NEW d \in 0 .. 6
    PROVE  Pow2(e + d) = Pow2(d) * Pow2(e)
<1>1. \A k \in 0 .. 29 : Pow2(k + 1) = 2 * Pow2(k) /\ Pow2(k) \in Int
  BY PowerStep
<1>2. /\ Pow2(e) \in Int /\ Pow2(e + 1) = 2 * Pow2(e) /\ Pow2(e + 2) = 4 * Pow2(e)
      /\ Pow2(e + 3) = 8 * Pow2(e)
  BY <1>1, SMT
<1>3. /\ Pow2(e + 4) = 2 * Pow2(e + 3) /\ Pow2(e + 5) = 4 * Pow2(e + 3)
      /\ Pow2(e + 6) = 8 * Pow2(e + 3)
  BY <1>1, SMT
<1>4. \/ d = 0 \/ d = 1 \/ d = 2 \/ d = 3 \/ d = 4 \/ d = 5 \/ d = 6
  BY SMT
<1>5. QED
  BY <1>2, <1>3, <1>4, Powers, SMT

\* The conversions to int8_t and int16_t end in the range, leave what is in it, and
\* a conversion on the way to a sum is absorbed by the one at its end.
LEMMA InInt16 == ASSUME NEW x \in Int, -32768 <= x, x <= 32767 PROVE x \in int16_t
<1>1. PICK lo \in Int : lo = -32768
  BY SMT
<1>2. PICK hi \in Int : hi = 32767
  BY SMT
<1>3. lo <= x /\ x <= hi
  BY <1>1, <1>2, SMT
<1>4. x \in lo .. hi
  BY <1>3, SMT
<1>5. QED
  BY <1>1, <1>2, <1>4, SMT DEF int16_t

LEMMA OfInt16 == ASSUME NEW x \in int16_t PROVE x \in Int /\ -32768 <= x /\ x <= 32767
<1>1. PICK lo \in Int : lo = -32768
  BY SMT
<1>2. PICK hi \in Int : hi = 32767
  BY SMT
<1>3. x \in lo .. hi
  BY <1>1, <1>2 DEF int16_t
<1>4. x \in Int /\ lo <= x /\ x <= hi
  BY <1>3, SMT
<1>5. QED
  BY <1>1, <1>2, <1>4, SMT

LEMMA Range8 == ASSUME NEW x \in Int PROVE Int8(x) \in int8_t
BY SMT DEF Int8, int8_t

LEMMA Range16 == ASSUME NEW x \in Int PROVE Int16(x) \in int16_t
<1>1. Int16(x) \in Int /\ -32768 <= Int16(x) /\ Int16(x) <= 32767
  BY SMT DEF Int16
<1>2. QED
  BY <1>1, InInt16

LEMMA Kept8 == ASSUME NEW x \in Int, -128 <= x, x <= 127 PROVE Int8(x) = x
BY SMT DEF Int8

LEMMA Kept16 == ASSUME NEW x \in int16_t PROVE Int16(x) = x
<1>1. x \in Int /\ -32768 <= x /\ x <= 32767
  BY OfInt16
<1>2. QED
  BY <1>1, SMT DEF Int16

LEMMA Absorbed ==
    ASSUME NEW a \in Int, NEW b \in Int
    PROVE  Int16(a + Int16(b)) = Int16(a + b)
BY SMT DEF Int16

\* The fields of a word that the code takes for numbers with a sign.
LEMMA Nibbles ==
    ASSUME NEW w \in Int
    PROVE  /\ Signed(Bits(w, 3, 0), 8) = Field(w, 3, 0) /\ Field(w, 3, 0) \in -8 .. 7
           /\ Signed(Bits(w, 7, 4), 8) = Field(w, 7, 4) /\ Field(w, 7, 4) \in -8 .. 7
           /\ Signed(Bits(w, 11, 8), 8) = Field(w, 11, 8) /\ Field(w, 11, 8) \in -8 .. 7
           /\ Signed(Bits(w, 15, 12), 8) = Field(w, 15, 12) /\ Field(w, 15, 12) \in -8 .. 7
<1>1. Signed(Bits(w, 3, 0), 8) = Field(w, 3, 0) /\ Field(w, 3, 0) \in -8 .. 7
  BY SMT DEF Signed, Bits, Field
<1>2. Signed(Bits(w, 7, 4), 8) = Field(w, 7, 4) /\ Field(w, 7, 4) \in -8 .. 7
  BY SMT DEF Signed, Bits, Field
<1>3. Signed(Bits(w, 11, 8), 8) = Field(w, 11, 8) /\ Field(w, 11, 8) \in -8 .. 7
  BY SMT DEF Signed, Bits, Field
<1>4. Signed(Bits(w, 15, 12), 8) = Field(w, 15, 12) /\ Field(w, 15, 12) \in -8 .. 7
  BY SMT DEF Signed, Bits, Field
<1>5. QED
  BY <1>1, <1>2, <1>3, <1>4

LEMMA Bytes ==
    ASSUME NEW w \in Int
    PROVE  /\ Signed(Bits(w, 7, 0), 128) = Field(w, 7, 0) /\ Field(w, 7, 0) \in -128 .. 127
           /\ Signed(Bits(w, 15, 8), 128) = Field(w, 15, 8) /\ Field(w, 15, 8) \in -128 .. 127
           /\ Signed(Int8(Bits(w, 7, 0)), 128) = Field(w, 7, 0)
           /\ Signed(Int8(Bits(w, 15, 8)), 128) = Field(w, 15, 8)
<1>1. Signed(Bits(w, 7, 0), 128) = Field(w, 7, 0) /\ Field(w, 7, 0) \in -128 .. 127
  BY SMT DEF Signed, Bits, Field
<1>2. Signed(Bits(w, 15, 8), 128) = Field(w, 15, 8) /\ Field(w, 15, 8) \in -128 .. 127
  BY SMT DEF Signed, Bits, Field
<1>3. Signed(Int8(Bits(w, 7, 0)), 128) = Field(w, 7, 0)
  BY SMT DEF Signed, Bits, Field, Int8
<1>4. Signed(Int8(Bits(w, 15, 8)), 128) = Field(w, 15, 8)
  BY SMT DEF Signed, Bits, Field, Int8
<1>5. QED
  BY <1>1, <1>2, <1>3, <1>4

LEMMA OtherFields ==
    ASSUME NEW w \in Int
    PROVE  /\ Signed(Bits(w, 15, 10), 32) = Field(w, 15, 10) /\ Field(w, 15, 10) \in -32 .. 31
           /\ Signed(Bits(w, 9, 0), 512) = Field(w, 9, 0) /\ Field(w, 9, 0) \in -512 .. 511
           /\ Signed(Bits(w, 9, 4), 32) = Field(w, 9, 4) /\ Field(w, 9, 4) \in -32 .. 31
           /\ Signed(Bits(w, 3, 1), 4) = Field(w, 3, 1) /\ Field(w, 3, 1) \in -4 .. 3
           /\ Int16(w) = Field(w, 15, 0)
<1>1. Signed(Bits(w, 15, 10), 32) = Field(w, 15, 10) /\ Field(w, 15, 10) \in -32 .. 31
  BY SMT DEF Signed, Bits, Field
<1>2. Signed(Bits(w, 9, 0), 512) = Field(w, 9, 0) /\ Field(w, 9, 0) \in -512 .. 511
  BY SMT DEF Signed, Bits, Field
<1>3. Signed(Bits(w, 9, 4), 32) = Field(w, 9, 4) /\ Field(w, 9, 4) \in -32 .. 31
  BY SMT DEF Signed, Bits, Field
<1>4. Signed(Bits(w, 3, 1), 4) = Field(w, 3, 1) /\ Field(w, 3, 1) \in -4 .. 3
  BY SMT DEF Signed, Bits, Field
<1>5. Int16(w) = Field(w, 15, 0)
  BY SMT DEF Int16, Field
<1>6. QED
  BY <1>1, <1>2, <1>3, <1>4, <1>5

\* The nibbles of a line of four per word.
LEMMA NibbleIsField ==
    ASSUME NEW first \in Nat, NEW n \in Nat, ee[first + (n \div 4)] \in Int
    PROVE  Nibble(first, n) = NibbleField(first, n) /\ NibbleField(first, n) \in Int
<1> DEFINE w == ee[first + (n \div 4)]
<1> HIDE DEF w
<1>1. w \in Int
  BY DEF w
<1>2. n % 4 \in {0, 1, 2, 3}
  BY SMT
<1>3. ASSUME NEW r \in {0, 1, 2, 3}
      PROVE  /\ Signed(Bits(w, 4 * r + 3, 4 * r), 8) = Field(w, 4 * r + 3, 4 * r)
             /\ Field(w, 4 * r + 3, 4 * r) \in Int
  <2>1. CASE r = 0
    BY <1>1, <2>1, Nibbles, SMT
  <2>2. CASE r = 1
    BY <1>1, <2>2, Nibbles, SMT
  <2>3. CASE r = 2
    BY <1>1, <2>3, Nibbles, SMT
  <2>4. CASE r = 3
    BY <1>1, <2>4, Nibbles, SMT
  <2>5. QED
    BY <2>1, <2>2, <2>3, <2>4
<1>4. QED
  BY <1>2, <1>3 DEF Nibble, NibbleField, w

\* The place of a pixel in the array, and its words in the image.
LEMMA Places ==
    ASSUME NEW p \in Pixels
    PROVE  /\ p \in Nat /\ Row(p) \in 0 .. 23 /\ Col(p) \in 0 .. 31
           /\ p + 64 <= 63 + Rows * Cols
<1>1. Rows \in 1 .. 24 /\ Cols \in 1 .. 32
  BY SizeAssumption
<1>2. p \in Nat /\ p < Rows * Cols
  BY <1>1, SMT DEF Pixels
<1>3. Col(p) \in 0 .. 31
  BY <1>1, <1>2, SMT DEF Col
<1>4. p = Cols * (p \div Cols) + (p % Cols) /\ p \div Cols \in Nat /\ p % Cols \in 0 .. Cols - 1
  BY <1>1, <1>2, SMT
<1>5. p \div Cols < Rows
  <2>1. SUFFICES ASSUME p \div Cols >= Rows PROVE FALSE
    BY <1>1, <1>4, SMT
  <2>2. Cols * (p \div Cols) >= Cols * Rows
    BY <1>1, <1>4, <2>1, SMT
  <2>3. QED
    BY <1>1, <1>2, <1>4, <2>2, SMT
<1>6. Row(p) \in 0 .. 23
  <2>1. \A r \in Nat : r < Rows => r \in 0 .. 23
    BY <1>1, SMT
  <2>2. QED
    BY <1>4, <1>5, <2>1 DEF Row
<1>7. QED
  BY <1>1, <1>2, <1>3, <1>6, SMT

\* The words of the image that the functions read.
LEMMA Words ==
    ASSUME ee \in Image
    PROVE  /\ \A w \in 0 .. 63 : ee[w] \in Word
           /\ \A p \in Pixels : ee[64 + p] \in Word
           /\ \A p \in Pixels : ee[18 + (Row(p) \div 4)] \in Int /\ ee[24 + (Col(p) \div 4)] \in Int
           /\ \A p \in Pixels : ee[34 + (Row(p) \div 4)] \in Int /\ ee[40 + (Col(p) \div 4)] \in Int
           /\ \A w \in Word : w \in Int
<1>1. \A w \in 0 .. 63 + Rows * Cols : ee[w] \in Word
  BY DEF Image
<1>2. Rows \in Nat /\ Cols \in Nat /\ Rows * Cols \in Nat
  BY SizeAssumption, SMT
<1>3. \A w \in 0 .. 63 : w \in 0 .. 63 + Rows * Cols
  BY <1>2, SMT
<1>4. \A w \in 0 .. 63 : ee[w] \in Word
  BY <1>1, <1>3
<1>5. \A w \in Word : w \in Int
  BY SMT DEF Word
<1>6. ASSUME NEW p \in Pixels
      PROVE  /\ 64 + p \in 0 .. 63 + Rows * Cols
             /\ 18 + (Row(p) \div 4) \in 0 .. 63 /\ 24 + (Col(p) \div 4) \in 0 .. 63
             /\ 34 + (Row(p) \div 4) \in 0 .. 63 /\ 40 + (Col(p) \div 4) \in 0 .. 63
  BY <1>2, Places, SMT
<1>7. QED
  BY <1>1, <1>4, <1>5, <1>6

\* The fields that hold exponents.
LEMMA Exponents ==
    ASSUME NEW w \in Int
    PROVE  /\ Bits(w, 3, 0) \in 0 .. 15 /\ Bits(w, 7, 4) \in 0 .. 15
           /\ Bits(w, 11, 8) \in 0 .. 15 /\ Bits(w, 15, 12) \in 0 .. 15
           /\ Bits(w, 13, 12) \in 0 .. 3
<1>1. Bits(w, 3, 0) \in 0 .. 15
  BY SMT DEF Bits
<1>2. Bits(w, 7, 4) \in 0 .. 15
  BY SMT DEF Bits
<1>3. Bits(w, 11, 8) \in 0 .. 15
  BY SMT DEF Bits
<1>4. Bits(w, 15, 12) \in 0 .. 15
  BY SMT DEF Bits
<1>5. Bits(w, 13, 12) \in 0 .. 3
  BY SMT DEF Bits
<1>6. QED
  BY <1>1, <1>2, <1>3, <1>4, <1>5

\* The offset that ExtractOffsetParameters stores is the exact sum whenever that fits
\* into the int16_t.
LEMMA OffsetLemma ==
    ASSUME ee \in Image, NEW p \in Pixels
    PROVE  /\ Offset(p) \in int16_t
           /\ TrueOffset(p) \in int16_t => Offset(p) = TrueOffset(p)
<1> DEFINE row == NibbleField(18, Row(p)) * Pow2(Bits(ee[16], 11, 8))
           col == NibbleField(24, Col(p)) * Pow2(Bits(ee[16], 7, 4))
           own == Field(ee[64 + p], 15, 10) * Pow2(Bits(ee[16], 3, 0))
           ref == Field(ee[17], 15, 0)
<1>1. ee[16] \in Int /\ ee[17] \in Int /\ ee[64 + p] \in Int
  BY Words
<1>2. /\ Nibble(18, Row(p)) = NibbleField(18, Row(p)) /\ NibbleField(18, Row(p)) \in Int
      /\ Nibble(24, Col(p)) = NibbleField(24, Col(p)) /\ NibbleField(24, Col(p)) \in Int
  <2>1. Row(p) \in Nat /\ Col(p) \in Nat
    BY Places, SMT
  <2>2. ee[18 + (Row(p) \div 4)] \in Int /\ ee[24 + (Col(p) \div 4)] \in Int
    BY Words
  <2>3. 18 \in Nat /\ 24 \in Nat
    OBVIOUS
  <2>4. QED
    BY <2>1, <2>2, <2>3, NibbleIsField
<1>3. Pow2(Bits(ee[16], 11, 8)) \in Int /\ Pow2(Bits(ee[16], 7, 4)) \in Int /\ Pow2(Bits(ee[16], 3, 0)) \in Int
  BY <1>1, Exponents, PowerInt
<1>4. /\ Int16(ee[17]) = ref /\ ref \in Int
      /\ Signed(Bits(ee[64 + p], 15, 10), 32) = Field(ee[64 + p], 15, 10)
      /\ Field(ee[64 + p], 15, 10) \in Int
  <2>1. Int16(ee[17]) = ref
    BY <1>1, OtherFields
  <2>2. Int16(ee[17]) \in Int
    BY <1>1, SMT DEF Int16
  <2>3. Field(ee[64 + p], 15, 10) \in -32 .. 31
    BY <1>1, OtherFields
  <2>4. Field(ee[64 + p], 15, 10) \in Int
    BY <2>3, SMT
  <2>5. QED
    BY <1>1, <2>1, <2>2, <2>4, OtherFields
<1>5. row \in Int /\ col \in Int /\ own \in Int
  BY <1>2, <1>3, <1>4, SMT
<1>6. Offset(p) = Int16(ref + row + col + Int16(own))
  BY <1>2, <1>4 DEF Offset
<1>7. TrueOffset(p) = ref + row + col + own
  BY DEF TrueOffset
<1> HIDE DEF row, col, own, ref
<1>8. ref + row + col \in Int /\ ref + row + col + own \in Int
  BY <1>4, <1>5, SMT
<1>9. Offset(p) = Int16(ref + row + col + own)
  BY <1>5, <1>6, <1>8, Absorbed
<1> DEFINE sum == ref + row + col + own
<1>10. sum \in Int /\ Offset(p) = Int16(sum) /\ TrueOffset(p) = sum
  BY <1>7, <1>8, <1>9
<1> HIDE DEF sum
<1>11. Int16(sum) \in int16_t
  BY <1>10, Range16
<1>12. sum \in int16_t => Int16(sum) = sum
  BY <1>10, Kept16
<1>13. QED
  BY <1>10, <1>11, <1>12, Zenon
-----------------------------------------------------------------------------
(* The order of the calls.                                                 *)

\* The call at the head of the list is over; no other changes its state.
LEMMA Returned ==
    ASSUME InOrder, todo # <<>>, todo' = Tail(todo)
    PROVE  /\ InOrder'
           /\ \A f : Extracted(f)' => Extracted(f) \/ Head(todo) = f
<1>1. todo \in Seq(Extractors) /\ Len(todo) \in Nat /\ Len(todo) <= 13
  BY DEF InOrder
<1>2. /\ todo' \in Seq(Extractors) /\ Len(todo') = Len(todo) - 1 /\ Len(todo) > 0
      /\ \A n \in 1 .. Len(todo) - 1 : todo'[n] = todo[n + 1]
      /\ Head(todo) = todo[1]
  BY <1>1, SMT
<1>3. InOrder'
  <2>1. Len(todo') <= 13
    BY <1>1, <1>2, SMT
  <2>2. ASSUME NEW n \in 1 .. Len(todo')
        PROVE  todo'[n] = Order[13 - Len(todo') + n]
    <3>1. n + 1 \in 1 .. Len(todo) /\ n \in 1 .. Len(todo) - 1
      BY <1>1, <1>2, SMT
    <3>2. todo'[n] = Order[13 - Len(todo) + (n + 1)]
      BY <1>2, <3>1 DEF InOrder
    <3>3. 13 - Len(todo) + (n + 1) = 13 - Len(todo') + n
      BY <1>1, <1>2, <3>1, SMT
    <3>4. QED
      BY <3>2, <3>3
  <2>3. QED
    BY <1>2, <2>1, <2>2 DEF InOrder
<1>4. ASSUME NEW f, Extracted(f)', Head(todo) # f
      PROVE  Extracted(f)
  <2>1. SUFFICES ASSUME NEW n \in 1 .. Len(todo) PROVE todo[n] # f
    BY DEF Extracted
  <2>2. CASE n = 1
    BY <1>2, <1>4, <2>2
  <2>3. CASE n # 1
    <3>1. n - 1 \in 1 .. Len(todo) - 1 /\ n - 1 \in 1 .. Len(todo') /\ (n - 1) + 1 = n
      BY <1>1, <1>2, <2>3, SMT
    <3>2. todo'[n - 1] # f
      BY <1>4, <3>1 DEF Extracted
    <3>3. QED
      BY <1>2, <3>1, <3>2
  <2>4. QED
    BY <2>2, <2>3
<1>5. QED
  BY <1>3, <1>4

\* The sensitivities are extracted after the compensation pixel and its weight.
LEMMA AlphaAfterCP ==
    ASSUME InOrder, todo # <<>>, Head(todo) = "Alpha"
    PROVE  Extracted("Tgc") /\ Extracted("CP")
<1>1. todo \in Seq(Extractors) /\ Len(todo) \in Nat /\ Len(todo) <= 13
  BY DEF InOrder
<1>2. Head(todo) = todo[1] /\ Len(todo) > 0
  BY <1>1, SMT
<1>3. PICK k \in Nat : k = Len(todo) /\ k > 0 /\ k <= 13
  BY <1>1, <1>2, SMT
<1>4. Order[13 - k + 1] = "Alpha"
  <2>1. 1 \in 1 .. Len(todo)
    BY <1>3, SMT
  <2>2. QED
    BY <1>2, <1>3, <2>1 DEF InOrder
<1>5. k = 5
  <2>1. 13 - k + 1 \in 1 .. 13
    BY <1>3, SMT
  <2>2. \A n \in 1 .. 13 : Order[n] = "Alpha" => n = 9
    BY SMT DEF Order
  <2>3. 13 - k + 1 = 9
    BY <1>4, <2>1, <2>2
  <2>4. QED
    BY <1>3, <2>3, SMT
<1>6. \A n \in 1 .. Len(todo) : n \in 1 .. 5 /\ todo[n] = Order[8 + n]
  <2>1. \A n \in 1 .. 5 : 13 - k + n = 8 + n
    BY <1>5, SMT
  <2>2. QED
    BY <1>3, <1>5, <2>1 DEF InOrder
<1>7. \A n \in 1 .. 5 : Order[8 + n] # "Tgc" /\ Order[8 + n] # "CP"
  BY SMT DEF Order
<1>8. QED
  BY <1>6, <1>7 DEF Extracted

(* What the functions compute.                                             *)

\* A sensitivity that is a uint16_t, or not defined.
LEMMA AlphaRange ==
    /\ \A x \in Word : x \in Undefined .. 65535
    /\ 0 \in Undefined .. 65535 /\ Undefined \in Undefined .. 65535
<1>1. PICK hi \in Int : hi = 65535
  BY SMT
<1>2. PICK lo \in Int : lo = -1
  BY SMT
<1>3. ASSUME NEW x \in Word PROVE x \in 0 .. hi
  BY <1>1, <1>3 DEF Word
<1>4. ASSUME NEW x \in Int, lo <= x, x <= hi PROVE x \in Undefined .. 65535
  <2>1. x \in lo .. hi
    BY <1>4, SMT
  <2>2. QED
    BY <1>1, <1>2, <2>1, SMT DEF Undefined
<1>5. ASSUME NEW x \in Word PROVE x \in Undefined .. 65535
  <2>1. x \in Int /\ lo <= x /\ x <= hi
    BY <1>2, <1>3, SMT
  <2>2. QED
    BY <1>4, <2>1
<1>6. lo <= 0 /\ 0 <= hi /\ lo <= hi /\ Undefined = lo /\ 0 \in Int
  BY <1>1, <1>2, SMT DEF Undefined
<1>7. 0 \in Undefined .. 65535
  BY <1>4, <1>6
<1>8. Undefined \in Undefined .. 65535
  BY <1>1, <1>2, <1>4, <1>6
<1>9. QED
  BY <1>5, <1>7, <1>8

\* The sensitivity of a pixel, when tgc and cpAlpha are those of this image.
LEMMA AlphaLemma ==
    ASSUME ee \in Image, NEW p \in Pixels,
           FieldsSet, Extracted("Tgc"), Extracted("CP")
    PROVE  Sensitivity(p) = TrueSensitivity(p)
<1>1. ee[32] \in Int /\ ee[33] \in Int /\ ee[57] \in Int /\ ee[60] \in Int /\ ee[64 + p] \in Int
  BY Words
<1>2. Nibble(34, Row(p)) = NibbleField(34, Row(p)) /\ Nibble(40, Col(p)) = NibbleField(40, Col(p))
  <2>1. Row(p) \in Nat /\ Col(p) \in Nat /\ 34 \in Nat /\ 40 \in Nat
    BY Places, SMT
  <2>2. ee[34 + (Row(p) \div 4)] \in Int /\ ee[40 + (Col(p) \div 4)] \in Int
    BY Words
  <2>3. QED
    BY <2>1, <2>2, NibbleIsField
<1>3. AlphaSum(p) = ee[33] + NibbleField(34, Row(p)) * Pow2(Bits(ee[32], 11, 8))
                    + NibbleField(40, Col(p)) * Pow2(Bits(ee[32], 7, 4))
                    + Field(ee[64 + p], 9, 4) * Pow2(Bits(ee[32], 3, 0))
  BY <1>1, <1>2, OtherFields DEF AlphaSum
<1>4. PICK t \in Int, a \in Int, r \in Int :
          t = Field(ee[60], 7, 0) /\ a = Field(ee[57], 9, 0) /\ r = Field(ee[57], 15, 10)
  <2>1. Field(ee[60], 7, 0) \in -128 .. 127
    BY <1>1, Bytes
  <2>2. Field(ee[57], 9, 0) \in Int
    BY <1>1, SMT DEF Field
  <2>3. Field(ee[57], 15, 10) \in -32 .. 31
    BY <1>1, OtherFields
  <2>4. Field(ee[60], 7, 0) \in Int /\ Field(ee[57], 9, 0) \in Int /\ Field(ee[57], 15, 10) \in Int
    BY <2>1, <2>2, <2>3, SMT
  <2>5. QED
    BY <2>4
<1>5. params.tgc = t /\ params.cpAlpha[1] = 128 * a /\ params.cpAlpha[2] = (128 + r) * a
  BY <1>1, <1>4, Bytes, OtherFields DEF FieldsSet
<1>6. t * (128 * a + (128 + r) * a) = t * a * (256 + r)
  BY SMT
<1>7. QED
  BY <1>3, <1>4, <1>5, <1>6 DEF Sensitivity, TrueSensitivity
-----------------------------------------------------------------------------
(* Types.                                                                  *)

\* The fields with a sign lie in their types.
LEMMA FieldTypes ==
    ASSUME NEW w \in Int
    PROVE  /\ Signed(Bits(w, 15, 8), 128) \in int8_t /\ Signed(Bits(w, 7, 0), 128) \in int8_t
           /\ Signed(Bits(w, 15, 10), 32) \in -32 .. 31
           /\ Signed(Bits(w, 5, 0), 32) \in -32 .. 31
           /\ Signed(Bits(w, 10, 6), 16) \in -32 .. 31
           /\ Signed(Bits(w, 15, 11), 16) \in -32 .. 31
           /\ 128 - 128 * Bits(w, 11, 11) \in {0, 128}
<1>1. Signed(Bits(w, 15, 8), 128) \in int8_t
  BY SMT DEF Signed, Bits, int8_t
<1>2. Signed(Bits(w, 7, 0), 128) \in int8_t
  BY SMT DEF Signed, Bits, int8_t
<1>3. Signed(Bits(w, 15, 10), 32) \in -32 .. 31
  BY SMT DEF Signed, Bits
<1>4. Signed(Bits(w, 5, 0), 32) \in -32 .. 31
  BY SMT DEF Signed, Bits
<1>5. Signed(Bits(w, 10, 6), 16) \in -32 .. 31
  BY SMT DEF Signed, Bits
<1>6. Signed(Bits(w, 15, 11), 16) \in -32 .. 31
  BY SMT DEF Signed, Bits
<1>7. 128 - 128 * Bits(w, 11, 11) \in {0, 128}
  <2>1. Bits(w, 11, 11) \in {0, 1}
    BY SMT DEF Bits
  <2>2. QED
    BY <2>1, SMT
<1>8. QED
  BY <1>1, <1>2, <1>3, <1>4, <1>5, <1>6, <1>7

LEMMA TenBits ==
    ASSUME NEW w \in Int
    PROVE  /\ Signed(Bits(w, 9, 0), 512) \in -512 .. 511
           /\ Signed(Bits(w, 9, 0), 512) \in int16_t
           /\ Signed(Bits(w, 9, 0), 512) \in Int
<1>1. PICK lo \in Int : lo = -512
  BY SMT
<1>2. PICK hi \in Int : hi = 511
  BY SMT
<1>3. PICK x \in Int : x = Signed(Bits(w, 9, 0), 512) /\ -512 <= x /\ x <= 511
  BY SMT DEF Signed, Bits
<1>4. x \in lo .. hi
  BY <1>1, <1>2, <1>3, SMT
<1>5. x \in int16_t
  <2>1. -32768 <= x /\ x <= 32767
    BY <1>3, SMT
  <2>2. QED
    BY <2>1, InInt16
<1>6. x \in -512 .. 511
  BY <1>1, <1>2, <1>4, SMT
<1>7. QED
  BY <1>3, <1>5, <1>6

\* The conversions to and from the 16 bits of a word.
LEMMA WordTypes ==
    ASSUME NEW w \in Int
    PROVE  Int16(w) % 65536 \in Word /\ Signed(Int16(w), 32768) \in int16_t
<1>1. PICK hi \in Int : hi = 65535
  BY SMT
<1>2. PICK x \in Int : x = Int16(w) % 65536 /\ 0 <= x /\ x <= 65535
  BY SMT DEF Int16
<1>3. x \in 0 .. hi
  <2>1. x <= hi
    BY <1>1, <1>2, SMT
  <2>2. QED
    BY <1>2, <2>1, SMT
<1>4. x \in Word
  BY <1>1, <1>3 DEF Word
<1>5. Signed(Int16(w), 32768) = Int16(w)
  BY SMT DEF Signed, Int16
<1>6. QED
  BY <1>2, <1>4, <1>5, Range16

\* A structure with one field replaced.
LEMMA OneField ==
    ASSUME NEW r \in Params
    PROVE  /\ \A x \in int16_t : [r EXCEPT !.kVdd = x] \in Params
           /\ \A x \in int16_t : [r EXCEPT !.vdd25 = x] \in Params
           /\ \A x \in -32 .. 31 : [r EXCEPT !.KvPTAT = x] \in Params
           /\ \A x \in -512 .. 511 : [r EXCEPT !.KtPTAT = x] \in Params
           /\ \A x \in Word : [r EXCEPT !.vPTAT25 = x] \in Params
           /\ \A x \in 0 .. 47 : [r EXCEPT !.alphaPTAT = x] \in Params
           /\ \A x \in [1 .. 5 -> int16_t] : [r EXCEPT !.ct = x] \in Params
           /\ \A x \in [1 .. 4 -> int8_t] : [r EXCEPT !.ksTo = x] \in Params
           /\ \A x \in 0 .. 23 : [r EXCEPT !.KsToScale = x] \in Params
           /\ \A x \in [1 .. 2 -> int16_t] : [r EXCEPT !.cpOffset = x] \in Params
           /\ \A x \in [1 .. 2 -> Int] : [r EXCEPT !.cpAlpha = x] \in Params
           /\ \A x \in int8_t : [r EXCEPT !.cpKta = x] \in Params
           /\ \A x \in int8_t : [r EXCEPT !.cpKv = x] \in Params
           /\ \A x \in {0, 128} : [r EXCEPT !.calibrationModeEE = x] \in Params
           /\ \A x \in [1 .. 3 -> -32 .. 31] : [r EXCEPT !.ilChessC = x] \in Params
<1>1. \A x \in int16_t : [r EXCEPT !.kVdd = x] \in Params
  BY SMT DEF Params
<1>2. \A x \in int16_t : [r EXCEPT !.vdd25 = x] \in Params
  BY SMT DEF Params
<1>3. \A x \in -32 .. 31 : [r EXCEPT !.KvPTAT = x] \in Params
  BY SMT DEF Params
<1>4. \A x \in -512 .. 511 : [r EXCEPT !.KtPTAT = x] \in Params
  BY SMT DEF Params
<1>5. \A x \in Word : [r EXCEPT !.vPTAT25 = x] \in Params
  BY SMT DEF Params
<1>6. \A x \in 0 .. 47 : [r EXCEPT !.alphaPTAT = x] \in Params
  BY SMT DEF Params
<1>7. \A x \in [1 .. 5 -> int16_t] : [r EXCEPT !.ct = x] \in Params
  BY SMT DEF Params
<1>8. \A x \in [1 .. 4 -> int8_t] : [r EXCEPT !.ksTo = x] \in Params
  BY SMT DEF Params
<1>9. \A x \in 0 .. 23 : [r EXCEPT !.KsToScale = x] \in Params
  BY SMT DEF Params
<1>10. \A x \in [1 .. 2 -> int16_t] : [r EXCEPT !.cpOffset = x] \in Params
  BY SMT DEF Params
<1>11. \A x \in [1 .. 2 -> Int] : [r EXCEPT !.cpAlpha = x] \in Params
  BY SMT DEF Params
<1>12. \A x \in int8_t : [r EXCEPT !.cpKta = x] \in Params
  BY SMT DEF Params
<1>13. \A x \in int8_t : [r EXCEPT !.cpKv = x] \in Params
  BY SMT DEF Params
<1>14. \A x \in {0, 128} : [r EXCEPT !.calibrationModeEE = x] \in Params
  BY SMT DEF Params
<1>15. \A x \in [1 .. 3 -> -32 .. 31] : [r EXCEPT !.ilChessC = x] \in Params
  BY SMT DEF Params
<1>16. QED
  BY <1>1, <1>2, <1>3, <1>4, <1>5, <1>6, <1>7, <1>8, <1>9, <1>10, <1>11, <1>12, <1>13, <1>14, <1>15

\* A function that only sets fields keeps the type of the structure.
LEMMA SetsTyped ==
    ASSUME ee \in Image, params \in Params,
           \/ ExtractVDDParameters \/ ExtractPTATParameters \/ ExtractGainParameters
           \/ ExtractTgcParameters \/ ExtractResolutionParameters \/ ExtractKsTaParameters
           \/ ExtractKsToParameters \/ ExtractCPParameters \/ ExtractCILCParameters
    PROVE  params' \in Params
<1>1. \A w \in 0 .. 63 : ee[w] \in Int
  BY Words
<1>2. /\ ee[10] \in Int /\ ee[16] \in Int /\ ee[48] \in Int /\ ee[49] \in Int /\ ee[50] \in Int
      /\ ee[51] \in Int /\ ee[53] \in Int /\ ee[56] \in Int /\ ee[57] \in Int /\ ee[58] \in Int
      /\ ee[59] \in Int /\ ee[60] \in Int /\ ee[61] \in Int /\ ee[62] \in Int /\ ee[63] \in Int
  BY <1>1, SMT
<1>3. CASE ExtractVDDParameters
  <2>1. 32 * Signed(Bits(ee[51], 15, 8), 128) \in Int /\ (Bits(ee[51], 7, 0) - 256) * 32 - 8192 \in Int
    BY <1>2, SMT DEF Signed, Bits
  <2> DEFINE x == Int16(32 * Signed(Bits(ee[51], 15, 8), 128))
             y == Int16((Bits(ee[51], 7, 0) - 256) * 32 - 8192)
             r == [params EXCEPT !.kVdd = x]
  <2>2. x \in int16_t /\ y \in int16_t
    BY <2>1, Range16
  <2>3. params' = [params EXCEPT !.kVdd = x, !.vdd25 = y]
    BY <1>3 DEF ExtractVDDParameters, Sets
  <2> HIDE DEF x, y
  <2>4. params' = [r EXCEPT !.vdd25 = y]
    BY <2>3, SMT DEF Params
  <2>5. r \in Params
    BY <2>2, OneField
  <2> HIDE DEF r
  <2>6. QED
    BY <2>2, <2>4, <2>5, OneField
<1>4. CASE ExtractPTATParameters
  <2>1. Signed(Bits(ee[50], 15, 10), 32) \in -32 .. 31
    BY <1>2, FieldTypes
  <2>2. Signed(Bits(ee[50], 9, 0), 512) \in -512 .. 511
    BY <1>2, TenBits
  <2>3. Int16(ee[49]) % 65536 \in Word
    BY <1>2, WordTypes
  <2>4. Bits(ee[16], 15, 12) + 32 \in 0 .. 47
    BY <1>2, SMT DEF Bits
  <2> DEFINE x == Signed(Bits(ee[50], 15, 10), 32)
             y == Signed(Bits(ee[50], 9, 0), 512)
             z == Int16(ee[49]) % 65536
             w == Bits(ee[16], 15, 12) + 32
             r1 == [params EXCEPT !.KvPTAT = x]
             r2 == [r1 EXCEPT !.KtPTAT = y]
             r3 == [r2 EXCEPT !.vPTAT25 = z]
  <2>5. params' = [params EXCEPT !.KvPTAT = x, !.KtPTAT = y, !.vPTAT25 = z, !.alphaPTAT = w]
    BY <1>4 DEF ExtractPTATParameters, Sets
  <2>6. x \in -32 .. 31 /\ y \in -512 .. 511 /\ z \in Word /\ w \in 0 .. 47
    BY <2>1, <2>2, <2>3, <2>4
  <2> HIDE DEF x, y, z, w
  <2>7. params' = [r3 EXCEPT !.alphaPTAT = w]
    BY <2>5, SMT DEF Params
  <2>8. r1 \in Params
    BY <2>6, OneField
  <2> HIDE DEF r1
  <2>9. r2 \in Params
    BY <2>6, <2>8, OneField
  <2> HIDE DEF r2
  <2>10. r3 \in Params
    BY <2>6, <2>9, OneField
  <2> HIDE DEF r3
  <2>11. QED
    BY <2>6, <2>7, <2>10, OneField
<1>5. CASE ExtractGainParameters
  <2>1. Signed(Int16(ee[48]), 32768) \in int16_t
    BY <1>2, WordTypes
  <2>2. QED
    BY <1>5, <2>1 DEF ExtractGainParameters, Sets, Params
<1>6. CASE ExtractTgcParameters
  <2>1. Signed(Bits(ee[60], 7, 0), 128) \in int8_t
    BY <1>2, FieldTypes
  <2>2. QED
    BY <1>6, <2>1 DEF ExtractTgcParameters, Sets, Params
<1>7. CASE ExtractResolutionParameters
  <2>1. Bits(ee[56], 13, 12) \in 0 .. 3
    BY <1>2, Exponents
  <2>2. QED
    BY <1>7, <2>1 DEF ExtractResolutionParameters, Sets, Params
<1>8. CASE ExtractKsTaParameters
  <2>1. Signed(Bits(ee[60], 15, 8), 128) \in int8_t
    BY <1>2, FieldTypes
  <2>2. QED
    BY <1>8, <2>1 DEF ExtractKsTaParameters, Sets, Params
<1>9. CASE ExtractKsToParameters
  <2> DEFINE step == Int8(Bits(ee[63], 13, 12) * 10)
             ct2 == Bits(ee[63], 7, 4) * step
             ct3 == ct2 + Bits(ee[63], 11, 8) * step
             k(w, hi, lo) == Signed(Bits(ee[w], hi, lo), 128)
  <2>1. ct2 \in Int /\ ct3 \in Int
    <3>1. Bits(ee[63], 13, 12) \in Int /\ Bits(ee[63], 7, 4) \in Int /\ Bits(ee[63], 11, 8) \in Int
      BY <1>2, SMT DEF Bits
    <3>2. step \in Int
      BY <3>1, SMT DEF Int8
    <3> HIDE DEF step
    <3>3. QED
      BY <3>1, <3>2, SMT
  <2> HIDE DEF ct2, ct3
  <2>2. Int16(ct2) \in int16_t /\ Int16(ct3) \in int16_t
    BY <2>1, Range16
  <2>3. -40 \in int16_t /\ 0 \in int16_t /\ 400 \in int16_t
    BY InInt16
  <2>4. <<-40, 0, Int16(ct2), Int16(ct3), 400>> \in [1 .. 5 -> int16_t]
    BY <2>2, <2>3
  <2>5. k(61, 7, 0) \in int8_t /\ k(61, 15, 8) \in int8_t /\ k(62, 7, 0) \in int8_t /\ k(62, 15, 8) \in int8_t
    BY <1>2, FieldTypes
  <2> HIDE DEF k
  <2>6. <<k(61, 7, 0), k(61, 15, 8), k(62, 7, 0), k(62, 15, 8)>> \in [1 .. 4 -> int8_t]
    BY <2>5
  <2>7. Bits(ee[63], 3, 0) + 8 \in 0 .. 23
    BY <1>2, SMT DEF Bits
  <2>8. params' = [params EXCEPT
            !.ct = <<-40, 0, Int16(ct2), Int16(ct3), 400>>,
            !.KsToScale = Bits(ee[63], 3, 0) + 8,
            !.ksTo = <<k(61, 7, 0), k(61, 15, 8), k(62, 7, 0), k(62, 15, 8)>>]
    BY <1>9 DEF ExtractKsToParameters, Sets, ct2, ct3, k
  <2> DEFINE x == <<-40, 0, Int16(ct2), Int16(ct3), 400>>
             y == Bits(ee[63], 3, 0) + 8
             z == <<k(61, 7, 0), k(61, 15, 8), k(62, 7, 0), k(62, 15, 8)>>
             r1 == [params EXCEPT !.ct = x]
             r2 == [r1 EXCEPT !.KsToScale = y]
  <2>9. x \in [1 .. 5 -> int16_t] /\ y \in 0 .. 23 /\ z \in [1 .. 4 -> int8_t]
    BY <2>4, <2>6, <2>7
  <2>10. params' = [params EXCEPT !.ct = x, !.KsToScale = y, !.ksTo = z]
    BY <2>8
  <2> HIDE DEF x, y, z
  <2>11. params' = [r2 EXCEPT !.ksTo = z]
    BY <2>10, SMT DEF Params
  <2>12. r1 \in Params
    BY <2>9, OneField
  <2> HIDE DEF r1
  <2>13. r2 \in Params
    BY <2>9, <2>12, OneField
  <2> HIDE DEF r2
  <2>14. QED
    BY <2>9, <2>11, <2>13, OneField
<1>10. CASE ExtractCPParameters
  <2> DEFINE offset0 == Signed(Bits(ee[58], 9, 0), 512)
             offset1 == Int16(Signed(Bits(ee[58], 15, 10), 32) + offset0)
             alpha0 == Signed(Bits(ee[57], 9, 0), 512)
             ratio == Signed(Bits(ee[57], 15, 10), 32)
             kta0 == Signed(Bits(ee[59], 7, 0), 128)
             kv0 == Signed(Bits(ee[59], 15, 8), 128)
  <2>1. offset0 \in int16_t /\ offset0 \in Int
    BY <1>2, TenBits
  <2>2. offset1 \in int16_t
    <3>1. Signed(Bits(ee[58], 15, 10), 32) \in Int
      BY <1>2, SMT DEF Signed, Bits
    <3>2. Signed(Bits(ee[58], 15, 10), 32) + offset0 \in Int
      BY <2>1, <3>1, SMT
    <3>3. QED
      BY <3>2, Range16
  <2>3. alpha0 \in Int /\ ratio \in Int
    BY <1>2, SMT DEF Signed, Bits
  <2>4. kta0 \in int8_t /\ kv0 \in int8_t
    BY <1>2, FieldTypes
  <2>5. params' = [params EXCEPT !.cpOffset = <<offset0, offset1>>,
                                 !.cpAlpha = <<128 * alpha0, (128 + ratio) * alpha0>>,
                                 !.cpKta = kta0, !.cpKv = kv0]
    BY <1>10 DEF ExtractCPParameters, Sets
  <2> HIDE DEF offset0, offset1, alpha0, ratio, kta0, kv0
  <2>6. 128 * alpha0 \in Int /\ (128 + ratio) * alpha0 \in Int
    BY <2>3, SMT
  <2>7. <<offset0, offset1>> \in [1 .. 2 -> int16_t]
    BY <2>1, <2>2
  <2>8. <<128 * alpha0, (128 + ratio) * alpha0>> \in [1 .. 2 -> Int]
    BY <2>6
  <2> DEFINE x == <<offset0, offset1>>
             y == <<128 * alpha0, (128 + ratio) * alpha0>>
             r1 == [params EXCEPT !.cpOffset = x]
             r2 == [r1 EXCEPT !.cpAlpha = y]
             r3 == [r2 EXCEPT !.cpKta = kta0]
  <2>9. params' = [params EXCEPT !.cpOffset = x, !.cpAlpha = y, !.cpKta = kta0, !.cpKv = kv0]
    BY <2>5
  <2>10. x \in [1 .. 2 -> int16_t] /\ y \in [1 .. 2 -> Int]
    BY <2>7, <2>8
  <2> HIDE DEF x, y
  <2>11. params' = [r3 EXCEPT !.cpKv = kv0]
    BY <2>9, SMT DEF Params
  <2>12. r1 \in Params
    BY <2>10, OneField
  <2> HIDE DEF r1
  <2>13. r2 \in Params
    BY <2>10, <2>12, OneField
  <2> HIDE DEF r2
  <2>14. r3 \in Params
    BY <2>4, <2>13, OneField
  <2> HIDE DEF r3
  <2>15. QED
    BY <2>4, <2>11, <2>14, OneField
<1>11. CASE ExtractCILCParameters
  <2> DEFINE a == Signed(Bits(ee[53], 5, 0), 32)
             b == Signed(Bits(ee[53], 10, 6), 16)
             c == Signed(Bits(ee[53], 15, 11), 16)
             m == 128 - 128 * Bits(ee[10], 11, 11)
  <2>1. a \in -32 .. 31 /\ b \in -32 .. 31 /\ c \in -32 .. 31 /\ m \in {0, 128}
    BY <1>2, FieldTypes
  <2>2. params' = [params EXCEPT !.calibrationModeEE = m, !.ilChessC = <<a, b, c>>]
    BY <1>11 DEF ExtractCILCParameters, Sets
  <2> HIDE DEF a, b, c, m
  <2>3. <<a, b, c>> \in [1 .. 3 -> -32 .. 31]
    BY <2>1
  <2> DEFINE r == [params EXCEPT !.calibrationModeEE = m]
  <2>4. params' = [r EXCEPT !.ilChessC = <<a, b, c>>]
    BY <2>2, SMT DEF Params
  <2>5. r \in Params
    BY <2>1, OneField
  <2> HIDE DEF r
  <2>6. QED
    BY <2>3, <2>4, <2>5, OneField
<1>12. QED
  BY <1>3, <1>4, <1>5, <1>6, <1>7, <1>8, <1>9, <1>10, <1>11
-----------------------------------------------------------------------------
(* Scaling of the coefficients.                                            *)

LEMMA Cancel ==
    ASSUME NEW a \in Int, NEW b \in Int, NEW x \in Int, x > 0
    PROVE  (a * x < b * x => a < b) /\ (a * x <= b * x => a <= b)
<1>1. a >= b => a * x >= b * x
  BY SMT
<1>2. a > b => a * x > b * x
  BY SMT
<1>3. a * x \in Int /\ b * x \in Int
  BY SMT
<1>4. QED
  BY <1>1, <1>2, <1>3, SMT

\* A coefficient n, the largest of which has the magnitude m, scaled by 2^s / 2^e and
\* rounded: no more than half a unit is lost, nothing wraps, and the largest one uses
\* the range.
LEMMA ScaledLemma ==
    ASSUME NEW n \in Int, NEW m \in Nat, NEW s \in Nat, NEW e \in 0 .. 23, s <= e + 6,
           -256 <= n, n <= 223, m <= 256, n <= m, -n <= m,
           64 * Pow2(e) <= m * Pow2(s), m * Pow2(s) < 128 * Pow2(e),
           NEW value,
           value = IF s >= e THEN Int8(n * Pow2(s - e)) ELSE Rounded(n, e - s)
    PROVE  /\ value \in Int
           /\ Abs(value * Pow2(e) - n * Pow2(s)) <= Pow2(e) \div 2
           /\ Abs(n) = m => Abs(value) >= 64
<1>1. s \in 0 .. 29 /\ e \in 0 .. 29
  BY SMT
<1>2. PICK S \in Int, E \in Int : S = Pow2(s) /\ E = Pow2(e) /\ S > 0 /\ E > 0
  BY <1>1, PowerStep
<1>3. 64 * E <= m * S /\ m * S < 128 * E
  BY <1>2
<1>4. CASE s >= e
  <2>1. PICK d \in 0 .. 6 : s = e + d /\ s - e = d
    BY <1>4, SMT
  <2>2. PICK D \in Int : D = Pow2(d) /\ D > 0
    <3>1. d \in 0 .. 29
      BY SMT
    <3>2. QED
      BY <3>1, PowerStep
  <2>3. S = D * E
    BY <1>2, <2>1, <2>2, PowerSum
  <2>4. m * D \in Int /\ m * S = (m * D) * E
    BY <2>3, SMT
  <2>5. 64 <= m * D /\ m * D < 128
    BY <1>2, <1>3, <2>4, Cancel
  <2>6. n * D \in Int /\ n * D <= m * D /\ -(n * D) <= m * D
    BY <2>2, SMT
  <2>7. value = n * D
    <3>1. value = Int8(n * D)
      BY <1>4, <2>1, <2>2
    <3>2. -128 <= n * D /\ n * D <= 127
      BY <2>4, <2>5, <2>6, SMT
    <3>3. QED
      BY <2>6, <3>1, <3>2, Kept8
  <2>8. value * E - n * S = 0
    BY <2>3, <2>7, SMT
  <2>9. E \div 2 >= 0
    BY <1>2, SMT
  <2>10. Abs(n) = m => Abs(value) >= 64
    <3>1. ASSUME Abs(n) = m PROVE Abs(value) >= 64
      <4>1. n = m \/ n = -m
        BY <3>1, SMT DEF Abs
      <4>2. value = m * D \/ value = -(m * D)
        BY <2>7, <4>1, SMT
      <4>3. QED
        BY <2>4, <2>5, <4>2, SMT DEF Abs
    <3>2. QED
      BY <3>1
  <2>11. Abs(value * E - n * S) <= E \div 2
    BY <2>8, <2>9, SMT DEF Abs
  <2>12. QED
    BY <1>2, <2>6, <2>7, <2>10, <2>11
<1>5. CASE s = e - 1
  <2>1. E = 2 * S
    <3>1. e = s + 1
      BY <1>5, SMT
    <3>2. QED
      BY <1>1, <1>2, <3>1, PowerStep
  <2>2. 128 <= m /\ m < 256
    <3>1. 128 * S <= m * S /\ m * S < 256 * S
      BY <1>3, <2>1, SMT
    <3>2. QED
      BY <1>2, <3>1, Cancel
  <2>3. value = Int8(IF n < 0 THEN -((2 * Abs(n) + 2) \div 4) ELSE (2 * Abs(n) + 2) \div 4)
    <3>1. e - s = 1 /\ ~(s >= e) /\ 1 + 1 = 2
      BY <1>5, SMT
    <3>2. QED
      BY <3>1, Powers DEF Rounded
  <2>4. PICK v \in Int : /\ v = IF n < 0 THEN -((2 * Abs(n) + 2) \div 4) ELSE (2 * Abs(n) + 2) \div 4
                         /\ -1 <= 2 * v - n /\ 2 * v - n <= 1 /\ -128 <= v /\ v <= 127
    BY <2>2, SMT DEF Abs
  <2>5. value = v
    BY <2>3, <2>4, Kept8
  <2>6. Abs(value * E - n * S) <= E \div 2
    <3>1. value * E - n * S = (2 * v - n) * S
      BY <2>1, <2>5, SMT
    <3>2. -S <= (2 * v - n) * S /\ (2 * v - n) * S <= S
      <4>1. 2 * v - n = -1 \/ 2 * v - n = 0 \/ 2 * v - n = 1
        BY <2>4, SMT
      <4>2. QED
        BY <1>2, <4>1, SMT
    <3>3. E \div 2 = S
      BY <2>1, SMT
    <3>4. (2 * v - n) * S \in Int
      BY SMT
    <3>5. QED
      BY <3>1, <3>2, <3>3, <3>4, SMT DEF Abs
  <2>7. Abs(n) = m => Abs(value) >= 64
    BY <2>2, <2>4, <2>5, SMT DEF Abs
  <2>8. QED
    BY <1>2, <2>5, <2>6, <2>7
<1>6. CASE s = e - 2
  <2>1. E = 4 * S
    <3>1. s + 1 \in 0 .. 29 /\ e = (s + 1) + 1
      BY <1>6, SMT
    <3>2. E = 2 * Pow2(s + 1) /\ Pow2(s + 1) = 2 * S
      BY <1>1, <1>2, <3>1, PowerStep
    <3>3. QED
      BY <3>2, SMT
  <2>2. m = 256
    <3>1. 256 * S <= m * S
      BY <1>3, <2>1, SMT
    <3>2. 256 <= m
      BY <1>2, <3>1, Cancel
    <3>3. QED
      BY <3>2, SMT
  <2>3. value = Int8(IF n < 0 THEN -((2 * Abs(n) + 4) \div 8) ELSE (2 * Abs(n) + 4) \div 8)
    <3>1. e - s = 2 /\ ~(s >= e) /\ 2 + 1 = 3
      BY <1>6, SMT
    <3>2. QED
      BY <3>1, Powers DEF Rounded
  <2>4. PICK v \in Int : /\ v = IF n < 0 THEN -((2 * Abs(n) + 4) \div 8) ELSE (2 * Abs(n) + 4) \div 8
                         /\ -2 <= 4 * v - n /\ 4 * v - n <= 2 /\ -128 <= v /\ v <= 127
    BY <2>2, SMT DEF Abs
  <2>5. value = v
    BY <2>3, <2>4, Kept8
  <2>6. Abs(value * E - n * S) <= E \div 2
    <3>1. value * E - n * S = (4 * v - n) * S
      BY <2>1, <2>5, SMT
    <3>2. -2 * S <= (4 * v - n) * S /\ (4 * v - n) * S <= 2 * S
      <4>1. 4 * v - n = -2 \/ 4 * v - n = -1 \/ 4 * v - n = 0 \/ 4 * v - n = 1 \/ 4 * v - n = 2
        BY <2>4, SMT
      <4>2. QED
        BY <1>2, <4>1, SMT
    <3>3. E \div 2 = 2 * S
      BY <2>1, SMT
    <3>4. (4 * v - n) * S \in Int
      BY SMT
    <3>5. QED
      BY <3>1, <3>2, <3>3, <3>4, SMT DEF Abs
  <2>7. Abs(n) = m => Abs(value) >= 64
    BY <2>2, <2>4, <2>5, SMT DEF Abs
  <2>8. QED
    BY <1>2, <2>5, <2>6, <2>7
<1>7. s >= e - 2
  <2>1. SUFFICES ASSUME s < e - 2 PROVE FALSE
    BY <1>1, SMT
  <2>2. e - 3 \in 0 .. 23 /\ e - 3 \in 0 .. 29 /\ s <= e - 3 /\ 3 \in 0 .. 6 /\ (e - 3) + 3 = e
    BY <2>1, SMT
  <2>3. PICK F \in Int : F = Pow2(e - 3) /\ S <= F /\ E = 8 * F
    <3>1. Pow2(e - 3) \in Int
      BY <2>2, PowerStep
    <3>2. Pow2(s) <= Pow2(e - 3)
      BY <1>1, <2>2, PowerGrows
    <3>3. Pow2((e - 3) + 3) = Pow2(3) * Pow2(e - 3)
      BY <2>2, PowerSum
    <3>4. E = 8 * Pow2(e - 3)
      BY <1>2, <2>2, <3>3, Powers
    <3>5. QED
      BY <1>2, <3>1, <3>2, <3>4
  <2>4. 8 * S <= E
    BY <2>3, SMT
  <2>5. m * S <= 256 * S
    BY <1>2, SMT
  <2>6. m * S \in Int
    BY SMT
  <2>7. QED
    BY <1>2, <1>3, <2>4, <2>5, <2>6, SMT
<1>8. QED
  <2>1. s >= e \/ s = e - 1 \/ s = e - 2
    BY <1>1, <1>7, SMT
  <2>2. QED
    BY <1>4, <1>5, <1>6, <2>1

\* Nothing to scale.
LEMMA ZeroLemma ==
    ASSUME NEW s \in Nat, NEW e \in 0 .. 23, s <= e + 6, NEW value,
           value = IF s >= e THEN Int8(0 * Pow2(s - e)) ELSE Rounded(0, e - s)
    PROVE  value = 0
<1>1. CASE s >= e
  <2>1. Pow2(s - e) \in Int
    <3>1. s - e \in 0 .. 29
      BY <1>1, SMT
    <3>2. QED
      BY <3>1, PowerStep
  <2>2. 0 * Pow2(s - e) = 0
    BY <2>1, SMT
  <2>3. QED
    BY <1>1, <2>2, Kept8, SMT
<1>2. CASE s < e
  <2>1. e - s \in 0 .. 29 /\ ~(s >= e)
    BY <1>2, SMT
  <2>2. PICK P \in Int : P = Pow2(e - s) /\ P > 0 /\ Pow2((e - s) + 1) = 2 * P
    BY <2>1, PowerStep
  <2>3. (2 * 0 + P) \div (2 * P) = 0
    BY <2>2, SMT
  <2>4. Abs(0) = 0 /\ ~(0 < 0)
    BY SMT DEF Abs
  <2>5. value = Int8(0)
    BY <2>1, <2>2, <2>3, <2>4 DEF Rounded
  <2>6. QED
    BY <2>5, Kept8, SMT
<1>3. QED
  BY <1>1, <1>2, SMT

\* split is made of the parities of line and column.
LEMMA SplitLemma ==
    ASSUME NEW p \in Pixels
    PROVE  /\ Row(p) % 2 \in {0, 1} /\ p % 2 \in {0, 1}
           /\ Split(p) = 2 * (Row(p) % 2) + (p % 2)
<1>1. p \in Nat /\ Row(p) \in Nat /\ Cols \in Nat /\ Cols > 0
  BY Places, SizeAssumption, SMT
<1>2. PICK q \in Nat : q = Row(p)
  BY <1>1
<1>3. PICK c \in Int : p = Cols * q + c /\ 0 <= c /\ c < Cols
  <2>1. p = Cols * (p \div Cols) + (p % Cols) /\ p % Cols \in Int /\ 0 <= p % Cols /\ p % Cols < Cols
    BY <1>1, SMT
  <2>2. QED
    BY <1>2, <2>1 DEF Row
<1>4. PICK h \in Nat, r \in {0, 1} : q = 2 * h + r /\ q % 2 = r
  <2>1. q = 2 * (q \div 2) + (q % 2) /\ q \div 2 \in Nat /\ q % 2 \in {0, 1}
    BY SMT
  <2>2. QED
    BY <2>1
<1>5. p \div (2 * Cols) = h
  <2>1. PICK x \in Int : x = r * Cols + c /\ 0 <= x /\ x < 2 * Cols
    BY <1>1, <1>3, <1>4, SMT
  <2>2. PICK d \in Nat : d = 2 * Cols /\ d > 0
    BY <1>1, SMT
  <2>3. p = d * h + x
    BY <1>1, <1>3, <1>4, <2>1, <2>2, SMT
  <2>4. p \div d = h
    BY <2>1, <2>2, <2>3, SMT
  <2>5. QED
    BY <2>2, <2>4
<1>6. p % 2 \in {0, 1}
  BY <1>1, SMT
<1>7. Split(p) = 2 * (q - h * 2) + (p % 2)
  BY <1>2, <1>5 DEF Split, Row
<1>8. q - h * 2 = r
  BY <1>4, SMT
<1>9. QED
  BY <1>2, <1>4, <1>6, <1>7, <1>8

\* The coefficients that the functions compute before they scale them.
LEMMA KtaLemma ==
    ASSUME ee \in Image
    PROVE  /\ [p \in Pixels |-> KtaRC(Split(p))
                  + Signed(Bits(ee[64 + p], 3, 1), 4) * Pow2(Bits(ee[56], 3, 0))] = TrueKta
           /\ TrueKta \in [Pixels -> Int]
           /\ Bits(ee[56], 3, 0) <= 5 =>
                 \A p \in Pixels : -256 <= TrueKta[p] /\ TrueKta[p] <= 223
<1>1. ee[54] \in Int /\ ee[55] \in Int /\ ee[56] \in Int
  BY Words
<1>2. PICK P \in Int : P = Pow2(Bits(ee[56], 3, 0))
  BY <1>1, Exponents, PowerInt
<1>3. Bits(ee[56], 3, 0) <= 5 => 1 <= P /\ P <= 32
  <2>1. Bits(ee[56], 3, 0) \in 0 .. 15
    BY <1>1, Exponents
  <2>2. PICK k \in 0 .. 15 : k = Bits(ee[56], 3, 0)
    BY <2>1
  <2>3. k <= 5 => k = 0 \/ k = 1 \/ k = 2 \/ k = 3 \/ k = 4 \/ k = 5
    BY SMT
  <2>4. QED
    BY <1>2, <2>2, <2>3, Powers, SMT
<1>4. ASSUME NEW p \in Pixels
      PROVE  /\ KtaRC(Split(p)) + Signed(Bits(ee[64 + p], 3, 1), 4) * P = TrueKta[p]
             /\ TrueKta[p] \in Int
             /\ 1 <= P /\ P <= 32 => -256 <= TrueKta[p] /\ TrueKta[p] <= 223
  <2>1. PICK a \in Int : /\ a = Field(ee[64 + p], 3, 1) /\ -4 <= a /\ a <= 3
                         /\ Signed(Bits(ee[64 + p], 3, 1), 4) = a
    <3>1. ee[64 + p] \in Int
      BY Words
    <3>2. Field(ee[64 + p], 3, 1) \in -4 .. 3
      BY <3>1, OtherFields
    <3>3. Signed(Bits(ee[64 + p], 3, 1), 4) = Field(ee[64 + p], 3, 1)
      BY <3>1, OtherFields
    <3>4. QED
      BY <3>2, <3>3, SMT
  <2> DEFINE F == Field(ee[54 + (p % 2)], IF Row(p) % 2 = 0 THEN 15 ELSE 7,
                                          IF Row(p) % 2 = 0 THEN 8 ELSE 0)
  <2>2. KtaRC(Split(p)) = F /\ F \in -128 .. 127
    <3>1. CASE Row(p) % 2 = 0 /\ p % 2 = 0
      <4>1. Split(p) = 0 /\ 54 + (p % 2) = 54
        BY <3>1, SplitLemma, SMT
      <4>2. KtaRC(Split(p)) = Signed(Int8(Bits(ee[54], 15, 8)), 128) /\ F = Field(ee[54], 15, 8)
        BY <3>1, <4>1 DEF KtaRC
      <4>3. QED
        BY <1>1, <4>2, Bytes
    <3>2. CASE Row(p) % 2 = 0 /\ p % 2 = 1
      <4>1. Split(p) = 1 /\ 54 + (p % 2) = 55
        BY <3>2, SplitLemma, SMT
      <4>2. KtaRC(Split(p)) = Signed(Int8(Bits(ee[55], 15, 8)), 128) /\ F = Field(ee[55], 15, 8)
        BY <3>2, <4>1 DEF KtaRC
      <4>3. QED
        BY <1>1, <4>2, Bytes
    <3>3. CASE Row(p) % 2 = 1 /\ p % 2 = 0
      <4>1. Split(p) = 2 /\ 54 + (p % 2) = 54
        BY <3>3, SplitLemma, SMT
      <4>2. KtaRC(Split(p)) = Signed(Int8(Bits(ee[54], 7, 0)), 128) /\ F = Field(ee[54], 7, 0)
        BY <3>3, <4>1 DEF KtaRC
      <4>3. QED
        BY <1>1, <4>2, Bytes
    <3>4. CASE Row(p) % 2 = 1 /\ p % 2 = 1
      <4>1. Split(p) = 3 /\ 54 + (p % 2) = 55
        BY <3>4, SplitLemma, SMT
      <4>2. KtaRC(Split(p)) = Signed(Int8(Bits(ee[55], 7, 0)), 128) /\ F = Field(ee[55], 7, 0)
        BY <3>4, <4>1 DEF KtaRC
      <4>3. QED
        BY <1>1, <4>2, Bytes
    <3>5. QED
      BY <3>1, <3>2, <3>3, <3>4, SplitLemma
  <2>3. TrueKta[p] = F + a * P
    BY <1>2, <2>1 DEF TrueKta
  <2> HIDE DEF F
  <2>4. F \in Int /\ -128 <= F /\ F <= 127
    BY <2>2, SMT
  <2>5. F + a * P \in Int
    BY <2>4, SMT
  <2>6. 1 <= P /\ P <= 32 => -128 <= a * P /\ a * P <= 96
    <3>1. a = -4 \/ a = -3 \/ a = -2 \/ a = -1 \/ a = 0 \/ a = 1 \/ a = 2 \/ a = 3
      BY <2>1, SMT
    <3>2. QED
      BY <3>1, SMT
  <2>7. a * P \in Int
    BY SMT
  <2>8. 1 <= P /\ P <= 32 => -256 <= F + a * P /\ F + a * P <= 223
    BY <2>4, <2>6, <2>7, SMT
  <2>9. QED
    BY <2>1, <2>2, <2>3, <2>5, <2>8
<1>5. QED
  BY <1>2, <1>3, <1>4 DEF TrueKta

LEMMA KvLemma ==
    ASSUME ee \in Image
    PROVE  /\ [p \in Pixels |-> KvT(Split(p))] = TrueKv
           /\ TrueKv \in [Pixels -> Int]
           /\ \A p \in Pixels : -8 <= TrueKv[p] /\ TrueKv[p] <= 7
<1>1. ee[52] \in Int
  BY Words
<1>2. ASSUME NEW p \in Pixels
      PROVE  KvT(Split(p)) = TrueKv[p] /\ TrueKv[p] \in -8 .. 7
  <2> DEFINE lo == 12 - 4 * (Row(p) % 2) - 8 * (p % 2)
  <2>1. TrueKv[p] = Field(ee[52], lo + 3, lo)
    BY DEF TrueKv
  <2>2. CASE Row(p) % 2 = 0 /\ p % 2 = 0
    <3>1. Split(p) = 0 /\ lo = 12 /\ lo + 3 = 15
      BY <2>2, SplitLemma, SMT
    <3>2. QED
      BY <1>1, <2>1, <3>1, Nibbles DEF KvT
  <2>3. CASE Row(p) % 2 = 0 /\ p % 2 = 1
    <3>1. Split(p) = 1 /\ lo = 4 /\ lo + 3 = 7
      BY <2>3, SplitLemma, SMT
    <3>2. QED
      BY <1>1, <2>1, <3>1, Nibbles DEF KvT
  <2>4. CASE Row(p) % 2 = 1 /\ p % 2 = 0
    <3>1. Split(p) = 2 /\ lo = 8 /\ lo + 3 = 11
      BY <2>4, SplitLemma, SMT
    <3>2. QED
      BY <1>1, <2>1, <3>1, Nibbles DEF KvT
  <2>5. CASE Row(p) % 2 = 1 /\ p % 2 = 1
    <3>1. Split(p) = 3 /\ lo = 0 /\ lo + 3 = 3
      BY <2>5, SplitLemma, SMT
    <3>2. QED
      BY <1>1, <2>1, <3>1, Nibbles DEF KvT
  <2>6. QED
    BY <2>2, <2>3, <2>4, <2>5, SplitLemma
<1>3. \A p \in Pixels : TrueKv[p] \in Int /\ -8 <= TrueKv[p] /\ TrueKv[p] <= 7
  BY <1>2, SMT
<1>4. QED
  BY <1>2, <1>3 DEF TrueKv

\* What the loop leaves when it ends, for coefficients in the range that the exponent
\* ktaScale2 admits up to 5 and that start below the bound of the loop.
LEMMA RoundLemma ==
    ASSUME coef \in [Pixels -> Int], exponent \in 0 .. 23, temp \in Nat, scale \in Nat,
           at = "loop", SearchInv, ~Searching,
           \A p \in Pixels : /\ -256 <= coef[p] /\ coef[p] <= 223
                             /\ Abs(coef[p]) < 64 * Pow2(exponent),
           NEW value, value = [p \in Pixels |-> Scaled(p)]
    PROVE  Accurate(value, scale, coef, exponent) /\ UsesRange(value, coef)
<1>1. /\ scale <= exponent + 6
      /\ \A p \in Pixels : Abs(coef[p]) * Pow2(scale) <= temp
      /\ scale > 0 => temp < 128 * Pow2(exponent)
  BY DEF SearchInv
<1>2. PICK q \in Pixels : Abs(coef[q]) * Pow2(scale) = temp
  BY DEF SearchInv
<1>3. scale \in 0 .. 29 /\ exponent \in 0 .. 29
  BY <1>1, SMT
<1>4. PICK S \in Int, E \in Int : S = Pow2(scale) /\ E = Pow2(exponent) /\ S > 0 /\ E > 0
  BY <1>3, PowerStep
<1>5. \A p \in Pixels : coef[p] \in Int /\ Abs(coef[p]) \in Nat
  BY SMT DEF Abs
<1>6. \A p \in Pixels : value[p] = IF scale >= exponent THEN Int8(coef[p] * Pow2(scale - exponent))
                                    ELSE Rounded(coef[p], exponent - scale)
  BY DEF Scaled
<1>7. \A p \in Pixels : Abs(coef[p]) <= Abs(coef[q])
  <2>1. ASSUME NEW p \in Pixels PROVE Abs(coef[p]) <= Abs(coef[q])
    <3>1. Abs(coef[p]) * S <= Abs(coef[q]) * S
      BY <1>1, <1>2, <1>4
    <3>2. Abs(coef[p]) \in Int /\ Abs(coef[q]) \in Int
      BY <1>5
    <3>3. QED
      BY <1>4, <3>1, <3>2, Cancel
  <2>2. QED
    BY <2>1
<1>8. CASE temp = 0
  <2>1. Abs(coef[q]) = 0
    <3>1. PICK a \in Nat : a = Abs(coef[q]) /\ a * S = 0
      BY <1>2, <1>4, <1>5, <1>8
    <3>2. a = 0
      BY <1>4, <3>1, SMT
    <3>3. QED
      BY <3>1, <3>2
  <2>2. \A p \in Pixels : coef[p] = 0
    <3>1. ASSUME NEW p \in Pixels PROVE coef[p] = 0
      <4>1. PICK n \in Int : n = coef[p] /\ Abs(n) <= 0
        BY <1>5, <1>7, <2>1
      <4>2. QED
        BY <4>1, SMT DEF Abs
    <3>2. QED
      BY <3>1
  <2>3. \A p \in Pixels : value[p] = 0
    BY <1>1, <1>6, <2>2, ZeroLemma
  <2>4. Abs(0 * E - 0 * S) <= E \div 2
    BY <1>4, SMT DEF Abs
  <2>5. QED
    BY <1>4, <2>2, <2>3, <2>4 DEF Accurate, UsesRange
<1>9. CASE temp # 0
  <2>1. PICK m \in Nat : m = Abs(coef[q]) /\ m * S = temp /\ m <= 256 /\ m < 64 * E
    <3>1. PICK n \in Int : n = coef[q] /\ -256 <= n /\ n <= 223 /\ Abs(n) < 64 * E
      BY <1>4, <1>5
    <3>2. Abs(n) <= 256
      BY <3>1, SMT DEF Abs
    <3>3. QED
      BY <1>2, <1>4, <1>5, <3>1, <3>2
  <2>2. 64 * E <= temp
    <3>1. ~(0 < temp /\ temp < 64 * E)
      BY <1>4 DEF Searching
    <3>2. QED
      BY <1>4, <1>9, <3>1, SMT
  <2>3. scale > 0
    <3>1. SUFFICES ASSUME scale = 0 PROVE FALSE
      BY SMT
    <3>2. S = 1
      BY <1>4, <3>1, Powers
    <3>3. QED
      BY <1>4, <2>1, <2>2, <3>2, SMT
  <2>4. 64 * Pow2(exponent) <= m * Pow2(scale) /\ m * Pow2(scale) < 128 * Pow2(exponent)
    BY <1>1, <1>4, <2>1, <2>2, <2>3
  <2>5. ASSUME NEW p \in Pixels
        PROVE  /\ Abs(value[p] * Pow2(exponent) - coef[p] * Pow2(scale)) <= Pow2(exponent) \div 2
               /\ Abs(coef[p]) = m => Abs(value[p]) >= 64
    <3>1. PICK n \in Int : n = coef[p] /\ -256 <= n /\ n <= 223 /\ Abs(n) <= m
      BY <1>5, <1>7, <2>1
    <3>2. n <= m /\ -n <= m
      BY <3>1, SMT DEF Abs
    <3>3. value[p] = IF scale >= exponent THEN Int8(n * Pow2(scale - exponent))
                     ELSE Rounded(n, exponent - scale)
      BY <1>6, <3>1
    <3>4. QED
      BY <1>1, <2>1, <2>4, <3>1, <3>2, <3>3, ScaledLemma
  <2>6. QED
    BY <2>1, <2>5 DEF Accurate, UsesRange
<1>10. QED
  BY <1>8, <1>9

\* Rounding ends in the type whatever the image.
LEMMA ScaledType ==
    ASSUME coef \in [Pixels -> Int], exponent \in 0 .. 23, scale \in Nat, scale <= exponent + 6,
           NEW p \in Pixels
    PROVE  Scaled(p) \in int8_t
<1>1. coef[p] \in Int
  OBVIOUS
<1>2. CASE scale >= exponent
  <2>1. scale - exponent \in 0 .. 29
    BY <1>2, SMT
  <2>2. Pow2(scale - exponent) \in Int
    BY <2>1, PowerStep
  <2>3. coef[p] * Pow2(scale - exponent) \in Int
    BY <1>1, <2>2, SMT
  <2>4. QED
    BY <1>2, <2>3, Range8 DEF Scaled
<1>3. CASE scale < exponent
  <2>1. exponent - scale \in 0 .. 29 /\ ~(scale >= exponent)
    BY <1>3, SMT
  <2>2. PICK P \in Int : P = Pow2(exponent - scale) /\ P > 0 /\ Pow2((exponent - scale) + 1) = 2 * P
    BY <2>1, PowerStep
  <2>3. PICK a \in Int : a = Abs(coef[p])
    BY <1>1, SMT DEF Abs
  <2>4. (2 * a + P) \div (2 * P) \in Int
    <3>1. PICK d \in Int : d = 2 * P /\ d > 0
      BY <2>2, SMT
    <3>2. (2 * a + P) \div d \in Int
      BY <3>1, SMT
    <3>3. QED
      BY <3>1, <3>2
  <2>5. PICK x \in Int : x = (2 * a + P) \div (2 * P)
    BY <2>4
  <2>6. Scaled(p) = Int8(IF coef[p] < 0 THEN -x ELSE x)
    BY <2>1, <2>2, <2>3, <2>5 DEF Scaled, Rounded
  <2>7. (IF coef[p] < 0 THEN -x ELSE x) \in Int
    BY SMT
  <2>8. QED
    BY <2>6, <2>7, Range8
<1>4. QED
  BY <1>2, <1>3, SMT
-----------------------------------------------------------------------------
(* The invariant.                                                          *)

\* Steps that leave alone what a property is about.
LEMMA KeptOffset ==
    ASSUME OffsetExact, UNCHANGED <<ee, offset>>, Extracted("Offset")' => Extracted("Offset")
    PROVE  OffsetExact'
<1>1. \A p \in Pixels : TrueOffset(p)' = TrueOffset(p)
  BY DEF TrueOffset, NibbleField
<1>2. QED
  BY <1>1 DEF OffsetExact

LEMMA KeptAlpha ==
    ASSUME AlphaCompensated, UNCHANGED <<ee, alpha>>, Extracted("Alpha")' => Extracted("Alpha")
    PROVE  AlphaCompensated'
<1>1. \A p \in Pixels : TrueSensitivity(p)' = TrueSensitivity(p)
  BY DEF TrueSensitivity, NibbleField
<1>2. \A d : StoredAlpha(d)' = StoredAlpha(d)
  BY DEF StoredAlpha, TwiceQuotient
<1>3. QED
  BY <1>1, <1>2 DEF AlphaCompensated

LEMMA KeptKta ==
    ASSUME UNCHANGED <<ee, kta, ktaScale>>, CoefficientsAccurate, Extracted("Kta"),
           Bits(ee[56], 3, 0) <= 5
    PROVE  /\ Accurate(kta, ktaScale, TrueKta, Bits(ee[56], 7, 4) + 8)'
           /\ UsesRange(kta, TrueKta)'
<1>1. TrueKta' = TrueKta
  BY DEF TrueKta
<1>2. Accurate(kta, ktaScale, TrueKta, Bits(ee[56], 7, 4) + 8) /\ UsesRange(kta, TrueKta)
  BY DEF CoefficientsAccurate
<1>3. QED
  BY <1>1, <1>2 DEF Accurate, UsesRange

LEMMA KeptKv ==
    ASSUME UNCHANGED <<ee, kv, kvScale>>, CoefficientsAccurate, Extracted("Kv")
    PROVE  /\ Accurate(kv, kvScale, TrueKv, Bits(ee[56], 11, 8))'
           /\ UsesRange(kv, TrueKv)'
<1>1. TrueKv' = TrueKv
  BY DEF TrueKv
<1>2. Accurate(kv, kvScale, TrueKv, Bits(ee[56], 11, 8)) /\ UsesRange(kv, TrueKv)
  BY DEF CoefficientsAccurate
<1>3. QED
  BY <1>1, <1>2 DEF Accurate, UsesRange

LEMMA KeptCoefficients ==
    ASSUME CoefficientsAccurate, UNCHANGED <<ee, kta, kv, ktaScale, kvScale>>,
           Extracted("Kta")' => Extracted("Kta"), Extracted("Kv")' => Extracted("Kv")
    PROVE  CoefficientsAccurate'
<1>1. Bits(ee'[56], 3, 0) = Bits(ee[56], 3, 0)
  OBVIOUS
<1>2. QED
  BY <1>1, KeptKta, KeptKv DEF CoefficientsAccurate

LEMMA KeptFields ==
    ASSUME FieldsSet, UNCHANGED <<ee, params>>,
           Extracted("Tgc")' => Extracted("Tgc"), Extracted("CP")' => Extracted("CP")
    PROVE  FieldsSet'
BY DEF FieldsSet

\* A function that only sets fields.
LEMMA SetsFields ==
    ASSUME IInv,
           \/ ExtractVDDParameters \/ ExtractPTATParameters \/ ExtractGainParameters
           \/ ExtractTgcParameters \/ ExtractResolutionParameters \/ ExtractKsTaParameters
           \/ ExtractKsToParameters \/ ExtractCPParameters \/ ExtractCILCParameters
    PROVE  FieldsSet'
<1>1. params \in Params /\ InOrder /\ FieldsSet
  BY DEF IInv, TypeOK
<1>2. UNCHANGED ee /\ todo # <<>> /\ todo' = Tail(todo)
  BY DEF ExtractVDDParameters, ExtractPTATParameters, ExtractGainParameters,
         ExtractTgcParameters, ExtractResolutionParameters, ExtractKsTaParameters,
         ExtractKsToParameters, ExtractCPParameters, ExtractCILCParameters, Sets, Calls, Done
<1>3. \A f : Extracted(f)' => Extracted(f) \/ Head(todo) = f
  BY <1>1, <1>2, Returned
<1>4. CASE ExtractTgcParameters
  <2>1. params'.tgc = Signed(Bits(ee[60], 7, 0), 128) /\ params'.cpAlpha = params.cpAlpha
    BY <1>1, <1>4 DEF ExtractTgcParameters, Sets, Params
  <2>2. Head(todo) = "Tgc"
    BY <1>4 DEF ExtractTgcParameters, Sets, Calls
  <2>3. Extracted("CP")' => Extracted("CP")
    BY <1>3, <2>2
  <2>4. QED
    BY <1>1, <1>2, <2>1, <2>3 DEF FieldsSet
<1>5. CASE ExtractCPParameters
  <2> DEFINE alpha0 == Signed(Bits(ee[57], 9, 0), 512)
             ratio == Signed(Bits(ee[57], 15, 10), 32)
  <2>1. params'.cpAlpha = <<128 * alpha0, (128 + ratio) * alpha0>> /\ params'.tgc = params.tgc
    BY <1>1, <1>5 DEF ExtractCPParameters, Sets, Params
  <2>2. params'.cpAlpha[1] = 128 * alpha0 /\ params'.cpAlpha[2] = (128 + ratio) * alpha0
    BY <2>1
  <2>3. Head(todo) = "CP"
    BY <1>5 DEF ExtractCPParameters, Sets, Calls
  <2>4. Extracted("Tgc")' => Extracted("Tgc")
    BY <1>3, <2>3
  <2>5. QED
    BY <1>1, <1>2, <2>1, <2>2, <2>4 DEF FieldsSet
<1>6. CASE \/ ExtractVDDParameters \/ ExtractPTATParameters \/ ExtractGainParameters
           \/ ExtractResolutionParameters \/ ExtractKsTaParameters
           \/ ExtractKsToParameters \/ ExtractCILCParameters
  <2>1. params'.tgc = params.tgc /\ params'.cpAlpha = params.cpAlpha
    <3>1. CASE ExtractVDDParameters
      BY <1>1, <3>1, SMT DEF ExtractVDDParameters, Sets, Params
    <3>2. CASE ExtractPTATParameters
      BY <1>1, <3>2, SMT DEF ExtractPTATParameters, Sets, Params
    <3>3. CASE ExtractGainParameters
      BY <1>1, <3>3, SMT DEF ExtractGainParameters, Sets, Params
    <3>4. CASE ExtractResolutionParameters
      BY <1>1, <3>4, SMT DEF ExtractResolutionParameters, Sets, Params
    <3>5. CASE ExtractKsTaParameters
      BY <1>1, <3>5, SMT DEF ExtractKsTaParameters, Sets, Params
    <3>6. CASE ExtractKsToParameters
      BY <1>1, <3>6, SMT DEF ExtractKsToParameters, Sets, Params
    <3>7. CASE ExtractCILCParameters
      BY <1>1, <3>7, SMT DEF ExtractCILCParameters, Sets, Params
    <3>8. QED
      BY <1>6, <3>1, <3>2, <3>3, <3>4, <3>5, <3>6, <3>7
  <2>2. Head(todo) # "Tgc" /\ Head(todo) # "CP"
    BY <1>6 DEF ExtractVDDParameters, ExtractPTATParameters, ExtractGainParameters,
         ExtractResolutionParameters, ExtractKsTaParameters, ExtractKsToParameters,
         ExtractCILCParameters, Sets, Calls
  <2>3. (Extracted("Tgc")' => Extracted("Tgc")) /\ (Extracted("CP")' => Extracted("CP"))
    BY <1>3, <2>2
  <2>4. QED
    BY <1>1, <1>2, <2>1, <2>3 DEF FieldsSet
<1>7. QED
  BY <1>4, <1>5, <1>6

LEMMA SetsIInv ==
    ASSUME IInv,
           \/ ExtractVDDParameters \/ ExtractPTATParameters \/ ExtractGainParameters
           \/ ExtractTgcParameters \/ ExtractResolutionParameters \/ ExtractKsTaParameters
           \/ ExtractKsToParameters \/ ExtractCPParameters \/ ExtractCILCParameters
    PROVE  IInv'
<1>1. /\ UNCHANGED <<ee, pixelVars, loopVars>>
      /\ at = "call" /\ todo # <<>> /\ todo' = Tail(todo) /\ at' = "call"
      /\ Head(todo) \notin {"Alpha", "Offset", "Kta", "Kv"}
  BY DEF ExtractVDDParameters, ExtractPTATParameters, ExtractGainParameters,
         ExtractTgcParameters, ExtractResolutionParameters, ExtractKsTaParameters,
         ExtractKsToParameters, ExtractCPParameters, ExtractCILCParameters, Sets, Calls, Done
<1>2. TypeOK'
  <2>1. params' \in Params
    BY SetsTyped DEF IInv, TypeOK
  <2>2. QED
    BY <1>1, <2>1 DEF IInv, TypeOK, pixelVars, loopVars
<1>3. InOrder' /\ \A f : Extracted(f)' => Extracted(f) \/ Head(todo) = f
  BY <1>1, Returned DEF IInv
<1>4. FieldsSet'
  BY SetsFields
<1>5. SearchInv'
  BY <1>1 DEF SearchInv
<1>6. OffsetExact'
  <2>1. Extracted("Offset")' => Extracted("Offset")
    BY <1>1, <1>3
  <2>2. QED
    BY <1>1, <2>1, KeptOffset DEF IInv, pixelVars
<1>7. AlphaCompensated'
  <2>1. Extracted("Alpha")' => Extracted("Alpha")
    BY <1>1, <1>3
  <2>2. QED
    BY <1>1, <2>1, KeptAlpha DEF IInv, pixelVars
<1>8. CoefficientsAccurate'
  <2>1. (Extracted("Kta")' => Extracted("Kta")) /\ (Extracted("Kv")' => Extracted("Kv"))
    BY <1>1, <1>3
  <2>2. QED
    BY <1>1, <2>1, KeptCoefficients DEF IInv, pixelVars
<1>9. QED
  BY <1>2, <1>3, <1>4, <1>5, <1>6, <1>7, <1>8 DEF IInv

\* ExtractAlphaParameters.
LEMMA AlphaIInv == ASSUME IInv, ExtractAlphaParameters PROVE IInv'
<1>1. /\ UNCHANGED <<ee, params, offset, kta, kv, ktaScale, kvScale, loopVars>>
      /\ at = "call" /\ todo # <<>> /\ todo' = Tail(todo) /\ at' = "call" /\ Head(todo) = "Alpha"
      /\ alpha' = [p \in Pixels |-> StoredAlpha(Sensitivity(p))]
  BY DEF ExtractAlphaParameters, Calls, Done
<1>2. InOrder' /\ \A f : Extracted(f)' => Extracted(f) \/ Head(todo) = f
  BY <1>1, Returned DEF IInv
<1>3. ee \in Image /\ FieldsSet
  BY DEF IInv, TypeOK
<1>4. \A p \in Pixels : Sensitivity(p) = TrueSensitivity(p)
  <2>1. Extracted("Tgc") /\ Extracted("CP")
    BY <1>1, AlphaAfterCP DEF IInv
  <2>2. QED
    BY <1>3, <2>1, AlphaLemma
<1>5. AlphaCompensated'
  <2>1. \A p \in Pixels : alpha'[p] = StoredAlpha(TrueSensitivity(p))
    BY <1>1, <1>4
  <2>2. ee' = ee
    BY <1>1
  <2>3. \A p \in Pixels : TrueSensitivity(p)' = TrueSensitivity(p)
    BY <2>2 DEF TrueSensitivity, NibbleField
  <2>4. \A d : StoredAlpha(d)' = StoredAlpha(d)
    BY <2>2 DEF StoredAlpha, TwiceQuotient
  <2>5. QED
    BY <2>1, <2>3, <2>4 DEF AlphaCompensated
<1>6. alpha' \in [Pixels -> Undefined .. 65535]
  <2>1. ASSUME NEW d PROVE StoredAlpha(d) \in Undefined .. 65535
    BY AlphaRange DEF StoredAlpha
  <2>2. QED
    BY <1>1, <2>1
<1>7. TypeOK'
  BY <1>1, <1>6 DEF IInv, TypeOK, loopVars
<1>8. FieldsSet'
  <2>1. (Extracted("Tgc")' => Extracted("Tgc")) /\ (Extracted("CP")' => Extracted("CP"))
    BY <1>1, <1>2
  <2>2. QED
    BY <1>1, <1>3, <2>1, KeptFields
<1>9. SearchInv'
  BY <1>1 DEF SearchInv
<1>10. OffsetExact'
  <2>1. Extracted("Offset")' => Extracted("Offset")
    BY <1>1, <1>2
  <2>2. QED
    BY <1>1, <2>1, KeptOffset DEF IInv
<1>11. CoefficientsAccurate'
  <2>1. (Extracted("Kta")' => Extracted("Kta")) /\ (Extracted("Kv")' => Extracted("Kv"))
    BY <1>1, <1>2
  <2>2. QED
    BY <1>1, <2>1, KeptCoefficients DEF IInv
<1>12. QED
  BY <1>2, <1>5, <1>7, <1>8, <1>9, <1>10, <1>11 DEF IInv

\* ExtractOffsetParameters.
LEMMA OffsetIInv == ASSUME IInv, ExtractOffsetParameters PROVE IInv'
<1>1. /\ UNCHANGED <<ee, params, alpha, kta, kv, ktaScale, kvScale, loopVars>>
      /\ at = "call" /\ todo # <<>> /\ todo' = Tail(todo) /\ at' = "call" /\ Head(todo) = "Offset"
      /\ offset' = [p \in Pixels |-> Offset(p)]
  BY DEF ExtractOffsetParameters, Calls, Done
<1>2. InOrder' /\ \A f : Extracted(f)' => Extracted(f) \/ Head(todo) = f
  BY <1>1, Returned DEF IInv
<1>3. ee \in Image /\ FieldsSet
  BY DEF IInv, TypeOK
<1>4. \A p \in Pixels : /\ Offset(p) \in int16_t
                        /\ TrueOffset(p) \in int16_t => Offset(p) = TrueOffset(p)
  BY <1>3, OffsetLemma
<1>5. OffsetExact'
  <2>1. \A p \in Pixels : TrueOffset(p)' = TrueOffset(p)
    BY <1>1 DEF TrueOffset, NibbleField
  <2>2. \A p \in Pixels : offset'[p] = Offset(p)
    BY <1>1
  <2>3. ASSUME NEW p \in Pixels, (TrueOffset(p) \in int16_t)'
        PROVE  (offset[p] = TrueOffset(p))'
    <3>1. TrueOffset(p) \in int16_t
      BY <2>1, <2>3
    <3>2. QED
      BY <1>4, <2>1, <2>2, <3>1
  <2>4. QED
    BY <2>3 DEF OffsetExact
<1>6. TypeOK'
  <2>1. \A p \in Pixels : Offset(p) \in int16_t
    BY <1>4
  <2>2. offset' \in [Pixels -> int16_t]
    BY <1>1, <2>1, Zenon
  <2>3. QED
    BY <1>1, <2>2 DEF IInv, TypeOK, loopVars
<1>7. FieldsSet'
  <2>1. (Extracted("Tgc")' => Extracted("Tgc")) /\ (Extracted("CP")' => Extracted("CP"))
    BY <1>1, <1>2
  <2>2. QED
    BY <1>1, <1>3, <2>1, KeptFields
<1>8. SearchInv'
  BY <1>1 DEF SearchInv
<1>9. AlphaCompensated'
  <2>1. Extracted("Alpha")' => Extracted("Alpha")
    BY <1>1, <1>2
  <2>2. QED
    BY <1>1, <2>1, KeptAlpha DEF IInv
<1>10. CoefficientsAccurate'
  <2>1. (Extracted("Kta")' => Extracted("Kta")) /\ (Extracted("Kv")' => Extracted("Kv"))
    BY <1>1, <1>2
  <2>2. QED
    BY <1>1, <2>1, KeptCoefficients DEF IInv
<1>11. QED
  BY <1>2, <1>5, <1>6, <1>7, <1>8, <1>9, <1>10 DEF IInv

\* The coefficients have been computed and the search for their scale begins.
LEMMA SearchIInv ==
    ASSUME IInv, ExtractKtaPixelParameters \/ ExtractKvPixelParameters
    PROVE  IInv'
<1>1. /\ UNCHANGED <<ee, todo, params, pixelVars>>
      /\ todo # <<>> /\ at' = "loop" /\ scale' = 0
  BY DEF ExtractKtaPixelParameters, ExtractKvPixelParameters, Search, Calls
<1>2. ee \in Image /\ ee[56] \in Int
  <2>1. ee \in Image
    BY DEF IInv, TypeOK
  <2>2. QED
    BY <2>1, Words
<1>3. /\ TrueKta' = TrueKta /\ TrueKv' = TrueKv
  BY <1>1 DEF TrueKta, TrueKv
<1>4. /\ coef' \in [Pixels -> Int] /\ exponent' \in 0 .. 23
      /\ temp' \in {Abs(coef'[p]) : p \in Pixels} /\ \A p \in Pixels : Abs(coef'[p]) <= temp'
      /\ Head(todo) \in {"Kta", "Kv"}
      /\ Head(todo) = "Kta" => coef' = TrueKta /\ exponent' = Bits(ee[56], 7, 4) + 8
      /\ Head(todo) = "Kv" => coef' = TrueKv /\ exponent' = Bits(ee[56], 11, 8)
  <2>1. CASE ExtractKtaPixelParameters
    <3>1. /\ coef' = TrueKta /\ exponent' = Bits(ee[56], 7, 4) + 8 /\ Head(todo) = "Kta"
          /\ temp' \in {Abs(coef'[p]) : p \in Pixels} /\ \A p \in Pixels : Abs(coef'[p]) <= temp'
      BY <1>2, <2>1, KtaLemma DEF ExtractKtaPixelParameters, Search, Calls
    <3>2. Bits(ee[56], 7, 4) + 8 \in 0 .. 23
      BY <1>2, Exponents, SMT
    <3>3. TrueKta \in [Pixels -> Int]
      BY <1>2, KtaLemma
    <3>4. QED
      BY <3>1, <3>2, <3>3
  <2>2. CASE ExtractKvPixelParameters
    <3>1. /\ coef' = TrueKv /\ exponent' = Bits(ee[56], 11, 8) /\ Head(todo) = "Kv"
          /\ temp' \in {Abs(coef'[p]) : p \in Pixels} /\ \A p \in Pixels : Abs(coef'[p]) <= temp'
      BY <1>2, <2>2, KvLemma DEF ExtractKvPixelParameters, Search, Calls
    <3>2. Bits(ee[56], 11, 8) \in 0 .. 23
      BY <1>2, Exponents, SMT
    <3>3. TrueKv \in [Pixels -> Int]
      BY <1>2, KvLemma
    <3>4. QED
      BY <3>1, <3>2, <3>3
  <2>3. QED
    BY <2>1, <2>2
<1>5. PICK q \in Pixels : temp' = Abs(coef'[q])
  BY <1>4
<1>6. \A p \in Pixels : Abs(coef'[p]) \in Nat /\ Abs(coef'[p]) * 1 = Abs(coef'[p])
  <2>1. ASSUME NEW p \in Pixels PROVE Abs(coef'[p]) \in Nat /\ Abs(coef'[p]) * 1 = Abs(coef'[p])
    <3>1. PICK n \in Int : n = coef'[p]
      BY <1>4
    <3>2. Abs(n) \in Nat /\ Abs(n) * 1 = Abs(n)
      BY SMT DEF Abs
    <3>3. QED
      BY <3>1, <3>2
  <2>2. QED
    BY <2>1
<1>7. TypeOK'
  <2>1. temp' \in Nat
    BY <1>5, <1>6
  <2>2. scale' \in 0 .. 255
    BY <1>1, SMT
  <2>3. QED
    BY <1>1, <1>4, <2>1, <2>2 DEF IInv, TypeOK, pixelVars
<1>8. SearchInv'
  <2>1. scale' <= exponent' + 6 /\ ~(scale' > 0)
    <3>1. PICK e \in 0 .. 23 : e = exponent'
      BY <1>4
    <3>2. 0 <= e + 6 /\ ~(0 > 0)
      BY SMT
    <3>3. QED
      BY <1>1, <3>1, <3>2
  <2>2. Pow2(scale)' = 1
    BY <1>1, Powers
  <2>3. /\ \A p \in Pixels : (Abs(coef[p]) * Pow2(scale) <= temp)'
        /\ \E p \in Pixels : (Abs(coef[p]) * Pow2(scale) = temp)'
    BY <1>4, <1>5, <1>6, <2>2
  <2>4. QED
    BY <1>1, <1>3, <1>4, <2>1, <2>3 DEF SearchInv
<1>9. \A f : Extracted(f)' <=> Extracted(f)
  BY <1>1 DEF Extracted
<1>10. InOrder' /\ FieldsSet'
  BY <1>1, <1>9, KeptFields DEF IInv, InOrder
<1>11. OffsetExact'
  BY <1>1, <1>9, KeptOffset DEF IInv, pixelVars
<1>12. AlphaCompensated'
  BY <1>1, <1>9, KeptAlpha DEF IInv, pixelVars
<1>13. CoefficientsAccurate'
  BY <1>1, <1>9, KeptCoefficients DEF IInv, pixelVars
<1>14. QED
  BY <1>7, <1>8, <1>10, <1>11, <1>12, <1>13 DEF IInv

\* A turn of the loop.
LEMMA DoubleIInv == ASSUME IInv, Double PROVE IInv'
<1>1. /\ UNCHANGED <<ee, todo, params, pixelVars, coef, exponent, at>>
      /\ at = "loop" /\ temp' = 2 * temp /\ scale' = (scale + 1) % 256
      /\ 0 < temp /\ temp < 64 * Pow2(exponent)
  BY DEF Double, Searching
<1>2. /\ coef \in [Pixels -> Int] /\ exponent \in 0 .. 23 /\ temp \in Nat /\ scale \in 0 .. 255
      /\ scale <= exponent + 6
      /\ todo # <<>> /\ Head(todo) \in {"Kta", "Kv"}
      /\ Head(todo) = "Kta" => coef = TrueKta /\ exponent = Bits(ee[56], 7, 4) + 8
      /\ Head(todo) = "Kv" => coef = TrueKv /\ exponent = Bits(ee[56], 11, 8)
      /\ \A p \in Pixels : Abs(coef[p]) * Pow2(scale) <= temp
  BY <1>1 DEF IInv, TypeOK, SearchInv
<1>3. PICK q \in Pixels : Abs(coef[q]) * Pow2(scale) = temp
  BY <1>1 DEF IInv, SearchInv
<1>4. scale \in 0 .. 29 /\ exponent \in 0 .. 29
  BY <1>2, SMT
<1>5. PICK S \in Int, E \in Int : /\ S = Pow2(scale) /\ E = Pow2(exponent) /\ S > 0 /\ E > 0
                                 /\ Pow2(scale + 1) = 2 * S
  BY <1>4, PowerStep
<1>6. \A p \in Pixels : Abs(coef[p]) \in Nat
  BY <1>2, SMT DEF Abs
<1>7. scale < exponent + 6
  <2>1. SUFFICES ASSUME scale = exponent + 6 PROVE FALSE
    BY <1>2, SMT
  <2>2. S = 64 * E
    <3>1. 6 \in 0 .. 6
      BY SMT
    <3>2. Pow2(exponent + 6) = Pow2(6) * Pow2(exponent)
      BY <1>2, <3>1, PowerSum
    <3>3. QED
      BY <1>5, <2>1, <3>2, Powers
  <2>3. PICK a \in Nat : a = Abs(coef[q]) /\ a * S = temp
    BY <1>3, <1>5, <1>6
  <2>4. a >= 1
    BY <1>1, <1>5, <2>3, SMT
  <2>5. a * S >= S
    BY <1>5, <2>4, SMT
  <2>6. QED
    BY <1>1, <1>2, <1>5, <2>2, <2>3, <2>5, SMT
<1>8. scale' = scale + 1 /\ scale' <= exponent + 6 /\ scale' \in 0 .. 255
  BY <1>1, <1>2, <1>7, SMT
<1>9. TypeOK'
  <2>1. temp' \in Nat
    BY <1>1, <1>2, SMT
  <2>2. QED
    BY <1>1, <1>8, <2>1 DEF IInv, TypeOK, pixelVars
<1>10. SearchInv'
  <2>1. ASSUME NEW p \in Pixels
        PROVE  /\ Abs(coef[p]) * Pow2(scale + 1) <= 2 * temp
               /\ p = q => Abs(coef[p]) * Pow2(scale + 1) = 2 * temp
    <3>1. PICK a \in Nat : a = Abs(coef[p]) /\ a * S <= temp /\ (p = q => a * S = temp)
      BY <1>2, <1>3, <1>5, <1>6
    <3>2. a * (2 * S) = 2 * (a * S) /\ a * S \in Int
      BY SMT
    <3>3. a * (2 * S) <= 2 * temp /\ (p = q => a * (2 * S) = 2 * temp)
      <4>1. PICK x \in Int : x = a * S
        BY <3>2
      <4>2. x <= temp => 2 * x <= 2 * temp
        BY <1>2, SMT
      <4>3. QED
        BY <3>1, <3>2, <4>1, <4>2
    <3>4. QED
      BY <1>5, <3>1, <3>3
  <2>2. 2 * temp < 128 * Pow2(exponent)
    BY <1>1, <1>2, <1>5, SMT
  <2>3. TrueKta' = TrueKta /\ TrueKv' = TrueKv
    BY <1>1 DEF TrueKta, TrueKv
  <2>4. /\ \A p \in Pixels : (Abs(coef[p]) * Pow2(scale) <= temp)'
        /\ \E p \in Pixels : (Abs(coef[p]) * Pow2(scale) = temp)'
    BY <1>1, <1>8, <2>1
  <2>5. QED
    BY <1>1, <1>2, <1>8, <2>2, <2>3, <2>4 DEF SearchInv
<1>11. \A f : Extracted(f)' <=> Extracted(f)
  BY <1>1 DEF Extracted
<1>12. InOrder' /\ FieldsSet'
  BY <1>1, <1>11, KeptFields DEF IInv, InOrder
<1>13. OffsetExact'
  BY <1>1, <1>11, KeptOffset DEF IInv, pixelVars
<1>14. AlphaCompensated'
  BY <1>1, <1>11, KeptAlpha DEF IInv, pixelVars
<1>15. CoefficientsAccurate'
  BY <1>1, <1>11, KeptCoefficients DEF IInv, pixelVars
<1>16. QED
  BY <1>9, <1>10, <1>12, <1>13, <1>14, <1>15 DEF IInv

\* The end of the loop and the conversion to int8_t.
LEMMA RoundIInv == ASSUME IInv, Round PROVE IInv'
<1>1. /\ UNCHANGED <<ee, params, alpha, offset>> /\ at = "loop" /\ ~Searching
      /\ todo' = Tail(todo) /\ at' = "call"
      /\ coef' = [p \in Pixels |-> 0] /\ exponent' = 0 /\ temp' = 0 /\ scale' = 0
      /\ Head(todo) = "Kta" => /\ kta' = [p \in Pixels |-> Scaled(p)] /\ ktaScale' = scale
                               /\ UNCHANGED <<kv, kvScale>>
      /\ Head(todo) # "Kta" => /\ kv' = [p \in Pixels |-> Scaled(p)] /\ kvScale' = scale
                               /\ UNCHANGED <<kta, ktaScale>>
  BY DEF Round, Done
<1>2. /\ ee \in Image /\ coef \in [Pixels -> Int] /\ exponent \in 0 .. 23 /\ temp \in Nat
      /\ scale \in 0 .. 255 /\ scale <= exponent + 6 /\ SearchInv
      /\ todo # <<>> /\ Head(todo) \in {"Kta", "Kv"}
      /\ Head(todo) = "Kta" => coef = TrueKta /\ exponent = Bits(ee[56], 7, 4) + 8
      /\ Head(todo) = "Kv" => coef = TrueKv /\ exponent = Bits(ee[56], 11, 8)
  BY <1>1 DEF IInv, TypeOK, SearchInv
<1>3. scale \in Nat /\ ee[56] \in Int
  <2>1. scale \in Nat
    BY <1>2, SMT
  <2>2. ee[56] \in Int
    BY <1>2, Words
  <2>3. QED
    BY <2>1, <2>2
<1>4. InOrder' /\ \A f : Extracted(f)' => Extracted(f) \/ Head(todo) = f
  BY <1>1, <1>2, Returned DEF IInv
<1>5. PICK E \in Int : E = Pow2(exponent) /\ E > 0
  <2>1. exponent \in 0 .. 29
    BY <1>2, SMT
  <2>2. QED
    BY <2>1, PowerStep
<1>6. \A p \in Pixels : Scaled(p) \in int8_t
  BY <1>2, <1>3, ScaledType
<1>7. TypeOK'
  <2>1. [p \in Pixels |-> Scaled(p)] \in [Pixels -> int8_t]
    BY <1>6
  <2>2. kta' \in [Pixels -> int8_t] /\ kv' \in [Pixels -> int8_t]
    BY <1>1, <2>1 DEF IInv, TypeOK
  <2>3. ktaScale' \in 0 .. 255 /\ kvScale' \in 0 .. 255
    <3>1. ktaScale \in 0 .. 255 /\ kvScale \in 0 .. 255
      BY DEF IInv, TypeOK
    <3>2. (ktaScale' = ktaScale \/ ktaScale' = scale) /\ (kvScale' = kvScale \/ kvScale' = scale)
      BY <1>1
    <3>3. QED
      BY <1>2, <3>1, <3>2, Zenon
  <2>4. coef' \in [Pixels -> Int] /\ exponent' \in 0 .. 23 /\ temp' \in Nat /\ scale' \in 0 .. 255
    BY <1>1, SMT
  <2>5. QED
    BY <1>1, <2>2, <2>3, <2>4 DEF IInv, TypeOK
<1>8. FieldsSet'
  <2>1. (Extracted("Tgc")' => Extracted("Tgc")) /\ (Extracted("CP")' => Extracted("CP"))
    BY <1>2, <1>4
  <2>2. QED
    BY <1>1, <2>1, KeptFields DEF IInv
<1>9. SearchInv'
  BY <1>1 DEF SearchInv
<1>10. OffsetExact'
  <2>1. Extracted("Offset")' => Extracted("Offset")
    BY <1>2, <1>4
  <2>2. QED
    BY <1>1, <2>1, KeptOffset DEF IInv
<1>11. AlphaCompensated'
  <2>1. Extracted("Alpha")' => Extracted("Alpha")
    BY <1>2, <1>4
  <2>2. QED
    BY <1>1, <2>1, KeptAlpha DEF IInv
<1>12. TrueKta' = TrueKta /\ TrueKv' = TrueKv
  BY <1>1 DEF TrueKta, TrueKv
<1>13. CoefficientsAccurate'
  <2>1. CASE Head(todo) = "Kta"
    <3>1. ASSUME Bits(ee[56], 3, 0) <= 5
          PROVE  Accurate(kta', scale, coef, exponent) /\ UsesRange(kta', coef)
      <4>1. \A p \in Pixels : -256 <= coef[p] /\ coef[p] <= 223
        BY <1>2, <2>1, <3>1, KtaLemma
      <4>2. E >= 256
        <5>1. exponent >= 8
          <6>1. PICK k \in 0 .. 15 : exponent = k + 8
            BY <1>2, <1>3, <2>1, Exponents
          <6>2. QED
            BY <6>1, SMT
        <5>2. 8 \in 0 .. 29 /\ exponent \in 0 .. 29 /\ 8 <= exponent
          BY <1>2, <5>1, SMT
        <5>3. Pow2(8) <= Pow2(exponent)
          BY <5>2, PowerGrows
        <5>4. QED
          BY <1>5, <5>3, Powers, SMT
      <4>3. ASSUME NEW p \in Pixels PROVE Abs(coef[p]) < 64 * Pow2(exponent)
        <5>1. PICK n \in Int : n = coef[p] /\ -256 <= n /\ n <= 223
          BY <1>2, <4>1
        <5>2. Abs(n) < 64 * E
          BY <1>5, <4>2, <5>1, SMT DEF Abs
        <5>3. QED
          BY <1>5, <5>1, <5>2
      <4>4. kta' = [p \in Pixels |-> Scaled(p)]
        BY <1>1, <2>1
      <4>5. QED
        BY <1>1, <1>2, <1>3, <4>1, <4>3, <4>4, RoundLemma
    <3>2. ASSUME Bits(ee[56], 3, 0) <= 5
          PROVE  /\ Accurate(kta, ktaScale, TrueKta, Bits(ee[56], 7, 4) + 8)'
                 /\ UsesRange(kta, TrueKta)'
      BY <1>1, <1>2, <1>12, <2>1, <3>1, <3>2 DEF Accurate, UsesRange
    <3>3. Extracted("Kv")' => Extracted("Kv")
      BY <1>4, <2>1
    <3>4. Extracted("Kv") => /\ Accurate(kv, kvScale, TrueKv, Bits(ee[56], 11, 8))'
                             /\ UsesRange(kv, TrueKv)'
      BY <1>1, <2>1, KeptKv DEF IInv
    <3>5. Bits(ee'[56], 3, 0) = Bits(ee[56], 3, 0)
      BY <1>1
    <3>6. QED
      BY <3>2, <3>3, <3>4, <3>5 DEF CoefficientsAccurate
  <2>2. CASE Head(todo) = "Kv"
    <3>1. Accurate(kv', scale, coef, exponent) /\ UsesRange(kv', coef)
      <4>1. \A p \in Pixels : -8 <= coef[p] /\ coef[p] <= 7
        BY <1>2, <2>2, KvLemma
      <4>2. ASSUME NEW p \in Pixels
            PROVE  -256 <= coef[p] /\ coef[p] <= 223 /\ Abs(coef[p]) < 64 * Pow2(exponent)
        <5>1. PICK n \in Int : n = coef[p] /\ -8 <= n /\ n <= 7
          BY <1>2, <4>1
        <5>2. -256 <= n /\ n <= 223 /\ Abs(n) < 64 * E
          BY <1>5, <5>1, SMT DEF Abs
        <5>3. QED
          BY <1>5, <5>1, <5>2
      <4>3. kv' = [p \in Pixels |-> Scaled(p)]
        BY <1>1, <2>2
      <4>4. QED
        BY <1>1, <1>2, <1>3, <4>2, <4>3, RoundLemma
    <3>2. Accurate(kv, kvScale, TrueKv, Bits(ee[56], 11, 8))' /\ UsesRange(kv, TrueKv)'
      BY <1>1, <1>2, <1>12, <2>2, <3>1 DEF Accurate, UsesRange
    <3>3. Extracted("Kta")' => Extracted("Kta")
      BY <1>4, <2>2
    <3>4. Extracted("Kta") /\ Bits(ee[56], 3, 0) <= 5 =>
              /\ Accurate(kta, ktaScale, TrueKta, Bits(ee[56], 7, 4) + 8)'
              /\ UsesRange(kta, TrueKta)'
      BY <1>1, <2>2, KeptKta DEF IInv
    <3>5. Bits(ee'[56], 3, 0) = Bits(ee[56], 3, 0)
      BY <1>1
    <3>6. QED
      BY <3>2, <3>3, <3>4, <3>5 DEF CoefficientsAccurate
  <2>3. QED
    BY <1>2, <2>1, <2>2
<1>14. QED
  BY <1>4, <1>7, <1>8, <1>9, <1>10, <1>11, <1>13 DEF IInv

\* Initially no call has been made.
LEMMA InitIInv == Init => IInv
<1> SUFFICES ASSUME Init PROVE IInv
  OBVIOUS
<1>1. todo = Order /\ at = "call"
  BY DEF Init
<1>2. InOrder
  <2>1. Order \in Seq(Extractors)
    BY SMT DEF Order, Extractors
  <2>2. Len(Order) = 13
    BY SMT DEF Order
  <2>3. \A n \in 1 .. 13 : 13 - 13 + n = n
    BY SMT
  <2>4. QED
    BY <1>1, <2>1, <2>2, <2>3 DEF InOrder
<1>3. \A f \in {"Tgc", "CP", "Alpha", "Offset", "Kta", "Kv"} : ~Extracted(f)
  <2>1. Len(Order) = 13 /\ Order[4] = "Tgc" /\ Order[8] = "CP" /\ Order[9] = "Alpha"
        /\ Order[10] = "Offset" /\ Order[11] = "Kta" /\ Order[12] = "Kv"
    BY DEF Order
  <2>2. 4 \in 1 .. 13 /\ 8 \in 1 .. 13 /\ 9 \in 1 .. 13 /\ 10 \in 1 .. 13 /\ 11 \in 1 .. 13 /\ 12 \in 1 .. 13
    BY SMT
  <2>3. QED
    BY <1>1, <2>1, <2>2 DEF Extracted
<1>4. TypeOK
  <2>1. 0 \in int16_t /\ 0 \in int8_t /\ 0 \in Word /\ ee \in Image
    <3>1. 0 \in int16_t
      BY InInt16
    <3>2. 0 \in Word
      <4>1. PICK hi \in Int : hi = 65535
        BY SMT
      <4>2. 0 <= hi
        BY <4>1, SMT
      <4>3. 0 \in 0 .. hi
        BY <4>2, SMT
      <4>4. QED
        BY <4>1, <4>3 DEF Word
    <3>3. 0 \in int8_t
      BY SMT DEF int8_t
    <3>4. QED
      BY <3>1, <3>2, <3>3, SizeAssumption DEF Init
  <2>2. /\ <<0, 0, 0, 0, 0>> \in [1 .. 5 -> int16_t] /\ <<0, 0, 0, 0>> \in [1 .. 4 -> int8_t]
        /\ <<0, 0>> \in [1 .. 2 -> int16_t] /\ <<0, 0>> \in [1 .. 2 -> Int]
        /\ <<0, 0, 0>> \in [1 .. 3 -> -32 .. 31]
    BY <2>1
  <2>3. /\ 0 \in -32 .. 31 /\ 0 \in -512 .. 511 /\ 0 \in 0 .. 47 /\ 0 \in 0 .. 3 /\ 0 \in 0 .. 23
        /\ 0 \in {0, 128} /\ 0 \in 0 .. 255 /\ 0 \in Nat /\ 0 \in Int
    BY SMT
  <2>4. params \in Params
    BY <2>1, <2>2, <2>3 DEF Init, Params
  <2>5. QED
    BY <2>1, <2>3, <2>4, AlphaRange DEF Init, TypeOK
<1>5. FieldsSet /\ OffsetExact /\ AlphaCompensated /\ CoefficientsAccurate
  BY <1>3 DEF FieldsSet, OffsetExact, AlphaCompensated, CoefficientsAccurate
<1>6. SearchInv
  BY <1>1 DEF SearchInv
<1>7. QED
  BY <1>2, <1>4, <1>5, <1>6 DEF IInv

LEMMA NextIInv == IInv /\ [Next]_vars => IInv'
<1> SUFFICES ASSUME IInv, [Next]_vars PROVE IInv'
  OBVIOUS
<1>1. CASE UNCHANGED vars
  <2>1. UNCHANGED <<ee, todo, params, alpha, offset, kta, kv, ktaScale, kvScale, coef, exponent,
                    temp, scale, at>>
    BY <1>1 DEF vars, pixelVars, loopVars
  <2>2. \A f : Extracted(f)' <=> Extracted(f)
    BY <2>1 DEF Extracted
  <2>3. TypeOK' /\ InOrder'
    BY <2>1 DEF IInv, TypeOK, InOrder
  <2>4. SearchInv'
    BY <2>1 DEF IInv, SearchInv, TrueKta, TrueKv
  <2>5. QED
    BY <2>1, <2>2, <2>3, <2>4, KeptFields, KeptOffset, KeptAlpha, KeptCoefficients DEF IInv
<1>2. CASE Next
  BY <1>2, SetsIInv, AlphaIInv, OffsetIInv, SearchIInv, DoubleIInv, RoundIInv DEF Next
<1>3. QED
  BY <1>1, <1>2

\* The inductive invariant holds in every state of the extraction.
THEOREM InvariantHolds == Spec => []IInv
<1>1. Init => IInv
  BY InitIInv
<1>2. IInv /\ [Next]_vars => IInv'
  BY NextIInv
<1>3. QED
  BY <1>1, <1>2, PTL DEF Spec

\* Whatever the image, MLX90640_ExtractParameters keeps the types of paramsMLX90640.
THEOREM TypeCorrect == Spec => []TypeOK
<1>1. IInv => TypeOK
  BY DEF IInv
<1>2. QED
  BY <1>1, InvariantHolds, PTL

\* ExtractOffsetParameters: for every image and array the offset is exact when the sum
\* fits, although a part of it passed through the 16 bits of offset[p].
THEOREM OffsetExactHolds == Spec => []OffsetExact
<1>1. IInv => OffsetExact
  BY DEF IInv
<1>2. QED
  BY <1>1, InvariantHolds, PTL

\* ExtractAlphaParameters: for every image the sensitivities are compensated with the
\* tgc and the cpAlpha of that image.
THEOREM AlphaCompensatedHolds == Spec => []AlphaCompensated
<1>1. IInv => AlphaCompensated
  BY DEF IInv
<1>2. QED
  BY <1>1, InvariantHolds, PTL

\* ExtractKtaPixelParameters and ExtractKvPixelParameters: for every image the scaled
\* coefficients are off by no more than the rounding and use the range of int8_t.
THEOREM CoefficientsAccurateHolds == Spec => []CoefficientsAccurate
<1>1. IInv => CoefficientsAccurate
  BY DEF IInv
<1>2. QED
  BY <1>1, InvariantHolds, PTL
=============================================================================
