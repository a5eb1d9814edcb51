----------------------------- MODULE Calibration -----------------------------
(***************************************************************************)
(* MLX90640_ExtractParameters (MLX90640_API.c): how the EEPROM image       *)
(* becomes the structure paramsMLX90640, one function after the other.     *)
(* The image is whatever MLX90640_DumpEE left in eeMLX90640: the           *)
(* calibration of some sensor, zeros, or words in the wrong byte order     *)
(* after a dump that failed.  ExtractDeviatingPixels, the last function,   *)
(* is the subject of BadPixels.                                            *)
(*                                                                         *)
(* A float that the code divides by a power of two is represented by its   *)
(* numerator, which is exact since it has at most 24 bits.  Only in the    *)
(* sensitivities floats round: a difference and a quotient, which are      *)
(* exact in the model up to the conversion to uint16_t.  Where the exact   *)
(* quotient is within its 2^-22th part of the middle between two whole     *)
(* numbers, the code may store the other one.                              *)
(***************************************************************************)
EXTENDS Integers, Sequences, FiniteSets

CONSTANTS
    Rows, Cols,  \* the array, 24 lines of 32 pixels in the code
    Eeproms      \* the images to extract from

Pixels == 0 .. Rows * Cols - 1
Word == 0 .. 65535
Image == [0 .. 63 + Rows * Cols -> Word]

ASSUME SizeAssumption ==
    /\ Rows \in 1 .. 24 /\ Cols \in 1 .. 32
    /\ Eeproms \subseteq Image

Extractors == {"VDD", "PTAT", "Gain", "Tgc", "Resolution", "KsTa", "KsTo", "CP", "Alpha",
               "Offset", "Kta", "Kv", "CILC"}

\* Mutant of Order: the sensitivities are extracted before the compensation pixel.
OrderAlphaFirst == <<"VDD", "PTAT", "Gain", "Tgc", "Resolution", "KsTa", "KsTo", "Alpha",
                     "CP", "Offset", "Kta", "Kv", "CILC">>

\* The calls of MLX90640_ExtractParameters.
Order == <<"VDD", "PTAT", "Gain", "Tgc", "Resolution", "KsTa", "KsTo", "CP", "Alpha",
           "Offset", "Kta", "Kv", "CILC">>

VARIABLES
    ee,        \* eeMLX90640
    todo,      \* calls still to make
    params,    \* the fields that are no arrays of pixels, by name
    alpha, offset, kta, kv, ktaScale, kvScale,
    coef,      \* ktaTemp or kvTemp: the numerator of each pixel's coefficient
    exponent,  \* of the denominator of coef
    temp,      \* numerator of temp in the loop that finds the scale
    scale,     \* ktaScale1 or kvScale in that loop
    at         \* place in the function: "call", or "loop" in the search for the scale

pixelVars == <<alpha, offset, kta, kv, ktaScale, kvScale>>
loopVars == <<coef, exponent, temp, scale>>
vars == <<ee, todo, params, pixelVars, loopVars, at>>
-----------------------------------------------------------------------------
(* Bits and integers.                                                      *)

\* pow(2, k) and 1 << k.
Pow2(k) == 2^k

\* (w & mask) >> lo, where mask has the bits lo to hi.
Bits(w, hi, lo) == (w % 2^(hi + 1)) \div 2^lo

\* Mutant of Signed: the smallest number is taken for a positive one.
SignedLate(x, half) == IF x > half THEN x - 2 * half ELSE x

\* if (x > half - 1) x = x - 2 * half
Signed(x, half) == IF x > half - 1 THEN x - 2 * half ELSE x

int8_t == -128 .. 127
int16_t == -32768 .. 32767

\* Conversion to these types.
Int8(x) == ((x + 128) % 256) - 128
Int16(x) == ((x + 32768) % 65536) - 32768

\* Nibble n of a line of four per word, and its sign.
Nibble(first, n) == Signed(Bits(ee[first + (n \div 4)], 4 * (n % 4) + 3, 4 * (n % 4)), 8)

Row(p) == p \div Cols
Col(p) == p % Cols

\* split: odd or even line, odd or even column.
Split(p) == 2 * ((p \div Cols) - (p \div (2 * Cols)) * 2) + (p % 2)

Abs(x) == IF x < 0 THEN -x ELSE x

\* (int8_t)(n / Pow2(k) -+ 0.5f): rounding half away from zero, then the conversion.
Rounded(n, k) ==
    LET magnitude == (2 * Abs(n) + Pow2(k)) \div Pow2(k + 1)
    IN Int8(IF n < 0 THEN -magnitude ELSE magnitude)
-----------------------------------------------------------------------------
\* The structure is static and the extraction runs once, at boot.
Init ==
    /\ ee \in Eeproms
    /\ todo = Order
    /\ params = [kVdd |-> 0, vdd25 |-> 0, KvPTAT |-> 0, KtPTAT |-> 0, vPTAT25 |-> 0,
                 alphaPTAT |-> 0, gainEE |-> 0, tgc |-> 0, resolutionEE |-> 0, KsTa |-> 0,
                 ct |-> <<0, 0, 0, 0, 0>>, ksTo |-> <<0, 0, 0, 0>>, KsToScale |-> 0,
                 cpOffset |-> <<0, 0>>, cpAlpha |-> <<0, 0>>, cpKta |-> 0, cpKv |-> 0,
                 calibrationModeEE |-> 0, ilChessC |-> <<0, 0, 0>>]
    /\ alpha = [p \in Pixels |-> 0] /\ offset = [p \in Pixels |-> 0]
    /\ kta = [p \in Pixels |-> 0] /\ kv = [p \in Pixels |-> 0]
    /\ ktaScale = 0 /\ kvScale = 0
    /\ coef = [p \in Pixels |-> 0] /\ exponent = 0 /\ temp = 0 /\ scale = 0
    /\ at = "call"

Calls(f) == at = "call" /\ todo # <<>> /\ Head(todo) = f
Done == todo' = Tail(todo) /\ at' = "call"

\* A function that only sets fields.
Sets(f, new) ==
    /\ Calls(f) /\ Done
    /\ params' = new
    /\ UNCHANGED <<ee, pixelVars, loopVars>>

ExtractVDDParameters ==
    Sets("VDD", [params EXCEPT
        !.kVdd = Int16(32 * Signed(Bits(ee[51], 15, 8), 128)),
        !.vdd25 = Int16((Bits(ee[51], 7, 0) - 256) * 32 - 8192)])

\* In units of 1/4096, 1/8, 1 and 1/4; vPTAT25 passes through an int16_t on its way
\* to a uint16_t.
ExtractPTATParameters ==
    Sets("PTAT", [params EXCEPT
        !.KvPTAT = Signed(Bits(ee[50], 15, 10), 32),
        !.KtPTAT = Signed(Bits(ee[50], 9, 0), 512),
        !.vPTAT25 = Int16(ee[49]) % 65536,
        !.alphaPTAT = Bits(ee[16], 15, 12) + 32])

ExtractGainParameters == Sets("Gain", [params EXCEPT !.gainEE = Signed(Int16(ee[48]), 32768)])

\* In units of 1/32.
ExtractTgcParameters == Sets("Tgc", [params EXCEPT !.tgc = Signed(Bits(ee[60], 7, 0), 128)])

ExtractResolutionParameters ==
    Sets("Resolution", [params EXCEPT !.resolutionEE = Bits(ee[56], 13, 12)])

\* In units of 1/8192.
ExtractKsTaParameters == Sets("KsTa", [params EXCEPT !.KsTa = Signed(Bits(ee[60], 15, 8), 128)])

\* The corner temperatures, and the slopes in units of 2^-KsToScale; ksTo[4] is a
\* constant and left out.
ExtractKsToParameters ==
    LET step == Int8(Bits(ee[63], 13, 12) * 10)
        ct2 == Bits(ee[63], 7, 4) * step
    IN Sets("KsTo", [params EXCEPT
        !.ct = <<-40, 0, Int16(ct2), Int16(ct2 + Bits(ee[63], 11, 8) * step), 400>>,
        !.KsToScale = Bits(ee[63], 3, 0) + 8,
        !.ksTo = <<Signed(Bits(ee[61], 7, 0), 128), Signed(Bits(ee[61], 15, 8), 128),
                   Signed(Bits(ee[62], 7, 0), 128), Signed(Bits(ee[62], 15, 8), 128)>>])

\* cpAlpha in units of 2^-(e + 34), cpKta and cpKv in those of word 56.
ExtractCPParameters ==
    LET offset0 == Signed(Bits(ee[58], 9, 0), 512)
        alpha0 == Signed(Bits(ee[57], 9, 0), 512)
        ratio == Signed(Bits(ee[57], 15, 10), 32)
    IN Sets("CP", [params EXCEPT
        !.cpOffset = <<offset0, Int16(Signed(Bits(ee[58], 15, 10), 32) + offset0)>>,
        !.cpAlpha = <<128 * alpha0, (128 + ratio) * alpha0>>,
        !.cpKta = Signed(Bits(ee[59], 7, 0), 128),
        !.cpKv = Signed(Bits(ee[59], 15, 8), 128)])

\* In units of 1/16, 1/2 and 1/8.
ExtractCILCParameters ==
    Sets("CILC", [params EXCEPT
        !.calibrationModeEE = 128 - 128 * Bits(ee[10], 11, 11),
        !.ilChessC = <<Signed(Bits(ee[53], 5, 0), 32), Signed(Bits(ee[53], 10, 6), 16),
                       Signed(Bits(ee[53], 15, 11), 16)>>])
-----------------------------------------------------------------------------
(* The pixels.                                                             *)

\* Reference + row + column + the pixel's own part.
AlphaSum(p) ==
    ee[33] + Nibble(34, Row(p)) * Pow2(Bits(ee[32], 11, 8)) + Nibble(40, Col(p)) * Pow2(Bits(ee[32], 7, 4))
           + Signed(Bits(ee[64 + p], 9, 4), 32) * Pow2(Bits(ee[32], 3, 0))

\* Less the part of the compensation pixel, with the tgc and the cpAlpha extracted
\* before, in units of 2^-(e + 40) for the e in the upper bits of word 32: 1024 of
\* them make one of the sum.
Sensitivity(p) ==
    1024 * AlphaSum(p) - params.tgc * (params.cpAlpha[1] + params.cpAlpha[2])

\* The quotient of a long division by d that has come to these digits and this rest,
\* n binary zeros further.  Beyond the bound Big it is beyond a uint16_t in any case.
Big == 2147483647

Doubled(x) == IF x > Big \div 2 THEN Big - 1 ELSE 2 * x

LongDivision[n \in Nat, digits \in Nat, rest \in Nat, d \in Nat \ {0}] ==
    IF n = 0 THEN digits
    ELSE IF rest >= d - rest THEN LongDivision[n - 1, Doubled(digits) + 1, rest - (d - rest), d]
    ELSE LongDivision[n - 1, Doubled(digits), 2 * rest, d]

\* Twice SCALEALPHA / alphaTemp, rounded down, where d > 0 units are alphaTemp:
\* 2 * 10^-6 * 2^(e + 40) is 2^(e + 35) / 15625.
TwiceQuotient(d) ==
    LongDivision[Bits(ee[32], 15, 12) + 5, Pow2(30) \div d, Pow2(30) % d, d] \div 15625

\* What a conversion to uint16_t leaves that the language does not define.
Undefined == -1

\* alpha = (uint16_t)(SCALEALPHA / alphaTemp + 0.5f), alphaTemp of d units; an
\* alphaTemp of 0 gives an infinity, and a negative sum above -1 is cut off to 0.
\* alphaScale is 0, and the largest quotient is not used, since the search for a
\* scale is commented out.
StoredAlpha(d) ==
    LET nearest == (TwiceQuotient(d) + 1) \div 2
    IN IF d > 0 THEN (IF nearest \in Word THEN nearest ELSE Undefined)
       ELSE IF d < 0 /\ TwiceQuotient(-d) < 3 THEN 0 ELSE Undefined

ExtractAlphaParameters ==
    /\ Calls("Alpha") /\ Done
    /\ alpha' = [p \in Pixels |-> StoredAlpha(Sensitivity(p))]
    /\ UNCHANGED <<ee, params, offset, kta, kv, ktaScale, kvScale, loopVars>>

\* Mutant of Offset: the pixel's own part is clipped and not wrapped on its way.
OffsetClipped(p) ==
    LET own == Signed(Bits(ee[64 + p], 15, 10), 32) * Pow2(Bits(ee[16], 3, 0))
    IN Int16(Int16(ee[17]) + Nibble(18, Row(p)) * Pow2(Bits(ee[16], 11, 8))
             + Nibble(24, Col(p)) * Pow2(Bits(ee[16], 7, 4))
             + (IF own > 32767 THEN 32767 ELSE IF own < -32768 THEN -32768 ELSE own))

\* offset[p] holds the pixel's own part before the sum, and is an int16_t.
Offset(p) ==
    LET own == Int16(Signed(Bits(ee[64 + p], 15, 10), 32) * Pow2(Bits(ee[16], 3, 0)))
    IN Int16(Int16(ee[17]) + Nibble(18, Row(p)) * Pow2(Bits(ee[16], 11, 8))
             + Nibble(24, Col(p)) * Pow2(Bits(ee[16], 7, 4)) + own)

ExtractOffsetParameters ==
    /\ Calls("Offset") /\ Done
    /\ offset' = [p \in Pixels |-> Offset(p)]
    /\ UNCHANGED <<ee, params, alpha, kta, kv, ktaScale, kvScale, loopVars>>

\* KtaRC[split] and KvT[split].
KtaRC(split) ==
    Signed(Int8(CASE split = 0 -> Bits(ee[54], 15, 8) [] split = 1 -> Bits(ee[55], 15, 8)
                  [] split = 2 -> Bits(ee[54], 7, 0) [] split = 3 -> Bits(ee[55], 7, 0)), 128)

KvT(split) ==
    Signed(CASE split = 0 -> Bits(ee[52], 15, 12) [] split = 1 -> Bits(ee[52], 7, 4)
             [] split = 2 -> Bits(ee[52], 11, 8) [] split = 3 -> Bits(ee[52], 3, 0), 8)

\* ktaTemp or kvTemp has been filled with f / Pow2(k), temp with its largest magnitude.
Search(f, k) ==
    /\ coef' = f
    /\ exponent' = k
    /\ temp' \in {Abs(f[p]) : p \in Pixels} /\ \A p \in Pixels : Abs(f[p]) <= temp'
    /\ scale' = 0
    /\ at' = "loop"
    /\ UNCHANGED <<ee, todo, params, pixelVars>>

ExtractKtaPixelParameters ==
    /\ Calls("Kta")
    /\ Search([p \in Pixels |-> KtaRC(Split(p))
                  + Signed(Bits(ee[64 + p], 3, 1), 4) * Pow2(Bits(ee[56], 3, 0))],
              Bits(ee[56], 7, 4) + 8)

ExtractKvPixelParameters ==
    /\ Calls("Kv")
    /\ Search([p \in Pixels |-> KvT(Split(p))], Bits(ee[56], 11, 8))

\* Mutant of Searching: the loop is entered for temp = 0 too.
SearchingAlways == temp < 64 * Pow2(exponent)

\* Mutant of Searching: one turn more.
SearchingMore == 0 < temp /\ temp < 128 * Pow2(exponent)

\* if(temp > 0) while(temp < 64): temp only grows, so that the test may be repeated.
Searching == 0 < temp /\ temp < 64 * Pow2(exponent)

Double ==
    /\ at = "loop" /\ Searching
    /\ temp' = 2 * temp
    /\ scale' = (scale + 1) % 256
    /\ UNCHANGED <<ee, todo, params, pixelVars, coef, exponent, at>>

\* coef * Pow2(scale) / Pow2(exponent), rounded; at most one of the exponents is left.
Scaled(p) ==
    IF scale >= exponent THEN Int8(coef[p] * Pow2(scale - exponent))
    ELSE Rounded(coef[p], exponent - scale)

Round ==
    /\ at = "loop" /\ ~Searching
    /\ Done
    /\ IF Head(todo) = "Kta"
       THEN /\ kta' = [p \in Pixels |-> Scaled(p)] /\ ktaScale' = scale
            /\ UNCHANGED <<kv, kvScale>>
       ELSE /\ kv' = [p \in Pixels |-> Scaled(p)] /\ kvScale' = scale
            /\ UNCHANGED <<kta, ktaScale>>
    /\ coef' = [p \in Pixels |-> 0] /\ exponent' = 0 /\ temp' = 0 /\ scale' = 0
    /\ UNCHANGED <<ee, params, alpha, offset>>
-----------------------------------------------------------------------------
Next ==
    \/ ExtractVDDParameters \/ ExtractPTATParameters \/ ExtractGainParameters
    \/ ExtractTgcParameters \/ ExtractResolutionParameters \/ ExtractKsTaParameters
    \/ ExtractKsToParameters \/ ExtractCPParameters \/ ExtractCILCParameters
    \/ ExtractAlphaParameters \/ ExtractOffsetParameters
    \/ ExtractKtaPixelParameters \/ ExtractKvPixelParameters
    \/ Double \/ Round

Spec == Init /\ [][Next]_vars

\* The main thread, which boots the system, keeps running.
FairSpec == Spec /\ WF_vars(Next)
-----------------------------------------------------------------------------
(* Properties.                                                             *)

\* Integers have their types in paramsMLX90640; of a float the numerator is in the
\* range of the field of the EEPROM it comes from.
Params ==
    [kVdd: int16_t, vdd25: int16_t, KvPTAT: -32 .. 31, KtPTAT: -512 .. 511,
     vPTAT25: Word, alphaPTAT: 0 .. 47, gainEE: int16_t, tgc: int8_t, resolutionEE: 0 .. 3,
     KsTa: int8_t, ct: [1 .. 5 -> int16_t], ksTo: [1 .. 4 -> int8_t], KsToScale: 0 .. 23,
     cpOffset: [1 .. 2 -> int16_t], cpAlpha: [1 .. 2 -> Int], cpKta: int8_t, cpKv: int8_t,
     calibrationModeEE: {0, 128}, ilChessC: [1 .. 3 -> -32 .. 31]]

\* The types of the structure and of the variables of the loops.
TypeOK ==
    /\ ee \in Image
    /\ at \in {"call", "loop"}
    /\ params \in Params
    /\ alpha \in [Pixels -> Undefined .. 65535] /\ offset \in [Pixels -> int16_t]
    /\ kta \in [Pixels -> int8_t] /\ kv \in [Pixels -> int8_t]
    /\ ktaScale \in 0 .. 255 /\ kvScale \in 0 .. 255
    /\ coef \in [Pixels -> Int] /\ exponent \in 0 .. 23 /\ temp \in Nat /\ scale \in 0 .. 255

\* f has returned.
Extracted(f) == \A n \in 1 .. Len(todo) : todo[n] # f

\* The number in two's complement that the bits lo to hi of a word hold.
Field(w, hi, lo) ==
    ((w \div 2^lo) % 2^(hi - lo + 1)) - 2^(hi - lo + 1) * ((w \div 2^hi) % 2)

NibbleField(first, n) == Field(ee[first + (n \div 4)], 4 * (n % 4) + 3, 4 * (n % 4))

TrueOffset(p) ==
    Field(ee[17], 15, 0) + NibbleField(18, Row(p)) * Pow2(Bits(ee[16], 11, 8))
    + NibbleField(24, Col(p)) * Pow2(Bits(ee[16], 7, 4))
    + Field(ee[64 + p], 15, 10) * Pow2(Bits(ee[16], 3, 0))

\* ExtractOffsetParameters: although offset[p] holds a part of the sum that need not
\* fit into its 16 bits, the offset is exact whenever the sum itself fits.
OffsetExact ==
    Extracted("Offset") =>
        \A p \in Pixels : TrueOffset(p) \in int16_t => offset[p] = TrueOffset(p)

TrueSensitivity(p) ==
    1024 * (ee[33] + NibbleField(34, Row(p)) * Pow2(Bits(ee[32], 11, 8))
            + NibbleField(40, Col(p)) * Pow2(Bits(ee[32], 7, 4))
            + Field(ee[64 + p], 9, 4) * Pow2(Bits(ee[32], 3, 0)))
    - Field(ee[60], 7, 0) * Field(ee[57], 9, 0) * (256 + Field(ee[57], 15, 10))

\* ExtractAlphaParameters: what is stored in alpha is the rounded inverse of the
\* sensitivity that is left when the part of the compensation pixel has been taken
\* off, with the tgc and the cpAlpha of this EEPROM: the functions that set them have
\* been called before.
AlphaCompensated ==
    Extracted("Alpha") => \A p \in Pixels : alpha[p] = StoredAlpha(TrueSensitivity(p))

\* value / Pow2(s) is n / Pow2(k) for each pixel, to half a unit of value.
Accurate(value, s, n, k) ==
    \A p \in Pixels : Abs(value[p] * Pow2(k) - n[p] * Pow2(s)) <= Pow2(k) \div 2

\* The range of int8_t is used, unless there is nothing to scale.
UsesRange(value, n) ==
    (\E p \in Pixels : n[p] # 0) => \E p \in Pixels : Abs(value[p]) >= 64

TrueKta ==
    [p \in Pixels |-> Field(ee[54 + (p % 2)], IF Row(p) % 2 = 0 THEN 15 ELSE 7,
                                               IF Row(p) % 2 = 0 THEN 8 ELSE 0)
                      + Field(ee[64 + p], 3, 1) * Pow2(Bits(ee[56], 3, 0))]

TrueKv ==
    [p \in Pixels |-> LET lo == 12 - 4 * (Row(p) % 2) - 8 * (p % 2)
                      IN Field(ee[52], lo + 3, lo)]

\* ExtractKtaPixelParameters and ExtractKvPixelParameters: the common scale found by
\* the loop makes the largest coefficient use the range of int8_t and none leave it,
\* and each is off by no more than the rounding.  Above 5 the exponent ktaScale2
\* admits sums, such as 255, that round to 128 and wrap.
CoefficientsAccurate ==
    /\ Extracted("Kta") /\ Bits(ee[56], 3, 0) <= 5 =>
           /\ Accurate(kta, ktaScale, TrueKta, Bits(ee[56], 7, 4) + 8)
           /\ UsesRange(kta, TrueKta)
    /\ Extracted("Kv") =>
           /\ Accurate(kv, kvScale, TrueKv, Bits(ee[56], 11, 8))
           /\ UsesRange(kv, TrueKv)

\* The extraction ends for every image, in particular for the zeros that a failed
\* MLX90640_DumpEE leaves, for which the loops that search for a scale would not.
ExtractionEnds == <>(todo = <<>>)
-----------------------------------------------------------------------------
(* The inductive invariant behind OffsetExact, AlphaCompensated and         *)
(* CoefficientsAccurate.                                                    *)

\* The calls still to make are the last ones of Order.
InOrder ==
    /\ todo \in Seq(Extractors) /\ Len(todo) <= 13
    /\ \A n \in 1 .. Len(todo) : todo[n] = Order[13 - Len(todo) + n]

\* What a call has set is what the formulas of the code give for this image.
FieldsSet ==
    /\ Extracted("Tgc") => params.tgc = Signed(Bits(ee[60], 7, 0), 128)
    /\ Extracted("CP") =>
          LET alpha0 == Signed(Bits(ee[57], 9, 0), 512)
              ratio == Signed(Bits(ee[57], 15, 10), 32)
          IN params.cpAlpha[1] = 128 * alpha0 /\ params.cpAlpha[2] = (128 + ratio) * alpha0

\* In the search for a scale temp is the largest magnitude, doubled scale times, and
\* it has been below the bound before it was last doubled.
SearchInv ==
    at = "loop" =>
        /\ todo # <<>> /\ Head(todo) \in {"Kta", "Kv"}
        /\ Head(todo) = "Kta" => coef = TrueKta /\ exponent = Bits(ee[56], 7, 4) + 8
        /\ Head(todo) = "Kv" => coef = TrueKv /\ exponent = Bits(ee[56], 11, 8)
        /\ scale <= exponent + 6
        /\ \A p \in Pixels : Abs(coef[p]) * Pow2(scale) <= temp
        /\ \E p \in Pixels : Abs(coef[p]) * Pow2(scale) = temp
        /\ scale > 0 => temp < 128 * Pow2(exponent)

IInv ==
    /\ TypeOK /\ InOrder /\ FieldsSet /\ SearchInv
    /\ OffsetExact /\ AlphaCompensated /\ CoefficientsAccurate
=============================================================================
