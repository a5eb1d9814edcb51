---------------------------- MODULE MCCalibration ----------------------------
(* Calibration for an array of 4 by 4 pixels.  The images are three         *)
(* backgrounds with one word replaced, zeros (no dump), a calibration and   *)
(* all ones (no sensor), and the calibration with the words that are used   *)
(* together replaced together.                                              *)
EXTENDS Calibration

Typical ==
    [w \in 0 .. 79 |->
        CASE w = 10 -> 6401  [] w = 16 -> 16912 [] w = 17 -> 65467 [] w = 18 -> 514
          [] w = 24 -> 61938 [] w = 32 -> 31142 [] w = 33 -> 12100 [] w = 34 -> 61166
          [] w = 40 -> 13107 [] w = 48 -> 6383  [] w = 49 -> 12273 [] w = 50 -> 22866
          [] w = 51 -> 40296 [] w = 52 -> 21588 [] w = 53 -> 2452  [] w = 54 -> 26966
          [] w = 55 -> 21332 [] w = 56 -> 9059  [] w = 57 -> 58438 [] w = 58 -> 64437
          [] w = 59 -> 1099  [] w = 60 -> 61472 [] w = 61 -> 38807 [] w = 62 -> 38807
          [] w = 63 -> 10377 [] w > 63 -> (2208 + 1537 * (w - 64)) % 65536
          [] OTHER -> 0]

Backgrounds == {[w \in 0 .. 79 |-> 0], Typical, [w \in 0 .. 79 |-> 65535]}

Read == {10, 16, 17, 18, 24, 32, 33, 34, 40} \cup 48 .. 63 \cup {64, 69, 79}

\* Bit patterns at the borders of the fields.
Probes == {0, 1, 127, 128, 255, 256, 32767, 32768, 33410, 34952, 30583, 65280, 65534, 65535}

OneWord == {[b EXCEPT ![w] = x] : b \in Backgrounds, w \in Read, x \in Probes}

Offsets ==
    {[Typical EXCEPT ![16] = x, ![18] = y, ![64] = z] :
        x \in {16912, 257, 3855, 1807, 2571}, y \in {0, 8, 7, 15}, z \in {0, 2208, 32768, 31744, 64512}}

Ktas ==
    {[Typical EXCEPT ![54] = x, ![55] = x, ![56] = y, ![64] = z, ![79] = z] :
        x \in {0, 128, 256, 32639, 32896, 65535},
        y \in {0, 1, 5, 15, 53, 245, 240, 255, 3840}, z \in {0, 2, 6, 8, 14}}

MCEeproms == OneWord \cup Offsets \cup Ktas

\* The long division is a division, as far as TLC's integers reach.
ASSUME DivisionIsExact ==
    \A a \in {1, 999, 65535, 1000003}, d \in {1, 2, 3, 7, 1000, 65535, 1500000}, n \in 0 .. 10 :
        LongDivision[n, a \div d, a % d, d] = (a * Pow2(n)) \div d
=============================================================================
