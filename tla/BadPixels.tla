----------------------------- MODULE BadPixels -----------------------------
(***************************************************************************)
(* The deviating pixels of the sensor: ExtractDeviatingPixels finds them   *)
(* in the EEPROM when the parameters are extracted, and thread1 has        *)
(* MLX90640_BadPixelsCorrection replace their temperatures after each      *)
(* MLX90640_CalculateTo, whatever the extraction returned.  The            *)
(* temperatures follow the mode the frame carries; the correction is told  *)
(* chess mode always, and the sensor may be interleaved all the same, for  *)
(* MLX90640_INIT ignores what MLX90640_SetChessMode returns.               *)
(*                                                                         *)
(* An EEPROM word is represented by what the extraction makes of it: zero  *)
(* is a broken pixel, an odd word an outlier.  A temperature is            *)
(* represented by the set of pixels whose raw measurement it depends on.   *)
(* brokenPixels and outlierPixels are the last two members of              *)
(* paramsMLX90640, so a walk that does not meet 0xFFFF in the first list   *)
(* goes on in the second, and a walk that does not meet it there leaves    *)
(* the structure.                                                          *)
(***************************************************************************)
EXTENDS Integers

CONSTANTS
    Width, Height,  \* the pixel array (32 x 24 in the code)
    ListSize,       \* length of brokenPixels and of outlierPixels (5 in the code)
    NoPixel,        \* the list terminator (0xFFFF in the code)
    Eeproms         \* the EEPROM contents considered

Pixels == 0 .. Width * Height - 1

Classes == {"good", "broken", "outlier"}

ASSUME GeometryAssumption ==
    /\ Width \in Nat /\ Width > 3 /\ Width % 2 = 0
    /\ Height \in Nat /\ Height > 2

ASSUME ListAssumption == ListSize \in Nat \ {0} /\ NoPixel \notin Pixels

ASSUME EepromAssumption == Eeproms \subseteq [Pixels -> Classes]

Slots == 0 .. ListSize - 1

Entries == Pixels \cup {NoPixel}

VARIABLES
    eeprom,                        \* the pixel words of eeMLX90640
    mode,                          \* of the sensor: 1 chess, 0 interleaved
    brokenPixels, outlierPixels,   \* the lists of paramsMLX90640
    brokenPixCnt, outlierPixCnt,   \* local variables of ExtractDeviatingPixels
    pixCnt,
    warn,                          \* what ExtractDeviatingPixels returned
    pc,
    pix,                           \* the entry the correction is at, from brokenPixels on
    to                             \* mlx90640To

vars == <<eeprom, mode, brokenPixels, outlierPixels, brokenPixCnt, outlierPixCnt,
          pixCnt, warn, pc, pix, to>>

scanVars == <<brokenPixels, outlierPixels, brokenPixCnt, outlierPixCnt, pixCnt>>

TypeOK ==
    /\ eeprom \in [Pixels -> Classes]
    /\ mode \in {0, 1}
    /\ brokenPixels \in [Slots -> Entries]
    /\ outlierPixels \in [Slots -> Entries]
    /\ brokenPixCnt \in 0 .. ListSize
    /\ outlierPixCnt \in 0 .. ListSize
    /\ pixCnt \in 0 .. Width * Height
    /\ warn \in {-6, -5, -4, -3, 0}
    /\ pc \in {"scan", "ready", "broken", "outlier", "astray"}
    /\ pix \in 0 .. 2 * ListSize
    /\ to \in [Pixels -> SUBSET Pixels]

\* ExtractDeviatingPixels has filled both lists with 0xFFFF.
Init ==
    /\ eeprom \in Eeproms
    /\ mode \in {0, 1}
    /\ brokenPixels = [k \in Slots |-> NoPixel]
    /\ outlierPixels = [k \in Slots |-> NoPixel]
    /\ brokenPixCnt = 0
    /\ outlierPixCnt = 0
    /\ pixCnt = 0
    /\ warn = 0
    /\ pc = "scan"
    /\ pix = 0
    /\ to = [p \in Pixels |-> {}]
-----------------------------------------------------------------------------
(* ExtractDeviatingPixels.                                                 *)

\* Mutant of ScanPixel: only the length of the broken list stops the loop.
ScanPixelUnbounded ==
    /\ pc = "scan"
    /\ pixCnt < Width * Height /\ brokenPixCnt < ListSize
    /\ \/ /\ eeprom[pixCnt] = "outlier"
          /\ outlierPixels' = [outlierPixels EXCEPT ![outlierPixCnt] = pixCnt]
          /\ outlierPixCnt' = outlierPixCnt + 1
       \/ /\ eeprom[pixCnt] # "outlier"
          /\ UNCHANGED <<outlierPixels, outlierPixCnt>>
    /\ pixCnt' = pixCnt + 1
    /\ UNCHANGED <<eeprom, mode, warn, pc, pix, to, brokenPixels, brokenPixCnt>>

\* One turn of the loop over the pixel words.
ScanPixel ==
    /\ pc = "scan"
    /\ pixCnt < Width * Height /\ brokenPixCnt < ListSize /\ outlierPixCnt < ListSize
    /\ \/ /\ eeprom[pixCnt] = "broken"
          /\ brokenPixels' = [brokenPixels EXCEPT ![brokenPixCnt] = pixCnt]
          /\ brokenPixCnt' = brokenPixCnt + 1
          /\ UNCHANGED <<outlierPixels, outlierPixCnt>>
       \/ /\ eeprom[pixCnt] = "outlier"
          /\ outlierPixels' = [outlierPixels EXCEPT ![outlierPixCnt] = pixCnt]
          /\ outlierPixCnt' = outlierPixCnt + 1
          /\ UNCHANGED <<brokenPixels, brokenPixCnt>>
       \/ /\ eeprom[pixCnt] = "good"
          /\ UNCHANGED <<brokenPixels, brokenPixCnt, outlierPixels, outlierPixCnt>>
    /\ pixCnt' = pixCnt + 1
    /\ UNCHANGED <<eeprom, mode, warn, pc, pix, to>>

\* Mutant of CheckAdjacentPixels: pixels side by side are not adjacent.
CheckAdjacentPixelsDiagonal(pix1, pix2) ==
    IF \/ pix1 - pix2 \in - Width - 1 .. - Width + 1
       \/ pix1 - pix2 \in Width - 1 .. Width + 1
      THEN -6 ELSE 0

CheckAdjacentPixels(pix1, pix2) ==
    IF \/ pix1 - pix2 \in - Width - 1 .. - Width + 1
       \/ pix1 - pix2 \in -1 .. 1
       \/ pix1 - pix2 \in Width - 1 .. Width + 1
      THEN -6 ELSE 0

\* The pairs that the three double loops compare.
AdjacentFound ==
    \/ \E j, k \in 0 .. brokenPixCnt - 1 :
          j < k /\ CheckAdjacentPixels(brokenPixels[j], brokenPixels[k]) # 0
    \/ \E j, k \in 0 .. outlierPixCnt - 1 :
          j < k /\ CheckAdjacentPixels(outlierPixels[j], outlierPixels[k]) # 0
    \/ \E j \in 0 .. brokenPixCnt - 1, k \in 0 .. outlierPixCnt - 1 :
          CheckAdjacentPixels(brokenPixels[j], outlierPixels[k]) # 0

\* Mutant of Warn: the bound on the outliers is off by one.
WarnOneMoreOutlier ==
    IF brokenPixCnt > ListSize - 1 THEN -3
    ELSE IF outlierPixCnt > ListSize THEN -4
    ELSE IF brokenPixCnt + outlierPixCnt > ListSize - 1 THEN -5
    ELSE IF AdjacentFound THEN -6
    ELSE 0

Warn ==
    IF brokenPixCnt > ListSize - 1 THEN -3
    ELSE IF outlierPixCnt > ListSize - 1 THEN -4
    ELSE IF brokenPixCnt + outlierPixCnt > ListSize - 1 THEN -5
    ELSE IF AdjacentFound THEN -6
    ELSE 0

\* Mutant of JudgePixels: the loop leaves out the last pixel.
JudgePixelsEarly ==
    /\ pc = "scan"
    /\ \/ pixCnt = Width * Height - 1
       \/ brokenPixCnt = ListSize
       \/ outlierPixCnt = ListSize
    /\ warn' = Warn
    /\ pc' = "ready"
    /\ UNCHANGED <<eeprom, mode, scanVars, pix, to>>

\* The loop has ended: the counts and the distances are judged.
JudgePixels ==
    /\ pc = "scan"
    /\ \/ pixCnt = Width * Height
       \/ brokenPixCnt = ListSize
       \/ outlierPixCnt = ListSize
    /\ warn' = Warn
    /\ pc' = "ready"
    /\ UNCHANGED <<eeprom, mode, scanVars, pix, to>>
-----------------------------------------------------------------------------
(* MLX90640_CalculateTo, as far as the choice of pixels goes.              *)

Line(p) == p \div Width

Column(p) == p - Line(p) * Width

IlPattern(p) == p \div Width - (p \div (2 * Width)) * 2

ChessPattern(p) == (IlPattern(p) + (p - (p \div 2) * 2)) % 2

Pattern(p) == IF mode = 0 THEN IlPattern(p) ELSE ChessPattern(p)

\* thread1 computes the temperatures of one subpage and starts the correction.
CalculateTo(subPage) ==
    /\ pc = "ready"
    /\ to' = [p \in Pixels |-> IF Pattern(p) = subPage THEN {p} ELSE to[p]]
    /\ pc' = "broken"
    /\ pix' = 0
    /\ UNCHANGED <<eeprom, mode, scanVars, warn>>
-----------------------------------------------------------------------------
(* MLX90640_BadPixelsCorrection.                                           *)

\* The lists as they lie in paramsMLX90640.
Member(k) == IF k < ListSize THEN brokenPixels[k] ELSE outlierPixels[k - ListSize]

\* Mutant of ChessSources: the nearest pixel of the column replaces p.
ChessSourcesInColumn(p) == {IF Line(p) = 0 THEN p + Width ELSE p - Width}

\* The pixels that replace p when the correction is told chess mode.
ChessSources(p) ==
    CASE Line(p) = 0 ->
           (CASE Column(p) = 0         -> {Width + 1}
              [] Column(p) = Width - 1 -> {2 * Width - 2}
              [] OTHER                 -> {p + Width - 1, p + Width + 1})
      [] Line(p) = Height - 1 ->
           (CASE Column(p) = 0         -> {(Height - 2) * Width + 1}
              [] Column(p) = Width - 1 -> {(Height - 1) * Width - 2}
              [] OTHER                 -> {p - Width - 1, p - Width + 1})
      [] OTHER ->
           (CASE Column(p) = 0         -> {p - Width + 1, p + Width + 1}
              [] Column(p) = Width - 1 -> {p - Width - 1, p + Width - 1}
              [] OTHER                 -> {p - Width - 1, p - Width + 1,
                                           p + Width - 1, p + Width + 1})

\* One turn of the loop: the temperature of a listed pixel is replaced.
CorrectPixel ==
    /\ pc \in {"broken", "outlier"}
    /\ pix < 2 * ListSize
    /\ Member(pix) # NoPixel
    /\ to' = [to EXCEPT ![Member(pix)] = UNION {to[q] : q \in ChessSources(Member(pix))}]
    /\ pix' = pix + 1
    /\ UNCHANGED <<eeprom, mode, scanVars, warn, pc>>

\* Mutant of ListDone: the correction is not called for the other list.
ListDoneOnce ==
    /\ pc \in {"broken", "outlier"}
    /\ pix < 2 * ListSize
    /\ Member(pix) = NoPixel
    /\ pc' = "ready"
    /\ UNCHANGED <<eeprom, mode, scanVars, warn, pix, to>>

\* The terminator ends the walk of a list; thread1 goes on to the other list,
\* and then to the drawing of the image and the next frame.
ListDone ==
    /\ pc \in {"broken", "outlier"}
    /\ pix < 2 * ListSize
    /\ Member(pix) = NoPixel
    /\ \/ pc = "broken" /\ pc' = "outlier" /\ pix' = ListSize
       \/ pc = "outlier" /\ pc' = "ready" /\ UNCHANGED pix
    /\ UNCHANGED <<eeprom, mode, scanVars, warn, to>>

\* The walk leaves paramsMLX90640: what it reads and writes from here on is not
\* determined by the program.
GoAstray ==
    /\ pc \in {"broken", "outlier"}
    /\ pix = 2 * ListSize
    /\ pc' = "astray"
    /\ UNCHANGED <<eeprom, mode, scanVars, warn, pix, to>>

Next ==
    \/ ScanPixel \/ JudgePixels
    \/ \E subPage \in {0, 1} : CalculateTo(subPage)
    \/ CorrectPixel \/ ListDone \/ GoAstray

Spec == Init /\ [][Next]_vars
-----------------------------------------------------------------------------
(* Properties.                                                             *)

Deviating == {p \in Pixels : eeprom[p] # "good"}

\* An extraction that reports 0 has listed each broken and each outlier pixel
\* of the EEPROM, once, in the list of its kind and nothing else, and has left
\* room for the terminator in both lists.
ListsExact ==
    pc # "scan" /\ warn = 0 =>
        /\ \A p \in Pixels :
              /\ eeprom[p] = "broken" <=> \E k \in Slots : brokenPixels[k] = p
              /\ eeprom[p] = "outlier" <=> \E k \in Slots : outlierPixels[k] = p
        /\ brokenPixels[ListSize - 1] = NoPixel
        /\ outlierPixels[ListSize - 1] = NoPixel

Neighbours(p, q) ==
    /\ p # q
    /\ Line(p) - Line(q) \in -1 .. 1
    /\ Column(p) - Column(q) \in -1 .. 1

\* An extraction that reports 0 has found no two deviating pixels next to each
\* other, in a row, in a column or diagonally.
DeviatingApart ==
    pc # "scan" /\ warn = 0 =>
        \A p, q \in Deviating : ~Neighbours(p, q)

\* After an extraction that reports 0, the image thread1 draws depends on no
\* deviating pixel, in whichever mode the sensor measures: the correction of one
\* never takes the value of another, corrected or not, and none keeps the value
\* MLX90640_CalculateTo gave it.
ImageIsClean ==
    pc = "ready" /\ warn = 0 =>
        \A p \in Pixels : to[p] \cap Deviating = {}

\* Whatever the extraction reported, as long as the sensor measures in chess mode
\* each temperature depends only on pixels that are measured with its own subpage:
\* the correction never mixes the two measurements that make up an image, at the
\* edges of the array either.  It does mix them when MLX90640_SetChessMode failed.
OneSubpage == mode = 1 => \A p \in Pixels : \A q \in to[p] : Pattern(q) = Pattern(p)

\* The walk of the lists leaves the structure only after an extraction that
\* reported too many outliers: five broken pixels, which leave no room for the
\* terminator of their list, end in the terminator of the other one.
AstrayOnlyOnOutliers == pc = "astray" => warn = -4
-----------------------------------------------------------------------------
(* The inductive invariant behind these properties.                        *)

\* A list holds the pixels of its class met so far, then terminators.
Listed(list, cnt, class) ==
    /\ \A k \in Slots : k < cnt => list[k] \in Pixels /\ eeprom[list[k]] = class
    /\ \A k \in Slots : k >= cnt => list[k] = NoPixel
    /\ \A p \in Pixels : p < pixCnt /\ eeprom[p] = class =>
          \E k \in Slots : k < cnt /\ list[k] = p

ScanInv ==
    /\ Listed(brokenPixels, brokenPixCnt, "broken")
    /\ Listed(outlierPixels, outlierPixCnt, "outlier")
    /\ brokenPixCnt < ListSize \/ outlierPixCnt < ListSize
    /\ pc # "scan" =>
          /\ warn = Warn
          /\ pixCnt = Width * Height \/ brokenPixCnt = ListSize \/ outlierPixCnt = ListSize

WalkInv ==
    /\ pc = "broken" => \A k \in 0 .. pix - 1 : Member(k) # NoPixel
    /\ pc = "outlier" => pix >= ListSize /\ \A k \in ListSize .. pix - 1 : Member(k) # NoPixel
    /\ pc = "astray" => warn = -4

\* The correction has not come to p yet.
Waiting(p) ==
    /\ pc \in {"broken", "outlier"}
    /\ \E k \in pix .. 2 * ListSize - 1 : Member(k) = p

CleanInv ==
    /\ pc = "scan" => \A p \in Pixels : to[p] = {}
    /\ pc # "scan" /\ warn = 0 =>
          \A p \in Pixels : to[p] \cap Deviating = {} \/ Waiting(p)

IInv == TypeOK /\ ScanInv /\ WalkInv /\ CleanInv /\ OneSubpage
=============================================================================
