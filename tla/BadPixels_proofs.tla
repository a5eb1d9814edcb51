-------------------------- MODULE BadPixels_proofs --------------------------
(***************************************************************************)
(* Proofs about BadPixels, for arrays and lists of any size.               *)
(***************************************************************************)
EXTENDS BadPixels, TLAPS

USE GeometryAssumption, ListAssumption, EepromAssumption
-----------------------------------------------------------------------------
(* Geometry of the pixel array.                                            *)

\* Multiplication by a natural number keeps the order.
LEMMA TimesMonotone ==
    ASSUME NEW a \in Int, NEW b \in Int, NEW w \in Nat, a <= b
    PROVE  a * w <= b * w
  BY SMT

\* Division by two.
LEMMA Halves ==
    ASSUME NEW n \in Nat
    PROVE  n \div 2 \in Int /\ (n = 2 * (n \div 2) \/ n = 2 * (n \div 2) + 1)
  BY SMT

\* A pixel is at the crossing of its line and its column.
LEMMA LineColumn ==
    ASSUME NEW p \in Pixels
    PROVE  /\ Line(p) \in 0 .. Height - 1
           /\ Column(p) \in 0 .. Width - 1
           /\ p = Line(p) * Width + Column(p)
  <1>1. /\ p \in Int /\ 0 <= p /\ p < Width * Height
        /\ Width \in Nat /\ Width > 0 /\ Height \in Nat
    BY DEF Pixels
  <1>2. /\ p \div Width \in Int
        /\ (p \div Width) * Width <= p
        /\ p < (p \div Width) * Width + Width
    BY <1>1, SMT
  <1>3. 0 <= p \div Width
    <2>1. SUFFICES ASSUME p \div Width <= -1 PROVE FALSE
      BY <1>2
    <2>2. (p \div Width) * Width <= (-1) * Width
      BY <1>1, <1>2, <2>1, TimesMonotone
    <2> QED BY <1>1, <1>2, <2>2
  <1>4. p \div Width <= Height - 1
    <2>1. SUFFICES ASSUME Height <= p \div Width PROVE FALSE
      BY <1>1, <1>2
    <2>2. Height * Width <= (p \div Width) * Width
      BY <1>1, <1>2, <2>1, TimesMonotone
    <2> QED BY <1>1, <1>2, <2>2
  <1> QED BY <1>1, <1>2, <1>3, <1>4 DEF Line, Column

\* Each crossing of a line and a column is one pixel.
LEMMA Crossing ==
    ASSUME NEW l \in 0 .. Height - 1, NEW c \in 0 .. Width - 1
    PROVE  /\ l * Width + c \in Pixels
           /\ Line(l * Width + c) = l
           /\ Column(l * Width + c) = c
  <1> DEFINE p == l * Width + c
  <1>1. /\ l \in Int /\ c \in Int /\ 0 <= l /\ l <= Height - 1 /\ 0 <= c /\ c < Width
        /\ Width \in Nat /\ Width > 0 /\ Height \in Nat
    OBVIOUS
  <1>2. p \in Pixels
    <2>1. l * Width <= (Height - 1) * Width
      BY <1>1, TimesMonotone
    <2>2. 0 * Width <= l * Width
      BY <1>1, TimesMonotone
    <2> QED BY <1>1, <2>1, <2>2 DEF Pixels
  <1>3. Line(p) \in Int /\ Line(p) * Width <= p /\ p < Line(p) * Width + Width
    BY <1>1, <1>2, LineColumn
  <1>4. Line(p) <= l
    <2>1. SUFFICES ASSUME l + 1 <= Line(p) PROVE FALSE
      BY <1>1, <1>3
    <2>2. (l + 1) * Width <= Line(p) * Width
      BY <1>1, <1>3, <2>1, TimesMonotone
    <2> QED BY <1>1, <1>3, <2>2
  <1>5. l <= Line(p)
    <2>1. SUFFICES ASSUME Line(p) + 1 <= l PROVE FALSE
      BY <1>1, <1>3
    <2>2. (Line(p) + 1) * Width <= l * Width
      BY <1>1, <1>3, <2>1, TimesMonotone
    <2> QED BY <1>1, <1>3, <2>2
  <1>6. Line(p) = l
    BY <1>1, <1>3, <1>4, <1>5
  <1>7. Column(p) = p - l * Width
    BY <1>6 DEF Column
  <1>8. p - l * Width = c
    BY <1>1
  <1> QED BY <1>2, <1>6, <1>7, <1>8

\* The subpage of a pixel in either mode, by line and column.
LEMMA PatternByPlace ==
    ASSUME NEW p \in Pixels
    PROVE  /\ IlPattern(p) = Line(p) % 2
           /\ ChessPattern(p) = (Line(p) + Column(p)) % 2
  <1> DEFINE l == Line(p)
             c == Column(p)
             h == Width \div 2
  <1>1. /\ l \in Nat /\ c \in Nat /\ c < Width /\ p = l * Width + c
        /\ Width \in Nat /\ Width > 0 /\ p \in Nat
    BY LineColumn DEF Pixels
  <1>2. h \in Nat /\ Width = 2 * h
    BY <1>1, SMT
  <1>3. p \div (2 * Width) = l \div 2
    <2> DEFINE d == l \div 2
               e == p \div (2 * Width)
               W2 == 2 * Width
    <2>1. d \in Int /\ (l = 2 * d \/ l = 2 * d + 1)
      BY <1>1, Halves
    <2>2. W2 \in Nat /\ W2 > 0
      BY <1>1
    <2>3. e \in Int /\ e * W2 <= p /\ p < e * W2 + W2
      BY <1>1, <2>2, SMT
    <2>4. d * W2 <= p /\ p < d * W2 + W2
      <3>1. l * Width = d * W2 \/ l * Width = d * W2 + Width
        BY <1>1, <2>1, SMT
      <3> QED BY <1>1, <2>1, <2>2, <3>1
    <2>5. e <= d
      <3>1. SUFFICES ASSUME d + 1 <= e PROVE FALSE
        BY <2>1, <2>3
      <3>2. (d + 1) * W2 <= e * W2
        BY <2>1, <2>2, <2>3, <3>1, TimesMonotone
      <3> HIDE DEF d, e, W2
      <3> QED BY <1>1, <2>1, <2>2, <2>3, <2>4, <3>2
    <2>6. d <= e
      <3>1. SUFFICES ASSUME e + 1 <= d PROVE FALSE
        BY <2>1, <2>3
      <3>2. (e + 1) * W2 <= d * W2
        BY <2>1, <2>2, <2>3, <3>1, TimesMonotone
      <3> HIDE DEF d, e, W2
      <3> QED BY <1>1, <2>1, <2>2, <2>3, <2>4, <3>2
    <2> HIDE DEF d, e
    <2>7. e = d
      BY <2>1, <2>3, <2>5, <2>6
    <2> QED BY <2>7 DEF d, e
  <1>4. IlPattern(p) = l % 2
    <2>1. IlPattern(p) = l - (l \div 2) * 2
      BY <1>3 DEF IlPattern, Line
    <2> HIDE DEF l
    <2> QED BY <1>1, <2>1, SMT
  <1>5. p - (p \div 2) * 2 = c % 2
    <2>1. p = 2 * (l * h) + c /\ l * h \in Int
      BY <1>1, <1>2, SMT
    <2> DEFINE x == l * h
    <2> HIDE DEF l, c, x
    <2>2. p = 2 * x + c /\ x \in Int
      BY <2>1 DEF x
    <2> QED BY <1>1, <2>2, SMT
  <1>6. ChessPattern(p) = ((l % 2) + (c % 2)) % 2
    BY <1>4, <1>5 DEF ChessPattern
  <1> HIDE DEF l, c
  <1>7. ((l % 2) + (c % 2)) % 2 = (l + c) % 2
    BY <1>1, SMT
  <1> QED BY <1>4, <1>6, <1>7 DEF l, c
-----------------------------------------------------------------------------
(* The pixels a correction takes its values from.                          *)

\* q lies dl lines and dc columns from p, inside the array.
At(p, q, dl, dc) ==
    /\ Line(p) + dl \in 0 .. Height - 1
    /\ Column(p) + dc \in 0 .. Width - 1
    /\ q = p + dl * Width + dc

\* What At says about the place of q.
LEMMA AtPlace ==
    ASSUME NEW p \in Pixels, NEW q, NEW dl \in Int, NEW dc \in Int, At(p, q, dl, dc)
    PROVE  /\ q \in Pixels
           /\ Line(q) = Line(p) + dl
           /\ Column(q) = Column(p) + dc
  <1> DEFINE l == Line(p)
             c == Column(p)
  <1>1. /\ l \in Int /\ c \in Int /\ p = l * Width + c
        /\ l + dl \in 0 .. Height - 1 /\ c + dc \in 0 .. Width - 1
        /\ q = p + dl * Width + dc
    BY LineColumn DEF At
  <1> HIDE DEF l, c
  <1>2. q = (l + dl) * Width + (c + dc)
    BY <1>1, SMT
  <1> QED BY <1>1, <1>2, Crossing DEF l, c

\* A pixel is replaced by diagonal neighbours.
LEMMA ChessDiagonal ==
    ASSUME NEW p \in Pixels, NEW q \in ChessSources(p)
    PROVE  \E dl, dc \in {-1, 1} : At(p, q, dl, dc)
  <1> DEFINE l == Line(p)
             c == Column(p)
  <1>1. /\ l \in 0 .. Height - 1 /\ c \in 0 .. Width - 1
        /\ p = l * Width + c
        /\ Width \in Nat /\ Width > 3 /\ Height \in Nat /\ Height > 2
    BY LineColumn
  <1>2. /\ (l = 0) => p = c
        /\ (l = Height - 1) => p = (Height - 1) * Width + c
        /\ (Height - 2) * Width = (Height - 1) * Width - Width
    BY <1>1
  <1>3. /\ 1 * Width = Width
        /\ (-1) * Width = - Width
    BY <1>1
  <1>4. \E dl, dc \in {-1, 1} :
          /\ l + dl \in 0 .. Height - 1
          /\ c + dc \in 0 .. Width - 1
          /\ q = p + dl * Width + dc
    <2>1. CASE l = 0
      <3>1. l + 1 \in 0 .. Height - 1 /\ l # Height - 1 /\ p = c
        BY <1>1, <1>2, <2>1
      <3>2. CASE c = 0
        <4>1. q \in {Width + 1}
          BY <2>1, <3>2 DEF ChessSources
        <4>2. q = p + 1 * Width + 1 /\ c + 1 \in 0 .. Width - 1
          BY <1>1, <3>1, <3>2, <4>1
        <4> QED BY <3>1, <4>2
      <3>3. CASE c = Width - 1
        <4>1. q \in {2 * Width - 2}
          BY <1>1, <2>1, <3>3 DEF ChessSources
        <4>2. q = p + 1 * Width + (-1) /\ c + (-1) \in 0 .. Width - 1
          BY <1>1, <3>1, <3>3, <4>1
        <4> QED BY <3>1, <4>2
      <3>4. CASE c # 0 /\ c # Width - 1
        <4>1. q \in {p + Width - 1, p + Width + 1}
          BY <2>1, <3>4 DEF ChessSources
        <4> HIDE DEF l, c
        <4>2. \/ q = p + 1 * Width + 1 /\ c + 1 \in 0 .. Width - 1
              \/ q = p + 1 * Width + (-1) /\ c + (-1) \in 0 .. Width - 1
          BY <1>1, <3>1, <3>4, <4>1
        <4> QED BY <3>1, <4>2
      <3> QED BY <3>2, <3>3, <3>4
    <2>2. CASE l = Height - 1
      <3>1. CASE c = 0
        BY <1>1, <1>2, <1>3, <2>2, <3>1 DEF ChessSources
      <3>2. CASE c = Width - 1
        BY <1>1, <1>2, <1>3, <2>2, <3>2 DEF ChessSources
      <3>3. CASE c # 0 /\ c # Width - 1
        BY <1>1, <1>2, <1>3, <2>2, <3>3 DEF ChessSources
      <3> QED BY <3>1, <3>2, <3>3
    <2>3. CASE l # 0 /\ l # Height - 1
      <3>1. CASE c = 0
        BY <1>1, <1>3, <2>3, <3>1 DEF ChessSources
      <3>2. CASE c = Width - 1
        BY <1>1, <1>3, <2>3, <3>2 DEF ChessSources
      <3>3. CASE c # 0 /\ c # Width - 1
        BY <1>1, <1>3, <2>3, <3>3 DEF ChessSources
      <3> QED BY <3>1, <3>2, <3>3
    <2> QED BY <2>1, <2>2, <2>3
  <1> QED BY <1>4 DEF At

\* A correction reads pixels of the array next to the pixel it replaces, and in
\* chess mode of its subpage.
LEMMA SourcesFit ==
    ASSUME NEW p \in Pixels, NEW q \in ChessSources(p)
    PROVE  /\ q \in Pixels
           /\ q # p
           /\ mode = 1 => Pattern(q) = Pattern(p)
           /\ CheckAdjacentPixels(p, q) # 0
  <1>1. /\ Line(p) \in Int /\ Column(p) \in Int /\ p \in Int
        /\ Width \in Nat /\ Width > 3
        /\ 0 * Width = 0 /\ 1 * Width = Width /\ (-1) * Width = - Width
    BY LineColumn DEF Pixels
  <1>2. PICK dl \in {-1, 1}, dc \in {-1, 1} : At(p, q, dl, dc)
    BY ChessDiagonal
  <1>3. q \in Pixels /\ Line(q) = Line(p) + dl /\ Column(q) = Column(p) + dc
    BY <1>2, AtPlace
  <1>4. (Line(q) + Column(q)) % 2 = (Line(p) + Column(p)) % 2
    <2> DEFINE x == Line(p) + Column(p)
    <2>1. x \in Int /\ Line(q) + Column(q) \in {x - 2, x, x + 2}
      BY <1>1, <1>2, <1>3
    <2> HIDE DEF x
    <2>2. (x - 2) % 2 = x % 2 /\ (x + 2) % 2 = x % 2
      BY <2>1, SMT
    <2> QED BY <2>1, <2>2 DEF x
  <1>5. mode = 1 => Pattern(q) = Pattern(p)
    BY <1>3, <1>4, PatternByPlace DEF Pattern
  <1>6. q # p /\ CheckAdjacentPixels(p, q) # 0
    BY <1>1, <1>2 DEF At, CheckAdjacentPixels
  <1> QED BY <1>3, <1>5, <1>6
-----------------------------------------------------------------------------
(* The inductive invariant, one conjunct at a time.                        *)

\* The invariant holds when the extraction starts.
LEMMA InitIInv == Init => IInv
  <1> SUFFICES ASSUME Init PROVE IInv
    OBVIOUS
  <1>1. TypeOK
    <2>1. Width * Height \in Nat /\ 0 \in 0 .. Width * Height
      BY SMT
    <2> QED BY <2>1 DEF Init, TypeOK, Slots, Entries
  <1>2. ScanInv
    BY DEF Init, ScanInv, Listed, Slots, Pixels
  <1>3. WalkInv /\ CleanInv /\ OneSubpage
    BY DEF Init, WalkInv, CleanInv, OneSubpage
  <1> QED BY <1>1, <1>2, <1>3 DEF IInv

\* An entry of the lists, as the walk reads them.
LEMMA MemberType ==
    ASSUME TypeOK, NEW k \in 0 .. 2 * ListSize - 1
    PROVE  Member(k) \in Entries
  BY DEF TypeOK, Member, Slots

\* Type correctness is preserved by each action; the correction needs its
\* sources to be pixels of the array.
LEMMA NextTypeOK ==
    ASSUME TypeOK, [Next]_vars
    PROVE  TypeOK'
  <1> USE DEF TypeOK
  <1>1. CASE ScanPixel
    <2>1. pixCnt \in Pixels /\ pixCnt + 1 \in 0 .. Width * Height
      BY <1>1 DEF ScanPixel, Pixels
    <2>2. /\ brokenPixels' \in [Slots -> Entries]
          /\ outlierPixels' \in [Slots -> Entries]
      BY <1>1, <2>1 DEF ScanPixel, Slots, Entries
    <2>3. /\ brokenPixCnt' \in 0 .. ListSize
          /\ outlierPixCnt' \in 0 .. ListSize
      BY <1>1 DEF ScanPixel
    <2> QED BY <1>1, <2>1, <2>2, <2>3 DEF ScanPixel
  <1>2. CASE JudgePixels
    <2>1. Warn \in {-6, -5, -4, -3, 0}
      BY DEF Warn
    <2> QED BY <1>2, <2>1 DEF JudgePixels, scanVars
  <1>3. CASE \E subPage \in {0, 1} : CalculateTo(subPage)
    <2>1. PICK subPage \in {0, 1} : CalculateTo(subPage)
      BY <1>3
    <2>2. to' \in [Pixels -> SUBSET Pixels]
      BY <2>1 DEF CalculateTo
    <2> QED BY <2>1, <2>2 DEF CalculateTo, scanVars
  <1>4. CASE CorrectPixel
    <2>1. pix \in 0 .. 2 * ListSize - 1 /\ pix' \in 0 .. 2 * ListSize
      BY <1>4 DEF CorrectPixel
    <2>2. Member(pix) \in Pixels
      BY <1>4, <2>1, MemberType DEF CorrectPixel, Entries
    <2>3. \A q \in ChessSources(Member(pix)) : q \in Pixels
      BY <2>2, SourcesFit
    <2>4. UNION {to[q] : q \in ChessSources(Member(pix))} \subseteq Pixels
      BY <2>3
    <2>5. to' \in [Pixels -> SUBSET Pixels]
      BY <1>4, <2>2, <2>4 DEF CorrectPixel
    <2> QED BY <1>4, <2>1, <2>5 DEF CorrectPixel, scanVars
  <1>5. CASE ListDone
    BY <1>5 DEF ListDone, scanVars
  <1>6. CASE GoAstray
    BY <1>6 DEF GoAstray, scanVars
  <1>7. CASE UNCHANGED vars
    BY <1>7 DEF vars
  <1> QED BY <1>1, <1>2, <1>3, <1>4, <1>5, <1>6, <1>7 DEF Next

\* After the scan no action touches the lists, the EEPROM or the verdict.
LEMMA AfterScan ==
    ASSUME [Next]_vars, ~ScanPixel, ~JudgePixels
    PROVE  /\ UNCHANGED <<eeprom, mode, brokenPixels, outlierPixels, brokenPixCnt,
                          outlierPixCnt, pixCnt, warn>>
           /\ pc' # "scan" => pc # "scan"
           /\ pc # "scan" => pc' # "scan"
           /\ pc' = "scan" => UNCHANGED to
  BY DEF Next, vars, scanVars, CalculateTo, CorrectPixel, ListDone, GoAstray

\* The lists hold what the scan has met.
LEMMA NextScanInv ==
    ASSUME TypeOK, ScanInv, [Next]_vars
    PROVE  ScanInv'
  <1>1. CASE ScanPixel
    <2>1. /\ pixCnt \in Pixels /\ pixCnt + 1 \in Nat
          /\ brokenPixCnt \in Slots /\ outlierPixCnt \in Slots
          /\ eeprom' = eeprom /\ pixCnt' = pixCnt + 1 /\ pc' = "scan"
          /\ brokenPixels \in [Slots -> Entries] /\ outlierPixels \in [Slots -> Entries]
      BY <1>1 DEF ScanPixel, TypeOK, Pixels, Slots
    <2>2. \A p \in Pixels : p < pixCnt' => p < pixCnt \/ p = pixCnt
      BY <2>1 DEF Pixels
    <2>3. CASE eeprom[pixCnt] = "broken"
      <3>1. /\ brokenPixels' = [brokenPixels EXCEPT ![brokenPixCnt] = pixCnt]
            /\ brokenPixCnt' = brokenPixCnt + 1
            /\ outlierPixels' = outlierPixels /\ outlierPixCnt' = outlierPixCnt
        BY <1>1, <2>3 DEF ScanPixel
      <3>2. Listed(brokenPixels, brokenPixCnt, "broken")'
        BY <2>1, <2>2, <2>3, <3>1 DEF ScanInv, Listed, Slots
      <3>3. Listed(outlierPixels, outlierPixCnt, "outlier")'
        BY <2>1, <2>2, <2>3, <3>1 DEF ScanInv, Listed
      <3> QED BY <2>1, <3>1, <3>2, <3>3 DEF ScanInv, Slots
    <2>4. CASE eeprom[pixCnt] = "outlier"
      <3>1. /\ outlierPixels' = [outlierPixels EXCEPT ![outlierPixCnt] = pixCnt]
            /\ outlierPixCnt' = outlierPixCnt + 1
            /\ brokenPixels' = brokenPixels /\ brokenPixCnt' = brokenPixCnt
        BY <1>1, <2>4 DEF ScanPixel
      <3>2. Listed(outlierPixels, outlierPixCnt, "outlier")'
        BY <2>1, <2>2, <2>4, <3>1 DEF ScanInv, Listed, Slots
      <3>3. Listed(brokenPixels, brokenPixCnt, "broken")'
        BY <2>1, <2>2, <2>4, <3>1 DEF ScanInv, Listed
      <3> QED BY <2>1, <3>1, <3>2, <3>3 DEF ScanInv, Slots
    <2>5. CASE eeprom[pixCnt] = "good"
      <3>1. /\ brokenPixels' = brokenPixels /\ brokenPixCnt' = brokenPixCnt
            /\ outlierPixels' = outlierPixels /\ outlierPixCnt' = outlierPixCnt
        BY <1>1, <2>5 DEF ScanPixel
      <3> QED BY <2>1, <2>2, <2>5, <3>1 DEF ScanInv, Listed
    <2> QED BY <1>1, <2>3, <2>4, <2>5 DEF ScanPixel
  <1>2. CASE JudgePixels
    BY <1>2 DEF JudgePixels, scanVars, ScanInv, Listed, Warn, AdjacentFound
  <1>3. CASE ~ScanPixel /\ ~JudgePixels
    BY <1>3, AfterScan DEF ScanInv, Listed, Warn, AdjacentFound
  <1> QED BY <1>1, <1>2, <1>3

\* The walk has met no terminator in the list it is in.
LEMMA NextWalkInv ==
    ASSUME TypeOK, ScanInv, WalkInv, [Next]_vars
    PROVE  WalkInv'
  <1>1. CASE ScanPixel
    BY <1>1 DEF ScanPixel, WalkInv
  <1>2. CASE JudgePixels
    BY <1>2 DEF JudgePixels, WalkInv
  <1>3. CASE \E subPage \in {0, 1} : CalculateTo(subPage)
    BY <1>3 DEF CalculateTo, WalkInv
  <1>4. CASE CorrectPixel
    <2>1. /\ pc' = pc /\ pc \in {"broken", "outlier"}
          /\ pix \in Nat /\ pix' = pix + 1 /\ Member(pix) # NoPixel
          /\ \A k : Member(k)' = Member(k)
      BY <1>4 DEF CorrectPixel, TypeOK, scanVars, Member
    <2> QED BY <2>1 DEF WalkInv
  <1>5. CASE ListDone
    BY <1>5 DEF ListDone, WalkInv
  <1>6. CASE GoAstray
    <2>1. \A k \in ListSize .. 2 * ListSize - 1 : Member(k) # NoPixel
      BY <1>6 DEF GoAstray, WalkInv
    <2>2. \A k \in Slots : outlierPixels[k] # NoPixel
      <3> SUFFICES ASSUME NEW k \in Slots PROVE outlierPixels[k] # NoPixel
        OBVIOUS
      <3>1. ListSize + k \in ListSize .. 2 * ListSize - 1 /\ ~(ListSize + k < ListSize)
            /\ (ListSize + k) - ListSize = k
        BY DEF Slots
      <3> QED BY <2>1, <3>1 DEF Member
    <2>3. outlierPixCnt = ListSize
      <3>1. ListSize - 1 \in Slots
        BY DEF Slots
      <3> QED BY <2>2, <3>1 DEF ScanInv, Listed, TypeOK
    <2>4. brokenPixCnt < ListSize
      BY <2>3 DEF ScanInv
    <2>5. warn = -4
      BY <1>6, <2>3, <2>4 DEF GoAstray, ScanInv, Warn, TypeOK
    <2> QED BY <1>6, <2>5 DEF GoAstray, WalkInv
  <1>7. CASE UNCHANGED vars
    BY <1>7 DEF vars, WalkInv, Member
  <1> QED BY <1>1, <1>2, <1>3, <1>4, <1>5, <1>6, <1>7 DEF Next
-----------------------------------------------------------------------------
(* What an extraction that reports 0 has established.                      *)

\* The scan came to its end, both lists have a terminator, and no pair of
\* listed pixels is adjacent.
LEMMA Accepted ==
    ASSUME TypeOK, ScanInv, pc # "scan", warn = 0
    PROVE  /\ brokenPixCnt < ListSize /\ outlierPixCnt < ListSize
           /\ pixCnt = Width * Height
           /\ ~AdjacentFound
  <1>1. Warn = 0
    BY DEF ScanInv
  <1>2. ~(brokenPixCnt > ListSize - 1) /\ ~(outlierPixCnt > ListSize - 1)
    BY <1>1 DEF Warn
  <1>3. ~AdjacentFound
    BY <1>1 DEF Warn
  <1> QED BY <1>2, <1>3 DEF ScanInv, TypeOK

\* Each list holds the pixels of its class, all of them, and a terminator.
LEMMA AcceptedLists ==
    ASSUME TypeOK, ScanInv, pc # "scan", warn = 0
    PROVE  /\ \A p \in Pixels :
                 /\ eeprom[p] = "broken" <=> \E k \in Slots : brokenPixels[k] = p
                 /\ eeprom[p] = "outlier" <=> \E k \in Slots : outlierPixels[k] = p
           /\ brokenPixels[ListSize - 1] = NoPixel
           /\ outlierPixels[ListSize - 1] = NoPixel
  <1>1. /\ brokenPixCnt \in Nat /\ outlierPixCnt \in Nat
        /\ brokenPixCnt <= ListSize - 1 /\ outlierPixCnt <= ListSize - 1
        /\ ListSize - 1 \in Slots
        /\ \A k \in Slots : (k < brokenPixCnt \/ k >= brokenPixCnt)
                            /\ (k < outlierPixCnt \/ k >= outlierPixCnt)
    BY Accepted DEF TypeOK, Slots
  <1>2. brokenPixels[ListSize - 1] = NoPixel /\ outlierPixels[ListSize - 1] = NoPixel
    BY <1>1 DEF ScanInv, Listed
  <1>3. \A p \in Pixels : p < pixCnt /\ p # NoPixel
    BY Accepted DEF Pixels
  <1>4. \A p \in Pixels : eeprom[p] = "broken" <=> \E k \in Slots : brokenPixels[k] = p
    BY <1>1, <1>3 DEF ScanInv, Listed
  <1>5. \A p \in Pixels : eeprom[p] = "outlier" <=> \E k \in Slots : outlierPixels[k] = p
    BY <1>1, <1>3 DEF ScanInv, Listed
  <1> QED BY <1>2, <1>4, <1>5

\* No two deviating pixels are adjacent in the sense of CheckAdjacentPixels.
LEMMA AcceptedApart ==
    ASSUME TypeOK, ScanInv, pc # "scan", warn = 0,
           NEW p \in Deviating, NEW q \in Deviating, p # q
    PROVE  CheckAdjacentPixels(p, q) = 0
  <1>1. /\ p \in Pixels /\ q \in Pixels /\ p \in Int /\ q \in Int
        /\ eeprom[p] \in {"broken", "outlier"} /\ eeprom[q] \in {"broken", "outlier"}
        /\ p < pixCnt /\ q < pixCnt
        /\ Width \in Nat
    BY Accepted DEF Deviating, TypeOK, Classes, Pixels
  <1>2. ~AdjacentFound
    BY Accepted
  <1>3. CheckAdjacentPixels(p, q) = CheckAdjacentPixels(q, p)
    BY <1>1 DEF CheckAdjacentPixels
  <1>4. CASE eeprom[p] = "broken" /\ eeprom[q] = "broken"
    <2>1. PICK j \in Slots : j < brokenPixCnt /\ brokenPixels[j] = p
      BY <1>1, <1>4 DEF ScanInv, Listed
    <2>2. PICK k \in Slots : k < brokenPixCnt /\ brokenPixels[k] = q
      BY <1>1, <1>4 DEF ScanInv, Listed
    <2>3. /\ j \in 0 .. brokenPixCnt - 1 /\ k \in 0 .. brokenPixCnt - 1
          /\ j < k \/ k < j
      BY <2>1, <2>2 DEF Slots, TypeOK
    <2> QED BY <1>2, <1>3, <2>1, <2>2, <2>3 DEF AdjacentFound
  <1>5. CASE eeprom[p] = "outlier" /\ eeprom[q] = "outlier"
    <2>1. PICK j \in Slots : j < outlierPixCnt /\ outlierPixels[j] = p
      BY <1>1, <1>5 DEF ScanInv, Listed
    <2>2. PICK k \in Slots : k < outlierPixCnt /\ outlierPixels[k] = q
      BY <1>1, <1>5 DEF ScanInv, Listed
    <2>3. /\ j \in 0 .. outlierPixCnt - 1 /\ k \in 0 .. outlierPixCnt - 1
          /\ j < k \/ k < j
      BY <2>1, <2>2 DEF Slots, TypeOK
    <2> QED BY <1>2, <1>3, <2>1, <2>2, <2>3 DEF AdjacentFound
  <1>6. ASSUME NEW b \in Pixels, NEW o \in Pixels, b < pixCnt, o < pixCnt,
               eeprom[b] = "broken", eeprom[o] = "outlier"
        PROVE  CheckAdjacentPixels(b, o) = 0
    <2>1. PICK j \in Slots : j < brokenPixCnt /\ brokenPixels[j] = b
      BY <1>6 DEF ScanInv, Listed
    <2>2. PICK k \in Slots : k < outlierPixCnt /\ outlierPixels[k] = o
      BY <1>6 DEF ScanInv, Listed
    <2>3. j \in 0 .. brokenPixCnt - 1 /\ k \in 0 .. outlierPixCnt - 1
      BY <2>1, <2>2 DEF Slots, TypeOK
    <2> QED BY <1>2, <2>1, <2>2, <2>3 DEF AdjacentFound
  <1> QED BY <1>1, <1>3, <1>4, <1>5, <1>6

\* No source of a correction deviates, so none waits for its own correction.
LEMMA SourcesGood ==
    ASSUME TypeOK, ScanInv, pc # "scan", warn = 0,
           NEW p \in Deviating, NEW q \in ChessSources(p)
    PROVE  q \in Pixels /\ q \notin Deviating
  <1>1. p \in Pixels
    BY DEF Deviating
  <1>2. q \in Pixels /\ q # p /\ CheckAdjacentPixels(p, q) # 0
    BY <1>1, SourcesFit
  <1> QED BY <1>2, AcceptedApart

\* A pixel of the lists deviates.
LEMMA MemberDeviates ==
    ASSUME TypeOK, ScanInv, NEW k \in 0 .. 2 * ListSize - 1, Member(k) # NoPixel
    PROVE  Member(k) \in Deviating
  <1>1. CASE k < ListSize
    <2>1. k \in Slots /\ Member(k) = brokenPixels[k]
      BY <1>1 DEF Slots, Member
    <2>2. k < brokenPixCnt
      BY <2>1 DEF ScanInv, Listed, TypeOK, Slots
    <2> QED BY <2>1, <2>2 DEF ScanInv, Listed, Deviating
  <1>2. CASE ~(k < ListSize)
    <2>1. k - ListSize \in Slots /\ Member(k) = outlierPixels[k - ListSize]
      BY <1>2 DEF Slots, Member
    <2>2. k - ListSize < outlierPixCnt
      BY <2>1 DEF ScanInv, Listed, TypeOK, Slots
    <2> QED BY <2>1, <2>2 DEF ScanInv, Listed, Deviating
  <1> QED BY <1>1, <1>2
-----------------------------------------------------------------------------
(* The image.                                                              *)

\* Corrections stay within a subpage of a sensor in chess mode.
LEMMA NextOneSubpage ==
    ASSUME TypeOK, OneSubpage, [Next]_vars
    PROVE  OneSubpage'
  <1>1. CASE \E subPage \in {0, 1} : CalculateTo(subPage)
    <2>1. PICK subPage \in {0, 1} : CalculateTo(subPage)
      BY <1>1
    <2> QED BY <2>1 DEF CalculateTo, OneSubpage, Pattern
  <1>2. CASE CorrectPixel
    <2> DEFINE p == Member(pix)
    <2>1. p \in Pixels /\ mode' = mode /\ to \in [Pixels -> SUBSET Pixels]
      BY <1>2, MemberType DEF CorrectPixel, Entries, TypeOK
    <2>2. to' = [to EXCEPT ![p] = UNION {to[q] : q \in ChessSources(p)}]
      BY <1>2 DEF CorrectPixel
    <2> HIDE DEF p
    <2>3. SUFFICES ASSUME mode = 1
                   PROVE  \A x \in Pixels : \A r \in to'[x] : Pattern(r) = Pattern(x)
      BY <2>1 DEF OneSubpage, Pattern
    <2>4. \A r \in to'[p] : Pattern(r) = Pattern(p)
      BY <2>1, <2>2, <2>3, SourcesFit DEF OneSubpage
    <2> QED BY <2>1, <2>2, <2>3, <2>4 DEF OneSubpage
  <1>3. CASE UNCHANGED <<mode, to>>
    BY <1>3 DEF OneSubpage, Pattern
  <1> QED BY <1>1, <1>2, <1>3
       DEF Next, vars, scanVars, ScanPixel, JudgePixels, ListDone, GoAstray

\* A pixel of the image that depends on a deviating one is still waiting for
\* its correction.
LEMMA NextCleanInv ==
    ASSUME TypeOK, ScanInv, WalkInv, CleanInv, [Next]_vars
    PROVE  CleanInv'
  <1>1. CASE ScanPixel
    BY <1>1 DEF ScanPixel, CleanInv
  <1>2. CASE JudgePixels
    BY <1>2 DEF JudgePixels, CleanInv
  <1>3. SUFFICES ASSUME ~ScanPixel, ~JudgePixels, pc' # "scan", warn' = 0
                 PROVE  \A p \in Pixels : (to[p] \cap Deviating = {} \/ Waiting(p))'
    BY <1>1, <1>2, AfterScan DEF CleanInv
  <1>4. /\ pc # "scan" /\ warn = 0
        /\ Deviating' = Deviating
        /\ \A k : Member(k)' = Member(k)
        /\ \A p \in Pixels : to[p] \cap Deviating = {} \/ Waiting(p)
    BY <1>3, AfterScan DEF CleanInv, Deviating, Member
  <1>5. CASE \E subPage \in {0, 1} : CalculateTo(subPage)
    <2>1. PICK subPage \in {0, 1} : CalculateTo(subPage)
      BY <1>5
    <2>2. \A p \in Pixels : to[p] \cap Deviating = {}
      BY <1>4, <2>1 DEF CalculateTo, Waiting
    <2>3. ASSUME NEW p \in Deviating
          PROVE  \E k \in 0 .. 2 * ListSize - 1 : Member(k) = p
      <3>1. \/ \E k \in Slots : brokenPixels[k] = p
            \/ \E k \in Slots : outlierPixels[k] = p
        BY <1>4, AcceptedLists DEF Deviating, TypeOK, Classes
      <3>2. \A k \in Slots : /\ k \in 0 .. 2 * ListSize - 1
                             /\ Member(k) = brokenPixels[k]
        BY DEF Slots, Member
      <3>3. \A k \in Slots : /\ k + ListSize \in 0 .. 2 * ListSize - 1
                             /\ Member(k + ListSize) = outlierPixels[k]
        <4> SUFFICES ASSUME NEW k \in Slots
                     PROVE  /\ k + ListSize \in 0 .. 2 * ListSize - 1
                            /\ Member(k + ListSize) = outlierPixels[k]
          OBVIOUS
        <4>1. /\ k + ListSize \in 0 .. 2 * ListSize - 1
              /\ ~(k + ListSize < ListSize)
              /\ (k + ListSize) - ListSize = k
          BY DEF Slots
        <4> QED BY <4>1 DEF Member
      <3> QED BY <3>1, <3>2, <3>3
    <2>4. \A p \in Deviating : Waiting(p)'
      BY <1>4, <2>1, <2>3 DEF CalculateTo, Waiting
    <2>5. \A p \in Pixels : to'[p] = {p} \/ to'[p] = to[p]
      BY <2>1 DEF CalculateTo
    <2> QED BY <1>4, <2>2, <2>4, <2>5
  <1>6. CASE CorrectPixel
    <2> DEFINE x == Member(pix)
    <2>1. /\ pc \in {"broken", "outlier"} /\ pc' = pc
          /\ pix \in 0 .. 2 * ListSize - 1 /\ pix' = pix + 1
          /\ x # NoPixel
          /\ to \in [Pixels -> SUBSET Pixels]
          /\ to' = [to EXCEPT ![x] = UNION {to[q] : q \in ChessSources(x)}]
      BY <1>6 DEF CorrectPixel, TypeOK
    <2>2. x \in Deviating /\ x \in Pixels
      BY <2>1, MemberDeviates DEF Deviating
    <2>3. \A q \in ChessSources(x) : to[q] \cap Deviating = {}
      <3> SUFFICES ASSUME NEW q \in ChessSources(x) PROVE to[q] \cap Deviating = {}
        OBVIOUS
      <3>1. q \in Pixels /\ q \notin Deviating
        BY <1>4, <2>2, SourcesGood
      <3>2. ~Waiting(q)
        <4>1. SUFFICES ASSUME NEW k \in pix .. 2 * ListSize - 1, Member(k) = q
                       PROVE  FALSE
          BY DEF Waiting
        <4>2. k \in 0 .. 2 * ListSize - 1 /\ q # NoPixel
          BY <2>1, <3>1 DEF TypeOK
        <4> QED BY <3>1, <4>1, <4>2, MemberDeviates
      <3> QED BY <1>4, <3>1, <3>2
    <2> HIDE DEF x
    <2>4. to'[x] \cap Deviating = {}
      BY <2>1, <2>2, <2>3
    <2>5. ASSUME NEW p \in Pixels, p # x
          PROVE  to'[p] \cap Deviating = {} \/ Waiting(p)'
      <3>1. to'[p] = to[p]
        BY <2>1, <2>5
      <3>2. CASE Waiting(p)
        <4>1. PICK k \in pix .. 2 * ListSize - 1 : Member(k) = p
          BY <3>2 DEF Waiting
        <4>2. k \in pix' .. 2 * ListSize - 1
          BY <2>1, <2>5, <4>1 DEF x
        <4> QED BY <1>4, <2>1, <4>1, <4>2 DEF Waiting
      <3> QED BY <1>4, <3>1, <3>2
    <2> QED BY <1>4, <2>4, <2>5
  <1>7. CASE ListDone
    <2>1. /\ pc \in {"broken", "outlier"} /\ to' = to
          /\ pix \in 0 .. 2 * ListSize - 1 /\ Member(pix) = NoPixel
      BY <1>7 DEF ListDone, TypeOK
    <2>2. SUFFICES ASSUME NEW p \in Pixels, Waiting(p)
                   PROVE  Waiting(p)'
      BY <1>4, <2>1
    <2>3. PICK k \in pix .. 2 * ListSize - 1 : Member(k) = p
      BY <2>2 DEF Waiting
    <2>4. p # NoPixel /\ k \in Int /\ pix \in Int /\ pix <= k
      BY <2>1, <2>3
    <2>5. CASE pc = "broken"
      <3>1. pc' = "outlier" /\ pix' = ListSize
        BY <1>7, <2>5 DEF ListDone
      <3>2. pix <= ListSize - 1
        <4>1. SUFFICES ASSUME ListSize - 1 \in 0 .. pix - 1 PROVE FALSE
          BY <2>1
        <4>2. Member(ListSize - 1) = brokenPixels[ListSize - 1]
          BY DEF Member
        <4> QED BY <1>4, <2>5, <4>1, <4>2, AcceptedLists DEF WalkInv
      <3>3. ListSize <= k
        <4>1. SUFFICES ASSUME k < ListSize PROVE FALSE
          BY <2>4
        <4>2. pix \in Slots /\ brokenPixels[pix] = NoPixel
          BY <2>1, <3>2 DEF Slots, Member
        <4>3. pix >= brokenPixCnt
          BY <4>2 DEF ScanInv, Listed, TypeOK, Slots
        <4>4. k \in Slots /\ k >= brokenPixCnt /\ brokenPixels[k] = p
          BY <2>3, <2>4, <4>1, <4>2, <4>3 DEF Slots, Member, TypeOK
        <4> QED BY <2>4, <4>4 DEF ScanInv, Listed
      <3> QED BY <1>4, <2>3, <3>1, <3>3 DEF Waiting
    <2>6. CASE pc = "outlier"
      <3>1. pix >= ListSize
        BY <2>6 DEF WalkInv
      <3>2. pix - ListSize \in Slots /\ outlierPixels[pix - ListSize] = NoPixel
        BY <2>1, <3>1 DEF Slots, Member
      <3>3. pix - ListSize >= outlierPixCnt
        BY <3>2 DEF ScanInv, Listed, TypeOK, Slots
      <3>4. /\ k - ListSize \in Slots /\ k - ListSize >= outlierPixCnt
            /\ outlierPixels[k - ListSize] = p
        BY <2>3, <2>4, <3>1, <3>3 DEF Slots, Member, TypeOK
      <3> QED BY <2>4, <3>4 DEF ScanInv, Listed
    <2> QED BY <2>1, <2>5, <2>6
  <1>8. CASE GoAstray
    <2>1. pix = 2 * ListSize /\ to' = to
      BY <1>8 DEF GoAstray
    <2>2. pix .. 2 * ListSize - 1 = {}
      BY <2>1
    <2> QED BY <1>4, <2>1, <2>2 DEF Waiting
  <1>9. CASE UNCHANGED vars
    BY <1>4, <1>9 DEF vars, Waiting
  <1> QED BY <1>3, <1>5, <1>6, <1>7, <1>8, <1>9 DEF Next
-----------------------------------------------------------------------------
(* The theorems.                                                           *)

\* IInv is an invariant of the program: it holds initially and each step, of
\* the extraction or of a frame, keeps it.
THEOREM InductiveInvariant == Spec => []IInv
  <1>1. IInv /\ [Next]_vars => IInv'
    BY NextTypeOK, NextScanInv, NextWalkInv, NextCleanInv, NextOneSubpage DEF IInv
  <1> QED BY <1>1, InitIInv, PTL DEF Spec

\* The lists, the counters and the provenance sets keep their types; in
\* particular a correction reads no pixel outside the array, at any edge.
THEOREM TypeCorrect == Spec => []TypeOK
  <1>1. IInv => TypeOK
    BY DEF IInv
  <1> QED BY <1>1, InductiveInvariant, PTL

\* An extraction that reports 0 has listed exactly the deviating pixels.
THEOREM ListsExactHolds == Spec => []ListsExact
  <1>1. IInv => ListsExact
    BY AcceptedLists DEF IInv, ListsExact
  <1> QED BY <1>1, InductiveInvariant, PTL

\* An extraction that reports 0 has found no two deviating neighbours.
THEOREM DeviatingApartHolds == Spec => []DeviatingApart
  <1>1. IInv => DeviatingApart
    <2> SUFFICES ASSUME IInv, pc # "scan", warn = 0,
                        NEW p \in Deviating, NEW q \in Deviating, Neighbours(p, q)
                 PROVE  FALSE
      BY DEF DeviatingApart
    <2>1. p # q /\ CheckAdjacentPixels(p, q) = 0
      BY AcceptedApart DEF IInv, Neighbours
    <2>2. /\ p \in Int /\ q \in Int /\ Line(p) \in Int /\ Line(q) \in Int
          /\ Column(p) \in Int /\ Column(q) \in Int
          /\ p = Line(p) * Width + Column(p) /\ q = Line(q) * Width + Column(q)
          /\ Width \in Nat /\ Width > 3
      BY LineColumn DEF Deviating, Pixels
    <2>3. PICK dl \in -1 .. 1 : Line(p) = Line(q) + dl
      BY <2>2 DEF Neighbours
    <2>4. PICK dc \in -1 .. 1 : Column(p) = Column(q) + dc
      BY <2>2 DEF Neighbours
    <2>5. p - q = dl * Width + dc
      BY <2>2, <2>3, <2>4, SMT
    <2>6. dl \in {-1, 0, 1} /\ dc \in {-1, 0, 1}
      BY <2>3, <2>4
    <2>7. p - q \in {- Width - 1, - Width, - Width + 1, -1, 0, 1,
                     Width - 1, Width, Width + 1}
      BY <2>2, <2>5, <2>6
    <2> QED BY <2>1, <2>2, <2>7 DEF CheckAdjacentPixels
  <1> QED BY <1>1, InductiveInvariant, PTL

\* After an extraction that reports 0 no drawn image depends on a deviating pixel, in
\* either mode of the sensor.
THEOREM ImageIsCleanHolds == Spec => []ImageIsClean
  <1>1. IInv => ImageIsClean
    BY DEF IInv, CleanInv, ImageIsClean, Waiting
  <1> QED BY <1>1, InductiveInvariant, PTL

\* While the sensor is in chess mode the correction never mixes the measurements of
\* the two subpages.
THEOREM OneSubpageHolds == Spec => []OneSubpage
  <1>1. IInv => OneSubpage
    BY DEF IInv
  <1> QED BY <1>1, InductiveInvariant, PTL

\* The walk leaves paramsMLX90640 only after the verdict "too many outliers".
THEOREM AstrayOnlyOnOutliersHolds == Spec => []AstrayOnlyOnOutliers
  <1>1. IInv => AstrayOnlyOnOutliers
    BY DEF IInv, WalkInv, AstrayOnlyOnOutliers
  <1> QED BY <1>1, InductiveInvariant, PTL
=============================================================================
