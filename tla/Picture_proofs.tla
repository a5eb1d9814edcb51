--------------------------- MODULE Picture_proofs ---------------------------
(***************************************************************************)
(* Proofs about Picture for every size of the sensor and every whole       *)
(* magnification that fits on the screen.                                  *)
(***************************************************************************)
EXTENDS Picture, TLAPS

\* Quotient and remainder are determined by q * d + r with 0 <= r < d.
LEMMA DivModUnique ==
    ASSUME NEW a \in Int, NEW d \in Nat \ {0}, NEW q \in Int, NEW r \in 0 .. d - 1,
           a = q * d + r
    PROVE  a \div d = q /\ a % d = r
OBVIOUS

\* Quotient and remainder, put together, give the number.
LEMMA DivMod ==
    ASSUME NEW a \in Nat, NEW d \in Nat \ {0}
    PROVE  /\ a \div d \in Nat
           /\ a % d \in 0 .. d - 1
           /\ a = (a \div d) * d + (a % d)
OBVIOUS

\* A product of two numbers that are not 0 is not 0.
LEMMA NonZeroProduct ==
    ASSUME NEW a \in Int, NEW b \in Int, a # 0, b # 0
    PROVE  a * b # 0
OBVIOUS

\* Multiplying two inequalities of naturals.
LEMMA ProductOrder ==
    ASSUME NEW a \in Nat, NEW b \in Nat, NEW c \in Nat, a <= b
    PROVE  a * c <= b * c
OBVIOUS

\* What SizeAssumption says of one axis.
Axis(src, dest) ==
    /\ src \in Nat /\ src > 1
    /\ dest \in Nat \ {0}
    /\ dest % src = 0

\* The magnification of an axis.
LEMMA Magnification ==
    ASSUME NEW src, NEW dest, Axis(src, dest)
    PROVE  /\ dest \div src \in Nat \ {0}
           /\ dest = (dest \div src) * src
           /\ dest >= src
<1>1. dest = (dest \div src) * src /\ dest \div src \in Nat
  BY DivMod DEF Axis
<1>2. dest \div src # 0
  BY <1>1 DEF Axis
<1>3. 1 * src <= (dest \div src) * src
  BY <1>1, <1>2, ProductOrder DEF Axis
<1>4. QED
  BY <1>1, <1>2, <1>3 DEF Axis

\* Interpolation along one axis: the last index is reached with no fraction.
LEMMA AxisEdge ==
    ASSUME NEW src, NEW dest, Axis(src, dest), NEW x \in 0 .. dest - 1
    PROVE  /\ Whole(x, src, dest) \in 0 .. src - 1
           /\ Part(x, src, dest) \in 0 .. dest - 2
           /\ Whole(x, src, dest) = src - 1 => Part(x, src, dest) = 0
<1> DEFINE a == x * (src - 1)
           d == dest - 1
           q == a \div d
           r == a % d
<1>1. d \in Nat \ {0} /\ src - 1 \in Nat /\ x \in Nat /\ x <= d
  BY Magnification DEF Axis
<1>2. a \in Nat /\ a <= d * (src - 1)
  BY <1>1, ProductOrder
<1> HIDE DEF a, d
<1>3. q \in Nat /\ r \in 0 .. d - 1 /\ a = q * d + r
  BY <1>1, <1>2, DivMod
<1> HIDE DEF q, r
<1>4. q <= src - 1
  <2> SUFFICES ASSUME src <= q PROVE FALSE
    BY <1>1, <1>3 DEF Axis
  <2>1. src * d <= q * d
    BY <1>1, <1>3, ProductOrder DEF Axis
  <2>2. d * (src - 1) = src * d - d
    BY <1>1 DEF Axis
  <2>3. src * d \in Int /\ q * d \in Int
    BY <1>1, <1>3 DEF Axis
  <2>4. QED
    BY <1>1, <1>2, <1>3, <2>1, <2>2, <2>3
<1>5. q = src - 1 => r = 0
  <2> SUFFICES ASSUME q = src - 1 PROVE r = 0
    OBVIOUS
  <2>1. q * d = d * (src - 1) /\ q * d \in Int
    BY <1>1
  <2>2. QED
    BY <1>1, <1>2, <1>3, <2>1
<1>6. q = Whole(x, src, dest) /\ r = Part(x, src, dest) /\ d = dest - 1
  BY DEF q, r, a, d, Whole, Part
<1>7. QED
  BY <1>1, <1>3, <1>4, <1>5, <1>6 DEF Axis

\* Along one axis, the position derived for pixel p of the source lies between
\* p - 1, not included, and p on the scale of the interpolation.
LEMMA AxisMark ==
    ASSUME NEW src, NEW dest, Axis(src, dest), NEW p \in 0 .. src - 1
    PROVE  LET x == p * (dest \div src)
           IN /\ x \in 0 .. dest - 1
              /\ \/ Whole(x, src, dest) = p /\ Part(x, src, dest) = 0
                 \/ Whole(x, src, dest) = p - 1 /\ Part(x, src, dest) \in 1 .. dest - 2
<1> DEFINE k == dest \div src
           d == dest - 1
           e == p * (k - 1)
           x == p * k
<1>1. k \in Nat \ {0} /\ dest = k * src /\ dest >= src
  BY Magnification
<1> HIDE DEF k
<1>2. p \in Nat /\ src \in Nat /\ p <= src - 1 /\ src > 1 /\ k - 1 \in Nat /\ d \in Nat \ {0}
  BY <1>1 DEF Axis
<1>3. x \in 0 .. dest - 1
  <2>1. p * k <= (src - 1) * k
    BY <1>1, <1>2, ProductOrder
  <2>2. (src - 1) * k = dest - k
    BY <1>1, <1>2
  <2>3. p * k \in Nat
    BY <1>1, <1>2
  <2>4. QED
    BY <1>1, <1>2, <2>1, <2>2, <2>3 DEF Axis
<1>4. e \in 0 .. d - 1
  <2>1. p * (k - 1) <= (src - 1) * (k - 1)
    BY <1>2, ProductOrder
  <2>2. (src - 1) * (k - 1) = dest - src - k + 1
    BY <1>1, <1>2
  <2>3. p * (k - 1) \in Nat
    BY <1>2
  <2>4. QED
    BY <1>1, <1>2, <2>1, <2>2, <2>3 DEF Axis
<1> DEFINE a == x * (src - 1)
<1>5. a = p * d - e
  BY <1>1, <1>2
<1>6. p * d \in Int /\ (p - 1) * d = p * d - d
  BY <1>2
<1> HIDE DEF e, d, x, a
<1>7. CASE e = 0
  <2>1. a = p * d + 0 /\ a \in Int /\ 0 \in 0 .. d - 1
    BY <1>2, <1>5, <1>6, <1>7
  <2>2. a \div d = p /\ a % d = 0
    BY <1>2, <2>1, DivModUnique
  <2>3. Whole(x, src, dest) = p /\ Part(x, src, dest) = 0
    BY <2>2 DEF Whole, Part, a, d
  <2>4. QED
    BY <1>3, <2>3 DEF x, k
<1>8. CASE e # 0
  <2>1. a = (p - 1) * d + (d - e) /\ a \in Int /\ d - e \in 1 .. d - 1 /\ p - 1 \in Int
    BY <1>2, <1>4, <1>5, <1>6, <1>8
  <2>2. d - e \in 0 .. d - 1
    BY <1>2, <2>1
  <2>3. a \div d = p - 1 /\ a % d = d - e
    BY <1>2, <2>1, <2>2, DivModUnique
  <2>4. Whole(x, src, dest) = p - 1 /\ Part(x, src, dest) = d - e
    BY <2>3 DEF Whole, Part, a, d
  <2>5. Part(x, src, dest) \in 1 .. dest - 2
    BY <1>2, <2>1, <2>4 DEF d, Axis
  <2>6. QED
    BY <1>3, <2>4, <2>5 DEF x, k
<1>9. QED
  BY <1>7, <1>8
-----------------------------------------------------------------------------
(* The two axes of the picture.                                            *)

\* Both axes of the picture are as SizeAssumption says.
LEMMA Axes == Axis(SRC_WIDTH, DEST_WIDTH) /\ Axis(SRC_HEIGHT, DEST_HEIGHT)
BY SizeAssumption DEF Axis

\* dest_matrix is at least as large as src_matrix.
LEMMA Sizes ==
    /\ SRC_WIDTH \in Nat /\ SRC_WIDTH > 1 /\ DEST_WIDTH \in Nat /\ DEST_WIDTH >= SRC_WIDTH
    /\ SRC_HEIGHT \in Nat /\ SRC_HEIGHT > 1 /\ DEST_HEIGHT \in Nat /\ DEST_HEIGHT >= SRC_HEIGHT
BY Axes, Magnification DEF Axis

\* The position derived for a pixel of src_matrix is a pixel of dest_matrix.
LEMMA DestOfType ==
    ASSUME NEW p \in SrcPixel
    PROVE  DestOf(p) \in DestPixel
<1>1. p.row \in 0 .. SRC_HEIGHT - 1 /\ p.col \in 0 .. SRC_WIDTH - 1
  BY DEF SrcPixel
<1>2. p.row * (DEST_HEIGHT \div SRC_HEIGHT) \in 0 .. DEST_HEIGHT - 1
  BY <1>1, Axes, AxisMark
<1>3. p.col * (DEST_WIDTH \div SRC_WIDTH) \in 0 .. DEST_WIDTH - 1
  BY <1>1, Axes, AxisMark
<1>4. QED
  BY <1>2, <1>3 DEF DestOf, DestPixel

\* One of the four reads for the derived position is the pixel itself, and it
\* counts.
LEMMA MarkedNear ==
    ASSUME NEW p \in SrcPixel
    PROVE  MarkedNearItsPixel(p, DestOf(p))
<1> DEFINE y == p.row * (DEST_HEIGHT \div SRC_HEIGHT)
           x == p.col * (DEST_WIDTH \div SRC_WIDTH)
           y1 == Whole(y, SRC_HEIGHT, DEST_HEIGHT)
           x1 == Whole(x, SRC_WIDTH, DEST_WIDTH)
           down == Part(y, SRC_HEIGHT, DEST_HEIGHT)
           right == Part(x, SRC_WIDTH, DEST_WIDTH)
           up == DEST_HEIGHT - 1 - down
           left == DEST_WIDTH - 1 - right
<1>1. p.row \in 0 .. SRC_HEIGHT - 1 /\ p.col \in 0 .. SRC_WIDTH - 1
  BY DEF SrcPixel
<1>2. \/ y1 = p.row /\ down = 0
      \/ y1 = p.row - 1 /\ down \in 1 .. DEST_HEIGHT - 2
  BY <1>1, Axes, AxisMark
<1>3. \/ x1 = p.col /\ right = 0
      \/ x1 = p.col - 1 /\ right \in 1 .. DEST_WIDTH - 2
  BY <1>1, Axes, AxisMark
<1> DEFINE R == {[row |-> y1, col |-> x1, weight |-> up * left],
                 [row |-> y1, col |-> x1 + 1, weight |-> up * right],
                 [row |-> y1 + 1, col |-> x1, weight |-> down * left],
                 [row |-> y1 + 1, col |-> x1 + 1, weight |-> down * right]}
<1>4. Reads(DestOf(p).row, DestOf(p).col) = R
  BY DEF Reads, DestOf
<1> HIDE DEF y, x, y1, x1, down, right
<1>5. /\ y1 = p.row => up # 0 /\ up \in Int /\ down \in Int
      /\ y1 = p.row - 1 => down # 0 /\ up \in Int /\ down \in Int
  BY <1>1, <1>2, Sizes
<1>6. /\ x1 = p.col => left # 0 /\ left \in Int /\ right \in Int
      /\ x1 = p.col - 1 => right # 0 /\ left \in Int /\ right \in Int
  BY <1>1, <1>3, Sizes
<1> HIDE DEF up, left
<1>7. \E r \in R : r.row = p.row /\ r.col = p.col /\ r.weight # 0
  <2>1. CASE y1 = p.row /\ x1 = p.col
    <3>1. up * left # 0
      BY <1>5, <1>6, <2>1, NonZeroProduct
    <3>2. WITNESS [row |-> y1, col |-> x1, weight |-> up * left] \in R
    <3>3. QED
      BY <2>1, <3>1
  <2>2. CASE y1 = p.row /\ x1 = p.col - 1
    <3>1. up * right # 0
      BY <1>5, <1>6, <2>2, NonZeroProduct
    <3>2. WITNESS [row |-> y1, col |-> x1 + 1, weight |-> up * right] \in R
    <3>3. QED
      BY <1>1, <2>2, <3>1
  <2>3. CASE y1 = p.row - 1 /\ x1 = p.col
    <3>1. down * left # 0
      BY <1>5, <1>6, <2>3, NonZeroProduct
    <3>2. WITNESS [row |-> y1 + 1, col |-> x1, weight |-> down * left] \in R
    <3>3. QED
      BY <1>1, <2>3, <3>1
  <2>4. CASE y1 = p.row - 1 /\ x1 = p.col - 1
    <3>1. down * right # 0
      BY <1>5, <1>6, <2>4, NonZeroProduct
    <3>2. WITNESS [row |-> y1 + 1, col |-> x1 + 1, weight |-> down * right] \in R
    <3>3. QED
      BY <1>1, <2>4, <3>1
  <2>5. QED
    BY <1>2, <1>3, <2>1, <2>2, <2>3, <2>4
<1>8. QED
  BY <1>4, <1>7 DEF MarkedNearItsPixel

\* Every read with a weight is inside src_matrix.
LEMMA ReadsInside ==
    ASSUME NEW y \in 0 .. DEST_HEIGHT - 1, NEW x \in 0 .. DEST_WIDTH - 1
    PROVE  \A r \in Reads(y, x) : r.weight # 0 => r.row < SRC_HEIGHT /\ r.col < SRC_WIDTH
<1> DEFINE y1 == Whole(y, SRC_HEIGHT, DEST_HEIGHT)
           x1 == Whole(x, SRC_WIDTH, DEST_WIDTH)
           down == Part(y, SRC_HEIGHT, DEST_HEIGHT)
           right == Part(x, SRC_WIDTH, DEST_WIDTH)
           up == DEST_HEIGHT - 1 - down
           left == DEST_WIDTH - 1 - right
<1>1. y1 \in 0 .. SRC_HEIGHT - 1 /\ down \in Nat /\ (y1 = SRC_HEIGHT - 1 => down = 0)
  BY Axes, AxisEdge, Sizes
<1>2. x1 \in 0 .. SRC_WIDTH - 1 /\ right \in Nat /\ (x1 = SRC_WIDTH - 1 => right = 0)
  BY Axes, AxisEdge, Sizes
<1>3. up \in Int /\ left \in Int
  BY <1>1, <1>2, Sizes
<1>4. ASSUME NEW r \in Reads(y, x)
      PROVE  \/ r = [row |-> y1, col |-> x1, weight |-> up * left]
             \/ r = [row |-> y1, col |-> x1 + 1, weight |-> up * right]
             \/ r = [row |-> y1 + 1, col |-> x1, weight |-> down * left]
             \/ r = [row |-> y1 + 1, col |-> x1 + 1, weight |-> down * right]
  BY <1>4 DEF Reads
<1> HIDE DEF y1, x1, down, right, up, left
<1>5. /\ right = 0 => up * right = 0 /\ down * right = 0
      /\ down = 0 => down * left = 0 /\ down * right = 0
  BY <1>1, <1>2, <1>3
<1>6. QED
  BY <1>1, <1>2, <1>4, <1>5, Sizes
-----------------------------------------------------------------------------
(* The inductive invariant.                                                *)

\* thread1 starts its first frame in a state of the invariant.
LEMMA InitIInv == Init => IInv
<1> SUFFICES ASSUME Init PROVE IInv
  OBVIOUS
<1>1. NoPixel \in SrcPixel /\ NoPixel \in DestPixel
  BY Sizes DEF NoPixel, SrcPixel, DestPixel
<1>2. SRC_WIDTH * SRC_HEIGHT - 1 \in -1 .. SRC_WIDTH * SRC_HEIGHT - 1
  <2>1. SRC_WIDTH * SRC_HEIGHT \in Nat
    BY Sizes
  <2>2. QED
    BY <2>1
<1>3. TypeOK
  BY <1>1, <1>2, Sizes DEF Init, TypeOK
<1>4. LinesReversed
  BY Sizes DEF Init, LinesReversed
<1>5. MarksFollow
  <2>1. DEST_HEIGHT \div SRC_HEIGHT \in Int /\ DEST_WIDTH \div SRC_WIDTH \in Int
    BY Axes, Magnification
  <2>2. DestOf(NoPixel) = NoPixel
    BY <2>1 DEF DestOf, NoPixel
  <2>3. QED
    BY <2>2 DEF Init, MarksFollow
<1>6. ConvertInside
  BY Sizes DEF Init, ConvertInside, SrcPixel
<1>7. QED
  BY <1>3, <1>4, <1>5, <1>6 DEF Init, IInv, CrossInImage, DrawsOnScreen

\* The image lies on the screen, and so does whatever lies in the image.
LEMMA ImageOnScreen ==
    ASSUME NEW r \in [x: Int, y: Int, width: Int, height: Int], Within(r, ImageRect)
    PROVE  Within(r, Rect(0, 0, LCD_WIDTH, LCD_HEIGHT))
BY Sizes, SizeAssumption DEF Within, ImageRect, Rect, ImageX, ImageY, LCD_WIDTH, LCD_HEIGHT

\* A cross that is drawn is inside the image.
LEMMA CrossInside ==
    ASSUME NEW d \in DestPixel, CrossShown(d), NEW r \in Cross(d)
    PROVE  /\ r \in [x: Int, y: Int, width: Int, height: Int]
           /\ Within(r, ImageRect)
<1>1. d.row \in Int /\ d.col \in Int
  BY Sizes DEF DestPixel
<1>2. QED
  BY <1>1, Sizes DEF CrossShown, Cross, Rect, Within, ImageRect, ImageX, ImageY

\* The text that thread1 draws is on the screen.
LEMMA TextOnScreen ==
    ASSUME NEW y \in {0, 315}
    PROVE  \A r \in String(30, y, 16, 32) : Within(r, Rect(0, 0, LCD_WIDTH, LCD_HEIGHT))
BY DEF String, Char, Rect, Within, LCD_WIDTH, LCD_HEIGHT

\* The numbers that thread1 draws, and the white box below them, are on the screen.
LEMMA NumberOnScreen ==
    ASSUME NEW y \in {5, 320}, NEW x \in 300 .. 349
    PROVE  /\ Within(Char(x, y, 24), Rect(0, 0, LCD_WIDTH, LCD_HEIGHT))
           /\ Within(Box(325, y), Rect(0, 0, LCD_WIDTH, LCD_HEIGHT))
BY DEF Char, Box, Rect, Within, LCD_WIDTH, LCD_HEIGHT

\* The product of the sizes of src_matrix, and a step of the index in it.
LEMMA IndexArithmetic ==
    ASSUME NEW r \in 0 .. SRC_HEIGHT - 1, NEW c \in 0 .. SRC_WIDTH - 1
    PROVE  LET n == (SRC_HEIGHT - 1 - r) * SRC_WIDTH
           IN /\ n \in Nat
              /\ n + c \in 0 .. SRC_WIDTH * SRC_HEIGHT - 1
              /\ n - 1 = (SRC_HEIGHT - 1 - (r + 1)) * SRC_WIDTH + (SRC_WIDTH - 1)
<1> DEFINE k == SRC_HEIGHT - 1 - r
<1>1. k \in Nat /\ k <= SRC_HEIGHT - 1
  BY Sizes
<1>2. k * SRC_WIDTH <= (SRC_HEIGHT - 1) * SRC_WIDTH
  BY <1>1, Sizes, ProductOrder
<1>3. (SRC_HEIGHT - 1) * SRC_WIDTH = SRC_WIDTH * SRC_HEIGHT - SRC_WIDTH
  BY Sizes
<1>4. k * SRC_WIDTH \in Nat /\ SRC_WIDTH * SRC_HEIGHT \in Nat
  BY <1>1, Sizes
<1>5. k * SRC_WIDTH - 1 = (k - 1) * SRC_WIDTH + (SRC_WIDTH - 1)
  BY <1>1, Sizes
<1>6. SRC_HEIGHT - 1 - (r + 1) = k - 1
  BY Sizes
<1> HIDE DEF k
<1>7. k * SRC_WIDTH + c \in 0 .. SRC_WIDTH * SRC_HEIGHT - 1
  BY <1>2, <1>3, <1>4, Sizes
<1>8. QED
  BY <1>4, <1>5, <1>6, <1>7 DEF k

\* The steps that draw move neither the counters nor what was found.
LEMMA DrawIInv ==
    ASSUME IInv, NEW from, NEW to, NEW rects, Draw(from, to, rects),
           from \notin {"convert"}, to \notin {"convert"},
           to \in {"crossMax", "crossMin", "stringMax", "floatMax", "intMax", "stringMin",
                   "floatMin", "intMin", "delay"},
           <<t', len'>> \in {<<0, 2>>, <<2, 3>>},
           \A r \in rects : Within(r, Rect(0, 0, LCD_WIDTH, LCD_HEIGHT)),
           to \in {"crossMin", "stringMax"} => \A r \in rects : Within(r, ImageRect)
    PROVE  IInv'
<1>1. TypeOK'
  BY DEF IInv, TypeOK, Draw, findVars
<1>2. ConvertInside' /\ LinesReversed'
  BY DEF Draw, ConvertInside, LinesReversed
<1>3. MarksFollow'
  BY DEF IInv, Draw, findVars, MarksFollow
<1>4. CrossInImage' /\ DrawsOnScreen'
  BY DEF Draw, CrossInImage, DrawsOnScreen, ImageRect
<1>5. QED
  BY <1>1, <1>2, <1>3, <1>4 DEF IInv

\* Every step of a frame keeps the invariant.
LEMMA NextIInv == IInv /\ [Next]_vars => IInv'
<1> SUFFICES ASSUME IInv, [Next]_vars PROVE IInv'
  OBVIOUS
<1>0. TypeOK
  BY DEF IInv
<1>1. CASE Convert
  <2>1. row \in 0 .. SRC_HEIGHT - 1 /\ col \in 0 .. SRC_WIDTH - 1
    BY <1>1 DEF IInv, Convert, ConvertInside, SrcPixel
  <2> DEFINE n == (SRC_HEIGHT - 1 - row) * SRC_WIDTH
             last == SRC_WIDTH * SRC_HEIGHT - 1
  <2>2. n \in Nat /\ n + col \in 0 .. last /\ last \in Int
    BY <2>1, IndexArithmetic, Sizes
  <2>3. n - 1 = (SRC_HEIGHT - 1 - (row + 1)) * SRC_WIDTH + (SRC_WIDTH - 1)
    BY <2>1, IndexArithmetic
  <2>4. index = n + col
    BY <1>1 DEF IInv, Convert, LinesReversed
  <2> HIDE DEF n, last
  <2>5. index' \in -1 .. last
    BY <1>1, <2>1, <2>2, <2>4, Sizes DEF Convert
  <2>6. /\ pc' \in {"convert", "interpolate"}
        /\ row' \in 0 .. DEST_HEIGHT - 1
        /\ col' \in 0 .. DEST_WIDTH - 1
    BY <1>1, <2>1, Sizes DEF Convert
  <2>7. TypeOK'
    BY <1>0, <1>1, <2>5, <2>6 DEF TypeOK, Convert, findVars, textVars, last
  <2>8. ConvertInside'
    BY <1>1, <2>1, Sizes DEF Convert, ConvertInside, SrcPixel
  <2>9. LinesReversed'
    <3>1. CASE col > 0
      <4>1. row' = row /\ col' = col - 1 /\ index' = index - 1
        BY <1>1, <3>1 DEF Convert
      <4>2. index' = n + col'
        BY <2>1, <2>2, <2>4, <4>1
      <4>3. QED
        BY <4>1, <4>2 DEF LinesReversed, n
    <3>2. CASE col = 0 /\ row < SRC_HEIGHT - 1
      <4>1. row' = row + 1 /\ col' = SRC_WIDTH - 1 /\ index' = index - 1
        BY <1>1, <3>2 DEF Convert
      <4>2. index' = n - 1
        BY <2>2, <2>4, <3>2, <4>1
      <4>3. QED
        BY <2>3, <4>1, <4>2 DEF LinesReversed
    <3>3. CASE col = 0 /\ ~(row < SRC_HEIGHT - 1)
      BY <1>1, <3>3 DEF Convert, LinesReversed
    <3>4. QED
      BY <2>1, <3>1, <3>2, <3>3, Sizes
  <2>10. MarksFollow' /\ CrossInImage' /\ DrawsOnScreen'
    BY <1>1, <2>6 DEF IInv, Convert, MarksFollow, CrossInImage, DrawsOnScreen, findVars
  <2>11. QED
    BY <2>7, <2>8, <2>9, <2>10 DEF IInv
<1>2. CASE Interpolate
  <2>1. TypeOK'
    BY <1>0, <1>2, Sizes DEF TypeOK, Interpolate, findVars, textVars
  <2>2. ConvertInside' /\ LinesReversed' /\ CrossInImage'
    BY <1>2 DEF Interpolate, ConvertInside, LinesReversed, CrossInImage
  <2>3. MarksFollow' /\ DrawsOnScreen'
    BY <1>2 DEF IInv, Interpolate, MarksFollow, DrawsOnScreen, findVars
  <2>4. QED
    BY <2>1, <2>2, <2>3 DEF IInv
<1>3. CASE FindMax
  <2>1. hot' \in SrcPixel /\ max_dest' \in DestPixel
    BY <1>3, SpotAssumption, DestOfType DEF FindMax
  <2>2. TypeOK'
    BY <1>0, <1>3, <2>1, TemperatureAssumption DEF TypeOK, FindMax, textVars
  <2>3. MarksFollow'
    BY <1>3 DEF IInv, FindMax, MarksFollow, DestOf
  <2>4. ConvertInside' /\ LinesReversed' /\ CrossInImage' /\ DrawsOnScreen'
    BY <1>3 DEF IInv, FindMax, ConvertInside, LinesReversed, CrossInImage, DrawsOnScreen
  <2>5. QED
    BY <2>2, <2>3, <2>4 DEF IInv
<1>4. CASE FindMin
  <2>1. cold' \in SrcPixel /\ min_dest' \in DestPixel
    BY <1>4, SpotAssumption, DestOfType DEF FindMin
  <2>2. TypeOK'
    BY <1>0, <1>4, <2>1, TemperatureAssumption DEF TypeOK, FindMin, textVars
  <2>3. MarksFollow'
    BY <1>4 DEF IInv, FindMin, MarksFollow, DestOf
  <2>4. ConvertInside' /\ LinesReversed' /\ CrossInImage' /\ DrawsOnScreen'
    BY <1>4 DEF IInv, FindMin, ConvertInside, LinesReversed, CrossInImage, DrawsOnScreen
  <2>5. QED
    BY <2>2, <2>3, <2>4 DEF IInv
<1>5. CASE DrawImage
  <2>1. ImageRect \in [x: Int, y: Int, width: Int, height: Int] /\ Within(ImageRect, ImageRect)
    BY Sizes DEF ImageRect, Rect, Within, ImageX, ImageY
  <2>2. Within(ImageRect, Rect(0, 0, LCD_WIDTH, LCD_HEIGHT))
    BY <2>1, ImageOnScreen
  <2>3. <<t', len'>> \in {<<0, 2>>, <<2, 3>>}
    BY <1>0, <1>5 DEF DrawImage, textVars, TypeOK
  <2>4. QED
    BY <1>5, <2>2, <2>3, DrawIInv DEF DrawImage
<1>6. CASE DrawMaxCross \/ DrawMinCross
  <2>1. max_dest \in DestPixel /\ min_dest \in DestPixel
    BY <1>0 DEF TypeOK
  <2>2. <<t', len'>> \in {<<0, 2>>, <<2, 3>>}
    BY <1>0, <1>6 DEF DrawMaxCross, DrawMinCross, textVars, TypeOK
  <2>3. ASSUME NEW d \in DestPixel
        PROVE  \A r \in IF CrossShown(d) THEN Cross(d) ELSE {} :
                 Within(r, ImageRect) /\ Within(r, Rect(0, 0, LCD_WIDTH, LCD_HEIGHT))
    BY CrossInside, ImageOnScreen
  <2>4. CASE DrawMaxCross
    BY <2>1, <2>2, <2>3, <2>4, DrawIInv DEF DrawMaxCross
  <2>5. CASE DrawMinCross
    BY <2>1, <2>2, <2>3, <2>5, DrawIInv DEF DrawMinCross
  <2>6. QED
    BY <1>6, <2>4, <2>5
<1>7. ASSUME NEW from \in {"stringMax", "stringMin"}, NEW to \in {"floatMax", "floatMin"},
             NEW y \in {0, 315}, ShowString(from, to, y)
      PROVE  IInv'
  BY <1>7, TextOnScreen, DrawIInv DEF ShowString
<1>8. ASSUME NEW from \in {"floatMax", "floatMin"}, NEW to \in {"intMax", "intMin"},
             NEW y \in {5, 320}, NEW num, ShowFloatNum1(from, to, 325, y, num)
      PROVE  IInv'
  <2>1. CASE t = 0 /\ len = 2
    <3>1. Draw(from, from, {Char(337, y, 24)} \cup {Box(325, y), Char(325, y, 24)})
      BY <1>8, <2>1 DEF ShowFloatNum1
    <3>2. pc' = from /\ pc' # to
      BY <1>8, <3>1 DEF Draw
    <3>3. t' = 2 /\ len' = 3
      BY <1>8, <2>1, <3>2 DEF ShowFloatNum1
    <3>4. QED
      BY <1>8, <3>1, <3>3, NumberOnScreen, DrawIInv
  <2>2. CASE t = 2 /\ len = 3
    <3>1. Draw(from, to, {Char(349, y, 24)} \cup {})
      BY <1>8, <2>2 DEF ShowFloatNum1
    <3>2. t' = 0 /\ len' = 2
      BY <1>8, <2>2, <3>1 DEF ShowFloatNum1, Draw
    <3>3. QED
      BY <1>8, <3>1, <3>2, NumberOnScreen, DrawIInv
  <2>3. QED
    BY <1>0, <2>1, <2>2 DEF TypeOK
<1>9. ASSUME NEW from \in {"intMax", "intMin"}, NEW to \in {"stringMin", "delay"},
             NEW y \in {5, 320}, NEW num, ShowIntNum(from, to, 300, y, num)
      PROVE  IInv'
  <2>1. Draw(from, to, {Char(300, y, 24), Char(312, y, 24)})
    BY <1>9 DEF ShowIntNum
  <2>2. <<t', len'>> \in {<<0, 2>>, <<2, 3>>}
    BY <1>0, <1>9 DEF ShowIntNum, TypeOK
  <2>3. QED
    BY <1>9, <2>1, <2>2, NumberOnScreen, DrawIInv
<1>10. CASE ShowMax \/ ShowMin
  BY <1>7, <1>8, <1>9, <1>10 DEF ShowMax, ShowMin
<1>11. CASE Delay
  <2>1. Init'
    BY <1>11 DEF Delay, Init, NoPixel
  <2>2. QED
    BY <2>1, InitIInv, PTL
<1>12. CASE UNCHANGED vars
  BY <1>0, <1>12 DEF vars, findVars, textVars, IInv, TypeOK, ConvertInside, LinesReversed,
                     MarksFollow, CrossInImage, DrawsOnScreen
<1>13. QED
  BY <1>1, <1>2, <1>3, <1>4, <1>5, <1>6, <1>10, <1>11, <1>12 DEF Next

\* The invariant of the picture holds in every reachable state.
THEOREM InductiveInvariant == Spec => []IInv
BY InitIInv, NextIInv, PTL DEF Spec

\* Counters, indices and positions stay inside their arrays.
THEOREM TypeCorrect == Spec => []TypeOK
BY InductiveInvariant, PTL DEF IInv

\* Everything thread1 draws is on the screen.
THEOREM DrawsOnScreenHolds == Spec => []DrawsOnScreen
BY InductiveInvariant, PTL DEF IInv

\* The crosses never leave the image.
THEOREM CrossInImageHolds == Spec => []CrossInImage
BY InductiveInvariant, PTL DEF IInv

\* src_matrix is mlx90640To with its lines in reverse order.
THEOREM LinesReversedHolds == Spec => []LinesReversed
BY InductiveInvariant, PTL DEF IInv

\* bilinear_interpolation gives no weight to what it reads outside src_matrix.
THEOREM EdgesWeighNothingHolds == Spec => []EdgesWeighNothing
<1>1. IInv => EdgesWeighNothing
  BY ReadsInside DEF IInv, TypeOK, EdgesWeighNothing
<1>2. QED
  BY <1>1, InductiveInvariant, PTL

\* The marks of the extreme temperatures are at pixels of the picture that show
\* them, for every whole magnification.
THEOREM MarksInPlaceHolds == Spec => []MarksInPlace
<1>1. IInv => MarksInPlace
  BY MarkedNear DEF IInv, TypeOK, MarksFollow, MarksInPlace
<1>2. QED
  BY <1>1, InductiveInvariant, PTL
-----------------------------------------------------------------------------
(* The two numbers.                                                        *)

\* What is on the screen while n hundredths are drawn: nothing, the point and
\* the tenths, the hundredths as well, and the whole number.
TextOf(float, int, end, n) ==
    /\ pc = float /\ t = 0 => glyphs = {}
    /\ n \in 0 .. 9999 =>
         /\ pc = float /\ t # 0 => glyphs = {<<325, 46>>, <<337, Digit((n \div 10) % 10)>>}
         /\ pc = int => glyphs = {<<325, 46>>, <<337, Digit((n \div 10) % 10)>>,
                                  <<349, Digit(n % 10)>>}
         /\ pc = end => glyphs = Spelled(n)

TextInv ==
    /\ TextOf("floatMax", "intMax", "stringMin", max_temperature)
    /\ TextOf("floatMin", "intMin", "delay", min_temperature)

\* The digits LCD_ShowFloatNum1 and LCD_ShowIntNum draw are those of the number.
LEMMA Digits ==
    ASSUME NEW n \in Int, 0 <= n, n <= 9999
    PROVE  /\ (Uint16(n) \div mypow10(1)) % 10 = (n \div 10) % 10
           /\ (Uint16(n) \div mypow10(0)) % 10 = n % 10
           /\ Uint16(n \div 100) % 10 = (n \div 100) % 10
           /\ (Uint16(n \div 100) \div 10) % 10 = n \div 1000
           /\ n \div 1000 = 0 <=> n < 1000
<1>1. Uint16(n) = n
  BY SMT DEF Uint16
<1>2. n \div 100 \in Int /\ 0 <= n \div 100 /\ n \div 100 <= 99
  BY SMT
<1>3. Uint16(n \div 100) = n \div 100
  <2> DEFINE q == n \div 100
  <2> HIDE DEF q
  <2>1. ASSUME q \in Int, 0 <= q, q <= 99  PROVE  Uint16(q) = q
    BY <2>1, SMT DEF Uint16
  <2> QED BY <1>2, <2>1 DEF q
<1>4. mypow10(1) = 10 /\ mypow10(0) = 1
  BY SMT DEF mypow10
<1>5. n \div 1 = n
  BY SMT
<1>6. ((n \div 100) \div 10) % 10 = n \div 1000
  BY SMT
<1>7. n \div 1000 = 0 <=> n < 1000
  BY SMT
<1> QED BY <1>1, <1>3, <1>4, <1>5, <1>6, <1>7

\* LCD_ShowFloatNum1 draws the point and the decimals in two rounds.
LEMMA FloatText ==
    ASSUME TypeOK, NEW float, NEW int, NEW end, float # int, float # end, int # end,
           NEW y, NEW n \in Int, TextOf(float, int, end, n),
           ShowFloatNum1(float, int, 325, y, n)
    PROVE  TextOf(float, int, end, n)'
<1>0. pc = float
  BY DEF ShowFloatNum1, Draw
<1>1. CASE t = 0 /\ len = 2
  <2>1. pc' = float /\ t' = 2
    <3>1. pc' = float
      BY <1>1, SMT DEF ShowFloatNum1, Draw
    <3> QED BY <1>1, <3>1, SMT DEF ShowFloatNum1
  <2>2. glyphs = {} /\ Erased(325) = {}
    BY <1>0, <1>1 DEF TextOf, Erased
  <2>3. glyphs' = {<<325, 46>>, <<337, ((Uint16(n) \div mypow10(1)) % 10) + 48>>}
    <3>1. len - t - 1 = 1 /\ t = len - 2 /\ 325 + (t + 1) * 12 = 337
      BY <1>1, SMT
    <3> QED BY <2>2, <3>1 DEF ShowFloatNum1
  <2>4. n \in 0 .. 9999 => glyphs' = {<<325, 46>>, <<337, Digit((n \div 10) % 10)>>}
    <3>1. HAVE n \in 0 .. 9999
    <3>2. (Uint16(n) \div mypow10(1)) % 10 = (n \div 10) % 10
      BY <3>1, Digits
    <3> QED BY <2>3, <3>1, <3>2 DEF Digit
  <2> QED BY <2>1, <2>4 DEF TextOf
<1>2. CASE t = 2 /\ len = 3
  <2>1. pc' = int
    BY <1>2, SMT DEF ShowFloatNum1, Draw
  <2>2. glyphs' = glyphs \cup {<<349, ((Uint16(n) \div mypow10(0)) % 10) + 48>>}
    <3>1. len - t - 1 = 0 /\ t # len - 2 /\ 325 + t * 12 = 349
      BY <1>2, SMT
    <3> QED BY <3>1 DEF ShowFloatNum1
  <2>3. n \in 0 .. 9999 => glyphs = {<<325, 46>>, <<337, Digit((n \div 10) % 10)>>}
    BY <1>0, <1>2 DEF TextOf
  <2>4. n \in 0 .. 9999 => glyphs' = {<<325, 46>>, <<337, Digit((n \div 10) % 10)>>,
                                      <<349, Digit(n % 10)>>}
    <3>1. HAVE n \in 0 .. 9999
    <3>2. (Uint16(n) \div mypow10(0)) % 10 = n % 10
      BY <3>1, Digits
    <3> QED BY <2>2, <2>3, <3>1, <3>2 DEF Digit
  <2> QED BY <2>1, <2>4 DEF TextOf
<1> QED BY <1>1, <1>2 DEF TypeOK

\* LCD_ShowIntNum completes the number and erases nothing of it.
LEMMA IntText ==
    ASSUME NEW float, NEW int, NEW end, float # int, float # end, int # end,
           NEW y, NEW n \in Int, TextOf(float, int, end, n),
           ShowIntNum(int, end, 300, y, n)
    PROVE  TextOf(float, int, end, n)'
<1>1. pc = int /\ pc' = end
  BY DEF ShowIntNum, Draw
<1>2. ASSUME n \in 0 .. 9999  PROVE  glyphs' = Spelled(n)
  <2>1. 300 + 12 = 312 /\ n \in Int /\ 0 <= n /\ n <= 9999
    BY <1>2, SMT
  <2>2. glyphs = {<<325, 46>>, <<337, Digit((n \div 10) % 10)>>, <<349, Digit(n % 10)>>}
    BY <1>1, <1>2 DEF TextOf
  <2>3. glyphs' = glyphs \cup {<<300, IF n < 1000 THEN 32 ELSE (n \div 1000) + 48>>,
                               <<312, ((n \div 100) % 10) + 48>>}
    BY <2>1, Digits DEF ShowIntNum
  <2> QED BY <2>2, <2>3 DEF Spelled, Digit
<1> QED BY <1>1, <1>2 DEF TextOf

\* Every step keeps the text.
LEMMA NextText == IInv /\ TextInv /\ [Next]_vars => TextInv'
<1> SUFFICES ASSUME IInv, TextInv, [Next]_vars  PROVE  TextInv'
  OBVIOUS
<1>0. TypeOK /\ max_temperature \in Int /\ min_temperature \in Int
  BY DEF IInv, TypeOK
<1>1. CASE pc' \notin {"floatMax", "intMax", "stringMin", "floatMin", "intMin", "delay"}
  BY <1>1 DEF TextInv, TextOf
<1>2. ASSUME NEW from, NEW to \in {"floatMax", "floatMin"}, NEW y, ShowString(from, to, y)
      PROVE  TextInv'
  BY <1>2 DEF ShowString, Draw, TextInv, TextOf
<1>3. CASE ShowFloatNum1("floatMax", "intMax", 325, 320, max_temperature)
  <2>1. UNCHANGED max_temperature /\ pc' \in {"floatMax", "intMax"}
    BY <1>3 DEF ShowFloatNum1, Draw, findVars
  <2>2. TextOf("floatMax", "intMax", "stringMin", max_temperature)'
    BY <1>0, <1>3, <2>1, FloatText DEF TextInv
  <2> QED BY <2>1, <2>2 DEF TextInv, TextOf
<1>4. CASE ShowIntNum("intMax", "stringMin", 300, 320, max_temperature)
  <2>1. UNCHANGED max_temperature /\ pc' = "stringMin"
    BY <1>4 DEF ShowIntNum, Draw, findVars
  <2>2. TextOf("floatMax", "intMax", "stringMin", max_temperature)'
    BY <1>0, <1>4, <2>1, IntText DEF TextInv
  <2> QED BY <2>1, <2>2 DEF TextInv, TextOf
<1>5. CASE ShowFloatNum1("floatMin", "intMin", 325, 5, min_temperature)
  <2>1. UNCHANGED min_temperature /\ pc' \in {"floatMin", "intMin"}
    BY <1>5 DEF ShowFloatNum1, Draw, findVars
  <2>2. TextOf("floatMin", "intMin", "delay", min_temperature)'
    BY <1>0, <1>5, <2>1, FloatText DEF TextInv
  <2> QED BY <2>1, <2>2 DEF TextInv, TextOf
<1>6. CASE ShowIntNum("intMin", "delay", 300, 5, min_temperature)
  <2>1. UNCHANGED min_temperature /\ pc' = "delay"
    BY <1>6 DEF ShowIntNum, Draw, findVars
  <2>2. TextOf("floatMin", "intMin", "delay", min_temperature)'
    BY <1>0, <1>6, <2>1, IntText DEF TextInv
  <2> QED BY <2>1, <2>2 DEF TextInv, TextOf
<1>7. CASE Convert \/ Interpolate \/ FindMax \/ FindMin
  BY <1>1, <1>7 DEF Convert, Interpolate, FindMax, FindMin
<1>8. CASE DrawImage \/ DrawMaxCross \/ DrawMinCross \/ Delay
  BY <1>1, <1>8 DEF DrawImage, DrawMaxCross, DrawMinCross, Delay, Draw
<1>9. CASE UNCHANGED vars
  BY <1>9 DEF vars, findVars, textVars, TextInv, TextOf
<1> QED BY <1>2, <1>3, <1>4, <1>5, <1>6, <1>7, <1>8, <1>9 DEF Next, ShowMax, ShowMin

\* From 0 to 99.99 degrees LCD_ShowFloatNum1 and LCD_ShowIntNum leave the
\* temperature on the screen, its decimals, point and digits in their places.
THEOREM NumbersAreRightHolds == Spec => []NumbersAreRight
<1>1. Init => TextInv
  BY DEF Init, TextInv, TextOf
<1>2. TextInv => NumbersAreRight
  BY DEF TextInv, TextOf, NumbersAreRight
<1> QED BY <1>1, <1>2, NextText, InductiveInvariant, PTL DEF Spec
=============================================================================
