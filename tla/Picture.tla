------------------------------ MODULE Picture ------------------------------
(***************************************************************************)
(* The loop of thread1_entry after the temperatures are computed           *)
(* (MLX90640_DISPLAY.c): mlx90640To becomes src_matrix, src_matrix is      *)
(* interpolated into dest_matrix, the hottest and the coldest pixel are    *)
(* looked for, and the image, two crosses and two numbers are drawn.       *)
(*                                                                         *)
(* Temperatures are left out except for the two that are printed, in       *)
(* hundredths of a degree.  Positions are exact: the products of the       *)
(* code's float ratios truncate to the same integers as the fractions.     *)
(***************************************************************************)
EXTENDS Integers

CONSTANTS
    SRC_WIDTH, SRC_HEIGHT,     \* 32, 24
    DEST_WIDTH, DEST_HEIGHT,   \* 320, 240
    Spots,                     \* pixels that may be the hottest or the coldest
    Temperatures               \* values of max_temperature and min_temperature

LCD_WIDTH == 480
LCD_HEIGHT == 360

\* Where the image is drawn: lcd_draw_pixel(col + 80, row + 60, color).
ImageX == 80
ImageY == 60

ASSUME SizeAssumption ==
    /\ SRC_WIDTH \in Nat /\ SRC_WIDTH > 1
    /\ SRC_HEIGHT \in Nat /\ SRC_HEIGHT > 1
    /\ DEST_WIDTH \in Nat \ {0} /\ DEST_WIDTH % SRC_WIDTH = 0
    /\ DEST_HEIGHT \in Nat \ {0} /\ DEST_HEIGHT % SRC_HEIGHT = 0
    /\ DEST_WIDTH + ImageX <= LCD_WIDTH
    /\ DEST_HEIGHT + ImageY <= LCD_HEIGHT

SrcPixel == [row: 0 .. SRC_HEIGHT - 1, col: 0 .. SRC_WIDTH - 1]
DestPixel == [row: 0 .. DEST_HEIGHT - 1, col: 0 .. DEST_WIDTH - 1]

ASSUME SpotAssumption == Spots \subseteq SrcPixel

ASSUME TemperatureAssumption == Temperatures \subseteq Int

VARIABLES
    pc,
    row, col,            \* counters of the conversion and of the interpolation
    index,               \* index into mlx90640To
    hot, cold,           \* positions of the extreme temperatures in src_matrix
    max_dest, min_dest,  \* and the positions derived for dest_matrix
    max_temperature, min_temperature,
    drawn,               \* monitor: the rectangles drawn by the last step
    t, len,              \* the counters of LCD_ShowFloatNum1 and LCD_ShowIntNum
    glyphs               \* monitor: the number on the screen, as <<x, character>>

findVars == <<hot, cold, max_dest, min_dest, max_temperature, min_temperature>>
textVars == <<t, len, glyphs>>
vars == <<pc, row, col, index, findVars, drawn, textVars>>
-----------------------------------------------------------------------------
(* Positions in the two matrices.                                          *)

\* Mutant of Whole: the ratio leaves the last column out of account.
WholeOfWidth(x, src, dest) == (x * src) \div (dest - 1)

\* (int)(x * x_ratio) and the fraction above it, in units of 1 / (dest - 1).
Whole(x, src, dest) == (x * (src - 1)) \div (dest - 1)
Part(x, src, dest) == (x * (src - 1)) % (dest - 1)

\* The four reads of src_matrix for a pixel of dest_matrix, with their weights.
Reads(y, x) ==
    LET y1 == Whole(y, SRC_HEIGHT, DEST_HEIGHT)
        x1 == Whole(x, SRC_WIDTH, DEST_WIDTH)
        down == Part(y, SRC_HEIGHT, DEST_HEIGHT)
        right == Part(x, SRC_WIDTH, DEST_WIDTH)
        up == DEST_HEIGHT - 1 - down
        left == DEST_WIDTH - 1 - right
    IN {[row |-> y1, col |-> x1, weight |-> up * left],
        [row |-> y1, col |-> x1 + 1, weight |-> up * right],
        [row |-> y1 + 1, col |-> x1, weight |-> down * left],
        [row |-> y1 + 1, col |-> x1 + 1, weight |-> down * right]}

\* Mutant of DestOf: the ratio is taken from the last index of dest_matrix.
DestOfLast(p) ==
    [row |-> p.row * ((DEST_HEIGHT - 1) \div SRC_HEIGHT),
     col |-> p.col * ((DEST_WIDTH - 1) \div SRC_WIDTH)]

\* *max_dest_row, *max_dest_col.
DestOf(p) ==
    [row |-> p.row * (DEST_HEIGHT \div SRC_HEIGHT),
     col |-> p.col * (DEST_WIDTH \div SRC_WIDTH)]
-----------------------------------------------------------------------------
(* What is drawn.                                                          *)

Rect(x, y, width, height) == [x |-> x, y |-> y, width |-> width, height |-> height]

ImageRect == Rect(ImageX, ImageY, DEST_WIDTH, DEST_HEIGHT)

\* Mutant of CrossShown: the position is not looked at.
CrossShownAlways(d) == TRUE

CrossShown(d) ==
    /\ d.row > 5 /\ d.row < DEST_HEIGHT - 5
    /\ d.col > 5 /\ d.col < DEST_WIDTH - 5

Cross(d) ==
    {Rect(d.col + ImageX, d.row - 5 + ImageY, 1, 10),
     Rect(d.col - 5 + ImageX, d.row + ImageY, 10, 1)}

\* LCD_ShowChar: a glyph of sizey is half as wide, its rows are padded to bytes.
Char(x, y, sizey) == Rect(x, y, sizey \div 2, sizey)

\* Mutant of String: a character advances by its height.
StringTooWide(x, y, n, sizey) == {Char(x + k * sizey, y, sizey) : k \in 0 .. n - 1}

\* LCD_ShowString with a text of n characters.
String(x, y, n, sizey) == {Char(x + k * (sizey \div 2), y, sizey) : k \in 0 .. n - 1}

\* A float that is stored in a uint16_t: the conversion saturates below zero.
Uint16(n) == IF n < 0 THEN 0 ELSE n % 65536

mypow10(n) == IF n = 0 THEN 1 ELSE IF n = 1 THEN 10 ELSE 100

\* The white box of LCD_ShowFloatNum1.
Box(x, y) == Rect(x - 40, y + 1, 85, 25)

\* Glyphs the box paints over.
Erased(x) == {g \in glyphs : g[1] + 12 > x - 40 /\ g[1] < x + 45}
-----------------------------------------------------------------------------
TypeOK ==
    /\ pc \in {"convert", "interpolate", "max", "min", "image", "crossMax", "crossMin",
               "stringMax", "floatMax", "intMax", "stringMin", "floatMin", "intMin", "delay"}
    /\ row \in 0 .. DEST_HEIGHT - 1
    /\ col \in 0 .. DEST_WIDTH - 1
    /\ index \in -1 .. SRC_WIDTH * SRC_HEIGHT - 1
    /\ hot \in SrcPixel /\ cold \in SrcPixel
    /\ max_dest \in DestPixel /\ min_dest \in DestPixel
    /\ max_temperature \in Int /\ min_temperature \in Int
    /\ <<t, len>> \in {<<0, 2>>, <<2, 3>>}

NoPixel == [row |-> 0, col |-> 0]

\* The first frame begins.
Init ==
    /\ pc = "convert"
    /\ row = 0 /\ col = SRC_WIDTH - 1
    /\ index = SRC_WIDTH * SRC_HEIGHT - 1
    /\ hot = NoPixel /\ cold = NoPixel
    /\ max_dest = NoPixel /\ min_dest = NoPixel
    /\ max_temperature = 0 /\ min_temperature = 0
    /\ drawn = {}
    /\ t = 0 /\ len = 2 /\ glyphs = {}

\* src_matrix[i][j] = mlx90640To[index--], j downwards.
Convert ==
    /\ pc = "convert"
    /\ index' = index - 1
    /\ IF col > 0 THEN row' = row /\ col' = col - 1 /\ pc' = pc
       ELSE IF row < SRC_HEIGHT - 1 THEN row' = row + 1 /\ col' = SRC_WIDTH - 1 /\ pc' = pc
       ELSE row' = 0 /\ col' = 0 /\ pc' = "interpolate"
    /\ UNCHANGED <<findVars, drawn, textVars>>

\* bilinear_interpolation, one pixel of dest_matrix.
Interpolate ==
    /\ pc = "interpolate"
    /\ IF col < DEST_WIDTH - 1 THEN row' = row /\ col' = col + 1 /\ pc' = pc
       ELSE IF row < DEST_HEIGHT - 1 THEN row' = row + 1 /\ col' = 0 /\ pc' = pc
       ELSE row' = 0 /\ col' = 0 /\ pc' = "max"
    /\ UNCHANGED <<index, findVars, drawn, textVars>>

\* find_max_temperature: any pixel may be the hottest; another pixel than the
\* first is so only when it is hotter than some pixel.
FindMax ==
    /\ pc = "max"
    /\ hot' \in Spots
    /\ max_dest' = DestOf(hot')
    /\ max_temperature' \in Temperatures
    /\ hot' = NoPixel \/ \E m \in Temperatures : m < max_temperature'
    /\ pc' = "min"
    /\ UNCHANGED <<row, col, index, cold, min_dest, min_temperature, drawn, textVars>>

\* find_min_temperature; both searches stay at the first pixel when all are equal.
FindMin ==
    /\ pc = "min"
    /\ cold' \in Spots
    /\ min_temperature' \in {m \in Temperatures : m <= max_temperature}
    /\ cold' = hot <=> min_temperature' = max_temperature
    /\ cold' = hot => hot = NoPixel
    /\ min_dest' = DestOf(cold')
    /\ pc' = "image"
    /\ UNCHANGED <<row, col, index, hot, max_dest, max_temperature, drawn, textVars>>

Draw(from, to, rects) ==
    /\ pc = from
    /\ pc' = to
    /\ drawn' = rects
    /\ UNCHANGED <<row, col, index, findVars>>

DrawImage == Draw("image", "crossMax", {ImageRect}) /\ UNCHANGED textVars

DrawMaxCross ==
    /\ Draw("crossMax", "crossMin", IF CrossShown(max_dest) THEN Cross(max_dest) ELSE {})
    /\ UNCHANGED textVars

DrawMinCross ==
    /\ Draw("crossMin", "stringMax", IF CrossShown(min_dest) THEN Cross(min_dest) ELSE {})
    /\ UNCHANGED textVars

\* LCD_ShowString(30, y, "MAX_temperature:", 32) and its counterpart.
ShowString(from, to, y) ==
    /\ Draw(from, to, String(30, y, 16, 32))
    /\ t' = 0 /\ len' = 2
    /\ glyphs' = {}

\* One round of LCD_ShowFloatNum1(x, y, num, 2, 24).  The point is drawn on the
\* way and moves both counters of the loop.
ShowFloatNum1(from, to, x, y, num) ==
    LET temp == (Uint16(num) \div mypow10(len - t - 1)) % 10
        point == t = len - 2
        u == IF point THEN t + 1 ELSE t
    IN /\ t < len
       /\ Draw(from, IF u + 1 < (IF point THEN len + 1 ELSE len) THEN from ELSE to,
               {Char(x + u * 12, y, 24)}
                 \cup IF point THEN {Box(x, y), Char(x, y, 24)} ELSE {})
       /\ glyphs' = IF point
                    THEN (glyphs \ Erased(x)) \cup {<<x, 46>>, <<x + u * 12, temp + 48>>}
                    ELSE glyphs \cup {<<x + u * 12, temp + 48>>}
       /\ IF pc' = to THEN t' = 0 /\ len' = 2
          ELSE t' = u + 1 /\ len' = IF point THEN len + 1 ELSE len

\* LCD_ShowIntNum(x, y, num, 2, 24): a leading zero is left blank.
ShowIntNum(from, to, x, y, num) ==
    LET num1 == Uint16(num \div 100)
        tens == (num1 \div 10) % 10
    IN /\ Draw(from, to, {Char(x, y, 24), Char(x + 12, y, 24)})
       /\ glyphs' = glyphs \cup {<<x, IF tens = 0 THEN 32 ELSE tens + 48>>,
                                <<x + 12, (num1 % 10) + 48>>}
       /\ UNCHANGED <<t, len>>

\* Mutant of ShowMax: the whole part is drawn before the fraction.
ShowMaxSwapped ==
    \/ ShowString("stringMax", "intMax", 315)
    \/ ShowIntNum("intMax", "floatMax", 300, 320, max_temperature)
    \/ ShowFloatNum1("floatMax", "stringMin", 325, 320, max_temperature)

ShowMax ==
    \/ ShowString("stringMax", "floatMax", 315)
    \/ ShowFloatNum1("floatMax", "intMax", 325, 320, max_temperature)
    \/ ShowIntNum("intMax", "stringMin", 300, 320, max_temperature)

ShowMin ==
    \/ ShowString("stringMin", "floatMin", 0)
    \/ ShowFloatNum1("floatMin", "intMin", 325, 5, min_temperature)
    \/ ShowIntNum("intMin", "delay", 300, 5, min_temperature)

\* rt_thread_mdelay; the next frame sets all variables before it uses them.
Delay ==
    /\ pc = "delay"
    /\ pc' = "convert"
    /\ row' = 0 /\ col' = SRC_WIDTH - 1
    /\ index' = SRC_WIDTH * SRC_HEIGHT - 1
    /\ hot' = NoPixel /\ cold' = NoPixel
    /\ max_dest' = NoPixel /\ min_dest' = NoPixel
    /\ max_temperature' = 0 /\ min_temperature' = 0
    /\ drawn' = {}
    /\ t' = 0 /\ len' = 2 /\ glyphs' = {}

Next ==
    \/ Convert \/ Interpolate \/ FindMax \/ FindMin
    \/ DrawImage \/ DrawMaxCross \/ DrawMinCross
    \/ ShowMax \/ ShowMin \/ Delay

Spec == Init /\ [][Next]_vars
-----------------------------------------------------------------------------
(* Properties.                                                             *)

Within(r, s) ==
    /\ r.x >= s.x /\ r.x + r.width <= s.x + s.width
    /\ r.y >= s.y /\ r.y + r.height <= s.y + s.height

\* Whatever is drawn lies on the screen: thread1 never depends on the range test
\* of lcd_draw_pixel.
DrawsOnScreen == \A r \in drawn : Within(r, Rect(0, 0, LCD_WIDTH, LCD_HEIGHT))

\* A cross never leaves the image, wherever the extreme temperature is.
CrossInImage ==
    pc \in {"crossMin", "stringMax"} => \A r \in drawn : Within(r, ImageRect)

\* The decreasing index and the two counters of the conversion agree: src_matrix
\* is mlx90640To with its lines in reverse order and its columns as they are.
LinesReversed ==
    pc = "convert" => index = (SRC_HEIGHT - 1 - row) * SRC_WIDTH + col

\* bilinear_interpolation reads one line and one column past src_matrix at the
\* far edges; what it reads there, or at the start of the next line, has weight 0.
EdgesWeighNothing ==
    pc = "interpolate" =>
        \A r \in Reads(row, col) :
            r.weight # 0 => r.row < SRC_HEIGHT /\ r.col < SRC_WIDTH

\* The pixel of dest_matrix that is marked as the extreme one, which comes from
\* another scale than the interpolation, is one whose interpolated value the
\* extreme pixel of src_matrix takes part in.
MarkedNearItsPixel(p, d) ==
    \E r \in Reads(d.row, d.col) : r.row = p.row /\ r.col = p.col /\ r.weight # 0

MarksInPlace ==
    pc \in {"image", "crossMax", "crossMin"} =>
        MarkedNearItsPixel(hot, max_dest) /\ MarkedNearItsPixel(cold, min_dest)

\* The inductive invariant behind the geometry of the picture.
MarksFollow == max_dest = DestOf(hot) /\ min_dest = DestOf(cold)

ConvertInside == pc = "convert" => [row |-> row, col |-> col] \in SrcPixel

IInv ==
    /\ TypeOK
    /\ ConvertInside
    /\ LinesReversed
    /\ MarksFollow
    /\ CrossInImage
    /\ DrawsOnScreen

\* The characters of n hundredths: tens (or a blank), units, point, decimals.
Digit(d) == d + 48

Spelled(n) ==
    {<<300, IF n < 1000 THEN 32 ELSE Digit(n \div 1000)>>,
     <<312, Digit((n \div 100) % 10)>>,
     <<325, 46>>,
     <<337, Digit((n \div 10) % 10)>>,
     <<349, Digit(n % 10)>>}

\* From 0 to 99.99 degrees the text on the screen is the temperature: the white
\* box that clears the number before erases no digit of the new one.
NumbersAreRight ==
    /\ pc = "stringMin" /\ max_temperature \in 0 .. 9999 => glyphs = Spelled(max_temperature)
    /\ pc = "delay" /\ min_temperature \in 0 .. 9999 => glyphs = Spelled(min_temperature)
=============================================================================
