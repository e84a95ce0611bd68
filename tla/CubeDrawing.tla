---------------------------- MODULE CubeDrawing -----------------------------
(***************************************************************************)
(* What CubeApplication draws.  An application clears its screens and      *)
(* draws one thing; a line in space is drawn point by point, everything    *)
(* else in one step.                                                       *)
(***************************************************************************)
EXTENDS CubeGeometry, Color, FiniteSets, Sequences, Folds

CONSTANTS
  FontWidth, FontHeight,   \* Font6px.h: 4 and 6
  Coordinates,             \* bound: coordinates of shapes on a screen
  SpaceCoordinates,        \* bound: coordinates of the ends of a line in space
  SmoothQuarters,          \* bound: coordinates of a smooth pixel, in quarters
  SmoothColors             \* bound: its colours

ASSUME DrawingAssumption ==
  /\ FontWidth \in Nat \ {0} /\ FontHeight \in Nat \ {0}
  /\ Coordinates \subseteq Int /\ SpaceCoordinates \subseteq Int
  /\ SmoothQuarters \subseteq Int /\ SmoothColors \subseteq Colors

VARIABLES
  light,   \* the colour of each pixel
  line,    \* the line in space that is being drawn
  last     \* history: what was drawn since the screens were cleared

drawingVars == <<light, line, last>>

Col == <<255, 255, 255>>
FillCol == <<0, 0, 255>>
Origin == [a \in 1..3 |-> 0]
NoLine == [from |-> Origin, to |-> Origin, at |-> Origin, err |-> Origin, i |-> 0]
Nothing == [op |-> "nothing"]

DrawingInit ==
  /\ light = [px \in Pixels |-> Black]
  /\ line = NoLine
  /\ last = Nothing

Abs(n) == IF n < 0 THEN -n ELSE n

Painted(screens, points, col) ==
  LET P == UNION {Lit(p) : p \in points}
  IN [px \in Pixels |-> IF px \in P THEN col ELSE screens[px]]

-----------------------------------------------------------------------------
(* Shapes on a screen: sets of points of the plane. *)

\* The rounds of drawLine2D, where the pen is and its error; it stays at q.
\* Every round before that moves it, so there are at most this many.
Pen(p, q) ==
  LET dx == Abs(q[1] - p[1])
      dy == -Abs(q[2] - p[2])
      sx == IF p[1] < q[1] THEN 1 ELSE -1
      sy == IF p[2] < q[2] THEN 1 ELSE -1
      pen[i \in 0..dx - dy] ==
        IF i = 0 THEN <<p[1], p[2], dx + dy>>
        ELSE LET o == pen[i - 1]
                 alongX == <<o[1], o[2]>> # q /\ 2 * o[3] > dy
                 alongY == <<o[1], o[2]>> # q /\ 2 * o[3] < dx
             IN <<o[1] + (IF alongX THEN sx ELSE 0), o[2] + (IF alongY THEN sy ELSE 0),
                  o[3] + (IF alongX THEN dy ELSE 0) + (IF alongY THEN dx ELSE 0)>>
  IN pen

Line2D(p, q) ==
  LET pen == Pen(p, q) IN {<<pen[i][1], pen[i][2]>> : i \in DOMAIN pen}

Rect2D(p, q) ==
  Line2D(p, <<p[1], q[2]>>) \cup Line2D(p, <<q[1], p[2]>>)
    \cup Line2D(q, <<p[1], q[2]>>) \cup Line2D(q, <<q[1], p[2]>>)

\* The last column is left to the outline.
RectFill(p, q) ==
  UNION {Line2D(<<i, p[2]>>, <<i, q[2]>>) : i \in p[1]..q[1]-1}

\* drawRectCentered2D: both lower coordinates go by the width.
CenteredCorners(c, w, h) ==
  <<<<c[1] - w \div 2, c[2] - h \div 2>>, <<c[1] + w \div 2, c[2] + w \div 2>>>>

\* The rounds of drawCircle2D: for each y the x and the error.  It ends when y
\* is larger than x, which does not grow.
Arc(r) ==
  LET arc[y \in 0..r] ==
        IF y = 0 THEN <<r, 1 - r>>
        ELSE LET o == arc[y - 1]
             IN IF o[2] < 0 THEN <<o[1], o[2] + 2 * y + 1>>
                ELSE <<o[1] - 1, o[2] + 2 * (y - (o[1] - 1) + 1)>>
  IN arc

Circle2D(c, r) ==
  LET arc == Arc(r)
      Octants(x, y) ==
        {<<c[1] + i, c[2] + j>> : i \in {x, -x}, j \in {y, -y}}
          \cup {<<c[1] + i, c[2] + j>> : i \in {y, -y}, j \in {x, -x}}
  IN UNION {Octants(arc[y][1], y) : y \in {k \in 0..r : k <= arc[k][1]}}

centered == -1

\* drawText: where the characters of a text of n go.  A line after the first
\* starts where topLeftPoint says, though that may be an alignment.
TextAt(p, n) ==
  LET width == n * FontWidth
      start == <<IF p[1] = centered THEN Quotient(N - width, 2)
                 ELSE IF p[1] = -2 THEN N - width ELSE p[1],
                 IF p[2] = centered THEN Quotient(N - FontHeight, 2) ELSE p[2]>>
      at[i \in 1..n] ==
        IF i = 1 THEN start
        ELSE LET x == at[i - 1][1] + FontWidth
             IN IF x > N - FontWidth THEN <<p[1], at[i - 1][2] + FontHeight>>
                ELSE <<x, at[i - 1][2]>>
  IN [i \in {j \in 1..n : j = 1 \/ at[j][2] <= N - FontHeight} |-> at[i]]

Cell(c) == {<<c[1] + i, c[2] + j>> : i \in 0..FontWidth-1, j \in 0..FontHeight-1}

Outline(shape) ==
  CASE shape.op = "line"   -> Line2D(shape.p, shape.q)
    [] shape.op = "rect"   -> Rect2D(shape.p, shape.q)
    [] shape.op = "circle" -> Circle2D(shape.p, shape.r)
    [] shape.op = "text"   -> LET at == TextAt(shape.p, shape.n)
                              IN UNION {Cell(at[i]) : i \in DOMAIN at}

Fill(shape) ==
  IF shape.op = "rect" /\ shape.filled THEN RectFill(shape.p, shape.q) ELSE {}

Places == Coordinates \X Coordinates

\* The shapes drawn: two corners that CenteredCorners gives are a rectangle's.
Shapes ==
  [op : {"line"}, s : Screens, p : Places, q : Places]
    \cup [op : {"rect"}, s : Screens, p : Places, q : Places, filled : BOOLEAN]
    \cup {[op |-> "rect", s |-> s, filled |-> FALSE,
           p |-> CenteredCorners(c, w, h)[1], q |-> CenteredCorners(c, w, h)[2]] :
             s \in Screens, c \in Places, w \in 1..2, h \in 2..3}
    \cup [op : {"circle"}, s : Screens, p : Places, r : 0..N]
    \cup [op : {"text"}, s : Screens, p : Places, n : 1..N + 1]

DrawShape(shape) ==
  /\ last = Nothing
  /\ last' = shape
  /\ LET On(points) == {getPointOnScreen(shape.s, p[1], p[2]) : p \in points}
     IN light' = Painted(Painted(light, On(Fill(shape)), FillCol),
                         On(Outline(shape)), Col)
  /\ UNCHANGED line

-----------------------------------------------------------------------------
(* Points and lines in space. *)

SetPixel(p) ==
  /\ last = Nothing
  /\ last' = [op |-> "pixel", p |-> p]
  /\ light' = Painted(light, {p}, Col)
  /\ UNCHANGED line

SetRandomPixel(s) ==
  /\ last = Nothing
  /\ \E p \in RandomPoints(s) :
       /\ last' = [op |-> "random", s |-> s, p |-> p]
       /\ light' = Painted(light, {p}, Col)
  /\ UNCHANGED line

Delta(l) == [a \in 1..3 |-> Abs(l.to[a] - l.from[a])]

\* The axis the line is followed along is the one it is longest in.
Length(l) == LET d == Delta(l) IN
  IF d[1] >= d[2] /\ d[1] >= d[3] THEN d[1]
  ELSE IF d[2] >= d[1] /\ d[2] >= d[3] THEN d[2] ELSE d[3]

\* Fault variant of FirstError: it does not start in the middle of a pixel.
FirstErrorWhole(l) == [a \in 1..3 |-> 2 * Delta(l)[a]]

FirstError(l) == [a \in 1..3 |-> 2 * Delta(l)[a] - Length(l)]

StartLine(p, q) ==
  /\ last = Nothing
  /\ LET l == [from |-> p, to |-> q, at |-> p, err |-> Origin, i |-> 0]
     IN line' = [l EXCEPT !.err = FirstError(l)]
  /\ last' = [op |-> "line3D"]
  /\ UNCHANGED light

\* One round of the loop.  The longest axis has an error of its own here: it
\* is the length each time, and the axis moves each time.
LineStep ==
  /\ last.op = "line3D" /\ line.i < Length(line)
  /\ light' = Painted(light, {line.at}, Col)
  /\ line' = [line EXCEPT
       !.i = @ + 1,
       !.at = [a \in 1..3 |->
                 IF line.err[a] <= 0 THEN @[a]
                 ELSE IF line.to[a] < line.from[a] THEN @[a] - 1 ELSE @[a] + 1],
       !.err = [a \in 1..3 |-> @[a] + 2 * Delta(line)[a]
                                - IF @[a] > 0 THEN 2 * Length(line) ELSE 0]]
  /\ UNCHANGED last

LineEnds ==
  /\ last.op = "line3D" /\ line.i = Length(line)
  /\ light' = Painted(light, {line.at}, Col)
  /\ last' = [op |-> "line drawn"]
  /\ line' = NoLine

\* Fault variant of Weight: the parts go to the wrong neighbours.
WeightSwapped(r, c) == IF c = 0 THEN r ELSE 4 - r

Weight(r, c) == IF c = 0 THEN 4 - r ELSE r

\* What is left of a position after the whole points; fmod has the sign of q.
Remainder(q) == [a \in 1..3 |-> IF q[a] >= 0 THEN q[a] % 4 ELSE -((-q[a]) % 4)]

\* The eight neighbours, or fewer along an axis where the position is whole.
Corners(q) == {c \in {0, 1} \X {0, 1} \X {0, 1} :
                 \A a \in 1..3 : c[a] = 1 => Remainder(q)[a] # 0}

CornerAt(q, c) ==
  Point(q[1] \div 4 + c[1], q[2] \div 4 + c[2], q[3] \div 4 + c[3])

\* The part of the colour that corner c gets.
CornerPart(q, col, c) ==
  LET r == Remainder(q)
  IN Times(col, Weight(r[1], c[1]) * Weight(r[2], c[2]) * Weight(r[3], c[3]), 64)

\* setPixelSmooth3D
Smoothed(screens, q, col) ==
  [px \in Pixels |->
     MapThenFoldSet(Plus, screens[px], LAMBDA c : CornerPart(q, col, c),
                    LAMBDA C : CHOOSE c \in C : TRUE,
                    {c \in Corners(q) : px \in Lit(CornerAt(q, c))})]

SetPixelSmooth(q, col) ==
  /\ last = Nothing
  /\ last' = [op |-> "smooth", q |-> q, col |-> col]
  /\ light' = Smoothed(light, q, col)
  /\ UNCHANGED line

-----------------------------------------------------------------------------
(* All of the screens. *)

FillAll(h, s, v) ==
  /\ last = Nothing
  /\ light' = [px \in Pixels |-> fromHSV(h, s, v)]
  /\ last' = [op |-> "fill", h |-> h, s |-> s, v |-> v]
  /\ UNCHANGED line

\* Factors outside of 0..1 are ignored.
Fade(n, d) ==
  /\ last.op \notin {"nothing", "line3D", "fade"}
  /\ light' = IF n > 0 /\ n < d THEN [px \in Pixels |-> Times(light[px], n, d)]
              ELSE light
  /\ last' = [op |-> "fade"]
  /\ UNCHANGED line

Clear ==
  /\ last.op \notin {"nothing", "line3D"}
  /\ light' = [px \in Pixels |-> Black]
  /\ last' = Nothing
  /\ UNCHANGED line

Space == (0..Max) \X (0..Max) \X (0..Max)

DrawingNext ==
  \/ \E shape \in Shapes : DrawShape(shape)
  \/ \E p \in Space : SetPixel(p)
  \/ \E s \in Screens : SetRandomPixel(s)
  \/ \E p, q \in [1..3 -> SpaceCoordinates] : StartLine(p, q)
  \/ LineStep
  \/ LineEnds
  \/ \E q \in SmoothQuarters \X SmoothQuarters \X SmoothQuarters, col \in SmoothColors :
       SetPixelSmooth(q, col)
  \/ \E h \in 0..23, s, v \in 0..2 : FillAll(h, s, v)
  \/ Fade(1, 2)
  \/ Clear

-----------------------------------------------------------------------------
(* Reading back. *)

getPixel3D(p) ==
  LET px == PixelAt(p[1], p[2], p[3])
  IN IF px \in Pixels THEN light[px] ELSE Black

isActivePixel3D(p) == getPixel3D(p) # Black

-----------------------------------------------------------------------------
Triples == [1..3 -> Int]

LitPixels == {px \in Pixels : light[px] # Black}

\* Whichever axis is the longest and whichever way it runs, a line in space is
\* never off its ideal course by more than half a point, and the point after
\* its last step is its end (CubeApplication.cpp:163-214).
LineFollowsIdeal ==
  LET L == Length(line)
  IN /\ \A a \in 1..3 : Abs(2 * L * (line.at[a] - line.from[a])
                             - 2 * line.i * (line.to[a] - line.from[a])) <= L
     /\ line.i = L => \A a \in 1..3 : line.at[a] = line.to[a]

\* S is the line from p to q where it is on the screen: for each step along its
\* longer axis the point next to the ideal line, or one of the two next to it.
IsLine(S, p, q) ==
  LET m == IF Abs(q[1] - p[1]) >= Abs(q[2] - p[2]) THEN 1 ELSE 2
      o == 3 - m
      L == Abs(q[m] - p[m])
      range(i) == p[i]..q[i] \cup q[i]..p[i]
      next(k) ==
        {r \in range(1) \X range(2) :
           /\ r[m] = k
           /\ 2 * Abs((r[o] - p[o]) * (q[m] - p[m]) - (k - p[m]) * (q[o] - p[o])) <= L
           /\ L = 0 => r = p}
  IN /\ S \subseteq UNION {next(k) : k \in range(m)}
     /\ \A k \in range(m) : LET R == S \cap next(k) IN
          IF next(k) \subseteq (0..N-1) \X (0..N-1) THEN Cardinality(R) = 1
          ELSE Cardinality(R) <= 1

Border(p, q) ==
  LET range(i, j) == i..j \cup j..i
  IN {p[1], q[1]} \X range(p[2], q[2]) \cup range(p[1], q[1]) \X {p[2], q[2]}

Inside(p, q) == (p[1]..q[1]) \X (p[2]..q[2] \cup q[2]..p[2])

\* S is the circle where it is on the screen: every point is near it, and if it
\* is there as a whole, every column and every row crosses it on both sides.
IsCircle(S, c, r) ==
  LET near(p) ==
        LET i == p[1] - c[1]
            j == p[2] - c[2]
        IN Abs(i * i + j * j - r * r) <= r
  IN /\ \A p \in S : near(p)
     /\ (\A a \in 1..2 : c[a] - r >= 0 /\ c[a] + r < N) =>
          \A a \in 1..2, k \in -r..r, sign \in {-1, 1} :
            \E p \in S : p[a] = c[a] + k /\ sign * (p[3 - a] - c[3 - a]) >= 0

\* No character covers another or is below the screen, a text that starts on
\* the screen stays on it, and it ends early only when the screen is full.
IsText(S, p, n) ==
  LET at == TextAt(p, n)
      screen == (0..N-1) \X (0..N-1)
      fits == ((N - p[1]) \div FontWidth) * ((N - p[2]) \div FontHeight)
  IN /\ \A i, j \in DOMAIN at : i # j => Cell(at[i]) \cap Cell(at[j]) = {}
     /\ \A i \in DOMAIN at \ {1} : at[i][2] + FontHeight <= N
     /\ (/\ 0 <= p[1] /\ p[1] <= N - FontWidth
         /\ 0 <= p[2] /\ p[2] <= N - FontHeight) =>
          Cardinality(S) = FontWidth * FontHeight * (IF n < fits THEN n ELSE fits)

\* A line, a rectangle, a circle or a text on a screen, wherever it is placed,
\* lights exactly the part of the shape that is on the screen named, never a
\* pixel of a screen next to it (CubeApplication.cpp:228-278, 417-446, 484-527).
ShapesClipToScreen ==
  last.op \in {"line", "rect", "circle", "text", "random"} =>
    LET screen == (0..N-1) \X (0..N-1)
        S == {<<px[2], px[3]>> : px \in LitPixels}
    IN /\ \A px \in LitPixels : px[1] = last.s
       /\ CASE last.op = "line"   -> IsLine(S, last.p, last.q)
            [] last.op = "circle" -> IsCircle(S, last.p, last.r)
            [] last.op = "text"   -> IsText(S, last.p, last.n)
            [] last.op = "random" -> Cardinality(S) <= 1
            [] last.op = "rect"   ->
                 LET border == Border(last.p, last.q) \cap screen
                     inside == IF last.filled THEN Inside(last.p, last.q) \cap screen
                               ELSE {}
                 IN /\ S = border \cup inside
                    /\ \A r \in S : light[<<last.s, r[1], r[2]>>] =
                                    IF r \in border THEN Col ELSE FillCol

\* A point of the space lights a pixel exactly if it is on one screen and off
\* the rim between two, it is the pixel isActivePixel3D reads at that point,
\* and the screen, edge and corner functions agree with it
\* (CubeApplication.cpp:25-51, 89-126, 291-381).
SurfaceQueriesAgree ==
  last.op = "pixel" =>
    LET p == last.p
        planes == {a \in 1..3 : p[a] \in {0, Max}}
    IN /\ isOnSurface(p) <=> planes # {}
       /\ isOnEdge(p) <=> Cardinality(planes) >= 2
       /\ isOnCorner(p) <=> Cardinality(planes) = 3
       /\ isActivePixel3D(p) <=> Cardinality(planes) = 1
       /\ {px[1] : px \in LitPixels} =
            IF Cardinality(planes) = 1 THEN getScreenNumber(p) ELSE {}

\* How bright the lit pixels are together.
Total(ch) ==
  MapThenFoldSet(LAMBDA m, n : m + n, 0, LAMBDA px : light[px][ch],
                 LAMBDA S : CHOOSE px \in S : TRUE, LitPixels)

\* A smooth pixel on a screen, away from its rim, is spread over the pixels
\* around it: together they are as bright as its colour but for what rounding
\* takes from each, and the nearer one is never darker than the farther one
\* (CubeApplication.cpp:57-83).
SmoothKeepsLight ==
  last.op = "smooth" =>
    LET q == last.q
        whole == {a \in 1..3 : q[a] \in {0, 4 * Max}}
        distance(p) == Abs(4 * p[1] - q[1]) + Abs(4 * p[2] - q[2]) + Abs(4 * p[3] - q[3])
    IN (\E a \in whole : \A b \in (1..3) \ {a} : 4 <= q[b] /\ q[b] <= 4 * N) =>
         \A ch \in 1..3 :
           /\ Total(ch) <= last.col[ch]
           /\ Total(ch) > last.col[ch] - 4
           /\ \A p, r \in {p \in Space : Lit(p) \cap LitPixels # {}} :
                distance(p) <= distance(r) =>
                  \A px \in Lit(p), py \in Lit(r) : light[px][ch] >= light[py][ch]

\* fromHSV gives each channel its share of the wheel: full for a sixth either
\* side of its own hue, none around the opposite one and a straight line in
\* between, lifted by what is missing in saturation (Color.cpp:54-100).
ColorWheel ==
  last.op = "fill" =>
    \A px \in Pixels, ch \in 1..3 :
      LET k == (4 * (7 - 2 * ch) + last.h) % 24
          away == Constrain(IF k <= 16 - k THEN k ELSE 16 - k, 0, 4)
      IN light[px][ch] = (255 * last.v * (8 - last.s * away)) \div 16

=============================================================================
