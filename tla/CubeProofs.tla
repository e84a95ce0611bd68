----------------------------- MODULE CubeProofs -----------------------------
(* The geometry of the screens, what is drawn on them and in the space, and *)
(* the panels of the renderers, for cubes of any size: see CubeGeometry,    *)
(* CubeDrawing and ServerSetup; then the main menu that is shown on the     *)
(* cube, see MainMenu.                                                      *)
EXTENDS Display, MainMenu, FiniteSetTheorems, SequenceTheorems, WellFoundedInduction,
  TLAPS

\* Every place of the plane a screen spans, taken to the space and lit there,
\* lights that pixel of that screen, and nothing outside of it: shapes drawn
\* across the end of a screen are cut off (CubeApplication.cpp:25-51, 417-446).
THEOREM PointsStayOnScreen ==
  \A s \in Screens, a, b \in Int :
    Lit(getPointOnScreen(s, a, b)) = {<<s, a, b>>} \cap Pixels
<1> SUFFICES ASSUME NEW s \in Screens, NEW a \in Int, NEW b \in Int
             PROVE  Lit(getPointOnScreen(s, a, b)) = {<<s, a, b>>} \cap Pixels
  OBVIOUS
<1> USE GeometryAssumption DEF Max, Constrained, PixelAt, Pixels, Screens, Point,
      front, right, back, left, top, bottom, anyScreen
<1>1. CASE s = front
  BY <1>1 DEF Lit, getPointOnScreen
<1>2. CASE s = right
  BY <1>2 DEF Lit, getPointOnScreen
<1>3. CASE s = back
  BY <1>3 DEF Lit, getPointOnScreen
<1>4. CASE s = left
  BY <1>4 DEF Lit, getPointOnScreen
<1>5. CASE s = top
  BY <1>5 DEF Lit, getPointOnScreen
<1>6. CASE s = bottom
  BY <1>6 DEF Lit, getPointOnScreen
<1> QED
  BY <1>1, <1>2, <1>3, <1>4, <1>5, <1>6

-----------------------------------------------------------------------------
\* Along axis a the line has moved m points after i steps, and the error is
\* what that leaves of the ideal course.
Course(l, a, m) ==
  LET D == Delta(l)[a]
      L == Length(l)
  IN /\ l.at[a] = l.from[a] + (IF l.to[a] < l.from[a] THEN -m ELSE m)
     /\ l.err[a] = 2 * (D * l.i) + 2 * D - L - 2 * (L * m)
     /\ 2 * D - 2 * L <= l.err[a]
     /\ l.err[a] <= 2 * D
     /\ m <= l.i

LineType == [from : Triples, to : Triples, at : Triples, err : Triples, i : Nat]

OnCourse(l) ==
  /\ l \in LineType
  /\ l.i <= Length(l)
  /\ \A a \in 1..3 : \E m \in Nat : Course(l, a, m)

LineInv == OnCourse(line)

LEMMA AtLeast ==
  ASSUME NEW x \in Nat, NEW y \in Nat, y >= 1
  PROVE  x * y >= x
<1>1. x * y = x + x * (y - 1)
  BY SMT
<1>2. x * (y - 1) >= 0
  <2>1. \A k \in Nat : x * k \in Nat
    BY SMT
  <2> QED
    BY <2>1
<1>3. x * (y - 1) \in Int
  BY SMT
<1> QED
  BY <1>1, <1>2, <1>3

LEMMA Products ==
  ASSUME NEW x \in Int, NEW y \in Int
  PROVE  /\ 2 * x * y = 2 * (x * y) /\ x * y = y * x
         /\ 2 * x * (-y) = -(2 * (x * y))
  BY SMT

LEMMA LengthType ==
  ASSUME NEW l \in LineType
  PROVE  /\ Length(l) \in Nat
         /\ \A a \in 1..3 : Delta(l)[a] \in Nat /\ Delta(l)[a] <= Length(l)
<1>1. \A a \in 1..3 : l.to[a] \in Int /\ l.from[a] \in Int
  BY DEF LineType, Triples
<1>2. \A a \in 1..3 : Delta(l)[a] \in Nat
  BY <1>1 DEF Delta, Abs
<1> QED
  BY <1>2 DEF Length

LEMMA LineFits == LineInv => LineFollowsIdeal
<1> SUFFICES ASSUME LineInv PROVE LineFollowsIdeal
  OBVIOUS
<1> DEFINE L == Length(line)
           I == line.i
<1>1. line \in LineType /\ L \in Nat /\ I \in Nat /\ I <= L
  BY LengthType DEF LineInv, OnCourse, LineType
<1>2. ASSUME NEW a \in 1..3
      PROVE  /\ Abs(2 * L * (line.at[a] - line.from[a])
                     - 2 * I * (line.to[a] - line.from[a])) <= L
             /\ I = L => line.at[a] = line.to[a]
  <2> DEFINE D == Delta(line)[a]
             d == line.to[a] - line.from[a]
  <2>1. PICK m \in Nat : Course(line, a, m)
    BY DEF LineInv, OnCourse
  <2>2. /\ D \in Nat /\ D <= L
        /\ line.from[a] \in Int /\ line.to[a] \in Int /\ line.at[a] \in Int
        /\ line.err[a] \in Int
    BY <1>1, LengthType DEF LineType, Triples
  <2>3. \/ d = D /\ line.at[a] - line.from[a] = m
        \/ d = -D /\ line.at[a] - line.from[a] = -m
    BY <2>1, <2>2 DEF Course, Delta, Abs
  <2> DEFINE P == L * m
             Q == D * I
  <2>4. P \in Int /\ Q \in Int
    BY <1>1, <2>2
  <2>5. 2 * Q - 2 * P <= L /\ 2 * P - 2 * Q <= L
    <3>1. /\ line.err[a] = 2 * Q + 2 * D - L - 2 * P
          /\ 2 * D - 2 * L <= line.err[a]
          /\ line.err[a] <= 2 * D
      BY <2>1 DEF Course
    <3> QED
      BY <3>1, <2>2, <2>4, <1>1
  <2>6. \/ /\ 2 * L * (line.at[a] - line.from[a]) = 2 * P
           /\ 2 * I * d = 2 * Q
        \/ /\ 2 * L * (line.at[a] - line.from[a]) = -(2 * P)
           /\ 2 * I * d = -(2 * Q)
    <3>1. CASE d = D /\ line.at[a] - line.from[a] = m
      <4>1. 2 * L * m = 2 * (L * m) /\ 2 * I * D = 2 * (D * I)
        BY <1>1, <2>2, Products
      <4> QED
        BY <3>1, <4>1
    <3>2. CASE d = -D /\ line.at[a] - line.from[a] = -m
      <4>1. 2 * L * (-m) = -(2 * (L * m)) /\ 2 * I * (-D) = -(2 * (D * I))
        <5>1. I * D = D * I
          BY <1>1, <2>2, Products
        <5>2. 2 * I * (-D) = -(2 * (I * D))
          BY <1>1, <2>2, Products
        <5>3. 2 * L * (-m) = -(2 * (L * m))
          BY <1>1, Products
        <5> QED
          BY <5>1, <5>2, <5>3
      <4> QED
        BY <3>2, <4>1
    <3> QED
      BY <2>3, <3>1, <3>2
  <2>7. Abs(2 * L * (line.at[a] - line.from[a]) - 2 * I * d) <= L
    BY <2>4, <2>5, <2>6, <1>1 DEF Abs
  <2>8. ASSUME I = L PROVE line.at[a] = line.to[a]
    <3>1. m <= L
      BY <2>1, <2>8 DEF Course
    <3>2. m = D
      <4>1. CASE L = 0
        BY <4>1, <3>1, <2>2
      <4>2. CASE L > 0 /\ m < D
        <5>1. D = m + (D - m) /\ D - m >= 1 /\ D - m \in Nat
          BY <4>2, <2>2
        <5>2. D * L = L * m + L * (D - m)
          BY <5>1, <1>1, <2>2
        <5>3. L \in Nat
          BY <1>1
        <5>4. L * (D - m) >= L /\ L * (D - m) \in Int
          BY <5>1, <5>3, AtLeast
        <5>5. Q = D * L
          BY <2>8
        <5> DEFINE R == L * (D - m)
        <5> HIDE DEF L, I, D, P, Q, R
        <5> QED
          BY <5>2, <5>3, <5>4, <5>5, <2>4, <2>5, <4>2 DEF P, R
      <4>3. CASE L > 0 /\ m > D
        <5>1. m = D + (m - D) /\ m - D >= 1 /\ m - D \in Nat
          BY <4>3, <2>2
        <5>2. L * m = D * L + L * (m - D)
          BY <5>1, <1>1, <2>2
        <5>3. L \in Nat
          BY <1>1
        <5>4. L * (m - D) >= L /\ L * (m - D) \in Int
          BY <5>1, <5>3, AtLeast
        <5>5. Q = D * L
          BY <2>8
        <5> DEFINE R == L * (m - D)
        <5> HIDE DEF L, I, D, P, Q, R
        <5> QED
          BY <5>2, <5>3, <5>4, <5>5, <2>4, <2>5, <4>3 DEF P, R
      <4> QED
        BY <4>1, <4>2, <4>3, <1>1, <2>2
    <3> QED
      BY <3>2, <2>3, <2>2
  <2> QED
    BY <2>7, <2>8
<1> QED
  BY <1>2 DEF LineFollowsIdeal

LEMMA NoLineOnCourse == OnCourse(NoLine)
<1>1. NoLine \in LineType
  BY DEF NoLine, Origin, LineType, Triples
<1>2. /\ \A a \in 1..3 : Delta(NoLine)[a] = 0
      /\ Length(NoLine) = 0 /\ NoLine.i = 0
      /\ \A a \in 1..3 : NoLine.at[a] = 0 /\ NoLine.from[a] = 0 /\ NoLine.err[a] = 0
  BY DEF NoLine, Origin, Delta, Length, Abs
<1>3. \A a \in 1..3 : Course(NoLine, a, 0)
  BY <1>2 DEF Course
<1> QED
  BY <1>1, <1>2, <1>3 DEF OnCourse

LEMMA ErrChanged ==
  ASSUME NEW l \in LineType, NEW err \in Triples,
         NEW r, r = [l EXCEPT !.err = err]
  PROVE  /\ r \in LineType
         /\ r.i = l.i /\ r.from = l.from /\ r.to = l.to /\ r.at = l.at /\ r.err = err
  BY DEF LineType

LEMMA StartInv ==
  ASSUME NEW p \in [1..3 -> SpaceCoordinates],
         NEW q \in [1..3 -> SpaceCoordinates],
         StartLine(p, q)
  PROVE  LineInv'
<1> DEFINE l == [from |-> p, to |-> q, at |-> p, err |-> Origin, i |-> 0]
<1>1. line' = [l EXCEPT !.err = FirstError(l)]
  BY DEF StartLine
<1>2. p \in Triples /\ q \in Triples
  BY DrawingAssumption DEF Triples
<1>3. l \in LineType
  BY <1>2 DEF Origin, LineType, Triples
<1>4. /\ Length(l) \in Nat
      /\ \A a \in 1..3 : Delta(l)[a] \in Nat /\ Delta(l)[a] <= Length(l)
  BY <1>3, LengthType
<1>5. FirstError(l) \in Triples
  BY <1>4 DEF FirstError, Triples
<1>6. /\ line' \in LineType
      /\ line'.i = 0 /\ line'.from = l.from /\ line'.to = l.to
      /\ line'.at = l.from /\ line'.err = FirstError(l)
  <2>1. l.i = 0 /\ l.at = l.from
    OBVIOUS
  <2> HIDE DEF l
  <2> QED
    BY <1>1, <1>3, <1>5, <2>1, ErrChanged
<1>7. Delta(line') = Delta(l) /\ Length(line') = Length(l)
  BY <1>6 DEF Delta, Length
<1>8. ASSUME NEW a \in 1..3 PROVE Course(line', a, 0)
  <2>1. line'.err[a] = 2 * Delta(l)[a] - Length(l)
    BY <1>6 DEF FirstError
  <2>2. l.from[a] \in Int
    BY <1>3 DEF LineType, Triples
  <2> QED
    BY <1>4, <1>6, <1>7, <2>1, <2>2 DEF Course
<1> QED
  BY <1>4, <1>6, <1>7, <1>8 DEF LineInv, OnCourse

LEMMA StepInv == LineInv /\ LineStep => LineInv'
<1> SUFFICES ASSUME LineInv, LineStep PROVE LineInv'
  OBVIOUS
<1> DEFINE L == Length(line)
           I == line.i
<1>1. /\ line \in LineType
      /\ L \in Nat /\ I \in Nat /\ I < L
      /\ \A a \in 1..3 : Delta(line)[a] \in Nat /\ Delta(line)[a] <= L
      /\ \A a \in 1..3 : /\ line.from[a] \in Int /\ line.to[a] \in Int
                         /\ line.at[a] \in Int /\ line.err[a] \in Int
  BY LengthType DEF LineInv, OnCourse, LineStep, LineType, Triples
<1> DEFINE pos == [a \in 1..3 |->
                    IF line.err[a] <= 0 THEN line.at[a]
                    ELSE IF line.to[a] < line.from[a] THEN line.at[a] - 1
                    ELSE line.at[a] + 1]
           err == [a \in 1..3 |-> line.err[a] + 2 * Delta(line)[a]
                                   - IF line.err[a] > 0 THEN 2 * L ELSE 0]
<1>2. line' = [line EXCEPT !.i = line.i + 1, !.at = pos, !.err = err]
  BY DEF LineStep
<1>3. pos \in Triples /\ err \in Triples
  BY <1>1 DEF Triples
<1>4. /\ line' \in LineType
      /\ line'.i = I + 1 /\ line'.from = line.from /\ line'.to = line.to
      /\ line'.at = pos /\ line'.err = err
  <2>1. I + 1 \in Nat
    BY <1>1
  <2>2. line' = [line EXCEPT !.i = I + 1, !.at = pos, !.err = err]
    BY <1>2
  <2>3. line \in LineType
    BY <1>1
  <2> HIDE DEF pos, err, I
  <2> QED
    BY <1>3, <2>1, <2>2, <2>3 DEF LineType
<1>5. Delta(line') = Delta(line) /\ Length(line') = L
  BY <1>4 DEF Delta, Length
<1>6. ASSUME NEW a \in 1..3 PROVE \E m \in Nat : Course(line', a, m)
  <2> DEFINE D == Delta(line)[a]
  <2>1. PICK m \in Nat : Course(line, a, m)
    BY DEF LineInv, OnCourse
  <2> DEFINE P == L * m
             Q == D * I
  <2>2. /\ D \in Nat /\ D <= L /\ P \in Int /\ Q \in Int
        /\ L * (m + 1) = P + L
        /\ D * (I + 1) = Q + D
    BY <1>1, <2>1
  <2>3. /\ line.at[a] = line.from[a] + (IF line.to[a] < line.from[a] THEN -m ELSE m)
        /\ line.err[a] = 2 * Q + 2 * D - L - 2 * P
        /\ 2 * D - 2 * L <= line.err[a] /\ line.err[a] <= 2 * D
        /\ m <= I
    BY <2>1 DEF Course
  <2>4. CASE line.err[a] <= 0
    <3>1. line'.at[a] = line.at[a] /\ line'.err[a] = line.err[a] + 2 * D
      BY <1>1, <1>4, <2>4
    <3>2. /\ line'.err[a] = 2 * (Q + D) + 2 * D - L - 2 * P
          /\ 2 * D - 2 * L <= line'.err[a] /\ line'.err[a] <= 2 * D
          /\ m <= I + 1
      <4> HIDE DEF P, Q, D, L, I
      <4> QED
        BY <1>1, <2>2, <2>3, <2>4, <3>1
    <3>3. Course(line', a, m)
      BY <1>4, <1>5, <2>2, <2>3, <3>1, <3>2 DEF Course
    <3> QED
      BY <3>3
  <2>5. CASE line.err[a] > 0
    <3>1. /\ line'.at[a] = line.from[a] + (IF line.to[a] < line.from[a]
                                           THEN -(m + 1) ELSE m + 1)
          /\ line'.err[a] = line.err[a] + 2 * D - 2 * L
      <4>1. line'.err[a] = line.err[a] + 2 * D - 2 * L
        BY <1>1, <1>4, <2>5
      <4>2. line'.at[a] = IF line.to[a] < line.from[a] THEN line.at[a] - 1
                          ELSE line.at[a] + 1
        BY <1>1, <1>4, <2>5
      <4>3. line.from[a] \in Int /\ m \in Int
        BY <1>1
      <4> HIDE DEF D, L
      <4> QED
        BY <2>3, <4>1, <4>2, <4>3
    <3>2. /\ line'.err[a] = 2 * (Q + D) + 2 * D - L - 2 * (P + L)
          /\ 2 * D - 2 * L <= line'.err[a] /\ line'.err[a] <= 2 * D
          /\ m + 1 <= I + 1
      <4> HIDE DEF P, Q, D, L, I
      <4> QED
        BY <1>1, <2>2, <2>3, <2>5, <3>1
    <3>3. Course(line', a, m + 1)
      BY <1>4, <1>5, <2>2, <2>3, <3>1, <3>2 DEF Course
    <3> QED
      BY <3>3
  <2> QED
    BY <1>1, <2>4, <2>5
<1> QED
  BY <1>1, <1>4, <1>5, <1>6 DEF LineInv, OnCourse

LEMMA LineInvInductive == LineInv /\ [Next]_vars => LineInv'
<1> SUFFICES ASSUME LineInv, [Next]_vars PROVE LineInv'
  OBVIOUS
<1>1. ASSUME UNCHANGED line PROVE LineInv'
  BY <1>1 DEF LineInv
<1>2. CASE DrawingNext
  <2>1. ASSUME NEW p \in [1..3 -> SpaceCoordinates],
               NEW q \in [1..3 -> SpaceCoordinates],
               StartLine(p, q)
        PROVE  LineInv'
    BY <2>1, StartInv
  <2>2. CASE LineEnds
    <3>1. line' = NoLine
      BY <2>2 DEF LineEnds
    <3> QED
      BY <3>1, NoLineOnCourse DEF LineInv
  <2>3. CASE \/ \E shape \in Shapes : DrawShape(shape)
             \/ \E p \in Space : SetPixel(p)
             \/ \E s \in Screens : SetRandomPixel(s)
             \/ \E q \in SmoothQuarters \X SmoothQuarters \X SmoothQuarters,
                   col \in SmoothColors : SetPixelSmooth(q, col)
             \/ \E h \in 0..23, s \in 0..2, v \in 0..2 : FillAll(h, s, v)
             \/ Fade(1, 2) \/ Clear
    <3>1. UNCHANGED line
      BY <2>3 DEF DrawShape, SetPixel, SetRandomPixel, SetPixelSmooth, FillAll, Fade, Clear
    <3> QED
      BY <3>1, <1>1
  <2> QED
    BY <1>2, <2>1, <2>2, <2>3, StepInv DEF DrawingNext
<1>3. CASE UNCHANGED drawingVars
  BY <1>1, <1>3 DEF drawingVars
<1> QED
  BY <1>2, <1>3 DEF Next, vars

\* Every line in space that an application draws keeps to its ideal course and
\* ends at its end, in a cube of any size (CubeApplication.cpp:144-216).
THEOREM LinesFollowIdeal == Spec => []LineFollowsIdeal
<1>1. Init => LineInv
  BY NoLineOnCourse DEF Init, DrawingInit, LineInv
<1> QED
  BY <1>1, LineInvInductive, LineFits, PTL DEF Spec

-----------------------------------------------------------------------------
(* Where a point is, by the planes of the cube it is on.                    *)

Planes(p) == {a \in 1..3 : p[a] \in {0, Max}}

LEMMA NatLess == IsWellFoundedOn({p \in Nat \X Nat : p[1] < p[2]}, Nat)
BY NatLessThanWellFounded DEF OpToRel

LEMMA LeastExists ==
  ASSUME NEW S \in SUBSET Nat, S # {}
  PROVE  \E k \in S : \A j \in S : k <= j
<1> DEFINE Less == {p \in Nat \X Nat : p[1] < p[2]}
<1>1. IsWellFoundedOn(Less, Nat)
  BY NatLess
<1>2. \E k \in S : \A j \in S : <<j, k>> \notin Less
  <2> HIDE DEF Less
  <2> QED
    BY <1>1, WFMin, Zenon
<1>3. \A j, k \in S : j < k => <<j, k>> \in Less
  OBVIOUS
<1>4. \A j, k \in S : ~(j < k) => k <= j
  OBVIOUS
<1> QED
  BY <1>2, <1>3, <1>4

LEMMA FitsSome ==
  ASSUME NEW p, NEW patterns, NEW n \in Nat, DOMAIN patterns = 1..n
  PROVE  Fitting(p, patterns) # {} <=> \E k \in 1..n : Fits(p, patterns[k][2])
<1> DEFINE K == {k \in DOMAIN patterns : Fits(p, patterns[k][2])}
<1>1. Fitting(p, patterns) = {patterns[k][1] : k \in {i \in K : \A j \in K : i <= j}}
  BY DEF Fitting
<1>2. K \in SUBSET Nat
  OBVIOUS
<1>3. K # {} => \E k \in K : \A j \in K : k <= j
  <2> HIDE DEF K
  <2> QED
    BY <1>2, LeastExists
<1>4. K # {} <=> \E k \in 1..n : Fits(p, patterns[k][2])
  OBVIOUS
<1>5. Fitting(p, patterns) # {} <=> K # {}
  <2> HIDE DEF K
  <2> QED
    BY <1>1, <1>3
<1> QED
  BY <1>4, <1>5

LEMMA InSpace ==
  ASSUME NEW p \in Space
  PROVE  /\ p[1] \in 0..Max /\ p[2] \in 0..Max /\ p[3] \in 0..Max
         /\ Max \in Nat /\ Max > 1
BY GeometryAssumption DEF Space, Max

\* The points of a plane, of two and of three: the patterns are complete.
LEMMA SurfaceIsPlanes ==
  ASSUME NEW p \in Space
  PROVE  isOnSurface(p) <=> Planes(p) # {}
<1>1. DOMAIN ScreenPatterns = 1..6
  BY DEF ScreenPatterns
<1>2. (\E k \in 1..6 : Fits(p, ScreenPatterns[k][2])) <=> Planes(p) # {}
  BY InSpace DEF ScreenPatterns, Fits, Planes
<1> QED
  BY <1>1, <1>2, FitsSome DEF isOnSurface, getScreenNumber

LEMMA EdgeIsTwoPlanes ==
  ASSUME NEW p \in Space
  PROVE  isOnEdge(p) <=> \E a, b \in Planes(p) : a # b
<1>1. DOMAIN EdgePatterns = 1..12
  BY DEF EdgePatterns
<1>2. (\E k \in 1..12 : Fits(p, EdgePatterns[k][2])) <=> \E a, b \in Planes(p) : a # b
  BY InSpace DEF EdgePatterns, Fits, Planes
<1> QED
  BY <1>1, <1>2, FitsSome DEF isOnEdge, getEdgeNumber

LEMMA CornerIsThreePlanes ==
  ASSUME NEW p \in Space
  PROVE  isOnCorner(p) <=> Planes(p) = 1..3
<1>1. DOMAIN CornerPatterns = 1..8
  BY DEF CornerPatterns
<1>2. (\E k \in 1..8 : Fits(p, CornerPatterns[k][2])) <=> Planes(p) = 1..3
  BY InSpace DEF CornerPatterns, Fits, Planes
<1> QED
  BY <1>1, <1>2, FitsSome DEF isOnCorner, getCornerNumber

LEMMA CountUpToThree ==
  ASSUME NEW P \in SUBSET (1..3)
  PROVE  /\ Cardinality(P) >= 2 <=> \E a, b \in P : a # b
         /\ Cardinality(P) = 3 <=> P = 1..3
         /\ Cardinality(P) = 1 <=> \E a \in 1..3 : P = {a}
<1>1. IsFiniteSet(1..3) /\ Cardinality(1..3) = 3
  <2>1. 1 \in Int /\ 3 \in Int /\ ~(1 > 3) /\ 3 - 1 + 1 = 3
    OBVIOUS
  <2> QED
    BY <2>1, FS_Interval, Zenon
<1>2. /\ IsFiniteSet(P) /\ Cardinality(P) \in Nat
      /\ Cardinality(P) = 3 => P = 1..3
  BY <1>1, FS_Subset, FS_CardinalityType
<1>3. Cardinality(P) = 0 <=> P = {}
  BY <1>2, FS_EmptySet
<1>4. Cardinality(P) = 1 <=> \E a : P = {a}
  BY <1>2, FS_Singleton
<1>5. (\E a : P = {a}) <=> \E a \in P : \A b \in P : b = a
  <2>1. ASSUME NEW a, P = {a} PROVE a \in P /\ \A b \in P : b = a
    BY <2>1
  <2>2. ASSUME NEW a \in P, \A b \in P : b = a PROVE P = {a}
    BY <2>2
  <2> QED
    BY <2>1, <2>2
<1>6. (\E a, b \in P : a # b) <=> ~(P = {} \/ \E a : P = {a})
  <2>1. P = {} <=> ~ \E a \in P : TRUE
    OBVIOUS
  <2>2. (\E a, b \in P : a # b) <=> ~((~ \E a \in P : TRUE)
                                    \/ \E a \in P : \A b \in P : b = a)
    OBVIOUS
  <2> QED
    BY <1>5, <2>1, <2>2
<1>7. (\E a : P = {a}) <=> \E a \in 1..3 : P = {a}
  BY <1>5
<1> QED
  BY <1>1, <1>2, <1>3, <1>4, <1>6, <1>7

PixelOf(p) == PixelAt(p[1], p[2], p[3])

LEMMA LightsItsPixel ==
  ASSUME NEW p \in Space
  PROVE  Lit(p) = {PixelOf(p)} \cap Pixels
BY InSpace DEF Lit, Constrained, PixelOf

LEMMA PixelOfOnePlane ==
  ASSUME NEW p \in Space
  PROVE  PixelOf(p) \in Pixels <=> \E a \in 1..3 : Planes(p) = {a}
<1>1. N \in Nat \ {0} /\ Max = N + 1
  BY GeometryAssumption DEF Max
<1>2. \A a \in 1..3 : a \in Planes(p) <=> p[a] = 0 \/ p[a] = Max
  BY DEF Planes
<1>3. (\E a \in 1..3 : Planes(p) = {a}) <=>
         \/ 1 \in Planes(p) /\ 2 \notin Planes(p) /\ 3 \notin Planes(p)
         \/ 1 \notin Planes(p) /\ 2 \in Planes(p) /\ 3 \notin Planes(p)
         \/ 1 \notin Planes(p) /\ 2 \notin Planes(p) /\ 3 \in Planes(p)
  BY DEF Planes
<1>4. \A s, i, j : <<s, i, j>> \in Pixels <=>
                     s \in Screens /\ i \in 0..N-1 /\ j \in 0..N-1
  BY DEF Pixels
<1>5. \A i \in 0..Max : (i - 1 \in 0..N-1 <=> i # 0 /\ i # Max)
                        /\ (Max - i - 1 \in 0..N-1 <=> i # 0 /\ i # Max)
  BY <1>1
<1>6. anyScreen \notin Screens
  BY DEF Screens, front, right, back, left, top, bottom, anyScreen
<1>7. CASE p[2] = 0
  <2>1. PixelOf(p) = <<front, p[1] - 1, p[3] - 1>>
    BY <1>7 DEF PixelOf, PixelAt
  <2> QED
    BY <1>1, <1>2, <1>3, <1>4, <1>5, <1>7, <2>1, InSpace DEF Screens
<1>8. CASE p[2] # 0 /\ p[1] = Max
  <2>1. PixelOf(p) = <<right, p[2] - 1, p[3] - 1>>
    BY <1>8 DEF PixelOf, PixelAt
  <2> QED
    BY <1>1, <1>2, <1>3, <1>4, <1>5, <1>8, <2>1, InSpace DEF Screens
<1>9. CASE p[2] = Max /\ p[1] # Max
  <2>1. PixelOf(p) = <<back, Max - p[1] - 1, p[3] - 1>>
    BY <1>1, <1>9 DEF PixelOf, PixelAt
  <2> QED
    BY <1>1, <1>2, <1>3, <1>4, <1>5, <1>9, <2>1, InSpace DEF Screens
<1>10. CASE p[2] # 0 /\ p[2] # Max /\ p[1] = 0
  <2>1. PixelOf(p) = <<left, Max - p[2] - 1, p[3] - 1>>
    BY <1>1, <1>10 DEF PixelOf, PixelAt
  <2> QED
    BY <1>1, <1>2, <1>3, <1>4, <1>5, <1>10, <2>1, InSpace DEF Screens
<1>11. CASE p[2] # 0 /\ p[2] # Max /\ p[1] # 0 /\ p[1] # Max /\ p[3] = 0
  <2>1. PixelOf(p) = <<top, p[1] - 1, Max - p[2] - 1>>
    BY <1>11 DEF PixelOf, PixelAt
  <2> QED
    BY <1>1, <1>2, <1>3, <1>4, <1>5, <1>11, <2>1, InSpace DEF Screens
<1>12. CASE p[2] # 0 /\ p[2] # Max /\ p[1] # 0 /\ p[1] # Max /\ p[3] = Max
  <2>1. PixelOf(p) = <<bottom, p[1] - 1, p[2] - 1>>
    BY <1>1, <1>12 DEF PixelOf, PixelAt
  <2> QED
    BY <1>1, <1>2, <1>3, <1>4, <1>5, <1>12, <2>1, InSpace DEF Screens
<1>13. CASE \A a \in 1..3 : p[a] # 0 /\ p[a] # Max
  <2>1. PixelOf(p) = <<anyScreen, 0, 0>>
    BY <1>13 DEF PixelOf, PixelAt
  <2> QED
    BY <1>2, <1>3, <1>4, <1>6, <1>13, <2>1
<1> QED
  BY <1>7, <1>8, <1>9, <1>10, <1>11, <1>12, <1>13, InSpace

LEMMA ScreenOfPixel ==
  ASSUME NEW p \in Space, PixelOf(p) \in Pixels
  PROVE  getScreenNumber(p) = {PixelOf(p)[1]}
<1>1. DOMAIN ScreenPatterns = 1..6
  BY DEF ScreenPatterns
<1>2. PICK a \in 1..3 : Planes(p) = {a}
  BY PixelOfOnePlane
<1> DEFINE K == {k \in 1..6 : Fits(p, ScreenPatterns[k][2])}
<1>3. \E k \in 1..6 : K = {k} /\ ScreenPatterns[k][1] = PixelOf(p)[1]
  <2> DEFINE fits(k) == Fits(p, ScreenPatterns[k][2])
             number(k) == ScreenPatterns[k][1]
  <2>1. /\ fits(1) <=> p[1] = 0
        /\ fits(2) <=> p[1] = Max
        /\ fits(3) <=> p[2] = 0
        /\ fits(4) <=> p[2] = Max
        /\ fits(5) <=> p[3] = 0
        /\ fits(6) <=> p[3] = Max
    BY InSpace DEF ScreenPatterns, Fits
  <2>2. /\ number(1) = left /\ number(2) = right /\ number(3) = front
        /\ number(4) = back /\ number(5) = top /\ number(6) = bottom
    BY DEF ScreenPatterns
  <2>3. \A b \in 1..3 : p[b] \in {0, Max} <=> b = a
    BY <1>2 DEF Planes
  <2>4. K = {k \in 1..6 : fits(k)}
    OBVIOUS
  <2> HIDE DEF fits, number, K
  <2>5. \E k \in 1..6 : K = {k} /\ number(k) = PixelOf(p)[1]
    <3>1. CASE a = 1
      <4>1. CASE p[1] = 0
        <5>1. K = {1} /\ number(1) = PixelOf(p)[1]
          BY <2>1, <2>2, <2>3, <2>4, <3>1, <4>1, InSpace DEF PixelOf, PixelAt
        <5> QED
          BY <5>1
      <4>2. CASE p[1] = Max
        <5>1. K = {2} /\ number(2) = PixelOf(p)[1]
          BY <2>1, <2>2, <2>3, <2>4, <3>1, <4>2, InSpace DEF PixelOf, PixelAt
        <5> QED
          BY <5>1
      <4> QED
        BY <2>3, <3>1, <4>1, <4>2
    <3>2. CASE a = 2
      <4>1. CASE p[2] = 0
        <5>1. K = {3} /\ number(3) = PixelOf(p)[1]
          BY <2>1, <2>2, <2>3, <2>4, <3>2, <4>1, InSpace DEF PixelOf, PixelAt
        <5> QED
          BY <5>1
      <4>2. CASE p[2] = Max
        <5>1. K = {4} /\ number(4) = PixelOf(p)[1]
          BY <2>1, <2>2, <2>3, <2>4, <3>2, <4>2, InSpace DEF PixelOf, PixelAt
        <5> QED
          BY <5>1
      <4> QED
        BY <2>3, <3>2, <4>1, <4>2
    <3>3. CASE a = 3
      <4>1. CASE p[3] = 0
        <5>1. K = {5} /\ number(5) = PixelOf(p)[1]
          BY <2>1, <2>2, <2>3, <2>4, <3>3, <4>1, InSpace DEF PixelOf, PixelAt
        <5> QED
          BY <5>1
      <4>2. CASE p[3] = Max
        <5>1. K = {6} /\ number(6) = PixelOf(p)[1]
          BY <2>1, <2>2, <2>3, <2>4, <3>3, <4>2, InSpace DEF PixelOf, PixelAt
        <5> QED
          BY <5>1
      <4> QED
        BY <2>3, <3>3, <4>1, <4>2
    <3> QED
      BY <3>1, <3>2, <3>3
  <2> QED
    BY <2>5 DEF number
<1>4. PICK k \in 1..6 : K = {k} /\ ScreenPatterns[k][1] = PixelOf(p)[1]
  BY <1>3
<1>5. getScreenNumber(p) = {ScreenPatterns[i][1] : i \in {j \in K : \A h \in K : j <= h}}
  BY <1>1 DEF getScreenNumber, Fitting
<1>6. {j \in K : \A h \in K : j <= h} = {k}
  BY <1>4
<1> QED
  BY <1>4, <1>5, <1>6

Dark == [px \in Pixels |-> Black]

QueriesInv ==
  /\ last = Nothing => light = Dark
  /\ last.op = "pixel" => last.p \in Space /\ light = Painted(Dark, {last.p}, Col)

LEMMA QueriesFit == QueriesInv => SurfaceQueriesAgree
<1> SUFFICES ASSUME QueriesInv, last.op = "pixel" PROVE SurfaceQueriesAgree
  BY DEF SurfaceQueriesAgree
<1> DEFINE p == last.p
           P == PixelOf(p)
<1>1. p \in Space /\ light = Painted(Dark, {p}, Col)
  BY DEF QueriesInv
<1>2. light = [px \in Pixels |-> IF px = P THEN Col ELSE Black]
  <2>1. UNION {Lit(q) : q \in {p}} = {P} \cap Pixels
    BY <1>1, LightsItsPixel
  <2> QED
    BY <1>1, <2>1 DEF Painted, Dark
<1>3. Col # Black
  BY DEF Col, Black
<1>4. LitPixels = {P} \cap Pixels
  BY <1>2, <1>3 DEF LitPixels
<1>5. isActivePixel3D(p) <=> P \in Pixels
  BY <1>2, <1>3 DEF isActivePixel3D, getPixel3D, PixelOf
<1> DEFINE planes == Planes(p)
<1>6. /\ Cardinality(planes) >= 2 <=> \E a, b \in planes : a # b
      /\ Cardinality(planes) = 3 <=> planes = 1..3
      /\ Cardinality(planes) = 1 <=> P \in Pixels
  <2>1. planes \in SUBSET (1..3)
    BY DEF Planes
  <2> HIDE DEF planes
  <2>2. Cardinality(planes) = 1 <=> \E a \in 1..3 : planes = {a}
    BY <2>1, CountUpToThree
  <2> QED
    BY <1>1, <2>1, <2>2, CountUpToThree, PixelOfOnePlane DEF planes
<1>7. {px[1] : px \in LitPixels} =
        IF Cardinality(planes) = 1 THEN getScreenNumber(p) ELSE {}
  <2>1. CASE P \in Pixels
    <3>1. LitPixels = {P}
      BY <1>4, <2>1
    <3>2. getScreenNumber(p) = {P[1]}
      BY <1>1, <2>1, ScreenOfPixel
    <3> HIDE DEF P, planes, p
    <3> QED
      BY <1>6, <2>1, <3>1, <3>2
  <2>2. CASE P \notin Pixels
    <3>1. LitPixels = {}
      BY <1>4, <2>2
    <3> HIDE DEF P, planes, p
    <3> QED
      BY <1>6, <2>2, <3>1
  <2> QED
    BY <2>1, <2>2
<1>8. /\ isOnSurface(p) <=> planes # {}
      /\ isOnEdge(p) <=> Cardinality(planes) >= 2
      /\ isOnCorner(p) <=> Cardinality(planes) = 3
  BY <1>1, <1>6, SurfaceIsPlanes, EdgeIsTwoPlanes, CornerIsThreePlanes
<1>9. planes = {a \in 1..3 : p[a] \in {0, Max}}
  BY DEF Planes
<1> HIDE DEF P, planes, p
<1> QED
  BY <1>5, <1>6, <1>7, <1>8, <1>9 DEF SurfaceQueriesAgree, p

\* How what was drawn last comes about.
LEMMA DrawnLast ==
  ASSUME [Next]_vars
  PROVE  \/ UNCHANGED <<light, last>>
         \/ \E p \in Space : SetPixel(p)
         \/ \E h \in 0..23, s \in 0..2, v \in 0..2 : FillAll(h, s, v)
         \/ Clear
         \/ /\ last' # Nothing /\ last'.op \notin {"pixel", "fill"}
            /\ last'.op = "smooth" =>
                 \E q \in SmoothQuarters \X SmoothQuarters \X SmoothQuarters,
                    col \in SmoothColors : SetPixelSmooth(q, col)
            /\ last'.op = "random" => \E s \in Screens : SetRandomPixel(s)
            /\ last'.op \in {"line", "rect", "circle", "text"} =>
                 \E shape \in Shapes : DrawShape(shape)
<1> DEFINE Smooth == \E q \in SmoothQuarters \X SmoothQuarters \X SmoothQuarters,
                        col \in SmoothColors : SetPixelSmooth(q, col)
           Random == \E s \in Screens : SetRandomPixel(s)
           Shape == \E shape \in Shapes : DrawShape(shape)
           Other == /\ last' # Nothing /\ last'.op \notin {"pixel", "fill"}
                    /\ last'.op = "smooth" => Smooth
                    /\ last'.op = "random" => Random
                    /\ last'.op \in {"line", "rect", "circle", "text"} => Shape
<1> HIDE DEF Smooth, Random, Shape
<1>1. ASSUME \/ last'.op \in {"line3D", "line drawn", "fade"}
             \/ last'.op = "smooth" /\ Smooth
             \/ last'.op = "random" /\ Random
             \/ last'.op \in {"line", "rect", "circle", "text"} /\ Shape
      PROVE  Other
  <2>1. Nothing.op = "nothing"
    BY DEF Nothing
  <2> QED
    BY <1>1, <2>1
<1> HIDE DEF Other
<1>2. ASSUME Shape PROVE Other
  <2>1. PICK shape \in Shapes : DrawShape(shape)
    BY <1>2 DEF Shape
  <2>2. last' = shape
    BY <2>1 DEF DrawShape
  <2>3. shape.op \in {"line", "rect", "circle", "text"}
    BY DEF Shapes
  <2> QED
    BY <1>1, <1>2, <2>2, <2>3
<1>3. ASSUME Random PROVE Other
  <2>1. last'.op = "random"
    BY <1>3 DEF Random, SetRandomPixel
  <2> QED
    BY <1>1, <1>3, <2>1
<1>4. ASSUME NEW p \in [1..3 -> SpaceCoordinates],
             NEW q \in [1..3 -> SpaceCoordinates], StartLine(p, q)
      PROVE  Other
  <2>1. last'.op = "line3D"
    BY <1>4 DEF StartLine
  <2> QED
    BY <1>1, <2>1
<1>5. ASSUME LineStep PROVE Other
  <2>1. last'.op = "line3D"
    BY <1>5 DEF LineStep
  <2> QED
    BY <1>1, <2>1
<1>6. ASSUME LineEnds PROVE Other
  <2>1. last'.op = "line drawn"
    BY <1>6 DEF LineEnds
  <2> QED
    BY <1>1, <2>1
<1>7. ASSUME Smooth PROVE Other
  <2>1. PICK q \in SmoothQuarters \X SmoothQuarters \X SmoothQuarters,
             col \in SmoothColors : SetPixelSmooth(q, col)
    BY <1>7 DEF Smooth
  <2>2. last' = [op |-> "smooth", q |-> q, col |-> col]
    BY <2>1 DEF SetPixelSmooth
  <2>3. last'.op = "smooth"
    BY <2>2
  <2> QED
    BY <1>1, <1>7, <2>3
<1>8. ASSUME Fade(1, 2) PROVE Other
  <2>1. last'.op = "fade"
    BY <1>8 DEF Fade
  <2> QED
    BY <1>1, <2>1
<1> DEFINE Lines == \E p, q \in [1..3 -> SpaceCoordinates] : StartLine(p, q)
           Fills == \E h \in 0..23, s \in 0..2, v \in 0..2 : FillAll(h, s, v)
           Pixel == \E p \in Space : SetPixel(p)
<1>9. Lines => Other
  BY <1>4
<1>10. DrawingNext => \/ Shape \/ Random \/ Smooth \/ Lines \/ Fills \/ Pixel
                      \/ LineStep \/ LineEnds \/ Fade(1, 2) \/ Clear
  BY DEF DrawingNext, Shape, Random, Smooth
<1> HIDE DEF Lines, Fills, Pixel
<1>11. DrawingNext => Pixel \/ Fills \/ Clear \/ Other
  BY <1>2, <1>3, <1>5, <1>6, <1>7, <1>8, <1>9, <1>10
<1>12. CASE UNCHANGED drawingVars
  BY <1>12 DEF drawingVars
<1>13. CASE DrawingNext
  BY <1>11, <1>13 DEF Other, Smooth, Random, Shape, Fills, Pixel
<1> QED
  BY <1>12, <1>13 DEF Next, vars

LEMMA QueriesInductive == QueriesInv /\ [Next]_vars => QueriesInv'
<1> SUFFICES ASSUME QueriesInv, [Next]_vars PROVE QueriesInv'
  OBVIOUS
<1>1. Nothing.op = "nothing"
  BY DEF Nothing
<1>2. CASE UNCHANGED <<light, last>>
  BY <1>2 DEF QueriesInv
<1>3. ASSUME NEW p \in Space, SetPixel(p) PROVE QueriesInv'
  <2>1. light = Dark
    BY <1>3 DEF QueriesInv, SetPixel
  <2>2. last' = [op |-> "pixel", p |-> p] /\ light' = Painted(Dark, {p}, Col)
    BY <1>3, <2>1 DEF SetPixel
  <2>3. last'.op = "pixel" /\ last'.p = p
    BY <2>2
  <2> QED
    BY <1>1, <2>2, <2>3 DEF QueriesInv
<1>4. ASSUME NEW h \in 0..23, NEW s \in 0..2, NEW v \in 0..2, FillAll(h, s, v)
      PROVE  QueriesInv'
  <2>1. last'.op = "fill"
    BY <1>4 DEF FillAll
  <2> QED
    BY <1>1, <2>1 DEF QueriesInv
<1>5. CASE Clear
  <2>1. last' = Nothing /\ light' = Dark
    BY <1>5 DEF Clear, Dark
  <2> QED
    BY <1>1, <2>1 DEF QueriesInv
<1>6. CASE last' # Nothing /\ last'.op \notin {"pixel", "fill"}
  BY <1>6 DEF QueriesInv
<1> QED
  BY <1>2, <1>3, <1>4, <1>5, <1>6, DrawnLast

\* In a cube of any size a point of the space lights a pixel exactly if it is
\* on one of the planes and off the rim between two, and whatever an
\* application asks of it - is it active, on which screen, an edge, a corner -
\* is answered accordingly (CubeApplication.cpp:25-51, 89-126, 291-381).
THEOREM QueriesAgree == Spec => []SurfaceQueriesAgree
<1>1. Init => QueriesInv
  BY DEF Init, DrawingInit, QueriesInv, Nothing, Dark
<1> QED
  BY <1>1, QueriesInductive, QueriesFit, PTL DEF Spec

-----------------------------------------------------------------------------
(* The colour wheel.                                                        *)

\* How far hue h is from the sixths in which channel ch is full.
Away(h, ch) ==
  LET k == (4 * (7 - 2 * ch) + h) % 24
  IN Constrain(IF k <= 16 - k THEN k ELSE 16 - k, 0, 4)

Share(v, n) == (255 * v * n) \div 16

LEMMA AwayInSectors ==
  ASSUME NEW h \in 0..23, NEW f \in 0..3
  PROVE  /\ h = f      => Away(h, 1) = 0 /\ Away(h, 2) = 4 - f /\ Away(h, 3) = 4
         /\ h = 4 + f  => Away(h, 1) = f /\ Away(h, 2) = 0 /\ Away(h, 3) = 4
         /\ h = 8 + f  => Away(h, 1) = 4 /\ Away(h, 2) = 0 /\ Away(h, 3) = 4 - f
         /\ h = 12 + f => Away(h, 1) = 4 /\ Away(h, 2) = f /\ Away(h, 3) = 0
         /\ h = 16 + f => Away(h, 1) = 4 - f /\ Away(h, 2) = 4 /\ Away(h, 3) = 0
         /\ h = 20 + f => Away(h, 1) = 0 /\ Away(h, 2) = 4 /\ Away(h, 3) = f
BY DEF Away, Constrain

LEMMA SharesOfHue ==
  ASSUME NEW h \in 0..23, NEW s \in 0..2, NEW v \in 0..2, NEW ch \in 1..3
  PROVE  fromHSV(h, s, v)[ch] = Share(v, 8 - s * Away(h, ch))
<1> DEFINE f == h % 4
           V == Share(v, 8)
           P == Share(v, 4 * (2 - s))
           Q == Share(v, 8 - s * f)
           T == Share(v, 8 - s * (4 - f))
           wheel == <<<<V, T, P>>, <<Q, V, P>>, <<P, V, T>>, <<P, Q, V>>, <<T, P, V>>,
                      <<V, P, Q>>>>
<1>1. /\ f \in 0..3
      /\ \E k \in 0..5 : h = 4 * k + f /\ Sector(h) = k
  BY DEF Sector
<1>2. PICK k \in 0..5 : h = 4 * k + f /\ Sector(h) = k
  BY <1>1
<1>3. fromHSV(h, s, v) = IF s = 0 THEN <<V, V, V>> ELSE wheel[k + 1]
  <2>1. fromHSV(h, s, v) =
          IF s = 0 THEN <<V, V, V>>
          ELSE CASE Sector(h) = 0 -> <<V, T, P>>
                 [] Sector(h) = 1 -> <<Q, V, P>>
                 [] Sector(h) = 2 -> <<P, V, T>>
                 [] Sector(h) = 3 -> <<P, Q, V>>
                 [] Sector(h) = 4 -> <<T, P, V>>
                 [] OTHER -> <<V, P, Q>>
    BY DEF fromHSV, Share
  <2> HIDE DEF V, P, Q, T
  <2> QED
    BY <1>2, <2>1
<1>4. CASE s = 0
  <2>1. Away(h, ch) \in Int
    BY DEF Away, Constrain
  <2>2. 8 - s * Away(h, ch) = 8
    BY <1>4, <2>1
  <2>3. <<V, V, V>>[ch] = V
    OBVIOUS
  <2> QED
    BY <1>3, <1>4, <2>2, <2>3
<1>5. CASE s # 0
  <2>1. /\ 4 * (2 - s) = 8 - s * 4
        /\ 8 = 8 - s * 0
    OBVIOUS
  <2>2. P = Share(v, 8 - s * 4) /\ V = Share(v, 8 - s * 0)
    BY <2>1
  <2>3. fromHSV(h, s, v)[ch] = wheel[k + 1][ch]
    BY <1>3, <1>5
  <2>4. /\ wheel[k + 1][1] = Share(v, 8 - s * Away(h, 1))
        /\ wheel[k + 1][2] = Share(v, 8 - s * Away(h, 2))
        /\ wheel[k + 1][3] = Share(v, 8 - s * Away(h, 3))
    <3>0. f \in 0..3 /\ Q = Share(v, 8 - s * f) /\ T = Share(v, 8 - s * (4 - f))
      BY <1>1
    <3> HIDE DEF V, P, Q, T, f
    <3>1. CASE k = 0
      BY <1>2, <2>2, <3>0, <3>1, AwayInSectors
    <3>2. CASE k = 1
      BY <1>2, <2>2, <3>0, <3>2, AwayInSectors
    <3>3. CASE k = 2
      BY <1>2, <2>2, <3>0, <3>3, AwayInSectors
    <3>4. CASE k = 3
      BY <1>2, <2>2, <3>0, <3>4, AwayInSectors
    <3>5. CASE k = 4
      BY <1>2, <2>2, <3>0, <3>5, AwayInSectors
    <3>6. CASE k = 5
      BY <1>2, <2>2, <3>0, <3>6, AwayInSectors
    <3> QED
      BY <3>1, <3>2, <3>3, <3>4, <3>5, <3>6
  <2> HIDE DEF wheel
  <2> QED
    BY <2>3, <2>4
<1> QED
  BY <1>4, <1>5

WheelInv ==
  last.op = "fill" =>
    /\ last.h \in 0..23 /\ last.s \in 0..2 /\ last.v \in 0..2
    /\ light = [px \in Pixels |-> fromHSV(last.h, last.s, last.v)]

LEMMA WheelFits == WheelInv => ColorWheel
<1> SUFFICES ASSUME WheelInv, last.op = "fill",
                    NEW px \in Pixels, NEW ch \in 1..3
             PROVE  light[px][ch] = Share(last.v, 8 - last.s * Away(last.h, ch))
  BY DEF ColorWheel, Share, Away
<1>1. /\ last.h \in 0..23 /\ last.s \in 0..2 /\ last.v \in 0..2
      /\ light[px] = fromHSV(last.h, last.s, last.v)
  BY DEF WheelInv
<1>2. \A h \in 0..23, s \in 0..2, v \in 0..2 :
        fromHSV(h, s, v)[ch] = Share(v, 8 - s * Away(h, ch))
  BY SharesOfHue
<1>3. fromHSV(last.h, last.s, last.v)[ch] = Share(last.v, 8 - last.s * Away(last.h, ch))
  BY <1>1, <1>2, Zenon
<1> QED
  BY <1>1, <1>3

LEMMA WheelInductive == WheelInv /\ [Next]_vars => WheelInv'
<1> SUFFICES ASSUME WheelInv, [Next]_vars PROVE WheelInv'
  OBVIOUS
<1>1. ASSUME last'.op # "fill" PROVE WheelInv'
  BY <1>1 DEF WheelInv
<1>2. CASE UNCHANGED <<light, last>>
  BY <1>2 DEF WheelInv
<1>3. ASSUME NEW p \in Space, SetPixel(p) PROVE WheelInv'
  <2>1. last' = [op |-> "pixel", p |-> p]
    BY <1>3 DEF SetPixel
  <2> QED
    BY <1>1, <2>1
<1>4. ASSUME NEW h \in 0..23, NEW s \in 0..2, NEW v \in 0..2, FillAll(h, s, v)
      PROVE  WheelInv'
  <2>1. /\ last' = [op |-> "fill", h |-> h, s |-> s, v |-> v]
        /\ light' = [px \in Pixels |-> fromHSV(h, s, v)]
    BY <1>4 DEF FillAll
  <2>2. last'.h = h /\ last'.s = s /\ last'.v = v
    BY <2>1
  <2> QED
    BY <2>1, <2>2 DEF WheelInv
<1>5. CASE Clear
  <2>1. last' = Nothing
    BY <1>5 DEF Clear
  <2> QED
    BY <1>1, <2>1 DEF Nothing
<1>6. CASE last' # Nothing /\ last'.op \notin {"pixel", "fill"}
  BY <1>1, <1>6
<1> QED
  BY <1>2, <1>3, <1>4, <1>5, <1>6, DrawnLast

\* Each channel of a hue has its share of the wheel, computed in one formula
\* instead of six sectors: full for a sixth either side of its own hue, none
\* around the opposite one (Color.cpp:54-100).
THEOREM HuesFollowWheel == Spec => []ColorWheel
<1>1. Init => WheelInv
  BY DEF Init, DrawingInit, WheelInv, Nothing
<1> QED
  BY <1>1, WheelInductive, WheelFits, PTL DEF Spec

-----------------------------------------------------------------------------
(* Smooth pixels.                                                           *)

\* A pixel is lit from one point only.
LEMMA PointOfPixel ==
  ASSUME NEW p \in Space, PixelOf(p) \in Pixels
  PROVE  LET px == PixelOf(p) IN getPointOnScreen(px[1], px[2], px[3]) = p
<1>1. PICK x \in 0..Max, y \in 0..Max, z \in 0..Max : p = <<x, y, z>>
  BY DEF Space
<1>2. N \in Nat \ {0} /\ Max = N + 1
  BY GeometryAssumption DEF Max
<1>3. \A s, i, j : <<s, i, j>> \in Pixels <=>
                     s \in Screens /\ i \in 0..N-1 /\ j \in 0..N-1
  BY DEF Pixels
<1>4. PixelOf(p) = PixelAt(x, y, z)
  BY <1>1 DEF PixelOf
<1> USE DEF PixelAt, getPointOnScreen, Point, Screens, front, right, back, left,
      top, bottom, anyScreen
<1>5. CASE y = 0
  <2>1. PixelOf(p) = <<front, x - 1, z - 1>>
    BY <1>2, <1>4, <1>5
  <2> QED
    BY <1>1, <1>2, <1>5, <2>1
<1>6. CASE y # 0 /\ x = Max
  <2>1. PixelOf(p) = <<right, y - 1, z - 1>>
    BY <1>2, <1>4, <1>6
  <2>2. getPointOnScreen(right, y - 1, z - 1) = <<Max, y, z>>
    <3>1. (y - 1) + 1 = y /\ (z - 1) + 1 = z
      OBVIOUS
    <3>2. getPointOnScreen(right, y - 1, z - 1) = <<Max, (y - 1) + 1, (z - 1) + 1>>
      OBVIOUS
    <3> QED
      BY <3>1, <3>2
  <2> QED
    BY <1>1, <1>6, <2>1, <2>2
<1>7. CASE y # 0 /\ x # Max /\ y = Max
  <2>1. PixelOf(p) = <<back, Max - x - 1, z - 1>>
    BY <1>2, <1>4, <1>7
  <2> QED
    BY <1>1, <1>2, <1>7, <2>1
<1>8. CASE y # 0 /\ x # Max /\ y # Max /\ x = 0
  <2>1. PixelOf(p) = <<left, Max - y - 1, z - 1>>
    BY <1>2, <1>4, <1>8
  <2> QED
    BY <1>1, <1>2, <1>8, <2>1
<1>9. CASE y # 0 /\ x # Max /\ y # Max /\ x # 0 /\ z = 0
  <2>1. PixelOf(p) = <<top, x - 1, Max - y - 1>>
    BY <1>2, <1>4, <1>9
  <2> QED
    BY <1>1, <1>2, <1>9, <2>1
<1>10. CASE y # 0 /\ x # Max /\ y # Max /\ x # 0 /\ z # 0 /\ z = Max
  <2>1. PixelOf(p) = <<bottom, x - 1, y - 1>>
    BY <1>2, <1>4, <1>10
  <2> QED
    BY <1>1, <1>2, <1>10, <2>1
<1>11. CASE y # 0 /\ x # Max /\ y # Max /\ x # 0 /\ z # 0 /\ z # Max
  BY <1>2, <1>3, <1>4, <1>11
<1> QED
  BY <1>5, <1>6, <1>7, <1>8, <1>9, <1>10, <1>11

LEMMA OnePointLights ==
  ASSUME NEW p \in Space, NEW r \in Space, PixelOf(p) \in Pixels, PixelOf(r) = PixelOf(p)
  PROVE  p = r
<1>1. LET px == PixelOf(p) IN getPointOnScreen(px[1], px[2], px[3]) = p
  BY PointOfPixel
<1>2. LET px == PixelOf(r) IN getPointOnScreen(px[1], px[2], px[3]) = r
  BY PointOfPixel
<1> QED
  BY <1>1, <1>2

\* The four corners beside a position on a plane across axis a, and the parts
\* of 64 they get.
Quad(a) ==
  IF a = 1 THEN <<<<0, 0, 0>>, <<0, 0, 1>>, <<0, 1, 0>>, <<0, 1, 1>>>>
  ELSE IF a = 2 THEN <<<<0, 0, 0>>, <<0, 0, 1>>, <<1, 0, 0>>, <<1, 0, 1>>>>
  ELSE <<<<0, 0, 0>>, <<0, 1, 0>>, <<1, 0, 0>>, <<1, 1, 0>>>>

Parts(q, c) ==
  LET r == Remainder(q)
  IN Weight(r[1], c[1]) * Weight(r[2], c[2]) * Weight(r[3], c[3])

Gets(q, a, i) == Parts(q, Quad(a)[i])

Beside(q, a) == {i \in 1..4 : Quad(a)[i] \in Corners(q)}

\* Position q is on a plane across axis a and away from the rim.
OnPlane(q, a) ==
  /\ q \in Int \X Int \X Int
  /\ a \in 1..3
  /\ q[a] \in {0, 4 * Max}
  /\ \A b \in (1..3) \ {a} : 4 <= q[b] /\ q[b] <= 4 * N

LEMMA RemainderOnPlane ==
  ASSUME NEW q, NEW a, OnPlane(q, a), NEW b \in 1..3
  PROVE  /\ q[b] \in Int /\ q[b] \div 4 \in Int
         /\ Remainder(q)[b] \in 0..3 /\ q[b] = 4 * (q[b] \div 4) + Remainder(q)[b]
         /\ b = a => Remainder(q)[b] = 0 /\ q[b] \div 4 \in {0, Max}
         /\ b # a => /\ 1 <= q[b] \div 4 /\ q[b] \div 4 <= N
                     /\ Remainder(q)[b] # 0 => q[b] \div 4 + 1 <= N
<1>1. N \in Nat \ {0} /\ Max = N + 1
  BY GeometryAssumption DEF Max
<1>2. q[b] \in Int /\ q[b] >= 0
  BY <1>1 DEF OnPlane
<1>3. Remainder(q)[b] = q[b] % 4
  BY <1>2 DEF Remainder
<1>4. ASSUME NEW x \in Int
      PROVE  x % 4 \in 0..3 /\ x = 4 * (x \div 4) + (x % 4) /\ x \div 4 \in Int
  OBVIOUS
<1>5. CASE b = a
  BY <1>1, <1>2, <1>3, <1>4, <1>5 DEF OnPlane
<1>6. CASE b # a
  <2>1. 4 <= q[b] /\ q[b] <= 4 * N
    BY <1>6 DEF OnPlane
  <2> QED
    BY <1>1, <1>2, <1>3, <1>4, <1>6, <2>1
<1> QED
  BY <1>5, <1>6

LEMMA CornersAreQuad ==
  ASSUME NEW q, NEW a, OnPlane(q, a), NEW c \in Corners(q)
  PROVE  \E i \in Beside(q, a) : c = Quad(a)[i]
<1>1. a \in 1..3 /\ Remainder(q)[a] = 0
  BY RemainderOnPlane DEF OnPlane
<1>2. PICK x \in {0, 1}, y \in {0, 1}, z \in {0, 1} : c = <<x, y, z>>
  BY DEF Corners
<1>3. c[a] = 0
  BY <1>1, <1>2 DEF Corners
<1>4. \E i \in 1..4 : c = Quad(a)[i]
  <2>1. CASE a = 1
    BY <1>2, <1>3, <2>1 DEF Quad
  <2>2. CASE a = 2
    BY <1>2, <1>3, <2>2 DEF Quad
  <2>3. CASE a = 3
    BY <1>2, <1>3, <2>3 DEF Quad
  <2> QED
    BY <1>1, <2>1, <2>2, <2>3
<1> QED
  BY <1>4 DEF Beside

LEMMA QuadType ==
  ASSUME NEW a \in 1..3, NEW i \in 1..4
  PROVE  /\ Quad(a)[i] \in {0, 1} \X {0, 1} \X {0, 1}
         /\ \A b \in 1..3 : Quad(a)[i][b] \in {0, 1}
         /\ Quad(a)[i][a] = 0
<1>1. CASE a = 1
  BY <1>1 DEF Quad
<1>2. CASE a = 2
  BY <1>2 DEF Quad
<1>3. CASE a = 3
  BY <1>3 DEF Quad
<1> QED
  BY <1>1, <1>2, <1>3

LEMMA CornerPoint ==
  ASSUME NEW q, NEW a, OnPlane(q, a), NEW i \in Beside(q, a)
  PROVE  LET p == CornerAt(q, Quad(a)[i])
         IN /\ p \in Space /\ PixelOf(p) \in Pixels
            /\ Lit(p) = {PixelOf(p)}
            /\ \A b \in 1..3 : p[b] = q[b] \div 4 + Quad(a)[i][b]
<1> DEFINE c == Quad(a)[i]
           p == CornerAt(q, c)
<1>1. a \in 1..3 /\ i \in 1..4 /\ c \in Corners(q)
  BY DEF OnPlane, Beside
<1>2. p = <<q[1] \div 4 + c[1], q[2] \div 4 + c[2], q[3] \div 4 + c[3]>>
  BY DEF CornerAt, Point
<1>3. \A b \in 1..3 : p[b] = q[b] \div 4 + c[b]
  BY <1>2
<1>4. N \in Nat \ {0} /\ Max = N + 1
  BY GeometryAssumption DEF Max
<1>5. ASSUME NEW b \in 1..3
      PROVE  /\ p[b] \in 0..Max
             /\ b = a => p[b] \in {0, Max}
             /\ b # a => p[b] \notin {0, Max}
  <2>1. c[b] \in {0, 1} /\ (c[b] = 1 => Remainder(q)[b] # 0)
    BY <1>1, QuadType DEF Corners
  <2>2. p[b] = q[b] \div 4 + c[b]
    BY <1>3
  <2>3. CASE b = a
    <3>1. c[b] = 0 /\ q[b] \div 4 \in {0, Max}
      BY <1>1, <2>3, QuadType, RemainderOnPlane
    <3> HIDE DEF p, c
    <3> QED
      BY <1>4, <2>2, <2>3, <3>1
  <2>4. CASE b # a
    <3>1. /\ q[b] \div 4 \in Int /\ 1 <= q[b] \div 4 /\ q[b] \div 4 <= N
          /\ Remainder(q)[b] # 0 => q[b] \div 4 + 1 <= N
      BY <2>4, RemainderOnPlane
    <3> HIDE DEF p, c
    <3> QED
      BY <1>4, <2>1, <2>2, <2>4, <3>1
  <2> QED
    BY <2>3, <2>4
<1>6. p \in Space
  BY <1>2, <1>5 DEF Space
<1>7. Planes(p) = {a}
  BY <1>1, <1>5 DEF Planes
<1>8. PixelOf(p) \in Pixels
  BY <1>1, <1>6, <1>7, PixelOfOnePlane
<1>9. Lit(p) = {PixelOf(p)}
  BY <1>6, <1>8, LightsItsPixel
<1> QED
  BY <1>3, <1>6, <1>8, <1>9

LEMMA CornersApart ==
  ASSUME NEW q, NEW a, OnPlane(q, a), NEW i \in Beside(q, a), NEW j \in Beside(q, a),
         CornerAt(q, Quad(a)[i]) = CornerAt(q, Quad(a)[j])
  PROVE  i = j
<1>1. a \in 1..3 /\ i \in 1..4 /\ j \in 1..4
  BY DEF OnPlane, Beside
<1>2. ASSUME NEW b \in 1..3 PROVE Quad(a)[i][b] = Quad(a)[j][b]
  <2>1. q[b] \div 4 + Quad(a)[i][b] = q[b] \div 4 + Quad(a)[j][b]
    <3>1. CornerAt(q, Quad(a)[i])[b] = q[b] \div 4 + Quad(a)[i][b]
      BY CornerPoint
    <3>2. CornerAt(q, Quad(a)[j])[b] = q[b] \div 4 + Quad(a)[j][b]
      BY CornerPoint
    <3> QED
      BY <3>1, <3>2
  <2>2. q[b] \div 4 \in Int /\ Quad(a)[i][b] \in Int /\ Quad(a)[j][b] \in Int
    BY <1>1, QuadType, RemainderOnPlane
  <2>3. PICK x \in Int : x = q[b] \div 4
    BY <2>2
  <2>4. PICK y \in Int : y = Quad(a)[i][b]
    BY <2>2
  <2>5. PICK z \in Int : z = Quad(a)[j][b]
    BY <2>2
  <2>6. x + y = x + z
    BY <2>1, <2>3, <2>4, <2>5
  <2>7. y = z
    BY <2>6
  <2> QED
    BY <2>4, <2>5, <2>7
<1>3. CASE a = 1
  BY <1>1, <1>2, <1>3 DEF Quad
<1>4. CASE a = 2
  BY <1>1, <1>2, <1>4 DEF Quad
<1>5. CASE a = 3
  BY <1>1, <1>2, <1>5 DEF Quad
<1> QED
  BY <1>1, <1>3, <1>4, <1>5

\* The two axes along a plane across axis a, and how far corner i is along them.
Others(a) == IF a = 1 THEN <<2, 3>> ELSE IF a = 2 THEN <<1, 3>> ELSE <<1, 2>>

SecondStep(i) == IF i \in {2, 4} THEN 1 ELSE 0
FirstStep(i) == IF i > 2 THEN 1 ELSE 0

LEMMA OthersType ==
  ASSUME NEW a \in 1..3
  PROVE  /\ Others(a)[1] \in 1..3 /\ Others(a)[2] \in 1..3
         /\ Others(a)[1] # a /\ Others(a)[2] # a /\ Others(a)[1] # Others(a)[2]
         /\ \A i \in 1..4 : /\ Quad(a)[i][Others(a)[1]] = FirstStep(i)
                            /\ Quad(a)[i][Others(a)[2]] = SecondStep(i)
<1>1. CASE a = 1
  BY <1>1 DEF Others, Quad, FirstStep, SecondStep
<1>2. CASE a = 2
  BY <1>2 DEF Others, Quad, FirstStep, SecondStep
<1>3. CASE a = 3
  BY <1>3 DEF Others, Quad, FirstStep, SecondStep
<1> QED
  BY <1>1, <1>2, <1>3

LEMMA GetsAre ==
  ASSUME NEW q, NEW a, OnPlane(q, a), NEW i \in 1..4
  PROVE  LET r == Remainder(q)[Others(a)[1]]
             s == Remainder(q)[Others(a)[2]]
         IN Gets(q, a, i) = 4 * (Weight(r, FirstStep(i)) * Weight(s, SecondStep(i)))
<1>1. a \in 1..3 /\ Others(a)[1] \in 1..3 /\ Others(a)[2] \in 1..3
  BY OthersType DEF OnPlane
<1>2. PICK r \in 0..3, s \in 0..3 :
        r = Remainder(q)[Others(a)[1]] /\ s = Remainder(q)[Others(a)[2]]
  BY <1>1, RemainderOnPlane
<1>3. PICK u \in Int, v \in Int : u = Weight(r, FirstStep(i)) /\ v = Weight(s, SecondStep(i))
  BY <1>2 DEF Weight, FirstStep, SecondStep
<1>4. Weight(Remainder(q)[a], Quad(a)[i][a]) = 4
  BY <1>1, QuadType, RemainderOnPlane DEF Weight
<1>5. /\ Weight(Remainder(q)[Others(a)[1]], Quad(a)[i][Others(a)[1]]) = u
      /\ Weight(Remainder(q)[Others(a)[2]], Quad(a)[i][Others(a)[2]]) = v
  BY <1>1, <1>2, <1>3, OthersType
<1> DEFINE w(b) == Weight(Remainder(q)[b], Quad(a)[i][b])
<1>6. Gets(q, a, i) = w(1) * w(2) * w(3)
  BY DEF Gets, Parts
<1>7. w(a) = 4 /\ w(Others(a)[1]) = u /\ w(Others(a)[2]) = v
  BY <1>4, <1>5
<1> HIDE DEF w
<1>8. Gets(q, a, i) = 4 * (u * v)
  <2>1. CASE a = 1
    <3>1. w(1) = 4 /\ w(2) = u /\ w(3) = v
      BY <1>7, <2>1 DEF Others
    <3> QED
      BY <1>6, <3>1
  <2>2. CASE a = 2
    <3>1. w(1) = u /\ w(2) = 4 /\ w(3) = v
      BY <1>7, <2>2 DEF Others
    <3> QED
      BY <1>6, <3>1
  <2>3. CASE a = 3
    <3>1. w(1) = u /\ w(2) = v /\ w(3) = 4
      BY <1>7, <2>3 DEF Others
    <3> QED
      BY <1>6, <3>1
  <2> QED
    BY <1>1, <2>1, <2>2, <2>3
<1> QED
  BY <1>2, <1>3, <1>8

LEMMA GetsType ==
  ASSUME NEW q, NEW a, OnPlane(q, a)
  PROVE  /\ \A i \in 1..4 : Gets(q, a, i) \in 0..64
         /\ Gets(q, a, 1) + Gets(q, a, 2) + Gets(q, a, 3) + Gets(q, a, 4) = 64
<1>1. a \in 1..3 /\ Others(a)[1] \in 1..3 /\ Others(a)[2] \in 1..3
  BY OthersType DEF OnPlane
<1>2. PICK r \in 0..3, s \in 0..3 :
        r = Remainder(q)[Others(a)[1]] /\ s = Remainder(q)[Others(a)[2]]
  BY <1>1, RemainderOnPlane
<1>3. ASSUME NEW i \in 1..4
      PROVE  Gets(q, a, i) = 4 * (Weight(r, FirstStep(i)) * Weight(s, SecondStep(i)))
  BY <1>2, GetsAre
<1>4. /\ Gets(q, a, 1) = 4 * ((4 - r) * (4 - s))
      /\ Gets(q, a, 2) = 4 * ((4 - r) * s)
      /\ Gets(q, a, 3) = 4 * (r * (4 - s))
      /\ Gets(q, a, 4) = 4 * (r * s)
  BY <1>3 DEF Weight, FirstStep, SecondStep
<1>5. r \in {0, 1, 2, 3} /\ s \in {0, 1, 2, 3}
  OBVIOUS
<1>6. /\ 4 * ((4 - r) * (4 - s)) \in 0..64 /\ 4 * ((4 - r) * s) \in 0..64
      /\ 4 * (r * (4 - s)) \in 0..64 /\ 4 * (r * s) \in 0..64
      /\ 4 * ((4 - r) * (4 - s)) + 4 * ((4 - r) * s) + 4 * (r * (4 - s)) + 4 * (r * s) = 64
  <2>1. CASE r = 0
    BY <1>5, <2>1
  <2>2. CASE r = 1
    BY <1>5, <2>2
  <2>3. CASE r = 2
    BY <1>5, <2>3
  <2>4. CASE r = 3
    BY <1>5, <2>4
  <2> QED
    BY <1>5, <2>1, <2>2, <2>3, <2>4
<1>7. ASSUME NEW i \in 1..4 PROVE Gets(q, a, i) \in 0..64
  <2>1. i \in {1, 2, 3, 4}
    OBVIOUS
  <2> QED
    BY <1>4, <1>6, <2>1
<1> QED
  BY <1>4, <1>6, <1>7

\* A neighbour that is left out would get nothing.
LEMMA GetsNothing ==
  ASSUME NEW q, NEW a, OnPlane(q, a), NEW i \in 1..4, i \notin Beside(q, a)
  PROVE  Gets(q, a, i) = 0
<1>1. a \in 1..3 /\ Others(a)[1] \in 1..3 /\ Others(a)[2] \in 1..3
  BY OthersType DEF OnPlane
<1>2. PICK r \in 0..3, s \in 0..3 :
        r = Remainder(q)[Others(a)[1]] /\ s = Remainder(q)[Others(a)[2]]
  BY <1>1, RemainderOnPlane
<1>3. Gets(q, a, i) = 4 * (Weight(r, FirstStep(i)) * Weight(s, SecondStep(i)))
  BY <1>2, GetsAre
<1>4. PICK b \in 1..3 : Quad(a)[i][b] = 1 /\ Remainder(q)[b] = 0
  BY <1>1, QuadType DEF Beside, Corners
<1>5. b # a
  BY <1>1, <1>4, QuadType
<1>6. b = Others(a)[1] \/ b = Others(a)[2]
  BY <1>1, <1>5, OthersType
<1>7. (FirstStep(i) = 1 /\ r = 0) \/ (SecondStep(i) = 1 /\ s = 0)
  BY <1>1, <1>2, <1>4, <1>6, OthersType
<1>8. PICK u \in Int, v \in Int : u = Weight(r, FirstStep(i)) /\ v = Weight(s, SecondStep(i))
  BY <1>2 DEF Weight, FirstStep, SecondStep
<1>9. u = 0 \/ v = 0
  BY <1>7, <1>8 DEF Weight
<1> QED
  BY <1>3, <1>8, <1>9

\* How far corner c is along an axis where r quarters are left, and a point from
\* position q.
Apart(r, c) == IF c = 0 THEN r ELSE 4 - r

Distance(p, q) ==
  Abs(4 * p[1] - q[1]) + Abs(4 * p[2] - q[2]) + Abs(4 * p[3] - q[3])

LEMMA DistancesAre ==
  ASSUME NEW q, NEW a, OnPlane(q, a), NEW i \in Beside(q, a)
  PROVE  LET r == Remainder(q)[Others(a)[1]]
             s == Remainder(q)[Others(a)[2]]
         IN Distance(CornerAt(q, Quad(a)[i]), q)
              = Apart(r, FirstStep(i)) + Apart(s, SecondStep(i))
<1> DEFINE p == CornerAt(q, Quad(a)[i])
           d(b) == Abs(4 * p[b] - q[b])
<1>1. /\ a \in 1..3 /\ i \in 1..4
      /\ Others(a)[1] \in 1..3 /\ Others(a)[2] \in 1..3
  BY OthersType DEF OnPlane, Beside
<1>2. ASSUME NEW b \in 1..3
      PROVE  d(b) = Apart(Remainder(q)[b], Quad(a)[i][b])
  <2>1. p[b] = q[b] \div 4 + Quad(a)[i][b]
    BY CornerPoint
  <2>2. PICK c \in {0, 1}, r \in 0..3, x \in Int :
          /\ c = Quad(a)[i][b] /\ r = Remainder(q)[b]
          /\ x = q[b] \div 4 /\ q[b] = 4 * x + r
    <3>1. Quad(a)[i][b] \in {0, 1}
      BY <1>1, QuadType
    <3>2. /\ Remainder(q)[b] \in 0..3 /\ q[b] \div 4 \in Int
          /\ q[b] = 4 * (q[b] \div 4) + Remainder(q)[b]
      BY RemainderOnPlane
    <3> QED
      BY <3>1, <3>2
  <2>3. p[b] = x + c
    BY <2>1, <2>2
  <2>4. d(b) = Abs(4 * (x + c) - (4 * x + r))
    BY <2>2, <2>3
  <2>5. Abs(4 * (x + c) - (4 * x + r)) = Apart(r, c)
    <3>1. 4 * (x + c) - (4 * x + r) = 4 * c - r
      OBVIOUS
    <3> QED
      BY <3>1 DEF Abs, Apart
  <2> QED
    BY <2>2, <2>4, <2>5
<1>3. d(a) = 0
  <2>1. Remainder(q)[a] = 0 /\ Quad(a)[i][a] = 0
    BY <1>1, QuadType, RemainderOnPlane
  <2> QED
    BY <1>1, <1>2, <2>1 DEF Apart
<1>4. PICK u \in Int, v \in Int :
        /\ u = Apart(Remainder(q)[Others(a)[1]], FirstStep(i))
        /\ v = Apart(Remainder(q)[Others(a)[2]], SecondStep(i))
  <2>1. PICK r \in 0..3, s \in 0..3 :
          r = Remainder(q)[Others(a)[1]] /\ s = Remainder(q)[Others(a)[2]]
    BY <1>1, RemainderOnPlane
  <2>2. Apart(r, FirstStep(i)) \in Int /\ Apart(s, SecondStep(i)) \in Int
    BY DEF Apart
  <2> QED
    BY <2>1, <2>2
<1>5. d(Others(a)[1]) = u /\ d(Others(a)[2]) = v
  BY <1>1, <1>2, <1>4, OthersType
<1>6. Distance(p, q) = d(1) + d(2) + d(3)
  BY DEF Distance
<1> HIDE DEF d
<1>7. d(1) + d(2) + d(3) = u + v
  <2>1. CASE a = 1
    <3>1. d(1) = 0 /\ d(2) = u /\ d(3) = v
      BY <1>3, <1>5, <2>1 DEF Others
    <3> QED
      BY <3>1
  <2>2. CASE a = 2
    <3>1. d(1) = u /\ d(2) = 0 /\ d(3) = v
      BY <1>3, <1>5, <2>2 DEF Others
    <3> QED
      BY <3>1
  <2>3. CASE a = 3
    <3>1. d(1) = u /\ d(2) = v /\ d(3) = 0
      BY <1>3, <1>5, <2>3 DEF Others
    <3> QED
      BY <3>1
  <2> QED
    BY <1>1, <2>1, <2>2, <2>3
<1> QED
  BY <1>4, <1>6, <1>7

LEMMA NearerWeighsMore ==
  ASSUME NEW r \in 0..3, NEW s \in 0..3,
         NEW c \in {0, 1}, NEW d \in {0, 1}, NEW e \in {0, 1}, NEW f \in {0, 1},
         c = 1 => r # 0, d = 1 => s # 0, e = 1 => r # 0, f = 1 => s # 0,
         Apart(r, c) + Apart(s, d) <= Apart(r, e) + Apart(s, f)
  PROVE  Weight(r, c) * Weight(s, d) >= Weight(r, e) * Weight(s, f)
<1> USE DEF Apart, Weight
<1>1. s \in {0, 1, 2, 3} /\ r \in {0, 1, 2, 3}
  OBVIOUS
<1>2. CASE r = 0
  BY <1>1, <1>2
<1>3. CASE r = 1
  <2>1. CASE s = 0
    BY <1>3, <2>1
  <2>2. CASE s = 1
    BY <1>3, <2>2
  <2>3. CASE s = 2
    BY <1>3, <2>3
  <2>4. CASE s = 3
    BY <1>3, <2>4
  <2> QED
    BY <1>1, <2>1, <2>2, <2>3, <2>4
<1>4. CASE r = 2
  BY <1>1, <1>4
<1>5. CASE r = 3
  <2>1. CASE s = 0
    BY <1>5, <2>1
  <2>2. CASE s = 1
    BY <1>5, <2>2
  <2>3. CASE s = 2
    BY <1>5, <2>3
  <2>4. CASE s = 3
    BY <1>5, <2>4
  <2> QED
    BY <1>1, <2>1, <2>2, <2>3, <2>4
<1> QED
  BY <1>1, <1>2, <1>3, <1>4, <1>5

LEMMA NearerGetsMore ==
  ASSUME NEW q, NEW a, OnPlane(q, a), NEW i \in Beside(q, a), NEW j \in Beside(q, a),
         Distance(CornerAt(q, Quad(a)[i]), q) <= Distance(CornerAt(q, Quad(a)[j]), q)
  PROVE  Gets(q, a, i) >= Gets(q, a, j)
<1>1. a \in 1..3 /\ i \in 1..4 /\ j \in 1..4
      /\ Others(a)[1] \in 1..3 /\ Others(a)[2] \in 1..3
  BY OthersType DEF OnPlane, Beside
<1>2. PICK r \in 0..3, s \in 0..3 :
        r = Remainder(q)[Others(a)[1]] /\ s = Remainder(q)[Others(a)[2]]
  BY <1>1, RemainderOnPlane
<1>3. ASSUME NEW k \in Beside(q, a)
      PROVE  /\ (FirstStep(k) = 1 => r # 0) /\ (SecondStep(k) = 1 => s # 0)
             /\ Gets(q, a, k) = 4 * (Weight(r, FirstStep(k)) * Weight(s, SecondStep(k)))
             /\ Distance(CornerAt(q, Quad(a)[k]), q)
                  = Apart(r, FirstStep(k)) + Apart(s, SecondStep(k))
  <2>1. k \in 1..4 /\ Quad(a)[k] \in Corners(q)
    BY DEF Beside
  <2>2. FirstStep(k) = 1 => r # 0
    BY <1>1, <1>2, <2>1, OthersType DEF Corners
  <2>3. SecondStep(k) = 1 => s # 0
    BY <1>1, <1>2, <2>1, OthersType DEF Corners
  <2> QED
    BY <1>2, <2>1, <2>2, <2>3, GetsAre, DistancesAre
<1>4. \A k : FirstStep(k) \in {0, 1} /\ SecondStep(k) \in {0, 1}
  BY DEF FirstStep, SecondStep
<1>5. Weight(r, FirstStep(i)) * Weight(s, SecondStep(i))
        >= Weight(r, FirstStep(j)) * Weight(s, SecondStep(j))
  <2>1. Apart(r, FirstStep(i)) + Apart(s, SecondStep(i))
          <= Apart(r, FirstStep(j)) + Apart(s, SecondStep(j))
    BY <1>3
  <2> QED
    BY <1>3, <1>4, <2>1, NearerWeighsMore
<1>6. PICK m \in Int, n \in Int :
        /\ m = Weight(r, FirstStep(i)) * Weight(s, SecondStep(i))
        /\ n = Weight(r, FirstStep(j)) * Weight(s, SecondStep(j))
  BY DEF Weight, FirstStep, SecondStep
<1>7. Gets(q, a, i) = 4 * m /\ Gets(q, a, j) = 4 * n
  BY <1>3, <1>6
<1> QED
  BY <1>5, <1>6, <1>7

\* Where no corner lights a pixel it keeps its colour, where one does the part
\* of that corner is added.
LEMMA SmoothedOff ==
  ASSUME NEW screens, NEW q, NEW col, NEW px \in Pixels,
         {c \in Corners(q) : px \in Lit(CornerAt(q, c))} = {}
  PROVE  Smoothed(screens, q, col)[px] = screens[px]
<1> DEFINE C == {c \in Corners(q) : px \in Lit(CornerAt(q, c))}
           Fold(g) == [s \in SUBSET C |->
                         IF s = {} THEN screens[px]
                         ELSE LET x == CHOOSE c \in s : TRUE
                              IN Plus(CornerPart(q, col, x), g[s \ {x}])]
           iter == CHOOSE g : g = Fold(g)
           sum == [s \in SUBSET C |-> screens[px]]
<1>1. Smoothed(screens, q, col)[px] = iter[C]
  BY DEF Smoothed, MapThenFoldSet
<1>2. C = {}
  OBVIOUS
<1>3. sum = Fold(sum)
  <2> HIDE DEF C
  <2> QED
    BY <1>2
<1>4. iter = Fold(iter)
  BY <1>3
<1>5. C \in SUBSET C
  OBVIOUS
<1> HIDE DEF iter, C
<1>6. iter[C] = Fold(iter)[C]
  BY <1>4
<1>7. Fold(iter)[C] = screens[px]
  BY <1>2
<1> QED
  BY <1>1, <1>6, <1>7

LEMMA SmoothedOn ==
  ASSUME NEW screens, NEW q, NEW col, NEW px \in Pixels, NEW d,
         {c \in Corners(q) : px \in Lit(CornerAt(q, c))} = {d}
  PROVE  Smoothed(screens, q, col)[px] = Plus(CornerPart(q, col, d), screens[px])
<1> DEFINE C == {c \in Corners(q) : px \in Lit(CornerAt(q, c))}
           Fold(g) == [s \in SUBSET C |->
                         IF s = {} THEN screens[px]
                         ELSE LET x == CHOOSE c \in s : TRUE
                              IN Plus(CornerPart(q, col, x), g[s \ {x}])]
           iter == CHOOSE g : g = Fold(g)
           sum == [s \in SUBSET C |->
                     IF s = {} THEN screens[px]
                     ELSE Plus(CornerPart(q, col, d), screens[px])]
<1>1. Smoothed(screens, q, col)[px] = iter[C]
  BY DEF Smoothed, MapThenFoldSet
<1>2. C = {d}
  OBVIOUS
<1> HIDE DEF C
<1>3. ASSUME NEW s \in SUBSET C, s # {}
      PROVE  (CHOOSE c \in s : TRUE) = d /\ s \ {d} = {} /\ s \ {d} \in SUBSET C
  BY <1>2, <1>3
<1>4. sum = Fold(sum)
  <2>1. ASSUME NEW s \in SUBSET C PROVE sum[s] = Fold(sum)[s]
    <3>1. CASE s = {}
      BY <3>1
    <3>2. CASE s # {}
      <4>1. sum[s \ {d}] = screens[px]
        BY <1>3, <3>2
      <4>2. Fold(sum)[s] = Plus(CornerPart(q, col, d), sum[s \ {d}])
        <5> HIDE DEF sum
        <5> QED
          BY <1>3, <3>2
      <4> QED
        BY <3>2, <4>1, <4>2
    <3> QED
      BY <3>1, <3>2
  <2>2. DOMAIN sum = SUBSET C /\ sum = [s \in SUBSET C |-> sum[s]]
    OBVIOUS
  <2>3. Fold(sum) = [s \in SUBSET C |-> Fold(sum)[s]]
    OBVIOUS
  <2> HIDE DEF sum, Fold
  <2> QED
    BY <2>1, <2>2, <2>3
<1>5. iter = Fold(iter)
  <2> HIDE DEF Fold, sum
  <2> QED
    BY <1>4
<1> HIDE DEF iter
<1>6. iter[C] = Fold(iter)[C] /\ iter[{}] = Fold(iter)[{}]
  <2> HIDE DEF Fold
  <2> QED
    BY <1>5
<1>7. Fold(iter)[{}] = screens[px]
  OBVIOUS
<1>8. Fold(iter)[C] = Plus(CornerPart(q, col, d), iter[{}])
  <2>1. C \in SUBSET C /\ C # {} /\ C \ {d} = {}
    BY <1>2
  <2> QED
    BY <1>3, <2>1
<1> QED
  BY <1>1, <1>6, <1>7, <1>8

LEMMA TotalIs ==
  ASSUME NEW ch
  PROVE  Total(ch) =
           LET iter == CHOOSE g : g = [s \in SUBSET LitPixels |->
                         IF s = {} THEN 0
                         ELSE LET x == CHOOSE px \in s : TRUE
                              IN light[x][ch] + g[s \ {x}]]
           IN iter[LitPixels]
  BY DEF Total, MapThenFoldSet

\* The brightness of pixel P[i] if it is one of those in s.
LitShare(P, J, ch, i, s) ==
  IF i \in J /\ P[i] \in s THEN light[P[i]][ch] ELSE 0

LitShares(P, J, ch, s) ==
  LitShare(P, J, ch, 1, s) + LitShare(P, J, ch, 2, s)
    + LitShare(P, J, ch, 3, s) + LitShare(P, J, ch, 4, s)

\* Which of them are in s, counted.
InCount(P, J, i, s) == IF i \in J /\ P[i] \in s THEN 1 ELSE 0

InCounts(P, J, s) ==
  InCount(P, J, 1, s) + InCount(P, J, 2, s) + InCount(P, J, 3, s) + InCount(P, J, 4, s)

\* At most the pixels P[i], i \in J, are lit.
LitAmong(P, J, ch) ==
  /\ J \subseteq 1..4
  /\ \A i, j \in J : P[i] = P[j] => i = j
  /\ \A px \in LitPixels : \E i \in J : px = P[i]
  /\ \A i \in J : P[i] \in Pixels /\ light[P[i]][ch] \in Nat

LEMMA ShareTaken ==
  ASSUME NEW P, NEW J, NEW ch, LitAmong(P, J, ch),
         NEW s \in SUBSET LitPixels, NEW px \in s
  PROVE  /\ LitShares(P, J, ch, s) = light[px][ch] + LitShares(P, J, ch, s \ {px})
         /\ InCounts(P, J, s) = 1 + InCounts(P, J, s \ {px})
         /\ LitShares(P, J, ch, s) \in Nat /\ InCounts(P, J, s) \in Nat
         /\ InCounts(P, J, s \ {px}) \in Nat
<1> DEFINE t == s \ {px}
           f(i) == LitShare(P, J, ch, i, s)
           g(i) == LitShare(P, J, ch, i, t)
           m(i) == InCount(P, J, i, s)
           n(i) == InCount(P, J, i, t)
<1>1. PICK j \in J : px = P[j]
  BY DEF LitAmong
<1>2. j \in 1..4 /\ light[px][ch] \in Nat
  BY <1>1 DEF LitAmong
<1>3. ASSUME NEW i \in 1..4
      PROVE  f(i) \in Nat /\ g(i) \in Nat /\ m(i) \in Nat /\ n(i) \in Nat
  BY DEF LitShare, InCount, LitAmong
<1>4. ASSUME NEW i \in 1..4, i # j
      PROVE  f(i) = g(i) /\ m(i) = n(i)
  <2>1. i \in J => P[i] # px
    BY <1>1, <1>4 DEF LitAmong
  <2> QED
    BY <2>1 DEF LitShare, InCount
<1>5. f(j) = light[px][ch] /\ g(j) = 0 /\ m(j) = 1 /\ n(j) = 0
  BY <1>1 DEF LitShare, InCount
<1>6. /\ LitShares(P, J, ch, s) = f(1) + f(2) + f(3) + f(4)
      /\ LitShares(P, J, ch, t) = g(1) + g(2) + g(3) + g(4)
      /\ InCounts(P, J, s) = m(1) + m(2) + m(3) + m(4)
      /\ InCounts(P, J, t) = n(1) + n(2) + n(3) + n(4)
  BY DEF LitShares, InCounts
<1> HIDE DEF f, g, m, n, t
<1>7. j = 1 \/ j = 2 \/ j = 3 \/ j = 4
  BY <1>2
<1>8. PICK x \in Nat : x = light[px][ch]
  BY <1>2
<1>9. /\ f(1) + f(2) + f(3) + f(4) = x + (g(1) + g(2) + g(3) + g(4))
      /\ m(1) + m(2) + m(3) + m(4) = 1 + (n(1) + n(2) + n(3) + n(4))
  BY <1>3, <1>4, <1>5, <1>7, <1>8
<1>10. /\ f(1) + f(2) + f(3) + f(4) \in Nat /\ m(1) + m(2) + m(3) + m(4) \in Nat
       /\ n(1) + n(2) + n(3) + n(4) \in Nat
  BY <1>3
<1> QED
  BY <1>6, <1>8, <1>9, <1>10 DEF t

\* The lit pixels among P[1] to P[4] are as bright together as these four.
LEMMA TotalOfFour ==
  ASSUME NEW P, NEW J, NEW ch, LitAmong(P, J, ch)
  PROVE  Total(ch) = LitShares(P, J, ch, LitPixels)
<1> DEFINE Fold(g) == [s \in SUBSET LitPixels |->
                         IF s = {} THEN 0
                         ELSE LET x == CHOOSE px \in s : TRUE
                              IN light[x][ch] + g[s \ {x}]]
           iter == CHOOSE g : g = Fold(g)
           sum == [s \in SUBSET LitPixels |-> LitShares(P, J, ch, s)]
<1>1. Total(ch) = iter[LitPixels]
  BY TotalIs
<1>2. LitShares(P, J, ch, {}) = 0
  BY DEF LitShares, LitShare
<1>3. ASSUME NEW s \in SUBSET LitPixels, s # {}
      PROVE  LET x == CHOOSE px \in s : TRUE
             IN /\ x \in s /\ s \ {x} \in SUBSET LitPixels
                /\ LitShares(P, J, ch, s) = light[x][ch] + LitShares(P, J, ch, s \ {x})
                /\ InCounts(P, J, s) = 1 + InCounts(P, J, s \ {x})
                /\ InCounts(P, J, s) \in Nat /\ InCounts(P, J, s \ {x}) \in Nat
  <2> DEFINE x == CHOOSE px \in s : TRUE
  <2>1. x \in s
    BY <1>3
  <2> HIDE DEF x
  <2>2. s \ {x} \in SUBSET LitPixels
    OBVIOUS
  <2>3. /\ LitShares(P, J, ch, s) = light[x][ch] + LitShares(P, J, ch, s \ {x})
        /\ InCounts(P, J, s) = 1 + InCounts(P, J, s \ {x})
        /\ InCounts(P, J, s) \in Nat /\ InCounts(P, J, s \ {x}) \in Nat
    <3>1. LitAmong(P, J, ch)
      OBVIOUS
    <3>2. PICK y \in s : y = x
      BY <2>1
    <3>3. /\ LitShares(P, J, ch, s) = light[y][ch] + LitShares(P, J, ch, s \ {y})
          /\ InCounts(P, J, s) = 1 + InCounts(P, J, s \ {y})
          /\ InCounts(P, J, s) \in Nat /\ InCounts(P, J, s \ {y}) \in Nat
      BY <3>1, ShareTaken
    <3> QED
      BY <3>2, <3>3
  <2> QED
    BY <2>1, <2>2, <2>3 DEF x
<1>4. sum = Fold(sum)
  <2>1. ASSUME NEW s \in SUBSET LitPixels PROVE sum[s] = Fold(sum)[s]
    <3>1. CASE s = {}
      BY <1>2, <3>1
    <3>2. CASE s # {}
      <4> DEFINE x == CHOOSE px \in s : TRUE
      <4>1. LitShares(P, J, ch, s) = light[x][ch] + LitShares(P, J, ch, s \ {x})
        BY <1>3, <3>2
      <4>2. Fold(sum)[s] = light[x][ch] + sum[s \ {x}]
        <5> HIDE DEF sum
        <5> QED
          BY <3>2
      <4>3. sum[s \ {x}] = LitShares(P, J, ch, s \ {x})
        <5>1. s \ {x} \in SUBSET LitPixels
          OBVIOUS
        <5> HIDE DEF x
        <5> QED
          BY <5>1
      <4>4. sum[s] = LitShares(P, J, ch, s)
        OBVIOUS
      <4> HIDE DEF x, sum, Fold
      <4> QED
        BY <4>1, <4>2, <4>3, <4>4
    <3> QED
      BY <3>1, <3>2
  <2>2. DOMAIN sum = SUBSET LitPixels /\ sum = [s \in SUBSET LitPixels |-> sum[s]]
    OBVIOUS
  <2>3. Fold(sum) = [s \in SUBSET LitPixels |-> Fold(sum)[s]]
    OBVIOUS
  <2> HIDE DEF sum, Fold
  <2> QED
    BY <2>1, <2>2, <2>3
<1>5. iter = Fold(iter)
  <2> HIDE DEF Fold, sum
  <2> QED
    BY <1>4
<1> HIDE DEF iter, sum
<1> DEFINE Wrong == {s \in SUBSET LitPixels : iter[s] # LitShares(P, J, ch, s)}
           Counts == {InCounts(P, J, s) : s \in Wrong}
<1>6. {} \notin Wrong
  <2>1. iter[{}] = Fold(iter)[{}]
    <3> HIDE DEF Fold
    <3> QED
      BY <1>5
  <2>2. Fold(iter)[{}] = 0
    OBVIOUS
  <2> QED
    BY <1>2, <2>1, <2>2
<1>7. ASSUME NEW s \in Wrong
      PROVE  \E t \in Wrong : /\ InCounts(P, J, s) = 1 + InCounts(P, J, t)
                              /\ InCounts(P, J, s) \in Nat /\ InCounts(P, J, t) \in Nat
  <2>1. s \in SUBSET LitPixels /\ s # {}
    BY <1>6
  <2> DEFINE x == CHOOSE px \in s : TRUE
             t == s \ {x}
  <2>2. iter[s] = light[x][ch] + iter[t]
    <3>1. iter[s] = Fold(iter)[s]
      <4> HIDE DEF Fold
      <4> QED
        BY <1>5
    <3>2. Fold(iter)[s] = light[x][ch] + iter[t]
      BY <2>1
    <3> QED
      BY <3>1, <3>2
  <2>3. /\ x \in s /\ t \in SUBSET LitPixels
        /\ LitShares(P, J, ch, s) = light[x][ch] + LitShares(P, J, ch, t)
        /\ InCounts(P, J, s) = 1 + InCounts(P, J, t)
        /\ InCounts(P, J, s) \in Nat /\ InCounts(P, J, t) \in Nat
    BY <1>3, <2>1
  <2> HIDE DEF x, t
  <2>4. iter[t] # LitShares(P, J, ch, t)
    <3>1. iter[s] # LitShares(P, J, ch, s)
      OBVIOUS
    <3> QED
      BY <2>2, <2>3, <3>1
  <2> QED
    BY <2>3, <2>4
<1>8. Wrong = {}
  <2> SUFFICES ASSUME Wrong # {} PROVE FALSE
    OBVIOUS
  <2> HIDE DEF Wrong
  <2>1. Counts \in SUBSET Nat
    BY <1>7
  <2>2. Counts # {}
    OBVIOUS
  <2>3. PICK k \in Counts : \A j \in Counts : k <= j
    BY <2>1, <2>2, LeastExists
  <2>4. PICK s \in Wrong : k = InCounts(P, J, s)
    OBVIOUS
  <2>5. PICK t \in Wrong : InCounts(P, J, s) = 1 + InCounts(P, J, t) /\ InCounts(P, J, t) \in Nat
    BY <1>7
  <2>6. InCounts(P, J, t) \in Counts
    OBVIOUS
  <2> HIDE DEF Counts
  <2>7. k <= InCounts(P, J, t)
    BY <2>3, <2>6
  <2> QED
    BY <2>4, <2>5, <2>7
<1> QED
  BY <1>1, <1>8

\* A part of 64 of a channel.
LEMMA ShareOf ==
  ASSUME NEW c \in Byte, NEW n \in 0..64
  PROVE  c * n \in Nat /\ (c * n) \div 64 \in Byte /\ Quotient(c * n, 64) = (c * n) \div 64
<1>1. c * n \in Nat /\ c * n <= 255 * 64
  <2>1. c * n <= 255 * n /\ c * n >= 0
    BY DEF Byte
  <2>2. c * n \in Int
    BY DEF Byte
  <2> QED
    BY <2>1, <2>2
<1>2. ASSUME NEW m \in Nat, m <= 255 * 64
      PROVE  m \div 64 \in Byte /\ Quotient(m, 64) = m \div 64
  BY <1>2 DEF Byte, Quotient
<1> QED
  BY <1>1, <1>2

LEMMA PartOfColor ==
  ASSUME NEW col \in Colors, NEW n \in 0..64, NEW ch \in 1..3
  PROVE  /\ col[ch] \in Byte
         /\ Plus(Times(col, n, 64), Black)[ch] = (col[ch] * n) \div 64
<1>1. PICK r \in Byte, g \in Byte, b \in Byte : col = <<r, g, b>>
  BY DEF Colors
<1>2. PICK x \in Byte, y \in Byte, z \in Byte :
        /\ x = (r * n) \div 64 /\ y = (g * n) \div 64 /\ z = (b * n) \div 64
        /\ Quotient(r * n, 64) = x /\ Quotient(g * n, 64) = y /\ Quotient(b * n, 64) = z
  BY ShareOf
<1>3. Times(col, n, 64) = <<x, y, z>>
  <2> DEFINE t == [i \in 1..3 |-> Quotient(col[i] * n, 64)]
  <2>1. t[1] = x /\ t[2] = y /\ t[3] = z
    BY <1>1, <1>2
  <2>2. Times(col, n, 64)
          = <<Constrain(t[1], 0, 255), Constrain(t[2], 0, 255),
              IF t[3] > 255 THEN 255 ELSE IF t[1] < 0 THEN 0 ELSE t[3] % 256>>
    BY DEF Times
  <2> HIDE DEF t
  <2>3. Constrain(x, 0, 255) = x /\ Constrain(y, 0, 255) = y /\ z % 256 = z
    BY DEF Byte, Constrain
  <2> QED
    BY <2>1, <2>2, <2>3 DEF Byte
<1>4. ASSUME NEW v \in Byte PROVE Constrain(v + 0, 0, 255) = v
  BY DEF Byte, Constrain
<1>5. \A i \in 1..3 : Black[i] = 0 /\ <<x, y, z>>[i] \in Byte
  BY DEF Black
<1>6. Plus(<<x, y, z>>, Black)[ch] = <<x, y, z>>[ch]
  <2>1. Plus(<<x, y, z>>, Black)[ch] = Constrain(<<x, y, z>>[ch] + Black[ch], 0, 255)
    BY DEF Plus
  <2>2. PICK v \in Byte : v = <<x, y, z>>[ch]
    BY <1>5
  <2> QED
    BY <1>4, <1>5, <2>1, <2>2
<1>7. <<x, y, z>>[ch] = (col[ch] * n) \div 64
  <2>1. CASE ch = 1
    BY <1>1, <1>2, <2>1
  <2>2. CASE ch = 2
    BY <1>1, <1>2, <2>2
  <2>3. CASE ch = 3
    BY <1>1, <1>2, <2>3
  <2> QED
    BY <2>1, <2>2, <2>3
<1>8. col[ch] \in Byte
  BY <1>1
<1> QED
  BY <1>3, <1>6, <1>7, <1>8

\* Four parts that make 64 lose less than one each to rounding.
LEMMA FourParts ==
  ASSUME NEW c \in Nat, NEW x \in Nat, NEW y \in Nat, NEW z \in Nat, NEW w \in Nat,
         x + y + z + w = 64 * c
  PROVE  LET sum == (x \div 64) + (y \div 64) + (z \div 64) + (w \div 64)
         IN sum <= c /\ sum > c - 4
<1>1. ASSUME NEW m \in Nat
      PROVE  m \div 64 \in Int /\ 64 * (m \div 64) <= m /\ m < 64 * (m \div 64) + 64
  OBVIOUS
<1>2. PICK i \in Int : i = x \div 64 /\ 64 * i <= x /\ x < 64 * i + 64
  BY <1>1
<1>3. PICK j \in Int : j = y \div 64 /\ 64 * j <= y /\ y < 64 * j + 64
  BY <1>1
<1>4. PICK k \in Int : k = z \div 64 /\ 64 * k <= z /\ z < 64 * k + 64
  BY <1>1
<1>5. PICK l \in Int : l = w \div 64 /\ 64 * l <= w /\ w < 64 * l + 64
  BY <1>1
<1>6. i + j + k + l <= c /\ i + j + k + l > c - 4
  BY <1>2, <1>3, <1>4, <1>5
<1> QED
  BY <1>2, <1>3, <1>4, <1>5, <1>6

LEMMA FourShares ==
  ASSUME NEW c \in Byte, NEW g \in 0..64, NEW h \in 0..64, NEW i \in 0..64,
         NEW j \in 0..64, g + h + i + j = 64
  PROVE  LET sum == ((c * g) \div 64) + ((c * h) \div 64)
                      + ((c * i) \div 64) + ((c * j) \div 64)
         IN sum <= c /\ sum > c - 4
<1>1. PICK x \in Nat : x = c * g
  BY ShareOf
<1>2. PICK y \in Nat : y = c * h
  BY ShareOf
<1>3. PICK z \in Nat : z = c * i
  BY ShareOf
<1>4. PICK w \in Nat : w = c * j
  BY ShareOf
<1>5. x + y + z + w = 64 * c
  <2>1. c * g + c * h + c * i + c * j = c * (g + h + i + j)
    BY DEF Byte
  <2> QED
    BY <1>1, <1>2, <1>3, <1>4, <2>1 DEF Byte
<1>6. c \in Nat
  BY DEF Byte
<1>7. LET sum == (x \div 64) + (y \div 64) + (z \div 64) + (w \div 64)
      IN sum <= c /\ sum > c - 4
  BY <1>5, <1>6, FourParts
<1> QED
  BY <1>1, <1>2, <1>3, <1>4, <1>7

LEMMA LargerShare ==
  ASSUME NEW c \in Byte, NEW m \in 0..64, NEW n \in 0..64, m >= n
  PROVE  (c * m) \div 64 >= (c * n) \div 64
<1>1. PICK x \in Nat, y \in Nat : x = c * m /\ y = c * n
  BY ShareOf
<1>2. x >= y
  <2>1. c * (m - n) >= 0 /\ c * (m - n) = c * m - c * n
    BY DEF Byte
  <2> QED
    BY <1>1, <2>1
<1> QED
  BY <1>1, <1>2

\* The pixel of corner i.
QuadPixel(q, a, i) == PixelOf(CornerAt(q, Quad(a)[i]))

\* A pixel of the four gets its part, any other one stays dark.
LEMMA SmoothPixel ==
  ASSUME NEW q, NEW a, OnPlane(q, a), NEW col \in Colors, NEW i \in Beside(q, a)
  PROVE  /\ QuadPixel(q, a, i) \in Pixels
         /\ \A ch \in 1..3 :
              Smoothed(Dark, q, col)[QuadPixel(q, a, i)][ch] = (col[ch] * Gets(q, a, i)) \div 64
<1> DEFINE px == QuadPixel(q, a, i)
<1>1. CornerAt(q, Quad(a)[i]) \in Space /\ px \in Pixels
      /\ Lit(CornerAt(q, Quad(a)[i])) = {px}
  BY CornerPoint DEF QuadPixel
<1>2. {c \in Corners(q) : px \in Lit(CornerAt(q, c))} = {Quad(a)[i]}
  <2>1. Quad(a)[i] \in Corners(q)
    BY DEF Beside
  <2>2. ASSUME NEW c \in Corners(q), px \in Lit(CornerAt(q, c))
        PROVE  c = Quad(a)[i]
    <3>1. PICK j \in Beside(q, a) : c = Quad(a)[j]
      BY CornersAreQuad
    <3>2. /\ CornerAt(q, Quad(a)[j]) \in Space
          /\ Lit(CornerAt(q, Quad(a)[j])) = {PixelOf(CornerAt(q, Quad(a)[j]))}
      BY CornerPoint
    <3>3. PixelOf(CornerAt(q, Quad(a)[j])) = px
      BY <2>2, <3>1, <3>2
    <3>4. CornerAt(q, Quad(a)[j]) = CornerAt(q, Quad(a)[i])
      BY <1>1, <3>2, <3>3, OnePointLights DEF QuadPixel
    <3>5. j = i
      BY <3>4, CornersApart
    <3> QED
      BY <3>1, <3>5
  <2> HIDE DEF px
  <2> QED
    BY <1>1, <2>1, <2>2
<1>3. Smoothed(Dark, q, col)[px] = Plus(CornerPart(q, col, Quad(a)[i]), Dark[px])
  BY <1>1, <1>2, SmoothedOn
<1>4. Dark[px] = Black
  BY <1>1 DEF Dark
<1>5. CornerPart(q, col, Quad(a)[i]) = Times(col, Gets(q, a, i), 64)
  BY DEF CornerPart, Gets, Parts
<1>6. Gets(q, a, i) \in 0..64
  BY GetsType DEF Beside
<1> HIDE DEF px
<1>7. ASSUME NEW ch \in 1..3
      PROVE  Smoothed(Dark, q, col)[px][ch] = (col[ch] * Gets(q, a, i)) \div 64
  <2>1. Smoothed(Dark, q, col)[px] = Plus(Times(col, Gets(q, a, i), 64), Black)
    BY <1>3, <1>4, <1>5
  <2> QED
    BY <1>6, <2>1, PartOfColor
<1> QED
  BY <1>1, <1>7 DEF px

LEMMA SmoothOnlyThere ==
  ASSUME NEW q, NEW a, OnPlane(q, a), NEW col, NEW px \in Pixels,
         Smoothed(Dark, q, col)[px] # Black
  PROVE  \E i \in Beside(q, a) : px = QuadPixel(q, a, i)
<1> DEFINE C == {c \in Corners(q) : px \in Lit(CornerAt(q, c))}
<1>1. C # {}
  <2> SUFFICES ASSUME C = {} PROVE FALSE
    OBVIOUS
  <2>1. Smoothed(Dark, q, col)[px] = Dark[px]
    BY SmoothedOff
  <2> QED
    BY <2>1 DEF Dark
<1>2. PICK c \in Corners(q) : px \in Lit(CornerAt(q, c))
  BY <1>1
<1>3. PICK i \in Beside(q, a) : c = Quad(a)[i]
  BY CornersAreQuad
<1>4. Lit(CornerAt(q, Quad(a)[i])) = {QuadPixel(q, a, i)}
  BY CornerPoint DEF QuadPixel
<1> QED
  BY <1>2, <1>3, <1>4

SmoothInv ==
  /\ last = Nothing => light = Dark
  /\ last.op = "smooth" =>
       /\ last.q \in Int \X Int \X Int /\ last.col \in Colors
       /\ light = Smoothed(Dark, last.q, last.col)

LEMMA SmoothTotal ==
  ASSUME NEW q, NEW a, OnPlane(q, a), NEW col \in Colors, NEW ch \in 1..3,
         light = Smoothed(Dark, q, col)
  PROVE  Total(ch) <= col[ch] /\ Total(ch) > col[ch] - 4
<1> DEFINE J == Beside(q, a)
           P == [i \in 1..4 |-> QuadPixel(q, a, i)]
           share(i) == LitShare(P, J, ch, i, LitPixels)
           part(i) == (col[ch] * Gets(q, a, i)) \div 64
<1>1. col[ch] \in Byte
  BY DEF Colors
<1>2. \A i \in 1..4 : Gets(q, a, i) \in 0..64
  BY GetsType
<1>3. \A i \in 1..4 : part(i) \in Byte
  BY <1>1, <1>2, ShareOf
<1>4. J \subseteq 1..4
  BY DEF Beside
<1>5. ASSUME NEW i \in J
      PROVE  P[i] = QuadPixel(q, a, i) /\ P[i] \in Pixels /\ light[P[i]][ch] = part(i)
  BY <1>4, SmoothPixel
<1>6. LitAmong(P, J, ch)
  <2>1. ASSUME NEW i \in J, NEW j \in J, P[i] = P[j] PROVE i = j
    <3>1. PixelOf(CornerAt(q, Quad(a)[i])) = PixelOf(CornerAt(q, Quad(a)[j]))
      BY <1>5, <2>1 DEF QuadPixel
    <3>2. /\ CornerAt(q, Quad(a)[i]) \in Space /\ CornerAt(q, Quad(a)[j]) \in Space
          /\ PixelOf(CornerAt(q, Quad(a)[j])) \in Pixels
      BY CornerPoint
    <3>3. CornerAt(q, Quad(a)[i]) = CornerAt(q, Quad(a)[j])
      BY <3>1, <3>2, OnePointLights
    <3> QED
      BY <3>3, CornersApart
  <2>2. ASSUME NEW px \in LitPixels PROVE \E i \in J : px = P[i]
    <3>1. px \in Pixels /\ Smoothed(Dark, q, col)[px] # Black
      BY DEF LitPixels
    <3>2. PICK i \in J : px = QuadPixel(q, a, i)
      BY <3>1, SmoothOnlyThere
    <3> QED
      BY <1>5, <3>2
  <2>3. ASSUME NEW i \in J PROVE P[i] \in Pixels /\ light[P[i]][ch] \in Nat
    BY <1>3, <1>4, <1>5 DEF Byte
  <2> HIDE DEF J, P
  <2> QED
    BY <1>4, <2>1, <2>2, <2>3 DEF LitAmong
<1>7. Total(ch) = share(1) + share(2) + share(3) + share(4)
  BY <1>6, TotalOfFour DEF LitShares
<1>8. ASSUME NEW i \in 1..4 PROVE share(i) = part(i)
  <2>1. CASE i \in J /\ P[i] \in LitPixels
    BY <1>5, <2>1 DEF LitShare
  <2>2. CASE i \in J /\ P[i] \notin LitPixels
    <3>1. light[P[i]] = Black
      BY <1>5, <2>2 DEF LitPixels
    <3>2. light[P[i]][ch] = 0
      BY <3>1 DEF Black
    <3> QED
      BY <1>5, <2>2, <3>2 DEF LitShare
  <2>3. CASE i \notin J
    <3>1. Gets(q, a, i) = 0
      BY <2>3, GetsNothing
    <3>2. col[ch] * 0 = 0 /\ 0 \div 64 = 0
      BY <1>1 DEF Byte
    <3>3. part(i) = 0
      BY <3>1, <3>2
    <3>4. share(i) = 0
      BY <2>3 DEF LitShare
    <3> QED
      BY <3>3, <3>4
  <2> QED
    BY <2>1, <2>2, <2>3
<1>9. Total(ch) = part(1) + part(2) + part(3) + part(4)
  BY <1>7, <1>8
<1> HIDE DEF share
<1> HIDE DEF J, P
<1>10. PICK c \in Byte : c = col[ch]
  BY <1>1
<1>11. PICK g \in 0..64 : g = Gets(q, a, 1)
  BY <1>2
<1>12. PICK h \in 0..64 : h = Gets(q, a, 2)
  BY <1>2
<1>13. PICK i \in 0..64 : i = Gets(q, a, 3)
  BY <1>2
<1>14. PICK j \in 0..64 : j = Gets(q, a, 4)
  BY <1>2
<1>15. g + h + i + j = 64
  BY <1>11, <1>12, <1>13, <1>14, GetsType
<1>16. Total(ch) = ((c * g) \div 64) + ((c * h) \div 64)
                     + ((c * i) \div 64) + ((c * j) \div 64)
  BY <1>9, <1>10, <1>11, <1>12, <1>13, <1>14
<1>17. LET sum == ((c * g) \div 64) + ((c * h) \div 64)
                     + ((c * i) \div 64) + ((c * j) \div 64)
       IN sum <= c /\ sum > c - 4
  BY <1>15, FourShares
<1> QED
  BY <1>10, <1>16, <1>17

LEMMA SmoothOrder ==
  ASSUME NEW q, NEW a, OnPlane(q, a), NEW col \in Colors, NEW ch \in 1..3,
         light = Smoothed(Dark, q, col),
         NEW p \in Space, Lit(p) \cap LitPixels # {},
         NEW r \in Space, Lit(r) \cap LitPixels # {},
         Distance(p, q) <= Distance(r, q),
         NEW px \in Lit(p), NEW py \in Lit(r)
  PROVE  light[px][ch] >= light[py][ch]
<1>1. ASSUME NEW o \in Space, Lit(o) \cap LitPixels # {}, NEW oo \in Lit(o)
      PROVE  \E i \in Beside(q, a) :
               /\ o = CornerAt(q, Quad(a)[i])
               /\ light[oo][ch] = (col[ch] * Gets(q, a, i)) \div 64
  <2>1. Lit(o) = {PixelOf(o)} /\ PixelOf(o) \in Pixels /\ oo = PixelOf(o)
        /\ PixelOf(o) \in LitPixels
    BY <1>1, LightsItsPixel
  <2>2. Smoothed(Dark, q, col)[PixelOf(o)] # Black
    BY <2>1 DEF LitPixels
  <2>3. PICK i \in Beside(q, a) : PixelOf(o) = QuadPixel(q, a, i)
    BY <2>1, <2>2, SmoothOnlyThere
  <2>4. CornerAt(q, Quad(a)[i]) \in Space
    BY CornerPoint
  <2>5. o = CornerAt(q, Quad(a)[i])
    BY <2>1, <2>3, <2>4, OnePointLights DEF QuadPixel
  <2>6. light[oo][ch] = (col[ch] * Gets(q, a, i)) \div 64
    BY <2>1, <2>3, SmoothPixel
  <2> QED
    BY <2>5, <2>6
<1>2. PICK i \in Beside(q, a) : /\ p = CornerAt(q, Quad(a)[i])
                                /\ light[px][ch] = (col[ch] * Gets(q, a, i)) \div 64
  BY <1>1
<1>3. PICK j \in Beside(q, a) : /\ r = CornerAt(q, Quad(a)[j])
                                /\ light[py][ch] = (col[ch] * Gets(q, a, j)) \div 64
  BY <1>1
<1>4. Gets(q, a, i) >= Gets(q, a, j)
  BY <1>2, <1>3, NearerGetsMore
<1>5. Gets(q, a, i) \in 0..64 /\ Gets(q, a, j) \in 0..64 /\ col[ch] \in Byte
  BY GetsType DEF Beside, Colors
<1> QED
  BY <1>2, <1>3, <1>4, <1>5, LargerShare

LEMMA SmoothFits == SmoothInv => SmoothKeepsLight
<1> SUFFICES ASSUME SmoothInv, last.op = "smooth" PROVE SmoothKeepsLight
  BY DEF SmoothKeepsLight
<1> DEFINE q == last.q
           col == last.col
<1>1. q \in Int \X Int \X Int /\ col \in Colors /\ light = Smoothed(Dark, q, col)
  BY DEF SmoothInv
<1> HIDE DEF q, col
<1>2. ASSUME NEW a \in 1..3, q[a] \in {0, 4 * Max},
             \A b \in (1..3) \ {a} : 4 <= q[b] /\ q[b] <= 4 * N,
             NEW ch \in 1..3
      PROVE  /\ Total(ch) <= col[ch]
             /\ Total(ch) > col[ch] - 4
             /\ \A p, r \in {p \in Space : Lit(p) \cap LitPixels # {}} :
                  Distance(p, q) <= Distance(r, q) =>
                    \A px \in Lit(p), py \in Lit(r) : light[px][ch] >= light[py][ch]
  <2>1. OnPlane(q, a)
    BY <1>1, <1>2 DEF OnPlane
  <2>2. Total(ch) <= col[ch] /\ Total(ch) > col[ch] - 4
    BY <1>1, <2>1, SmoothTotal
  <2>3. ASSUME NEW p \in Space, Lit(p) \cap LitPixels # {},
               NEW r \in Space, Lit(r) \cap LitPixels # {},
               Distance(p, q) <= Distance(r, q),
               NEW px \in Lit(p), NEW py \in Lit(r)
        PROVE  light[px][ch] >= light[py][ch]
    BY <1>1, <2>1, <2>3, SmoothOrder
  <2> QED
    BY <2>2, <2>3
<1> QED
  BY <1>2 DEF SmoothKeepsLight, Distance, q, col

LEMMA SmoothInductive == SmoothInv /\ [Next]_vars => SmoothInv'
<1> SUFFICES ASSUME SmoothInv, [Next]_vars PROVE SmoothInv'
  OBVIOUS
<1>1. Nothing.op = "nothing"
  BY DEF Nothing
<1>2. CASE UNCHANGED <<light, last>>
  BY <1>2 DEF SmoothInv
<1>3. CASE Clear
  <2>1. last' = Nothing /\ light' = Dark
    BY <1>3 DEF Clear, Dark
  <2> QED
    BY <1>1, <2>1 DEF SmoothInv
<1>4. ASSUME NEW p \in Space, SetPixel(p) PROVE SmoothInv'
  <2>1. last'.op = "pixel"
    BY <1>4 DEF SetPixel
  <2> QED
    BY <1>1, <2>1 DEF SmoothInv
<1>5. ASSUME NEW h \in 0..23, NEW s \in 0..2, NEW v \in 0..2, FillAll(h, s, v)
      PROVE  SmoothInv'
  <2>1. last'.op = "fill"
    BY <1>5 DEF FillAll
  <2> QED
    BY <1>1, <2>1 DEF SmoothInv
<1>6. ASSUME NEW q \in SmoothQuarters \X SmoothQuarters \X SmoothQuarters,
             NEW col \in SmoothColors, SetPixelSmooth(q, col)
      PROVE  SmoothInv'
  <2>1. q \in Int \X Int \X Int /\ col \in Colors
    BY DrawingAssumption
  <2>2. light' = Smoothed(Dark, q, col)
    BY <1>6 DEF SetPixelSmooth, SmoothInv
  <2>3. last' = [op |-> "smooth", q |-> q, col |-> col]
    BY <1>6 DEF SetPixelSmooth
  <2>4. last'.op = "smooth" /\ last'.q = q /\ last'.col = col
    BY <2>3
  <2> HIDE DEF SetPixelSmooth
  <2> QED
    BY <1>1, <2>1, <2>2, <2>3, <2>4 DEF SmoothInv
<1>7. CASE last' # Nothing /\ last'.op \notin {"smooth"}
  BY <1>7 DEF SmoothInv
<1> QED
  BY <1>2, <1>3, <1>4, <1>5, <1>6, <1>7, DrawnLast

\* In a cube of any size a smooth pixel on a screen and away from its rim loses
\* less than one of each channel's 255 steps to each of its four neighbours, and
\* none of them is darker than one that is farther away
\* (CubeApplication.cpp:57-83).
THEOREM SmoothPixelsKeepLight == Spec => []SmoothKeepsLight
<1>1. Init => SmoothInv
  BY DEF Init, DrawingInit, SmoothInv, Nothing, Dark
<1> QED
  BY <1>1, SmoothInductive, SmoothFits, PTL DEF Spec

-----------------------------------------------------------------------------
(* Shapes on a screen.  What the loops that draw them compute is a table in *)
(* which each value is made of the one before.                              *)

Steps(f, T, base, step, n) ==
  /\ f \in [0..n -> T]
  /\ f[0] = base
  /\ \A i \in 1..n : f[i] = step[<<i, f[i - 1]>>]

LEMMA StepsExist ==
  ASSUME NEW T, NEW base \in T, NEW step \in [Nat \X T -> T], NEW n \in Nat
  PROVE  \E f : Steps(f, T, base, step, n)
<1> DEFINE S == {m \in 0..n : \A f : ~Steps(f, T, base, step, m)}
<1>1. SUFFICES ASSUME S # {} PROVE FALSE
  OBVIOUS
<1>2. PICK k \in S : \A j \in S : k <= j
  <2>1. S \in SUBSET Nat
    OBVIOUS
  <2> HIDE DEF S
  <2> QED
    BY <1>1, <2>1, LeastExists
<1>3. CASE k = 0
  <2>1. Steps([m \in 0..0 |-> base], T, base, step, 0)
    BY DEF Steps
  <2> QED
    BY <1>2, <1>3, <2>1
<1>4. CASE k # 0
  <2>1. k \in Nat /\ k - 1 \in 0..n /\ k - 1 \notin S /\ k - 1 \in Nat
    BY <1>2, <1>4
  <2>2. PICK f : Steps(f, T, base, step, k - 1)
    BY <2>1
  <2> DEFINE v == step[<<k, f[k - 1]>>]
             g == [i \in 0..k |-> IF i = k THEN v ELSE f[i]]
  <2>3. v \in T
    BY <2>1, <2>2 DEF Steps
  <2>4. \A i \in 0..(k - 1) : g[i] = f[i] /\ f[i] \in T
    BY <2>1, <2>2 DEF Steps
  <2>5. g[k] = v
    BY <2>1
  <2>6. g \in [0..k -> T]
    <3>1. \A i \in 0..k : i = k \/ i \in 0..(k - 1)
      BY <2>1
    <3>2. \A i \in 0..k : g[i] \in T
      <4> HIDE DEF g, v
      <4> QED
        BY <2>3, <2>4, <2>5, <3>1
    <3>3. g = [i \in 0..k |-> g[i]]
      OBVIOUS
    <3> HIDE DEF g
    <3> QED
      BY <3>2, <3>3
  <2>7. g[0] = base
    BY <2>1, <2>2, <2>4 DEF Steps
  <2>8. ASSUME NEW i \in 1..k PROVE g[i] = step[<<i, g[i - 1]>>]
    <3>1. CASE i = k
      <4>1. g[k - 1] = f[k - 1]
        BY <2>1, <2>4
      <4> HIDE DEF g
      <4> QED
        BY <2>5, <3>1, <4>1
    <3>2. CASE i # k
      <4>1. i \in 1..(k - 1) /\ i \in 0..(k - 1) /\ i - 1 \in 0..(k - 1)
        BY <2>1, <3>2
      <4>2. g[i] = f[i] /\ g[i - 1] = f[i - 1]
        BY <2>4, <4>1
      <4>3. f[i] = step[<<i, f[i - 1]>>]
        BY <2>2, <4>1 DEF Steps
      <4> HIDE DEF g
      <4> QED
        BY <4>2, <4>3
    <3> QED
      BY <3>1, <3>2
  <2> HIDE DEF g
  <2>9. Steps(g, T, base, step, k)
    BY <2>6, <2>7, <2>8 DEF Steps
  <2> QED
    BY <1>2, <2>9
<1> QED
  BY <1>3, <1>4

-----------------------------------------------------------------------------
(* Lines on a screen. *)

Triple == Int \X Int \X Int

Sign(m, n) == IF m < n THEN 1 ELSE -1

\* One round of the loop from p to q.
PenStep(p, q, o) ==
  LET dx == Abs(q[1] - p[1])
      dy == -Abs(q[2] - p[2])
      alongX == <<o[1], o[2]>> # q /\ 2 * o[3] > dy
      alongY == <<o[1], o[2]>> # q /\ 2 * o[3] < dx
  IN <<o[1] + (IF alongX THEN Sign(p[1], q[1]) ELSE 0),
       o[2] + (IF alongY THEN Sign(p[2], q[2]) ELSE 0),
       o[3] + (IF alongX THEN dy ELSE 0) + (IF alongY THEN dx ELSE 0)>>

LEMMA PenStepType ==
  ASSUME NEW p \in Int \X Int, NEW q \in Int \X Int, NEW o \in Triple
  PROVE  PenStep(p, q, o) \in Triple
<1>1. PICK dx \in Int : dx = Abs(q[1] - p[1])
  BY DEF Abs
<1>2. PICK dy \in Int : dy = -Abs(q[2] - p[2])
  BY DEF Abs
<1>3. PICK x \in Int, y \in Int, e \in Int : o = <<x, y, e>>
  BY DEF Triple
<1>4. Sign(p[1], q[1]) \in Int /\ Sign(p[2], q[2]) \in Int
  BY DEF Sign
<1> QED
  BY <1>1, <1>2, <1>3, <1>4 DEF PenStep, Triple

LEMMA PenIs ==
  ASSUME NEW p \in Int \X Int, NEW q \in Int \X Int
  PROVE  LET n == Abs(q[1] - p[1]) + Abs(q[2] - p[2])
             pen == Pen(p, q)
         IN /\ n \in Nat
            /\ pen \in [0..n -> Triple]
            /\ pen[0] = <<p[1], p[2], Abs(q[1] - p[1]) - Abs(q[2] - p[2])>>
            /\ \A i \in 1..n : pen[i] = PenStep(p, q, pen[i - 1])
<1> DEFINE dx == Abs(q[1] - p[1])
           dy == -Abs(q[2] - p[2])
           n == dx - dy
           base == <<p[1], p[2], dx + dy>>
           E(g) == [i \in 0..n |-> IF i = 0 THEN base ELSE PenStep(p, q, g[i - 1])]
           pen == CHOOSE g : g = E(g)
           step == [u \in Nat \X Triple |-> PenStep(p, q, u[2])]
<1>1. Pen(p, q) = pen
  BY DEF Pen, PenStep, Sign
<1>2. dx \in Nat /\ -dy \in Nat /\ n \in Nat /\ base \in Triple
      /\ n = Abs(q[1] - p[1]) + Abs(q[2] - p[2])
      /\ dx + dy = Abs(q[1] - p[1]) - Abs(q[2] - p[2])
  BY DEF Abs, Triple
<1>3. step \in [Nat \X Triple -> Triple]
  BY PenStepType
<1>4. PICK f : Steps(f, Triple, base, step, n)
  <2> HIDE DEF step, base, n
  <2> QED
    BY <1>2, <1>3, StepsExist
<1> HIDE DEF base, n
<1>5. f = E(f)
  <2>1. ASSUME NEW i \in 0..n PROVE f[i] = E(f)[i]
    <3>1. CASE i = 0
      BY <1>4, <3>1 DEF Steps
    <3>2. CASE i # 0
      <4>1. i \in 1..n /\ i - 1 \in 0..n /\ i \in Nat
        BY <1>2, <3>2
      <4>2. f[i] = step[<<i, f[i - 1]>>] /\ f[i - 1] \in Triple
        BY <1>4, <4>1 DEF Steps
      <4> QED
        BY <3>2, <4>1, <4>2
    <3> QED
      BY <3>1, <3>2
  <2>2. DOMAIN f = 0..n /\ f = [i \in 0..n |-> f[i]]
    BY <1>4 DEF Steps
  <2>3. E(f) = [i \in 0..n |-> E(f)[i]]
    OBVIOUS
  <2> HIDE DEF E
  <2> QED
    BY <2>1, <2>2, <2>3
<1>6. pen = E(pen)
  <2> HIDE DEF E
  <2> QED
    BY <1>5
<1> HIDE DEF pen, step
<1>7. /\ DOMAIN pen = 0..n /\ pen[0] = base
      /\ \A i \in 1..n : pen[i] = PenStep(p, q, pen[i - 1])
  BY <1>2, <1>6
<1>8. \A i \in 0..n : pen[i] \in Triple
  <2> DEFINE S == {i \in 0..n : pen[i] \notin Triple}
  <2>1. SUFFICES ASSUME S # {} PROVE FALSE
    OBVIOUS
  <2>2. PICK k \in S : \A j \in S : k <= j
    <3>1. S \in SUBSET Nat
      BY <1>2
    <3> HIDE DEF S
    <3> QED
      BY <2>1, <3>1, LeastExists
  <2>3. k # 0
    BY <1>2, <1>7, <2>2
  <2>4. k \in 1..n /\ k - 1 \in 0..n /\ k - 1 \notin S
    BY <1>2, <2>2, <2>3
  <2> QED
    BY <1>7, <2>2, <2>4, PenStepType
<1>9. pen = [i \in 0..n |-> pen[i]]
  BY <1>6
<1> QED
  BY <1>1, <1>2, <1>7, <1>8, <1>9 DEF base, n

\* After u of a points along the longer axis and v of b along the other one the
\* line is at most half a point off.
Near(a, b, u, v) == 2 * (a * v - b * u) <= a /\ -a <= 2 * (a * v - b * u)

LEMMA Larger ==
  ASSUME NEW k \in Nat, NEW m \in Int, NEW n \in Int, m <= n
  PROVE  k * m <= k * n
<1>1. k * (n - m) >= 0 /\ k * (n - m) = k * n - k * m
  OBVIOUS
<1>2. k * n \in Int /\ k * m \in Int
  OBVIOUS
<1> QED
  BY <1>1, <1>2

LEMMA Zero ==
  ASSUME NEW k \in Nat, k >= 1, NEW m \in Int, k * m = 0
  PROVE  m = 0
<1>1. CASE m >= 1
  <2>1. k * 1 <= k * m
    BY <1>1, Larger
  <2> QED
    BY <2>1
<1>2. CASE m <= -1
  <2>1. k * m <= k * (-1)
    BY <1>2, Larger
  <2> QED
    BY <2>1
<1> QED
  BY <1>1, <1>2

LEMMA NearStays ==
  ASSUME NEW a \in Nat, NEW b \in Nat, b <= a, NEW u \in Nat, NEW v \in Nat,
         u <= a, v <= b, Near(a, b, u, v)
  PROVE  /\ u = a => v = b
         /\ u < a => /\ 2 * (a * (v + 1) - b * (u + 1)) > -b
                     /\ LET w == IF 2 * (a * (v + 1) - b * (u + 1)) < a THEN v + 1 ELSE v
                        IN Near(a, b, u + 1, w) /\ w <= b
<1>1. PICK A \in Int : A = a * v
  OBVIOUS
<1>2. PICK B \in Int : B = b * u
  OBVIOUS
<1>3. 2 * (A - B) <= a /\ -a <= 2 * (A - B)
  BY <1>1, <1>2 DEF Near
<1>4. a * (v + 1) = A + a /\ b * (u + 1) = B + b
  BY <1>1, <1>2
<1>5. ASSUME u = a PROVE v = b
  <2>1. CASE a = 0
    BY <2>1
  <2>2. CASE a # 0 /\ v < b
    <3>1. a * (v + 1) <= a * b
      BY <2>2, Larger
    <3>2. a * b = B
      BY <1>2, <1>5
    <3> QED
      BY <1>3, <1>4, <2>2, <3>1, <3>2
  <2> QED
    BY <2>1, <2>2
<1>6. ASSUME u < a PROVE 2 * (a * (v + 1) - b * (u + 1)) > -b
  <2>1. CASE b < a
    BY <1>3, <1>4, <2>1
  <2>2. CASE b = a
    <3>1. SUFFICES ASSUME 2 * (A - B) = -a PROVE FALSE
      BY <1>3, <1>4, <2>2
    <3>2. a * (2 * (v - u) + 1) = 2 * (A - B) + a
      BY <1>1, <1>2, <2>2
    <3>3. 2 * (v - u) + 1 = 0
      BY <1>6, <3>1, <3>2, Zero
    <3> QED
      BY <3>3
  <2> QED
    BY <2>1, <2>2
<1>7. ASSUME u < a,
             NEW w \in Nat, w = IF 2 * (a * (v + 1) - b * (u + 1)) < a THEN v + 1 ELSE v
      PROVE  Near(a, b, u + 1, w) /\ w <= b
  <2>1. CASE 2 * (a * (v + 1) - b * (u + 1)) < a
    <3>1. w = v + 1
      BY <1>7, <2>1
    <3>2. a * w = A + a
      BY <1>4, <3>1
    <3>3. Near(a, b, u + 1, w)
      BY <1>3, <1>4, <2>1, <3>2 DEF Near
    <3>4. v # b
      <4>1. SUFFICES ASSUME v = b PROVE FALSE
        OBVIOUS
      <4>2. b * (u + 1) <= b * a
        BY <1>7, Larger
      <4>3. b * a = A
        BY <1>1, <4>1
      <4> QED
        BY <1>4, <1>7, <2>1, <4>2, <4>3
    <3> QED
      BY <3>1, <3>3, <3>4
  <2>2. CASE ~(2 * (a * (v + 1) - b * (u + 1)) < a)
    <3>1. w = v
      BY <1>7, <2>2
    <3>2. a * w = A
      BY <1>1, <3>1
    <3>3. Near(a, b, u + 1, w)
      BY <1>3, <1>4, <2>2, <3>2 DEF Near
    <3> QED
      BY <3>1, <3>3
  <2> QED
    BY <2>1, <2>2
<1> QED
  BY <1>5, <1>6, <1>7

\* How far it is from p to q along each axis, and the pen after u points along
\* the one and v along the other.
Along(p, q, k) == Abs(q[k] - p[k])

Spot(p, q, k, u) == p[k] + Sign(p[k], q[k]) * u

PenAt(p, q, u, v) ==
  <<Spot(p, q, 1, u), Spot(p, q, 2, v),
    Along(p, q, 1) * (v + 1) - Along(p, q, 2) * (u + 1)>>

LEMMA AlongType ==
  ASSUME NEW p \in Int \X Int, NEW q \in Int \X Int, NEW k \in {1, 2}
  PROVE  /\ p[k] \in Int /\ q[k] \in Int
         /\ Along(p, q, k) \in Nat /\ Sign(p[k], q[k]) \in {1, -1}
BY DEF Along, Sign, Abs

LEMMA SpotFirst ==
  ASSUME NEW p \in Int \X Int, NEW q \in Int \X Int, NEW k \in {1, 2}
  PROVE  Spot(p, q, k, 0) = p[k]
<1>1. PICK m \in Int : m = p[k]
  BY AlongType
<1>2. PICK s \in Int : s = Sign(p[k], q[k])
  BY DEF Sign
<1>3. m + s * 0 = m
  OBVIOUS
<1> QED
  BY <1>1, <1>2, <1>3 DEF Spot

LEMMA SpotNext ==
  ASSUME NEW p \in Int \X Int, NEW q \in Int \X Int, NEW k \in {1, 2}, NEW u \in Int
  PROVE  Spot(p, q, k, u + 1) = Spot(p, q, k, u) + Sign(p[k], q[k])
<1>1. PICK m \in Int : m = p[k]
  BY AlongType
<1>2. PICK s \in {1, -1} : s = Sign(p[k], q[k])
  BY DEF Sign
<1>3. m + s * (u + 1) = (m + s * u) + s
  OBVIOUS
<1> QED
  BY <1>1, <1>2, <1>3 DEF Spot

LEMMA SpotLaw ==
  ASSUME NEW p \in Int \X Int, NEW q \in Int \X Int, NEW k \in {1, 2}, NEW u \in Int
  PROVE  /\ Spot(p, q, k, u) \in Int
         /\ (Spot(p, q, k, u) = q[k]) <=> (u = Along(p, q, k))
<1>1. p[k] \in Int /\ q[k] \in Int
  OBVIOUS
<1>2. PICK m \in Int : m = p[k]
  BY <1>1
<1>3. PICK n \in Int : n = q[k]
  BY <1>1
<1>4. Along(p, q, k) = Abs(n - m) /\ Sign(p[k], q[k]) = Sign(m, n)
  BY <1>2, <1>3 DEF Along
<1>5. \A w : Spot(p, q, k, w) = m + Sign(m, n) * w
  BY <1>2, <1>3 DEF Spot
<1>6. CASE m < n
  <2>1. Abs(n - m) = n - m /\ Sign(m, n) = 1
    BY <1>6 DEF Abs, Sign
  <2> QED
    BY <1>2, <1>3, <1>4, <1>5, <1>6, <2>1
<1>7. CASE ~(m < n)
  <2>1. Abs(n - m) = m - n /\ Sign(m, n) = -1
    BY <1>7 DEF Abs, Sign
  <2> QED
    BY <1>2, <1>3, <1>4, <1>5, <1>7, <2>1
<1> QED
  BY <1>6, <1>7

\* A round moves the pen along the longer axis, until both have reached the end.
LEMMA PenMoves ==
  ASSUME NEW p \in Int \X Int, NEW q \in Int \X Int, NEW u \in Nat, NEW v \in Nat
  PROVE  LET a == Along(p, q, 1)
             b == Along(p, q, 2)
             o == PenAt(p, q, u, v)
         IN /\ u = a /\ v = b => PenStep(p, q, o) = o
            /\ b <= a /\ u < a /\ v <= b /\ Near(a, b, u, v) =>
                 \E w \in 0..b : /\ PenStep(p, q, o) = PenAt(p, q, u + 1, w)
                                 /\ Near(a, b, u + 1, w)
            /\ a < b /\ v < b /\ u <= a /\ Near(b, a, v, u) =>
                 \E w \in 0..a : /\ PenStep(p, q, o) = PenAt(p, q, w, v + 1)
                                 /\ Near(b, a, v + 1, w)
<1>1. PICK a \in Nat : a = Along(p, q, 1)
  BY AlongType
<1>2. PICK b \in Nat : b = Along(p, q, 2)
  BY AlongType
<1>3. PICK x \in Int : x = Spot(p, q, 1, u)
  BY SpotLaw
<1>4. PICK y \in Int : y = Spot(p, q, 2, v)
  BY SpotLaw
<1>5. PICK e \in Int : e = a * (v + 1) - b * (u + 1)
  OBVIOUS
<1> DEFINE o == PenAt(p, q, u, v)
           alongX == <<x, y>> # q /\ 2 * e > -b
           alongY == <<x, y>> # q /\ 2 * e < a
           sx == Sign(p[1], q[1])
           sy == Sign(p[2], q[2])
<1>15. /\ (Spot(p, q, 1, u) = q[1]) <=> (u = Along(p, q, 1))
       /\ (Spot(p, q, 2, v) = q[2]) <=> (v = Along(p, q, 2))
       /\ Spot(p, q, 1, u + 1) = Spot(p, q, 1, u) + Sign(p[1], q[1])
       /\ Spot(p, q, 2, v + 1) = Spot(p, q, 2, v) + Sign(p[2], q[2])
       /\ sx \in Int /\ sy \in Int
  <2>1. 1 \in {1, 2} /\ 2 \in {1, 2} /\ u \in Int /\ v \in Int
    OBVIOUS
  <2>2. sx \in Int /\ sy \in Int
    BY DEF Sign
  <2>3. (Spot(p, q, 1, u) = q[1]) <=> (u = Along(p, q, 1))
    BY <2>1, SpotLaw
  <2>4. (Spot(p, q, 2, v) = q[2]) <=> (v = Along(p, q, 2))
    BY <2>1, SpotLaw
  <2>5. Spot(p, q, 1, u + 1) = Spot(p, q, 1, u) + Sign(p[1], q[1])
    BY <2>1, SpotNext
  <2>6. Spot(p, q, 2, v + 1) = Spot(p, q, 2, v) + Sign(p[2], q[2])
    BY <2>1, SpotNext
  <2> QED
    BY <2>2, <2>3, <2>4, <2>5, <2>6
<1>6. o = <<x, y, e>>
  BY <1>1, <1>2, <1>3, <1>4, <1>5 DEF PenAt
<1>7. PenStep(p, q, o) = <<x + (IF alongX THEN sx ELSE 0), y + (IF alongY THEN sy ELSE 0),
                           e + (IF alongX THEN -b ELSE 0) + (IF alongY THEN a ELSE 0)>>
  <2> HIDE DEF o
  <2> QED
    BY <1>1, <1>2, <1>6 DEF PenStep, Along
<1>8. <<x, y>> = q <=> u = a /\ v = b
  <2>1. x = q[1] <=> u = a
    BY <1>1, <1>3, <1>15
  <2>2. y = q[2] <=> v = b
    BY <1>2, <1>4, <1>15
  <2>3. <<x, y>> = q <=> x = q[1] /\ y = q[2]
    OBVIOUS
  <2> QED
    BY <2>1, <2>2, <2>3
<1>9. /\ Spot(p, q, 1, u + 1) = x + sx /\ Spot(p, q, 2, v + 1) = y + sy
      /\ sx \in Int /\ sy \in Int
  BY <1>3, <1>4, <1>15
<1>10. /\ a * ((v + 1) + 1) - b * (u + 1) = e + a
       /\ a * (v + 1) - b * ((u + 1) + 1) = e - b
       /\ a * ((v + 1) + 1) - b * ((u + 1) + 1) = e - b + a
  <2>1. PICK A \in Int : A = a * (v + 1)
    OBVIOUS
  <2>2. PICK B \in Int : B = b * (u + 1)
    OBVIOUS
  <2>3. a * ((v + 1) + 1) = A + a /\ b * ((u + 1) + 1) = B + b
    BY <2>1, <2>2
  <2>4. e = A - B
    BY <1>5, <2>1, <2>2
  <2> QED
    BY <2>1, <2>2, <2>3, <2>4
<1>11. /\ PenAt(p, q, u + 1, v) = <<x + sx, y, e - b>>
       /\ PenAt(p, q, u, v + 1) = <<x, y + sy, e + a>>
       /\ PenAt(p, q, u + 1, v + 1) = <<x + sx, y + sy, e - b + a>>
  BY <1>1, <1>2, <1>3, <1>4, <1>5, <1>9, <1>10 DEF PenAt
<1> HIDE DEF o, sx, sy
<1>12. ASSUME u = a, v = b PROVE PenStep(p, q, o) = o
  BY <1>6, <1>7, <1>8, <1>12
<1>13. ASSUME b <= a, u < a, v <= b, Near(a, b, u, v)
       PROVE  \E w \in 0..b : /\ PenStep(p, q, o) = PenAt(p, q, u + 1, w)
                              /\ Near(a, b, u + 1, w)
  <2>1. <<x, y>> # q /\ alongX
    BY <1>5, <1>8, <1>13, NearStays
  <2>2. alongY <=> 2 * e < a
    BY <2>1
  <2>3. CASE 2 * e < a
    <3>1. v + 1 <= b /\ Near(a, b, u + 1, v + 1)
      BY <1>5, <1>13, <2>3, NearStays
    <3>2. PenStep(p, q, o) = <<x + sx, y + sy, e - b + a>>
      BY <1>7, <1>9, <2>1, <2>2, <2>3
    <3> QED
      BY <1>11, <3>1, <3>2
  <2>4. CASE ~(2 * e < a)
    <3>1. Near(a, b, u + 1, v)
      BY <1>5, <1>13, <2>4, NearStays
    <3>2. PenStep(p, q, o) = <<x + sx, y, e - b>>
      BY <1>7, <1>9, <2>1, <2>2, <2>4
    <3> QED
      BY <1>11, <1>13, <3>1, <3>2
  <2> QED
    BY <2>3, <2>4
<1>14. ASSUME a < b, v < b, u <= a, Near(b, a, v, u)
       PROVE  \E w \in 0..a : /\ PenStep(p, q, o) = PenAt(p, q, w, v + 1)
                              /\ Near(b, a, v + 1, w)
  <2>1. e = -(b * (u + 1) - a * (v + 1))
    BY <1>5
  <2>2. 2 * (b * (u + 1) - a * (v + 1)) > -a
    BY <1>14, NearStays
  <2>3. <<x, y>> # q /\ alongY
    BY <1>8, <1>14, <2>1, <2>2
  <2>4. alongX <=> 2 * (b * (u + 1) - a * (v + 1)) < b
    BY <2>1, <2>3
  <2>5. CASE 2 * (b * (u + 1) - a * (v + 1)) < b
    <3>1. u + 1 <= a /\ Near(b, a, v + 1, u + 1)
      BY <1>14, <2>5, NearStays
    <3>2. PenStep(p, q, o) = <<x + sx, y + sy, e - b + a>>
      BY <1>7, <1>9, <2>3, <2>4, <2>5
    <3> QED
      BY <1>11, <3>1, <3>2
  <2>6. CASE ~(2 * (b * (u + 1) - a * (v + 1)) < b)
    <3>1. Near(b, a, v + 1, u)
      BY <1>14, <2>6, NearStays
    <3>2. PenStep(p, q, o) = <<x, y + sy, e + a>>
      BY <1>7, <1>9, <2>3, <2>4, <2>6
    <3> QED
      BY <1>11, <1>14, <3>1, <3>2
  <2> QED
    BY <2>5, <2>6
<1> QED
  BY <1>1, <1>2, <1>12, <1>13, <1>14 DEF o

LEMMA NearFirst == ASSUME NEW a \in Nat, NEW b \in Nat PROVE Near(a, b, 0, 0)
<1>1. a * 0 = 0 /\ b * 0 = 0
  OBVIOUS
<1> QED
  BY <1>1 DEF Near

LEMMA PenFirst ==
  ASSUME NEW p \in Int \X Int, NEW q \in Int \X Int
  PROVE  Pen(p, q)[0] = PenAt(p, q, 0, 0)
<1>1. Pen(p, q)[0] = <<p[1], p[2], Along(p, q, 1) - Along(p, q, 2)>>
  BY PenIs DEF Along
<1>2. PICK a \in Nat : a = Along(p, q, 1)
  BY AlongType
<1>3. PICK b \in Nat : b = Along(p, q, 2)
  BY AlongType
<1>4. Spot(p, q, 1, 0) = p[1]
  BY SpotFirst
<1>5. Spot(p, q, 2, 0) = p[2]
  BY SpotFirst
<1>6. a * (0 + 1) - b * (0 + 1) = a - b
  OBVIOUS
<1> QED
  BY <1>1, <1>2, <1>3, <1>4, <1>5, <1>6 DEF PenAt

\* Where the pen is after i rounds, when the line is longer along the first axis.
LEMMA PenAlongX ==
  ASSUME NEW p \in Int \X Int, NEW q \in Int \X Int, Along(p, q, 2) <= Along(p, q, 1),
         NEW i \in 0..(Along(p, q, 1) + Along(p, q, 2))
  PROVE  LET a == Along(p, q, 1)
             b == Along(p, q, 2)
             u == IF i <= a THEN i ELSE a
         IN \E v \in 0..b : Near(a, b, u, v) /\ Pen(p, q)[i] = PenAt(p, q, u, v)
<1>1. PICK a \in Nat : a = Along(p, q, 1)
  BY AlongType
<1>2. PICK b \in Nat : b = Along(p, q, 2)
  BY AlongType
<1> DEFINE pen == Pen(p, q)
           u(j) == IF j <= a THEN j ELSE a
           Good(j) == \E v \in 0..b : Near(a, b, u(j), v) /\ pen[j] = PenAt(p, q, u(j), v)
           S == {j \in 0..(a + b) : ~Good(j)}
<1>3. S = {}
  <2>1. SUFFICES ASSUME S # {} PROVE FALSE
    OBVIOUS
  <2>2. PICK k \in S : \A j \in S : k <= j
    <3>1. S \in SUBSET Nat
      OBVIOUS
    <3> HIDE DEF S
    <3> QED
      BY <2>1, <3>1, LeastExists
  <2>3. k # 0
    <3>1. Near(a, b, 0, 0) /\ pen[0] = PenAt(p, q, 0, 0)
      BY NearFirst, PenFirst
    <3>2. u(0) = 0 /\ 0 \in 0..b
      OBVIOUS
    <3> HIDE DEF pen, u
    <3>3. Good(0)
      BY <3>1, <3>2
    <3> QED
      BY <3>3
  <2>4. k \in 1..(a + b) /\ k - 1 \in 0..(a + b) /\ k - 1 \notin S
    BY <2>2, <2>3
  <2>5. Good(k - 1)
    BY <2>4
  <2>6. pen[k] = PenStep(p, q, pen[k - 1])
    BY <1>1, <1>2, <2>4, PenIs DEF Along
  <2> HIDE DEF pen
  <2>7. PICK v \in 0..b : Near(a, b, u(k - 1), v) /\ pen[k - 1] = PenAt(p, q, u(k - 1), v)
    BY <2>5
  <2>8. Good(k)
    <3>1. CASE k - 1 < a
      <4>1. u(k - 1) = k - 1 /\ u(k) = k /\ k - 1 \in Nat /\ (k - 1) + 1 = k
        BY <2>4, <3>1
      <4> HIDE DEF u
      <4>2. Near(a, b, k - 1, v) /\ pen[k - 1] = PenAt(p, q, k - 1, v)
        BY <2>7, <4>1
      <4>3. \E w \in 0..b : /\ PenStep(p, q, PenAt(p, q, k - 1, v))
                                 = PenAt(p, q, (k - 1) + 1, w)
                            /\ Near(a, b, (k - 1) + 1, w)
        BY <1>1, <1>2, <3>1, <4>1, <4>2, PenMoves
      <4> QED
        BY <2>6, <4>1, <4>2, <4>3
    <3>2. CASE ~(k - 1 < a)
      <4>1. u(k - 1) = a /\ u(k) = a
        BY <2>4, <3>2
      <4> HIDE DEF u
      <4>2. Near(a, b, a, v) /\ pen[k - 1] = PenAt(p, q, a, v)
        BY <2>7, <4>1
      <4>3. v = b
        BY <1>1, <1>2, <4>2, NearStays
      <4>4. PenStep(p, q, PenAt(p, q, a, b)) = PenAt(p, q, a, b)
        BY <1>1, <1>2, PenMoves
      <4> QED
        BY <2>6, <4>1, <4>2, <4>3, <4>4
    <3> QED
      BY <3>1, <3>2
  <2> QED
    BY <2>2, <2>8
<1>4. Good(i)
  BY <1>1, <1>2, <1>3
<1> QED
  BY <1>1, <1>2, <1>4

LEMMA PenAlongY ==
  ASSUME NEW p \in Int \X Int, NEW q \in Int \X Int, Along(p, q, 1) < Along(p, q, 2),
         NEW i \in 0..(Along(p, q, 1) + Along(p, q, 2))
  PROVE  LET a == Along(p, q, 1)
             b == Along(p, q, 2)
             v == IF i <= b THEN i ELSE b
         IN \E u \in 0..a : Near(b, a, v, u) /\ Pen(p, q)[i] = PenAt(p, q, u, v)
<1>1. PICK a \in Nat : a = Along(p, q, 1)
  BY AlongType
<1>2. PICK b \in Nat : b = Along(p, q, 2)
  BY AlongType
<1> DEFINE pen == Pen(p, q)
           v(j) == IF j <= b THEN j ELSE b
           Good(j) == \E u \in 0..a : Near(b, a, v(j), u) /\ pen[j] = PenAt(p, q, u, v(j))
           S == {j \in 0..(a + b) : ~Good(j)}
<1>3. S = {}
  <2>1. SUFFICES ASSUME S # {} PROVE FALSE
    OBVIOUS
  <2>2. PICK k \in S : \A j \in S : k <= j
    <3>1. S \in SUBSET Nat
      OBVIOUS
    <3> HIDE DEF S
    <3> QED
      BY <2>1, <3>1, LeastExists
  <2>3. k # 0
    <3>1. Near(b, a, 0, 0) /\ pen[0] = PenAt(p, q, 0, 0)
      BY NearFirst, PenFirst
    <3>2. v(0) = 0 /\ 0 \in 0..a
      OBVIOUS
    <3> HIDE DEF pen, v
    <3>3. Good(0)
      BY <3>1, <3>2
    <3> QED
      BY <3>3
  <2>4. k \in 1..(a + b) /\ k - 1 \in 0..(a + b) /\ k - 1 \notin S
    BY <2>2, <2>3
  <2>5. Good(k - 1)
    BY <2>4
  <2>6. pen[k] = PenStep(p, q, pen[k - 1])
    BY <1>1, <1>2, <2>4, PenIs DEF Along
  <2> HIDE DEF pen
  <2>7. PICK u \in 0..a : Near(b, a, v(k - 1), u) /\ pen[k - 1] = PenAt(p, q, u, v(k - 1))
    BY <2>5
  <2>8. Good(k)
    <3>1. CASE k - 1 < b
      <4>1. v(k - 1) = k - 1 /\ v(k) = k /\ k - 1 \in Nat /\ (k - 1) + 1 = k
        BY <2>4, <3>1
      <4> HIDE DEF v
      <4>2. Near(b, a, k - 1, u) /\ pen[k - 1] = PenAt(p, q, u, k - 1)
        BY <2>7, <4>1
      <4>3. \E w \in 0..a : /\ PenStep(p, q, PenAt(p, q, u, k - 1))
                                 = PenAt(p, q, w, (k - 1) + 1)
                            /\ Near(b, a, (k - 1) + 1, w)
        BY <1>1, <1>2, <3>1, <4>1, <4>2, PenMoves
      <4> QED
        BY <2>6, <4>1, <4>2, <4>3
    <3>2. CASE ~(k - 1 < b)
      <4>1. v(k - 1) = b /\ v(k) = b
        BY <2>4, <3>2
      <4> HIDE DEF v
      <4>2. Near(b, a, b, u) /\ pen[k - 1] = PenAt(p, q, u, b)
        BY <2>7, <4>1
      <4>3. u = a
        BY <1>1, <1>2, <4>2, NearStays
      <4>4. PenStep(p, q, PenAt(p, q, a, b)) = PenAt(p, q, a, b)
        BY <1>1, <1>2, PenMoves
      <4> QED
        BY <2>6, <4>1, <4>2, <4>3, <4>4
    <3> QED
      BY <3>1, <3>2
  <2> QED
    BY <2>2, <2>8
<1>4. Good(i)
  BY <1>1, <1>2, <1>3
<1> QED
  BY <1>1, <1>2, <1>4

Reach(p, q, k) == p[k]..q[k] \cup q[k]..p[k]

\* The points of the way from p to q along axis k.
LEMMA SpotsReach ==
  ASSUME NEW p \in Int \X Int, NEW q \in Int \X Int, NEW k \in {1, 2}
  PROVE  /\ \A u \in 0..Along(p, q, k) : Spot(p, q, k, u) \in Reach(p, q, k)
         /\ \A j \in Reach(p, q, k) : \E u \in 0..Along(p, q, k) : j = Spot(p, q, k, u)
         /\ \A u, v \in Int : Spot(p, q, k, u) = Spot(p, q, k, v) => u = v
<1>1. p[k] \in Int /\ q[k] \in Int
  OBVIOUS
<1>2. PICK m \in Int : m = p[k]
  BY <1>1
<1>3. PICK n \in Int : n = q[k]
  BY <1>1
<1>4. Along(p, q, k) = Abs(n - m) /\ Reach(p, q, k) = m..n \cup n..m
  BY <1>2, <1>3 DEF Along, Reach
<1>5. \A w : Spot(p, q, k, w) = m + Sign(m, n) * w
  BY <1>2, <1>3 DEF Spot
<1>6. CASE m < n
  <2>1. Along(p, q, k) = n - m /\ \A u : Spot(p, q, k, u) = m + (1) * u
    BY <1>4, <1>5, <1>6 DEF Abs, Sign
  <2>2. ASSUME NEW u \in 0..(n - m) PROVE Spot(p, q, k, u) \in m..n \cup n..m
    <3>1. m + (1) * u \in m..n
      BY <1>6
    <3> QED
      BY <2>1, <3>1
  <2>3. ASSUME NEW j \in m..n \cup n..m
        PROVE  \E u \in 0..(n - m) : j = Spot(p, q, k, u)
    <3>1. j - m \in 0..(n - m) /\ j = m + (1) * (j - m)
      BY <1>6
    <3>2. Spot(p, q, k, j - m) = m + (1) * (j - m)
      BY <2>1
    <3> QED
      BY <3>1, <3>2
  <2>4. ASSUME NEW u \in Int, NEW v \in Int, Spot(p, q, k, u) = Spot(p, q, k, v)
        PROVE  u = v
    <3>1. m + (1) * u = m + (1) * v
      BY <2>1, <2>4
    <3> QED
      BY <3>1
  <2>5. Reach(p, q, k) = m..n \cup n..m
    BY <1>4
  <2>6. \A u \in 0..Along(p, q, k) : Spot(p, q, k, u) \in Reach(p, q, k)
    BY <2>1, <2>2, <2>5
  <2>7. \A j \in Reach(p, q, k) : \E u \in 0..Along(p, q, k) : j = Spot(p, q, k, u)
    BY <2>1, <2>3, <2>5
  <2> QED
    BY <2>4, <2>6, <2>7
<1>7. CASE ~(m < n)
  <2>1. Along(p, q, k) = m - n /\ \A u : Spot(p, q, k, u) = m + (-1) * u
    BY <1>4, <1>5, <1>7 DEF Abs, Sign
  <2>2. ASSUME NEW u \in 0..(m - n) PROVE Spot(p, q, k, u) \in m..n \cup n..m
    <3>1. m + (-1) * u \in n..m
      BY <1>7
    <3> QED
      BY <2>1, <3>1
  <2>3. ASSUME NEW j \in m..n \cup n..m
        PROVE  \E u \in 0..(m - n) : j = Spot(p, q, k, u)
    <3>1. m - j \in 0..(m - n) /\ j = m + (-1) * (m - j)
      BY <1>7
    <3>2. Spot(p, q, k, m - j) = m + (-1) * (m - j)
      BY <2>1
    <3> QED
      BY <3>1, <3>2
  <2>4. ASSUME NEW u \in Int, NEW v \in Int, Spot(p, q, k, u) = Spot(p, q, k, v)
        PROVE  u = v
    <3>1. m + (-1) * u = m + (-1) * v
      BY <2>1, <2>4
    <3> QED
      BY <3>1
  <2>5. Reach(p, q, k) = m..n \cup n..m
    BY <1>4
  <2>6. \A u \in 0..Along(p, q, k) : Spot(p, q, k, u) \in Reach(p, q, k)
    BY <2>1, <2>2, <2>5
  <2>7. \A j \in Reach(p, q, k) : \E u \in 0..Along(p, q, k) : j = Spot(p, q, k, u)
    BY <2>1, <2>3, <2>5
  <2> QED
    BY <2>4, <2>6, <2>7
<1> QED
  BY <1>6, <1>7

\* How far a point is off the ideal line.
LEMMA SpotsOff ==
  ASSUME NEW p \in Int \X Int, NEW q \in Int \X Int, NEW u \in Int, NEW v \in Int
  PROVE  LET a == Along(p, q, 1)
             b == Along(p, q, 2)
         IN /\ Abs((Spot(p, q, 2, v) - p[2]) * (q[1] - p[1])
                    - (Spot(p, q, 1, u) - p[1]) * (q[2] - p[2])) = Abs(a * v - b * u)
            /\ Abs((Spot(p, q, 1, u) - p[1]) * (q[2] - p[2])
                    - (Spot(p, q, 2, v) - p[2]) * (q[1] - p[1])) = Abs(b * u - a * v)
<1>1. PICK a \in Nat : a = Along(p, q, 1)
  BY AlongType
<1>2. PICK b \in Nat : b = Along(p, q, 2)
  BY AlongType
<1>3. PICK x \in {1, -1} : /\ q[1] - p[1] = x * a
                           /\ Spot(p, q, 1, u) - p[1] = x * u
  <2>1. PICK m \in Int : m = p[1]
    OBVIOUS
  <2>2. PICK n \in Int : n = q[1]
    OBVIOUS
  <2>3. a = Abs(n - m) /\ Spot(p, q, 1, u) = m + Sign(m, n) * u
    BY <1>1, <2>1, <2>2 DEF Along, Spot
  <2>4. CASE m < n
    <3>1. n - m = 1 * a /\ Spot(p, q, 1, u) - m = 1 * u
      BY <2>3, <2>4 DEF Abs, Sign
    <3> QED
      BY <2>1, <2>2, <3>1
  <2>5. CASE ~(m < n)
    <3>1. n - m = (-1) * a /\ Spot(p, q, 1, u) - m = (-1) * u
      BY <2>3, <2>5 DEF Abs, Sign
    <3> QED
      BY <2>1, <2>2, <3>1
  <2> QED
    BY <2>4, <2>5
<1>4. PICK y \in {1, -1} : /\ q[2] - p[2] = y * b
                           /\ Spot(p, q, 2, v) - p[2] = y * v
  <2>1. PICK m \in Int : m = p[2]
    OBVIOUS
  <2>2. PICK n \in Int : n = q[2]
    OBVIOUS
  <2>3. b = Abs(n - m) /\ Spot(p, q, 2, v) = m + Sign(m, n) * v
    BY <1>2, <2>1, <2>2 DEF Along, Spot
  <2>4. CASE m < n
    <3>1. n - m = 1 * b /\ Spot(p, q, 2, v) - m = 1 * v
      BY <2>3, <2>4 DEF Abs, Sign
    <3> QED
      BY <2>1, <2>2, <3>1
  <2>5. CASE ~(m < n)
    <3>1. n - m = (-1) * b /\ Spot(p, q, 2, v) - m = (-1) * v
      BY <2>3, <2>5 DEF Abs, Sign
    <3> QED
      BY <2>1, <2>2, <3>1
  <2> QED
    BY <2>4, <2>5
<1>5. PICK A \in Int : A = a * v
  OBVIOUS
<1>6. PICK B \in Int : B = b * u
  OBVIOUS
<1>7. /\ (y * v) * (x * a) = (x * y) * A
      /\ (x * u) * (y * b) = (x * y) * B
  BY <1>5, <1>6
<1>8. PICK s \in {1, -1} : s = x * y
  OBVIOUS
<1>9. Abs(s * A - s * B) = Abs(A - B) /\ Abs(s * B - s * A) = Abs(B - A)
  <2>1. CASE s = 1
    BY <2>1
  <2>2. CASE s = -1
    BY <2>2 DEF Abs
  <2> QED
    BY <2>1, <2>2
<1>10. /\ Abs((y * v) * (x * a) - (x * u) * (y * b)) = Abs(a * v - b * u)
       /\ Abs((x * u) * (y * b) - (y * v) * (x * a)) = Abs(b * u - a * v)
  BY <1>5, <1>6, <1>7, <1>8, <1>9
<1> QED
  BY <1>1, <1>2, <1>3, <1>4, <1>10

LEMMA LineAlongX ==
  ASSUME NEW p \in Int \X Int, NEW q \in Int \X Int, Along(p, q, 2) <= Along(p, q, 1)
  PROVE  LET a == Along(p, q, 1)
             b == Along(p, q, 2)
         IN \E f \in [0..a -> 0..b] :
              /\ \A u \in 0..a : Near(a, b, u, f[u])
              /\ Line2D(p, q) = {<<Spot(p, q, 1, u), Spot(p, q, 2, f[u])>> : u \in 0..a}
<1>1. PICK a \in Nat : a = Along(p, q, 1)
  BY AlongType
<1>2. PICK b \in Nat : b = Along(p, q, 2)
  BY AlongType
<1> DEFINE pen == Pen(p, q)
           Good(u, v) == Near(a, b, u, v) /\ pen[u] = PenAt(p, q, u, v)
           f == [u \in 0..a |-> CHOOSE v \in 0..b : Good(u, v)]
           P(u) == <<Spot(p, q, 1, u), Spot(p, q, 2, f[u])>>
<1>3. ASSUME NEW u \in 0..a PROVE f[u] \in 0..b /\ Good(u, f[u])
  <2>1. u \in 0..(a + b) /\ u <= a
    OBVIOUS
  <2>2. \E v \in 0..b : Near(a, b, u, v) /\ pen[u] = PenAt(p, q, u, v)
    BY <1>1, <1>2, <2>1, PenAlongX
  <2> QED
    BY <2>2
<1>4. f \in [0..a -> 0..b]
  BY <1>3
<1> HIDE DEF f
<1>5. DOMAIN pen = 0..(a + b)
  BY <1>1, <1>2, PenIs DEF Along
<1>6. Line2D(p, q) = {<<pen[i][1], pen[i][2]>> : i \in 0..(a + b)}
  BY <1>5 DEF Line2D
<1>7. ASSUME NEW u \in 0..a PROVE <<pen[u][1], pen[u][2]>> = P(u)
  <2>1. pen[u] = PenAt(p, q, u, f[u])
    BY <1>3
  <2> HIDE DEF pen
  <2> QED
    BY <2>1 DEF PenAt
<1>8. ASSUME NEW i \in 0..(a + b), i > a
      PROVE  pen[i] = pen[a]
  <2>1. PICK v \in 0..b : Near(a, b, a, v) /\ pen[i] = PenAt(p, q, a, v)
    BY <1>1, <1>2, <1>8, PenAlongX
  <2>2. v = b
    BY <1>1, <1>2, <2>1, NearStays
  <2>3. f[a] \in 0..b /\ Near(a, b, a, f[a]) /\ pen[a] = PenAt(p, q, a, f[a])
    BY <1>3
  <2>4. f[a] = b
    BY <1>1, <1>2, <2>3, NearStays
  <2> QED
    BY <2>1, <2>2, <2>3, <2>4
<1>9. Line2D(p, q) = {P(u) : u \in 0..a}
  <2>1. ASSUME NEW i \in 0..(a + b)
        PROVE  \E u \in 0..a : <<pen[i][1], pen[i][2]>> = P(u)
    <3>1. CASE i <= a
      BY <1>7, <3>1
    <3>2. CASE i > a
      <4>1. pen[i] = pen[a] /\ a \in 0..a
        BY <1>8, <3>2
      <4>2. <<pen[a][1], pen[a][2]>> = P(a)
        BY <1>7
      <4> HIDE DEF P, pen
      <4> QED
        BY <4>1, <4>2
    <3> QED
      BY <3>1, <3>2
  <2>2. ASSUME NEW u \in 0..a
        PROVE  \E i \in 0..(a + b) : <<pen[i][1], pen[i][2]>> = P(u)
    <3>1. u \in 0..(a + b)
      OBVIOUS
    <3> HIDE DEF P, pen
    <3> QED
      BY <1>7, <3>1
  <2> HIDE DEF P, pen
  <2> QED
    BY <1>6, <2>1, <2>2
<1>10. \A u \in 0..a : Near(a, b, u, f[u])
  BY <1>3
<1> QED
  BY <1>1, <1>2, <1>4, <1>9, <1>10

LEMMA LineAlongY ==
  ASSUME NEW p \in Int \X Int, NEW q \in Int \X Int, Along(p, q, 1) < Along(p, q, 2)
  PROVE  LET a == Along(p, q, 1)
             b == Along(p, q, 2)
         IN \E f \in [0..b -> 0..a] :
              /\ \A v \in 0..b : Near(b, a, v, f[v])
              /\ Line2D(p, q) = {<<Spot(p, q, 1, f[v]), Spot(p, q, 2, v)>> : v \in 0..b}
<1>1. PICK a \in Nat : a = Along(p, q, 1)
  BY AlongType
<1>2. PICK b \in Nat : b = Along(p, q, 2)
  BY AlongType
<1> DEFINE pen == Pen(p, q)
           Good(u, v) == Near(b, a, v, u) /\ pen[v] = PenAt(p, q, u, v)
           f == [v \in 0..b |-> CHOOSE u \in 0..a : Good(u, v)]
           P(v) == <<Spot(p, q, 1, f[v]), Spot(p, q, 2, v)>>
<1>3. ASSUME NEW v \in 0..b PROVE f[v] \in 0..a /\ Good(f[v], v)
  <2>1. v \in 0..(a + b) /\ v <= b
    OBVIOUS
  <2>2. \E u \in 0..a : Near(b, a, v, u) /\ pen[v] = PenAt(p, q, u, v)
    BY <1>1, <1>2, <2>1, PenAlongY
  <2> QED
    BY <2>2
<1>4. f \in [0..b -> 0..a]
  BY <1>3
<1> HIDE DEF f
<1>5. DOMAIN pen = 0..(a + b)
  BY <1>1, <1>2, PenIs DEF Along
<1>6. Line2D(p, q) = {<<pen[i][1], pen[i][2]>> : i \in 0..(a + b)}
  BY <1>5 DEF Line2D
<1>7. ASSUME NEW v \in 0..b PROVE <<pen[v][1], pen[v][2]>> = P(v)
  <2>1. pen[v] = PenAt(p, q, f[v], v)
    BY <1>3
  <2> HIDE DEF pen
  <2> QED
    BY <2>1 DEF PenAt
<1>8. ASSUME NEW i \in 0..(a + b), i > b
      PROVE  pen[i] = pen[b]
  <2>1. PICK u \in 0..a : Near(b, a, b, u) /\ pen[i] = PenAt(p, q, u, b)
    BY <1>1, <1>2, <1>8, PenAlongY
  <2>2. u = a
    BY <1>1, <1>2, <2>1, NearStays
  <2>3. f[b] \in 0..a /\ Near(b, a, b, f[b]) /\ pen[b] = PenAt(p, q, f[b], b)
    BY <1>3
  <2>4. f[b] = a
    BY <1>1, <1>2, <2>3, NearStays
  <2> QED
    BY <2>1, <2>2, <2>3, <2>4
<1>9. Line2D(p, q) = {P(v) : v \in 0..b}
  <2>1. ASSUME NEW i \in 0..(a + b)
        PROVE  \E v \in 0..b : <<pen[i][1], pen[i][2]>> = P(v)
    <3>1. CASE i <= b
      BY <1>7, <3>1
    <3>2. CASE i > b
      <4>1. pen[i] = pen[b] /\ b \in 0..b
        BY <1>8, <3>2
      <4>2. <<pen[b][1], pen[b][2]>> = P(b)
        BY <1>7
      <4> HIDE DEF P, pen
      <4> QED
        BY <4>1, <4>2
    <3> QED
      BY <3>1, <3>2
  <2>2. ASSUME NEW v \in 0..b
        PROVE  \E i \in 0..(a + b) : <<pen[i][1], pen[i][2]>> = P(v)
    <3>1. v \in 0..(a + b)
      OBVIOUS
    <3> HIDE DEF P, pen
    <3> QED
      BY <1>7, <3>1
  <2> HIDE DEF P, pen
  <2> QED
    BY <1>6, <2>1, <2>2
<1>10. \A v \in 0..b : Near(b, a, v, f[v])
  BY <1>3
<1> QED
  BY <1>1, <1>2, <1>4, <1>9, <1>10

\* The point u along axis m and v along the other one.
LinePoint(p, q, m, u, v) ==
  IF m = 1 THEN <<Spot(p, q, 1, u), Spot(p, q, 2, v)>>
  ELSE <<Spot(p, q, 1, v), Spot(p, q, 2, u)>>

\* The axis a line is longer along.
LongAxis(p, q) == IF Along(p, q, 1) >= Along(p, q, 2) THEN 1 ELSE 2

\* A line is one point for each step along axis m: f says how far it has gone
\* along the other one.
Follows(p, q, m, f) ==
  /\ f \in [0..Along(p, q, m) -> 0..Along(p, q, 3 - m)]
  /\ \A u \in 0..Along(p, q, m) : Near(Along(p, q, m), Along(p, q, 3 - m), u, f[u])
  /\ Line2D(p, q) = {LinePoint(p, q, m, u, f[u]) : u \in 0..Along(p, q, m)}

LEMMA LineAlong ==
  ASSUME NEW p \in Int \X Int, NEW q \in Int \X Int
  PROVE  \E f : Follows(p, q, LongAxis(p, q), f)
<1>1. PICK a \in Nat : a = Along(p, q, 1)
  BY AlongType
<1>2. PICK b \in Nat : b = Along(p, q, 2)
  BY AlongType
<1>3. CASE b <= a
  <2>1. LongAxis(p, q) = 1 /\ 3 - 1 = 2
    BY <1>1, <1>2, <1>3 DEF LongAxis
  <2>2. PICK f \in [0..a -> 0..b] :
              /\ \A u \in 0..a : Near(a, b, u, f[u])
              /\ Line2D(p, q) = {<<Spot(p, q, 1, u), Spot(p, q, 2, f[u])>> : u \in 0..a}
    BY <1>1, <1>2, <1>3, LineAlongX
  <2>3. \A u, v : LinePoint(p, q, 1, u, v) = <<Spot(p, q, 1, u), Spot(p, q, 2, v)>>
    BY DEF LinePoint
  <2>4. Line2D(p, q) = {LinePoint(p, q, 1, u, f[u]) : u \in 0..a}
    BY <2>2, <2>3
  <2>5. Follows(p, q, 1, f)
    BY <1>1, <1>2, <2>1, <2>2, <2>4 DEF Follows
  <2> QED
    BY <2>1, <2>5
<1>4. CASE ~(b <= a)
  <2>1. LongAxis(p, q) = 2 /\ 3 - 2 = 1 /\ a < b
    BY <1>1, <1>2, <1>4 DEF LongAxis
  <2>2. PICK f \in [0..b -> 0..a] :
              /\ \A v \in 0..b : Near(b, a, v, f[v])
              /\ Line2D(p, q) = {<<Spot(p, q, 1, f[v]), Spot(p, q, 2, v)>> : v \in 0..b}
    BY <1>1, <1>2, <2>1, LineAlongY
  <2>3. \A u, v : LinePoint(p, q, 2, u, v) = <<Spot(p, q, 1, v), Spot(p, q, 2, u)>>
    BY DEF LinePoint
  <2>4. Line2D(p, q) = {LinePoint(p, q, 2, v, f[v]) : v \in 0..b}
    BY <2>2, <2>3
  <2>5. Follows(p, q, 2, f)
    BY <1>1, <1>2, <2>1, <2>2, <2>4 DEF Follows
  <2> QED
    BY <2>1, <2>5
<1> QED
  BY <1>3, <1>4

ScreenPoints == (0..N-1) \X (0..N-1)

\* The points of a step of IsLine.
NextTo(p, q, k) ==
  LET m == LongAxis(p, q)
      o == 3 - m
      L == Along(p, q, m)
  IN {r \in Reach(p, q, 1) \X Reach(p, q, 2) :
        /\ r[m] = k
        /\ 2 * Abs((r[o] - p[o]) * (q[m] - p[m]) - (k - p[m]) * (q[o] - p[o])) <= L
        /\ L = 0 => r = p}

LEMMA LongAxisType ==
  ASSUME NEW p \in Int \X Int, NEW q \in Int \X Int
  PROVE  LET m == LongAxis(p, q)
         IN /\ m \in {1, 2} /\ 3 - m \in {1, 2}
            /\ Along(p, q, m) \in Nat /\ Along(p, q, 3 - m) \in Nat
            /\ Along(p, q, 3 - m) <= Along(p, q, m)
<1>1. PICK a \in Nat : a = Along(p, q, 1)
  BY AlongType
<1>2. PICK b \in Nat : b = Along(p, q, 2)
  BY AlongType
<1>3. 3 - 1 = 2 /\ 3 - 2 = 1
  OBVIOUS
<1>4. CASE a >= b
  <2>1. LongAxis(p, q) = 1
    BY <1>1, <1>2, <1>4 DEF LongAxis
  <2> QED
    BY <1>1, <1>2, <1>3, <1>4, <2>1
<1>5. CASE ~(a >= b)
  <2>1. LongAxis(p, q) = 2
    BY <1>1, <1>2, <1>5 DEF LongAxis
  <2> QED
    BY <1>1, <1>2, <1>3, <1>5, <2>1
<1> QED
  BY <1>4, <1>5

LEMMA LinePointType ==
  ASSUME NEW p \in Int \X Int, NEW q \in Int \X Int, NEW m \in {1, 2},
         NEW u \in 0..Along(p, q, m), NEW v \in 0..Along(p, q, 3 - m)
  PROVE  LET r == LinePoint(p, q, m, u, v)
         IN /\ r \in Int \X Int
            /\ r[m] = Spot(p, q, m, u) /\ r[3 - m] = Spot(p, q, 3 - m, v)
            /\ r \in Reach(p, q, 1) \X Reach(p, q, 2)
<1>1. 3 - 1 = 2 /\ 3 - 2 = 1
  OBVIOUS
<1>2. u \in Int /\ v \in Int
  BY AlongType
<1>3. CASE m = 1
  <2>1. Spot(p, q, 1, u) \in Int /\ Spot(p, q, 1, u) \in Reach(p, q, 1)
    BY <1>2, <1>3, SpotLaw, SpotsReach
  <2>2. Spot(p, q, 2, v) \in Int /\ Spot(p, q, 2, v) \in Reach(p, q, 2)
    BY <1>1, <1>2, <1>3, SpotLaw, SpotsReach
  <2>3. LinePoint(p, q, m, u, v) = <<Spot(p, q, 1, u), Spot(p, q, 2, v)>>
    BY <1>3 DEF LinePoint
  <2> QED
    BY <1>1, <1>3, <2>1, <2>2, <2>3
<1>4. CASE m = 2
  <2>1. Spot(p, q, 1, v) \in Int /\ Spot(p, q, 1, v) \in Reach(p, q, 1)
    BY <1>1, <1>2, <1>4, SpotLaw, SpotsReach
  <2>2. Spot(p, q, 2, u) \in Int /\ Spot(p, q, 2, u) \in Reach(p, q, 2)
    BY <1>2, <1>4, SpotLaw, SpotsReach
  <2>3. LinePoint(p, q, m, u, v) = <<Spot(p, q, 1, v), Spot(p, q, 2, u)>>
    BY <1>4 DEF LinePoint
  <2> QED
    BY <1>1, <1>4, <2>1, <2>2, <2>3
<1> QED
  BY <1>3, <1>4

LEMMA NearIsClose ==
  ASSUME NEW a \in Nat, NEW b \in Nat, NEW u \in Nat, NEW v \in Nat, Near(a, b, u, v)
  PROVE  2 * Abs(a * v - b * u) <= a /\ 2 * Abs(b * u - a * v) <= a
<1>1. PICK A \in Int : A = a * v
  OBVIOUS
<1>2. PICK B \in Int : B = b * u
  OBVIOUS
<1>3. 2 * (A - B) <= a /\ -a <= 2 * (A - B)
  BY <1>1, <1>2 DEF Near
<1>4. 2 * Abs(A - B) <= a /\ 2 * Abs(B - A) <= a
  BY <1>3 DEF Abs
<1> QED
  BY <1>1, <1>2, <1>4

LEMMA SpotsClose ==
  ASSUME NEW p \in Int \X Int, NEW q \in Int \X Int, NEW m \in {1, 2},
         NEW u \in Nat, NEW v \in Nat,
         Near(Along(p, q, m), Along(p, q, 3 - m), u, v)
  PROVE  2 * Abs((Spot(p, q, 3 - m, v) - p[3 - m]) * (q[m] - p[m])
                  - (Spot(p, q, m, u) - p[m]) * (q[3 - m] - p[3 - m]))
           <= Along(p, q, m)
<1>1. 3 - 1 = 2 /\ 3 - 2 = 1
  OBVIOUS
<1>2. PICK a \in Nat : a = Along(p, q, 1)
  BY AlongType
<1>3. PICK b \in Nat : b = Along(p, q, 2)
  BY AlongType
<1>6. u \in Int /\ v \in Int
  OBVIOUS
<1>4. CASE m = 1
  <2>1. Near(a, b, u, v)
    BY <1>1, <1>2, <1>3, <1>4
  <2>2. 2 * Abs(a * v - b * u) <= a
    BY <2>1, NearIsClose
  <2>3. Abs((Spot(p, q, 2, v) - p[2]) * (q[1] - p[1])
             - (Spot(p, q, 1, u) - p[1]) * (q[2] - p[2]))
          = Abs(Along(p, q, 1) * v - Along(p, q, 2) * u)
    BY <1>6, SpotsOff
  <2> QED
    BY <1>1, <1>2, <1>3, <1>4, <2>2, <2>3
<1>5. CASE m = 2
  <2>1. Near(b, a, u, v)
    BY <1>1, <1>2, <1>3, <1>5
  <2>2. 2 * Abs(b * v - a * u) <= b
    BY <2>1, NearIsClose
  <2>3. Abs((Spot(p, q, 1, v) - p[1]) * (q[2] - p[2])
             - (Spot(p, q, 2, u) - p[2]) * (q[1] - p[1]))
          = Abs(Along(p, q, 2) * v - Along(p, q, 1) * u)
    BY <1>6, SpotsOff
  <2> QED
    BY <1>1, <1>2, <1>3, <1>5, <2>2, <2>3
<1> QED
  BY <1>4, <1>5

\* The only point of the line at each step is next to it.
LEMMA LinePointNext ==
  ASSUME NEW p \in Int \X Int, NEW q \in Int \X Int, NEW f,
         Follows(p, q, LongAxis(p, q), f),
         NEW u \in 0..Along(p, q, LongAxis(p, q))
  PROVE  LET m == LongAxis(p, q)
             r == LinePoint(p, q, m, u, f[u])
         IN r \in NextTo(p, q, Spot(p, q, m, u)) /\ r[m] = Spot(p, q, m, u)
<1>1. PICK m \in {1, 2} : m = LongAxis(p, q)
  BY LongAxisType
<1>2. PICK a \in Nat : a = Along(p, q, m)
  BY AlongType
<1>3. 3 - m \in {1, 2}
  BY <1>1
<1>4. PICK b \in Nat : b = Along(p, q, 3 - m)
  BY <1>3, AlongType
<1>5. b <= a
  BY <1>1, <1>2, <1>4, LongAxisType
<1>6. f[u] \in 0..b /\ Near(a, b, u, f[u]) /\ u \in 0..a
  BY <1>1, <1>2, <1>4 DEF Follows
<1>7. PICK v \in 0..b : v = f[u]
  BY <1>6
<1> DEFINE r == LinePoint(p, q, m, u, v)
<1>8. /\ r \in Reach(p, q, 1) \X Reach(p, q, 2) /\ r \in Int \X Int
      /\ r[m] = Spot(p, q, m, u) /\ r[3 - m] = Spot(p, q, 3 - m, v)
  BY <1>2, <1>4, <1>6, LinePointType
<1>9. 2 * Abs((Spot(p, q, 3 - m, v) - p[3 - m]) * (q[m] - p[m])
               - (Spot(p, q, m, u) - p[m]) * (q[3 - m] - p[3 - m])) <= a
  BY <1>2, <1>4, <1>6, <1>7, SpotsClose
<1>10. ASSUME a = 0 PROVE r = p
  <2>1. b = 0 /\ u = 0 /\ v = 0
    BY <1>5, <1>6, <1>10
  <2>7. Spot(p, q, m, 0) = p[m]
    BY SpotFirst
  <2>8. Spot(p, q, 3 - m, 0) = p[3 - m]
    BY <1>3, SpotFirst
  <2>2. r[m] = p[m]
    BY <1>8, <2>1, <2>7
  <2>3. r[3 - m] = p[3 - m]
    BY <1>8, <2>1, <2>8
  <2>4. r[1] = p[1] /\ r[2] = p[2]
    BY <2>2, <2>3
  <2> HIDE DEF r
  <2> QED
    BY <1>8, <2>4
<1> HIDE DEF r
<1>11. r \in NextTo(p, q, Spot(p, q, m, u))
  BY <1>1, <1>2, <1>8, <1>9, <1>10 DEF NextTo
<1> QED
  BY <1>1, <1>7, <1>8, <1>11 DEF r

LEMMA LineIsLine ==
  ASSUME NEW p \in Int \X Int, NEW q \in Int \X Int
  PROVE  IsLine(Line2D(p, q) \cap ScreenPoints, p, q)
<1>1. PICK m \in {1, 2} : m = LongAxis(p, q)
  BY LongAxisType
<1>2. PICK f : Follows(p, q, m, f)
  BY <1>1, LineAlong
<1> DEFINE a == Along(p, q, m)
           P(u) == LinePoint(p, q, m, u, f[u])
           S == Line2D(p, q) \cap ScreenPoints
<1>3. Line2D(p, q) = {P(u) : u \in 0..a}
  BY <1>2 DEF Follows
<1>4. ASSUME NEW u \in 0..a
      PROVE  P(u) \in NextTo(p, q, Spot(p, q, m, u)) /\ P(u)[m] = Spot(p, q, m, u)
  BY <1>1, <1>2, LinePointNext
<1>5. ASSUME NEW u \in 0..a PROVE Spot(p, q, m, u) \in Reach(p, q, m)
  BY SpotsReach
<1>6. ASSUME NEW k \in Reach(p, q, m)
      PROVE  \E u \in 0..a : k = Spot(p, q, m, u)
  BY SpotsReach
<1>13. ASSUME NEW u \in 0..a, NEW w \in 0..a, Spot(p, q, m, u) = Spot(p, q, m, w)
       PROVE  u = w
  <2>1. u \in Int /\ w \in Int
    BY AlongType
  <2> QED
    BY <1>13, <2>1, SpotsReach
<1> HIDE DEF P, a
<1>7. S \subseteq UNION {NextTo(p, q, k) : k \in Reach(p, q, m)}
  BY <1>3, <1>4, <1>5
<1>8. ASSUME NEW k \in Reach(p, q, m)
      PROVE  LET R == S \cap NextTo(p, q, k) IN
               IF NextTo(p, q, k) \subseteq ScreenPoints THEN Cardinality(R) = 1
               ELSE Cardinality(R) <= 1
  <2>1. PICK u \in 0..a : k = Spot(p, q, m, u)
    BY <1>6
  <2>2. P(u) \in NextTo(p, q, k) /\ P(u) \in Line2D(p, q)
    BY <1>3, <1>4, <2>1
  <2>3. ASSUME NEW r \in Line2D(p, q), r \in NextTo(p, q, k) PROVE r = P(u)
    <3>1. PICK w \in 0..a : r = P(w)
      BY <1>3
    <3>2. r[m] = Spot(p, q, m, w)
      BY <1>4, <3>1
    <3>3. r[m] = k
      BY <1>1, <2>3 DEF NextTo
    <3> QED
      BY <1>13, <2>1, <3>1, <3>2, <3>3
  <2> DEFINE R == S \cap NextTo(p, q, k)
  <2>4. R = {} \/ R = {P(u)}
    BY <2>3
  <2>5. NextTo(p, q, k) \subseteq ScreenPoints => P(u) \in R
    BY <2>2
  <2>6. Cardinality({}) = 0
    BY FS_EmptySet
  <2>7. Cardinality({P(u)}) = 1
    BY FS_Singleton
  <2> HIDE DEF R
  <2>8. Cardinality(R) \in {0, 1}
    BY <2>4, <2>6, <2>7
  <2>9. NextTo(p, q, k) \subseteq ScreenPoints => Cardinality(R) = 1
    BY <2>4, <2>5, <2>7
  <2> QED
    BY <2>8, <2>9 DEF R
<1> HIDE DEF S
<1> DEFINE m0 == IF Abs(q[1] - p[1]) >= Abs(q[2] - p[2]) THEN 1 ELSE 2
           range(i) == p[i]..q[i] \cup q[i]..p[i]
           next(k) ==
             {r \in range(1) \X range(2) :
                /\ r[m0] = k
                /\ 2 * Abs((r[3 - m0] - p[3 - m0]) * (q[m0] - p[m0])
                             - (k - p[m0]) * (q[3 - m0] - p[3 - m0])) <= Abs(q[m0] - p[m0])
                /\ Abs(q[m0] - p[m0]) = 0 => r = p}
<1>9. m0 = m
  BY <1>1 DEF LongAxis, Along
<1>10. range(m0) = Reach(p, q, m)
  BY <1>9 DEF Reach
<1>11. ASSUME NEW k PROVE next(k) = NextTo(p, q, k)
  BY DEF NextTo, LongAxis, Along, Reach
<1>12. IsLine(S, p, q) =
         (/\ S \subseteq UNION {next(k) : k \in range(m0)}
          /\ \A k \in range(m0) : LET R == S \cap next(k) IN
                IF next(k) \subseteq (0..N-1) \X (0..N-1) THEN Cardinality(R) = 1
                ELSE Cardinality(R) <= 1)
  BY DEF IsLine
<1> HIDE DEF next, range, m0
<1>14. S \subseteq UNION {next(k) : k \in range(m0)}
  BY <1>7, <1>10, <1>11
<1>15. ASSUME NEW k \in range(m0)
       PROVE  LET R == S \cap next(k) IN
                IF next(k) \subseteq (0..N-1) \X (0..N-1) THEN Cardinality(R) = 1
                ELSE Cardinality(R) <= 1
  BY <1>8, <1>10, <1>11 DEF ScreenPoints
<1> QED
  BY <1>12, <1>14, <1>15 DEF S

LEMMA AlongNothing ==
  ASSUME NEW p \in Int \X Int, NEW q \in Int \X Int, NEW k \in {1, 2}
  PROVE  /\ Along(p, q, k) = 0 => Reach(p, q, k) = {p[k]}
         /\ p[k] = q[k] => Along(p, q, k) = 0
<1>1. PICK m \in Int : m = p[k]
  BY AlongType
<1>2. PICK n \in Int : n = q[k]
  BY AlongType
<1>3. Along(p, q, k) = Abs(n - m) /\ Reach(p, q, k) = m..n \cup n..m
  BY <1>1, <1>2 DEF Along, Reach
<1>4. (Abs(n - m) = 0) <=> (m = n)
  BY DEF Abs
<1>5. m..m \cup m..m = {m}
  OBVIOUS
<1> QED
  BY <1>1, <1>2, <1>3, <1>4, <1>5

\* A line along an axis is all of the points between its ends.
LEMMA StraightLine ==
  ASSUME NEW p \in Int \X Int, NEW q \in Int \X Int, p[1] = q[1] \/ p[2] = q[2]
  PROVE  Line2D(p, q) = Reach(p, q, 1) \X Reach(p, q, 2)
<1>1. PICK m \in {1, 2} : m = LongAxis(p, q)
  BY LongAxisType
<1>2. PICK a \in Nat : a = Along(p, q, m)
  BY AlongType
<1>3. 3 - m \in {1, 2} /\ 3 - 1 = 2 /\ 3 - 2 = 1
  BY <1>1
<1>4. PICK b \in Nat : b = Along(p, q, 3 - m)
  BY <1>3, AlongType
<1>5. b = 0
  <2>1. b <= a
    BY <1>1, <1>2, <1>4, LongAxisType
  <2>2. p[m] = q[m] \/ p[3 - m] = q[3 - m]
    BY <1>3
  <2>3. p[m] = q[m] => a = 0
    BY <1>2, AlongNothing
  <2>4. p[3 - m] = q[3 - m] => b = 0
    BY <1>3, <1>4, AlongNothing
  <2> QED
    BY <2>1, <2>2, <2>3, <2>4
<1>6. Reach(p, q, 3 - m) = {p[3 - m]}
  BY <1>3, <1>4, <1>5, AlongNothing
<1>7. PICK f : Follows(p, q, m, f)
  BY <1>1, LineAlong
<1>8. \A u \in 0..a : f[u] = 0
  BY <1>2, <1>4, <1>5, <1>7 DEF Follows
<1>9. Line2D(p, q) = {LinePoint(p, q, m, u, 0) : u \in 0..a}
  BY <1>2, <1>7, <1>8 DEF Follows
<1>10. Spot(p, q, 3 - m, 0) = p[3 - m]
  BY <1>3, SpotFirst
<1>11. \A u \in 0..a : Spot(p, q, m, u) \in Reach(p, q, m)
  BY <1>2, SpotsReach
<1>12. \A k \in Reach(p, q, m) : \E u \in 0..a : k = Spot(p, q, m, u)
  BY <1>2, SpotsReach
<1>13. CASE m = 1
  <2>1. Line2D(p, q) = {<<Spot(p, q, 1, u), p[2]>> : u \in 0..a}
    BY <1>3, <1>9, <1>10, <1>13 DEF LinePoint
  <2> QED
    BY <1>3, <1>6, <1>11, <1>12, <1>13, <2>1
<1>14. CASE m = 2
  <2>1. Line2D(p, q) = {<<p[1], Spot(p, q, 2, u)>> : u \in 0..a}
    BY <1>3, <1>9, <1>10, <1>14 DEF LinePoint
  <2> QED
    BY <1>3, <1>6, <1>11, <1>12, <1>14, <2>1
<1> QED
  BY <1>13, <1>14

LEMMA Sides ==
  ASSUME NEW p \in Int \X Int, NEW q \in Int \X Int
  PROVE  /\ Line2D(p, <<p[1], q[2]>>) = {p[1]} \X (p[2]..q[2] \cup q[2]..p[2])
         /\ Line2D(p, <<q[1], p[2]>>) = (p[1]..q[1] \cup q[1]..p[1]) \X {p[2]}
<1>1. PICK x \in Int : x = p[1]
  OBVIOUS
<1>2. PICK y \in Int : y = p[2]
  OBVIOUS
<1>3. PICK v \in Int : v = q[1]
  OBVIOUS
<1>4. PICK w \in Int : w = q[2]
  OBVIOUS
<1>5. p = <<x, y>>
  BY <1>1, <1>2
<1>6. Line2D(p, <<x, w>>) = {x} \X (y..w \cup w..y)
  <2>1. <<x, w>> \in Int \X Int /\ p[1] = <<x, w>>[1]
    BY <1>5
  <2>2. Line2D(p, <<x, w>>) = Reach(p, <<x, w>>, 1) \X Reach(p, <<x, w>>, 2)
    BY <2>1, StraightLine
  <2>3. Reach(p, <<x, w>>, 1) = x..x \cup x..x /\ x..x \cup x..x = {x}
    BY <1>5 DEF Reach
  <2>4. Reach(p, <<x, w>>, 2) = y..w \cup w..y
    BY <1>5 DEF Reach
  <2> QED
    BY <2>2, <2>3, <2>4
<1>7. Line2D(p, <<v, y>>) = (x..v \cup v..x) \X {y}
  <2>1. <<v, y>> \in Int \X Int /\ p[2] = <<v, y>>[2]
    BY <1>5
  <2>2. Line2D(p, <<v, y>>) = Reach(p, <<v, y>>, 1) \X Reach(p, <<v, y>>, 2)
    BY <2>1, StraightLine
  <2>3. Reach(p, <<v, y>>, 2) = y..y \cup y..y /\ y..y \cup y..y = {y}
    BY <1>5 DEF Reach
  <2>4. Reach(p, <<v, y>>, 1) = x..v \cup v..x
    BY <1>5 DEF Reach
  <2> QED
    BY <2>2, <2>3, <2>4
<1> QED
  BY <1>1, <1>2, <1>3, <1>4, <1>6, <1>7

LEMMA RectIsBorder ==
  ASSUME NEW p \in Int \X Int, NEW q \in Int \X Int
  PROVE  Rect2D(p, q) = Border(p, q)
<1>1. Line2D(p, <<p[1], q[2]>>) = {p[1]} \X (p[2]..q[2] \cup q[2]..p[2])
  BY Sides
<1>2. Line2D(p, <<q[1], p[2]>>) = (p[1]..q[1] \cup q[1]..p[1]) \X {p[2]}
  BY Sides
<1>3. Line2D(q, <<q[1], p[2]>>) = {q[1]} \X (q[2]..p[2] \cup p[2]..q[2])
  BY Sides
<1>4. Line2D(q, <<p[1], q[2]>>) = (q[1]..p[1] \cup p[1]..q[1]) \X {q[2]}
  BY Sides
<1> QED
  BY <1>1, <1>2, <1>3, <1>4 DEF Rect2D, Border

LEMMA FillIsInside ==
  ASSUME NEW p \in Int \X Int, NEW q \in Int \X Int
  PROVE  RectFill(p, q) = (p[1]..q[1]-1) \X (p[2]..q[2] \cup q[2]..p[2])
<1>1. ASSUME NEW i \in p[1]..q[1]-1
      PROVE  Line2D(<<i, p[2]>>, <<i, q[2]>>) = {i} \X (p[2]..q[2] \cup q[2]..p[2])
  <2>4. p[1] \in Int /\ p[2] \in Int /\ q[1] \in Int /\ q[2] \in Int
    OBVIOUS
  <2>5. i \in Int
    BY <2>4
  <2>1. PICK r \in Int \X Int : r = <<i, p[2]>>
    BY <2>4, <2>5
  <2>2. PICK s \in Int \X Int : s = <<i, q[2]>>
    BY <2>4, <2>5
  <2>3. Line2D(r, <<r[1], s[2]>>) = {r[1]} \X (r[2]..s[2] \cup s[2]..r[2])
    BY Sides
  <2> QED
    BY <2>1, <2>2, <2>3
<1>2. RectFill(p, q) = UNION {{i} \X (p[2]..q[2] \cup q[2]..p[2]) : i \in p[1]..q[1]-1}
  BY <1>1 DEF RectFill
<1> QED
  BY <1>2

\* A filled rectangle is its border and what is inside of it.
LEMMA RectIsFilled ==
  ASSUME NEW p \in Int \X Int, NEW q \in Int \X Int
  PROVE  /\ Border(p, q) \cup RectFill(p, q) = Border(p, q) \cup Inside(p, q)
         /\ RectFill(p, q) \subseteq Inside(p, q)
         /\ Inside(p, q) \subseteq Int \X Int /\ Border(p, q) \subseteq Int \X Int
<1>1. PICK x \in Int : x = p[1]
  OBVIOUS
<1>2. PICK y \in Int : y = p[2]
  OBVIOUS
<1>3. PICK v \in Int : v = q[1]
  OBVIOUS
<1>4. PICK w \in Int : w = q[2]
  OBVIOUS
<1> DEFINE Y == y..w \cup w..y
<1>5. Border(p, q) = {x, v} \X Y \cup (x..v \cup v..x) \X {y, w}
  BY <1>1, <1>2, <1>3, <1>4 DEF Border
<1>6. RectFill(p, q) = (x..v-1) \X Y
  BY <1>1, <1>2, <1>3, <1>4, FillIsInside
<1>7. Inside(p, q) = (x..v) \X Y
  BY <1>1, <1>2, <1>3, <1>4 DEF Inside
<1>8. x..v-1 \subseteq x..v /\ \A i \in x..v : i \in x..v-1 \/ i = v
  OBVIOUS
<1>9. Y \subseteq Int /\ x..v \subseteq Int /\ v..x \subseteq Int
  OBVIOUS
<1> HIDE DEF Y
<1>10. RectFill(p, q) \subseteq Inside(p, q)
  BY <1>6, <1>7, <1>8
<1>11. Inside(p, q) \subseteq Border(p, q) \cup RectFill(p, q)
  <2>1. ASSUME NEW r \in Inside(p, q) PROVE r \in Border(p, q) \cup RectFill(p, q)
    <3>1. PICK i \in x..v, j \in Y : r = <<i, j>>
      BY <1>7
    <3>2. CASE i \in x..v-1
      BY <1>6, <3>1, <3>2
    <3>3. CASE i = v
      BY <1>5, <3>1, <3>3
    <3> QED
      BY <1>8, <3>2, <3>3
  <2> QED
    BY <2>1
<1>12. Inside(p, q) \subseteq Int \X Int
  BY <1>7, <1>9
<1>13. Border(p, q) \subseteq Int \X Int
  BY <1>5, <1>9
<1> QED
  BY <1>10, <1>11, <1>12, <1>13

(* What of a shape is on the screen. *)

\* Painting places of a screen colours those of its pixels.
LEMMA PaintedPlaces ==
  ASSUME NEW s \in Screens, NEW points \in SUBSET (Int \X Int), NEW screens, NEW col
  PROVE  Painted(screens, {getPointOnScreen(s, p[1], p[2]) : p \in points}, col)
           = [px \in Pixels |-> IF px[1] = s /\ <<px[2], px[3]>> \in points THEN col
                                ELSE screens[px]]
<1> DEFINE On == {getPointOnScreen(s, p[1], p[2]) : p \in points}
           Q == UNION {Lit(p) : p \in On}
<1>1. ASSUME NEW px \in Pixels
      PROVE  px \in Q <=> px[1] = s /\ <<px[2], px[3]>> \in points
  <2>1. PICK t \in Screens, i \in 0..N-1, j \in 0..N-1 : px = <<t, i, j>>
    BY DEF Pixels
  <2>2. ASSUME px \in Q PROVE px[1] = s /\ <<px[2], px[3]>> \in points
    <3>1. PICK p \in points : px \in Lit(getPointOnScreen(s, p[1], p[2]))
      BY <2>2
    <3>2. PICK a \in Int, b \in Int : p = <<a, b>>
      OBVIOUS
    <3>3. px \in {<<s, a, b>>} \cap Pixels
      BY <3>1, <3>2, PointsStayOnScreen
    <3> QED
      BY <3>2, <3>3
  <2>3. ASSUME px[1] = s, <<px[2], px[3]>> \in points PROVE px \in Q
    <3>1. N \in Nat
      BY GeometryAssumption
    <3>2. i \in Int /\ j \in Int /\ px = <<s, i, j>> /\ <<i, j>> \in points
      BY <2>1, <2>3, <3>1
    <3>3. Lit(getPointOnScreen(s, i, j)) = {<<s, i, j>>} \cap Pixels
      BY <3>2, PointsStayOnScreen
    <3>4. getPointOnScreen(s, i, j) \in On
      BY <3>2
    <3> HIDE DEF On
    <3> QED
      BY <3>2, <3>3, <3>4
  <2> QED
    BY <2>2, <2>3
<1>2. Painted(screens, On, col) = [px \in Pixels |-> IF px \in Q THEN col ELSE screens[px]]
  BY DEF Painted
<1> HIDE DEF Q, On
<1> QED
  BY <1>1, <1>2 DEF On

\* A screen with some places in the colour of a fill and some drawn over it.
Drawn(s, F, O) ==
  [px \in Pixels |-> IF px[1] = s /\ <<px[2], px[3]>> \in O THEN Col
                     ELSE IF px[1] = s /\ <<px[2], px[3]>> \in F THEN FillCol
                     ELSE Black]

LEMMA DrawnPlaces ==
  ASSUME NEW s \in Screens, NEW F \in SUBSET (Int \X Int), NEW O \in SUBSET (Int \X Int)
  PROVE  Painted(Painted(Dark, {getPointOnScreen(s, p[1], p[2]) : p \in F}, FillCol),
                 {getPointOnScreen(s, p[1], p[2]) : p \in O}, Col) = Drawn(s, F, O)
<1> DEFINE filled == [px \in Pixels |-> IF px[1] = s /\ <<px[2], px[3]>> \in F THEN FillCol
                                        ELSE Dark[px]]
<1>1. Painted(Dark, {getPointOnScreen(s, p[1], p[2]) : p \in F}, FillCol) = filled
  BY PaintedPlaces
<1>2. Painted(filled, {getPointOnScreen(s, p[1], p[2]) : p \in O}, Col)
        = [px \in Pixels |-> IF px[1] = s /\ <<px[2], px[3]>> \in O THEN Col ELSE filled[px]]
  BY PaintedPlaces
<1>3. [px \in Pixels |-> IF px[1] = s /\ <<px[2], px[3]>> \in O THEN Col ELSE filled[px]]
        = Drawn(s, F, O)
  BY DEF Drawn, Dark
<1> QED
  BY <1>1, <1>2, <1>3

\* What ShapesClipToScreen reads off such a screen.
LEMMA DrawnReads ==
  ASSUME NEW s \in Screens, NEW F, NEW O, light = Drawn(s, F, O)
  PROVE  /\ \A px \in LitPixels : px[1] = s
         /\ {<<px[2], px[3]>> : px \in LitPixels} = (F \cup O) \cap ScreenPoints
         /\ \A r \in (F \cup O) \cap ScreenPoints :
              light[<<s, r[1], r[2]>>] = IF r \in O THEN Col ELSE FillCol
<1>1. Col # Black /\ FillCol # Black
  BY DEF Col, FillCol, Black
<1>2. ASSUME NEW px \in LitPixels
      PROVE  px[1] = s /\ <<px[2], px[3]>> \in (F \cup O) \cap ScreenPoints
  <2>1. px \in Pixels /\ light[px] # Black
    BY DEF LitPixels
  <2>2. PICK t \in Screens, i \in 0..N-1, j \in 0..N-1 : px = <<t, i, j>>
    BY <2>1 DEF Pixels
  <2>3. px[1] = s /\ <<px[2], px[3]>> \in F \cup O
    BY <2>1 DEF Drawn
  <2> QED
    BY <2>2, <2>3 DEF ScreenPoints
<1>3. ASSUME NEW r \in (F \cup O) \cap ScreenPoints
      PROVE  LET px == <<s, r[1], r[2]>>
             IN /\ px \in LitPixels /\ r = <<px[2], px[3]>>
                /\ light[px] = IF r \in O THEN Col ELSE FillCol
  <2>1. PICK i \in 0..N-1, j \in 0..N-1 : r = <<i, j>>
    BY DEF ScreenPoints
  <2> DEFINE px == <<s, r[1], r[2]>>
  <2>2. px \in Pixels /\ px[1] = s /\ <<px[2], px[3]>> = r
    BY <2>1 DEF Pixels
  <2>3. r \in O \/ r \in F
    OBVIOUS
  <2> HIDE DEF px
  <2>4. light[px] = IF r \in O THEN Col ELSE FillCol
    BY <2>2, <2>3 DEF Drawn
  <2>5. px \in LitPixels
    BY <1>1, <2>2, <2>4 DEF LitPixels
  <2> QED
    BY <2>2, <2>4, <2>5 DEF px
<1>4. {<<px[2], px[3]>> : px \in LitPixels} = (F \cup O) \cap ScreenPoints
  <2> DEFINE S == {<<px[2], px[3]>> : px \in LitPixels}
             R == (F \cup O) \cap ScreenPoints
  <2>1. ASSUME NEW r \in S PROVE r \in R
    BY <1>2
  <2>2. ASSUME NEW r \in R PROVE r \in S
    <3>1. \E px \in LitPixels : r = <<px[2], px[3]>>
      BY <1>3
    <3> QED
      BY <3>1
  <2> HIDE DEF S, R
  <2>3. S = R
    BY <2>1, <2>2
  <2> QED
    BY <2>3 DEF S, R
<1> QED
  BY <1>2, <1>3, <1>4

(* Circles. *)

Pair == Int \X Int

\* One round of the loop.
ArcStep(y, o) ==
  IF o[2] < 0 THEN <<o[1], o[2] + 2 * y + 1>>
  ELSE <<o[1] - 1, o[2] + 2 * (y - (o[1] - 1) + 1)>>

LEMMA ArcStepType ==
  ASSUME NEW y \in Int, NEW o \in Pair
  PROVE  ArcStep(y, o) \in Pair /\ ArcStep(y, o)[1] \in {o[1], o[1] - 1}
<1>1. PICK a \in Int, b \in Int : o = <<a, b>>
  BY DEF Pair
<1> QED
  BY <1>1 DEF ArcStep, Pair

LEMMA ArcIs ==
  ASSUME NEW r \in Nat
  PROVE  LET arc == Arc(r)
         IN /\ arc \in [0..r -> Pair]
            /\ arc[0] = <<r, 1 - r>>
            /\ \A y \in 1..r : arc[y] = ArcStep(y, arc[y - 1])
<1> DEFINE base == <<r, 1 - r>>
           E(g) == [y \in 0..r |-> IF y = 0 THEN base ELSE ArcStep(y, g[y - 1])]
           arc == CHOOSE g : g = E(g)
           step == [u \in Nat \X Pair |-> ArcStep(u[1], u[2])]
<1>1. Arc(r) = arc
  BY DEF Arc, ArcStep
<1>2. base \in Pair
  BY DEF Pair
<1>3. step \in [Nat \X Pair -> Pair]
  BY ArcStepType
<1>4. PICK f : Steps(f, Pair, base, step, r)
  <2> HIDE DEF step, base
  <2> QED
    BY <1>2, <1>3, StepsExist
<1> HIDE DEF base
<1>5. f = E(f)
  <2>1. ASSUME NEW i \in 0..r PROVE f[i] = E(f)[i]
    <3>1. CASE i = 0
      BY <1>4, <3>1 DEF Steps
    <3>2. CASE i # 0
      <4>1. i \in 1..r /\ i - 1 \in 0..r /\ i \in Nat
        BY <3>2
      <4>2. f[i] = step[<<i, f[i - 1]>>] /\ f[i - 1] \in Pair
        BY <1>4, <4>1 DEF Steps
      <4> QED
        BY <3>2, <4>1, <4>2
    <3> QED
      BY <3>1, <3>2
  <2>2. DOMAIN f = 0..r /\ f = [i \in 0..r |-> f[i]]
    BY <1>4 DEF Steps
  <2>3. E(f) = [i \in 0..r |-> E(f)[i]]
    OBVIOUS
  <2> HIDE DEF E
  <2> QED
    BY <2>1, <2>2, <2>3
<1>6. arc = E(arc)
  <2> HIDE DEF E
  <2> QED
    BY <1>5
<1> HIDE DEF arc, step
<1>7. /\ DOMAIN arc = 0..r /\ arc[0] = base
      /\ \A y \in 1..r : arc[y] = ArcStep(y, arc[y - 1])
  BY <1>6
<1>8. \A y \in 0..r : arc[y] \in Pair
  <2> DEFINE S == {y \in 0..r : arc[y] \notin Pair}
  <2>1. SUFFICES ASSUME S # {} PROVE FALSE
    OBVIOUS
  <2>2. PICK k \in S : \A j \in S : k <= j
    <3>1. S \in SUBSET Nat
      OBVIOUS
    <3> HIDE DEF S
    <3> QED
      BY <2>1, <3>1, LeastExists
  <2>3. k # 0
    BY <1>2, <1>7, <2>2
  <2>4. k \in 1..r /\ k \in Int /\ k - 1 \in 0..r /\ k - 1 \notin S
    BY <2>2, <2>3
  <2> QED
    BY <1>7, <2>2, <2>4, ArcStepType
<1>9. arc = [y \in 0..r |-> arc[y]]
  BY <1>6
<1> QED
  BY <1>1, <1>7, <1>8, <1>9 DEF base

\* The error says how far off the circle the point is, and while y is at most x
\* that is no more than the radius.
OnArc(r, y, o) ==
  /\ o[1] <= r
  /\ o[2] = o[1] * o[1] - 2 * o[1] + y * y + 2 * y + 1 - r * r + r
  /\ y <= o[1] => /\ o[1] * o[1] + y * y - r * r <= r
                  /\ -r <= o[1] * o[1] + y * y - r * r

LEMMA OnArcStays ==
  ASSUME NEW r \in Nat, NEW y \in Nat, NEW o \in Pair, OnArc(r, y, o)
  PROVE  OnArc(r, y + 1, ArcStep(y + 1, o))
<1>1. PICK x \in Int, e \in Int : o = <<x, e>>
  BY DEF Pair
<1>2. PICK A \in Int : A = x * x
  OBVIOUS
<1>3. PICK B \in Int : B = y * y
  OBVIOUS
<1>4. PICK C \in Int : C = r * r
  OBVIOUS
<1>5. /\ x <= r /\ e = A - 2 * x + B + 2 * y + 1 - C + r
      /\ y <= x => A + B - C <= r /\ -r <= A + B - C
  BY <1>1, <1>2, <1>3, <1>4 DEF OnArc
<1>6. (y + 1) * (y + 1) = B + 2 * y + 1
  BY <1>3
<1>7. CASE e < 0
  <2>1. ArcStep(y + 1, o) = <<x, e + 2 * (y + 1) + 1>>
    BY <1>1, <1>7 DEF ArcStep
  <2>2. e + 2 * (y + 1) + 1 = A - 2 * x + (B + 2 * y + 1) + 2 * (y + 1) + 1 - C + r
    BY <1>5
  <2>3. ASSUME y + 1 <= x
        PROVE  A + (B + 2 * y + 1) - C <= r /\ -r <= A + (B + 2 * y + 1) - C
    BY <1>5, <1>7, <2>3
  <2> QED
    BY <1>2, <1>4, <1>5, <1>6, <2>1, <2>2, <2>3 DEF OnArc
<1>8. CASE ~(e < 0)
  <2>1. ArcStep(y + 1, o) = <<x - 1, e + 2 * ((y + 1) - (x - 1) + 1)>>
    BY <1>1, <1>8 DEF ArcStep
  <2>4. (x - 1) * (x - 1) = A - 2 * x + 1
    BY <1>2
  <2>2. e + 2 * ((y + 1) - (x - 1) + 1)
          = (A - 2 * x + 1) - 2 * (x - 1) + (B + 2 * y + 1) + 2 * (y + 1) + 1 - C + r
    BY <1>5
  <2>3. ASSUME y + 1 <= x - 1
        PROVE  /\ (A - 2 * x + 1) + (B + 2 * y + 1) - C <= r
               /\ -r <= (A - 2 * x + 1) + (B + 2 * y + 1) - C
    BY <1>5, <1>8, <2>3
  <2>5. PICK X \in Int : X = x - 1
    OBVIOUS
  <2>6. PICK Y \in Int : Y = y + 1
    OBVIOUS
  <2>7. PICK D \in Int : D = e + 2 * ((y + 1) - (x - 1) + 1)
    OBVIOUS
  <2>8. X * X = A - 2 * x + 1 /\ Y * Y = B + 2 * y + 1
    BY <1>6, <2>4, <2>5, <2>6
  <2>9. X <= r /\ D = X * X - 2 * X + Y * Y + 2 * Y + 1 - r * r + r
    BY <1>4, <1>5, <2>2, <2>5, <2>6, <2>7, <2>8
  <2>10. Y <= X => /\ X * X + Y * Y - r * r <= r /\ -r <= X * X + Y * Y - r * r
    BY <1>4, <2>3, <2>5, <2>6, <2>8
  <2>11. OnArc(r, Y, <<X, D>>)
    BY <2>9, <2>10 DEF OnArc
  <2> QED
    BY <2>1, <2>5, <2>6, <2>7, <2>11
<1> QED
  BY <1>7, <1>8

LEMMA ArcLaw ==
  ASSUME NEW r \in Nat, NEW y \in 0..r
  PROVE  OnArc(r, y, Arc(r)[y])
<1> DEFINE arc == Arc(r)
           S == {k \in 0..r : ~OnArc(r, k, arc[k])}
<1>1. SUFFICES ASSUME S # {} PROVE FALSE
  OBVIOUS
<1>2. PICK k \in S : \A j \in S : k <= j
  <2>1. S \in SUBSET Nat
    OBVIOUS
  <2> HIDE DEF S
  <2> QED
    BY <1>1, <2>1, LeastExists
<1>3. /\ arc \in [0..r -> Pair] /\ arc[0] = <<r, 1 - r>>
      /\ \A i \in 1..r : arc[i] = ArcStep(i, arc[i - 1])
  BY ArcIs
<1> HIDE DEF arc
<1>4. k # 0
  <2>1. PICK C \in Int : C = r * r
    OBVIOUS
  <2>2. 0 * 0 = 0
    OBVIOUS
  <2>3. OnArc(r, 0, arc[0])
    BY <1>3, <2>1, <2>2 DEF OnArc
  <2> QED
    BY <1>2, <2>3
<1>5. k \in 1..r /\ k - 1 \in 0..r /\ k - 1 \in Nat /\ k - 1 \notin S /\ (k - 1) + 1 = k
  BY <1>2, <1>4
<1>6. OnArc(r, k - 1, arc[k - 1]) /\ arc[k - 1] \in Pair
  BY <1>3, <1>5
<1>7. OnArc(r, (k - 1) + 1, ArcStep((k - 1) + 1, arc[k - 1]))
  BY <1>5, <1>6, OnArcStays
<1> QED
  BY <1>2, <1>3, <1>5, <1>7

\* The x of the rounds that draw.
RoundX(r, y) == Arc(r)[y][1]
Rounds(r) == {y \in 0..r : y <= RoundX(r, y)}

LEMMA RoundsType ==
  ASSUME NEW r \in Nat, NEW y \in 0..r
  PROVE  /\ RoundX(r, y) \in Int /\ RoundX(r, y) <= r
         /\ RoundX(r, 0) = r
         /\ y >= 1 => RoundX(r, y) \in {RoundX(r, y - 1), RoundX(r, y - 1) - 1}
         /\ y <= RoundX(r, y) =>
              Abs(RoundX(r, y) * RoundX(r, y) + y * y - r * r) <= r
<1>1. /\ Arc(r) \in [0..r -> Pair] /\ Arc(r)[0] = <<r, 1 - r>>
      /\ \A i \in 1..r : Arc(r)[i] = ArcStep(i, Arc(r)[i - 1])
  BY ArcIs
<1>2. Arc(r)[y] \in Pair /\ OnArc(r, y, Arc(r)[y])
  BY <1>1, ArcLaw
<1>3. PICK x \in Int : x = RoundX(r, y)
  BY <1>2 DEF RoundX, Pair
<1>4. x <= r
  BY <1>2, <1>3 DEF OnArc, RoundX
<1>5. RoundX(r, 0) = r
  BY <1>1 DEF RoundX
<1>6. ASSUME y >= 1 PROVE RoundX(r, y) \in {RoundX(r, y - 1), RoundX(r, y - 1) - 1}
  <2>1. y \in 1..r /\ y - 1 \in 0..r /\ y \in Int
    BY <1>6
  <2>2. Arc(r)[y - 1] \in Pair /\ Arc(r)[y] = ArcStep(y, Arc(r)[y - 1])
    BY <1>1, <2>1
  <2>3. ArcStep(y, Arc(r)[y - 1])[1] \in {Arc(r)[y - 1][1], Arc(r)[y - 1][1] - 1}
    BY <2>1, <2>2, ArcStepType
  <2> QED
    BY <2>2, <2>3 DEF RoundX
<1>7. ASSUME y <= x PROVE Abs(x * x + y * y - r * r) <= r
  <2>1. PICK D \in Int : D = x * x + y * y - r * r
    OBVIOUS
  <2>2. D <= r /\ -r <= D
    BY <1>2, <1>3, <1>7, <2>1 DEF OnArc, RoundX
  <2> QED
    BY <2>1, <2>2 DEF Abs
<1> QED
  BY <1>3, <1>4, <1>5, <1>6, <1>7

\* The places that round y draws.
Ring(c, x, y) ==
  {<<c[1] + i, c[2] + j>> : i \in {x, -x}, j \in {y, -y}}
    \cup {<<c[1] + i, c[2] + j>> : i \in {y, -y}, j \in {x, -x}}

LEMMA CircleIs ==
  ASSUME NEW c \in Int \X Int, NEW r \in Nat
  PROVE  Circle2D(c, r) = UNION {Ring(c, RoundX(r, y), y) : y \in Rounds(r)}
BY DEF Circle2D, Ring, RoundX, Rounds

LEMMA RingNear ==
  ASSUME NEW c \in Int \X Int, NEW x \in Int, NEW y \in Int, NEW p \in Ring(c, x, y)
  PROVE  LET i == p[1] - c[1]
             j == p[2] - c[2]
         IN /\ p \in Int \X Int
            /\ i * i + j * j = x * x + y * y
<1>1. PICK a \in Int : a = c[1]
  OBVIOUS
<1>2. PICK b \in Int : b = c[2]
  OBVIOUS
<1>3. PICK i \in Int, j \in Int : /\ p = <<a + i, b + j>>
                                  /\ \/ i \in {x, -x} /\ j \in {y, -y}
                                     \/ i \in {y, -y} /\ j \in {x, -x}
  BY <1>1, <1>2 DEF Ring
<1>4. (-x) * (-x) = x * x /\ (-y) * (-y) = y * y
  OBVIOUS
<1>5. i * i + j * j = x * x + y * y
  BY <1>3, <1>4
<1>6. (a + i) - a = i /\ (b + j) - b = j
  OBVIOUS
<1> QED
  BY <1>1, <1>2, <1>3, <1>5, <1>6

\* Every distance up to the radius is the x or the y of a round that draws.
LEMMA EveryDistance ==
  ASSUME NEW r \in Nat, NEW h \in 0..r
  PROVE  \E y \in Rounds(r) : h = y \/ h = RoundX(r, y)
<1>1. CASE h <= RoundX(r, h)
  BY <1>1 DEF Rounds
<1>2. CASE ~(h <= RoundX(r, h))
  <2> DEFINE S == {y \in 0..r : RoundX(r, y) <= h}
  <2>1. RoundX(r, h) \in Int
    BY RoundsType
  <2>2. h \in S
    BY <1>2, <2>1
  <2>3. PICK y \in S : \A j \in S : y <= j
    <3>1. S \in SUBSET Nat /\ S # {}
      BY <2>2
    <3> HIDE DEF S
    <3> QED
      BY <3>1, LeastExists
  <2>4. y <= h /\ y \in 0..r /\ RoundX(r, y) \in Int /\ RoundX(r, y) <= h
    BY <2>2, <2>3, RoundsType
  <2>5. RoundX(r, y) = h
    <3>1. CASE y = 0
      <4>1. RoundX(r, y) = r
        BY <2>4, <3>1, RoundsType
      <4> QED
        BY <2>4, <4>1
    <3>2. CASE y # 0
      <4>1. y >= 1 /\ y - 1 \in 0..r /\ y - 1 \notin S
        BY <2>3, <2>4, <3>2
      <4>2. RoundX(r, y - 1) \in Int
        BY <4>1, RoundsType
      <4>3. RoundX(r, y) \in {RoundX(r, y - 1), RoundX(r, y - 1) - 1}
        BY <2>4, <4>1, RoundsType
      <4> QED
        BY <2>4, <4>1, <4>2, <4>3
    <3> QED
      BY <3>1, <3>2
  <2> QED
    BY <2>4, <2>5 DEF Rounds
<1> QED
  BY <1>1, <1>2

\* The round draws at distance k along axis a, on the side that sign says.
Crosses(c, x, y, a, k, sign) ==
  \E p \in Ring(c, x, y) :
    /\ p[a] = c[a] + k /\ sign * (p[3 - a] - c[3 - a]) >= 0
    /\ \A b \in {1, 2} : p[b] - c[b] \in {x, -x, y, -y}

LEMMA RingHas ==
  ASSUME NEW c \in Int \X Int, NEW x \in Nat, NEW y \in Nat,
         NEW k \in {x, -x, y, -y}, NEW sign \in {-1, 1}, NEW a \in {1, 2}
  PROVE  Crosses(c, x, y, a, k, sign)
<1>1. PICK m \in Int : m = c[1]
  OBVIOUS
<1>2. PICK n \in Int : n = c[2]
  OBVIOUS
<1>8. PICK h \in {x, y} : k \in {h, -h}
  OBVIOUS
<1>3. PICK g \in {x, y} : {h, g} = {x, y}
  OBVIOUS
<1>4. PICK l \in Int : l = sign * g /\ l \in {g, -g} /\ sign * l = g /\ g >= 0
  OBVIOUS
<1>5. k \in Int /\ k \in {x, -x, y, -y} /\ l \in {x, -x, y, -y}
  BY <1>3, <1>4, <1>8
<1>6. CASE a = 1
  <2> DEFINE p == <<m + k, n + l>>
  <2>1. p \in Ring(c, x, y)
    <3>1. \/ k \in {x, -x} /\ l \in {y, -y}
          \/ k \in {y, -y} /\ l \in {x, -x}
      BY <1>3, <1>4, <1>8
    <3> QED
      BY <1>1, <1>2, <3>1 DEF Ring
  <2>2. p[1] - m = k /\ p[2] - n = l /\ 3 - 1 = 2
    BY <1>4, <1>5
  <2>3. p[1] = m + k
    OBVIOUS
  <2> HIDE DEF p
  <2> QED
    BY <1>1, <1>2, <1>4, <1>5, <1>6, <2>1, <2>2, <2>3 DEF Crosses
<1>7. CASE a = 2
  <2> DEFINE p == <<m + l, n + k>>
  <2>1. p \in Ring(c, x, y)
    <3>1. \/ k \in {x, -x} /\ l \in {y, -y}
          \/ k \in {y, -y} /\ l \in {x, -x}
      BY <1>3, <1>4, <1>8
    <3> QED
      BY <1>1, <1>2, <3>1 DEF Ring
  <2>2. p[1] - m = l /\ p[2] - n = k /\ 3 - 2 = 1
    BY <1>4, <1>5
  <2>3. p[2] = n + k
    OBVIOUS
  <2> HIDE DEF p
  <2> QED
    BY <1>1, <1>2, <1>4, <1>5, <1>7, <2>1, <2>2, <2>3 DEF Crosses
<1> QED
  BY <1>6, <1>7

LEMMA CircleIsCircle ==
  ASSUME NEW c \in Int \X Int, NEW r \in Nat
  PROVE  IsCircle(Circle2D(c, r) \cap ScreenPoints, c, r)
<1> DEFINE S == Circle2D(c, r) \cap ScreenPoints
           near(p) ==
             LET i == p[1] - c[1]
                 j == p[2] - c[2]
             IN Abs(i * i + j * j - r * r) <= r
<1>1. ASSUME NEW p \in S PROVE near(p)
  <2>1. PICK y \in Rounds(r) : p \in Ring(c, RoundX(r, y), y)
    BY CircleIs
  <2>2. y \in 0..r /\ y \in Int /\ y <= RoundX(r, y)
    BY <2>1 DEF Rounds
  <2>3. PICK x \in Int : x = RoundX(r, y)
    BY <2>2, RoundsType
  <2>4. Abs(x * x + y * y - r * r) <= r
    BY <2>2, <2>3, RoundsType
  <2>5. PICK i \in Int : i = p[1] - c[1]
    <3>1. p \in Int \X Int
      BY <2>1, <2>2, <2>3, RingNear
    <3> QED
      BY <3>1
  <2>6. PICK j \in Int : j = p[2] - c[2]
    <3>1. p \in Int \X Int
      BY <2>1, <2>2, <2>3, RingNear
    <3> QED
      BY <3>1
  <2>7. i * i + j * j = x * x + y * y
    BY <2>1, <2>2, <2>3, <2>5, <2>6, RingNear
  <2>8. PICK w \in Int : w = x * x + y * y
    BY <2>2
  <2>9. PICK d \in Int : d = r * r
    OBVIOUS
  <2>10. Abs(w - d) <= r /\ i * i + j * j = w
    BY <2>2, <2>4, <2>7, <2>8, <2>9
  <2>11. Abs(i * i + j * j - r * r) <= r
    BY <2>9, <2>10
  <2> QED
    BY <2>5, <2>6, <2>11
<1>2. ASSUME \A a \in 1..2 : c[a] - r >= 0 /\ c[a] + r < N,
             NEW a \in 1..2, NEW k \in -r..r, NEW sign \in {-1, 1}
      PROVE  \E p \in S : p[a] = c[a] + k /\ sign * (p[3 - a] - c[3 - a]) >= 0
  <2>1. PICK h \in 0..r : k \in {h, -h}
    <3>1. CASE k >= 0
      BY <3>1
    <3>2. CASE ~(k >= 0)
      <4>1. -k \in 0..r /\ k = -(-k)
        BY <3>2
      <4> QED
        BY <4>1
    <3> QED
      BY <3>1, <3>2
  <2>2. PICK y \in Rounds(r) : h = y \/ h = RoundX(r, y)
    BY EveryDistance
  <2>3. y \in 0..r /\ y <= RoundX(r, y)
    BY DEF Rounds
  <2>4. PICK x \in Nat : x = RoundX(r, y) /\ x <= r /\ y <= x
    <3>1. RoundX(r, y) \in Int /\ RoundX(r, y) <= r
      BY <2>3, RoundsType
    <3> QED
      BY <2>3, <3>1
  <2>5. h \in {x, y} /\ a \in {1, 2} /\ y \in Nat
    BY <2>2, <2>3, <2>4
  <2>9. k \in {x, -x, y, -y}
    BY <2>1, <2>5
  <2>10. PICK z \in Nat : z = y
    BY <2>5
  <2>11. a \in {1, 2} /\ k \in {x, -x, z, -z}
    BY <2>5, <2>9, <2>10
  <2>6. PICK p \in Ring(c, x, y) :
           /\ p[a] = c[a] + k /\ sign * (p[3 - a] - c[3 - a]) >= 0
           /\ \A b \in {1, 2} : p[b] - c[b] \in {x, -x, y, -y}
    <3>1. Crosses(c, x, z, a, k, sign)
      BY <2>11, RingHas
    <3> QED
      BY <2>10, <3>1 DEF Crosses
  <2>7. p \in Circle2D(c, r)
    BY <2>2, <2>4, <2>6, CircleIs
  <2>8. p \in ScreenPoints
    <3>1. p \in Int \X Int
      BY <2>4, <2>5, <2>6, RingNear
    <3>2. \A b \in {1, 2} : p[b] \in Int /\ c[b] \in Int
      BY <3>1
    <3>3. ASSUME NEW b \in {1, 2} PROVE p[b] \in 0..N-1
      <4>1. PICK i \in Int : i = p[b]
        BY <3>2
      <4>2. PICK d \in Int : d = c[b]
        BY <3>2
      <4>3. i - d \in {x, -x, y, -y}
        BY <2>6, <4>1, <4>2
      <4>4. d - r >= 0 /\ d + r < N
        BY <1>2, <4>2
      <4>5. -r <= i - d /\ i - d <= r
        BY <2>3, <2>4, <4>3
      <4> QED
        BY <4>1, <4>4, <4>5, GeometryAssumption
    <3>4. p[1] \in 0..N-1 /\ p[2] \in 0..N-1
      BY <3>3
    <3> QED
      BY <3>1, <3>4 DEF ScreenPoints
  <2> QED
    BY <2>6, <2>7, <2>8
<1> HIDE DEF S
<1>3. IsCircle(S, c, r)
  BY <1>1, <1>2 DEF IsCircle
<1> QED
  BY <1>3 DEF S

(* Texts. *)

TextStart(p, n) ==
  <<IF p[1] = centered THEN Quotient(N - n * FontWidth, 2)
    ELSE IF p[1] = -2 THEN N - n * FontWidth ELSE p[1],
    IF p[2] = centered THEN Quotient(N - FontHeight, 2) ELSE p[2]>>

\* Where the next character goes.
TextStep(p, o) ==
  IF o[1] + FontWidth > N - FontWidth THEN <<p[1], o[2] + FontHeight>>
  ELSE <<o[1] + FontWidth, o[2]>>

\* The places of all characters, and those that are drawn.
Laid(p, n, cells) ==
  /\ cells \in [1..n -> Pair]
  /\ cells[1] = TextStart(p, n)
  /\ \A i \in 1..n : i > 1 => cells[i] = TextStep(p, cells[i - 1])
  /\ TextAt(p, n) = [i \in {j \in 1..n : j = 1 \/ cells[j][2] <= N - FontHeight} |-> cells[i]]

LEMMA TextTypes ==
  ASSUME NEW p \in Int \X Int, NEW n \in Nat
  PROVE  /\ N \in Nat /\ FontWidth \in Nat /\ FontHeight \in Nat
         /\ FontWidth >= 1 /\ FontHeight >= 1
         /\ TextStart(p, n) \in Pair
         /\ \A o \in Pair : TextStep(p, o) \in Pair
<1>1. /\ N \in Nat /\ FontWidth \in Nat /\ FontHeight \in Nat
      /\ FontWidth >= 1 /\ FontHeight >= 1
  BY GeometryAssumption, DrawingAssumption
<1>2. \A m \in Int : Quotient(m, 2) \in Int
  BY DEF Quotient
<1>3. n * FontWidth \in Int
  BY <1>1
<1>4. p[1] \in Int /\ p[2] \in Int
  OBVIOUS
<1>5. TextStart(p, n) \in Pair
  BY <1>1, <1>2, <1>3, <1>4 DEF TextStart, Pair
<1>6. ASSUME NEW o \in Pair PROVE TextStep(p, o) \in Pair
  <2>1. o[1] \in Int /\ o[2] \in Int
    BY DEF Pair
  <2> QED
    BY <1>1, <1>4, <2>1 DEF TextStep, Pair
<1> QED
  BY <1>1, <1>5, <1>6

LEMMA TextIs ==
  ASSUME NEW p \in Int \X Int, NEW n \in Nat, n >= 1
  PROVE  \E cells : Laid(p, n, cells)
<1> DEFINE start == TextStart(p, n)
           E(g) == [i \in 1..n |-> IF i = 1 THEN start ELSE TextStep(p, g[i - 1])]
           text == CHOOSE g : g = E(g)
           step == [u \in Nat \X Pair |-> TextStep(p, u[2])]
<1>1. TextAt(p, n)
        = [i \in {j \in 1..n : j = 1 \/ text[j][2] <= N - FontHeight} |-> text[i]]
  BY DEF TextAt, TextStart, TextStep
<1>2. start \in Pair
  BY TextTypes
<1>3. step \in [Nat \X Pair -> Pair]
  BY TextTypes
<1>4. PICK f : Steps(f, Pair, start, step, n - 1)
  <2>1. n - 1 \in Nat
    OBVIOUS
  <2> HIDE DEF step, start
  <2> QED
    BY <1>2, <1>3, <2>1, StepsExist
<1> HIDE DEF start
<1> DEFINE h == [i \in 1..n |-> f[i - 1]]
<1>5. h = E(h)
  <2>1. ASSUME NEW i \in 1..n PROVE h[i] = E(h)[i]
    <3>1. CASE i = 1
      BY <1>4, <3>1 DEF Steps
    <3>2. CASE i # 1
      <4>1. i - 1 \in 1..n /\ i - 1 \in 1..(n - 1) /\ i - 1 \in Nat /\ (i - 1) - 1 \in 0..(n - 1)
        BY <3>2
      <4>2. f[i - 1] = step[<<i - 1, f[(i - 1) - 1]>>] /\ f[(i - 1) - 1] \in Pair
        BY <1>4, <4>1 DEF Steps
      <4>3. f[i - 1] = TextStep(p, f[(i - 1) - 1])
        BY <4>1, <4>2
      <4> HIDE DEF step
      <4> QED
        BY <3>2, <4>1, <4>3
    <3> QED
      BY <3>1, <3>2
  <2>2. h = [i \in 1..n |-> h[i]]
    OBVIOUS
  <2>3. E(h) = [i \in 1..n |-> E(h)[i]]
    OBVIOUS
  <2> HIDE DEF E, h
  <2> QED
    BY <2>1, <2>2, <2>3
<1>6. text = E(text)
  <2> HIDE DEF E, h
  <2> QED
    BY <1>5
<1> HIDE DEF text, step, h
<1>7. /\ DOMAIN text = 1..n /\ text[1] = start
      /\ \A i \in 1..n : i > 1 => text[i] = TextStep(p, text[i - 1])
  BY <1>6
<1>8. \A i \in 1..n : text[i] \in Pair
  <2> DEFINE S == {i \in 1..n : text[i] \notin Pair}
  <2>1. SUFFICES ASSUME S # {} PROVE FALSE
    OBVIOUS
  <2>2. PICK k \in S : \A j \in S : k <= j
    <3>1. S \in SUBSET Nat
      OBVIOUS
    <3> HIDE DEF S
    <3> QED
      BY <2>1, <3>1, LeastExists
  <2>3. k # 1
    BY <1>2, <1>7, <2>2
  <2>4. k \in 1..n /\ k > 1 /\ k - 1 \in 1..n /\ k - 1 \notin S
    BY <2>2, <2>3
  <2>5. text[k] = TextStep(p, text[k - 1]) /\ text[k - 1] \in Pair
    BY <1>7, <2>4
  <2> QED
    BY <2>2, <2>5, TextTypes
<1>9. text = [i \in 1..n |-> text[i]]
  BY <1>6
<1>10. text \in [1..n -> Pair]
  BY <1>8, <1>9
<1>11. Laid(p, n, text)
  BY <1>1, <1>7, <1>10 DEF Laid, start
<1> QED
  BY <1>11

\* A character that comes later is further right on the same line or on a lower
\* one, so that they do not cover each other.
Later(u, v) ==
  \/ v[2] = u[2] /\ v[1] >= u[1] + FontWidth
  \/ v[2] >= u[2] + FontHeight

LEMMA LaterOff ==
  ASSUME NEW u \in Pair, NEW v \in Pair, Later(u, v)
  PROVE  Cell(u) \cap Cell(v) = {}
<1>1. N \in Nat /\ FontWidth \in Nat /\ FontHeight \in Nat
  BY GeometryAssumption, DrawingAssumption
<1>2. PICK a \in Int, b \in Int : u = <<a, b>>
  BY DEF Pair
<1>3. PICK c \in Int, d \in Int : v = <<c, d>>
  BY DEF Pair
<1>4. ASSUME NEW r \in Cell(u), r \in Cell(v) PROVE FALSE
  <2>1. PICK i \in 0..FontWidth-1, j \in 0..FontHeight-1 : r = <<a + i, b + j>>
    BY <1>2 DEF Cell
  <2>2. PICK k \in 0..FontWidth-1, l \in 0..FontHeight-1 : r = <<c + k, d + l>>
    BY <1>3, <1>4 DEF Cell
  <2>3. a + i = c + k /\ b + j = d + l
    BY <2>1, <2>2
  <2>4. (d = b /\ c >= a + FontWidth) \/ d >= b + FontHeight
    BY <1>2, <1>3 DEF Later
  <2> QED
    BY <1>1, <2>3, <2>4
<1> QED
  BY <1>4

LEMMA LaterStays ==
  ASSUME NEW p \in Int \X Int, NEW u \in Pair, NEW v \in Pair
  PROVE  /\ Later(v, TextStep(p, v))
         /\ Later(u, v) => Later(u, TextStep(p, v))
<1>1. FontWidth \in Nat /\ FontHeight \in Nat /\ N \in Nat
  BY GeometryAssumption, DrawingAssumption
<1>2. PICK a \in Int, b \in Int : u = <<a, b>>
  BY DEF Pair
<1>3. PICK c \in Int, d \in Int : v = <<c, d>>
  BY DEF Pair
<1>4. PICK x \in Int : x = p[1]
  OBVIOUS
<1>5. CASE c + FontWidth > N - FontWidth
  <2>1. TextStep(p, v) = <<x, d + FontHeight>>
    BY <1>3, <1>4, <1>5 DEF TextStep
  <2> QED
    BY <1>1, <1>2, <1>3, <2>1 DEF Later
<1>6. CASE ~(c + FontWidth > N - FontWidth)
  <2>1. TextStep(p, v) = <<c + FontWidth, d>>
    BY <1>3, <1>6 DEF TextStep
  <2> QED
    BY <1>1, <1>2, <1>3, <2>1 DEF Later
<1> QED
  BY <1>5, <1>6

LEMMA CharactersApart ==
  ASSUME NEW p \in Int \X Int, NEW n \in Nat, NEW cells, Laid(p, n, cells),
         NEW i \in 1..n, NEW j \in 1..n, i < j
  PROVE  Later(cells[i], cells[j])
<1> DEFINE S == {k \in 1..n : i < k /\ ~Later(cells[i], cells[k])}
<1>1. SUFFICES ASSUME S # {} PROVE FALSE
  OBVIOUS
<1>2. PICK k \in S : \A l \in S : k <= l
  <2>1. S \in SUBSET Nat
    OBVIOUS
  <2> HIDE DEF S
  <2> QED
    BY <1>1, <2>1, LeastExists
<1>3. k \in 1..n /\ i < k /\ k > 1 /\ k - 1 \in 1..n /\ k - 1 \notin S /\ (k - 1 = i \/ i < k - 1)
  BY <1>2
<1>4. cells[i] \in Pair /\ cells[k - 1] \in Pair /\ cells[k] = TextStep(p, cells[k - 1])
  BY <1>3 DEF Laid
<1>5. CASE k - 1 = i
  <2>1. Later(cells[i], TextStep(p, cells[i]))
    BY <1>4, LaterStays
  <2> QED
    BY <1>2, <1>4, <1>5, <2>1
<1>6. CASE i < k - 1
  <2>1. Later(cells[i], cells[k - 1])
    BY <1>3, <1>6
  <2>2. Later(cells[i], TextStep(p, cells[k - 1]))
    BY <1>4, <2>1, LaterStays
  <2> QED
    BY <1>2, <1>4, <2>2
<1> QED
  BY <1>3, <1>5, <1>6

LEMMA Whole ==
  ASSUME NEW m \in Nat, NEW w \in Nat, w >= 1
  PROVE  /\ m \div w \in Nat
         /\ \A k \in Nat : k <= m \div w <=> k * w <= m
<1>1. PICK c \in Int : c = m \div w
  OBVIOUS
<1>2. PICK d \in Int : d = m % w
  OBVIOUS
<1>3. m = w * c + d /\ 0 <= d /\ d < w
  BY <1>1, <1>2
<1>4. c \in Nat
  <2>1. CASE c <= -1
    <3>1. w * c <= w * (-1)
      BY <2>1, Larger
    <3>2. PICK e \in Int : e = w * c
      OBVIOUS
    <3> QED
      BY <1>3, <3>1, <3>2
  <2> QED
    BY <2>1
<1>5. PICK e \in Int : e = w * c
  OBVIOUS
<1>6. ASSUME NEW k \in Nat PROVE k <= c <=> k * w <= m
  <2>1. PICK f \in Int : f = w * k
    OBVIOUS
  <2>2. k * w = f
    BY <2>1
  <2>3. CASE k <= c
    <3>1. w * k <= w * c
      BY <2>3, Larger
    <3> QED
      BY <1>3, <1>5, <2>1, <2>2, <2>3, <3>1
  <2>4. CASE c + 1 <= k
    <3>1. w * (c + 1) <= w * k
      BY <2>4, Larger
    <3>2. w * (c + 1) = e + w
      BY <1>5
    <3> QED
      BY <1>3, <1>5, <2>1, <2>2, <2>4, <3>1, <3>2
  <2> QED
    BY <2>3, <2>4
<1> QED
  BY <1>1, <1>4, <1>6

\* Cells that do not cover each other have all their points.
LEMMA CellsCount ==
  ASSUME NEW m \in Nat, NEW cells \in [1..m -> Pair],
         \A i, j \in 1..m : i # j => Cell(cells[i]) \cap Cell(cells[j]) = {}
  PROVE  Cardinality(UNION {Cell(cells[i]) : i \in 1..m}) = FontWidth * FontHeight * m
<1>1. FontWidth \in Nat /\ FontHeight \in Nat /\ FontWidth >= 1 /\ FontHeight >= 1
  BY DrawingAssumption
<1> DEFINE W == 0..FontWidth-1
           H == 0..FontHeight-1
           D == (1..m) \X (W \X H)
           T == UNION {Cell(cells[i]) : i \in 1..m}
           Dot(i, a, b) == <<cells[i][1] + a, cells[i][2] + b>>
           g == [t \in D |-> Dot(t[1], t[2][1], t[2][2])]
<1>2. ASSUME NEW i \in 1..m
      PROVE  Cell(cells[i]) = {Dot(i, a, b) : a \in W, b \in H}
  BY DEF Cell
<1>3. ASSUME NEW i \in 1..m, NEW a \in W, NEW b \in H
      PROVE  g[<<i, <<a, b>>>>] = Dot(i, a, b) /\ <<i, <<a, b>>>> \in D
  OBVIOUS
<1>4. \A t \in D : \E i \in 1..m, a \in W, b \in H : t = <<i, <<a, b>>>>
  OBVIOUS
<1>5. DOMAIN g = D
  OBVIOUS
<1>6. ASSUME NEW i \in 1..m, NEW a \in W, NEW b \in H,
             NEW j \in 1..m, NEW c \in W, NEW d \in H, Dot(i, a, b) = Dot(j, c, d)
      PROVE  i = j /\ a = c /\ b = d
  <2>1. Dot(i, a, b) \in Cell(cells[i]) /\ Dot(j, c, d) \in Cell(cells[j])
    BY <1>2
  <2> HIDE DEF Dot
  <2>2. i = j
    BY <1>6, <2>1
  <2>3. PICK x \in Int, y \in Int : cells[i] = <<x, y>>
    BY DEF Pair
  <2>4. x + a = x + c /\ y + b = y + d
    BY <1>6, <2>2, <2>3 DEF Dot
  <2>5. a = c
    BY <1>1, <2>4
  <2>6. b = d
    BY <1>1, <2>4
  <2> QED
    BY <2>2, <2>5, <2>6
<1> HIDE DEF g, Dot, D, W, H
<1>7. \A t \in D : g[t] \in T
  BY <1>2, <1>3, <1>4
<1>8. g \in [D -> T]
  <2>1. g = [t \in D |-> g[t]]
    BY DEF g
  <2> HIDE DEF T
  <2> QED
    BY <1>7, <2>1
<1>9. ASSUME NEW s \in D, NEW t \in D, g[s] = g[t] PROVE s = t
  <2>1. PICK i \in 1..m, a \in W, b \in H : s = <<i, <<a, b>>>>
    BY <1>4
  <2>2. PICK j \in 1..m, c \in W, d \in H : t = <<j, <<c, d>>>>
    BY <1>4
  <2>3. Dot(i, a, b) = Dot(j, c, d)
    BY <1>3, <1>9, <2>1, <2>2
  <2> QED
    BY <1>6, <2>1, <2>2, <2>3
<1>10. \A r \in T : \E t \in D : g[t] = r
  <2>1. ASSUME NEW r \in T PROVE \E t \in D : g[t] = r
    <3>1. PICK i \in 1..m : r \in Cell(cells[i])
      OBVIOUS
    <3>2. PICK a \in W, b \in H : r = Dot(i, a, b)
      BY <1>2, <3>1
    <3> QED
      BY <1>3, <3>2
  <2> QED
    BY <2>1
<1> HIDE DEF T
<1>11. ExistsBijection(D, T)
  BY <1>5, <1>8, <1>9, <1>10
     DEF ExistsBijection, Bijection, Injection, Surjection, IsInjective
<1>12. IsFiniteSet(W) /\ Cardinality(W) = FontWidth
  BY <1>1, FS_Interval DEF W
<1>13. IsFiniteSet(H) /\ Cardinality(H) = FontHeight
  BY <1>1, FS_Interval DEF H
<1>14. IsFiniteSet(W \X H) /\ Cardinality(W \X H) = FontWidth * FontHeight
  BY <1>12, <1>13, FS_Product
<1>15. IsFiniteSet(1..m) /\ Cardinality(1..m) = m
  BY FS_Interval
<1>16. IsFiniteSet(D) /\ Cardinality(D) = m * (FontWidth * FontHeight)
  <2>1. PICK P : P = W \X H
    OBVIOUS
  <2>2. PICK I : I = 1..m
    OBVIOUS
  <2>3. IsFiniteSet(I \X P) /\ Cardinality(I \X P) = Cardinality(I) * Cardinality(P)
    BY <1>14, <1>15, <2>1, <2>2, FS_Product
  <2>4. D = I \X P
    BY <2>1, <2>2, Zenon DEF D
  <2> QED
    BY <1>14, <1>15, <2>1, <2>2, <2>3, <2>4
<1>17. Cardinality(T) = m * (FontWidth * FontHeight)
  BY <1>11, <1>16, FS_Bijection
<1>18. PICK c \in Nat : c = FontWidth * FontHeight
  BY <1>1
<1>19. m * c = c * m
  OBVIOUS
<1> QED
  BY <1>17, <1>18, <1>19 DEF T

\* A place where a whole character is on the screen.
OnScreen(p) ==
  /\ 0 <= p[1] /\ p[1] <= N - FontWidth
  /\ 0 <= p[2] /\ p[2] <= N - FontHeight

TextColumns(p) == (N - p[1]) \div FontWidth
TextRows(p) == (N - p[2]) \div FontHeight

LEMMA GridType ==
  ASSUME NEW p \in Int \X Int, OnScreen(p)
  PROVE  /\ TextColumns(p) \in Nat /\ TextColumns(p) >= 1
         /\ \A k \in Nat : k <= TextColumns(p) <=> k * FontWidth <= N - p[1]
         /\ TextRows(p) \in Nat /\ TextRows(p) >= 1
         /\ \A l \in Nat : l <= TextRows(p) <=> l * FontHeight <= N - p[2]
<1>1. FontWidth \in Nat /\ FontHeight \in Nat /\ FontWidth >= 1 /\ FontHeight >= 1
      /\ N \in Nat
  BY GeometryAssumption, DrawingAssumption
<1>2. PICK m \in Nat : m = N - p[1] /\ FontWidth <= m
  <2>1. p[1] \in Int
    OBVIOUS
  <2> QED
    BY <1>1, <2>1 DEF OnScreen
<1>3. PICK n \in Nat : n = N - p[2] /\ FontHeight <= n
  <2>1. p[2] \in Int
    OBVIOUS
  <2> QED
    BY <1>1, <2>1 DEF OnScreen
<1>4. m \div FontWidth \in Nat
  BY <1>1, Whole
<1>5. \A k \in Nat : k <= m \div FontWidth <=> k * FontWidth <= m
  BY <1>1, Whole
<1>6. n \div FontHeight \in Nat
  BY <1>1, Whole
<1>7. \A k \in Nat : k <= n \div FontHeight <=> k * FontHeight <= n
  BY <1>1, Whole
<1>8. 1 * FontWidth = FontWidth /\ 1 * FontHeight = FontHeight /\ 1 \in Nat
  BY <1>1
<1>9. 1 <= m \div FontWidth
  BY <1>2, <1>5, <1>8
<1>10. 1 <= n \div FontHeight
  BY <1>3, <1>7, <1>8
<1> QED
  BY <1>2, <1>3, <1>4, <1>5, <1>6, <1>7, <1>9, <1>10 DEF TextColumns, TextRows

\* The character at column k and row l.
GridPlace(p, k, l) == <<p[1] + k * FontWidth, p[2] + l * FontHeight>>

LEMMA GridStep ==
  ASSUME NEW p \in Int \X Int, OnScreen(p), NEW k \in Nat, NEW l \in Nat,
         k + 1 <= TextColumns(p)
  PROVE  TextStep(p, GridPlace(p, k, l)) =
           IF k + 2 <= TextColumns(p) THEN GridPlace(p, k + 1, l) ELSE GridPlace(p, 0, l + 1)
<1>1. FontWidth \in Nat /\ FontHeight \in Nat /\ N \in Nat
  BY GeometryAssumption, DrawingAssumption
<1>2. PICK x \in Int : x = p[1]
  OBVIOUS
<1>3. PICK y \in Int : y = p[2]
  OBVIOUS
<1>4. PICK a \in Int : a = k * FontWidth
  BY <1>1
<1>5. PICK b \in Int : b = l * FontHeight
  BY <1>1
<1>6. (k + 1) * FontWidth = a + FontWidth /\ (k + 2) * FontWidth = a + FontWidth + FontWidth
  BY <1>1, <1>4
<1>7. (l + 1) * FontHeight = b + FontHeight /\ 0 * FontWidth = 0
  BY <1>1, <1>5
<1>8. k + 2 <= TextColumns(p) <=> (k + 2) * FontWidth <= N - x
  <2>1. k + 2 \in Nat
    OBVIOUS
  <2> QED
    BY <1>2, <2>1, GridType
<1>9. GridPlace(p, k, l) = <<x + a, y + b>>
  BY <1>2, <1>3, <1>4, <1>5 DEF GridPlace
<1>10. GridPlace(p, k + 1, l) = <<x + a + FontWidth, y + b>>
  BY <1>1, <1>2, <1>3, <1>4, <1>5, <1>6 DEF GridPlace
<1>11. GridPlace(p, 0, l + 1) = <<x, y + b + FontHeight>>
  BY <1>1, <1>2, <1>3, <1>4, <1>5, <1>7 DEF GridPlace
<1>12. CASE k + 2 <= TextColumns(p)
  <2>1. ~(x + a + FontWidth > N - FontWidth)
    BY <1>1, <1>6, <1>8, <1>12
  <2>2. TextStep(p, <<x + a, y + b>>) = <<x + a + FontWidth, y + b>>
    BY <2>1 DEF TextStep
  <2> QED
    BY <1>9, <1>10, <1>12, <2>2
<1>13. CASE ~(k + 2 <= TextColumns(p))
  <2>1. x + a + FontWidth > N - FontWidth
    BY <1>1, <1>6, <1>8, <1>13
  <2>2. TextStep(p, <<x + a, y + b>>) = <<x, y + b + FontHeight>>
    BY <1>2, <2>1 DEF TextStep
  <2> QED
    BY <1>9, <1>11, <1>13, <2>2
<1> QED
  BY <1>12, <1>13

OnGrid(p, i, o) ==
  \E k, l \in Nat : /\ k + 1 <= TextColumns(p) /\ i = l * TextColumns(p) + k + 1
                    /\ o = GridPlace(p, k, l)

LEMMA CharactersOnGrid ==
  ASSUME NEW p \in Int \X Int, OnScreen(p), NEW n \in Nat, NEW cells, Laid(p, n, cells),
         NEW i \in 1..n
  PROVE  OnGrid(p, i, cells[i])
<1> DEFINE S == {j \in 1..n : ~OnGrid(p, j, cells[j])}
<1>1. SUFFICES ASSUME S # {} PROVE FALSE
  OBVIOUS
<1>2. PICK j \in S : \A h \in S : j <= h
  <2>1. S \in SUBSET Nat
    OBVIOUS
  <2> HIDE DEF S
  <2> QED
    BY <1>1, <2>1, LeastExists
<1>3. PICK c \in Nat : c = TextColumns(p) /\ c >= 1
  BY GridType
<1>4. CASE j = 1
  <2>1. p[1] \in Int /\ p[2] \in Int /\ p = <<p[1], p[2]>>
    OBVIOUS
  <2>2. TextStart(p, n) = p
    BY <2>1 DEF TextStart, OnScreen, centered
  <2>3. GridPlace(p, 0, 0) = p
    <3>1. 0 * FontWidth = 0 /\ 0 * FontHeight = 0
      BY DrawingAssumption
    <3> QED
      BY <2>1, <3>1 DEF GridPlace
  <2>4. 1 = 0 * c + 0 + 1 /\ 0 + 1 <= c
    BY <1>3
  <2>5. OnGrid(p, 1, p)
    BY <1>3, <2>3, <2>4 DEF OnGrid
  <2>6. cells[1] = p
    BY <2>2 DEF Laid
  <2> QED
    BY <1>2, <1>4, <2>5, <2>6
<1>5. CASE j # 1
  <2>1. j \in 1..n /\ j > 1 /\ j - 1 \in 1..n /\ j - 1 \notin S
    BY <1>2, <1>5
  <2>2. cells[j] = TextStep(p, cells[j - 1]) /\ OnGrid(p, j - 1, cells[j - 1])
    BY <2>1 DEF Laid
  <2>3. PICK k \in Nat, l \in Nat : /\ k + 1 <= c /\ j - 1 = l * c + k + 1
                                    /\ cells[j - 1] = GridPlace(p, k, l)
    BY <1>3, <2>2 DEF OnGrid
  <2>4. cells[j] = IF k + 2 <= c THEN GridPlace(p, k + 1, l) ELSE GridPlace(p, 0, l + 1)
    BY <1>3, <2>2, <2>3, GridStep
  <2>5. PICK e \in Int : e = l * c
    OBVIOUS
  <2>6. (l + 1) * c = e + c
    BY <2>5
  <2>7. CASE k + 2 <= c
    <3>1. (k + 1) + 1 <= c /\ j = l * c + (k + 1) + 1 /\ k + 1 \in Nat
      BY <2>1, <2>3, <2>5, <2>7
    <3> QED
      BY <1>2, <1>3, <2>4, <2>7, <3>1 DEF OnGrid
  <2>8. CASE ~(k + 2 <= c)
    <3>1. 0 + 1 <= c /\ j = (l + 1) * c + 0 + 1 /\ l + 1 \in Nat
      BY <1>3, <2>1, <2>3, <2>5, <2>6, <2>8
    <3> QED
      BY <1>2, <1>3, <2>4, <2>8, <3>1 DEF OnGrid
  <2> QED
    BY <2>7, <2>8
<1> QED
  BY <1>4, <1>5

LEMMA RowsFit ==
  ASSUME NEW p \in Int \X Int, OnScreen(p), NEW i \in Nat, NEW o, OnGrid(p, i, o)
  PROVE  /\ o[2] <= N - FontHeight <=> i <= TextColumns(p) * TextRows(p)
         /\ o \in Pair /\ 0 <= o[1] /\ o[1] + FontWidth <= N /\ 0 <= o[2]
<1>1. FontWidth \in Nat /\ FontHeight \in Nat /\ N \in Nat
  BY GeometryAssumption, DrawingAssumption
<1>2. PICK x \in Int : x = p[1]
  OBVIOUS
<1>3. PICK y \in Int : y = p[2]
  OBVIOUS
<1>4. PICK c \in Nat : c = TextColumns(p) /\ c >= 1
  BY GridType
<1>5. PICK h \in Nat : h = TextRows(p) /\ h >= 1
  BY GridType
<1>6. PICK k \in Nat, l \in Nat : /\ k + 1 <= c /\ i = l * c + k + 1
                                  /\ o = GridPlace(p, k, l)
  BY <1>4 DEF OnGrid
<1>7. PICK a \in Nat : a = k * FontWidth
  BY <1>1
<1>8. PICK b \in Nat : b = l * FontHeight
  BY <1>1
<1>9. o = <<x + a, y + b>>
  BY <1>2, <1>3, <1>6, <1>7, <1>8 DEF GridPlace
<1>10. (k + 1) * FontWidth = a + FontWidth /\ (l + 1) * FontHeight = b + FontHeight
  BY <1>1, <1>7, <1>8
<1>11. (k + 1) * FontWidth <= N - x
  <2>1. k + 1 \in Nat
    OBVIOUS
  <2> QED
    BY <1>2, <1>4, <1>6, <2>1, GridType
<1>12. l + 1 <= h <=> (l + 1) * FontHeight <= N - y
  <2>1. l + 1 \in Nat
    OBVIOUS
  <2> QED
    BY <1>3, <1>5, <2>1, GridType
<1>13. PICK e \in Int : e = c * l
  OBVIOUS
<1>14. PICK f \in Int : f = c * h
  OBVIOUS
<1>15. i = e + k + 1 /\ c * (l + 1) = e + c
  BY <1>6, <1>13
<1>16. l + 1 <= h <=> i <= f
  <2>1. CASE l + 1 <= h
    <3>1. c * (l + 1) <= c * h
      BY <2>1, Larger
    <3> QED
      BY <1>6, <1>14, <1>15, <2>1, <3>1
  <2>2. CASE h <= l
    <3>1. c * h <= c * l
      BY <2>2, Larger
    <3> QED
      BY <1>6, <1>13, <1>14, <1>15, <2>2, <3>1
  <2> QED
    BY <2>1, <2>2
<1>17. 0 <= x /\ 0 <= y
  BY <1>2, <1>3 DEF OnScreen
<1>18. o[2] <= N - FontHeight <=> i <= f
  BY <1>1, <1>9, <1>10, <1>12, <1>16
<1>19. o \in Pair /\ 0 <= o[1] /\ o[1] + FontWidth <= N /\ 0 <= o[2]
  BY <1>1, <1>9, <1>10, <1>11, <1>17 DEF Pair
<1> QED
  BY <1>4, <1>5, <1>14, <1>18, <1>19

TextPlaces(p, n) == UNION {Cell(TextAt(p, n)[i]) : i \in DOMAIN TextAt(p, n)}

\* A text that starts on the screen has as many characters as fit.
LEMMA TextCount ==
  ASSUME NEW p \in Int \X Int, OnScreen(p), NEW n \in Nat, n >= 1
  PROVE  LET fits == TextColumns(p) * TextRows(p)
         IN Cardinality(TextPlaces(p, n) \cap ScreenPoints)
              = FontWidth * FontHeight * (IF n < fits THEN n ELSE fits)
<1>1. PICK cells : Laid(p, n, cells)
  BY TextIs
<1>2. PICK fits \in Nat : fits = TextColumns(p) * TextRows(p) /\ fits >= 1
  <2>1. PICK c \in Nat : c = TextColumns(p) /\ c >= 1
    BY GridType
  <2>2. PICK h \in Nat : h = TextRows(p) /\ h >= 1
    BY GridType
  <2>3. c * 1 <= c * h
    BY <2>2, Larger
  <2>4. PICK f \in Nat : f = c * h
    OBVIOUS
  <2> QED
    BY <2>1, <2>2, <2>3, <2>4
<1> DEFINE m == IF n < fits THEN n ELSE fits
           first == [i \in 1..m |-> cells[i]]
<1>3. m \in Nat /\ \A i \in 1..m : i \in 1..n /\ i <= fits
  BY <1>2
<1>4. \A i \in 1..n : i <= fits => i \in 1..m
  BY <1>2
<1> HIDE DEF m
<1>5. ASSUME NEW i \in 1..n
      PROVE  /\ cells[i] \in Pair /\ 0 <= cells[i][1] /\ cells[i][1] + FontWidth <= N
             /\ 0 <= cells[i][2]
             /\ cells[i][2] <= N - FontHeight <=> i <= fits
  <2>1. OnGrid(p, i, cells[i]) /\ i \in Nat
    BY <1>1, CharactersOnGrid
  <2> QED
    BY <1>2, <2>1, RowsFit
<1>6. {j \in 1..n : j = 1 \/ cells[j][2] <= N - FontHeight} = 1..m
  <2>1. ASSUME NEW j \in 1..n PROVE (j = 1 \/ cells[j][2] <= N - FontHeight) <=> j <= fits
    BY <1>2, <1>5
  <2> QED
    BY <1>3, <1>4, <2>1
<1>7. TextAt(p, n) = first
  BY <1>1, <1>6 DEF Laid
<1>8. first \in [1..m -> Pair]
  BY <1>3, <1>5
<1>9. \A i \in 1..m : first[i] = cells[i]
  OBVIOUS
<1> HIDE DEF first
<1>10. DOMAIN first = 1..m
  BY <1>8
<1>11. TextPlaces(p, n) = UNION {Cell(first[i]) : i \in 1..m}
  BY <1>7, <1>10 DEF TextPlaces
<1>12. ASSUME NEW i \in 1..m, NEW j \in 1..m, i # j
       PROVE  Cell(first[i]) \cap Cell(first[j]) = {}
  <2>1. first[i] \in Pair /\ first[j] \in Pair /\ i \in 1..n /\ j \in 1..n
    BY <1>3, <1>8
  <2>2. CASE i < j
    <3>1. Later(first[i], first[j])
      BY <1>1, <1>9, <2>1, <2>2, CharactersApart
    <3> QED
      BY <2>1, <3>1, LaterOff
  <2>3. CASE j < i
    <3>1. Later(first[j], first[i])
      BY <1>1, <1>9, <2>1, <2>3, CharactersApart
    <3>2. Cell(first[j]) \cap Cell(first[i]) = {}
      BY <2>1, <3>1, LaterOff
    <3> QED
      BY <3>2
  <2> QED
    BY <1>3, <1>12, <2>1, <2>2, <2>3
<1>13. ASSUME NEW i \in 1..m PROVE Cell(first[i]) \subseteq ScreenPoints
  <2>1. FontWidth \in Nat /\ FontHeight \in Nat /\ N \in Nat
    BY GeometryAssumption, DrawingAssumption
  <2>2. PICK x \in Int, y \in Int : first[i] = <<x, y>>
    BY <1>8 DEF Pair
  <2>3. 0 <= x /\ x + FontWidth <= N /\ 0 <= y /\ y <= N - FontHeight
    BY <1>3, <1>5, <1>9, <2>2
  <2>4. ASSUME NEW a \in 0..FontWidth-1, NEW b \in 0..FontHeight-1
        PROVE  <<x + a, y + b>> \in ScreenPoints
    BY <2>1, <2>3 DEF ScreenPoints
  <2> QED
    BY <2>2, <2>4 DEF Cell
<1>14. TextPlaces(p, n) \cap ScreenPoints = UNION {Cell(first[i]) : i \in 1..m}
  BY <1>11, <1>13
<1>15. Cardinality(UNION {Cell(first[i]) : i \in 1..m}) = FontWidth * FontHeight * m
  BY <1>3, <1>8, <1>12, CellsCount
<1> QED
  BY <1>2, <1>14, <1>15 DEF m

LEMMA TextIsText ==
  ASSUME NEW p \in Int \X Int, NEW n \in Nat, n >= 1
  PROVE  IsText(TextPlaces(p, n) \cap ScreenPoints, p, n)
<1>1. PICK cells : Laid(p, n, cells)
  BY TextIs
<1> DEFINE text == TextAt(p, n)
<1>2. \A i \in DOMAIN text : i \in 1..n /\ text[i] = cells[i] /\ cells[i] \in Pair
                            /\ (i = 1 \/ cells[i][2] <= N - FontHeight)
  BY <1>1 DEF Laid
<1> HIDE DEF text
<1>3. ASSUME NEW i \in DOMAIN text, NEW j \in DOMAIN text, i # j
      PROVE  Cell(text[i]) \cap Cell(text[j]) = {}
  <2>1. CASE i < j
    <3>1. Later(cells[i], cells[j])
      BY <1>1, <1>2, <2>1, CharactersApart
    <3> QED
      BY <1>2, <3>1, LaterOff
  <2>2. CASE j < i
    <3>1. Later(cells[j], cells[i])
      BY <1>1, <1>2, <2>2, CharactersApart
    <3>2. Cell(cells[j]) \cap Cell(cells[i]) = {}
      BY <1>2, <3>1, LaterOff
    <3> QED
      BY <1>2, <3>2
  <2> QED
    BY <1>2, <1>3, <2>1, <2>2
<1>4. ASSUME NEW i \in (DOMAIN text) \ {1} PROVE text[i][2] + FontHeight <= N
  <2>1. text[i][2] \in Int /\ text[i][2] <= N - FontHeight
    BY <1>2 DEF Pair
  <2> QED
    BY <2>1, GeometryAssumption, DrawingAssumption
<1>5. (/\ 0 <= p[1] /\ p[1] <= N - FontWidth
       /\ 0 <= p[2] /\ p[2] <= N - FontHeight) =>
         LET fits == ((N - p[1]) \div FontWidth) * ((N - p[2]) \div FontHeight)
         IN Cardinality(TextPlaces(p, n) \cap ScreenPoints)
              = FontWidth * FontHeight * (IF n < fits THEN n ELSE fits)
  BY TextCount DEF OnScreen, TextColumns, TextRows
<1> DEFINE S == TextPlaces(p, n) \cap ScreenPoints
<1> HIDE DEF S
<1>6. IsText(S, p, n)
  BY <1>3, <1>4, <1>5 DEF IsText, text, S
<1> QED
  BY <1>6 DEF S

LEMMA ShapeFields ==
  ASSUME NEW shape \in Shapes
  PROVE  /\ shape.s \in Screens /\ shape.p \in Int \X Int
         /\ \/ shape.op = "line" /\ shape.q \in Int \X Int
            \/ shape.op = "rect" /\ shape.q \in Int \X Int
            \/ shape.op = "circle" /\ shape.r \in Nat
            \/ shape.op = "text" /\ shape.n \in Nat /\ shape.n >= 1
<1>1. N \in Nat
  BY GeometryAssumption
<1>2. Places \subseteq Int \X Int
  BY DrawingAssumption DEF Places
<1>3. CASE shape \in [op : {"line"}, s : Screens, p : Places, q : Places]
  BY <1>2, <1>3
<1>4. CASE shape \in [op : {"rect"}, s : Screens, p : Places, q : Places, filled : BOOLEAN]
  BY <1>2, <1>4
<1>5. ASSUME NEW s \in Screens, NEW c \in Places, NEW w \in 1..2, NEW h \in 2..3,
             shape = [op |-> "rect", s |-> s, filled |-> FALSE,
                      p |-> CenteredCorners(c, w, h)[1], q |-> CenteredCorners(c, w, h)[2]]
      PROVE  /\ shape.s \in Screens /\ shape.p \in Int \X Int
             /\ shape.op = "rect" /\ shape.q \in Int \X Int
  <2>1. PICK x \in Int, y \in Int : c = <<x, y>>
    BY <1>2
  <2>2. CenteredCorners(c, w, h)
          = <<<<x - w \div 2, y - h \div 2>>, <<x + w \div 2, y + w \div 2>>>>
    BY <2>1 DEF CenteredCorners
  <2>3. w \div 2 \in Int /\ h \div 2 \in Int
    OBVIOUS
  <2>4. PICK p \in Int \X Int : p = CenteredCorners(c, w, h)[1]
    BY <2>2, <2>3
  <2>5. PICK q \in Int \X Int : q = CenteredCorners(c, w, h)[2]
    BY <2>2, <2>3
  <2> QED
    BY <1>5, <2>4, <2>5
<1>6. CASE shape \in [op : {"circle"}, s : Screens, p : Places, r : 0..N]
  BY <1>1, <1>2, <1>6
<1>7. CASE shape \in [op : {"text"}, s : Screens, p : Places, n : 1..N + 1]
  BY <1>1, <1>2, <1>7
<1>8. \/ shape \in [op : {"line"}, s : Screens, p : Places, q : Places]
      \/ shape \in [op : {"rect"}, s : Screens, p : Places, q : Places, filled : BOOLEAN]
      \/ shape \in {[op |-> "rect", s |-> s, filled |-> FALSE,
                     p |-> CenteredCorners(c, w, h)[1], q |-> CenteredCorners(c, w, h)[2]] :
                      s \in Screens, c \in Places, w \in 1..2, h \in 2..3}
      \/ shape \in [op : {"circle"}, s : Screens, p : Places, r : 0..N]
      \/ shape \in [op : {"text"}, s : Screens, p : Places, n : 1..N + 1]
  BY DEF Shapes
<1> QED
  BY <1>3, <1>4, <1>5, <1>6, <1>7, <1>8

LEMMA LineInPlane ==
  ASSUME NEW p \in Int \X Int, NEW q \in Int \X Int
  PROVE  Line2D(p, q) \subseteq Int \X Int
<1>1. PICK m \in {1, 2} : m = LongAxis(p, q)
  BY LongAxisType
<1>2. PICK f : Follows(p, q, m, f)
  BY <1>1, LineAlong
<1>3. ASSUME NEW u \in 0..Along(p, q, m)
      PROVE  LinePoint(p, q, m, u, f[u]) \in Int \X Int
  <2>1. f[u] \in 0..Along(p, q, 3 - m)
    BY <1>2 DEF Follows
  <2> QED
    BY <2>1, LinePointType
<1> QED
  BY <1>2, <1>3 DEF Follows

LEMMA CircleInPlane ==
  ASSUME NEW c \in Int \X Int, NEW r \in Nat
  PROVE  Circle2D(c, r) \subseteq Int \X Int
<1>1. ASSUME NEW p \in Circle2D(c, r) PROVE p \in Int \X Int
  <2>1. PICK y \in Rounds(r) : p \in Ring(c, RoundX(r, y), y)
    BY CircleIs
  <2>2. y \in 0..r /\ y \in Int
    BY DEF Rounds
  <2>3. RoundX(r, y) \in Int
    BY <2>2, RoundsType
  <2> QED
    BY <2>1, <2>2, <2>3, RingNear
<1> QED
  BY <1>1

LEMMA TextInPlane ==
  ASSUME NEW p \in Int \X Int, NEW n \in Nat, n >= 1
  PROVE  TextPlaces(p, n) \subseteq Int \X Int
<1>1. PICK cells : Laid(p, n, cells)
  BY TextIs
<1>2. ASSUME NEW i \in DOMAIN TextAt(p, n) PROVE Cell(TextAt(p, n)[i]) \subseteq Int \X Int
  <2>1. TextAt(p, n)[i] \in Pair
    BY <1>1 DEF Laid
  <2>2. PICK x \in Int, y \in Int : TextAt(p, n)[i] = <<x, y>>
    BY <2>1 DEF Pair
  <2> QED
    BY <2>2, DrawingAssumption DEF Cell
<1> QED
  BY <1>2 DEF TextPlaces

LEMMA OutlineIs ==
  ASSUME NEW shape \in Shapes
  PROVE  /\ shape.op = "line" => Outline(shape) = Line2D(shape.p, shape.q)
         /\ shape.op = "rect" => Outline(shape) = Border(shape.p, shape.q)
         /\ shape.op = "circle" => Outline(shape) = Circle2D(shape.p, shape.r)
         /\ shape.op = "text" => Outline(shape) = TextPlaces(shape.p, shape.n)
         /\ shape.op # "rect" => Fill(shape) = {}
         /\ shape.op = "rect" =>
              Fill(shape) = IF shape.filled THEN RectFill(shape.p, shape.q) ELSE {}
<1>1. shape.op = "line" => Outline(shape) = Line2D(shape.p, shape.q)
  BY DEF Outline
<1>2. shape.op = "rect" => Outline(shape) = Rect2D(shape.p, shape.q)
  BY DEF Outline
<1>3. shape.op = "rect" => shape.p \in Int \X Int /\ shape.q \in Int \X Int
  BY ShapeFields
<1>4. shape.op = "circle" => Outline(shape) = Circle2D(shape.p, shape.r)
  BY DEF Outline
<1>5. shape.op = "text" => Outline(shape) = TextPlaces(shape.p, shape.n)
  BY DEF Outline, TextPlaces
<1>6. shape.op # "rect" => Fill(shape) = {}
  BY DEF Fill
<1>7. shape.op = "rect" =>
        Fill(shape) = IF shape.filled THEN RectFill(shape.p, shape.q) ELSE {}
  BY DEF Fill
<1> QED
  BY <1>1, <1>2, <1>3, <1>4, <1>5, <1>6, <1>7, RectIsBorder

LEMMA ShapePlaces ==
  ASSUME NEW shape \in Shapes
  PROVE  Outline(shape) \subseteq Int \X Int /\ Fill(shape) \subseteq Int \X Int
<1>1. CASE shape.op = "line" /\ shape.q \in Int \X Int
  BY <1>1, ShapeFields, OutlineIs, LineInPlane
<1>2. CASE shape.op = "rect" /\ shape.q \in Int \X Int
  <2>1. shape.p \in Int \X Int
    BY ShapeFields
  <2>2. /\ Border(shape.p, shape.q) \subseteq Int \X Int
        /\ RectFill(shape.p, shape.q) \subseteq Int \X Int
    BY <1>2, <2>1, RectIsFilled
  <2> QED
    BY <1>2, <2>2, OutlineIs
<1>3. CASE shape.op = "circle" /\ shape.r \in Nat
  BY <1>3, ShapeFields, OutlineIs, CircleInPlane
<1>4. CASE shape.op = "text" /\ shape.n \in Nat /\ shape.n >= 1
  BY <1>4, ShapeFields, OutlineIs, TextInPlane
<1> QED
  BY <1>1, <1>2, <1>3, <1>4, ShapeFields

(* All of the shapes. *)

\* A random place of a screen lights a pixel of it or, on the rim, nothing.
LEMMA RandomOnScreen ==
  ASSUME NEW s \in Screens, NEW p \in RandomPoints(s), PixelOf(p) \in Pixels
  PROVE  PixelOf(p)[1] = s
<1>1. N \in Nat \ {0} /\ Max = N + 1
  BY GeometryAssumption DEF Max
<1>2. p \in Space
  BY <1>1 DEF RandomPoints, Space, Screens, front, right, back, left, top, bottom
<1>3. PICK a \in 1..3 : Planes(p) = {a}
  BY <1>2, PixelOfOnePlane
<1>4. \A b \in 1..3 : p[b] \in {0, Max} <=> b = a
  BY <1>3 DEF Planes
<1>5. PICK x, y, z : p = <<x, y, z>>
  BY <1>2 DEF Space
<1>6. PixelOf(p) = PixelAt(x, y, z)
  BY <1>5 DEF PixelOf
<1>7. /\ x \in {0, Max} => y \notin {0, Max} /\ z \notin {0, Max}
      /\ y \in {0, Max} => x \notin {0, Max} /\ z \notin {0, Max}
      /\ z \in {0, Max} => x \notin {0, Max} /\ y \notin {0, Max}
  BY <1>4, <1>5
<1>8. CASE s = front
  <2>1. y = 0
    BY <1>5, <1>8 DEF RandomPoints, front, left, right, back, top, bottom
  <2> QED
    BY <1>6, <1>8, <2>1 DEF PixelAt
<1>9. CASE s = right
  <2>1. x = Max
    BY <1>5, <1>9 DEF RandomPoints, front, left, right, back, top, bottom
  <2> QED
    BY <1>6, <1>7, <1>9, <2>1 DEF PixelAt
<1>10. CASE s = back
  <2>1. y = Max
    BY <1>5, <1>10 DEF RandomPoints, front, left, right, back, top, bottom
  <2> QED
    BY <1>1, <1>6, <1>7, <1>10, <2>1 DEF PixelAt
<1>11. CASE s = left
  <2>1. x = 0
    BY <1>5, <1>11 DEF RandomPoints, front, left, right, back, top, bottom
  <2> QED
    BY <1>1, <1>6, <1>7, <1>11, <2>1 DEF PixelAt
<1>12. CASE s = top
  <2>1. z = 0
    BY <1>5, <1>12 DEF RandomPoints, front, left, right, back, top, bottom
  <2> QED
    BY <1>1, <1>6, <1>7, <1>12, <2>1 DEF PixelAt
<1>13. CASE s = bottom
  <2>1. z = Max
    BY <1>5, <1>13 DEF RandomPoints, front, left, right, back, top, bottom
  <2> QED
    BY <1>1, <1>6, <1>7, <1>13, <2>1 DEF PixelAt
<1> QED
  BY <1>8, <1>9, <1>10, <1>11, <1>12, <1>13 DEF Screens

ShapeOps == {"line", "rect", "circle", "text"}

\* What is on the screens after a shape is that shape alone.
ShapeInv ==
  /\ last = Nothing => light = Dark
  /\ last.op \in ShapeOps =>
       last \in Shapes /\ light = Drawn(last.s, Fill(last), Outline(last))
  /\ last.op = "random" =>
       /\ last.s \in Screens /\ last.p \in RandomPoints(last.s)
       /\ light = Painted(Dark, {last.p}, Col)

LEMMA RandomFits ==
  ASSUME ShapeInv, last.op = "random"
  PROVE  ShapesClipToScreen
<1>10. PICK s \in Screens : s = last.s
  BY DEF ShapeInv
<1>1. PICK p \in RandomPoints(s) : light = Painted(Dark, {p}, Col)
  BY <1>10 DEF ShapeInv
<1>2. p \in Space
  BY GeometryAssumption
     DEF RandomPoints, Space, Screens, front, right, back, left, top, bottom, Max
<1>3. LitPixels \subseteq {PixelOf(p)} \cap Pixels
  <2>1. UNION {Lit(r) : r \in {p}} = {PixelOf(p)} \cap Pixels
    BY <1>2, LightsItsPixel
  <2> QED
    BY <1>1, <2>1 DEF LitPixels, Painted, Dark
<1>4. \A px \in LitPixels : px[1] = s
  BY <1>3, RandomOnScreen
<1> DEFINE S == {<<px[2], px[3]>> : px \in LitPixels}
<1>5. \E v : S \subseteq {v}
  BY <1>3
<1>6. PICK v : S = {} \/ S = {v}
  <2> HIDE DEF S
  <2> QED
    BY <1>5
<1>7. Cardinality({}) = 0
  BY FS_EmptySet
<1>8. Cardinality({v}) = 1
  BY FS_Singleton
<1> HIDE DEF S
<1>9. Cardinality(S) <= 1
  BY <1>6, <1>7, <1>8
<1> QED
  BY <1>4, <1>9, <1>10 DEF ShapesClipToScreen, S

LEMMA ShapesFit == ShapeInv => ShapesClipToScreen
<1> SUFFICES ASSUME ShapeInv, last.op \in ShapeOps PROVE ShapesClipToScreen
  BY RandomFits DEF ShapesClipToScreen, ShapeOps
<1>1. PICK shape \in Shapes : shape = last
  BY DEF ShapeInv
<1>2. light = Drawn(shape.s, Fill(shape), Outline(shape))
  BY <1>1 DEF ShapeInv
<1>3. shape.s \in Screens /\ shape.p \in Int \X Int
  BY ShapeFields
<1> DEFINE S == {<<px[2], px[3]>> : px \in LitPixels}
           P == Fill(shape) \cup Outline(shape)
<1>4. \A px \in LitPixels : px[1] = shape.s
  BY <1>2, <1>3, DrawnReads
<1>5. S = P \cap ScreenPoints
  BY <1>2, <1>3, DrawnReads
<1>6. \A r \in P \cap ScreenPoints :
        light[<<shape.s, r[1], r[2]>>] = IF r \in Outline(shape) THEN Col ELSE FillCol
  BY <1>2, <1>3, DrawnReads
<1> HIDE DEF S
<1>7. CASE shape.op = "line" /\ shape.q \in Int \X Int
  <2>1. P = Line2D(shape.p, shape.q)
    BY <1>7, OutlineIs
  <2>2. IsLine(S, shape.p, shape.q)
    BY <1>3, <1>5, <1>7, <2>1, LineIsLine
  <2> QED
    BY <1>1, <1>4, <1>7, <2>2 DEF ShapesClipToScreen, S
<1>8. CASE shape.op = "circle" /\ shape.r \in Nat
  <2>1. P = Circle2D(shape.p, shape.r)
    BY <1>8, OutlineIs
  <2>2. IsCircle(S, shape.p, shape.r)
    BY <1>3, <1>5, <1>8, <2>1, CircleIsCircle
  <2> QED
    BY <1>1, <1>4, <1>8, <2>2 DEF ShapesClipToScreen, S
<1>9. CASE shape.op = "text" /\ shape.n \in Nat /\ shape.n >= 1
  <2>1. P = TextPlaces(shape.p, shape.n)
    BY <1>9, OutlineIs
  <2>2. IsText(S, shape.p, shape.n)
    BY <1>3, <1>5, <1>9, <2>1, TextIsText
  <2> QED
    BY <1>1, <1>4, <1>9, <2>2 DEF ShapesClipToScreen, S
<1>10. CASE shape.op = "rect" /\ shape.q \in Int \X Int
  <2> DEFINE border == Border(shape.p, shape.q) \cap ScreenPoints
             inside == IF shape.filled THEN Inside(shape.p, shape.q) \cap ScreenPoints
                       ELSE {}
  <2>1. Outline(shape) = Border(shape.p, shape.q)
    BY <1>10, OutlineIs
  <2>2. Fill(shape) = IF shape.filled THEN RectFill(shape.p, shape.q) ELSE {}
    BY <1>10, OutlineIs
  <2>3. /\ Border(shape.p, shape.q) \cup RectFill(shape.p, shape.q)
             = Border(shape.p, shape.q) \cup Inside(shape.p, shape.q)
    BY <1>3, <1>10, RectIsFilled
  <2>4. S = border \cup inside
    BY <1>5, <2>1, <2>2, <2>3
  <2>5. ASSUME NEW r \in S
        PROVE  light[<<shape.s, r[1], r[2]>>] = IF r \in border THEN Col ELSE FillCol
    <3>1. r \in ScreenPoints
      BY <1>5
    <3>2. light[<<shape.s, r[1], r[2]>>] = IF r \in Outline(shape) THEN Col ELSE FillCol
      BY <1>5, <1>6
    <3> QED
      BY <2>1, <3>1, <3>2
  <2> HIDE DEF border, inside
  <2>6. \A r \in S :
          light[<<shape.s, r[1], r[2]>>] = IF r \in border THEN Col ELSE FillCol
    BY <2>5
  <2> QED
    BY <1>1, <1>4, <1>10, <2>4, <2>6
       DEF ShapesClipToScreen, S, border, inside, ScreenPoints
<1> QED
  BY <1>1, <1>7, <1>8, <1>9, <1>10, ShapeFields

LEMMA ShapesInductive == ShapeInv /\ [Next]_vars => ShapeInv'
<1> SUFFICES ASSUME ShapeInv, [Next]_vars PROVE ShapeInv'
  OBVIOUS
<1>1. Nothing.op = "nothing"
  BY DEF Nothing
<1>2. CASE UNCHANGED <<light, last>>
  BY <1>2 DEF ShapeInv
<1>3. ASSUME NEW shape \in Shapes, DrawShape(shape) PROVE ShapeInv'
  <2> DEFINE On(points) == {getPointOnScreen(shape.s, p[1], p[2]) : p \in points}
  <2>1. light = Dark /\ last' = shape
    BY <1>3 DEF ShapeInv, DrawShape
  <2>2. light' = Painted(Painted(Dark, On(Fill(shape)), FillCol), On(Outline(shape)), Col)
    BY <1>3, <2>1 DEF DrawShape
  <2>3. Outline(shape) \in SUBSET (Int \X Int) /\ Fill(shape) \in SUBSET (Int \X Int)
    BY ShapePlaces
  <2>4. shape.s \in Screens
    BY ShapeFields
  <2>5. light' = Drawn(shape.s, Fill(shape), Outline(shape))
    BY <2>2, <2>3, <2>4, DrawnPlaces
  <2>6. shape.op \in ShapeOps
    BY ShapeFields DEF ShapeOps
  <2> QED
    BY <1>1, <2>1, <2>5, <2>6 DEF ShapeInv, ShapeOps
<1>4. ASSUME NEW s \in Screens, SetRandomPixel(s) PROVE ShapeInv'
  <2>1. light = Dark
    BY <1>4 DEF ShapeInv, SetRandomPixel
  <2>2. PICK p \in RandomPoints(s) : /\ last' = [op |-> "random", s |-> s, p |-> p]
                                     /\ light' = Painted(Dark, {p}, Col)
    BY <1>4, <2>1 DEF SetRandomPixel
  <2>3. last'.op = "random" /\ last'.s = s /\ last'.p = p
    BY <2>2
  <2> QED
    BY <1>1, <2>2, <2>3 DEF ShapeInv, ShapeOps
<1>5. CASE Clear
  <2>1. last' = Nothing /\ light' = Dark
    BY <1>5 DEF Clear, Dark
  <2> QED
    BY <1>1, <2>1 DEF ShapeInv, ShapeOps
<1>6. ASSUME last' # Nothing, last'.op \notin ShapeOps \cup {"random"} PROVE ShapeInv'
  BY <1>6 DEF ShapeInv
<1>7. ASSUME NEW p \in Space, SetPixel(p) PROVE ShapeInv'
  <2>1. last'.op = "pixel"
    BY <1>7 DEF SetPixel
  <2> QED
    BY <1>1, <1>6, <2>1 DEF ShapeOps
<1>8. ASSUME NEW h \in 0..23, NEW s \in 0..2, NEW v \in 0..2, FillAll(h, s, v)
      PROVE  ShapeInv'
  <2>1. last'.op = "fill"
    BY <1>8 DEF FillAll
  <2> QED
    BY <1>1, <1>6, <2>1 DEF ShapeOps
<1>9. ASSUME /\ last' # Nothing
             /\ last'.op = "random" => \E s \in Screens : SetRandomPixel(s)
             /\ last'.op \in {"line", "rect", "circle", "text"} =>
                  \E shape \in Shapes : DrawShape(shape)
      PROVE  ShapeInv'
  BY <1>3, <1>4, <1>6, <1>9 DEF ShapeOps
<1> QED
  BY <1>2, <1>5, <1>7, <1>8, <1>9, DrawnLast

\* In a cube of any size, at whatever coordinates it is drawn, a line, a
\* rectangle, a circle or a text lights the part of it that is on its screen and
\* nothing else: a line has one point next to the ideal one for each step along
\* its longer axis, a rectangle is its border and what it encloses, a circle is
\* never off by more than rounding and has no gap, no character of a text covers
\* another, and as many are drawn as fit
\* (CubeApplication.cpp:228-278, 417-446, 484-527).
THEOREM ShapesAreClipped == Spec => []ShapesClipToScreen
<1>1. Init => ShapeInv
  <2>1. Nothing.op = "nothing"
    BY DEF Nothing
  <2> QED
    BY <2>1 DEF Init, DrawingInit, ShapeInv, ShapeOps, Dark
<1> QED
  BY <1>1, ShapesInductive, ShapesFit, PTL DEF Spec

-----------------------------------------------------------------------------
(* The configuration.  Every one, made, read or edited, is empty or has an  *)
(* entry for each screen.                                                   *)
ScreenInfos == [s : Screens, x : Int, y : Int, rot : Rotations]

Entries(g) == {g[s] : s \in Screens}

Configs == {{}} \cup {Entries(g) : g \in [Screens -> ScreenInfos]}

SetupInv ==
  /\ etcFile.screens \in Configs /\ cwdFile.screens \in Configs
  /\ config \in Configs
  /\ backend \in Backends \cup {"off"}

LEMMA InfoFields ==
  ASSUME NEW s, NEW layout
  PROVE  LET e == ScreenInfo(s, layout)
         IN e.s = s /\ e.x = layout[1] /\ e.y = layout[2] /\ e.rot = layout[3]
  BY DEF ScreenInfo

LEMMA LayoutsType ==
  ASSUME NEW hw \in Backends, NEW s \in Screens
  PROVE  LET l == Layouts(hw)[s]
         IN l[1] \in 0..5 /\ l[2] \in 0..1 /\ l[3] \in Rotations
<1> USE DEF Layouts, Screens, Rotations, front, right, back, left, top, bottom
<1>1. CASE hw = "fpga-ftdi"
  BY <1>1
<1>2. CASE hw = "fpga-rpispi"
  BY <1>2
<1>3. CASE hw = "rgb-matrix"
  BY <1>3
<1>4. CASE hw = "simulator"
  BY <1>4
<1> QED
  BY <1>1, <1>2, <1>3, <1>4 DEF Backends

LEMMA DefaultInConfigs ==
  ASSUME NEW hw \in Backends
  PROVE  createDefaultCubeConfig(hw) \in Configs
<1> DEFINE g == [s \in Screens |-> ScreenInfo(s, Layouts(hw)[s])]
<1>1. ASSUME NEW s \in Screens PROVE ScreenInfo(s, Layouts(hw)[s]) \in ScreenInfos
  BY LayoutsType DEF ScreenInfo, ScreenInfos
<1>2. g \in [Screens -> ScreenInfos]
  BY <1>1
<1>3. createDefaultCubeConfig(hw) = Entries(g)
  BY DEF createDefaultCubeConfig, Entries
<1> QED
  BY <1>2, <1>3 DEF Configs

\* An edit changes the entries of one screen.
LEMMA EditInConfigs ==
  ASSUME NEW C \in Configs, NEW s \in Screens, NEW new \in ScreenInfos
  PROVE  {IF e.s = s THEN new ELSE e : e \in C} \in Configs
<1> DEFINE E == {IF e.s = s THEN new ELSE e : e \in C}
<1>1. CASE C = {}
  <2>1. E = {}
    BY <1>1
  <2> QED
    BY <2>1 DEF Configs
<1>2. CASE C # {}
  <2>1. PICK g \in [Screens -> ScreenInfos] : C = Entries(g)
    BY <1>2 DEF Configs
  <2> DEFINE h == [t \in Screens |-> IF g[t].s = s THEN new ELSE g[t]]
  <2>2. h \in [Screens -> ScreenInfos]
    BY <2>1
  <2>3. E = Entries(h)
    BY <2>1 DEF Entries
  <2> QED
    BY <2>2, <2>3 DEF Configs
<1> QED
  BY <1>1, <1>2

LEMMA EditedInConfigs ==
  ASSUME NEW f \in Edited
  PROVE  f.screens \in Configs
<1> DEFINE EditOf(hw, s, x, y, rot) ==
             File({IF e.s = s THEN ScreenInfo(s, <<x, y, rot>>) ELSE e :
                     e \in createDefaultCubeConfig(hw)})
           Edits(hw) == {EditOf(hw, s, x, y, rot) :
                           s \in Screens, x \in Offsets, y \in Offsets, rot \in Rotations}
<1>1. Edited = UNION {Edits(hw) : hw \in EditedFiles}
  BY DEF Edited
<1> HIDE DEF EditOf
<1>2. PICK hw \in EditedFiles : f \in Edits(hw)
  <2> HIDE DEF Edits
  <2> QED
    BY <1>1
<1>3. PICK s \in Screens, x \in Offsets, y \in Offsets, rot \in Rotations :
        f = EditOf(hw, s, x, y, rot)
  BY <1>2
<1>4. f = File({IF e.s = s THEN ScreenInfo(s, <<x, y, rot>>) ELSE e :
                  e \in createDefaultCubeConfig(hw)})
  BY <1>3 DEF EditOf
<1>5. ScreenInfo(s, <<x, y, rot>>) \in ScreenInfos
  BY SetupAssumption DEF ScreenInfo, ScreenInfos
<1>6. createDefaultCubeConfig(hw) \in Configs
  BY DefaultInConfigs, SetupAssumption
<1> HIDE DEF createDefaultCubeConfig
<1>7. {IF e.s = s THEN ScreenInfo(s, <<x, y, rot>>) ELSE e :
         e \in createDefaultCubeConfig(hw)} \in Configs
  BY <1>5, <1>6, EditInConfigs
<1> QED
  BY <1>4, <1>7 DEF File

LEMMA SetupInductive == SetupInv /\ [Next]_vars => SetupInv'
<1> SUFFICES ASSUME SetupInv, [Next]_vars PROVE SetupInv'
  OBVIOUS
<1>1. {} \in Configs
  BY DEF Configs
<1>2. CASE UNCHANGED setupVars
  BY <1>2 DEF SetupInv, setupVars
<1>3. ASSUME NEW hw \in Backends, NEW path \in {"none", "etc", "cwd"}, Start(hw, path)
      PROVE  SetupInv'
  <2> DEFINE default == createDefaultCubeConfig(hw)
  <2>1. default \in Configs
    BY DefaultInConfigs
  <2> HIDE DEF default
  <2>2. cwdFile' = cwdFile /\ backend' = hw
    BY <1>3 DEF Start
  <2>3. \/ config' \in {etcFile.screens, cwdFile.screens} /\ etcFile' = etcFile
        \/ config' = default /\ etcFile' \in {NoFile, File(default)}
    BY <1>3 DEF Start, default
  <2>4. NoFile.screens = {} /\ File(default).screens = default
    BY DEF NoFile, File
  <2>5. etcFile'.screens \in Configs /\ config' \in Configs
    BY <2>1, <2>3, <2>4, <1>1 DEF SetupInv
  <2> QED
    BY <2>2, <2>5 DEF SetupInv
<1>4. CASE NoScreens \/ Stop
  BY <1>4, <1>1 DEF NoScreens, Stop, SetupInv
<1>5. CASE Edit
  <2>1. cwdFile'.screens \in Configs
    BY <1>5, EditedInConfigs, SetupAssumption DEF Edit
  <2> QED
    BY <1>5, <2>1 DEF Edit, SetupInv
<1> QED
  BY <1>2, <1>3, <1>4, <1>5 DEF Next, SetupNext, vars, setupVars

LEMMA SetupInitially == Init => SetupInv
<1> SUFFICES ASSUME Init PROVE SetupInv
  OBVIOUS
<1>1. {} \in Configs /\ NoFile.screens = {} /\ BadFile.screens = {}
  BY DEF Configs, NoFile, BadFile
<1>2. \A hw \in Backends : File(createDefaultCubeConfig(hw)).screens \in Configs
  BY DefaultInConfigs DEF File
<1>3. etcFile.screens \in Configs
  BY <1>1, <1>2 DEF Init, SetupInit
<1> QED
  BY <1>1, <1>3 DEF Init, SetupInit, SetupInv

-----------------------------------------------------------------------------
(* Screens that hide each other.                                            *)

\* A coordinate of a cell tells the panel and the pixel of it.
LEMMA CellOnPanel ==
  ASSUME NEW x \in Int, NEW u \in Int, NEW i \in 0..N-1, NEW k \in 0..N-1,
         x * N + i = u * N + k
  PROVE  x = u /\ i = k
<1> USE GeometryAssumption
<1> DEFINE P == x * N
           Q == u * N
<1>1. N \in Nat /\ P \in Int /\ Q \in Int
  OBVIOUS
<1>2. \A a, b \in Int : a > b => a * N >= b * N + N
  <2> SUFFICES ASSUME NEW a \in Int, NEW b \in Int, a > b PROVE a * N >= b * N + N
    OBVIOUS
  <2>1. a - b \in Nat /\ a - b >= 1
    OBVIOUS
  <2>2. N * (a - b) >= N
    BY <1>1, <2>1, AtLeast
  <2>3. N * (a - b) = a * N - b * N
    BY <1>1
  <2>4. a * N \in Int /\ b * N \in Int
    BY <1>1
  <2> QED
    BY <1>1, <2>2, <2>3, <2>4
<1>3. x > u => P >= Q + N
  BY <1>2
<1>4. u > x => Q >= P + N
  BY <1>2
<1>5. P + i = Q + k
  OBVIOUS
<1> HIDE DEF P, Q
<1>6. ~(x > u) /\ ~(u > x)
  BY <1>1, <1>3, <1>4, <1>5
<1>7. x = u
  BY <1>6
<1>8. P = Q
  BY <1>7 DEF P, Q
<1> QED
  BY <1>1, <1>5, <1>7, <1>8

LEMMA EntriesFinite ==
  ASSUME NEW C \in Configs
  PROVE  IsFiniteSet(C) /\ C \subseteq ScreenInfos
<1>1. CASE C = {}
  BY <1>1, FS_EmptySet
<1>2. CASE C # {}
  <2>1. PICK g \in [Screens -> ScreenInfos] : C = Entries(g)
    BY <1>2 DEF Configs
  <2>2. g \in Surjection(Screens, C)
    BY <2>1 DEF Entries, Surjection
  <2>3. Screens = 0..5
    BY DEF Screens, front, right, back, left, top, bottom
  <2>4. IsFiniteSet(Screens)
    <3>1. 0 \in Int /\ 5 \in Int
      OBVIOUS
    <3> QED
      BY <2>3, <3>1, FS_Interval, Zenon
  <2> QED
    BY <2>1, <2>2, <2>4, FS_Surjection DEF Entries
<1> QED
  BY <1>1, <1>2

LEMMA CellsFinite ==
  ASSUME NEW hw, config \in Configs
  PROVE  IsFiniteSet(Cells(hw))
<1>1. Cardinality(config) \in Nat
  BY EntriesFinite, FS_CardinalityType
<1>2. Columns(hw) * N - 1 \in Int /\ Rows(hw) * N - 1 \in Int
  <2>1. Columns(hw) \in Int /\ Rows(hw) \in Int /\ N \in Int
    BY <1>1, GeometryAssumption DEF Columns, Rows
  <2> HIDE DEF Columns, Rows
  <2> QED
    BY <2>1
<1> DEFINE c == Columns(hw) * N - 1
           r == Rows(hw) * N - 1
<1>3. c \in Int /\ r \in Int
  BY <1>2
<1>4. Cells(hw) = (0..c) \X (0..r)
  BY DEF Cells
<1> HIDE DEF c, r
<1>5. IsFiniteSet(0..c) /\ IsFiniteSet(0..r)
  BY <1>3, FS_Interval
<1> QED
  BY <1>4, <1>5, FS_Product

LEMMA OneOfScreen ==
  ASSUME NEW hw, NEW r \in Rendered(hw)
  PROVE  \E e \in config, i \in 0..N-1, j \in 0..N-1 :
           r = <<Place(hw, e, i, j), <<e.s>> \o Turned(Turn(hw, e.rot), i, j)>>
<1> DEFINE Pixel(e, i, j) == <<Place(hw, e, i, j), <<e.s>> \o Turned(Turn(hw, e.rot), i, j)>>
           All == {Pixel(e, i, j) : e \in config, i \in 0..N-1, j \in 0..N-1}
<1>1. Rendered(hw) = {p \in All : p[1] \in Cells(hw)}
  BY DEF Rendered
<1> HIDE DEF All
<1>2. r \in All
  BY <1>1
<1> HIDE DEF Pixel
<1>3. \E e \in config, i \in 0..N-1, j \in 0..N-1 : r = Pixel(e, i, j)
  BY <1>2 DEF All
<1> QED
  BY <1>3 DEF Pixel

\* Where nothing is warned about, a cell has one pixel.
LEMMA CellsHaveOnePixel ==
  ASSUME NEW hw, config \in Configs, ~Warned,
         hw = "fpga-ftdi" => \A e \in config : e.y = 0,
         NEW p \in Rendered(hw), NEW q \in Rendered(hw), p[1] = q[1]
  PROVE  p = q
<1> DEFINE Pixel(e, i, j) == <<e.s>> \o Turned(Turn(hw, e.rot), i, j)
<1>1. PICK e \in config, i \in 0..N-1, j \in 0..N-1 :
        p = <<Place(hw, e, i, j), Pixel(e, i, j)>>
  BY OneOfScreen
<1>2. PICK f \in config, k \in 0..N-1, l \in 0..N-1 :
        q = <<Place(hw, f, k, l), Pixel(f, k, l)>>
  BY OneOfScreen
<1> HIDE DEF Pixel
<1>3. Place(hw, e, i, j) = Place(hw, f, k, l)
  BY <1>1, <1>2
<1>4. /\ e.x \in Int /\ e.y \in Int /\ f.x \in Int /\ f.y \in Int
  BY EntriesFinite DEF ScreenInfos
<1>5. e.x = f.x /\ i = k
  <2>1. e.x * N + i = f.x * N + k
    BY <1>3 DEF Place
  <2> QED
    BY <2>1, <1>4, CellOnPanel
<1>6. e.y = f.y /\ j = l
  <2>1. CASE hw = "fpga-ftdi"
    <3>1. e.y = 0 /\ f.y = 0
      BY <2>1
    <3>2. 0 + j = 0 + l
      BY <2>1, <1>3 DEF Place
    <3> QED
      BY <3>1, <3>2
  <2>2. CASE hw # "fpga-ftdi"
    <3>1. e.y * N + j = f.y * N + l
      BY <2>2, <1>3 DEF Place
    <3> QED
      BY <3>1, <1>4, CellOnPanel
  <2> QED
    BY <2>1, <2>2
<1>7. e = f
  BY <1>5, <1>6 DEF Warned, SameOffset
<1> QED
  BY <1>1, <1>2, <1>5, <1>6, <1>7

LEMMA OverlapsFit == SetupInv => OverlapIsWarned
<1> SUFFICES ASSUME SetupInv, Hardware, ~Warned,
                    backend = "fpga-ftdi" => \A e \in config : e.y = 0
             PROVE  LET R == Rendered(backend)
                    IN ~(Cardinality(R) > Cardinality({r[1] : r \in R}))
  BY DEF OverlapIsWarned
<1> DEFINE R == Rendered(backend)
           T == {r[1] : r \in R}
           f == [r \in R |-> r[1]]
<1>1. config \in Configs
  BY DEF SetupInv
<1>2. T \in SUBSET Cells(backend)
  BY DEF Rendered
<1>3. IsFiniteSet(T)
  BY <1>1, <1>2, CellsFinite, FS_Subset
<1>4. \A p, q \in R : p[1] = q[1] => p = q
  BY <1>1, CellsHaveOnePixel
<1> HIDE DEF R
<1>5. f \in Injection(R, T)
  BY <1>4 DEF Injection, IsInjective
<1>6. Cardinality(R) <= Cardinality(T) /\ IsFiniteSet(R)
  BY <1>3, <1>5, FS_Injection
<1>7. Cardinality(R) \in Nat /\ Cardinality(T) \in Nat
  BY <1>3, <1>6, FS_CardinalityType
<1> QED
  BY <1>6, <1>7 DEF R

\* Whatever configuration the server was given, a screen that hides another
\* one is warned about (ServerSetup.cpp:108-162): what the warning compares,
\* the offsets, is all that decides which cells a screen takes.
THEOREM OverlapsAreWarned == Spec => []OverlapIsWarned
  BY SetupInitially, SetupInductive, OverlapsFit, PTL DEF Spec

-----------------------------------------------------------------------------
(* The panels of a default configuration.                                   *)
Side == 0..N-1

PanelPixel(hw, e, i, j) == Turned(Turn(hw, e.rot), i, j)

ScreenPixel(hw, e, i, j) == <<e.s>> \o PanelPixel(hw, e, i, j)

\* The backends that drive panels, and the columns of them.
Panels == {"fpga-ftdi", "fpga-rpispi", "rgb-matrix"}

PanelColumns(hw) == IF hw = "fpga-rpispi" THEN 3 ELSE 6

LEMMA TurnType ==
  ASSUME NEW hw, NEW rot \in Rotations
  PROVE  Turn(hw, rot) \in Rotations
<1>1. (360 - 0) % 360 = 0 /\ (360 - 90) % 360 = 270
  BY SMT
<1>2. (360 - 180) % 360 = 180 /\ (360 - 270) % 360 = 90
  BY SMT
<1> QED
  BY <1>1, <1>2 DEF Turn, Rotations

\* A turned screen keeps its pixels.
LEMMA TurnedKeepsPixels ==
  ASSUME NEW rot \in Rotations
  PROVE  /\ \A i, j \in Side : \E a, b \in Side : Turned(rot, i, j) = <<a, b>>
         /\ \A a, b \in Side : \E i, j \in Side : Turned(rot, i, j) = <<a, b>>
<1> USE GeometryAssumption DEF Side
<1>5. \A i \in Side : N - 1 - i \in Side /\ N - 1 - (N - 1 - i) = i
  OBVIOUS
<1>1. CASE rot = 0
  <2>1. \A i, j : Turned(rot, i, j) = <<i, j>>
    BY <1>1 DEF Turned
  <2> QED
    BY <2>1
<1>2. CASE rot = 90
  <2>1. \A i, j : Turned(rot, i, j) = <<N - 1 - j, i>>
    BY <1>2 DEF Turned
  <2>2. ASSUME NEW i \in Side, NEW j \in Side
        PROVE  \E a, b \in Side : Turned(rot, i, j) = <<a, b>>
    <3>1. N - 1 - j \in Side /\ i \in Side
      OBVIOUS
    <3> QED
      BY <2>1, <3>1, Zenon
  <2>3. ASSUME NEW a \in Side, NEW b \in Side
        PROVE  \E i, j \in Side : Turned(rot, i, j) = <<a, b>>
    <3>1. b \in Side /\ N - 1 - a \in Side
      OBVIOUS
    <3>2. Turned(rot, b, N - 1 - a) = <<a, b>>
      BY <2>1
    <3> QED
      BY <3>1, <3>2, Zenon
  <2> QED
    BY <2>2, <2>3
<1>3. CASE rot = 180
  <2>1. \A i, j : Turned(rot, i, j) = <<N - 1 - i, N - 1 - j>>
    BY <1>3 DEF Turned
  <2>2. ASSUME NEW i \in Side, NEW j \in Side
        PROVE  \E a, b \in Side : Turned(rot, i, j) = <<a, b>>
    <3>1. N - 1 - i \in Side /\ N - 1 - j \in Side
      OBVIOUS
    <3> QED
      BY <2>1, <3>1, Zenon
  <2>3. ASSUME NEW a \in Side, NEW b \in Side
        PROVE  \E i, j \in Side : Turned(rot, i, j) = <<a, b>>
    <3>1. N - 1 - a \in Side /\ N - 1 - b \in Side
      OBVIOUS
    <3>2. Turned(rot, N - 1 - a, N - 1 - b) = <<a, b>>
      BY <2>1
    <3> QED
      BY <3>1, <3>2, Zenon
  <2> QED
    BY <2>2, <2>3
<1>4. CASE rot = 270
  <2>1. \A i, j : Turned(rot, i, j) = <<j, N - 1 - i>>
    BY <1>4 DEF Turned
  <2>2. ASSUME NEW i \in Side, NEW j \in Side
        PROVE  \E a, b \in Side : Turned(rot, i, j) = <<a, b>>
    <3>1. j \in Side /\ N - 1 - i \in Side
      OBVIOUS
    <3> QED
      BY <2>1, <3>1, Zenon
  <2>3. ASSUME NEW a \in Side, NEW b \in Side
        PROVE  \E i, j \in Side : Turned(rot, i, j) = <<a, b>>
    <3>1. N - 1 - b \in Side /\ a \in Side
      OBVIOUS
    <3>2. Turned(rot, N - 1 - b, a) = <<a, b>>
      BY <2>1
    <3> QED
      BY <3>1, <3>2, Zenon
  <2> QED
    BY <2>2, <2>3
<1> QED
  BY <1>1, <1>2, <1>3, <1>4 DEF Rotations

LEMMA TurnedApart ==
  ASSUME NEW rot \in Rotations, NEW i \in Side, NEW j \in Side,
         NEW k \in Side, NEW l \in Side, Turned(rot, i, j) = Turned(rot, k, l)
  PROVE  i = k /\ j = l
<1> USE GeometryAssumption DEF Side, Turned
<1>1. CASE rot = 0
  BY <1>1
<1>2. CASE rot = 90
  BY <1>2
<1>3. CASE rot = 180
  BY <1>3
<1>4. CASE rot = 270
  BY <1>4
<1> QED
  BY <1>1, <1>2, <1>3, <1>4 DEF Rotations

LEMMA Joined == \A s, a, b \in Int : <<s>> \o <<a, b>> = <<s, a, b>>
<1> SUFFICES ASSUME NEW s \in Int, NEW a \in Int, NEW b \in Int
             PROVE  <<s>> \o <<a, b>> = <<s, a, b>>
  OBVIOUS
<1> DEFINE p == <<s>>
           q == <<a, b>>
           r == <<s, a, b>>
<1>1. p \in Seq(Int) /\ q \in Seq(Int) /\ r \in Seq(Int)
  OBVIOUS
<1>2. Len(p) = 1 /\ Len(q) = 2 /\ Len(r) = 3
  OBVIOUS
<1>3. p[1] = s /\ q[1] = a /\ q[2] = b /\ r[1] = s /\ r[2] = a /\ r[3] = b
  OBVIOUS
<1> HIDE DEF p, q, r
<1>4. /\ p \o q \in Seq(Int)
      /\ Len(p \o q) = Len(p) + Len(q)
      /\ \A i \in 1 .. Len(p) + Len(q) :
           (p \o q)[i] = IF i <= Len(p) THEN p[i] ELSE q[i - Len(p)]
  <2>1. PICK T : T = Int
    OBVIOUS
  <2>2. p \in Seq(T) /\ q \in Seq(T)
    BY <1>1, <2>1
  <2> QED
    BY <2>1, <2>2, ConcatProperties
<1> DEFINE pq == p \o q
<1>5. pq \in Seq(Int) /\ Len(pq) = 3 /\ pq[1] = s /\ pq[2] = a /\ pq[3] = b
  BY <1>2, <1>3, <1>4
<1> HIDE DEF pq
<1>6. \A i \in 1..Len(pq) : pq[i] = r[i]
  <2>1. 1..Len(pq) = {1, 2, 3}
    BY <1>5
  <2> QED
    BY <1>3, <1>5, <2>1
<1>7. pq = r
  BY <1>1, <1>2, <1>5, <1>6, SeqEqual
<1> QED
  BY <1>7 DEF p, q, r, pq

LEMMA DefaultEntries ==
  ASSUME NEW hw \in Backends, NEW e \in createDefaultCubeConfig(hw)
  PROVE  /\ e = ScreenInfo(e.s, Layouts(hw)[e.s])
         /\ e.s \in Screens /\ e.rot \in Rotations
         /\ e.x = Layouts(hw)[e.s][1] /\ e.y = Layouts(hw)[e.s][2]
<1>1. PICK s \in Screens : e = ScreenInfo(s, Layouts(hw)[s])
  BY DEF createDefaultCubeConfig
<1>2. e.s = s
  BY <1>1, InfoFields
<1> QED
  BY <1>1, <1>2, InfoFields, LayoutsType

\* The pixels of one screen, from their places on its panel.
ShowsItsPixels(hw, e) ==
  \A i, j \in Side : \E a, b \in Side :
    PanelPixel(hw, e, i, j) = <<a, b>> /\ ScreenPixel(hw, e, i, j) = <<e.s, a, b>>

ShowsThemAll(hw, e) ==
  \A a, b \in Side : \E i, j \in Side : ScreenPixel(hw, e, i, j) = <<e.s, a, b>>

LEMMA ShowsEveryOfScreen ==
  ASSUME NEW hw, NEW e, e.s \in Screens, e.rot \in Rotations
  PROVE  ShowsItsPixels(hw, e) /\ ShowsThemAll(hw, e)
<1>1. PICK rot \in Rotations : rot = Turn(hw, e.rot)
  BY TurnType
<1>2. \A i, j : PanelPixel(hw, e, i, j) = Turned(rot, i, j)
  BY <1>1 DEF PanelPixel
<1>3. /\ \A i, j \in Side : \E a, b \in Side : Turned(rot, i, j) = <<a, b>>
      /\ \A a, b \in Side : \E i, j \in Side : Turned(rot, i, j) = <<a, b>>
  BY TurnedKeepsPixels
<1>4. ASSUME NEW i, NEW j, NEW a \in Side, NEW b \in Side,
             Turned(rot, i, j) = <<a, b>>
      PROVE  PanelPixel(hw, e, i, j) = <<a, b>> /\ ScreenPixel(hw, e, i, j) = <<e.s, a, b>>
  <2>1. e.s \in Int /\ a \in Int /\ b \in Int
    BY GeometryAssumption DEF Side, Screens, front, right, back, left, top, bottom
  <2>2. PanelPixel(hw, e, i, j) = <<a, b>>
    BY <1>2, <1>4
  <2>3. ScreenPixel(hw, e, i, j) = <<e.s>> \o <<a, b>>
    BY <2>2 DEF ScreenPixel
  <2>4. <<e.s>> \o <<a, b>> = <<e.s, a, b>>
    BY <2>1, Joined, Zenon
  <2> QED
    BY <2>2, <2>3, <2>4, Zenon
<1>5. ShowsItsPixels(hw, e)
  <2> SUFFICES ASSUME NEW i \in Side, NEW j \in Side
               PROVE  \E a, b \in Side : /\ PanelPixel(hw, e, i, j) = <<a, b>>
                                         /\ ScreenPixel(hw, e, i, j) = <<e.s, a, b>>
    BY DEF ShowsItsPixels
  <2>1. PICK a \in Side, b \in Side : Turned(rot, i, j) = <<a, b>>
    BY <1>3
  <2>2. PanelPixel(hw, e, i, j) = <<a, b>> /\ ScreenPixel(hw, e, i, j) = <<e.s, a, b>>
    BY <1>4, <2>1
  <2> QED
    BY <2>2
<1>6. ShowsThemAll(hw, e)
  <2> SUFFICES ASSUME NEW a \in Side, NEW b \in Side
               PROVE  \E i, j \in Side : ScreenPixel(hw, e, i, j) = <<e.s, a, b>>
    BY DEF ShowsThemAll
  <2>1. PICK i \in Side, j \in Side : Turned(rot, i, j) = <<a, b>>
    BY <1>3
  <2>2. ScreenPixel(hw, e, i, j) = <<e.s, a, b>>
    BY <1>4, <2>1
  <2> QED
    BY <2>2
<1> QED
  BY <1>5, <1>6

\* The pixels shown are those of the cube, each from one place of one screen.
LEMMA ShowsEveryPixel ==
  ASSUME NEW hw \in Backends,
         NEW C, C = createDefaultCubeConfig(hw)
  PROVE  /\ \A e \in C, i, j \in Side : ScreenPixel(hw, e, i, j) \in Pixels
         /\ \A p \in Pixels : \E e \in C, i, j \in Side : p = ScreenPixel(hw, e, i, j)
<1>1. ASSUME NEW e \in C
      PROVE  ShowsItsPixels(hw, e) /\ ShowsThemAll(hw, e)
  <2>1. e.s \in Screens /\ e.rot \in Rotations
    BY DefaultEntries
  <2> QED
    BY <2>1, ShowsEveryOfScreen
<1>2. \A e \in C : e.s \in Screens
  BY DefaultEntries
<1>3. \A e, f \in C : e.s = f.s => e = f
  BY DefaultEntries
<1>4. \A s \in Screens : \E e \in C : e.s = s
  BY InfoFields DEF createDefaultCubeConfig
<1>5. ASSUME NEW e \in C, NEW i \in Side, NEW j \in Side
      PROVE  ScreenPixel(hw, e, i, j) \in Pixels
  <2>1. PICK a \in Side, b \in Side : ScreenPixel(hw, e, i, j) = <<e.s, a, b>>
    BY <1>1 DEF ShowsItsPixels
  <2> QED
    BY <2>1, <1>2 DEF Pixels, Side
<1>6. ASSUME NEW p \in Pixels
      PROVE  \E e \in C, i, j \in Side : p = ScreenPixel(hw, e, i, j)
  <2>1. PICK s \in Screens, a \in Side, b \in Side : p = <<s, a, b>>
    BY DEF Pixels, Side
  <2>2. PICK e \in C : e.s = s
    BY <1>4
  <2>3. PICK i \in Side, j \in Side : ScreenPixel(hw, e, i, j) = <<e.s, a, b>>
    BY <1>1 DEF ShowsThemAll
  <2>4. p = ScreenPixel(hw, e, i, j)
    BY <2>1, <2>2, <2>3
  <2> QED
    BY <2>4, Zenon
<1> QED
  BY <1>5, <1>6

LEMMA ShowsPixelsApart ==
  ASSUME NEW hw \in Backends,
         NEW e \in createDefaultCubeConfig(hw), NEW f \in createDefaultCubeConfig(hw),
         NEW i \in Side, NEW j \in Side, NEW k \in Side, NEW l \in Side,
         ScreenPixel(hw, e, i, j) = ScreenPixel(hw, f, k, l)
  PROVE  e = f /\ i = k /\ j = l
<1>1. ShowsItsPixels(hw, e) /\ ShowsItsPixels(hw, f)
  <2>1. /\ e.s \in Screens /\ e.rot \in Rotations
        /\ f.s \in Screens /\ f.rot \in Rotations
    BY DefaultEntries
  <2> QED
    BY <2>1, ShowsEveryOfScreen
<1>2. PICK a \in Side, b \in Side :
        PanelPixel(hw, e, i, j) = <<a, b>> /\ ScreenPixel(hw, e, i, j) = <<e.s, a, b>>
  BY <1>1 DEF ShowsItsPixels
<1>3. PICK c \in Side, d \in Side :
        PanelPixel(hw, f, k, l) = <<c, d>> /\ ScreenPixel(hw, f, k, l) = <<f.s, c, d>>
  BY <1>1 DEF ShowsItsPixels
<1>4. e.s = f.s /\ a = c /\ b = d
  <2>1. <<e.s, a, b>> = <<f.s, c, d>>
    BY <1>2, <1>3, Zenon
  <2> QED
    BY <2>1
<1>5. e = f
  <2>1. e = ScreenInfo(e.s, Layouts(hw)[e.s]) /\ f = ScreenInfo(f.s, Layouts(hw)[f.s])
    BY DefaultEntries
  <2> QED
    BY <2>1, <1>4
<1>6. PICK rot \in Rotations : rot = Turn(hw, e.rot)
  BY DefaultEntries, TurnType
<1>7. Turned(rot, i, j) = Turned(rot, k, l)
  BY <1>2, <1>3, <1>4, <1>5, <1>6 DEF PanelPixel
<1>8. i = k /\ j = l
  BY <1>7, TurnedApart
<1> QED
  BY <1>5, <1>8

\* The panels of a default configuration, and those the backend drives.
LEMMA DefaultCells ==
  ASSUME NEW hw \in Panels, config = createDefaultCubeConfig(hw)
  PROVE  /\ Columns(hw) = PanelColumns(hw)
         /\ Cells(hw) = (0..PanelColumns(hw) * N - 1) \X (0..Rows(hw) * N - 1)
<1> DEFINE g == [s \in Screens |-> ScreenInfo(s, Layouts(hw)[s])]
<1>1. Cardinality(config) = 6
  <2>1. g \in Surjection(Screens, config)
    BY DEF createDefaultCubeConfig, Surjection
  <2>2. g \in Injection(Screens, config)
    <3>1. \A s \in Screens : g[s] \in config /\ g[s].s = s
      BY InfoFields DEF createDefaultCubeConfig
    <3> HIDE DEF g
    <3>2. g \in [Screens -> config]
      BY <2>1 DEF Surjection
    <3> QED
      BY <3>1, <3>2 DEF Injection, IsInjective
  <2>3. ExistsBijection(Screens, config)
    BY <2>1, <2>2 DEF ExistsBijection, Bijection
  <2>4. IsFiniteSet(Screens) /\ Cardinality(Screens) = 6
    <3>1. PICK a \in Int, b \in Int : a = 0 /\ b = 5
      OBVIOUS
    <3>2. Screens = a..b
      BY <3>1 DEF Screens, front, right, back, left, top, bottom
    <3>3. IsFiniteSet(a..b) /\ Cardinality(a..b) = IF a > b THEN 0 ELSE b - a + 1
      BY FS_Interval
    <3> QED
      BY <3>1, <3>2, <3>3
  <2> QED
    BY <2>3, <2>4, FS_Bijection
<1>2. Columns(hw) = PanelColumns(hw)
  BY <1>1 DEF Columns, PanelColumns
<1> QED
  BY <1>2 DEF Cells

\* Columns and rows of cells lie on those of the panels.
LEMMA OnePanelOf ==
  ASSUME NEW n \in {1, 2, 3, 6}, NEW c
  PROVE  c \in 0..n * N - 1 <=> \E x \in 0..n-1, i \in Side : c = x * N + i
<1> USE GeometryAssumption DEF Side
<1>1. ASSUME NEW x \in 0..n-1, NEW i \in Side, c = x * N + i
      PROVE  c \in 0..n * N - 1
  <2>1. x \in {0, 1, 2, 3, 4, 5} /\ N \in Nat
    OBVIOUS
  <2> QED
    BY <1>1, <2>1
<1>2. ASSUME c \in 0..n * N - 1
      PROVE  \E x \in 0..n-1, i \in Side : c = x * N + i
  <2> DEFINE On(x) == x \in 0..n-1 /\ c - x * N \in Side
  <2>1. N \in Nat /\ c \in Int
    BY <1>2
  <2>2. On(0) \/ On(1) \/ On(2) \/ On(3) \/ On(4) \/ On(5)
    BY <1>2
  <2>3. PICK x \in 0..5 : On(x)
    <3> HIDE DEF On
    <3>1. 0 \in 0..5 /\ 1 \in 0..5 /\ 2 \in 0..5 /\ 3 \in 0..5 /\ 4 \in 0..5 /\ 5 \in 0..5
      OBVIOUS
    <3> QED
      BY <2>2, <3>1
  <2>4. PICK i \in Side : i = c - x * N
    BY <2>3
  <2>5. c = x * N + i
    <3>1. x * N \in Int
      BY <2>1
    <3> QED
      BY <2>1, <2>4, <3>1
  <2> QED
    BY <2>3, <2>4, <2>5
<1> QED
  BY <1>1, <1>2

\* Each panel has a screen, and each screen a panel.
LEMMA DefaultPanels ==
  ASSUME NEW hw \in Panels
  PROVE  /\ \A s \in Screens : /\ Layouts(hw)[s][1] \in 0..PanelColumns(hw) - 1
                               /\ \/ hw = "fpga-ftdi"
                                  \/ Layouts(hw)[s][2] \in 0..Rows(hw) - 1
         /\ \A x \in 0..PanelColumns(hw) - 1, y \in 0..Rows(hw) - 1 :
              \E s \in Screens : /\ Layouts(hw)[s][1] = x
                                 /\ \/ hw = "fpga-ftdi" /\ y = 0
                                    \/ Layouts(hw)[s][2] = y
<1> USE DEF Layouts, PanelColumns, Rows, Screens, front, right, back, left, top, bottom
<1>1. CASE hw = "fpga-ftdi"
  BY <1>1
<1>2. CASE hw = "fpga-rpispi"
  BY <1>2
<1>3. CASE hw = "rgb-matrix"
  BY <1>3
<1> QED
  BY <1>1, <1>2, <1>3 DEF Panels

LEMMA FiniteTriples ==
  ASSUME NEW A, NEW B, NEW C, IsFiniteSet(A), IsFiniteSet(B), IsFiniteSet(C)
  PROVE  IsFiniteSet(A \X B \X C)
<1> DEFINE P == (A \X B) \X C
           f == [p \in P |-> <<p[1][1], p[1][2], p[2]>>]
<1>1. IsFiniteSet(P)
  BY FS_Product
<1>2. f \in Surjection(P, A \X B \X C)
  <2>1. \A p \in P : f[p] \in A \X B \X C
    OBVIOUS
  <2>2. \A t \in A \X B \X C : \E p \in P : f[p] = t
    <3> SUFFICES ASSUME NEW t \in A \X B \X C PROVE \E p \in P : f[p] = t
      OBVIOUS
    <3>1. PICK a \in A, b \in B, c \in C : t = <<a, b, c>>
      OBVIOUS
    <3>2. <<<<a, b>>, c>> \in P /\ f[<<<<a, b>>, c>>] = t
      BY <3>1
    <3> QED
      BY <3>2
  <2> QED
    BY <2>1, <2>2 DEF Surjection
<1> QED
  BY <1>1, <1>2, FS_Surjection

\* A default configuration puts its screens on all cells and nowhere else.
LEMMA ShowsInEveryCell ==
  ASSUME NEW hw \in Panels, config = createDefaultCubeConfig(hw)
  PROVE  /\ \A e \in config, i, j \in Side : Place(hw, e, i, j) \in Cells(hw)
         /\ \A c \in Cells(hw) : \E e \in config, i, j \in Side : c = Place(hw, e, i, j)
<1> DEFINE X == 0..PanelColumns(hw) * N - 1
           Y == 0..Rows(hw) * N - 1
<1>1. PanelColumns(hw) \in {1, 2, 3, 6} /\ Rows(hw) \in {1, 2, 3, 6}
  BY DEF PanelColumns, Rows
<1>2. Cells(hw) = X \X Y
  BY DefaultCells
<1>3. /\ \A c : c \in X <=> \E x \in 0..PanelColumns(hw)-1, i \in Side : c = x * N + i
      /\ \A c : c \in Y <=> \E y \in 0..Rows(hw)-1, j \in Side : c = y * N + j
  BY <1>1, OnePanelOf
<1>4. \A e \in config : /\ e.x = Layouts(hw)[e.s][1] /\ e.y = Layouts(hw)[e.s][2]
                        /\ e.s \in Screens
  BY DefaultEntries DEF Panels, Backends
<1>5. \A s \in Screens : \E e \in config : e.s = s
  BY InfoFields DEF createDefaultCubeConfig
<1> HIDE DEF X, Y
<1> DEFINE row(e) == IF hw = "fpga-ftdi" THEN 0 ELSE e.y
<1>6. \A e, i, j : Place(hw, e, i, j) = <<e.x * N + i, row(e) * N + j>>
  <2>1. 0 * N = 0
    BY GeometryAssumption
  <2> QED
    BY <2>1 DEF Place
<1>7. \A e \in config : e.x \in 0..PanelColumns(hw)-1 /\ row(e) \in 0..Rows(hw)-1
  <2> SUFFICES ASSUME NEW e \in config
               PROVE  e.x \in 0..PanelColumns(hw)-1 /\ row(e) \in 0..Rows(hw)-1
    OBVIOUS
  <2>1. hw = "fpga-ftdi" => 0 \in 0..Rows(hw)-1
    BY DEF Rows
  <2> QED
    BY <1>4, <2>1, DefaultPanels
<1>8. \A x \in 0..PanelColumns(hw)-1, y \in 0..Rows(hw)-1 :
        \E e \in config : e.x = x /\ row(e) = y
  <2> SUFFICES ASSUME NEW x \in 0..PanelColumns(hw)-1, NEW y \in 0..Rows(hw)-1
               PROVE  \E e \in config : e.x = x /\ row(e) = y
    OBVIOUS
  <2>1. PICK s \in Screens : /\ Layouts(hw)[s][1] = x
                             /\ \/ hw = "fpga-ftdi" /\ y = 0
                                \/ Layouts(hw)[s][2] = y
    BY DefaultPanels
  <2>2. PICK e \in config : e.s = s
    BY <1>5
  <2>3. hw = "fpga-ftdi" => y = 0
    BY DEF Rows
  <2> QED
    BY <2>1, <2>2, <2>3, <1>4
<1> HIDE DEF row
<1>9. ASSUME NEW e \in config, NEW i \in Side, NEW j \in Side
      PROVE  Place(hw, e, i, j) \in Cells(hw)
  <2>1. e.x * N + i \in X /\ row(e) * N + j \in Y
    BY <1>3, <1>7
  <2> QED
    BY <2>1, <1>2, <1>6
<1>10. ASSUME NEW c \in Cells(hw)
       PROVE  \E e \in config, i, j \in Side : c = Place(hw, e, i, j)
  <2>1. PICK a \in X, b \in Y : c = <<a, b>>
    BY <1>2
  <2>2. PICK x \in 0..PanelColumns(hw)-1, i \in Side : a = x * N + i
    BY <1>3, <2>1
  <2>3. PICK y \in 0..Rows(hw)-1, j \in Side : b = y * N + j
    BY <1>3, <2>1
  <2>4. PICK e \in config : e.x = x /\ row(e) = y
    BY <1>8
  <2>5. c = Place(hw, e, i, j)
    BY <2>1, <2>2, <2>3, <2>4, <1>6
  <2> QED
    BY <2>5
<1> QED
  BY <1>9, <1>10

LEMMA PanelsFit == SetupInv => PanelsComplete
<1> SUFFICES ASSUME SetupInv, Hardware, config = createDefaultCubeConfig(backend)
             PROVE  LET R == Rendered(backend)
                    IN /\ {r[1] : r \in R} = Cells(backend)
                       /\ {r[2] : r \in R} = Pixels
                       /\ Cardinality(R) = Cardinality(Pixels)
  BY DEF PanelsComplete
<1> DEFINE R == Rendered(backend)
           f == [r \in R |-> r[2]]
<1>1. backend \in Panels /\ backend \in Backends
  BY DEF SetupInv, Hardware, Backends, Panels
<1>2. PICK hw \in Panels : hw = backend
  BY <1>1
<1>3. /\ \A e \in config, i, j \in Side : Place(hw, e, i, j) \in Cells(hw)
      /\ \A c \in Cells(hw) : \E e \in config, i, j \in Side : c = Place(hw, e, i, j)
  BY <1>2, ShowsInEveryCell
<1>4. /\ \A e \in config, i, j \in Side : ScreenPixel(hw, e, i, j) \in Pixels
      /\ \A p \in Pixels : \E e \in config, i, j \in Side : p = ScreenPixel(hw, e, i, j)
  BY <1>1, <1>2, ShowsEveryPixel
<1> DEFINE At(e, i, j) == <<Place(hw, e, i, j), ScreenPixel(hw, e, i, j)>>
<1>5. ASSUME NEW e \in config, NEW i \in Side, NEW j \in Side
      PROVE  At(e, i, j) \in R
  <2>1. Place(hw, e, i, j) \in Cells(hw)
    BY <1>3
  <2> QED
    BY <1>2, <2>1 DEF Rendered, ScreenPixel, PanelPixel, Side
<1>6. ASSUME NEW r \in R
      PROVE  \E e \in config, i, j \in Side : r = At(e, i, j)
  <2>1. \E e \in config, i \in 0..N-1, j \in 0..N-1 :
          r = <<Place(hw, e, i, j), <<e.s>> \o Turned(Turn(hw, e.rot), i, j)>>
    BY <1>2, OneOfScreen
  <2> QED
    BY <2>1 DEF ScreenPixel, PanelPixel, Side
<1>7. \A e, i, j : At(e, i, j)[1] = Place(hw, e, i, j) /\ At(e, i, j)[2] = ScreenPixel(hw, e, i, j)
  OBVIOUS
<1> HIDE DEF R, At
<1>8. {r[1] : r \in R} = Cells(hw)
  <2>1. ASSUME NEW r \in R PROVE r[1] \in Cells(hw)
    <3>1. PICK e \in config, i \in Side, j \in Side : r = At(e, i, j)
      BY <1>6
    <3>2. r[1] = Place(hw, e, i, j)
      BY <3>1, <1>7, Zenon
    <3> QED
      BY <3>2, <1>3, Zenon
  <2>2. ASSUME NEW c \in Cells(hw) PROVE \E r \in R : r[1] = c
    <3>1. PICK e \in config, i \in Side, j \in Side : c = Place(hw, e, i, j)
      BY <1>3
    <3> QED
      BY <3>1, <1>5, <1>7
  <2> QED
    BY <2>1, <2>2
<1>9. /\ \A r \in R : r[2] \in Pixels
      /\ \A p \in Pixels : \E r \in R : r[2] = p
  <2>1. ASSUME NEW r \in R PROVE r[2] \in Pixels
    <3>1. PICK e \in config, i \in Side, j \in Side : r = At(e, i, j)
      BY <1>6
    <3>2. r[2] = ScreenPixel(hw, e, i, j)
      BY <3>1, <1>7, Zenon
    <3> QED
      BY <3>2, <1>4, Zenon
  <2>2. ASSUME NEW p \in Pixels PROVE \E r \in R : r[2] = p
    <3>1. PICK e \in config, i \in Side, j \in Side : p = ScreenPixel(hw, e, i, j)
      BY <1>4
    <3> QED
      BY <3>1, <1>5, <1>7
  <2> QED
    BY <2>1, <2>2
<1>10. {r[2] : r \in R} = Pixels
  BY <1>9
<1>11. \A p, q \in R : p[2] = q[2] => p = q
  <2> SUFFICES ASSUME NEW p \in R, NEW q \in R, p[2] = q[2] PROVE p = q
    OBVIOUS
  <2>1. PICK e \in config, i \in Side, j \in Side : p = At(e, i, j)
    BY <1>6
  <2>2. PICK g \in config, k \in Side, l \in Side : q = At(g, k, l)
    BY <1>6
  <2>3. ScreenPixel(hw, e, i, j) = ScreenPixel(hw, g, k, l)
    BY <1>7, <2>1, <2>2
  <2>4. e = g /\ i = k /\ j = l
    BY <1>1, <1>2, <2>3, ShowsPixelsApart
  <2> QED
    BY <2>1, <2>2, <2>4
<1>12. Cardinality(R) = Cardinality(Pixels)
  <2>1. f \in Injection(R, Pixels)
    BY <1>9, <1>11 DEF Injection, IsInjective
  <2>2. f \in Surjection(R, Pixels)
    BY <1>9 DEF Surjection
  <2>3. IsFiniteSet(Pixels)
    <3>1. PICK a \in Int, b \in Int, m \in Int : a = 0 /\ b = 5 /\ m = N - 1
      BY GeometryAssumption
    <3>2. Pixels = (a..b) \X (a..m) \X (a..m)
      BY <3>1 DEF Pixels, Screens, front, right, back, left, top, bottom
    <3>3. IsFiniteSet(a..b) /\ IsFiniteSet(a..m)
      BY FS_Interval
    <3> QED
      BY <3>2, <3>3, FiniteTriples
  <2> QED
    BY <2>1, <2>2, <2>3, FS_Injection
<1> QED
  BY <1>2, <1>8, <1>10, <1>12 DEF R

\* With the configuration made for its backend a hardware renderer shows every
\* pixel of the cube once and fills every cell of the panels, whatever the size
\* of the screens (ServerSetup.cpp:19-68 against the loops of the renderers).
THEOREM PanelsAreComplete == Spec => []PanelsComplete
  BY SetupInitially, SetupInductive, PanelsFit, PTL DEF Spec

-----------------------------------------------------------------------------
(***************************************************************************)
(* The main menu and the joysticks it is steered with.                     *)
(***************************************************************************)

\* The slots of which the device, or the simulator, has a press that no getter
\* has taken.
Waiting(pads) == {j \in Slots : pads[j].press}

PadsCount == Cardinality(Waiting(real)) + Cardinality(Waiting(sim))

\* A press waits in one of the slots or has been taken, perhaps for a choice.
PressesCounted == acts + PadsCount <= pressed

MenuInv == MenuTypeOK /\ SelectionInList /\ PressesCounted

-----------------------------------------------------------------------------
(* What the getters leave of the pads, and what they return. *)

\* Table g adds up the presses of axis a over the first n slots.
Adds(g, a, n) ==
  /\ g \in [0..n -> Int]
  /\ \A m \in 0..n : g[m] = IF m = 0 THEN 0 ELSE g[m - 1] + PadOf(m).axisPress[a]

LEMMA PadTypes ==
  ASSUME JoystickTypeOK, NEW j \in Slots
  PROVE  PadOf(j) \in Pad /\ \A a \in Axes : PadOf(j).axisPress[a] \in Int
<1>1. PadOf(j) \in Pad
  BY DEF JoystickTypeOK, PadOf
<1> QED
  BY <1>1, JoystickAssumption DEF Pad

LEMMA AddsOneMore ==
  ASSUME JoystickTypeOK, NEW a \in Axes, NEW n \in Nat, n + 1 \in Slots,
         NEW g, Adds(g, a, n)
  PROVE  \E h : Adds(h, a, n + 1)
<1>1. PadOf(n + 1).axisPress[a] \in Int
  BY PadTypes
<1>2. \A m \in 0..n : g[m] \in Int
  BY DEF Adds
<1> DEFINE v == PadOf(n + 1).axisPress[a]
           h == [m \in 0..(n + 1) |-> IF m = n + 1 THEN g[n] + v ELSE g[m]]
<1>3. h \in [0..(n + 1) -> Int]
  BY <1>1, <1>2
<1>4. ASSUME NEW m \in 0..(n + 1)
      PROVE  h[m] = IF m = 0 THEN 0 ELSE h[m - 1] + PadOf(m).axisPress[a]
  <2>1. CASE m = n + 1
    BY <2>1
  <2>2. CASE m \in 0..n
    <3>1. g[m] = IF m = 0 THEN 0 ELSE g[m - 1] + PadOf(m).axisPress[a]
      BY <2>2 DEF Adds
    <3>2. h[m] = g[m] /\ (m # 0 => h[m - 1] = g[m - 1])
      BY <2>2
    <3> HIDE DEF h
    <3> QED
      BY <3>1, <3>2
  <2> QED
    BY <2>1, <2>2
<1> HIDE DEF h
<1> QED
  BY <1>3, <1>4 DEF Adds

LEMMA AddsAll ==
  ASSUME JoystickTypeOK, NEW a \in Axes
  PROVE  \E g : Adds(g, a, NSlots)
<1> DEFINE S == {n \in 0..NSlots : \A g : ~Adds(g, a, n)}
<1>1. SUFFICES ASSUME S # {} PROVE FALSE
  BY JoystickAssumption
<1>2. PICK k \in S : \A j \in S : k <= j
  <2>1. S \in SUBSET Nat
    OBVIOUS
  <2> HIDE DEF S
  <2> QED
    BY <1>1, <2>1, LeastExists
<1>3. CASE k = 0
  <2>1. Adds([m \in 0..0 |-> 0], a, 0)
    BY DEF Adds
  <2> QED
    BY <1>2, <1>3, <2>1
<1>4. CASE k # 0
  <2>1. k - 1 \in 0..NSlots /\ k - 1 \notin S /\ k - 1 \in Nat
    BY <1>2, <1>4, JoystickAssumption
  <2>2. PICK g : Adds(g, a, k - 1)
    BY <2>1
  <2>3. (k - 1) + 1 = k /\ k \in Slots
    BY <1>2, <1>4, JoystickAssumption DEF Slots
  <2>4. \E h : Adds(h, a, (k - 1) + 1)
    BY <2>1, <2>2, <2>3, AddsOneMore
  <2> QED
    BY <1>2, <2>3, <2>4
<1> QED
  BY <1>3, <1>4

LEMMA AxisPressType ==
  ASSUME JoystickTypeOK, NEW a \in Axes
  PROVE  AxisPress(a) \in Int
<1> DEFINE E(g) == [n \in 0..NSlots |->
                      IF n = 0 THEN 0 ELSE g[n - 1] + PadOf(n).axisPress[a]]
           upTo == CHOOSE g : g = E(g)
<1>1. AxisPress(a) = upTo[NSlots]
  BY DEF AxisPress
<1>2. PICK g : Adds(g, a, NSlots)
  BY AddsAll
<1>3. g = E(g)
  BY <1>2 DEF Adds
<1>4. upTo = E(upTo)
  <2> HIDE DEF E
  <2> QED
    BY <1>3
<1> HIDE DEF upTo
<1>5. \A n \in 0..NSlots :
        upTo[n] = IF n = 0 THEN 0 ELSE upTo[n - 1] + PadOf(n).axisPress[a]
  BY <1>4
<1>6. \A n \in 0..NSlots : upTo[n] \in Int
  <2> DEFINE S == {n \in 0..NSlots : upTo[n] \notin Int}
  <2> HIDE DEF E
  <2>1. SUFFICES ASSUME S # {} PROVE FALSE
    OBVIOUS
  <2>2. PICK k \in S : \A j \in S : k <= j
    <3>1. S \in SUBSET Nat
      OBVIOUS
    <3> HIDE DEF S
    <3> QED
      BY <2>1, <3>1, LeastExists
  <2>3. k # 0
    BY <1>5, <2>2
  <2>4. k \in Slots /\ k - 1 \in 0..NSlots /\ k - 1 \notin S
    BY <2>2, <2>3, JoystickAssumption DEF Slots
  <2>5. upTo[k - 1] \in Int /\ PadOf(k).axisPress[a] \in Int
    BY <2>4, PadTypes
  <2>6. upTo[k] = upTo[k - 1] + PadOf(k).axisPress[a]
    BY <1>5, <2>2, <2>3
  <2> QED
    BY <2>2, <2>5, <2>6
<1> QED
  BY <1>1, <1>6, JoystickAssumption

-----------------------------------------------------------------------------
(* One pad. *)

LEMMA ReleasedPad ==
  /\ Released \in Pad /\ ~Released.press
  /\ \A v \in AxisValues : LET pad == [Released EXCEPT !.axisPress[1] = v]
                           IN pad \in Pad /\ ~pad.press
<1>1. [a \in Axes |-> 0] \in [Axes -> AxisValues]
  BY JoystickAssumption
<1>2. PICK zero \in [Axes -> AxisValues] : zero = [a \in Axes |-> 0]
  BY <1>1
<1>3. Released = [button |-> FALSE, press |-> FALSE, axis |-> zero, axisPress |-> zero]
  BY <1>2, Zenon DEF Released
<1>4. Released \in Pad /\ ~Released.press /\ Released.axisPress = zero
  BY <1>3 DEF Pad
<1>5. ASSUME NEW v \in AxisValues
      PROVE  /\ [Released EXCEPT !.axisPress[1] = v] \in Pad
             /\ ~[Released EXCEPT !.axisPress[1] = v].press
  <2>1. PICK new \in [Axes -> AxisValues] : new = [zero EXCEPT ![1] = v]
    OBVIOUS
  <2>2. [Released EXCEPT !.axisPress[1] = v] = [Released EXCEPT !.axisPress = new]
    BY <1>4, <2>1 DEF Pad
  <2> QED
    BY <1>4, <2>2 DEF Pad
<1> QED
  BY <1>4, <1>5

LEMMA ResetPad ==
  ASSUME NEW pad \in Pad
  PROVE  Reset(pad) \in Pad /\ ~Reset(pad).press
<1>1. pad.axisPress \in [Axes -> AxisValues]
  BY DEF Pad
<1>2. Released \in Pad /\ ~Released.press
  BY ReleasedPad
<1>3. Reset(pad) = [Released EXCEPT !.axisPress = pad.axisPress]
  BY DEF Reset
<1> QED
  BY <1>1, <1>2, <1>3 DEF Pad

LEMMA TakePress ==
  ASSUME NEW pad \in Pad
  PROVE  /\ [pad EXCEPT !.press = FALSE] \in Pad
         /\ ~[pad EXCEPT !.press = FALSE].press
BY DEF Pad

LEMMA TakeAxisPress ==
  ASSUME NEW pad \in Pad, NEW a \in Axes
  PROVE  /\ [pad EXCEPT !.axisPress[a] = 0] \in Pad
         /\ [pad EXCEPT !.axisPress[a] = 0].press = pad.press
<1>1. [pad.axisPress EXCEPT ![a] = 0] \in [Axes -> AxisValues]
  BY JoystickAssumption DEF Pad
<1>2. [pad EXCEPT !.axisPress[a] = 0]
        = [pad EXCEPT !.axisPress = [pad.axisPress EXCEPT ![a] = 0]]
  BY DEF Pad
<1> QED
  BY <1>1, <1>2 DEF Pad

LEMMA ClearPad ==
  ASSUME NEW pad \in Pad
  PROVE  LET new == [pad EXCEPT !.press = FALSE, !.axisPress = [a \in Axes |-> 0]]
         IN new \in Pad /\ ~new.press
<1>1. [a \in Axes |-> 0] \in [Axes -> AxisValues]
  BY JoystickAssumption
<1> QED
  BY <1>1 DEF Pad

LEMMA PressPad ==
  ASSUME NEW pad \in Pad, NEW down \in BOOLEAN
  PROVE  LET new == PressButton(pad, down)
         IN new \in Pad /\ (new.press => pad.press \/ (down /\ ~pad.button))
BY DEF PressButton, Pad

LEMMA MovePad ==
  ASSUME NEW pad \in Pad, NEW a \in Axes, NEW v \in AxisValues
  PROVE  LET new == MoveAxis(pad, a, v)
         IN new \in Pad /\ new.press = pad.press
<1>1. /\ pad.axis \in [Axes -> AxisValues] /\ pad.axisPress \in [Axes -> AxisValues]
      /\ pad.button \in BOOLEAN /\ pad.press \in BOOLEAN
  BY DEF Pad
<1> DEFINE w == IF pad.axis[a] = 0 /\ v # 0 THEN v ELSE pad.axisPress[a]
<1>2. /\ [pad.axis EXCEPT ![a] = v] \in [Axes -> AxisValues]
      /\ [pad.axisPress EXCEPT ![a] = w] \in [Axes -> AxisValues]
  BY <1>1
<1>3. MoveAxis(pad, a, v)
        = [pad EXCEPT !.axisPress = [pad.axisPress EXCEPT ![a] = w],
                      !.axis = [pad.axis EXCEPT ![a] = v]]
  BY DEF MoveAxis, Pad
<1>4. PICK x \in [Axes -> AxisValues], y \in [Axes -> AxisValues] :
        x = [pad.axis EXCEPT ![a] = v] /\ y = [pad.axisPress EXCEPT ![a] = w]
  BY <1>2
<1>5. MoveAxis(pad, a, v)
        = [button |-> pad.button, press |-> pad.press,
           axis |-> x, axisPress |-> y]
  BY <1>3, <1>4 DEF Pad
<1> HIDE DEF w
<1> QED
  BY <1>1, <1>5 DEF Pad

-----------------------------------------------------------------------------
(* What moves and getters do to the presses that wait. *)

LEMMA WaitingFinite ==
  ASSUME NEW pads
  PROVE  IsFiniteSet(Waiting(pads)) /\ Cardinality(Waiting(pads)) \in Nat
<1>1. IsFiniteSet(Slots)
  <2>1. PICK lo \in Int, hi \in Int : lo = 1 /\ hi = NSlots
    BY JoystickAssumption
  <2> QED
    BY <2>1, FS_Interval DEF Slots
<1>2. Waiting(pads) \in SUBSET Slots
  BY DEF Waiting
<1> QED
  BY <1>1, <1>2, FS_Subset, FS_CardinalityType

LEMMA FewerWait ==
  ASSUME NEW pads, NEW new, Waiting(new) \subseteq Waiting(pads)
  PROVE  Cardinality(Waiting(new)) <= Cardinality(Waiting(pads))
BY WaitingFinite, FS_Subset

LEMMA OneWaitsLess ==
  ASSUME NEW pads, NEW new, NEW k \in Waiting(pads),
         Waiting(new) \subseteq Waiting(pads) \ {k}
  PROVE  Cardinality(Waiting(new)) + 1 <= Cardinality(Waiting(pads))
<1>1. /\ IsFiniteSet(Waiting(pads) \ {k})
      /\ Cardinality(Waiting(pads) \ {k}) = Cardinality(Waiting(pads)) - 1
  BY WaitingFinite, FS_RemoveElement
<1>2. Cardinality(Waiting(new)) <= Cardinality(Waiting(pads) \ {k})
  BY <1>1, FS_Subset
<1> QED
  BY <1>1, <1>2, WaitingFinite

LEMMA OneWaitsMore ==
  ASSUME NEW pads, NEW new, NEW k,
         Waiting(new) \subseteq Waiting(pads) \cup {k}
  PROVE  Cardinality(Waiting(new)) <= Cardinality(Waiting(pads)) + 1
<1>1. /\ IsFiniteSet(Waiting(pads) \cup {k})
      /\ Cardinality(Waiting(pads) \cup {k})
           = IF k \in Waiting(pads) THEN Cardinality(Waiting(pads))
             ELSE Cardinality(Waiting(pads)) + 1
  BY WaitingFinite, FS_AddElement
<1>2. Cardinality(Waiting(new)) <= Cardinality(Waiting(pads) \cup {k})
  BY <1>1, FS_Subset
<1>3. Cardinality(Waiting(new)) \in Nat /\ Cardinality(Waiting(pads)) \in Nat
  BY WaitingFinite
<1> QED
  BY <1>1, <1>2, <1>3

LEMMA MovedTypes ==
  ASSUME NEW pads \in [Slots -> Pad], NEW j \in Slots, NEW new, Moved(pads, j, new)
  PROVE  new \in [Slots -> Pad]
<1>1. pads[j] \in Pad
  OBVIOUS
<1>2. \E pad \in Pad : new = [pads EXCEPT ![j] = pad]
  BY <1>1, PressPad, MovePad DEF Moved
<1> QED
  BY <1>2

\* A press that the button was not held for is the only one a move adds.
LEMMA MovedCounts ==
  ASSUME NEW pads \in [Slots -> Pad], NEW j \in Slots, NEW new,
         inputs \in 0..MaxInputs, pressed \in Nat, Moved(pads, j, new)
  PROVE  /\ inputs' \in 0..MaxInputs /\ pressed' \in Nat /\ pressed <= pressed'
         /\ Cardinality(Waiting(new)) + pressed <= Cardinality(Waiting(pads)) + pressed'
<1>1. pads[j] \in Pad
  OBVIOUS
<1>2. Cardinality(Waiting(new)) \in Nat /\ Cardinality(Waiting(pads)) \in Nat
  BY WaitingFinite
<1>3. CASE \E down \in BOOLEAN :
             CountInput(pads[j], down) /\ new = [pads EXCEPT ![j] = PressButton(@, down)]
  <2>1. PICK down \in BOOLEAN :
          CountInput(pads[j], down) /\ new = [pads EXCEPT ![j] = PressButton(@, down)]
    BY <1>3
  <2>2. PICK pad \in Pad : pad = PressButton(pads[j], down)
    BY <1>1, PressPad
  <2>3. new = [pads EXCEPT ![j] = pad]
    BY <2>1, <2>2
  <2>4. pad.press => pads[j].press \/ (down /\ ~pads[j].button)
    BY <1>1, <2>2, PressPad
  <2>5. inputs' \in 0..MaxInputs
        /\ pressed' = IF down /\ ~pads[j].button THEN pressed + 1 ELSE pressed
    BY <2>1, JoystickAssumption DEF CountInput
  <2>6. CASE down /\ ~pads[j].button
    <3>1. Waiting(new) \subseteq Waiting(pads) \cup {j}
      BY <2>3 DEF Waiting
    <3>2. Cardinality(Waiting(new)) <= Cardinality(Waiting(pads)) + 1
      BY <3>1, OneWaitsMore
    <3>3. pressed' = pressed + 1
      BY <2>5, <2>6
    <3> QED
      BY <1>2, <2>5, <3>2, <3>3
  <2>7. CASE ~(down /\ ~pads[j].button)
    <3>1. Waiting(new) \subseteq Waiting(pads)
      BY <2>3, <2>4, <2>7 DEF Waiting
    <3>2. Cardinality(Waiting(new)) <= Cardinality(Waiting(pads))
      BY <3>1, FewerWait
    <3>3. pressed' = pressed
      BY <2>5, <2>7
    <3> QED
      BY <1>2, <2>5, <3>2, <3>3
  <2> QED
    BY <2>6, <2>7
<1>4. CASE \E a \in Axes, v \in AxisValues :
             CountInput(pads[j], FALSE) /\ new = [pads EXCEPT ![j] = MoveAxis(@, a, v)]
  <2>1. PICK a \in Axes, v \in AxisValues :
          CountInput(pads[j], FALSE) /\ new = [pads EXCEPT ![j] = MoveAxis(@, a, v)]
    BY <1>4
  <2>2. PICK pad \in Pad : pad = MoveAxis(pads[j], a, v) /\ pad.press = pads[j].press
    BY <1>1, MovePad
  <2>3. new = [pads EXCEPT ![j] = pad]
    BY <2>1, <2>2
  <2>4. Waiting(new) \subseteq Waiting(pads)
    BY <2>2, <2>3 DEF Waiting
  <2>5. inputs' \in 0..MaxInputs /\ pressed' = pressed
    BY <2>1, JoystickAssumption DEF CountInput
  <2>6. Cardinality(Waiting(new)) <= Cardinality(Waiting(pads))
    BY <2>4, FewerWait
  <2> QED
    BY <1>2, <2>5, <2>6
<1> QED
  BY <1>3, <1>4 DEF Moved

\* The getters take presses, and add none.
LEMMA AxisGetter ==
  ASSUME JoystickTypeOK, NEW a \in Axes, getAxisPress(a)
  PROVE  /\ real' \in [Slots -> Pad] /\ sim' \in [Slots -> Pad]
         /\ Waiting(real') \subseteq Waiting(real)
         /\ Waiting(sim') \subseteq Waiting(sim)
<1> DEFINE T(pad) == [pad EXCEPT !.axisPress[a] = 0]
<1>1. /\ real' = [j \in Slots |-> IF fallback[j] THEN real[j] ELSE T(real[j])]
      /\ sim' = [j \in Slots |-> IF fallback[j] THEN T(sim[j]) ELSE sim[j]]
  BY DEF getAxisPress, UpdatePads
<1>2. ASSUME NEW pad \in Pad PROVE T(pad) \in Pad /\ T(pad).press = pad.press
  BY TakeAxisPress
<1>3. real \in [Slots -> Pad] /\ sim \in [Slots -> Pad]
  BY DEF JoystickTypeOK
<1> HIDE DEF T
<1> QED
  BY <1>1, <1>2, <1>3 DEF Waiting

LEMMA ClearGetter ==
  ASSUME JoystickTypeOK, clearAllButtonPresses
  PROVE  /\ real' \in [Slots -> Pad] /\ sim' \in [Slots -> Pad]
         /\ Waiting(real') \subseteq Waiting(real)
         /\ Waiting(sim') \subseteq Waiting(sim)
<1> DEFINE T(pad) == [pad EXCEPT !.press = FALSE, !.axisPress = [a \in Axes |-> 0]]
<1>1. /\ real' = [j \in Slots |-> IF fallback[j] THEN real[j] ELSE T(real[j])]
      /\ sim' = [j \in Slots |-> IF fallback[j] THEN T(sim[j]) ELSE sim[j]]
  BY DEF clearAllButtonPresses, UpdatePads
<1>2. ASSUME NEW pad \in Pad PROVE T(pad) \in Pad /\ ~T(pad).press
  BY ClearPad
<1>3. real \in [Slots -> Pad] /\ sim \in [Slots -> Pad]
  BY DEF JoystickTypeOK
<1> HIDE DEF T
<1> QED
  BY <1>1, <1>2, <1>3 DEF Waiting

LEMMA ButtonGetter ==
  ASSUME JoystickTypeOK, getButtonPress
  PROVE  /\ real' \in [Slots -> Pad] /\ sim' \in [Slots -> Pad]
         /\ Waiting(real') \subseteq Waiting(real)
         /\ Waiting(sim') \subseteq Waiting(sim)
         /\ Pressing # {} =>
              \E k \in Slots :
                \/ k \in Waiting(real) /\ Waiting(real') \subseteq Waiting(real) \ {k}
                \/ k \in Waiting(sim) /\ Waiting(sim') \subseteq Waiting(sim) \ {k}
<1> DEFINE First(j) == j \in Pressing /\ \A k \in Pressing : j <= k
           T(j, pad) == IF First(j) THEN [pad EXCEPT !.press = FALSE] ELSE pad
<1>1. /\ real' = [j \in Slots |-> IF fallback[j] THEN real[j] ELSE T(j, real[j])]
      /\ sim' = [j \in Slots |-> IF fallback[j] THEN T(j, sim[j]) ELSE sim[j]]
  BY DEF getButtonPress, UpdatePads
<1>2. ASSUME NEW j \in Slots, NEW pad \in Pad
      PROVE  /\ T(j, pad) \in Pad /\ (T(j, pad).press => pad.press)
             /\ First(j) => ~T(j, pad).press
  BY TakePress
<1>3. real \in [Slots -> Pad] /\ sim \in [Slots -> Pad]
  BY DEF JoystickTypeOK
<1>4. Pressing # {} => \E k \in Pressing : First(k)
  <2>1. Pressing \in SUBSET Nat
    BY JoystickAssumption DEF Pressing, Slots
  <2> QED
    BY <2>1, LeastExists
<1>5. ASSUME NEW k \in Pressing
      PROVE  /\ k \in Slots
             /\ IF fallback[k] THEN k \in Waiting(sim) ELSE k \in Waiting(real)
  BY DEF Pressing, PadOf, Waiting
<1> HIDE DEF First, T
<1>6. /\ real' \in [Slots -> Pad] /\ sim' \in [Slots -> Pad]
      /\ Waiting(real') \subseteq Waiting(real)
      /\ Waiting(sim') \subseteq Waiting(sim)
  BY <1>1, <1>2, <1>3 DEF Waiting
<1>7. ASSUME NEW k \in Pressing, First(k)
      PROVE  \/ k \in Waiting(real) /\ Waiting(real') \subseteq Waiting(real) \ {k}
             \/ k \in Waiting(sim) /\ Waiting(sim') \subseteq Waiting(sim) \ {k}
  <2>1. CASE fallback[k]
    <3>1. k \in Waiting(sim)
      BY <1>5, <2>1
    <3>2. sim'[k] = T(k, sim[k])
      BY <1>1, <1>5, <2>1
    <3>3. sim[k] \in Pad
      BY <1>3, <1>5
    <3>4. ~sim'[k].press
      BY <1>2, <1>5, <1>7, <3>2, <3>3
    <3> QED
      BY <1>6, <3>1, <3>4 DEF Waiting
  <2>2. CASE ~fallback[k]
    <3>1. k \in Waiting(real)
      BY <1>5, <2>2
    <3>2. real'[k] = T(k, real[k])
      BY <1>1, <1>5, <2>2
    <3>3. real[k] \in Pad
      BY <1>3, <1>5
    <3>4. ~real'[k].press
      BY <1>2, <1>5, <1>7, <3>2, <3>3
    <3> QED
      BY <1>6, <3>1, <3>4 DEF Waiting
  <2> QED
    BY <2>1, <2>2
<1> QED
  BY <1>4, <1>5, <1>6, <1>7

-----------------------------------------------------------------------------
(* Every step keeps the invariant. *)

LEMMA PadsCountType == PadsCount \in Nat
BY WaitingFinite DEF PadsCount

LEMMA PadsCountNext ==
  PadsCount' = Cardinality(Waiting(real')) + Cardinality(Waiting(sim'))
BY DEF PadsCount, Waiting

LEMMA NoMoreWait ==
  ASSUME Waiting(real') \subseteq Waiting(real), Waiting(sim') \subseteq Waiting(sim)
  PROVE  PadsCount' <= PadsCount
<1>1. /\ Cardinality(Waiting(real')) <= Cardinality(Waiting(real))
      /\ Cardinality(Waiting(sim')) <= Cardinality(Waiting(sim))
  BY FewerWait
<1>2. /\ Cardinality(Waiting(real')) \in Nat /\ Cardinality(Waiting(real)) \in Nat
      /\ Cardinality(Waiting(sim')) \in Nat /\ Cardinality(Waiting(sim)) \in Nat
  BY WaitingFinite
<1> QED
  BY <1>1, <1>2, PadsCountNext DEF PadsCount

LEMMA Sums ==
  ASSUME NEW m \in Nat, NEW n \in Nat, NEW x \in Nat, NEW y \in Nat, m <= n, x <= y
  PROVE  m + x <= n + y
OBVIOUS

LEMMA SumFits ==
  ASSUME NEW m \in Nat, NEW n \in Nat, NEW x \in Nat, NEW y \in Nat, m <= n, x + n <= y
  PROVE  x + m <= y
OBVIOUS

LEMMA CountFits ==
  ASSUME NEW m \in Nat, NEW n \in Nat, NEW x \in Nat, NEW y \in Nat, NEW z \in Nat,
         m + y <= n + z, x + n <= y
  PROVE  x + m <= z
OBVIOUS

LEMMA NoPressAdded ==
  ASSUME Waiting(real') \subseteq Waiting(real), Waiting(sim') \subseteq Waiting(sim),
         pressed \in Nat, pressed' \in Nat, pressed <= pressed'
  PROVE  PadsCount' + pressed <= PadsCount + pressed'
<1>1. PadsCount' <= PadsCount
  BY NoMoreWait
<1>2. PadsCount' \in Nat /\ PadsCount \in Nat
  BY PadsCountNext, PadsCountType, WaitingFinite
<1> QED
  BY <1>1, <1>2, Sums

LEMMA JoystickSteps ==
  ASSUME JoystickTypeOK, JoystickNext
  PROVE  /\ JoystickTypeOK'
         /\ PadsCount' + pressed <= PadsCount + pressed'
<1>1. PICK j \in Slots : \/ PlugIn(j) \/ Unplug(j)
                         \/ recheckFilePath(j) \/ openPath(j) \/ refresh(j)
                         \/ updateSimulatorState(j)
  BY DEF JoystickNext
<1>2. /\ real \in [Slots -> Pad] /\ sim \in [Slots -> Pad]
      /\ pressed \in Nat /\ inputs \in 0..MaxInputs /\ MaxPlugs \in Nat
  BY JoystickAssumption DEF JoystickTypeOK
<1>3. PadsCount \in Nat
  BY PadsCountType
<1>4. ASSUME UNCHANGED <<padVars, historyVars>>
      PROVE  PadsCount' + pressed <= PadsCount + pressed'
  <2>1. PadsCount' = PadsCount /\ pressed' = pressed
    BY <1>4 DEF PadsCount, Waiting, padVars, historyVars
  <2> QED
    BY <1>2, <1>3, <2>1
<1>5. CASE PlugIn(j)
  <2>1. UNCHANGED <<padVars, historyVars>>
    BY <1>5 DEF PlugIn
  <2>2. plugs' \in 0..MaxPlugs /\ file' \in [Slots -> 0..MaxPlugs]
    BY <1>2, <1>5 DEF PlugIn, JoystickTypeOK
  <2> QED
    BY <1>3, <1>4, <1>5, <2>1, <2>2
      DEF PlugIn, slotVars, padVars, historyVars, JoystickTypeOK
<1>6. CASE Unplug(j)
  <2>1. UNCHANGED <<padVars, historyVars>>
    BY <1>6 DEF Unplug
  <2>2. file' \in [Slots -> 0..MaxPlugs]
    BY <1>2, <1>6 DEF Unplug, JoystickTypeOK
  <2> QED
    BY <1>4, <1>6, <2>1, <2>2
      DEF Unplug, slotVars, padVars, historyVars, JoystickTypeOK
<1>7. CASE recheckFilePath(j)
  <2>1. PICK pad \in Pad : pad = Reset(real[j]) /\ ~pad.press
    BY <1>2, ResetPad
  <2>2. real' = [real EXCEPT ![j] = pad] /\ sim' = sim /\ pressed' = pressed
    BY <1>7, <2>1 DEF recheckFilePath, historyVars
  <2>3. Waiting(real') \subseteq Waiting(real) /\ Waiting(sim') \subseteq Waiting(sim)
    BY <1>2, <2>1, <2>2 DEF Waiting
  <2>5. fd' \in [Slots -> -1..MaxPlugs] /\ opening' \in [Slots -> BOOLEAN]
    BY <1>2, <1>7 DEF recheckFilePath, JoystickTypeOK
  <2>6. real' \in [Slots -> Pad]
    BY <1>2, <2>2
  <2>8. PadsCount' + pressed <= PadsCount + pressed'
    <3>1. pressed' \in Nat /\ pressed <= pressed'
      BY <1>2, <2>2
    <3> QED
      BY <1>2, <2>3, <3>1, NoPressAdded
  <2> QED
    BY <1>7, <2>2, <2>5, <2>6, <2>8
      DEF recheckFilePath, deviceVars, historyVars, JoystickTypeOK
<1>8. CASE openPath(j)
  <2>1. UNCHANGED <<padVars, historyVars>>
    BY <1>8 DEF openPath
  <2>2. /\ fd' \in [Slots -> -1..MaxPlugs] /\ opening' \in [Slots -> BOOLEAN]
        /\ fallback' \in [Slots -> BOOLEAN]
    <3>1. PICK f : f \in -1..MaxPlugs /\ fd' = [fd EXCEPT ![j] = f]
      <4>1. PICK f \in IF file[j] = 0 THEN {fd[j], -1} ELSE {file[j], -1} :
              fd' = [fd EXCEPT ![j] = f]
        BY <1>8 DEF openPath
      <4>2. fd[j] \in -1..MaxPlugs /\ file[j] \in 0..MaxPlugs
        BY DEF JoystickTypeOK
      <4>3. f \in -1..MaxPlugs
        BY <1>2, <4>1, <4>2
      <4> QED
        BY <4>1, <4>3
    <3> QED
      BY <1>8, <3>1 DEF openPath, JoystickTypeOK
  <2> QED
    BY <1>4, <1>8, <2>1, <2>2
      DEF openPath, deviceVars, padVars, historyVars, JoystickTypeOK
<1>9. CASE refresh(j)
  <2>1. Moved(real, j, real') /\ UNCHANGED <<deviceVars, slotVars, sim>>
    BY <1>9 DEF refresh
  <2>2. real' \in [Slots -> Pad]
    BY <1>2, <2>1, MovedTypes
  <2>3. /\ inputs' \in 0..MaxInputs /\ pressed' \in Nat
        /\ Cardinality(Waiting(real')) + pressed <= Cardinality(Waiting(real)) + pressed'
    BY <1>2, <2>1, MovedCounts
  <2>4. /\ Cardinality(Waiting(real')) \in Nat /\ Cardinality(Waiting(real)) \in Nat
        /\ Cardinality(Waiting(sim')) = Cardinality(Waiting(sim))
        /\ Cardinality(Waiting(sim)) \in Nat
    BY <2>1, WaitingFinite
  <2>5. PadsCount' + pressed <= PadsCount + pressed'
    BY <1>2, <2>3, <2>4, PadsCountNext DEF PadsCount
  <2> QED
    BY <2>1, <2>2, <2>3, <2>5 DEF deviceVars, slotVars, JoystickTypeOK
<1>10. CASE updateSimulatorState(j)
  <2>1. Moved(sim, j, sim') /\ UNCHANGED <<deviceVars, slotVars, real>>
    BY <1>10 DEF updateSimulatorState
  <2>2. sim' \in [Slots -> Pad]
    BY <1>2, <2>1, MovedTypes
  <2>3. /\ inputs' \in 0..MaxInputs /\ pressed' \in Nat
        /\ Cardinality(Waiting(sim')) + pressed <= Cardinality(Waiting(sim)) + pressed'
    BY <1>2, <2>1, MovedCounts
  <2>4. /\ Cardinality(Waiting(sim')) \in Nat /\ Cardinality(Waiting(sim)) \in Nat
        /\ Cardinality(Waiting(real')) = Cardinality(Waiting(real))
        /\ Cardinality(Waiting(real)) \in Nat
    BY <2>1, WaitingFinite
  <2>5. PadsCount' + pressed <= PadsCount + pressed'
    BY <1>2, <2>3, <2>4, PadsCountNext DEF PadsCount
  <2> QED
    BY <2>1, <2>2, <2>3, <2>5 DEF deviceVars, slotVars, JoystickTypeOK
<1> QED
  BY <1>1, <1>5, <1>6, <1>7, <1>8, <1>9, <1>10

-----------------------------------------------------------------------------
LEMMA TruncatedType ==
  ASSUME NEW n \in Int
  PROVE  Truncated(n) \in Int
BY DEF Truncated, Quotient

LEMMA WrappedInList ==
  ASSUME NEW n \in Int, NEW size \in Nat \ {0}
  PROVE  Wrapped(n, size) \in 0..(size - 1)
<1>1. CASE n < 0
  BY <1>1 DEF Wrapped
<1>2. CASE n >= 0
  <2>1. n % size \in 0..(size - 1)
    OBVIOUS
  <2> QED
    BY <1>2, <2>1 DEF Wrapped
<1> QED
  BY <1>1, <1>2

LEMMA ListSizeType == ListSize \in Nat \ {0}
BY MenuAssumption DEF ListSize, AppListSize, SettingsSize

\* Steps of the menu leave the devices and the history of inputs alone.
LEMMA GetterTypes ==
  ASSUME JoystickTypeOK, UNCHANGED <<deviceVars, slotVars, historyVars>>,
         real' \in [Slots -> Pad], sim' \in [Slots -> Pad]
  PROVE  JoystickTypeOK'
BY DEF JoystickTypeOK, deviceVars, slotVars, historyVars

\* ... and, as long as no item is chosen, at most take presses.
LEMMA GetterCounts ==
  ASSUME JoystickTypeOK, acts \in Nat, PressesCounted, pressed' = pressed, acts' = acts,
         Waiting(real') \subseteq Waiting(real), Waiting(sim') \subseteq Waiting(sim)
  PROVE  PressesCounted'
<1>1. PadsCount' <= PadsCount
  BY NoMoreWait
<1>2. PadsCount' \in Nat /\ PadsCount \in Nat
  BY PadsCountNext, PadsCountType, WaitingFinite
<1>3. acts + PadsCount <= pressed /\ pressed \in Nat
  BY DEF PressesCounted, JoystickTypeOK
<1>4. acts + PadsCount' <= pressed
  BY <1>1, <1>2, <1>3, SumFits
<1> QED
  BY <1>4 DEF PressesCounted

LEMMA SteerKeeps == MenuInv /\ Steer => MenuInv'
<1> SUFFICES ASSUME MenuInv, Steer PROVE MenuInv'
  OBVIOUS
<1> USE DEF MenuInv
<1>1. /\ JoystickTypeOK /\ MenuTypeOK /\ SelectionInList /\ PressesCounted
      /\ UNCHANGED <<deviceVars, slotVars, historyVars, menuState, running,
                     brightness, acts>>
      /\ acts \in Nat /\ pressed' = pressed
  BY DEF MenuTypeOK, Steer, historyVars
<1>2. CASE menuState = "settingsUpdate"
  <2>1. selectedExec' = selectedExec /\ real' = real /\ sim' = sim /\ at' = "clear"
    BY <1>2 DEF Steer, padVars
  <2>2. real' \in [Slots -> Pad] /\ sim' \in [Slots -> Pad]
    BY <1>1, <2>1 DEF JoystickTypeOK
  <2>3. JoystickTypeOK'
    BY <1>1, <2>2, GetterTypes
  <2>4. Waiting(real') \subseteq Waiting(real) /\ Waiting(sim') \subseteq Waiting(sim)
    BY <2>1
  <2>5. PressesCounted'
    BY <1>1, <2>4, GetterCounts
  <2> QED
    BY <1>1, <2>1, <2>3, <2>5
      DEF MenuTypeOK, SelectionInList, ListSize, AppListSize, SettingsSize
<1>3. CASE menuState # "settingsUpdate"
  <2>1. /\ getAxisPress(1) /\ at' = "act"
        /\ selectedExec' = Wrapped(selectedExec + Truncated(AxisPress(1)), ListSize)
    BY <1>3 DEF Steer
  <2>2. 1 \in Axes
    BY DEF Axes
  <2>3. /\ real' \in [Slots -> Pad] /\ sim' \in [Slots -> Pad]
        /\ Waiting(real') \subseteq Waiting(real)
        /\ Waiting(sim') \subseteq Waiting(sim)
    BY <1>1, <2>1, <2>2, AxisGetter
  <2>4. JoystickTypeOK'
    BY <1>1, <2>3, GetterTypes
  <2>5. PressesCounted'
    BY <1>1, <2>3, GetterCounts
  <2>6. selectedExec + Truncated(AxisPress(1)) \in Int
    BY <1>1, <2>2, AxisPressType, TruncatedType DEF MenuTypeOK
  <2>7. selectedExec' \in 0..(ListSize - 1)
    BY <2>1, <2>6, ListSizeType, WrappedInList
  <2>8. ListSize' = ListSize
    BY <1>1 DEF ListSize, AppListSize, SettingsSize
  <2>9. selectedExec' \in Int
    BY <2>7, ListSizeType
  <2> QED
    BY <1>1, <2>1, <2>4, <2>5, <2>7, <2>8, <2>9 DEF MenuTypeOK, SelectionInList
<1> QED
  BY <1>2, <1>3

LEMMA ActKeeps == MenuInv /\ Act => MenuInv'
<1> SUFFICES ASSUME MenuInv, Act PROVE MenuInv'
  OBVIOUS
<1> USE DEF MenuInv
<1>1. /\ JoystickTypeOK /\ MenuTypeOK /\ SelectionInList /\ PressesCounted
      /\ UNCHANGED <<deviceVars, slotVars, historyVars, running, brightness>>
      /\ getButtonPress
      /\ acts \in Nat /\ pressed' = pressed /\ pressed \in Nat
  BY DEF MenuTypeOK, JoystickTypeOK, Act, historyVars
<1>2. /\ real' \in [Slots -> Pad] /\ sim' \in [Slots -> Pad]
      /\ Waiting(real') \subseteq Waiting(real)
      /\ Waiting(sim') \subseteq Waiting(sim)
  BY <1>1, ButtonGetter
<1>3. JoystickTypeOK'
  BY <1>1, <1>2, GetterTypes
<1>4. /\ menuState' \in {"applist", "settings", "settingsUpdate"}
      /\ selectedExec' \in Int /\ acts' \in Nat
      /\ SelectionInList'
      /\ at' \in {"steer", "act", "adjust", "clear"}
  <2>1. CASE Pressing = {}
    BY <1>1, <2>1
      DEF Act, MenuTypeOK, SelectionInList, ListSize, AppListSize, SettingsSize
  <2>2. CASE Pressing # {} /\ menuState = "applist"
    <3>1. ChooseApp /\ acts' = acts + 1 /\ at' = "clear"
      BY <2>2 DEF Act
    <3> QED
      BY <1>1, <2>2, <3>1, MenuAssumption
        DEF ChooseApp, MenuTypeOK, SelectionInList, ListSize, AppListSize, SettingsSize
  <2>3. CASE Pressing # {} /\ menuState # "applist"
    <3>1. ChooseSetting /\ acts' = acts + 1 /\ at' \in {"adjust", "clear"}
      BY <2>3 DEF Act
    <3> QED
      BY <1>1, <2>3, <3>1, MenuAssumption
        DEF ChooseSetting, MenuTypeOK, SelectionInList, ListSize, AppListSize, SettingsSize
  <2> QED
    BY <2>1, <2>2, <2>3
<1>5. PressesCounted'
  <2>1. CASE Pressing = {}
    <3>1. acts' = acts
      BY <2>1 DEF Act
    <3> QED
      BY <1>1, <1>2, <3>1, GetterCounts
  <2>2. CASE Pressing # {}
    <3>1. acts' = acts + 1
      BY <2>2 DEF Act
    <3>2. PICK k \in Slots :
            \/ k \in Waiting(real) /\ Waiting(real') \subseteq Waiting(real) \ {k}
            \/ k \in Waiting(sim) /\ Waiting(sim') \subseteq Waiting(sim) \ {k}
      BY <1>1, <2>2, ButtonGetter
    <3> DEFINE R == Cardinality(Waiting(real))
               R1 == Cardinality(Waiting(real'))
               S == Cardinality(Waiting(sim))
               S1 == Cardinality(Waiting(sim'))
    <3>3. R \in Nat /\ R1 \in Nat /\ S \in Nat /\ S1 \in Nat
      BY WaitingFinite
    <3>4. R1 <= R /\ S1 <= S
      BY <1>2, FewerWait
    <3>5. R1 + 1 <= R \/ S1 + 1 <= S
      BY <3>2, OneWaitsLess
    <3>6. PadsCount = R + S /\ PadsCount' = R1 + S1
      BY PadsCountNext DEF PadsCount
    <3>7. acts + (R + S) <= pressed
      BY <1>1, <3>6 DEF PressesCounted
    <3> HIDE DEF R, R1, S, S1
    <3>8. (acts + 1) + (R1 + S1) <= pressed
      BY <1>1, <3>3, <3>4, <3>5, <3>7
    <3> QED
      BY <1>1, <3>1, <3>6, <3>8 DEF PressesCounted
  <2> QED
    BY <2>1, <2>2
<1> QED
  BY <1>1, <1>3, <1>4, <1>5 DEF MenuTypeOK

LEMMA AdjustKeeps == MenuInv /\ Adjust => MenuInv'
<1> SUFFICES ASSUME MenuInv, Adjust PROVE MenuInv'
  OBVIOUS
<1> USE DEF MenuInv
<1>1. /\ JoystickTypeOK /\ MenuTypeOK /\ SelectionInList /\ PressesCounted
      /\ UNCHANGED <<deviceVars, slotVars, historyVars, menuState, selectedExec,
                     running, acts>>
      /\ at' = "clear" /\ acts \in Nat /\ pressed' = pressed
  BY DEF MenuTypeOK, Adjust, historyVars
<1>2. /\ real' \in [Slots -> Pad] /\ sim' \in [Slots -> Pad]
      /\ Waiting(real') \subseteq Waiting(real)
      /\ Waiting(sim') \subseteq Waiting(sim)
      /\ brightness' \in Int
  <2>1. CASE menuState = "settings" /\ selectedExec = 0
    <3>1. /\ getAxisPress(0)
          /\ brightness' =
               Constrain(brightness + Truncated(10 * AxisPress(0)), 0, 100)
      BY <2>1 DEF Adjust
    <3>2. 0 \in Axes
      BY DEF Axes
    <3>3. 10 * AxisPress(0) \in Int
      BY <1>1, <3>2, AxisPressType
    <3>4. brightness + Truncated(10 * AxisPress(0)) \in Int
      BY <1>1, <3>3, TruncatedType DEF MenuTypeOK
    <3>5. brightness' \in Int
      BY <3>1, <3>4 DEF Constrain
    <3> QED
      BY <1>1, <3>1, <3>2, <3>5, AxisGetter
  <2>2. CASE ~(menuState = "settings" /\ selectedExec = 0)
    <3>1. real' = real /\ sim' = sim /\ brightness' = brightness
      BY <2>2 DEF Adjust, padVars
    <3> QED
      BY <1>1, <3>1 DEF MenuTypeOK, JoystickTypeOK
  <2> QED
    BY <2>1, <2>2
<1>3. JoystickTypeOK'
  BY <1>1, <1>2, GetterTypes
<1>4. PressesCounted'
  BY <1>1, <1>2, GetterCounts
<1> QED
  BY <1>1, <1>2, <1>3, <1>4
    DEF MenuTypeOK, SelectionInList, ListSize, AppListSize, SettingsSize

LEMMA EndLoopKeeps == MenuInv /\ EndLoop => MenuInv'
<1> SUFFICES ASSUME MenuInv, EndLoop PROVE MenuInv'
  OBVIOUS
<1> USE DEF MenuInv
<1>1. /\ JoystickTypeOK /\ MenuTypeOK /\ SelectionInList /\ PressesCounted
      /\ UNCHANGED <<deviceVars, slotVars, historyVars, menuState, selectedExec,
                     running, brightness, acts>>
      /\ clearAllButtonPresses
      /\ at' = "steer" /\ acts \in Nat /\ pressed' = pressed
  BY DEF MenuTypeOK, EndLoop, historyVars
<1>2. /\ real' \in [Slots -> Pad] /\ sim' \in [Slots -> Pad]
      /\ Waiting(real') \subseteq Waiting(real)
      /\ Waiting(sim') \subseteq Waiting(sim)
  BY <1>1, ClearGetter
<1>3. JoystickTypeOK'
  BY <1>1, <1>2, GetterTypes
<1>4. PressesCounted'
  BY <1>1, <1>2, GetterCounts
<1> QED
  BY <1>1, <1>2, <1>3, <1>4
    DEF MenuTypeOK, SelectionInList, ListSize, AppListSize, SettingsSize

LEMMA InputKeeps == MenuInv /\ JoystickNext /\ UNCHANGED menuVars => MenuInv'
<1> SUFFICES ASSUME MenuInv, JoystickNext, UNCHANGED menuVars PROVE MenuInv'
  OBVIOUS
<1> USE DEF MenuInv
<1>1. JoystickTypeOK /\ MenuTypeOK /\ SelectionInList /\ PressesCounted
  BY DEF MenuTypeOK
<1>2. JoystickTypeOK' /\ PadsCount' + pressed <= PadsCount + pressed'
  BY <1>1, JoystickSteps
<1>3. /\ menuState' = menuState /\ selectedExec' = selectedExec /\ at' = at
      /\ running' = running /\ brightness' = brightness /\ acts' = acts
  BY DEF menuVars
<1>4. MenuTypeOK' /\ SelectionInList'
  BY <1>1, <1>2, <1>3
    DEF MenuTypeOK, SelectionInList, ListSize, AppListSize, SettingsSize
<1>5. PressesCounted'
  <2>1. /\ PadsCount \in Nat /\ PadsCount' \in Nat /\ acts \in Nat
        /\ pressed \in Nat /\ pressed' \in Nat
    BY <1>1, <1>2, PadsCountType, PadsCountNext, WaitingFinite
      DEF MenuTypeOK, JoystickTypeOK
  <2>2. acts + PadsCount <= pressed
    BY <1>1 DEF PressesCounted
  <2>3. acts + PadsCount' <= pressed'
    BY <1>2, <2>1, <2>2, CountFits
  <2> QED
    BY <1>3, <2>3 DEF PressesCounted
<1> QED
  BY <1>4, <1>5

LEMMA MenuInvInductive == MenuInv /\ [MenuNext]_allVars => MenuInv'
<1>1. MenuInv /\ PauseOrResume => MenuInv'
  BY DEF MenuInv, PauseOrResume, joystickVars, MenuTypeOK, JoystickTypeOK,
    SelectionInList, ListSize, AppListSize, SettingsSize, PressesCounted, PadsCount,
    Waiting
<1>2. MenuInv /\ UNCHANGED allVars => MenuInv'
  BY DEF MenuInv, allVars, menuVars, joystickVars, MenuTypeOK, JoystickTypeOK,
    SelectionInList, ListSize, AppListSize, SettingsSize, PressesCounted, PadsCount,
    Waiting
<1> QED
  BY <1>1, <1>2, InputKeeps, SteerKeeps, ActKeeps, AdjustKeeps, EndLoopKeeps
    DEF MenuNext, Loop

-----------------------------------------------------------------------------
LEMMA MenuInitially == MenuInit => MenuInv
<1> SUFFICES ASSUME MenuInit PROVE MenuInv
  OBVIOUS
<1>1. JoystickTypeOK
  <2>1. PICK there \in SUBSET (Slots \cap PlugSlots) :
          /\ Cardinality(there) <= MaxPlugs
          /\ plugs = Cardinality(there)
          /\ file = [j \in Slots |->
                       IF j \in there THEN Cardinality({k \in there : k <= j}) ELSE 0]
          /\ fallback = [j \in Slots |-> j \notin there]
    BY DEF MenuInit, JoystickInit
  <2>2. IsFiniteSet(there) /\ Cardinality(there) \in Nat
    <3>1. IsFiniteSet(Slots)
      <4>1. PICK lo \in Int, hi \in Int : lo = 1 /\ hi = NSlots
        BY JoystickAssumption
      <4> QED
        BY <4>1, FS_Interval DEF Slots
    <3> QED
      BY <3>1, FS_Subset, FS_CardinalityType
  <2>3. ASSUME NEW j \in Slots
        PROVE  Cardinality({k \in there : k <= j}) \in 0..MaxPlugs
    <3>1. PICK T : T = {k \in there : k <= j}
      OBVIOUS
    <3>2. T \in SUBSET there
      BY <3>1
    <3>3. Cardinality(T) <= Cardinality(there) /\ Cardinality(T) \in Nat
      BY <2>2, <3>2, FS_Subset, FS_CardinalityType
    <3>4. Cardinality(T) \in 0..MaxPlugs
      BY <2>1, <2>2, <3>3, JoystickAssumption
    <3> QED
      BY <3>1, <3>4
  <2>4. file \in [Slots -> 0..MaxPlugs] /\ plugs \in 0..MaxPlugs
    BY <2>1, <2>2, <2>3, JoystickAssumption
  <2>5. fallback \in [Slots -> BOOLEAN]
    BY <2>1
  <2>6. fd \in [Slots -> -1..MaxPlugs] /\ opening \in [Slots -> BOOLEAN]
    BY DEF MenuInit, JoystickInit
  <2>7. Released \in Pad
    BY ReleasedPad
  <2>8. sim \in [Slots -> Pad]
    BY <2>7 DEF MenuInit, JoystickInit
  <2>9. real \in [Slots -> Pad]
    <3>1. PICK v \in AxisValues :
            real = [j \in Slots |-> [Released EXCEPT !.axisPress[1] = v]]
      BY DEF MenuInit, JoystickInit
    <3>2. [Released EXCEPT !.axisPress[1] = v] \in Pad
      BY <2>7, ReleasedPad DEF Axes
    <3> QED
      BY <3>1, <3>2
  <2>10. inputs \in 0..MaxInputs /\ pressed \in Nat
    BY JoystickAssumption DEF MenuInit, JoystickInit
  <2> QED
    BY <2>4, <2>5, <2>6, <2>8, <2>9, <2>10 DEF JoystickTypeOK
<1>2. selectedExec \in 0..NApps
  BY MenuAssumption DEF MenuInit, AppListSize
<1>3. MenuTypeOK
  BY <1>1, <1>2, MenuAssumption DEF MenuInit, MenuTypeOK
<1>4. SelectionInList
  BY <1>2, MenuAssumption DEF MenuInit, SelectionInList, ListSize, AppListSize
<1>5. PressesCounted
  <2>1. Waiting(real) = {} /\ Waiting(sim) = {}
    BY ReleasedPad DEF MenuInit, JoystickInit, Waiting
  <2>2. PadsCount = 0
    BY <2>1, FS_EmptySet DEF PadsCount
  <2> QED
    BY <2>2 DEF MenuInit, JoystickInit, PressesCounted
<1> QED
  BY <1>3, <1>4, <1>5 DEF MenuInv

LEMMA MenuInvAlways == MenuSpec => []MenuInv
BY MenuInitially, MenuInvInductive, PTL DEF MenuSpec

\* Whatever the devices, the simulator and the programs found, the selection is
\* an item of the list that is shown: at() never throws
\* (mainmenu.cpp:74-79, 89-93, 126-131, 139-142).
THEOREM SelectionStaysInList == MenuSpec => []SelectionInList
BY MenuInvAlways, PTL DEF MenuInv

\* No press of the button chooses two items: every press waits in one slot at
\* most, and a choice takes one that waits (Joystick.cpp getButtonPress,
\* mainmenu.cpp:81-87, 133-150).
THEOREM ChoicesArePresses == MenuSpec => []OneChoicePerPress
<1>1. MenuInv => OneChoicePerPress
  <2> SUFFICES ASSUME MenuInv PROVE OneChoicePerPress
    OBVIOUS
  <2>1. PadsCount \in Nat /\ acts \in Nat /\ pressed \in Nat /\ acts + PadsCount <= pressed
    BY PadsCountType DEF MenuInv, MenuTypeOK, JoystickTypeOK, PressesCounted
  <2> QED
    BY <2>1 DEF OneChoicePerPress
<1> QED
  BY <1>1, MenuInvAlways, PTL

\* The joysticks and the menu keep their types: every value an axis reports is
\* one a device may have, and a slot's descriptor is that of a device it saw.
THEOREM MenuTypes == MenuSpec => []MenuTypeOK
BY MenuInvAlways, PTL DEF MenuInv

=============================================================================
