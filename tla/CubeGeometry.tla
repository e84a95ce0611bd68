---------------------------- MODULE CubeGeometry ----------------------------
(***************************************************************************)
(* The cube's six screens and the space they span                          *)
(* (application/CubeApplication.cpp).  A screen has N by N pixels; the     *)
(* points of the space go from 0 to N + 1 along each axis, so that the     *)
(* planes at 0 and N + 1 hold the screens with a rim of one point around   *)
(* each.  A point is <<x, y, z>>, a pixel <<screen, x, y>>.                *)
(***************************************************************************)
EXTENDS Integers

CONSTANT N                          \* CUBESIZE

ASSUME GeometryAssumption == N \in Nat \ {0}

Max == N + 1                        \* VIRTUALCUBEMAXINDEX

front == 0
right == 1
back == 2
left == 3
top == 4
bottom == 5
anyScreen == 6
Screens == {front, right, back, left, top, bottom}

Pixels == Screens \X (0..N-1) \X (0..N-1)

Point(x, y, z) == <<x, y, z>>

\* Fault variant of Constrained: the last plane is out of reach.
ConstrainedShort(v) == IF v < 0 THEN 0 ELSE IF v > N THEN N ELSE v

Constrained(v) == IF v < 0 THEN 0 ELSE IF v > Max THEN Max ELSE v

\* Where setPixel3D and getPixel3D look a point up: the first plane it is on.
\* On the rim the coordinates are outside the screen, and Screen ignores them.
PixelAt(x, y, z) ==
  IF y = 0 THEN <<front, x - 1, z - 1>>
  ELSE IF x = Max THEN <<right, y - 1, z - 1>>
  ELSE IF y = Max THEN <<back, Max - x - 1, z - 1>>
  ELSE IF x = 0 THEN <<left, Max - y - 1, z - 1>>
  ELSE IF z = 0 THEN <<top, x - 1, Max - y - 1>>
  ELSE IF z = Max THEN <<bottom, x - 1, y - 1>>
  ELSE <<anyScreen, 0, 0>>

\* setPixel3D: the pixel that a point lights, if there is one.
Lit(p) ==
  {PixelAt(Constrained(p[1]), Constrained(p[2]), Constrained(p[3]))} \cap Pixels

getPointOnScreen(s, a, b) ==
  CASE s = front  -> Point(a + 1, 0, b + 1)
    [] s = right  -> Point(Max, a + 1, b + 1)
    [] s = back   -> Point(Max - (a + 1), Max, b + 1)
    [] s = left   -> Point(0, Max - (a + 1), b + 1)
    [] s = top    -> Point(a + 1, Max - (b + 1), 0)
    [] s = bottom -> Point(a + 1, b + 1, Max)

\* getRandomPointOnScreen: rand() % Max along the two axes of the screen.
RandomPoints(s) ==
  LET R == 0..Max-1
      X == IF s = left THEN {0} ELSE IF s = right THEN {Max} ELSE R
      Y == IF s = front THEN {0} ELSE IF s = back THEN {Max} ELSE R
      Z == IF s = top THEN {0} ELSE IF s = bottom THEN {Max} ELSE R
  IN X \X Y \X Z

-----------------------------------------------------------------------------
(* Where a point is: the first of the patterns it fits.  -1 is any value.  *)

ScreenPatterns == <<
  <<left, <<0, -1, -1>>>>, <<right, <<Max, -1, -1>>>>,
  <<front, <<-1, 0, -1>>>>, <<back, <<-1, Max, -1>>>>,
  <<top, <<-1, -1, 0>>>>, <<bottom, <<-1, -1, Max>>>> >>

EdgePatterns == <<
  <<"frontRight", <<Max, 0, -1>>>>, <<"rightBack", <<Max, Max, -1>>>>,
  <<"backLeft", <<0, Max, -1>>>>, <<"leftFront", <<0, 0, -1>>>>,
  <<"topFront", <<-1, 0, 0>>>>, <<"topRight", <<Max, -1, 0>>>>,
  <<"topBack", <<-1, Max, 0>>>>, <<"topLeft", <<0, -1, 0>>>>,
  <<"bottomFront", <<-1, 0, Max>>>>, <<"bottomRight", <<Max, -1, Max>>>>,
  <<"bottomBack", <<-1, Max, Max>>>>, <<"bottomLeft", <<0, -1, Max>>>> >>

CornerPatterns == <<
  <<"frontRightTop", <<Max, 0, 0>>>>, <<"rightBackTop", <<Max, Max, 0>>>>,
  <<"backLeftTop", <<0, Max, 0>>>>, <<"leftFrontTop", <<0, 0, 0>>>>,
  <<"frontRightBottom", <<Max, 0, Max>>>>,
  <<"rightBackBottom", <<Max, Max, Max>>>>,
  <<"backLeftBottom", <<0, Max, Max>>>>, <<"leftFrontBottom", <<0, 0, Max>>>> >>

Fits(p, pattern) == \A i \in 1..3 : pattern[i] \in {-1, p[i]}

Fitting(p, patterns) ==
  LET K == {k \in DOMAIN patterns : Fits(p, patterns[k][2])}
  IN {patterns[k][1] : k \in {i \in K : \A j \in K : i <= j}}

getScreenNumber(p) == Fitting(p, ScreenPatterns)
getEdgeNumber(p) == Fitting(p, EdgePatterns)
getCornerNumber(p) == Fitting(p, CornerPatterns)

isOnSurface(p) == getScreenNumber(p) # {}
isOnCorner(p) == getCornerNumber(p) # {}

\* Fault variant of isOnEdge: it asks for corners.
isOnEdgeAtCorners(p) == isOnCorner(p)

isOnEdge(p) == getEdgeNumber(p) # {}

=============================================================================
