------------------------------- MODULE Color --------------------------------
(* Colours (common/Color.cpp): <<red, green, blue>>, a byte each. *)
EXTENDS Integers

Byte == 0..255
Colors == Byte \X Byte \X Byte
Black == <<0, 0, 0>>

Constrain(v, lo, hi) == IF v < lo THEN lo ELSE IF v > hi THEN hi ELSE v

\* A conversion to int cuts off towards zero.
Quotient(n, d) == IF n >= 0 THEN n \div d ELSE -((-n) \div d)

Plus(c, d) == [i \in 1..3 |-> Constrain(c[i] + d[i], 0, 255)]

\* operator*= by n / d.  The test that keeps blue from becoming negative looks
\* at red: without it the value wraps around as it becomes a byte again.
Times(c, n, d) ==
  LET t == [i \in 1..3 |-> Quotient(c[i] * n, d)]
  IN <<Constrain(t[1], 0, 255), Constrain(t[2], 0, 255),
       IF t[3] > 255 THEN 255 ELSE IF t[1] < 0 THEN 0 ELSE t[3] % 256>>

\* Fault variant of Sector: the sectors are counted from one.
SectorShifted(h) == 1 + h \div 4

Sector(h) == h \div 4

\* fromHSV: h in quarters of the wheel's sixths, s and v in halves.
fromHSV(h, s, v) ==
  LET f == h % 4
      part(n) == (255 * v * n) \div 16
      V == part(8)
      P == part(4 * (2 - s))
      Q == part(8 - s * f)
      T == part(8 - s * (4 - f))
  IN IF s = 0 THEN <<V, V, V>>
     ELSE CASE Sector(h) = 0 -> <<V, T, P>>
            [] Sector(h) = 1 -> <<Q, V, P>>
            [] Sector(h) = 2 -> <<P, V, T>>
            [] Sector(h) = 3 -> <<P, Q, V>>
            [] Sector(h) = 4 -> <<T, P, V>>
            [] OTHER -> <<V, P, Q>>

=============================================================================
