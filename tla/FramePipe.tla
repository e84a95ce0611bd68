------------------------------ MODULE FramePipe ------------------------------
(***************************************************************************)
(* What the standalone application promises of its pictures: each is shown *)
(* whole, in the order they were drawn, once, unless its transfer to the   *)
(* cube fails; and loop() is never more than MaxLag pictures ahead.        *)
(***************************************************************************)
EXTENDS Integers

CONSTANT MaxLag     \* a natural number

VARIABLES
  drawn,        \* pictures loop() has finished
  shown,        \* the picture on the cube; 0 is the dark one
  lost          \* the last picture whose transfer failed

vars == <<drawn, shown, lost>>

Init == drawn = 0 /\ shown = 0 /\ lost = 0

\* Pictures that were shown or lost.
Settled == IF shown > lost THEN shown ELSE lost

Finish ==
  /\ drawn - Settled < MaxLag
  /\ drawn' = drawn + 1
  /\ UNCHANGED <<shown, lost>>

Show ==
  /\ Settled < drawn
  /\ shown' = Settled + 1
  /\ UNCHANGED <<drawn, lost>>

Lose ==
  /\ Settled < drawn
  /\ lost' = Settled + 1
  /\ UNCHANGED <<drawn, shown>>

Next == Finish \/ Show \/ Lose

Spec == Init /\ [][Next]_vars

=============================================================================
