-------------------------- MODULE StandaloneProofs ---------------------------
(* The pictures of the standalone application for screens of any height and *)
(* any number of pictures: see Standalone and FramePipe.                    *)
EXTENDS Standalone, FiniteSetTheorems, SequenceTheorems, TLAPS

Ids == 0..5

Row(n) == [x \in Columns |-> n]

\* The pictures the render thread has handed on, ...
Taken == IF newFrame THEN drawn - 1 ELSE drawn

\* ... the one that spiThread sends or has sent last, ...
Sending == IF renderAt \in {"join", "fill"} THEN Taken - 1 ELSE Taken

\* ... and the last one that is shown or lost.
Settled == IF cube[0][0] > lost THEN cube[0][0] ELSE lost

\* The queue q holds picture n.
Holds(q, n) ==
  /\ \A y \in Lines : /\ q[2 * y + 1] = [op |-> "data", data |-> Row(n)]
                      /\ q[2 * y + 2] = [op |-> "flush", y |-> y]
  /\ q[4 * ScreenHeight + 1] = [op |-> "swap"]

\* Main thread: whose turn it is decides what the screens hold.
MainInv ==
  /\ drawn \in Nat /\ newFrame \in BOOLEAN
  /\ drawn <= MaxPictures
  /\ mainAt # "over" => drawn < MaxPictures
  /\ newFrame => drawn > 0 /\ mainAt # "loop"
  /\ screens \in [Ids -> Nat]
  /\ \A s \in Ids : \/ screens[s] = drawn
                    \/ mainAt = "loop" /\ screens[s] = drawn + 1

\* Render thread: what it has copied is of the picture it takes.
RenderInv ==
  /\ mainAt = "off" => renderAt = "off"
  /\ renderAt = "copy" => newFrame
  /\ renderAt \in {"join", "fill"} => Taken > 0
  /\ renderAt = "fill" => SpiDone
  /\ copied \in 0..6
  /\ renderscreens \in [Ids -> Nat]
  /\ renderAt = "copy" => \A s \in Ids : s < copied => renderscreens[s] = drawn
  /\ renderAt \in {"join", "fill"} => \A s \in Ids : renderscreens[s] = Taken

\* spiThread: what the queue holds, and the lines the FPGA has for the swap.
SpiInv ==
  /\ queue = [b \in {0, 1} |-> queue[b]] /\ buffPos \in {0, 1}
  /\ spi \in [buffer : {0, 1}, next : Nat, count : Nat]
  /\ spi.next \in 1..(spi.count + 1)
  /\ ~SpiDone =>
       /\ spi.count = 4 * ScreenHeight + 1
       /\ Sending > 0
       /\ Holds(queue[spi.buffer], Sending)
       /\ \A y \in Lines : /\ 2 * y + 2 = spi.next => line = Row(Sending)
                           /\ 2 * y + 2 < spi.next => fpga[y] = Row(Sending)

\* The cube: all its lines are of one picture, and none is left out.
CubeInv ==
  /\ lost \in Nat
  /\ cube[0][0] \in Nat
  /\ cube = [y \in Lines |-> Row(cube[0][0])]
  /\ fpga = [y \in Lines |-> fpga[y]]
  /\ Settled = IF SpiDone THEN Sending ELSE Sending - 1

Inv == MainInv /\ RenderInv /\ SpiInv /\ CubeInv

-----------------------------------------------------------------------------
\* There are six screens, numbered as they are copied.
LEMMA ScreensAre == Screens = Ids /\ Cardinality(Screens) = 6
<1>1. Screens = Ids
  BY DEF Screens, Sides, Layout, Ids
<1>2. ASSUME NEW k \in Int, k = 5
      PROVE  Cardinality(Screens) = 6
  <2>1. Screens = 0..k
    BY <1>1, <1>2 DEF Ids
  <2>2. Cardinality(0..k) = k + 1
    <3>1. \A m \in Int : m >= 0 => Cardinality(0..m) = m + 1
      BY FS_Interval
    <3>2. k >= 0
      BY <1>2
    <3> QED
      BY <3>1, <3>2
  <2>3. Cardinality(Screens) = k + 1
    BY <2>1, <2>2
  <2> QED
    BY <1>2, <2>3
<1> QED
  BY <1>1, <1>2

\* A queue has room for two transfers of each line and the swap.
LEMMA QueueSizeIs == Cardinality(Lines) = 2 * ScreenHeight
<1>1. Cardinality(0..(2 * ScreenHeight - 1)) = 2 * ScreenHeight
  BY FS_Interval, StandaloneAssumption
<1> QED
  BY <1>1, StandaloneAssumption DEF Lines

\* Every column of every line shows a screen.
LEMMA ScreenAtIs ==
  ASSUME NEW x \in Columns, NEW y \in Lines
  PROVE  ScreenAt(x, y) \in Screens
<1>1. Half(y) \in {0, 1}
  BY DEF Half
<1>2. \E s \in Sides : Layout[s].x = x /\ Layout[s].y = Half(y)
  BY <1>1 DEF Columns, Layout, Sides
<1>3. PICK s \in Sides : Layout[s].x = x /\ Layout[s].y = Half(y)
  BY <1>2
<1>4. Layout[s].id \in Screens
  BY <1>3 DEF Screens
<1>5. Layout[s] = [id |-> Layout[s].id, x |-> x, y |-> Half(y)]
  BY <1>3 DEF Layout, Sides
<1> QED
  BY <1>4, <1>5 DEF ScreenAt

\* When the renderer's screens hold one picture, so does what is packed.
LEMMA PackedHolds ==
  ASSUME NEW n, \A s \in Ids : renderscreens[s] = n
  PROVE  Holds(SubSeq(Packed, 1, QueueSize), n)
<1> DEFINE size == 4 * ScreenHeight + 1
           row(y) == [x \in Columns |-> renderscreens[ScreenAt(x, y)]]
<1> USE StandaloneAssumption
<1>1. \A y \in Lines : row(y) = Row(n)
  BY ScreenAtIs, ScreensAre DEF Row
<1>2. QueueSize = size /\ 2 * Cardinality(Lines) = size - 1
  BY QueueSizeIs DEF QueueSize
<1>3. \A i \in 1..size : SubSeq(Packed, 1, size)[i] = Packed[i]
  <2>1. \A i \in 1..size : Packed[i] \in {Packed[j] : j \in 1..size}
    OBVIOUS
  <2> QED
    BY <2>1, SubSeqProperties
<1>4. ASSUME NEW y \in Lines
      PROVE  /\ Packed[2 * y + 1] = [op |-> "data", data |-> Row(n)]
             /\ Packed[2 * y + 2] = [op |-> "flush", y |-> y]
             /\ 2 * y + 1 \in 1..size /\ 2 * y + 2 \in 1..size
  <2>1. /\ y \in Nat /\ 2 * y + 2 <= size - 1
    BY DEF Lines
  <2>2. /\ (2 * y + 1 - 1) \div 2 = y /\ (2 * y + 2 - 1) \div 2 = y
        /\ (2 * y + 1) % 2 = 1 /\ (2 * y + 2) % 2 = 0
    BY <2>1
  <2>3. Packed[2 * y + 1] = [op |-> "data", data |-> row(y)]
    <3>1. \A i \in 1..(size - 1) : i % 2 # 0 =>
            Packed[i] = [op |-> "data", data |-> row((i - 1) \div 2)]
      BY <1>2 DEF Packed
    <3> HIDE DEF row
    <3>2. Packed[2 * y + 1] = [op |-> "data", data |-> row((2 * y + 1 - 1) \div 2)]
      BY <2>1, <2>2, <3>1
    <3> QED
      BY <2>2, <3>2
  <2>4. Packed[2 * y + 2] = [op |-> "flush", y |-> y]
    BY <1>2, <2>1, <2>2 DEF Packed
  <2> QED
    BY <1>1, <2>1, <2>3, <2>4
<1>5. Packed[size] = [op |-> "swap"]
  BY <1>2 DEF Packed
<1> QED
  BY <1>2, <1>3, <1>4, <1>5 DEF Holds

-----------------------------------------------------------------------------
\* Everything is dark, and nothing was sent.
LEMMA InvInit == Init => Inv
<1> SUFFICES ASSUME Init
             PROVE  Inv
  OBVIOUS
<1> USE StandaloneAssumption DEF Init, Taken, Sending
<1>1. MainInv
  <2>1. screens \in [Ids -> Nat] /\ \A s \in Ids : screens[s] = 0
    BY ScreensAre
  <2> QED
    BY <2>1 DEF MainInv
<1>2. RenderInv
  BY ScreensAre DEF RenderInv, Ids
<1>3. SpiDone /\ SpiInv
  BY DEF SpiInv, SpiDone
<1>4. CubeInv
  <2>1. cube = [y \in Lines |-> Row(0)] /\ 0 \in Lines /\ 0 \in Columns
    BY DEF Row, NoLine, Lines, Columns
  <2>2. cube[0][0] = 0
    BY <2>1 DEF Row
  <2> QED
    BY <1>3, <2>1, <2>2 DEF CubeInv, Settled
<1> QED
  BY <1>1, <1>2, <1>3, <1>4 DEF Inv

\* Which transfer is the next: of a line its data or its flush, or the swap.
LEMMA TransferIs ==
  ASSUME NEW i \in 1..(4 * ScreenHeight + 1)
  PROVE  \/ i = 4 * ScreenHeight + 1
         \/ \E y \in Lines : i = 2 * y + 1 \/ i = 2 * y + 2
<1> SUFFICES ASSUME i # 4 * ScreenHeight + 1
             PROVE  \E y \in Lines : i = 2 * y + 1 \/ i = 2 * y + 2
  OBVIOUS
<1> DEFINE y == (i - 1) \div 2
<1>1. y \in Lines /\ (i = 2 * y + 1 \/ i = 2 * y + 2)
  BY StandaloneAssumption DEF Lines
<1> QED
  BY <1>1

\* What a step that leaves the transfers and the cube alone must keep.
LEMMA Untouched ==
  ASSUME Inv, UNCHANGED <<queue, buffPos, spi, fpgaVars, lost>>, Sending' = Sending
  PROVE  SpiInv' /\ CubeInv'
<1> USE DEF fpgaVars
<1>1. SpiInv'
  BY DEF Inv, SpiInv, SpiDone, Holds
<1>2. CubeInv'
  BY DEF Inv, CubeInv, SpiDone, Settled
<1> QED
  BY <1>1, <1>2

\* One step per action; only Fill, SpiStep and SpiFails touch the transfers.
LEMMA InvStep == Inv /\ [Next]_vars => Inv'
<1> SUFFICES ASSUME Inv, [Next]_vars
             PROVE  Inv'
  OBVIOUS
<1> USE ScreensAre DEF mainVars, renderVars, fpgaVars
<1>1. CASE UNCHANGED vars
  <2>1. UNCHANGED <<queue, buffPos, spi, fpgaVars, lost>> /\ Sending' = Sending
    BY <1>1 DEF vars, Inv, MainInv, RenderInv, Sending, Taken
  <2>2. MainInv'
    BY <1>1 DEF vars, Inv, MainInv, RenderInv, Ids
  <2>3. RenderInv'
    BY <1>1 DEF vars, Inv, MainInv, RenderInv, Taken, SpiDone, Ids
  <2> QED
    BY <2>1, <2>2, <2>3, Untouched DEF Inv
<1>2. CASE start
  <2>1. UNCHANGED <<queue, buffPos, spi, fpgaVars, lost>> /\ Sending' = Sending
    BY <1>2 DEF start, Inv, MainInv, RenderInv, Sending, Taken
  <2>2. MainInv'
    BY <1>2 DEF start, Inv, MainInv, RenderInv, Ids
  <2>3. RenderInv'
    BY <1>2 DEF start, Inv, MainInv, RenderInv, Taken, SpiDone, Ids
  <2> QED
    BY <2>1, <2>2, <2>3, Untouched DEF Inv
<1>3. CASE Started
  <2>1. UNCHANGED <<queue, buffPos, spi, fpgaVars, lost>> /\ Sending' = Sending
    BY <1>3 DEF Started, Inv, MainInv, RenderInv, Sending, Taken
  <2>2. MainInv'
    BY <1>3 DEF Started, Inv, MainInv, RenderInv, Ids
  <2>3. RenderInv'
    BY <1>3 DEF Started, Inv, MainInv, RenderInv, Taken, SpiDone, Ids
  <2> QED
    BY <2>1, <2>2, <2>3, Untouched DEF Inv
<1>4. CASE pauseOrResume
  <2>1. UNCHANGED <<queue, buffPos, spi, fpgaVars, lost>> /\ Sending' = Sending
    BY <1>4 DEF pauseOrResume, Inv, MainInv, RenderInv, Sending, Taken
  <2>2. MainInv'
    BY <1>4 DEF pauseOrResume, Inv, MainInv, RenderInv, Ids
  <2>3. RenderInv'
    BY <1>4 DEF pauseOrResume, Inv, MainInv, RenderInv, Taken, SpiDone, Ids
  <2> QED
    BY <2>1, <2>2, <2>3, Untouched DEF Inv
<1>5. CASE stop
  <2>1. UNCHANGED <<queue, buffPos, spi, fpgaVars, lost>> /\ Sending' = Sending
    BY <1>5 DEF stop, Inv, MainInv, RenderInv, Sending, Taken
  <2>2. MainInv'
    BY <1>5 DEF stop, Inv, MainInv, RenderInv, Ids
  <2>3. RenderInv'
    BY <1>5 DEF stop, Inv, MainInv, RenderInv, Taken, SpiDone, Ids
  <2> QED
    BY <2>1, <2>2, <2>3, Untouched DEF Inv
<1>6. CASE LoopHead
  <2>1. UNCHANGED <<queue, buffPos, spi, fpgaVars, lost>> /\ Sending' = Sending
    BY <1>6 DEF LoopHead, Inv, MainInv, RenderInv, Sending, Taken
  <2>2. MainInv'
    BY <1>6 DEF LoopHead, Inv, MainInv, RenderInv, Ids
  <2>3. RenderInv'
    BY <1>6 DEF LoopHead, Inv, MainInv, RenderInv, Taken, SpiDone, Ids
  <2> QED
    BY <2>1, <2>2, <2>3, Untouched DEF Inv
<1>7. CASE WaitTaken
  <2>1. UNCHANGED <<queue, buffPos, spi, fpgaVars, lost>> /\ Sending' = Sending
    BY <1>7 DEF WaitTaken, MayDraw, Inv, MainInv, RenderInv, Sending, Taken
  <2>2. MainInv'
    BY <1>7 DEF WaitTaken, MayDraw, Inv, MainInv, RenderInv, Ids
  <2>3. RenderInv'
    BY <1>7 DEF WaitTaken, MayDraw, Inv, MainInv, RenderInv, Taken, SpiDone, Ids
  <2> QED
    BY <2>1, <2>2, <2>3, Untouched DEF Inv
<1>8. CASE Paint
  <2>1. UNCHANGED <<queue, buffPos, spi, fpgaVars, lost>> /\ Sending' = Sending
    BY <1>8 DEF Paint, Unpainted, Inv, MainInv, RenderInv, Sending, Taken
  <2>2. MainInv'
    BY <1>8 DEF Paint, Unpainted, Inv, MainInv, RenderInv, Ids
  <2>3. RenderInv'
    BY <1>8 DEF Paint, Unpainted, Inv, MainInv, RenderInv, Taken, SpiDone, Ids
  <2> QED
    BY <2>1, <2>2, <2>3, Untouched DEF Inv
<1>9. CASE LoopReturns
  <2>1. UNCHANGED <<queue, buffPos, spi, fpgaVars, lost>> /\ Sending' = Sending
    BY <1>9 DEF LoopReturns, Unpainted, Inv, MainInv, RenderInv, Sending, Taken
  <2>2. MainInv'
    <3>1. \A s \in Ids : screens[s] = drawn + 1
      BY <1>9 DEF LoopReturns, Unpainted
    <3>2. /\ drawn' = drawn + 1 /\ newFrame' = TRUE /\ UNCHANGED screens
          /\ mainAt' # "loop" /\ drawn \in Nat /\ screens \in [Ids -> Nat]
      BY <1>9 DEF LoopReturns, Inv, MainInv
    <3>3. drawn' <= MaxPictures /\ (mainAt' # "over" => drawn' < MaxPictures)
      <4>1. drawn < MaxPictures /\ drawn' = drawn + 1 /\ drawn \in Nat
        BY <1>9 DEF LoopReturns, Inv, MainInv
      <4>2. looping' => drawn + 1 < MaxPictures
        BY <1>9, Zenon DEF LoopReturns
      <4>3. mainAt' # "over" => looping'
        BY <1>9 DEF LoopReturns
      <4> QED
        BY <4>1, <4>2, <4>3, StandaloneAssumption
    <3> QED
      BY <3>1, <3>2, <3>3 DEF MainInv
  <2>3. RenderInv'
    BY <1>9 DEF LoopReturns, Unpainted, Inv, MainInv, RenderInv, Taken, SpiDone, Ids
  <2> QED
    BY <2>1, <2>2, <2>3, Untouched DEF Inv
<1>10. CASE WaitNewFrame
  <2>1. UNCHANGED <<queue, buffPos, spi, fpgaVars, lost>> /\ Sending' = Sending
    BY <1>10 DEF WaitNewFrame, Inv, MainInv, RenderInv, Sending, Taken
  <2>2. MainInv'
    BY <1>10 DEF WaitNewFrame, Inv, MainInv, RenderInv, Ids
  <2>3. RenderInv'
    BY <1>10 DEF WaitNewFrame, Inv, MainInv, RenderInv, Taken, SpiDone, Ids
  <2> QED
    BY <2>1, <2>2, <2>3, Untouched DEF Inv
<1>11. CASE CopyScreen
  <2>1. UNCHANGED <<queue, buffPos, spi, fpgaVars, lost>> /\ Sending' = Sending
    BY <1>11 DEF CopyScreen, Inv, MainInv, RenderInv, Sending, Taken
  <2>2. MainInv'
    BY <1>11 DEF CopyScreen, Inv, MainInv, RenderInv, Ids
  <2>3. RenderInv'
    BY <1>11 DEF CopyScreen, Inv, MainInv, RenderInv, Taken, SpiDone, Ids
  <2> QED
    BY <2>1, <2>2, <2>3, Untouched DEF Inv
<1>12. CASE GiveTurn
  <2>1. UNCHANGED <<queue, buffPos, spi, fpgaVars, lost>> /\ Sending' = Sending
    BY <1>12 DEF GiveTurn, Inv, MainInv, RenderInv, Sending, Taken
  <2>2. MainInv'
    BY <1>12 DEF GiveTurn, Inv, MainInv, RenderInv, Ids
  <2>3. RenderInv'
    BY <1>12 DEF GiveTurn, Inv, MainInv, RenderInv, Taken, SpiDone, Ids
  <2> QED
    BY <2>1, <2>2, <2>3, Untouched DEF Inv
<1>13. CASE JoinSpi
  <2>1. UNCHANGED <<queue, buffPos, spi, fpgaVars, lost>> /\ Sending' = Sending
    BY <1>13 DEF JoinSpi, Inv, MainInv, RenderInv, Sending, Taken
  <2>2. MainInv'
    BY <1>13 DEF JoinSpi, Inv, MainInv, RenderInv, Ids
  <2>3. RenderInv'
    BY <1>13 DEF JoinSpi, Inv, MainInv, RenderInv, Taken, SpiDone, Ids
  <2> QED
    BY <2>1, <2>2, <2>3, Untouched DEF Inv
<1>14. CASE Fill
  <2>1. SpiDone /\ Taken > 0 /\ Taken \in Nat /\ Sending = Taken - 1 /\ Sending' = Taken
    BY <1>14 DEF Fill, Inv, MainInv, RenderInv, Taken, Sending
  <2>2. MainInv'
    BY <1>14 DEF Fill, Inv, MainInv
  <2>3. RenderInv'
    BY <1>14 DEF Fill, Inv, RenderInv, MainInv
  <2>4. spi' = [buffer |-> buffPos, next |-> 1, count |-> 4 * ScreenHeight + 1] /\ ~SpiDone'
    BY <1>14, QueueSizeIs, StandaloneAssumption DEF Fill, QueueSize, SpiDone
  <2>5. Holds(queue'[buffPos], Taken)
    <3>1. Holds(SubSeq(Packed, 1, QueueSize), Taken)
      BY <1>14, PackedHolds DEF Fill, Inv, RenderInv
    <3>2. queue'[buffPos] = SubSeq(Packed, 1, QueueSize)
      BY <1>14 DEF Fill, Inv, SpiInv
    <3> QED
      BY <3>1, <3>2
  <2>6. SpiInv'
    <3>1. queue' = [b \in {0, 1} |-> queue'[b]] /\ buffPos' \in {0, 1}
      <4>1. queue = [b \in {0, 1} |-> queue[b]] /\ buffPos \in {0, 1}
        BY DEF Inv, SpiInv
      <4>2. queue' = [queue EXCEPT ![buffPos] = queue'[buffPos]] /\ buffPos' = 1 - buffPos
        BY <1>14, <4>1 DEF Fill
      <4> QED
        BY <4>1, <4>2
    <3>2. spi' \in [buffer : {0, 1}, next : Nat, count : Nat] /\ spi'.next \in 1..(spi'.count + 1)
      BY <2>4, StandaloneAssumption DEF Inv, SpiInv
    <3>3. \A y \in Lines : 2 * y + 2 # 1 /\ ~(2 * y + 2 < 1)
      BY StandaloneAssumption DEF Lines
    <3> QED
      BY <2>1, <2>4, <2>5, <3>1, <3>2, <3>3 DEF SpiInv, Holds
  <2>7. CubeInv'
    BY <1>14, <2>1, <2>4 DEF Fill, Inv, CubeInv, Settled
  <2> QED
    BY <2>2, <2>3, <2>6, <2>7 DEF Inv
<1>15. CASE SpiStep
  <2> DEFINE transfer == queue[spi.buffer][spi.next]
  <2>1. /\ ~SpiDone /\ Sending' = Sending /\ Sending \in Nat
        /\ UNCHANGED <<mainAt, drawn, screens, newFrame, renderVars, lost>>
    BY <1>15 DEF SpiStep, Inv, MainInv, RenderInv, Sending, Taken
  <2>2. MainInv' /\ RenderInv'
    BY <1>15, <2>1 DEF Inv, MainInv, RenderInv, Taken
  <2>3. /\ spi.next \in 1..(4 * ScreenHeight + 1) /\ spi.count = 4 * ScreenHeight + 1
        /\ Holds(queue[spi.buffer], Sending)
        /\ \A y \in Lines : /\ 2 * y + 2 = spi.next => line = Row(Sending)
                            /\ 2 * y + 2 < spi.next => fpga[y] = Row(Sending)
    BY <2>1 DEF Inv, SpiInv, SpiDone
  <2>4. /\ spi' = [spi EXCEPT !.next = spi.next + 1]
        /\ SpiDone' <=> spi.next = 4 * ScreenHeight + 1
    BY <1>15, <2>3 DEF SpiStep, Inv, SpiInv, SpiDone
  <2>5. CASE spi.next = 4 * ScreenHeight + 1
    <3>1. cube' = fpga /\ UNCHANGED <<line, fpga>>
      BY <1>15, <2>3, <2>5 DEF SpiStep, Send, Holds
    <3>2. \A y \in Lines : fpga[y] = Row(Sending)
      BY <2>3, <2>5, StandaloneAssumption DEF Lines
    <3>3. cube' = [y \in Lines |-> Row(Sending)]
      BY <3>1, <3>2 DEF Inv, CubeInv
    <3>4. cube'[0][0] = Sending
      BY <3>3, StandaloneAssumption DEF Row, Lines, Columns
    <3>5. SpiInv'
      BY <2>1, <2>4, <2>5 DEF Inv, SpiInv
    <3>6. CubeInv'
      BY <2>1, <2>4, <2>5, <3>1, <3>3, <3>4 DEF Inv, CubeInv, Settled
    <3> QED
      BY <2>2, <3>5, <3>6 DEF Inv
  <2>6. ASSUME NEW y \in Lines, spi.next = 2 * y + 1
        PROVE  Inv'
    <3>0. transfer = [op |-> "data", data |-> Row(Sending)]
      BY <2>3, <2>6 DEF Holds
    <3> HIDE DEF transfer
    <3>1. line' = Row(Sending) /\ UNCHANGED <<fpga, cube>>
      BY <1>15, <3>0 DEF SpiStep, Send, transfer
    <3>2. \A z \in Lines : 2 * z + 2 < spi'.next => fpga'[z] = Row(Sending)
      BY <2>3, <2>4, <2>6, <3>1, StandaloneAssumption DEF Lines, Inv, SpiInv
    <3>3. SpiInv'
      BY <2>1, <2>3, <2>4, <2>6, <3>1, <3>2 DEF Inv, SpiInv, Holds
    <3>4. CubeInv'
      <4>1. ~SpiDone'
        BY <2>4, <2>6, StandaloneAssumption DEF Lines
      <4> QED
        BY <2>1, <4>1, <3>1 DEF Inv, CubeInv, Settled
    <3> QED
      BY <2>2, <3>3, <3>4 DEF Inv
  <2>7. ASSUME NEW y \in Lines, spi.next = 2 * y + 2
        PROVE  Inv'
    <3>0. transfer = [op |-> "flush", y |-> y] /\ line = Row(Sending)
      BY <2>3, <2>7 DEF Holds
    <3> HIDE DEF transfer
    <3>1. fpga' = [fpga EXCEPT ![y] = Row(Sending)] /\ UNCHANGED <<line, cube>>
      BY <1>15, <3>0 DEF SpiStep, Send, transfer
    <3>2. \A z \in Lines : /\ 2 * z + 2 < spi'.next => fpga'[z] = Row(Sending)
                           /\ 2 * z + 2 # spi'.next
      <4>1. spi'.next = 2 * y + 3
        BY <2>4, <2>7 DEF Inv, SpiInv, Lines
      <4>2. fpga'[y] = Row(Sending) /\ \A z \in Lines \ {y} : fpga'[z] = fpga[z]
        BY <3>1 DEF Inv, CubeInv
      <4>3. \A z \in Lines : /\ 2 * z + 2 # 2 * y + 3
                             /\ 2 * z + 2 < 2 * y + 3 => z = y \/ 2 * z + 2 < 2 * y + 2
        BY DEF Lines
      <4> QED
        BY <2>3, <2>7, <4>1, <4>2, <4>3
    <3>3. SpiInv'
      BY <2>1, <2>3, <2>4, <2>7, <3>1, <3>2 DEF Inv, SpiInv, Holds
    <3>4. CubeInv'
      <4>1. ~SpiDone'
        BY <2>4, <2>7, StandaloneAssumption DEF Lines
      <4> QED
        BY <2>1, <4>1, <3>1 DEF Inv, CubeInv, Settled
    <3> QED
      BY <2>2, <3>3, <3>4 DEF Inv
  <2> QED
    BY <2>3, <2>5, <2>6, <2>7, TransferIs
<1>16. CASE SpiFails
  <2>1. ~SpiDone /\ Sending' = Sending /\ Sending \in Nat /\ Sending > 0
    BY <1>16 DEF SpiFails, Inv, MainInv, RenderInv, SpiInv, Sending, Taken
  <2>2. MainInv' /\ RenderInv'
    BY <1>16, <2>1 DEF SpiFails, Inv, MainInv, RenderInv, Taken
  <2>3. SpiDone' /\ SpiInv'
    BY <1>16 DEF SpiFails, Inv, SpiInv, SpiDone
  <2>4. lost' = Sending
    <3>1. 0 \in Lines /\ 0 \in Columns /\ 2 * 0 + 1 = 1
      BY StandaloneAssumption DEF Lines, Columns
    <3>2. queue[spi.buffer][1] = [op |-> "data", data |-> Row(Sending)]
      BY <2>1, <3>1 DEF Inv, SpiInv, Holds
    <3> QED
      BY <1>16, <3>1, <3>2 DEF SpiFails, Row
  <2>5. CubeInv'
    BY <1>16, <2>1, <2>3, <2>4 DEF SpiFails, Inv, CubeInv, Settled
  <2> QED
    BY <2>2, <2>3, <2>5 DEF Inv
<1> QED
  BY <1>1, <1>2, <1>3, <1>4, <1>5, <1>6, <1>7, <1>8, <1>9, <1>10, <1>11, <1>12,
     <1>13, <1>14, <1>15, <1>16 DEF Next, MainStep, RenderStep

\* The pictures the cube and the queues hold, at any time.
LEMMA Invariant == Spec => []Inv
<1>1. Init => Inv
  BY InvInit
<1>2. Inv /\ [Next]_vars => Inv'
  BY InvStep
<1> QED
  BY <1>1, <1>2, PTL DEF Spec

-----------------------------------------------------------------------------
\* What the cube shows is the picture on its first line.
LEMMA ShownIs == Inv => Shown = cube[0][0] /\ Pipe!Settled = Settled
<1> SUFFICES ASSUME Inv
             PROVE  Shown = cube[0][0] /\ Pipe!Settled = Settled
  OBVIOUS
<1>1. cube[0][0] \in Pictures
  BY StandaloneAssumption
     DEF Pictures, Inv, CubeInv, MainInv, RenderInv, Settled, Sending, Taken
<1>2. \A y \in Lines, x \in Columns : cube[y][x] = cube[0][0]
  BY DEF Inv, CubeInv, Row
<1>3. Shown = cube[0][0]
  BY <1>1, <1>2 DEF Shown, Whole
<1> QED
  BY <1>3 DEF Pipe!Settled, Settled

\* Each step of the threads is a step of the pipe or none.
LEMMA PipeStep == Inv /\ Inv' /\ [Next]_vars => [Pipe!Next]_Pipe!vars
<1> SUFFICES ASSUME Inv, Inv', [Next]_vars
             PROVE  [Pipe!Next]_Pipe!vars
  OBVIOUS
<1>1. /\ Shown = cube[0][0] /\ Pipe!Settled = Settled
      /\ Shown' = cube'[0][0]
  <2>1. Inv' => (Shown = cube[0][0])'
    BY ShownIs, PTL
  <2> QED
    BY <2>1, ShownIs
<1>2. /\ drawn \in Nat /\ Sending \in Int /\ Sending <= drawn
      /\ Settled = IF SpiDone THEN Sending ELSE Sending - 1
      /\ Settled' = IF SpiDone' THEN Sending' ELSE Sending' - 1
  BY DEF Inv, MainInv, RenderInv, CubeInv, Sending, Taken
<1>3. CASE UNCHANGED <<drawn, cube, lost>>
  BY <1>1, <1>3 DEF Pipe!vars
<1>4. CASE LoopReturns
  <2>1. drawn - Sending < 2 /\ drawn' = drawn + 1 /\ UNCHANGED <<cube, lost>>
    BY <1>4 DEF LoopReturns, fpgaVars, Inv, MainInv, Sending, Taken
  <2>2. Pipe!Finish
    BY <1>1, <1>2, <2>1 DEF Pipe!Finish
  <2> QED
    BY <2>2 DEF Pipe!Next
<1>5. CASE SpiFails
  <2>1. ~SpiDone /\ SpiDone' /\ Sending' = Sending /\ UNCHANGED <<drawn, cube>>
    BY <1>5 DEF SpiFails, mainVars, renderVars, fpgaVars, Inv, SpiInv, SpiDone,
            Sending, Taken
  <2>2. lost' = Settled + 1
    BY <1>2, <2>1 DEF Settled, Inv, CubeInv
  <2>3. Pipe!Lose
    BY <1>1, <1>2, <2>1, <2>2 DEF Pipe!Lose
  <2> QED
    BY <2>3 DEF Pipe!Next
<1>6. CASE SpiStep
  <2>1. ~SpiDone /\ Sending' = Sending /\ UNCHANGED <<drawn, lost>>
    BY <1>6 DEF SpiStep, mainVars, renderVars, Sending, Taken
  <2>2. CASE cube' = cube
    BY <1>3, <2>1, <2>2
  <2>3. CASE cube' # cube
    <3>1. queue[spi.buffer][spi.next].op = "swap"
      BY <1>6, <2>3 DEF SpiStep, Send
    <3>2. /\ spi.next \in 1..(4 * ScreenHeight + 1) /\ spi.count = 4 * ScreenHeight + 1
          /\ Holds(queue[spi.buffer], Sending)
      BY <2>1 DEF Inv, SpiInv, SpiDone
    <3>3. spi.next = 4 * ScreenHeight + 1
      <4>1. \A y \in Lines : spi.next # 2 * y + 1 /\ spi.next # 2 * y + 2
        <5> SUFFICES ASSUME NEW y \in Lines
                     PROVE  spi.next # 2 * y + 1 /\ spi.next # 2 * y + 2
          OBVIOUS
        <5>1. /\ queue[spi.buffer][2 * y + 1] = [op |-> "data", data |-> Row(Sending)]
              /\ queue[spi.buffer][2 * y + 2] = [op |-> "flush", y |-> y]
          BY <3>2 DEF Holds
        <5>2. /\ queue[spi.buffer][2 * y + 1].op # "swap"
              /\ queue[spi.buffer][2 * y + 2].op # "swap"
          BY <5>1
        <5> QED
          BY <3>1, <5>2
      <4> QED
        BY <3>2, <4>1, TransferIs
    <3>4. SpiDone'
      BY <1>6, <3>2, <3>3 DEF SpiStep, SpiDone, Inv, SpiInv
    <3>5. cube'[0][0] = Settled + 1
      BY <1>2, <2>1, <3>4 DEF Settled, Inv, CubeInv
    <3>6. Pipe!Show
      BY <1>1, <1>2, <2>1, <3>5 DEF Pipe!Show
    <3> QED
      BY <3>6 DEF Pipe!Next
  <2> QED
    BY <2>2, <2>3
<1> QED
  BY <1>3, <1>4, <1>5, <1>6
     DEF Next, vars, mainVars, renderVars, fpgaVars, MainStep, RenderStep, start,
         Started, pauseOrResume, stop, LoopHead, WaitTaken, Paint, WaitNewFrame,
         CopyScreen, GiveTurn, JoinSpi, Fill

\* The standalone application shows the pictures loop() draws whole, in their
\* order, each once unless its transfer fails, and at most three behind, for
\* screens of any height and any number of pictures: three threads hand them
\* on with one flag and two buffers (MatrixApplicationStandalone.cpp:130-159,
\* FPGARendererRPISPI.cpp:214-361).
THEOREM ImplementsPipe == Spec => ImplementsFramePipe
<1>1. Init /\ Inv => Pipe!Init
  BY ShownIs, StandaloneAssumption
     DEF Init, Pipe!Init, NoLine, Lines, Columns
<1>2. Inv /\ Inv' /\ [Next]_vars => [Pipe!Next]_Pipe!vars
  BY PipeStep
<1> QED
  BY <1>1, <1>2, Invariant, PTL DEF Spec, ImplementsFramePipe, Pipe!Spec

=============================================================================
