----------------------------- MODULE Standalone -----------------------------
(***************************************************************************)
(* An application without a server                                         *)
(* (application/MatrixApplicationStandalone.cpp): the main thread lets     *)
(* loop() draw on the screens, the render thread hands them to the SPI     *)
(* renderer (renderer/FPGASPIRenderer/FPGARendererRPISPI.cpp), which packs *)
(* them into a queue of transfers, and a thread of its own per picture     *)
(* writes the queue to the FPGA of the cube.  newFrame says whose turn it  *)
(* is.                                                                     *)
(*                                                                         *)
(* A picture is the number of the call of loop() that drew it.  What the   *)
(* FPGA does with a line and with the swap command is external: a line is  *)
(* kept until the next swap shows all that were written.                   *)
(***************************************************************************)
EXTENDS Integers, Sequences, FiniteSets

CONSTANTS
  ScreenHeight,   \* rows of a screen
  MaxPictures     \* bound: calls of loop(); the last one returns false

ASSUME StandaloneAssumption ==
  ScreenHeight \in Nat \ {0} /\ MaxPictures \in Nat \ {0}

\* The panels in two rows of three; screenId is the number of the panel.
Layout ==
  [front  |-> [id |-> 0, x |-> 1, y |-> 1], right |-> [id |-> 1, x |-> 0, y |-> 1],
   back   |-> [id |-> 2, x |-> 1, y |-> 0], left  |-> [id |-> 3, x |-> 2, y |-> 1],
   top    |-> [id |-> 4, x |-> 0, y |-> 0], bottom |-> [id |-> 5, x |-> 2, y |-> 0]]

Sides == DOMAIN Layout
Screens == {Layout[s].id : s \in Sides}
Lines == 0..(2 * ScreenHeight - 1)
Columns == 0..2

\* The half of the cube's lines that y belongs to: screens with this offsetY.
Half(y) == IF y < ScreenHeight THEN 0 ELSE 1

VARIABLES
  appState,     \* MatrixApplicationStandalone::appState
  mainAt,       \* where the main thread is
  looping,      \* what loop() returned
  newFrame,     \* set when screens hold a picture that was not taken yet
  drawn,        \* pictures that are finished
  screens,      \* the picture on each screen of the application
  renderAt,     \* where the render thread is
  copied,       \* screens the render thread has copied of this picture
  renderscreens,\* the renderer's screens
  buffPos,      \* which of the two back buffers is filled next
  queue,        \* the transfers in each back buffer
  spi,          \* the buffer spiThread writes, its next transfer, their number
  line,         \* the line the FPGA received last
  fpga,         \* the lines it keeps for the next swap
  cube,         \* the lines it shows
  lost,         \* history: the last picture whose transfer failed
  stopAt        \* what the thread that may call stop() is at

mainVars == <<mainAt, looping, drawn, screens>>
renderVars == <<renderAt, copied, renderscreens, buffPos, queue>>
fpgaVars == <<line, fpga, cube>>
vars == <<appState, newFrame, stopAt, mainVars, renderVars, spi, fpgaVars, lost>>

Pictures == 0..MaxPictures

LineData == [Columns -> Pictures]
Transfer ==
  [op : {"data"}, data : LineData] \cup [op : {"flush"}, y : Lines] \cup [op : {"swap"}]

TypeOK ==
  /\ appState \in {"starting", "running", "paused", "killed"}
  /\ mainAt \in {"off", "head", "wait", "loop", "over"}
  /\ looping \in BOOLEAN
  /\ newFrame \in BOOLEAN
  /\ drawn \in Pictures
  /\ screens \in [Screens -> Pictures]
  /\ renderAt \in {"off", "wait", "copy", "join", "fill"}
  /\ copied \in 0..Cardinality(Screens)
  /\ renderscreens \in [Screens -> Pictures]
  /\ buffPos \in {0, 1}
  /\ queue \in [{0, 1} -> Seq(Transfer)]
  /\ spi \in [buffer : {0, 1}, next : Nat, count : Nat]
  /\ line \in LineData
  /\ fpga \in [Lines -> LineData]
  /\ cube \in [Lines -> LineData]
  /\ lost \in Pictures
  /\ stopAt \in {"no", "join", "done"}

NoLine == [x \in Columns |-> 0]

Init ==
  /\ appState = "starting"
  /\ mainAt = "off"
  /\ looping = TRUE
  /\ newFrame = FALSE
  /\ drawn = 0
  /\ screens = [s \in Screens |-> 0]
  /\ renderAt = "off"
  /\ copied = 0
  /\ renderscreens = [s \in Screens |-> 0]
  /\ buffPos = 0
  /\ queue = [b \in {0, 1} |-> <<>>]
  /\ spi = [buffer |-> 0, next |-> 1, count |-> 0]
  /\ line = NoLine
  /\ fpga = [y \in Lines |-> NoLine]
  /\ cube = [y \in Lines |-> NoLine]
  /\ lost = 0
  /\ stopAt = "no"

-----------------------------------------------------------------------------
(***************************************************************************)
(* Whoever owns the application: start, pause, resume, stop.               *)
(***************************************************************************)

\* Both threads are created before the state is set.
start ==
  /\ appState = "starting" /\ mainAt = "off"
  /\ mainAt' = "head"
  /\ renderAt' = "wait"
  /\ UNCHANGED <<appState, newFrame, stopAt, looping, drawn, screens, copied,
                 renderscreens, buffPos, queue, spi, fpgaVars, lost>>

Started ==
  /\ appState = "starting" /\ mainAt # "off"
  /\ appState' = "running"
  /\ UNCHANGED <<newFrame, stopAt, mainVars, renderVars, spi, fpgaVars, lost>>

pauseOrResume ==
  /\ stopAt # "join"
  /\ \/ appState = "running" /\ appState' = "paused"
     \/ appState = "paused" /\ appState' = "running"
  /\ UNCHANGED <<newFrame, stopAt, mainVars, renderVars, spi, fpgaVars, lost>>

\* The interrupt is seen at interruption points only, and internalLoop has
\* none: the join waits until loop() has returned false.
stop ==
  /\ mainAt # "off" /\ appState # "starting"
  /\ \/ stopAt = "no" /\ stopAt' = "join" /\ UNCHANGED appState
     \/ stopAt = "join" /\ mainAt = "over" /\ stopAt' = "done" /\ appState' = "killed"
  /\ UNCHANGED <<newFrame, mainVars, renderVars, spi, fpgaVars, lost>>

-----------------------------------------------------------------------------
(***************************************************************************)
(* internalLoop, on the main thread.                                       *)
(***************************************************************************)
LoopHead ==
  /\ mainAt = "head"
  /\ appState = "running"
  /\ mainAt' = "wait"
  /\ UNCHANGED <<appState, newFrame, stopAt, looping, drawn, screens, renderVars,
                 spi, fpgaVars, lost>>

\* Fault variant of MayDraw: the main thread does not wait for its turn.
MayDrawAlways == TRUE

MayDraw == ~newFrame

WaitTaken ==
  /\ mainAt = "wait"
  /\ MayDraw
  /\ mainAt' = "loop"
  /\ UNCHANGED <<appState, newFrame, stopAt, looping, drawn, screens, renderVars,
                 spi, fpgaVars, lost>>

Unpainted == {s \in Screens : screens[s] # drawn + 1}

\* loop() draws on one screen after the other ...
Paint ==
  /\ mainAt = "loop"
  /\ \E s \in Unpainted :
       /\ \A u \in Unpainted : s <= u
       /\ screens' = [screens EXCEPT ![s] = drawn + 1]
  /\ UNCHANGED <<appState, newFrame, stopAt, mainAt, looping, drawn, renderVars,
                 spi, fpgaVars, lost>>

\* ... and returns whether to go on; its picture counts in either case.
LoopReturns ==
  /\ mainAt = "loop"
  /\ Unpainted = {}
  /\ drawn' = drawn + 1
  /\ newFrame' = TRUE
  /\ looping' \in {FALSE, drawn + 1 < MaxPictures}
  /\ mainAt' = IF looping' THEN "head" ELSE "over"
  /\ UNCHANGED <<appState, stopAt, screens, renderVars, spi, fpgaVars, lost>>

MainStep == LoopHead \/ WaitTaken \/ Paint \/ LoopReturns

-----------------------------------------------------------------------------
(***************************************************************************)
(* renderLoop and render(), on the render thread.  The two mutexes they    *)
(* take are taken by nobody else.                                          *)
(***************************************************************************)
WaitNewFrame ==
  /\ renderAt = "wait"
  /\ newFrame
  /\ renderAt' = "copy"
  /\ copied' = 0
  /\ UNCHANGED <<appState, newFrame, stopAt, mainVars, renderscreens, buffPos,
                 queue, spi, fpgaVars, lost>>

CopyScreen ==
  /\ renderAt = "copy"
  /\ copied \in Screens
  /\ renderscreens' = [renderscreens EXCEPT ![copied] = screens[copied]]
  /\ copied' = copied + 1
  /\ UNCHANGED <<appState, newFrame, stopAt, mainVars, renderAt, buffPos, queue,
                 spi, fpgaVars, lost>>

GiveTurn ==
  /\ renderAt = "copy"
  /\ copied \notin Screens
  /\ newFrame' = FALSE
  /\ renderAt' = "join"
  /\ UNCHANGED <<appState, stopAt, mainVars, copied, renderscreens, buffPos,
                 queue, spi, fpgaVars, lost>>

SpiDone == spi.next > spi.count

JoinSpi ==
  /\ renderAt = "join"
  /\ SpiDone
  /\ renderAt' = "fill"
  /\ UNCHANGED <<appState, newFrame, stopAt, mainVars, copied, renderscreens,
                 buffPos, queue, spi, fpgaVars, lost>>

\* The screen whose picture is packed into this column of line y.
ScreenAt(x, y) ==
  CHOOSE id \in Screens :
    \E s \in Sides : Layout[s] = [id |-> id, x |-> x, y |-> Half(y)]

\* Fault variant of QueueSize: the command that shows the picture is not counted.
QueueSizeShort == 2 * Cardinality(Lines)

QueueSize == 2 * Cardinality(Lines) + 1

\* Two transfers for each line and one for the swap.
Packed ==
  [i \in 1..(2 * Cardinality(Lines) + 1) |->
     LET y == (i - 1) \div 2 IN
     IF i > 2 * Cardinality(Lines) THEN [op |-> "swap"]
     ELSE IF i % 2 = 0 THEN [op |-> "flush", y |-> y]
     ELSE [op |-> "data",
           data |-> [x \in Columns |-> renderscreens[ScreenAt(x, y)]]]]

\* After the FPGA has reported the end of its frame: what does not fit into
\* the queue is left out; a new thread writes it.
Fill ==
  /\ renderAt = "fill"
  /\ queue' = [queue EXCEPT ![buffPos] = SubSeq(Packed, 1, QueueSize)]
  /\ buffPos' = 1 - buffPos
  /\ spi' = [buffer |-> buffPos, next |-> 1, count |-> QueueSize]
  /\ renderAt' = "wait"
  /\ UNCHANGED <<appState, newFrame, stopAt, mainVars, copied, renderscreens,
                 fpgaVars, lost>>

RenderStep == WaitNewFrame \/ CopyScreen \/ GiveTurn \/ JoinSpi \/ Fill

-----------------------------------------------------------------------------
(***************************************************************************)
(* spiThread and the FPGA.                                                 *)
(***************************************************************************)
Send(transfer) ==
  \/ /\ transfer.op = "data"
     /\ line' = transfer.data
     /\ UNCHANGED <<fpga, cube>>
  \/ /\ transfer.op = "flush"
     /\ fpga' = [fpga EXCEPT ![transfer.y] = line]
     /\ UNCHANGED <<line, cube>>
  \/ /\ transfer.op = "swap"
     /\ cube' = fpga
     /\ UNCHANGED <<line, fpga>>

SpiStep ==
  /\ ~SpiDone
  /\ Send(queue[spi.buffer][spi.next])
  /\ spi' = [spi EXCEPT !.next = @ + 1]
  /\ UNCHANGED <<appState, newFrame, stopAt, mainVars, renderVars, lost>>

\* The ioctl fails: it is logged and the rest of the picture is not sent.
SpiFails ==
  /\ ~SpiDone
  /\ spi' = [spi EXCEPT !.next = spi.count + 1]
  /\ lost' = queue[spi.buffer][1].data[0]
  /\ UNCHANGED <<appState, newFrame, stopAt, mainVars, renderVars, fpgaVars>>

-----------------------------------------------------------------------------
Next ==
  \/ start
  \/ Started
  \/ pauseOrResume
  \/ stop
  \/ MainStep
  \/ RenderStep
  \/ SpiStep
  \/ SpiFails

Spec == Init /\ [][Next]_vars

(***************************************************************************)
(* Fairness: the three threads are scheduled, and the FPGA reports the end *)
(* of its frames.  Nothing is assumed of whoever pauses the application.   *)
(***************************************************************************)
FairSpec == Spec /\ WF_vars(MainStep) /\ WF_vars(RenderStep) /\ WF_vars(SpiStep)

-----------------------------------------------------------------------------
(***************************************************************************)
(* Properties.                                                             *)
(***************************************************************************)

\* The picture the cube shows, if all its lines and columns are of one.
Whole == \E n \in Pictures : \A y \in Lines, x \in Columns : cube[y][x] = n

Shown == IF Whole THEN cube[0][0] ELSE -1

\* The cube shows whole pictures only, each once in the order loop() drew them,
\* unless the transfer fails (a failed ioctl is only logged), although three
\* threads hand them on with one flag and two buffers
\* (MatrixApplicationStandalone.cpp:130-159, FPGARendererRPISPI.cpp:37-54,
\* 214-361); loop() is at most three pictures ahead.
Pipe == INSTANCE FramePipe WITH MaxLag <- 3, shown <- Shown

ImplementsFramePipe == Pipe!Spec

\* A finished picture is shown, or a later one is, or its transfer failed:
\* also when the application is paused, stopped or over in between, the last
\* one included (the threads wait for each other only on newFrame and join).
PictureIsShown ==
  \A n \in 1..MaxPictures : (drawn = n) ~> (Shown >= n \/ lost >= n)

=============================================================================
