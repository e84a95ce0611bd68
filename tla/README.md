# Verification of matrixserver

TLA+ models of the matrix server, of the application library and of the
transports between them; TLC configurations that check them on small
instances; and TLAPS proofs of what matters most for every value of the
constants.  Paths such as `Server.cpp:199` are relative to `src/` (the
directory is left out where the file name is unique).

Contents: 1 the system, 2 the modules, 3 the correspondence to the code,
4 the runs, 5 fairness, 6 the proofs, 7 where the code and its documents
disagree, 8 what is not modelled, 9 the plan.

## 1. The system

A LED matrix (a cube of panels, or a browser that simulates one) is driven by
one server process.  Applications are processes of their own: they connect to
the server, register, and send one frame after the other.  The application that
registered last is shown; the others are told to pause.

| Component | State | Operations | Interacts with |
|---|---|---|---|
| Server (`server/Server.cpp`, `App.cpp`) | the stack `apps`, `connections`, renderers, the default application's pid | `handleRequest`, the web client's callback, `tick`, `stopDefaultApp` | every connection, the renderers, the joysticks, child processes |
| Application library (`application/MatrixApplication.cpp`) | `appState`, `appId`, `frameAcked`, `screens`, the connection | `start`, `internalLoop`, `checkConnection`, `handleRequest`, `stop` | the server, the program's `loop()` |
| Socket connections (`common/SocketConnection.cpp`, `Cobs.cpp`) | write queue, `is_writing`, `dead`, the decoder's buffer | `sendMessage`, `handleWrite`, `handleRead` | both of the above, through callbacks |
| IPC connections (`common/IpcConnection.cpp`, `IpcServer.cpp`) | two message queues of ten places, a read thread each | `sendMessage`, the read loop, the handshake | both of the above |
| WebSocket renderer (`renderer/WebSocketSimulatorRenderer`) | `activeSession`, the write queue of each session | accept, `render`, `sendMessage`, close | browsers, the server's threads |
| Hardware renderers (FTDI FPGA, FPGA on SPI, RGB matrix) | a frame buffer; on SPI two queues of transfers and a thread | `render` under `try_lock` | devices |
| Main program (`server/main.cpp`, `ServerSetup.cpp`, `RendererFactory.cpp`) | the configuration, `g_shutdown`, the renderers | finding, making and checking a configuration; the tick loop, shutdown | the server, the renderers |
| Joystick (`common/Joystick.cpp`) | device, axes, buttons, presses of each slot; the simulator's state | refresh thread, getters, `clearAllButtonPresses`, `updateSimulatorState` | devices, the web client, the applications |
| Main menu (`MainMenu/mainmenu.cpp`) | the list shown, the selection | `loop` | the joysticks, the application library |
| Cube geometry (`application/CubeApplication.cpp`, `Screen.cpp`, `Color.cpp`) | the pixels of six screens | drawing, looking up points | the program's `loop()` |
| Animation parameters (`application/AnimationParams.cpp`) | a record for each parameter | registration, getters, setters, `applyUpdate`, schema and values | both threads of an application, through it the web client |
| Standalone application (`application/MatrixApplicationStandalone.cpp`) | `newFrame`, two sets of screens | main loop, render loop | the SPI renderer |
| Sensors, IMU | readings | polling threads | `loop()` |

Threads.  In the server: one io thread runs the handlers of all socket
connections; every IPC connection has a thread of its own; the WebSocket
renderer has an io thread; the main thread calls `tick` until `g_shutdown`.  In
an application: the main thread runs `internalLoop`, the io thread reads,
writes and handles.

What is hard here, and hardly reached by a test:

- The server decides under `appsMutex` and acts after unlocking
  (`Server.cpp:199-243`); a registration, a kill or a tick falls in between, and
  two threads may be in one renderer, whose second `try_lock` fails.
- Who was told to pause and who to resume depends on three handlers and `tick`,
  on the io thread, IPC threads and the main thread.
- The acknowledgement of a frame is a credit of one, taken by the application's
  main thread, given back by its io thread, and kept over pauses and reconnects.
- `appKill` makes the io thread join the main thread.
- Processes crash, connections are cut, applications reconnect; connections are
  swept separately from the apps that use them.
- The default application is forked, watched with `kill(pid, 0)`, reaped in one
  place and forgotten in others.
- The stream is cut anywhere by the reads, and writes are started by two
  different handlers.
- Browsers reload: a new session is there before the old one is seen to end.
- A full message queue blocks its sender, which may hold `appsMutex`.
- Three threads hand a picture from `loop()` to the cube with one flag, two
  buffers and no lock that both sides take.
- Presses are stored by one thread and tested and cleared by another, on slots
  that change between a device and the web client.
- Panels are addressed by three renderers that turn and place screens in their
  own ways; lines and shapes run over the ends of screens.

PROJECT.json lists each hazard at its line with the properties aimed at it, and
says of the others why there is none yet.

### What makes each component correct

- Server: a covered application is told to pause and never resumed while it is
  covered; the one that comes up is resumed; no thread shows a frame over an
  application it has registered since; all renderers show the same; applications
  whose connection died leave; the child process is never lost.
- Application library: it never draws without screens; `stop()` returns; it
  has at most one frame under way and gets its acknowledgement back.
- Both together: a covered application pauses in the end, one that stays on top
  draws again and again, nobody draws in the name of another.
- Socket connections: messages arrive unchanged, in order, once; two writes are
  never under way.
- IPC connections: a thread that waits with `appsMutex` goes on in the end.
- Joystick and menu: a press is acted on at most once, the selection is an item
  of the list, a slot follows its device.
- Geometry: a point lights the pixel it is on and no other; lines and shapes are
  the ideal ones cut off at the screen; no light is lost in blending.
- Setup: a default configuration lights every panel once; a layout that hides a
  screen is warned of.
- Standalone application: whole pictures, in order, each once; none is stuck.
- Animation parameters: what the web client reads, what `loop()` reads and what
  was set last are the same.
- WebSocket renderer: frames may be dropped for a slow browser, messages may
  not; what is queued is bounded; an ended session is never written to.

## 2. The modules

| Module | What it is |
|---|---|
| `Protocol` | message types, ids, the brightness of a frame |
| `ScreenArbiter` | abstract: what the server promises about the screen, with the threads that open applications and hold grants |
| `Server` | the server, implementing `ScreenArbiter` (`ImplementsArbiter`) |
| `MatrixApplication` | any number of application processes, each with two threads |
| `MatrixSystem` | `Server` and `MatrixApplication` as instances, joined by the two channels of each connection |
| `Cobs` | encoding, decoding and the stream decoder as functions |
| `SocketConnection` | one direction of a socket, from `sendMessage` to the receive callback; extends `Cobs` |
| `WsRenderer` | the renderer for browsers with its sessions |
| `IpcSystem` | `Server` and `MatrixApplication` as instances, joined by bounded message queues; the server's threads that wait, with or without `appsMutex` |
| `AnimationParams` | the parameters of an application; extends `MatrixApplication` |
| `Joystick`, `MainMenu` | the slots and their threads; the menu on top of them |
| `CubeGeometry`, `Color`, `CubeDrawing` | points and pixels, colours, and everything an application can draw |
| `ServerSetup` | configurations and where the renderers put the pixels of a screen |
| `Display` | `CubeDrawing` and `ServerSetup` in one state space |
| `FramePipe` | abstract: what a standalone application promises of its pictures |
| `Standalone` | the standalone application with the SPI renderer, implementing `FramePipe` |
| `MCServer`, `MCMatrixApplication`, `MCMatrixSystem`, `MCIpcSystem`, `MCSocketConnection`, `MCWsRenderer`, `MCCube`, `MCStandalone` | symmetry, views and values for TLC; `MCCube` holds `Display` and `MainMenu`, one or the other in a behaviour |
| `ServerProofs` | proofs about `Server`, first on any channel, then with applications on sockets |
| `ApplicationProofs`, `ConnectionProofs`, `RendererProofs`, `CubeProofs`, `StandaloneProofs` | proofs about `MatrixApplication` with `AnimationParams`, `SocketConnection`, `WsRenderer`, `Display` (`CubeDrawing` and `ServerSetup`) with `MainMenu`, and `Standalone` |
| `SystemProofs`, `IpcProofs` | proofs about `MatrixSystem` and `IpcSystem`; both use those about their two sides, as instances of `ServerProofs` and `ApplicationProofs` |

Some modules hold definitions headed "Fault variant of ...": a handler with a
plausible mistake in it.  No specification uses them.  Putting one in the place
of the handler must make TLC find the property named in PROJECT.json `mutants`
violated, which shows that the property depends on that code.

## 3. The correspondence to the code

PROJECT.json `map` names the lines of every definition.  The conventions:

**Locked sections are steps.**  What a handler does under `appsMutex` is one
step of `Server`.  What it does after unlocking is remembered in `job[t]` of its
thread and done by `FinishJob(t)`, one reply, one renderer or one forwarded
message at a time, so that anything may come in between.  A thread takes no new
message before its job is done.

**`apps` is a set of registration numbers.**  The vector grows at its end only,
and erasing keeps the order, so its order is that of the numbers and
`apps.back()` is the largest (`IsTop`).  `app[r]` keeps id, connection and state
after the App is gone, for the properties.  Ids come from an unchecked `rand()`:
with `DistinctIds = FALSE` registrations may collide, as in the code.

**Ghosts.**  `sent` is what the step just taken has sent, `told[r]` the last of
appPause and appResume sent about a registration, `job[t].top` the registration
that was on top when the frame in `job[t]` passed its check.  No guard reads them.

**Two threads in one renderer.**  An IPC connection's thread and the io thread
may both have an approved frame.  They write into the same screens, and
`setScreenData` and `render` of the FTDI renderer and `render` of the RGB
renderer leave without a word when `try_lock` fails.  `RenderFrame` therefore
chooses what the renderer shows from `Outcomes`: the thread's own frame or, if
others (`Rivals`) are due in the same renderer, one of theirs or what was there
before.  The acknowledgement is sent in any case, as in the code.

**`tick`** is three steps (joysticks and the kill button; the sections that
supervise the default application and erase dead apps; the sweep of
`connections`), because the others run between them.

**Children.**  `proc` is "none", "alive" or "zombie": `kill(pid, 0)` succeeds
for the last two, `waitpid` reaps.

**`MatrixApplication`.**  `mainAt` and `ioAt` are the program counters of the two
threads; `posted` is what was handed to the io_context and is not written yet.
`stop()` runs on whichever thread calls it: on the io thread it is
`Kill` followed by `JoinMainThread`, and between them that thread does nothing
else.  `io_context::run()` returns when the connection is dead and nothing is
left to write; after a reconnect a further `run()` is started beside the first
thread if that one still runs, and the model has one io thread for the two.

**`MatrixSystem`** conjoins one step of one side with the change it makes to the
channels.  A cut connection loses what is under way, each side notices by
itself, and what was already read is still handled.  While a connection lives
its channels lose nothing: that is what `SocketConnection` checks, up to the
limit of 100 queued messages, which this traffic does not reach (an application
has one frame under way).

**`SocketConnection`** has the bytes: the threads that call `sendMessage` post,
the io_context enqueues, `Written` is the completion of a write, `handleRead(n)`
takes any n bytes of the stream.  A block of COBS holds `MaxCode - 1` bytes, in
the code 254.  The code's loops over bytes are `Run(Step, st, input)`, a
recursive function, with one operator for the body of each loop: `EncodeByte`,
`DecodeByte`, `InsertByte`, and `ParsePacket` for the packets.  `decode` goes byte
by byte, too, and keeps how many bytes of the block are to come (`left`), which
is what the code's inner loop counts.

**`WsRenderer`.**  `render` and `sendMessage` copy `activeSession` under the
lock and post to it after unlocking: `TakeSession` and `PostToSession`.

**`IpcSystem`.**  A step of `Server` says in `sent` what it passes to
`sendMessage`.  If the queue it goes to is full, the message stays in `hand[t]`
of the thread, which does nothing else until there is room (`Put`); if the step
is a section under `appsMutex`, `holder` is that thread and no other thread
takes a step under the mutex.  An application's threads wait in the same way
with what is in `posted`.  Neither side learns that the other process has
ended: there is no failure to notice, and the queue stays.

**`AnimationParams`** adds the parameters' record to the steps of
`MatrixApplication` that handle them.  A record has a value of each type; only
that of its own is initialised, the others are any value.

**`Joystick`, `MainMenu`.**  `loop()` is four steps (selection, choice,
brightness, the end), because the refresh threads and the web client run
between them.  A getter that tests and resets a flag is one step.  Devices are
numbered, so that one that replaces another can be told from it.

**`CubeGeometry`, `CubeDrawing`.**  Floating-point arguments are fractions with
a fixed denominator: quarters for smooth pixels, twenty-fourths of the hue.  A
line in space is drawn by `LineStep`, one round of its loop, with the three
branches for the longest axis written as one: `err` of the longest axis is a
variable here that the code does not need.  Lines and circles on a screen are
drawn by tables of the rounds of the code's loops, `Pen` and `Arc`.  The glyphs of a text are full cells.

**`ServerSetup`** states for each backend which pixel its `render` puts into
which cell of the panels.  The bits on the wire are left out.

**`Standalone`.**  A picture is its number.  The SPI queue is a sequence of
transfers, as long as `SpiWriteQueueInit` makes it; a line, its command and the
swap are the FPGA's, which is not in the repository.

Left out of the data: pixels outside of `CubeDrawing`, labels and ranges of
parameters, sensor values, logging.

## 4. The runs

| Run | Instance | Distinct states | What it shows |
|---|---|---|---|
| `server_stack` | 2 sockets, 3 registrations, 2 renderers, 2 brightness levels, registrations, frames and kills about any app | 0.8 M | covered apps are told to pause, the app that comes up is resumed in the same section, the renderers agree between frames, no child process is lost |
| `server_paint` | 1 message queue and 1 socket, 2 registrations, 1 renderer | violation | a frame over a new application, see 7 |
| `server_pause` | 2 sockets, 2 registrations | violation | a stale pause, see 7 |
| `application_alone` | one application with one parameter, a server that may send anything at any time | 0.4 M | drawing only with screens; schema, values and what was set agree; `stop()` returns except in two ways |
| `system_flow` | 2 applications, the kill button when both are on the server, also before the second one has its id | 86 k | the covered one pauses in the end, the one that stays on top draws again and again, one that answers appKill leaves the stack, with two exceptions (see 7) |
| `system_one` | 1 application over 2 connections: ticks, cuts and reconnects, crashes, kill button, throwing and ending loops, the web client | 0.4 M | one frame under way, acknowledgements lost in the named ways only, frames in one's own name over a reconnect |
| `system_top` | 2 applications, the kill button | violation | a lost acknowledgement, see 7 |
| `ipc_system` | 1 application over message queues of 1 place, others on sockets, all drawing, 3 registrations; the kill button, a crash, the web client | 94 k | an approved frame is of the app that was on top at the check, and what has come above it was registered by another thread; `ScreenArbiter` is implemented; whoever waits with `appsMutex` goes on unless nobody will read that queue; resume is never the last word to a covered app; the covered one pauses, however replies and pauses overtake one another |
| `socket` | 3 messages that need one byte, a full block at the end, a full block before a zero; blocks of 2 bytes, a write queue of 1, reads of up to 4 bytes, 4 messages sent | 53 k | order, integrity, one write at a time, nothing accepted is lost unless the connection fails; decoding undoes encoding for all strings of up to 5 bytes |
| `web_renderer` | 2 sessions, 3 calls, frames dropped when more than 1 is queued | 0.6 M | the queue is bounded, no message dropped, messages arrive |
| `cube` | a cube of 4 by 4 pixels, everything drawn everywhere; every backend with every file and each screen of two layouts edited; the menu with 2 slots, one of them with a device that comes and goes, and 1 program | 0.3 M | lines, shapes, smooth pixels and hues are what they should be, the geometry's functions agree, panels are complete, overlaps are warned of; the selection is in the list, one choice for a press, a slot follows its device |
| `standalone` | screens of 2 rows, 5 pictures, pauses, stop, failing transfers | 0.1 M | `FramePipe` is implemented, every picture is shown or lost |

### Bounds, and why they are enough

- `MaxRegs`: 3 registrations give a top app, one it covers and one below that;
  when one of them leaves, only the last of the others is treated differently.  In
  `MatrixSystem` 2 registrations are two applications, or one and its
  reconnect.  `server_paint` has 2, one for each thread: the app that
  renders and the one that comes above it.  `Server` itself is not
  bounded otherwise: ids, connections and ticks go on.
- `IpcConns`: empty in `server_stack` and the runs of `MatrixSystem`, whose
  questions are about applications on sockets, served by one io thread.  In
  `ipc_system` the io thread and an IPC thread register and draw, so that every
  step of one may fall between any two of the other; so they do in
  `server_paint`.
- `DistinctIds`: TRUE in the runs.  The theorems that name no such assumption
  are proved for colliding ids as well.
- `Conns`: a connection object that nobody holds any more is used again as a
  new one, so two stand for any number, two at a time.  In `MatrixSystem` a
  connection is named after its process and numbered, `MaxConns` at most: 2 for
  a reconnect, 1 where cuts are not the question.
- `NRenderers`: 2 where the order between renderers matters; 1, as in simulator
  mode, in `MatrixSystem`, because with two renderers every frame is
  acknowledged twice (the reply is sent per renderer, `Server.cpp:221-225`) and
  the window is not one.
- `MaxPosted` bounds what the environment of `application_alone` provokes; 0 in
  `MatrixSystem`, where the server is its own environment.  `MaxUnread` stops
  the web client and the kill button, and nobody else, while that many messages
  are unread.
- `Alphabet` and `Events` select messages and events for an instance.  Each is
  used by some passing run, and each property is checked with those that can
  disturb it.  In `ipc_system` the kill button, the web client and a crash wait
  for the last registration (`AllRegistered`), and the button for an application
  on a queue that runs on top; in `MatrixSystem` it waits until every process
  has an application on the server and, except in `early`, nobody has anything
  unread (`MayPress`).  `early` is in `system_flow`: the kill button between a
  registration and its reply (`ReplyIsDue`).
- `MaxCode`, `MaxStream`, `QueueLimit`, `RecvBuffer`, `MaxSent`: small enough
  that a message is longer than a block, the queue is full and a read returns a
  part of a message or more than one.  `MaxStream` is the decoder's limit of
  1 MB in the code, and, like there, no message comes near it.
- `QueueSize` is 10 in the code.  With 1 a queue is full as soon as anything is
  in it, so that every order of waiting happens; with 2 (checked by hand, two
  registrations) nothing else was found.  `MaxAsked` stops the web client, and
  nobody else, while that many of its questions are unread.
- `NSlots`, `MaxPlugs`, `MaxInputs`: a slot with a device and one without; the
  device comes back once; enough inputs for a press on each and one while the
  menu changes its list.
- `N` is 64 in the code.  4 has pixels at corners, at edges and inside, and
  centres of every parity; coordinates go beyond the screen on both sides.
  `LineFollowsIdeal` and `ShapesClipToScreen` are proved for every size.
- `MaxPictures`: two buffers, one picture being copied and one being drawn make
  four; 5 comes back to the first buffer.  2 rows of a screen give each half of
  the cube's lines more than one.
- `MaxFrames` is 2 in the code; 1 makes the limit met within 3 calls.

Symmetry is used for connections, which are interchangeable, and in no run with
a liveness property.  Liveness is checked on smaller instances than safety: its
cost is a multiple of the states.  A `VIEW` leaves out variables no guard
reads and no property of that run depends on (`sent`, the schema flag and state
the server keeps per app, the schema panel of the web client; in `ipc_system`
`shown`, in `cube` the half that rests).  Action
properties that mention `sent` or `shown` are evaluated on each step TLC takes, before its
target is looked up in the view.

### Deadlock

It is checked except where the system really may stop, or the instance does:
`application_alone` (the join described in 7 is a deadlock of the process, and a
process may end), `system_flow` and `system_top` (no tick is in those
instances), `ipc_system` (a process that crashed never reads its queue again, and
the threads jam as described in 7), `standalone` (all pictures are drawn), `socket` and `web_renderer` (all sends are used up, the connection
is broken, the sessions are over).

## 5. Fairness

- `MatrixApplication!FairSpec`: both threads are scheduled.
- `MatrixSystem!FairSpec`: the threads of both sides are scheduled and a live
  connection delivers.  `ServerReceives(c)` is strongly fair because the
  connections share the io thread: a connection's handler is enabled only
  between the jobs of others, and `io_context` runs what is ready in turn.
- `IpcSystem!FairSpec`: every thread is scheduled; `Put`, the server's handlers,
  its main loop and an application's sends are strongly fair, because what they
  need, the mutex or a place in a queue, may be taken by another before they
  get it, again and again: neither the mutex nor the queues' condition
  variables let one that waits starve.
- `MainMenu!MenuFairness`: the refresh threads of the slots.  Nothing is assumed of
  the menu itself.
- `Standalone!FairSpec`: the three threads.  Whoever pauses it need not resume
  it, and transfers may fail whenever they are under way.
- `SocketConnection` and `WsRenderer`: the io threads run what is ready; a read
  from a browser that is gone fails in the end.

Nothing is assumed of crashes, cuts, the kill button, the web client, the
program's `loop()` and of when anybody sends.  Without fairness nothing has to
happen, and no liveness property is claimed.

## 6. The proofs

Every theorem holds for all values of the constants allowed by the modules'
assumptions, in particular for any number of connections, registrations and
renderers.

| Theorem | Of | Assumes | Inductive invariant |
|---|---|---|---|
| `ServerProofs!TypeCorrect` | `TypeOK` | | itself |
| `ServerProofs!NeverResumed` | `CoveredNeverResumed` | | `NeverResumedInv`: with `TypeOK` and `Numbered`, because a new registration comes on top only if its number is larger than all before |
| `ServerProofs!NoChildLost` | `DefaultAppTracked` | | `TrackedInv`: with `TypeOK` |
| `ServerProofs!CoveredIsTold` | `CoveredToldToPause` | sockets, distinct ids | `SocketInv` |
| `ServerProofs!OnlyOthersCover` | `OnlyOthersCoverApproved` | | `ApprovedInv` |
| `ServerProofs!WhoComesUpIsResumed` | `UncoveredTopIsResumed` | distinct ids | `OwnInv` |
| `ServerProofs!AgreeBetweenFrames` | `RenderersAgree` | sockets | `FramesInv` |
| `ServerProofs!ServerImplementsArbiter` | `ImplementsArbiter` | | `TypeOK` and `Numbered` |
| `ApplicationProofs!TypeCorrect` | `TypeOK` | | itself |
| `ApplicationProofs!DrawsWithScreens` | `DrawsOnlyWithScreens` | | `ScreensInv` |
| `ApplicationProofs!PostsRequests` | `OnlyRequests`: a process posts only what the server handles | | itself, with `TypeOK` |
| `ApplicationProofs!AnswersAreWanted` | `AnswersFollowSchema` | | `ParamsInv` |
| `SystemProofs!TypeCorrect` | `TypeOK` | | itself |
| `SystemProofs!WindowStaysOne` | `WindowOfOne` | one renderer | `WindowInv` |
| `SystemProofs!NoCreditIsLost` | `CreditLostOnlyByRefusal` | one renderer | `WindowInv` |
| `SystemProofs!FramesStayOwn` | `FramesAreOwn` | | `OwnInv` |
| `SystemProofs!ServerIsAsAlone` | `Server!Spec`: the composed system implements `Server` | | `RequestsInv` |
| `SystemProofs!ServerKeepsItsWord` | `CoveredToldToPause`, `OnlyOthersCoverApproved`, `RenderersAgree` and `DefaultAppTracked` of its server | | by `ServerIsAsAlone` |
| `SystemProofs!WhoComesUpIsResumed` | `UncoveredTopIsResumed` of its server | | by `ServerIsAsAlone` |
| `SystemProofs!SystemImplementsArbiter` | `ScreenArbiter` | | by `ServerIsAsAlone` |
| `IpcProofs!TypeCorrect` | `TypeOK` | | `IpcInv` |
| `IpcProofs!ServerIsAsAlone` | `Server!Spec` | | `IpcInv` |
| `IpcProofs!NeverResumed` | `CoveredNeverResumed` | | by `ServerIsAsAlone` |
| `IpcProofs!OnlyOthersCover` | `OnlyOthersCoverApproved` | | by `ServerIsAsAlone` |
| `IpcProofs!WhoComesUpIsResumed` | `UncoveredTopIsResumed` of its server | | by `ServerIsAsAlone` |
| `IpcProofs!IpcImplementsArbiter` | `ImplementsArbiter` | | by `ServerIsAsAlone` |
| `ConnectionProofs!OneWrite` | `OneWriteAtATime` | | `WriteInv` |
| `ConnectionProofs!TypeCorrect` | `TypeOK` | | `TypeOK`, `WriteInv` |
| `ConnectionProofs!CodecIsFaithful` | `RoundTrip(n)` for every n, and with `CodecAlways` the run's `CodecRoundTrip` | | by induction over the string |
| `ConnectionProofs!StreamKeepsOrder` | `HandledInOrder` | `MessagesFit` | `StreamInv` |
| `ConnectionProofs!StreamKeepsLimit` | `BufferHoldsOneMessage` | `MessagesFit` | `StreamInv` |
| `RendererProofs!OneWriteToEach` | `OneWriteAtATime` | | `Inv` |
| `RendererProofs!FewFramesQueued` | `FramesBounded` | | `Inv` |
| `RendererProofs!MessagesAreKept` | `NoMessageDropped` | | `Inv` |
| `CubeProofs!PointsStayOnScreen` | a lemma on `Lit` and `getPointOnScreen` | | |
| `CubeProofs!LinesFollowIdeal` | `LineFollowsIdeal` | | `LineInv` |
| `CubeProofs!QueriesAgree` | `SurfaceQueriesAgree` | | `QueriesInv` |
| `CubeProofs!HuesFollowWheel` | `ColorWheel` | | `WheelInv` |
| `CubeProofs!SmoothPixelsKeepLight` | `SmoothKeepsLight` | | `SmoothInv` |
| `CubeProofs!ShapesAreClipped` | `ShapesClipToScreen` | | `ShapeInv` |
| `CubeProofs!PanelsAreComplete` | `PanelsComplete` | | `SetupInv` |
| `CubeProofs!OverlapsAreWarned` | `OverlapIsWarned` | | `SetupInv` |
| `CubeProofs!SelectionStaysInList` | `SelectionInList` | | `MenuInv` |
| `CubeProofs!ChoicesArePresses` | `OneChoicePerPress` | | `MenuInv` |
| `CubeProofs!MenuTypes` | `MenuTypeOK` | | `MenuInv` |
| `StandaloneProofs!ImplementsPipe` | `ImplementsFramePipe` | | `Inv` |

Why the invariants say more than the properties:

- **`SocketInv`** is `TypeOK`, `Numbered` (the open apps are among those
  registered), `OwnIds`, `JobsCurrent`, and the property.  "A covered app
  was told to pause" is not inductive alone: the success reply to
  `registerApp`, which follows in a step of its own, would undo it if it
  could concern a covered app; `JobsCurrent` says that it is about the last
  registration, which holds because one io thread runs both.  A closed app
  uncovers the last of those that remain, which exists because the stack is
  finite (`LastExists`, from a well-founded order on the naturals), and
  `resumeTopApp` addresses it alone.  Handlers compare ids: that they then mean
  one app needs `OwnIds`, hence distinct ids.
- **`ApprovedInv`** adds to `OnlyOthersCoverApproved` that a frame was approved for
  an app registered by then (`job[t].top <= registered`): the next registration
  is above it and cannot be it, and whoever makes it has no job, so it is another
  thread (`ApprovedStep`).  Nothing is assumed: threads, ids and connections
  are any.
- **`OwnInv`** of `ServerProofs` is what `SocketInv` and `WhoComesUpIsResumed`
  share: types, `Numbered` and `OwnIds`.  Who is resumed is decided under the
  lock, so this theorem needs no sockets.
- **`FramesInv`** says how far the frame being rendered has got: the renderers
  below `todo` show the new frame, the rest agree on the former one.
- **`ScreensInv`** says that running is not reached without screens: the states
  running and paused, between which `appPause` and `appResume` move, are entered
  only after `getServerInfo`.
- **`WriteInv`** adds to the property that `is_writing` is a Boolean and that the
  queue is a sequence of something, which is all that appending to it and taking
  its head need.
- **The codec** is proved by induction over the string.  The library's induction
  theorems take a predicate as a parameter, which the provers cannot
  instantiate; `SeqInduct` says the same with the *set* of the strings that a
  fact holds for, from the least-number principle.  `LoopExists` shows that
  a loop over a string has a value, one step per element, and `EncodeLoop`,
  `DecodeLoop`, `InsertLoop` and `ParseLoop` that `Run` is this value for the
  four bodies.  The invariant of the encoding loop is `Faithful`: the finished
  blocks, decoded, and the block that is being filled are what was read; that the
  open block is never full (`EncodeStates`) makes the last block one that is not,
  so that the zero which `decode` takes off at the end is there.
- **`StreamInv`** says that the messages the receiver has handled, with those it
  would find if it read all that is left of the stream, are the first w that
  entered the queue; that the queue holds the others, encoded, while the
  connection is whole; and that wherever one stops reading, at most the beginning
  of one message is in the buffer (`Beginnings`).  A write moves w by one
  (`WrittenCarries`, with `OnMessage`: a whole message leaves the buffer
  empty).  A read changes neither, because two reads find what one would have
  found (`InsertCut`).  The hypothesis `MessagesFit` - a full read fits the
  decoder's limit beside an incomplete message - is what keeps the
  decoder from throwing its buffer away; the code has 200000 and 1048576 bytes,
  and `MCSocketConnection` assumes it of an instance where it is tight.
- **`LineInv`** says of every axis that there is a number m of points it has
  moved, that its position is m points from the start towards the end, and that
  `err` is `2 D (i + 1) - L (2 m + 1)`, D being the distance along the axis and
  L along the longest one, with `err` within its bounds: half a point off the
  ideal course is what these bounds say.  A step moves the axis exactly if `err`
  is positive (`StepKeepsCourse`); after L steps m can only be D.
- **`QueriesInv`**, **`WheelInv`** say what the screens show after one point or
  one colour was drawn: the first needs that the screens were dark before, which
  is what `Clear` leaves.  That the queries then agree is geometry: the search
  through the patterns finds one exactly if the point is on a plane, on two, on
  three (`SurfaceIsPlanes`, `EdgeIsTwoPlanes`, `CornerIsThreePlanes`), and
  the pixel looked up exists exactly if it is on one (`PixelOfOnePlane`).
  For the wheel, the six sectors are compared with one formula
  (`SharesOfHue`).
- **`SmoothInv`** says the same of a smooth pixel.  On a plane of the cube it has
  at most four neighbours (`CornersAreQuad`), each of which lights a pixel of
  its own (`CornerPoint`, `OnePointLights`) and gets its share of 64
  (`GetsAre`, `SmoothPixel`); the shares make 64 (`GetsType`), so rounding
  takes less than one from each (`FourShares`).  `Total` is a fold over the lit
  pixels; that it is the sum of the four (`TotalOfFour`) takes an induction over
  sets of pixels, from the least-number principle again.
- **`ShapeInv`** says what the screens show after a shape: what the loops painted,
  cut at the screen's border (`PaintedPlaces`, `DrawnPlaces`).  The loops are
  tables of their rounds, `Pen` of a line and `Arc` of a circle; that a table
  exists and follows its law (`StepsExist`, `PenIs`, `ArcIs`, `TextIs`) comes
  from the least-number principle.  Each shape has its own argument:
  - *Line.*  A round moves the pen one point along the longer axis, and the other
    axis stays within half a point of the ideal course (`PenAlongX`,
    `PenAlongY`, `LineAlong`).  The pen thus reaches the end, after as many
    rounds as the distance, and paints what `LineIsLine` says.
  - *Rectangle.*  Its lines are straight, and a straight line is an interval
    (`StraightLine`); four of them are the border (`RectIsBorder`), one for
    each row the filled one (`RectIsFilled`).
  - *Circle.*  The error is `x*x - 2x + y*y + 2y + 1 - r*r + r` in every round
    that draws (`OnArc`, `OnArcStays`).  Each distance up to r is the x or the y of
    such a round (`EveryDistance`), so no column is left out (`CircleIsCircle`).
  - *Text.*  Each character stands right of the one before or on a later line
    (`Later`), so no two share a cell.  All stand on a grid
    (`CharactersOnGrid`), and the points are counted through a bijection
    (`CellsCount`, `TextCount`).
  - *Random pixel.*  The one point it lights, if any, is the screen's own
    (`RandomOnScreen`).
- **Refinement.**  `ServerImplementsArbiter` shows that the initial state maps to
  an initial state and that each step maps to a step of `ScreenArbiter` or to a
  stutter: a registration to `Open`, kills and dead connections to `Close`, the
  check for the top app to `Grant`, a renderer's turn to `Show`.  The mapping is
  `stack <- apps`; `opener` is the thread that registered an app, `grant` the id
  of the frame a thread renders, `left` the renderers where it has not been.  A
  thread that renders takes no message, so it opens nothing (`ArbiterPush`);
  other threads do, while it holds its grant, and close apps.  What `Show` may
  leave on a renderer are the `Outcomes`, each of them granted before
  (`ArbiterRender`).  Neither sockets nor distinct ids are assumed, and
  `IpcImplementsArbiter` carries it to the server whose threads wait for places
  in full queues.

- **`ParamsInv`** adds to `AnswersFollowSchema` the types and that a schema was
  sent only after `start()`, which is called once (`StartedStays`), so that no
  parameter is registered with another type afterwards.
- **`WindowInv`** is `WindowOfOne` and `Base`, what is true of connections that
  do not exist yet: they are empty and nobody knows them, so a process that
  reconnects finds no old frame in them; a process that has not connected has
  done nothing; the server sends only its own messages; and a process sees a
  dead connection only after it was cut.  The proof splits the credits of a
  process (`CreditsAre`) into those it holds and those under way on its
  connection, and shows of each step that it moves one from here to there
  (`ServerKeepsCredits`, `OwnKept`, `OthersKept`,
  `AccidentKeepsCredits`).  That a frame
  becomes one acknowledgement and not one per renderer is what takes
  `NRenderers = 1`; without it the property is false (see `NRenderers` in
  section 4).  The same lemmas tell which steps lose a credit, which is
  `NoCreditIsLost`.
- **`OwnInv`** says of each id on its way from the server to a frame - in the
  job that replies, in the reply, in the process, in its posted messages and
  on the connection - that it was given out, and to this connection if its app
  is still there (`Mine`).  Later registrations get later numbers, so it is
  never undone; a process that may draw, or has asked for the screens
  (`Active`), has such an id, because it gets there only by the reply.  The
  property is about frames alone, and none of these steps is about a frame.
- **Composition.**  `RequestsInv` and `IpcInv` say that all that waits for the
  server is what an application posts: requests, with a brightness in frames
  alone.  That is all `Server` assumes of its input, so every step of the
  system is one of `Server` or leaves its variables unchanged, and
  `Spec => Server!Spec`.  What is proved of `Server` then holds in the system
  by instance.  A reader may take this as the check that `Server`, which lets
  any request arrive at any time, leaves nothing out that real processes,
  reconnects, lost and delayed messages, full queues and waiting threads bring
  about.  In `IpcSystem` this takes that a step sends one message at most
  (`OneMessage`), since a thread that finds a queue full keeps it in its hand.

- **`Inv` of `RendererProofs`** adds to the three properties, besides types, that
  a session not yet accepted is known to no caller and has empty queues, so that
  accepting one finds nothing in it; and that `is_writing_` says whether the
  queue is empty also after a failed write, so that nothing is started then.
  What is counted changes by one when something is appended or taken off
  (`AmountAppend`, `AmountTail`, from the library's facts on cardinalities).
- **`SetupInv`** says that the configuration and the files are empty or have an
  entry for each screen, with whole offsets and one of the four rotations: an
  edit by hand changes entries and adds none.  A coordinate of a cell tells the
  panel and the pixel on it (`CellOnPanel`), so two pixels in one cell come from
  screens with the same offsets, which is what the warning looks for.  For a
  default configuration, turning keeps the pixels of a screen
  (`TurnedKeepsPixels`, `TurnedApart`), and the table of its backend puts one
  screen on each panel (`DefaultPanels`): this is checked entry by entry, the
  size of the screens is arbitrary.
- **`MenuInv`** counts the presses that wait in the slots, those of the devices
  and those of the simulator's states apart: with the choices made they are at
  most the presses so far.  A press adds one to one slot (`MovedCounts`), a
  choice takes one from one slot (`ButtonGetter`), the rest only takes away: so
  a slot may change sides, be reset, or keep a press for the next list.  That the
  selection stays in the list takes that the sum over the axes is a number
  (`AxisPressType`), which is an induction over the slots.
- **`Inv` of `StandaloneProofs`** says which picture each stage holds: the
  screens have `drawn` (and `drawn + 1` on those already painted), the render
  thread takes `Taken`, spiThread writes `Sending`, and what was last shown or
  lost is that or the one before.  `newFrame` excludes painting while the screens
  are copied, the join excludes filling while spiThread still writes.  How far
  the transfers have got decides which lines the FPGA has of the new picture;
  all of them when the swap comes, so the cube changes as a whole.  The step maps
  are then `LoopReturns` to `Finish`, the swap to `Show`, a failed transfer to
  `Lose`, and all others to a stutter.

Model-checked only, on the instances of section 4:

- all liveness properties (`MutexIsReleased`, `JoinReturnsOrIsStuck`,
  `KilledAppLeaves`, `CoveredAppPauses`, `TopAppDrawsAgain`,
  `AcceptedIsHandled`, `MessageArrives`, `SlotFollowsDevice`,
  `PictureIsShown`), which like `ENABLED` are beyond TLAPS.

## 7. Where the code and its documents disagree

- **A stale pause** (`server_pause`, `Server.cpp:199`, `236`).  A frame is refused
  under the lock because its app is covered; before the refusal's `appPause` is
  sent, `tick` removes the app above and sends `appResume`.  The pause comes
  second: the app on top is paused and nothing resumes it.  The comment at
  `Server.cpp:195-196` names the apps to be paused as those "which aren't on top
  any more".
- **A lost acknowledgement** (`system_top`, `Server.cpp:236`).  A refused frame is
  not acknowledged and nothing else restores `frameAcked`: an application that
  was covered while its frame was under way is resumed and waits forever.
  `CreditLostOnlyByRefusal` shows that this, an exception of `loop()`
  (`MatrixApplication.cpp:134-150`), and a lost connection are the only ways.
- **A frame over a new application** (`server_paint`, `Server.cpp:199`, `207`).  The
  top app is looked at under the lock and its frame rendered after giving it up.
  An application that registers over a message queue, on a thread of its own
  (`Server.cpp:65`, `123-124`), in between has made the top app pause "to make
  room for new app" (`Server.cpp:166-168`), and is painted over by that app's
  frame.  It lasts until the new application's first frame.  `ScreenArbiter` says
  how far this goes: one picture of each other thread, granted before.  With
  applications on sockets alone it does not happen.

Two more ways to get stuck are part of the passing properties, because no
document says otherwise: `stop()` on the io thread waits for a main thread that
waits for an acknowledgement only the io thread can take, and
`checkConnection` may overwrite `killed` with `failure` so that the main thread
goes on (`JoinReturnsOrIsStuck`).

The models show more that no document contradicts, or that is the repository's
own choice; it is recorded here for whoever works on that code:

- *Server.*  `kill(pid, 0)` succeeds for a default application that has exited
  and was not waited for: with an empty stack it counts as alive and is not
  started again (`Server.cpp:344`).
- *A kill answered with id 0.*  The reply to `registerApp` is sent after unlocking
  (`Server.cpp:175-180`); `tick` may send `appKill` to the new app before
  (`Server.cpp:327-334`).  The application answers with the `appId` it has, 0
  (`MatrixApplication.cpp:234`), and stops; the server logs "appKill 0
  successful" (`Server.cpp:276-277`) and erases nothing.  `main()` of `MainMenu`
  sleeps on, so its connection stays, and `tick` never takes the app from the
  stack.  The same happens with the id of before a reconnect.  It is reached in
  `system_flow`, where `KilledAppLeaves` excepts these answers and is violated
  without the exception.
- *Browser.*  The end of any session resets `activeSession`, the new one's
  included (`WebSocketSimulatorRenderer.cpp:67-70`).
- *Two threads in a renderer.*  The second of two threads fails `try_lock` and its
  frame is dropped, though acknowledged (`FPGARendererFTDI.cpp:43`, `52`,
  `RGBMatrixRenderer.cpp:59`); with several renderers they may differ until the
  next frame.
- *Message queues.*  A process that ended, or whose read thread joins its main
  thread, does not read its queue.  Once that is full, the thread of the server
  that writes to it waits for good, and if it holds `appsMutex` (resume, pause,
  forwarding the web client's questions) so does the whole server.  Without any
  failure three threads can wait for each other: the web client asks an
  application faster than it answers, the application's read thread waits for
  a place in the queue to the server, whose handler waits for `appsMutex`,
  which the web client's thread holds while it waits for a place in the queue
  to the application.  `MutexIsReleased` excepts exactly these.
- *Menu.*  What is pressed while another application is on top is still stored
  when the menu resumes, and acted on.  A device that could not be opened is
  never tried again, one that was replaced within a tenth of a second is not
  noticed, and a slot that had a device never goes back to the simulator's
  state.  `axisPress_` is not initialised.
- *Drawing.*  `drawText` starts the second line of a centred or right-aligned
  text at the alignment's number (-1 or -2); `drawRectCentered2D` takes half the
  width for the lower edge; `Color::operator*=` keeps blue from becoming
  negative by looking at red, as `tests-color.cpp` notes; points on the rim
  between two screens light nothing.
- *Setup.*  The simulator's default configuration always triggers the warnings;
  a configuration written for another backend is read without one; the FTDI
  renderer ignores `offsetY`, so that an overlap the check lets by is possible,
  and does not check `offsetX`; a configuration that cannot be parsed leaves no
  screens.
- *Standalone.*  `stop()` waits until `loop()` returns false, since the main loop
  has no interruption point: paused, it waits for good.  A failed transfer is
  only logged.
- *Parameters.*  Values are not held to their range or options; an update that
  carries another type's field sets the default; a getter of another type reads
  a field nobody set.
- *Application.*  `getServerInfo` sets `running` whatever the state was, also
  after `killed`.

## 8. What is not modelled

- The data race on `axisPress` and `buttonPress` beyond losing a press: each
  getter is a step.
- `connections` is a vector that the io thread and the IPC threads push to and
  the main thread sweeps without a lock (`Server.cpp:150`).  The model takes
  each access as a step; what the data race may do to the vector is not in it.
- A picture that two threads have mixed, screen by screen, counts as one of
  theirs.  Whether two threads meet in a renderer is judged at the end of each
  `render`: with three threads or more, a frame of one that has left may in the
  code still stay on the renderer after the last.
- `Display` cuts a pixel whose offset leads out of the panels; in the code it is
  written beyond the command buffer.
- IMU and sensors, the bits the hardware renderers write, gamma and brightness:
  device I/O.  Fonts, the FTDI library, the
  test framework, containers and scripts: data, third-party code, deployment.
- The default application is one of the processes in `MatrixSystem`; forking,
  reaping and the shutdown are in `Server` alone.
- Unix sockets share the code of `SocketConnection`; the server's listener for
  them is commented out.

## 9. The plan

Done, in this order: the core (`Protocol`, `Server`, `MatrixApplication`,
`MatrixSystem`), its abstract specification and proofs, the socket transport,
the browser renderer; the menu and the joysticks, drawing and geometry, the
setup, the parameters, the standalone application with its abstract
specification, the message queues.

Next, in order of what they are worth:

1. **`UniversalConnection`**: an abstract connection (messages accepted are
   handled in order, each once, a prefix of them when it fails), implemented by
   `SocketConnection` and by the queues of `IpcSystem`.
2. Brightness and gamma of the hardware renderers.
3. Sensors and IMU: their polling threads and the values they share.

Runs are merged rather than added where two modules ask the same kind of
question or share no state (`cube`), so that the whole set stays quick enough to
be run on every change.
