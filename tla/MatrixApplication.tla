-------------------------- MODULE MatrixApplication --------------------------
(***************************************************************************)
(* The application library (application/MatrixApplication.cpp): for each   *)
(* application process, the main thread that draws and sends frames        *)
(* (internalLoop) and the io thread that handles the server's messages     *)
(* (handleRequest) and writes what was posted to the io_context.           *)
(*                                                                         *)
(* A frame is sent only after the previous one was acknowledged: the main  *)
(* thread waits for frameAcked, which the io thread sets.  appState is     *)
(* read and written by both threads without a lock.                        *)
(***************************************************************************)
EXTENDS Protocol, Sequences

CONSTANTS
  Clients,      \* application processes
  MaxPosted     \* bound: posted messages beyond which nothing more arrives

ASSUME ClientAssumption == MaxPosted \in Nat

VARIABLES
  appState,     \* MatrixApplication::appState
  appId,        \* MatrixApplication::appId
  frameAcked,   \* MatrixApplication::frameAcked
  screens,      \* how often the server's screens were appended; 2 is several
  mainAt,       \* where the main thread is
  looping,      \* the main thread's variable running
  ioAt,         \* what the io thread does: runs io_context, joins, or ended
  posted,       \* messages posted to io_context and not yet written
  connDead      \* connection->isDead()

threadVars == <<mainAt, looping, ioAt>>
vars == <<appState, appId, frameAcked, screens, mainAt, looping, ioAt, posted,
          connDead>>

AppStates == {"starting", "running", "paused", "killed", "failure"}
MainSteps == {"off", "started", "head", "wait", "draw", "check", "conn", "over"}

TypeOK ==
  /\ appState \in [Clients -> AppStates]
  /\ appId \in [Clients -> Ids]
  /\ frameAcked \in [Clients -> BOOLEAN]
  /\ screens \in [Clients -> 0..2]
  /\ mainAt \in [Clients -> MainSteps]
  /\ looping \in [Clients -> BOOLEAN]
  /\ ioAt \in [Clients -> {"run", "join", "stopped"}]
  /\ posted \in [Clients -> Seq(Message)]
  /\ connDead \in [Clients -> BOOLEAN]

\* Constructed: connected, not yet started.
Init ==
  /\ appState = [a \in Clients |-> "starting"]
  /\ appId = [a \in Clients |-> 0]
  /\ frameAcked = [a \in Clients |-> TRUE]
  /\ screens = [a \in Clients |-> 0]
  /\ mainAt = [a \in Clients |-> "off"]
  /\ looping = [a \in Clients |-> TRUE]
  /\ ioAt = [a \in Clients |-> "run"]
  /\ posted = [a \in Clients |-> <<>>]
  /\ connDead = [a \in Clients |-> FALSE]

Post(a, ms) == posted' = [posted EXCEPT ![a] = @ \o ms]

Goto(a, step) == mainAt' = [mainAt EXCEPT ![a] = step]

-----------------------------------------------------------------------------
(***************************************************************************)
(* start(): register, then create the main thread.                         *)
(***************************************************************************)
Start(a) ==
  /\ mainAt[a] = "off"
  /\ Goto(a, "started")
  /\ Post(a, <<Msg("registerApp", 0)>>)
  /\ UNCHANGED <<appState, appId, frameAcked, screens, looping, ioAt, connDead>>

CreateMainThread(a) ==
  /\ mainAt[a] = "started"
  /\ Goto(a, "head")
  /\ UNCHANGED <<appState, appId, frameAcked, screens, looping, ioAt, posted,
                 connDead>>

(***************************************************************************)
(* internalLoop, on the main thread.                                       *)
(***************************************************************************)
LoopHead(a) ==
  /\ mainAt[a] = "head"
  /\ Goto(a, IF appState[a] = "running" THEN "wait" ELSE "check")
  /\ UNCHANGED <<appState, appId, frameAcked, screens, looping, ioAt, posted,
                 connDead>>

\* Fault variant of TakeAck: frameAcked is not reset.
TakeAckKept(a) ==
  /\ mainAt[a] = "wait"
  /\ frameAcked[a]
  /\ Goto(a, "draw")
  /\ UNCHANGED <<appState, appId, frameAcked, screens, looping, ioAt, posted,
                 connDead>>

TakeAck(a) ==
  /\ mainAt[a] = "wait"
  /\ frameAcked[a]
  /\ frameAcked' = [frameAcked EXCEPT ![a] = FALSE]
  /\ Goto(a, "draw")
  /\ UNCHANGED <<appState, appId, screens, looping, ioAt, posted, connDead>>

\* loop() returns whether to go on; renderToScreens sends the frame anyway.
Draw(a) ==
  /\ mainAt[a] = "draw"
  /\ \E more \in BOOLEAN : looping' = [looping EXCEPT ![a] = more]
  /\ \E level \in Levels :
       Post(a, <<[Msg("setScreenFrame", appId[a]) EXCEPT !.level = level]>>)
  /\ Goto(a, "check")
  /\ UNCHANGED <<appState, appId, frameAcked, screens, ioAt, connDead>>

\* An exception of loop() is caught and logged: back to the head, no frame.
LoopThrows(a) ==
  /\ mainAt[a] = "draw"
  /\ Goto(a, "head")
  /\ UNCHANGED <<appState, appId, frameAcked, screens, looping, ioAt, posted,
                 connDead>>

\* Fault variant of TestKilled: the loop does not look for killed.
TestKilledForgotten(a) ==
  /\ mainAt[a] = "check"
  /\ Goto(a, "conn")
  /\ UNCHANGED <<appState, appId, frameAcked, screens, looping, ioAt, posted,
                 connDead>>

\* The killed test comes before checkConnection and is a step of its own: the
\* io thread may set killed between the two.
TestKilled(a) ==
  /\ mainAt[a] = "check"
  /\ looping' = [looping EXCEPT ![a] = @ /\ appState[a] # "killed"]
  /\ Goto(a, "conn")
  /\ UNCHANGED <<appState, appId, frameAcked, screens, ioAt, posted, connDead>>

NextRound(a) == Goto(a, IF looping[a] THEN "head" ELSE "over")

\* checkConnection finds the connection alive.
CheckAlive(a) ==
  /\ mainAt[a] = "conn"
  /\ ~connDead[a]
  /\ NextRound(a)
  /\ UNCHANGED <<appState, appId, frameAcked, screens, looping, ioAt, posted,
                 connDead>>

\* checkConnection finds it dead and cannot connect: try again next round.
CheckFails(a) ==
  /\ mainAt[a] = "conn"
  /\ connDead[a]
  /\ appState' = [appState EXCEPT ![a] = "failure"]
  /\ NextRound(a)
  /\ UNCHANGED <<appId, frameAcked, screens, looping, ioAt, posted, connDead>>

\* Fault variant of Reconnect: what is still to be written is written to the
\* new connection.
ReconnectKeepsPosted(a) ==
  /\ mainAt[a] = "conn"
  /\ connDead[a]
  /\ connDead' = [connDead EXCEPT ![a] = FALSE]
  /\ appState' = [appState EXCEPT ![a] = "failure"]
  /\ Post(a, <<Msg("registerApp", 0)>>)
  /\ NextRound(a)
  /\ UNCHANGED <<appId, frameAcked, screens, looping, ioAt>>

\* ... or connects anew and registers.  frameAcked, appId and screens stay as
\* they are; the io_context is not restarted, so that if it has run out of
\* work the new thread's run() returns at once.
Reconnect(a) ==
  /\ mainAt[a] = "conn"
  /\ connDead[a]
  /\ connDead' = [connDead EXCEPT ![a] = FALSE]
  /\ appState' = [appState EXCEPT ![a] = "failure"]
  /\ posted' = [posted EXCEPT ![a] = <<Msg("registerApp", 0)>>]
  /\ NextRound(a)
  /\ UNCHANGED <<appId, frameAcked, screens, looping, ioAt>>

MainStep(a) ==
  \/ CreateMainThread(a)
  \/ LoopHead(a)
  \/ TakeAck(a)
  \/ Draw(a)
  \/ TestKilled(a)
  \/ CheckAlive(a)
  \/ CheckFails(a)
  \/ Reconnect(a)

-----------------------------------------------------------------------------
(***************************************************************************)
(* handleRequest, on the io thread.                                        *)
(***************************************************************************)
SetState(a, s) == appState' = [appState EXCEPT ![a] = s]

\* registerApp success: take the id, send the schema, ask for the screens.
Registered(a, m) ==
  /\ m.type = "registerApp"
  /\ appId' = [appId EXCEPT ![a] = m.id]
  /\ Post(a, <<Msg("appParamSchema", m.id), Msg("getServerInfo", m.id)>>)
  /\ UNCHANGED <<appState, frameAcked, screens, threadVars>>

\* getServerInfo: the screens are appended to those already there, and the
\* state becomes running whatever it was.
ServerInfo(a, m) ==
  /\ m.type = "getServerInfo"
  /\ screens' = [screens EXCEPT ![a] = IF @ = 0 THEN 1 ELSE 2]
  /\ SetState(a, "running")
  /\ UNCHANGED <<appId, frameAcked, threadVars, posted>>

Pause(a, m) ==
  /\ m.type = "appPause"
  /\ SetState(a, IF appState[a] = "running" THEN "paused" ELSE appState[a])
  /\ Post(a, <<Msg("appPause", appId[a])>>)
  /\ UNCHANGED <<appId, frameAcked, screens, threadVars>>

\* Fault variant of Resume: whatever the state was, it is running.
ResumeFromAnyState(a, m) ==
  /\ m.type = "appResume"
  /\ SetState(a, "running")
  /\ Post(a, <<Msg("appResume", appId[a])>>)
  /\ UNCHANGED <<appId, frameAcked, screens, threadVars>>

Resume(a, m) ==
  /\ m.type = "appResume"
  /\ SetState(a, IF appState[a] = "paused" THEN "running" ELSE appState[a])
  /\ Post(a, <<Msg("appResume", appId[a])>>)
  /\ UNCHANGED <<appId, frameAcked, screens, threadVars>>

\* appKill: the reply is only posted; then stop() joins the main thread, on
\* the thread that would have to write the reply.
Kill(a, m) ==
  /\ m.type = "appKill"
  /\ SetState(a, "killed")
  /\ Post(a, <<Msg("appKill", appId[a])>>)
  /\ ioAt' = [ioAt EXCEPT ![a] = IF mainAt[a] \in {"off", "started"}
                                 THEN "run" ELSE "join"]
  /\ UNCHANGED <<appId, frameAcked, screens, mainAt, looping>>

FrameAck(a, m) ==
  /\ m.type \in {"setScreenFrame", "requestScreenAccess"}
  /\ frameAcked' = [frameAcked EXCEPT ![a] = TRUE]
  /\ UNCHANGED <<appState, appId, screens, threadVars, posted>>

\* appAlive and getAppParams are answered.
Answer(a, m) ==
  /\ \/ m.type = "appAlive" /\ Post(a, <<Msg("appAlive", appId[a])>>)
     \/ m.type = "getAppParams" /\ Post(a, <<Msg("appParamValues", appId[a])>>)
  /\ UNCHANGED <<appState, appId, frameAcked, screens, threadVars>>

\* Parameter updates and sensor data touch nothing of the protocol's state.
TakeInput(a, m) ==
  /\ m.type \in {"setAppParam", "joystickData"}
  /\ UNCHANGED <<appState, appId, frameAcked, screens, threadVars, posted>>

\* A message that was read before the connection failed is still handled.
handleRequest(a, m) ==
  /\ ioAt[a] = "run"
  /\ \/ Registered(a, m)
     \/ ServerInfo(a, m)
     \/ Pause(a, m)
     \/ Resume(a, m)
     \/ Kill(a, m)
     \/ FrameAck(a, m)
     \/ Answer(a, m)
     \/ TakeInput(a, m)
  /\ UNCHANGED connDead

-----------------------------------------------------------------------------
(***************************************************************************)
(* The rest of the io thread's work.                                       *)
(***************************************************************************)

\* stop() returns once the main thread has ended.
JoinMainThread(a) ==
  /\ ioAt[a] = "join"
  /\ mainAt[a] = "over"
  /\ ioAt' = [ioAt EXCEPT ![a] = "run"]
  /\ UNCHANGED <<appState, appId, frameAcked, screens, mainAt, looping, posted,
                 connDead>>

\* The io thread writes the oldest posted message (or fails to, when dead).
Write(a) ==
  /\ ioAt[a] = "run"
  /\ posted[a] # <<>>
  /\ posted' = [posted EXCEPT ![a] = Tail(@)]
  /\ UNCHANGED <<appState, appId, frameAcked, screens, threadVars, connDead>>

\* A read or a write of the io thread fails.
ConnectionFails(a) ==
  /\ ioAt[a] = "run"
  /\ ~connDead[a]
  /\ connDead' = [connDead EXCEPT ![a] = TRUE]
  /\ UNCHANGED <<appState, appId, frameAcked, screens, threadVars, posted>>

\* io_context.run() returns: no read is pending and nothing is left to write.
IoRunReturns(a) ==
  /\ ioAt[a] = "run"
  /\ connDead[a]
  /\ posted[a] = <<>>
  /\ ioAt' = [ioAt EXCEPT ![a] = "stopped"]
  /\ UNCHANGED <<appState, appId, frameAcked, screens, mainAt, looping, posted,
                 connDead>>

IoStep(a) == JoinMainThread(a) \/ Write(a) \/ IoRunReturns(a)

-----------------------------------------------------------------------------
HandledTypes == ServerTypes \cup {"appAlive", "requestScreenAccess"}

\* On its own, the application faces a server that may send anything.
AnyMessage(a) ==
  \E m \in Message : /\ m.type \in HandledTypes
                     /\ m.level = 0
                     /\ Len(posted[a]) < MaxPosted
                     /\ handleRequest(a, m)

Next ==
  \E a \in Clients : \/ Start(a)
                     \/ MainStep(a)
                     \/ LoopThrows(a)
                     \/ IoStep(a)
                     \/ ConnectionFails(a)
                     \/ AnyMessage(a)

Spec == Init /\ [][Next]_vars

(***************************************************************************)
(* Fairness: both threads are scheduled.  Nothing is assumed of the        *)
(* server, of the network or of the application's loop().                  *)
(***************************************************************************)
FairSpec == /\ Spec
            /\ \A a \in Clients : WF_vars(MainStep(a)) /\ WF_vars(IoStep(a))

-----------------------------------------------------------------------------
(***************************************************************************)
(* Properties.                                                             *)
(***************************************************************************)

\* The main thread draws only when it has screens to draw on: running is not
\* reached before the server's screens have arrived (MatrixApplication.cpp:
\* 189-199), whatever pauses and resumes come first.
DrawsOnlyWithScreens ==
  \A a \in Clients : mainAt[a] \in {"wait", "draw"} => screens[a] # 0

\* stop() on the io thread returns (MatrixApplication.cpp:334-342), except in
\* two cases: the main thread waits for an acknowledgement only the joining
\* thread could deliver, or checkConnection overwrote killed with failure.
JoinReturnsOrIsStuck ==
  \A a \in Clients :
    ioAt[a] = "join" ~> \/ ioAt[a] = "run"
                        \/ mainAt[a] = "wait" /\ ~frameAcked[a]
                        \/ appState[a] = "failure"

=============================================================================
