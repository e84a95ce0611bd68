------------------------------- MODULE Server -------------------------------
(***************************************************************************)
(* The matrix server's core (server/Server.cpp, server/App.cpp): the stack *)
(* of registered applications, the handlers of the messages applications   *)
(* and the web client send, and the tick of the main loop, which also      *)
(* supervises the default application.                                     *)
(*                                                                         *)
(* Threads.  Handlers of socket connections run on one io thread; each IPC *)
(* connection has a read thread of its own; tick runs on the main thread.  *)
(* A section under appsMutex is one step.  What a handler still does after *)
(* unlocking is kept in job[t] and done by later steps of thread t.  Two   *)
(* threads can be in the same renderer then.                               *)
(*                                                                         *)
(* The vector apps only grows at its end and erase keeps the order of the  *)
(* rest, so it is the set of the registration numbers still present: the   *)
(* vector's order is the order of the numbers and apps.back() the largest. *)
(***************************************************************************)
EXTENDS Protocol, Sequences, FiniteSets

CONSTANTS
  Conns,        \* connection objects
  IpcConns,     \* those accepted by the IPC server
  NoConn,       \* no connection
  IoThread,     \* the thread that runs ioContext
  NRenderers,   \* 1 in simulator mode, 2 with a hardware renderer
  Alphabet,     \* bound: the types of message clients send in this instance
  DistinctIds   \* whether the ids drawn from rand() are all different

ASSUME ConnsAssumption == /\ IpcConns \subseteq Conns
                          /\ NoConn \notin Conns
                          /\ IoThread \notin Conns
ASSUME RenderersAssumption == NRenderers \in Nat \ {0}
ASSUME AlphabetAssumption == Alphabet \subseteq ClientTypes
ASSUME IdsAssumption == DistinctIds \in BOOLEAN

Renderers == 1..NRenderers
Threads == {IoThread} \cup IpcConns

\* Ids registration r may be given: App::generateAppId draws rand() unchecked.
DrawableIds(r) == IF DistinctIds THEN {r} ELSE Ids

-----------------------------------------------------------------------------
\* The messages handleRequest has nothing but a no-op or a forward for.
InertTypes == {"requestScreenAccess", "appAlive", "appParamValues"}

JobSteps == {"idle", "reply", "render", "refuse", "forward"}

\* top is history: the registration on top when the frame was approved.
Job == [step : JobSteps, conn : Conns \cup {NoConn}, id : Ids,
        level : Levels, todo : Renderers, top : Ids]

NoJob == [step |-> "idle", conn |-> NoConn, id |-> 0, level |-> 0, todo |-> 1,
          top |-> 0]

AppStates == {"unset", "running", "paused"}

App == [id : Ids, conn : Conns \cup {NoConn}, state : AppStates, schema : BOOLEAN]

NoApp == [id |-> 0, conn |-> NoConn, state |-> "unset", schema |-> FALSE]

VARIABLES
  apps,         \* registrations in the stack
  app,          \* the App object of each
  registered,   \* registrations so far
  connections,  \* connection objects the server keeps
  dead,         \* those whose isDead() is true
  job,          \* what each handler thread still has to do, unlocked
  sent,         \* what the last step passed to sendMessage, by connection
  shown,        \* the app whose frame each renderer shows (0: none)
  brightness,   \* each renderer's global brightness (0: the configured one)
  panel,        \* the app whose parameters the web client shows (0: none)
  tickAt,       \* where the main thread is in tick()
  defaultAppStarted,
  defaultAppPid,  \* whether defaultAppPid_ > 0
  proc,         \* the default application's process
  told          \* history: the last of registerApp success, appPause and
                \* appResume sent to each registration in the stack

stackVars == <<apps, app, registered>>
connVars == <<connections, dead>>
rendererVars == <<shown, brightness, panel>>
defaultAppVars == <<defaultAppStarted, defaultAppPid, proc>>

vars == <<apps, app, registered, connections, dead, job, sent, shown,
          brightness, panel, tickAt, defaultAppStarted, defaultAppPid, proc,
          told>>

TypeOK ==
  /\ apps \subseteq Regs
  /\ app \in [Regs -> App]
  /\ registered \in 0..MaxRegs
  /\ connections \subseteq Conns
  /\ dead \subseteq Conns
  /\ job \in [Threads -> Job]
  /\ sent \in [Conns -> Seq(Message)]
  /\ shown \in [Renderers -> Ids]
  /\ brightness \in [Renderers -> Levels]
  /\ panel \in Ids
  /\ tickAt \in {"sleep", "manage", "sweep", "stopping", "down"}
  /\ defaultAppStarted \in BOOLEAN
  /\ defaultAppPid \in BOOLEAN
  /\ proc \in {"none", "alive", "zombie"}
  /\ told \in [Regs -> {"none", "registered", "pause", "resume"}]

Init ==
  /\ apps = {}
  /\ app = [r \in Regs |-> NoApp]
  /\ registered = 0
  /\ connections = {}
  /\ dead = {}
  /\ job = [t \in Threads |-> NoJob]
  /\ sent = [c \in Conns |-> <<>>]
  /\ shown = [k \in Renderers |-> 0]
  /\ brightness = [k \in Renderers |-> 0]
  /\ panel = 0
  /\ tickAt = "sleep"
  /\ defaultAppStarted = FALSE
  /\ defaultAppPid = FALSE
  /\ proc = "none"
  /\ told = [r \in Regs |-> "none"]

-----------------------------------------------------------------------------
\* r is the last of the registrations in S: apps.back().
IsLast(r, S) == r \in S /\ \A q \in S : q <= r

IsTop(r) == IsLast(r, apps)

Covered(r) == r \in apps /\ ~IsTop(r)

\* r is the first app a loop over apps finds with this id.
IsFirstWith(r, id) ==
  /\ r \in apps
  /\ app[r].id = id
  /\ \A q \in apps : app[q].id = id => r <= q

Quiet == [c \in Conns |-> <<>>]

To(c, m) == [Quiet EXCEPT ![c] = <<m>>]

\* history: what goes to app id on connection c reaches those registrations.
Tell(c, id, what) ==
  [r \in Regs |-> IF r \in apps /\ app[r].conn = c /\ app[r].id = id
                  THEN what ELSE told[r]]

HandlerOf(c) == IF c \in IpcConns THEN c ELSE IoThread

\* Thread HandlerOf(c) can take a message from c and call handleRequest.
Ready(c) ==
  /\ tickAt # "down"
  /\ c \in connections
  /\ job[HandlerOf(c)] = NoJob

\* The registration on top, 0 if there is none.
TopReg == IF apps = {} THEN 0 ELSE CHOOSE r \in apps : IsTop(r)

StartJob(c, step, id, level) ==
  job' = [job EXCEPT ![HandlerOf(c)] =
            [step |-> step, conn |-> c, id |-> id, level |-> level, todo |-> 1,
             top |-> IF step = "render" THEN TopReg ELSE 0]]

EndJob(t) == job' = [job EXCEPT ![t] = NoJob]

(***************************************************************************)
(* Erase the registrations in gone and, if resume, send appResume to the   *)
(* app that is now on top (resumeTopApp).                                  *)
(***************************************************************************)
EraseApps(gone, resume) ==
  LET left == apps \ gone
      toldLeft == [r \in Regs |-> IF r \in gone THEN "none" ELSE told[r]]
  IN  /\ apps' = left
      /\ app' = [r \in Regs |-> IF r \in gone THEN NoApp ELSE app[r]]
      /\ UNCHANGED registered
      /\ \/ /\ ~resume \/ left = {}
            /\ sent' = Quiet
            /\ told' = toldLeft
         \/ /\ resume
            /\ \E r \in left :
                 /\ IsLast(r, left)
                 /\ sent' = To(app[r].conn, Msg("appResume", app[r].id))
                 /\ told' = [toldLeft EXCEPT ![r] = "resume"]

-----------------------------------------------------------------------------
(***************************************************************************)
(* handleRequest: what the handler thread of c does with message m.        *)
(***************************************************************************)

\* Fault variant of PauseTopApp: the app on top is not told.
PauseTopAppForgotten == sent' = Quiet /\ UNCHANGED told

\* The app on top, if there is one, is told to make room for the new one.
PauseTopApp ==
  \/ /\ apps = {}
     /\ sent' = Quiet
     /\ UNCHANGED told
  \/ \E r \in apps :
       /\ IsTop(r)
       /\ sent' = To(app[r].conn, Msg("appPause", app[r].id))
       /\ told' = [told EXCEPT ![r] = "pause"]

\* registerApp, first part, under the lock: pause the top app, push the new.
RegisterApp(c, m) ==
  LET new == registered + 1 IN
  /\ m.type = "registerApp" /\ m.id = 0
  /\ registered < MaxRegs
  /\ registered' = new
  /\ apps' = apps \cup {new}
  /\ \E id \in DrawableIds(new) :
       /\ app' = [app EXCEPT ![new] = [NoApp EXCEPT !.id = id, !.conn = c]]
       /\ StartJob(c, "reply", id, 0)
  /\ PauseTopApp
  /\ UNCHANGED <<connVars, rendererVars, tickAt, defaultAppVars>>

\* registerApp, second part, unlocked: tell the app its id.
ReplyRegistered(t) ==
  /\ job[t].step = "reply"
  /\ sent' = To(job[t].conn, Msg("registerApp", job[t].id))
  /\ told' = Tell(job[t].conn, job[t].id, "registered")
  /\ EndJob(t)
  /\ UNCHANGED <<stackVars, connVars, rendererVars, tickAt, defaultAppVars>>

GetServerInfo(c, m) ==
  /\ m.type = "getServerInfo"
  /\ sent' = To(c, Msg("getServerInfo", 0))
  /\ UNCHANGED <<stackVars, connVars, job, rendererVars, tickAt,
                 defaultAppVars, told>>

\* Fault variant of IsTopId: any registered app passes.
IsTopIdOfAny(id) == \E r \in apps : app[r].id = id

IsTopId(id) == \E r \in apps : IsTop(r) /\ app[r].id = id

\* setScreenFrame, first part: the lock is held only to look at the top app.
CheckFrame(c, m) ==
  /\ m.type = "setScreenFrame"
  /\ StartJob(c, IF IsTopId(m.id) THEN "render" ELSE "refuse", m.id, m.level)
  /\ sent' = Quiet
  /\ UNCHANGED <<stackVars, connVars, rendererVars, tickAt, defaultAppVars,
                 told>>

\* Fault variants of LastRenderer: one round too many, one too few.
LastRendererOvershoots(k) == k > NRenderers
LastRendererUndershoots(k) == k + 1 >= NRenderers

LastRenderer(k) == k = NRenderers

\* The other threads that have a frame for renderer k in their hands.
Rivals(t, k) == {u \in Threads \ {t} : job[u].step = "render" /\ job[u].todo = k}

\* Whose frame renderer k shows after thread t has been there.  Two threads
\* write into the same screens, and the one that comes second fails try_lock
\* and leaves without a word (FPGARendererFTDI.cpp:52, RGBMatrixRenderer.cpp:59).
Outcomes(t, k) ==
  {job[t].id} \cup (IF Rivals(t, k) = {} THEN {}
                    ELSE {shown[k]} \cup {job[u].id : u \in Rivals(t, k)})

\* Fault variant of RenderFrame: the frame is not acknowledged.
RenderFrameUnacknowledged(t) ==
  /\ job[t].step = "render"
  /\ \E id \in Outcomes(t, job[t].todo) : shown' = [shown EXCEPT ![job[t].todo] = id]
  /\ sent' = Quiet
  /\ EndJob(t)
  /\ UNCHANGED <<stackVars, connVars, brightness, panel, tickAt,
                 defaultAppVars, told>>

\* setScreenFrame of the top app, unlocked: one renderer has its turn, and the
\* frame is acknowledged whether or not it is shown.
RenderFrame(t) ==
  LET k == job[t].todo IN
  /\ job[t].step = "render"
  /\ \E id \in Outcomes(t, k) : shown' = [shown EXCEPT ![k] = id]
  /\ brightness' = [brightness EXCEPT ![k] =
                      IF job[t].level = 0 THEN @ ELSE job[t].level]
  /\ sent' = To(job[t].conn, Msg("setScreenFrame", 0))
  /\ IF LastRenderer(k) THEN EndJob(t)
     ELSE job' = [job EXCEPT ![t].todo = k + 1]
  /\ UNCHANGED <<stackVars, connVars, panel, tickAt, defaultAppVars, told>>

\* Fault variant of RefuseFrame: the frame is acknowledged like any other.
RefuseFrameAcknowledged(t) ==
  /\ job[t].step = "refuse"
  /\ sent' = To(job[t].conn, Msg("setScreenFrame", 0))
  /\ EndJob(t)
  /\ UNCHANGED <<stackVars, connVars, rendererVars, tickAt, defaultAppVars,
                 told>>

\* setScreenFrame of any other app, unlocked: appPause and no acknowledgement.
RefuseFrame(t) ==
  /\ job[t].step = "refuse"
  /\ sent' = To(job[t].conn, Msg("appPause", job[t].id))
  /\ told' = Tell(job[t].conn, job[t].id, "pause")
  /\ EndJob(t)
  /\ UNCHANGED <<stackVars, connVars, rendererVars, tickAt, defaultAppVars>>

\* appPause and appResume replies: the status field is not looked at.
RecordState(c, m) ==
  /\ m.type \in {"appPause", "appResume"}
  /\ app' = [r \in Regs |->
               IF IsFirstWith(r, m.id)
               THEN [app[r] EXCEPT !.state = IF m.type = "appPause"
                                             THEN "paused" ELSE "running"]
               ELSE app[r]]
  /\ sent' = Quiet
  /\ UNCHANGED <<apps, registered, connVars, job, rendererVars, tickAt,
                 defaultAppVars, told>>

\* appKill reply: every app with the id goes; the app below the top resumes.
AppKilled(c, m) ==
  LET gone == {r \in apps : app[r].id = m.id} IN
  /\ m.type = "appKill"
  /\ EraseApps(gone, \E r \in gone : IsTop(r))
  /\ UNCHANGED <<connVars, job, rendererVars, tickAt, defaultAppVars>>

\* appParamSchema: stored under the lock, forwarded after it.
StoreSchema(c, m) ==
  /\ m.type = "appParamSchema"
  /\ app' = [r \in Regs |-> IF IsFirstWith(r, m.id)
                            THEN [app[r] EXCEPT !.schema = TRUE] ELSE app[r]]
  /\ StartJob(c, "forward", m.id, 0)
  /\ sent' = Quiet
  /\ UNCHANGED <<apps, registered, connVars, rendererVars, tickAt,
                 defaultAppVars, told>>

ForwardSchema(t) ==
  /\ job[t].step = "forward"
  /\ panel' = job[t].id
  /\ sent' = Quiet
  /\ EndJob(t)
  /\ UNCHANGED <<stackVars, connVars, shown, brightness, tickAt,
                 defaultAppVars, told>>

Inert(c, m) ==
  /\ m.type \in InertTypes \/ (m.type = "registerApp" /\ m.id # 0)
  /\ sent' = Quiet
  /\ UNCHANGED <<stackVars, connVars, job, rendererVars, tickAt,
                 defaultAppVars, told>>

handleRequest(c, m) ==
  /\ Ready(c)
  /\ \/ RegisterApp(c, m)
     \/ GetServerInfo(c, m)
     \/ CheckFrame(c, m)
     \/ RecordState(c, m)
     \/ AppKilled(c, m)
     \/ StoreSchema(c, m)
     \/ Inert(c, m)

\* The rest of a handler, after it gave up the lock.
FinishJob(t) ==
  /\ tickAt # "down"
  /\ \/ ReplyRegistered(t)
     \/ RenderFrame(t)
     \/ RefuseFrame(t)
     \/ ForwardSchema(t)

-----------------------------------------------------------------------------
(***************************************************************************)
(* The callback of the renderers' clients: messages of the web client.     *)
(***************************************************************************)

\* getServerInfo: the config, then the schema of the app on top, if any.
WebHello ==
  /\ tickAt # "down"
  /\ \/ apps = {} /\ UNCHANGED panel
     \/ \E r \in apps : IsTop(r) /\ panel' = app[r].id
  /\ sent' = Quiet
  /\ UNCHANGED <<stackVars, connVars, job, shown, brightness, tickAt,
                 defaultAppVars, told>>

\* setAppParam and getAppParams: to the app named, or to the top app.
WebParam(type, id) ==
  /\ tickAt # "down"
  /\ \/ \E r \in apps :
          /\ IF id # 0 THEN IsFirstWith(r, id) ELSE IsTop(r)
          /\ sent' = To(app[r].conn, Msg(type, id))
     \/ /\ IF id # 0 THEN \A r \in apps : app[r].id # id ELSE apps = {}
        /\ sent' = Quiet
  /\ UNCHANGED <<stackVars, connVars, job, rendererVars, tickAt,
                 defaultAppVars, told>>

\* joystickData, imuData and audioDataMessage: to every app.
WebInput ==
  /\ tickAt # "down"
  /\ sent' = [c \in Conns |->
                [i \in 1..Cardinality({r \in apps : app[r].conn = c}) |->
                   Msg("joystickData", 0)]]
  /\ UNCHANGED <<stackVars, connVars, job, rendererVars, tickAt,
                 defaultAppVars, told>>

-----------------------------------------------------------------------------
(***************************************************************************)
(* tick(): the kill button, then the stack and the default app under the   *)
(* lock, then the connections, unlocked.                                   *)
(***************************************************************************)
TickButton(pressed) ==
  /\ tickAt = "sleep"
  /\ tickAt' = "manage"
  /\ \/ /\ pressed
        /\ \E r \in apps : IsTop(r) /\ sent' = To(app[r].conn, Msg("appKill", 0))
     \/ /\ ~pressed \/ apps = {}
        /\ sent' = Quiet
  /\ UNCHANGED <<stackVars, connVars, job, rendererVars, defaultAppVars, told>>

\* kill(defaultAppPid_, 0) == 0 as long as the process is not reaped.
DefaultAppStillAlive == defaultAppPid /\ proc # "none"

\* fork() may fail; an execl that fails is a child that exits.
StartDefaultApp ==
  /\ apps = {} /\ ~defaultAppStarted
  /\ defaultAppStarted' = TRUE
  /\ \/ /\ DefaultAppStillAlive
        /\ UNCHANGED <<defaultAppPid, proc>>
     \/ /\ ~DefaultAppStillAlive
        /\ defaultAppPid' = TRUE
        /\ proc' = "alive"
     \/ /\ ~DefaultAppStillAlive
        /\ defaultAppPid' = FALSE
        /\ UNCHANGED proc

\* Fault variant of ReapDefaultApp: forget the pid whatever waitpid returned.
ReapDefaultAppUnchecked ==
  /\ apps # {}
  /\ defaultAppStarted' = FALSE
  /\ defaultAppPid' = FALSE
  /\ proc' = IF proc = "zombie" THEN "none" ELSE proc

\* waitpid(..., WNOHANG) # 0 when the child has exited.
ReapDefaultApp ==
  /\ apps # {}
  /\ defaultAppStarted' = FALSE
  /\ IF defaultAppPid /\ proc # "alive"
     THEN defaultAppPid' = FALSE /\ proc' = "none"
     ELSE UNCHANGED <<defaultAppPid, proc>>

ManageDefaultApp ==
  \/ StartDefaultApp
  \/ ReapDefaultApp
  \/ apps = {} /\ defaultAppStarted /\ UNCHANGED defaultAppVars

\* Fault variant of TopIdChanges: the new top is not noticed.
TopIdChangesIgnored(gone) == FALSE

\* The ids of the top apps before and after the erase are what is compared.
TopIdChanges(gone) ==
  \E old \in apps, new \in apps \ gone :
    /\ IsTop(old)
    /\ IsLast(new, apps \ gone)
    /\ app[old].id # app[new].id

DeadApps == {r \in apps : app[r].conn \in dead}

TickManage ==
  /\ tickAt = "manage"
  /\ tickAt' = "sweep"
  /\ ManageDefaultApp
  /\ EraseApps(DeadApps, TopIdChanges(DeadApps))
  /\ UNCHANGED <<connVars, job, rendererVars>>

TickSweep ==
  /\ tickAt = "sweep"
  /\ tickAt' = "sleep"
  /\ connections' = connections \ dead
  /\ sent' = Quiet
  /\ UNCHANGED <<stackVars, dead, job, rendererVars, defaultAppVars, told>>

\* g_shutdown is seen between ticks; stopDefaultApp sends SIGTERM ...
Shutdown ==
  /\ tickAt = "sleep"
  /\ tickAt' = "stopping"
  /\ sent' = Quiet
  /\ UNCHANGED <<stackVars, connVars, job, rendererVars, defaultAppVars, told>>

\* ... and returns when the child is reaped, after SIGKILL at the latest.
StopDefaultApp ==
  /\ tickAt = "stopping"
  /\ tickAt' = "down"
  /\ IF defaultAppPid THEN defaultAppPid' = FALSE /\ proc' = "none"
     ELSE UNCHANGED <<defaultAppPid, proc>>
  /\ sent' = Quiet
  /\ UNCHANGED <<stackVars, connVars, job, rendererVars, defaultAppStarted, told>>

-----------------------------------------------------------------------------
(***************************************************************************)
(* Connections and processes.                                              *)
(***************************************************************************)

\* A new connection object: no app and no running handler holds it.
newConnectionCallback(c) ==
  /\ tickAt # "down"
  /\ c \notin connections
  /\ \A r \in apps : app[r].conn # c
  /\ \A t \in Threads : job[t].conn # c
  /\ connections' = connections \cup {c}
  /\ dead' = dead \ {c}
  /\ sent' = Quiet
  /\ UNCHANGED <<stackVars, job, rendererVars, tickAt, defaultAppVars, told>>

ConnectionDies(c) ==
  /\ tickAt # "down"
  /\ c \in connections \ dead
  /\ dead' = dead \cup {c}
  /\ sent' = Quiet
  /\ UNCHANGED <<stackVars, connections, job, rendererVars, tickAt,
                 defaultAppVars, told>>

DefaultAppExits ==
  /\ proc = "alive"
  /\ proc' = "zombie"
  /\ sent' = Quiet
  /\ UNCHANGED <<stackVars, connVars, job, rendererVars, tickAt,
                 defaultAppStarted, defaultAppPid, told>>

-----------------------------------------------------------------------------
\* What clients may send: any message, about any app.
ClientMessages == {m \in Message : /\ m.type \in Alphabet
                                   /\ m.level # 0 => m.type = "setScreenFrame"}

Receive(c) == \E m \in ClientMessages : handleRequest(c, m)

Web ==
  \/ WebHello
  \/ \E type \in {"setAppParam", "getAppParams"}, id \in Ids : WebParam(type, id)
  \/ WebInput

Tick == \/ \E pressed \in BOOLEAN : TickButton(pressed)
        \/ TickManage
        \/ TickSweep

\* The process has ended.
Terminated == tickAt = "down" /\ UNCHANGED vars

Next ==
  \/ \E c \in Conns : Receive(c)
  \/ \E t \in Threads : FinishJob(t)
  \/ Web
  \/ Tick
  \/ Shutdown
  \/ StopDefaultApp
  \/ \E c \in Conns : newConnectionCallback(c) \/ ConnectionDies(c)
  \/ DefaultAppExits
  \/ Terminated

Spec == Init /\ [][Next]_vars

-----------------------------------------------------------------------------
(***************************************************************************)
(* Properties.                                                             *)
(***************************************************************************)

\* An app that is not on top has been told to pause, and nothing it was told
\* later lets it draw: registerApp pauses the top app under the lock
\* (Server.cpp:164-172) and resumeTopApp only ever addresses the last one.
\* With socket connections only: a reply cannot be overtaken on the io thread.
CoveredToldToPause == \A r \in apps : Covered(r) => told[r] = "pause"

\* Whatever the threads do, resume is never the last word to a covered app:
\* resumeTopApp and the pause of registerApp share the lock.
CoveredNeverResumed == \A r \in apps : Covered(r) => told[r] # "resume"

\* A frame that passed the check, which is stale once the lock is released
\* (Server.cpp:199-205), is that of the app that was on top then.  Apps may have
\* come above it since, but only by other threads: the one that renders it
\* cannot have registered them.  With socket connections only there is no
\* other, and no frame appears over an app that opened after it.
OnlyOthersCoverApproved ==
  \A t \in Threads : job[t].step = "render" =>
    /\ job[t].top # 0
    /\ job[t].top \in apps => app[job[t].top].id = job[t].id
    /\ \A q \in apps : q > job[t].top => HandlerOf(app[q].conn) # t

\* The renderers are served one after the other (Server.cpp:207-235); between
\* frames they show the same app's frame at the same brightness.
RenderersAgree ==
  job[IoThread].step # "render" =>
    \A j, k \in Renderers : shown[j] = shown[k] /\ brightness[j] = brightness[k]

\* Whichever way the apps above it go (appKill, a dead connection), an app
\* that becomes the top one is sent appResume in the same locked section.
UncoveredTopIsResumed ==
  [][\A r \in apps : (Covered(r) /\ IsTop(r)') =>
       sent' = To(app[r].conn, Msg("appResume", app[r].id))]_vars

\* defaultAppPid_ is positive exactly as long as there is a child that is not
\* reaped, so no child is lost, and none is left when the server has stopped.
DefaultAppTracked ==
  /\ defaultAppPid <=> proc # "none"
  /\ tickAt = "down" => proc = "none"

\* The server implements ScreenArbiter, whatever the threads are and whatever
\* rand() yields: a thread holds a grant while it renders an approved frame.
Arbiter == INSTANCE ScreenArbiter WITH
  Nobody <- NoConn,
  stack <- apps,
  name <- [r \in Regs |-> IF r \in apps THEN app[r].id ELSE 0],
  opener <- [r \in Regs |-> IF r \in apps THEN HandlerOf(app[r].conn) ELSE NoConn],
  grant <- [t \in Threads |-> IF job[t].step = "render" THEN job[t].id ELSE 0],
  left <- [t \in Threads |-> IF job[t].step = "render"
                             THEN job[t].todo..NRenderers ELSE {}]

ImplementsArbiter == Arbiter!Spec

\* Server.cpp:166-168: the app on top is paused "to make room for new app": once
\* it is covered, no renderer turns to a frame of it.
NewAppNotPaintedOver ==
  [][\A k \in Renderers, r \in apps :
       (shown'[k] # shown[k] /\ shown'[k] = app[r].id) => ~Covered(r)]_vars

\* Server.cpp:195: the apps to pause are those that are not on top any more.
PauseOnlyForCovered ==
  [][\A r \in apps : (told[r] # "pause" /\ told'[r] = "pause") => ~IsTop(r)']_vars

=============================================================================
