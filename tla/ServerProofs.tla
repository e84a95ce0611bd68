---------------------------- MODULE ServerProofs ----------------------------
(***************************************************************************)
(* What holds of the server for any number of connections, registrations,  *)
(* renderers and brightness levels.                                        *)
(***************************************************************************)
EXTENDS Server, FiniteSetTheorems, WellFoundedInduction, TLAPS

-----------------------------------------------------------------------------
(***************************************************************************)
(* Lemmas on the helpers.                                                  *)
(***************************************************************************)
LEMMA MsgTypes ==
  ASSUME NEW type \in ClientTypes \cup ServerTypes, NEW id \in Ids
  PROVE  Msg(type, id) \in Message
BY ProtocolAssumption DEF Msg, Message, Levels

LEMMA QuietTypes == Quiet \in [Conns -> Seq(Message)]
BY DEF Quiet

LEMMA ToTypes ==
  ASSUME NEW c, NEW m \in Message
  PROVE  To(c, m) \in [Conns -> Seq(Message)]
<1>1. <<m>> \in Seq(Message)
  OBVIOUS
<1> QED
  BY <1>1, QuietTypes DEF To

LEMMA SentTypes ==
  ASSUME NEW c, NEW type \in ClientTypes \cup ServerTypes, NEW id \in Ids
  PROVE  To(c, Msg(type, id)) \in [Conns -> Seq(Message)]
BY MsgTypes, ToTypes

LEMMA NumberTypes == 0 \in Ids /\ 0 \in Levels /\ Regs \subseteq Ids
BY ProtocolAssumption DEF Ids, Levels, Regs

LEMMA DrawableTypes ==
  ASSUME NEW r \in Regs
  PROVE  DrawableIds(r) \subseteq Ids
BY NumberTypes DEF DrawableIds

LEMMA NoAppTypes == NoApp \in App
BY NumberTypes DEF NoApp, App, AppStates

LEMMA NoJobTypes == NoJob \in Job
BY NumberTypes, RenderersAssumption DEF NoJob, Job, JobSteps, Renderers

LEMMA NatLess == IsWellFoundedOn({p \in Nat \X Nat : p[1] < p[2]}, Nat)
BY NatLessThanWellFounded DEF OpToRel

\* A set of numbers up to n that is not empty has a last one: n minus the
\* least of the distances to n.
LEMMA LastExists ==
  ASSUME NEW n \in Nat, NEW S \in SUBSET (1..n), S # {}
  PROVE  \E r \in S : IsLast(r, S)
<1> DEFINE Distances == {n - r : r \in S}
           Less == {p \in Nat \X Nat : p[1] < p[2]}
<1>1. Distances \subseteq Nat
  OBVIOUS
<1>2. Distances # {}
  OBVIOUS
<1>3. \E x \in Distances : \A y \in Distances : <<y, x>> \notin Less
  <2>1. IsWellFoundedOn(Less, Nat)
    BY NatLess
  <2> HIDE DEF Distances, Less
  <2> QED
    BY <1>1, <1>2, <2>1, WFMin, Zenon
<1>4. PICK r \in S : \A q \in S : <<n - q, n - r>> \notin Less
  BY <1>3
<1>5. ASSUME NEW q \in S PROVE q <= r
  <2>1. \A x, y \in Distances : y < x => <<y, x>> \in Less
    BY <1>1
  <2>2. n - q \in Distances /\ n - r \in Distances
    OBVIOUS
  <2>3. ~(n - q < n - r)
    <3>1. <<n - q, n - r>> \notin Less
      BY <1>4
    <3> HIDE DEF Distances, Less
    <3> QED
      BY <2>1, <2>2, <3>1
  <2>4. r \in Nat /\ q \in Nat
    OBVIOUS
  <2> QED
    BY <2>3, <2>4
<1> QED
  BY <1>5 DEF IsLast

LEMMA TopRegIsTop ==
  ASSUME TypeOK
  PROVE  /\ TopReg \in Ids
         /\ apps # {} => TopReg \in apps /\ IsTop(TopReg)
         /\ \A r : IsTop(r) => TopReg = r
<1>1. apps \in SUBSET (1..MaxRegs) /\ MaxRegs \in Nat /\ apps \subseteq Ids
  BY ProtocolAssumption, NumberTypes DEF TypeOK, Regs
<1>2. apps # {} => \E r \in apps : IsTop(r)
  BY <1>1, LastExists DEF IsTop
<1>3. apps # {} => TopReg \in apps /\ IsTop(TopReg)
  BY <1>2 DEF TopReg
<1>4. \A q, r : IsTop(q) /\ IsTop(r) => q = r
  BY <1>1 DEF IsTop, IsLast
<1>5. \A r : IsTop(r) => apps # {}
  BY DEF IsTop, IsLast
<1>6. TopReg \in Ids
  BY <1>1, <1>3, NumberTypes DEF TopReg
<1> QED
  BY <1>3, <1>4, <1>5, <1>6

LEMMA StartJobTypes ==
  ASSUME TypeOK, NEW c \in Conns, NEW step \in JobSteps, NEW id \in Ids,
         NEW level \in Levels, StartJob(c, step, id, level)
  PROVE  job' \in [Threads -> Job]
<1>1. [step |-> step, conn |-> c, id |-> id, level |-> level, todo |-> 1,
       top |-> IF step = "render" THEN TopReg ELSE 0] \in Job
  BY TopRegIsTop, NumberTypes, RenderersAssumption DEF Job, Renderers
<1> QED
  BY <1>1 DEF TypeOK, StartJob

LEMMA EndJobTypes ==
  ASSUME TypeOK, NEW t \in Threads, EndJob(t)
  PROVE  job' \in [Threads -> Job]
BY NoJobTypes DEF TypeOK, EndJob

LEMMA TellTypes ==
  ASSUME TypeOK, NEW c, NEW id, NEW what \in {"none", "registered", "pause", "resume"}
  PROVE  Tell(c, id, what) \in [Regs -> {"none", "registered", "pause", "resume"}]
BY DEF TypeOK, Tell

LEMMA OutcomeTypes ==
  ASSUME TypeOK, NEW t \in Threads, NEW k \in Renderers
  PROVE  Outcomes(t, k) \subseteq Ids
BY DEF TypeOK, Job, Outcomes, Rivals

LEMMA EraseAppsTypes ==
  ASSUME TypeOK, NEW gone, NEW resume, EraseApps(gone, resume)
  PROVE  /\ apps' \subseteq Regs
         /\ app' \in [Regs -> App]
         /\ registered' \in 0..MaxRegs
         /\ sent' \in [Conns -> Seq(Message)]
         /\ told' \in [Regs -> {"none", "registered", "pause", "resume"}]
<1>1. apps' \subseteq Regs /\ registered' \in 0..MaxRegs
  BY DEF TypeOK, EraseApps
<1>2. app' \in [Regs -> App]
  BY NoAppTypes DEF TypeOK, EraseApps
<1>3. sent' \in [Conns -> Seq(Message)]
  <2>1. CASE sent' = Quiet
    BY <2>1, QuietTypes
  <2>2. CASE \E r \in apps : sent' = To(app[r].conn, Msg("appResume", app[r].id))
    <3>1. \A r \in apps : app[r].id \in Ids
      BY DEF TypeOK, App
    <3>2. PICK r \in apps : sent' = To(app[r].conn, Msg("appResume", app[r].id))
      BY <2>2
    <3>3. "appResume" \in ServerTypes /\ app[r].id \in Ids
      BY <3>1 DEF ServerTypes
    <3> QED
      BY <3>2, <3>3, SentTypes
  <2> QED
    BY <2>1, <2>2 DEF EraseApps
<1>4. told' \in [Regs -> {"none", "registered", "pause", "resume"}]
  BY DEF TypeOK, EraseApps
<1> QED
  BY <1>1, <1>2, <1>3, <1>4

LEMMA PauseTopAppTypes ==
  ASSUME TypeOK, PauseTopApp
  PROVE  /\ sent' \in [Conns -> Seq(Message)]
         /\ told' \in [Regs -> {"none", "registered", "pause", "resume"}]
<1>1. \A r \in apps : app[r].id \in Ids
  BY DEF TypeOK, App
<1>2. sent' \in [Conns -> Seq(Message)]
  <2>1. CASE sent' = Quiet
    BY <2>1, QuietTypes
  <2>2. CASE \E r \in apps : sent' = To(app[r].conn, Msg("appPause", app[r].id))
    <3>1. PICK r \in apps : sent' = To(app[r].conn, Msg("appPause", app[r].id))
      BY <2>2
    <3>2. "appPause" \in ServerTypes /\ app[r].id \in Ids
      BY <1>1 DEF ServerTypes
    <3> QED
      BY <3>1, <3>2, SentTypes
  <2> QED
    BY <2>1, <2>2 DEF PauseTopApp
<1> QED
  BY <1>2 DEF PauseTopApp, TypeOK

-----------------------------------------------------------------------------
(***************************************************************************)
(* Type correctness.                                                       *)
(***************************************************************************)
LEMMA InitTypes == Init => TypeOK
<1> SUFFICES ASSUME Init PROVE TypeOK
  OBVIOUS
<1>1. registered \in 0..MaxRegs
  BY ProtocolAssumption DEF Init
<1> QED
  BY <1>1, NumberTypes, NoAppTypes, NoJobTypes, QuietTypes DEF Init, TypeOK, Quiet

LEMMA HandlerTypes ==
  ASSUME TypeOK, NEW c \in Conns, NEW m \in Message, handleRequest(c, m)
  PROVE  TypeOK'
<1> USE DEF connVars, rendererVars, defaultAppVars, stackVars
<1>1. m.id \in Ids /\ m.level \in Levels
  BY DEF Message
<1>2. CASE RegisterApp(c, m)
  <2> DEFINE new == registered + 1
  <2>1. new \in Regs /\ registered' = new /\ apps' = apps \cup {new}
    BY <1>2, ProtocolAssumption DEF RegisterApp, TypeOK, Regs
  <2>2. PICK id \in DrawableIds(new) :
          /\ app' = [app EXCEPT ![new] = [NoApp EXCEPT !.id = id, !.conn = c]]
          /\ StartJob(c, "reply", id, 0)
    BY <1>2 DEF RegisterApp
  <2> HIDE DEF new
  <2>3. id \in Ids
    BY <2>1, <2>2, DrawableTypes
  <2>4. app' \in [Regs -> App]
    <3>1. [NoApp EXCEPT !.id = id, !.conn = c] \in App
      BY <2>3, NoAppTypes DEF App
    <3> QED
      BY <2>2, <3>1 DEF TypeOK
  <2>5. job' \in [Threads -> Job]
    BY <2>2, <2>3, StartJobTypes, NumberTypes DEF JobSteps
  <2>6. registered' \in 0..MaxRegs
    BY <2>1, ProtocolAssumption DEF Regs
  <2> QED
    BY <1>2, <2>1, <2>4, <2>5, <2>6, PauseTopAppTypes DEF RegisterApp, TypeOK
<1>3. CASE GetServerInfo(c, m)
  BY <1>3, NumberTypes, SentTypes DEF GetServerInfo, TypeOK, ServerTypes
<1>4. CASE CheckFrame(c, m)
  <2>1. job' \in [Threads -> Job]
    BY <1>1, <1>4, StartJobTypes DEF CheckFrame, JobSteps
  <2> QED
    BY <1>4, <2>1, QuietTypes DEF CheckFrame, TypeOK
<1>5. CASE RecordState(c, m)
  <2>1. app' \in [Regs -> App]
    <3> DEFINE next == IF m.type = "appPause" THEN "paused" ELSE "running"
    <3>1. next \in AppStates
      BY DEF AppStates
    <3>2. /\ app \in [Regs -> App]
          /\ app' = [r \in Regs |-> IF IsFirstWith(r, m.id)
                                    THEN [app[r] EXCEPT !.state = next]
                                    ELSE app[r]]
      BY <1>5 DEF RecordState, TypeOK
    <3> HIDE DEF next
    <3> QED
      BY <3>1, <3>2 DEF App
  <2> QED
    BY <1>5, <2>1, QuietTypes DEF RecordState, TypeOK
<1>6. CASE AppKilled(c, m)
  BY <1>6, EraseAppsTypes DEF AppKilled, TypeOK
<1>7. CASE StoreSchema(c, m)
  <2>1. app' \in [Regs -> App]
    BY <1>7 DEF StoreSchema, TypeOK, App
  <2>2. job' \in [Threads -> Job]
    BY <1>1, <1>7, StartJobTypes, NumberTypes DEF StoreSchema, JobSteps
  <2> QED
    BY <1>7, <2>1, <2>2, QuietTypes DEF StoreSchema, TypeOK
<1>8. CASE Inert(c, m)
  BY <1>8, QuietTypes DEF Inert, TypeOK
<1> QED
  BY <1>2, <1>3, <1>4, <1>5, <1>6, <1>7, <1>8 DEF handleRequest

LEMMA JobTypes ==
  ASSUME TypeOK, NEW t \in Threads, FinishJob(t)
  PROVE  TypeOK'
<1> USE DEF connVars, rendererVars, defaultAppVars, stackVars
<1>1. /\ job[t] \in Job
      /\ job[t].id \in Ids
      /\ job[t].level \in Levels
      /\ job[t].todo \in Renderers
  BY DEF TypeOK, Job
<1>2. CASE ReplyRegistered(t)
  <2>1. sent' \in [Conns -> Seq(Message)]
    BY <1>1, <1>2, SentTypes DEF ReplyRegistered, ServerTypes
  <2> QED
    BY <1>2, <2>1, EndJobTypes, TellTypes DEF ReplyRegistered, TypeOK
<1>3. CASE RenderFrame(t)
  <2>1. sent' \in [Conns -> Seq(Message)]
    BY <1>3, NumberTypes, SentTypes DEF RenderFrame, ServerTypes
  <2>2. shown' \in [Renderers -> Ids] /\ brightness' \in [Renderers -> Levels]
    BY <1>1, <1>3, OutcomeTypes DEF RenderFrame, TypeOK
  <2>3. job' \in [Threads -> Job]
    <3>1. CASE LastRenderer(job[t].todo)
      BY <1>3, <3>1, EndJobTypes DEF RenderFrame
    <3>2. CASE ~LastRenderer(job[t].todo)
      <4>1. job[t].todo + 1 \in Renderers
        BY <1>1, <3>2, RenderersAssumption DEF LastRenderer, Renderers
      <4>2. [job[t] EXCEPT !.todo = job[t].todo + 1] \in Job
        BY <1>1, <4>1 DEF Job
      <4> QED
        BY <1>3, <3>2, <4>2 DEF RenderFrame, TypeOK
    <3> QED
      BY <3>1, <3>2
  <2> QED
    BY <1>3, <2>1, <2>2, <2>3 DEF RenderFrame, TypeOK
<1>4. CASE RefuseFrame(t)
  <2>1. sent' \in [Conns -> Seq(Message)]
    BY <1>1, <1>4, SentTypes DEF RefuseFrame, ServerTypes
  <2> QED
    BY <1>4, <2>1, EndJobTypes, TellTypes DEF RefuseFrame, TypeOK
<1>5. CASE ForwardSchema(t)
  BY <1>1, <1>5, EndJobTypes, QuietTypes DEF ForwardSchema, TypeOK
<1> QED
  BY <1>2, <1>3, <1>4, <1>5 DEF FinishJob

LEMMA WebTypes ==
  ASSUME TypeOK, Web
  PROVE  TypeOK'
<1> USE DEF connVars, rendererVars, defaultAppVars, stackVars
<1>1. \A r \in apps : app[r].id \in Ids
  BY DEF TypeOK, App
<1>2. CASE WebHello
  BY <1>1, <1>2, QuietTypes DEF WebHello, TypeOK
<1>3. ASSUME NEW type \in {"setAppParam", "getAppParams"}, NEW id \in Ids,
             WebParam(type, id)
      PROVE  TypeOK'
  <2>1. sent' \in [Conns -> Seq(Message)]
    <3>1. CASE sent' = Quiet
      BY <3>1, QuietTypes
    <3>2. CASE \E r \in apps : sent' = To(app[r].conn, Msg(type, id))
      <4>1. \A c : To(c, Msg(type, id)) \in [Conns -> Seq(Message)]
        BY SentTypes DEF ServerTypes
      <4> QED
        BY <3>2, <4>1
    <3> QED
      BY <1>3, <3>1, <3>2 DEF WebParam
  <2> QED
    BY <1>3, <2>1 DEF WebParam, TypeOK
<1>4. CASE WebInput
  <2>1. \A c \in Conns : Cardinality({r \in apps : app[r].conn = c}) \in Nat
    <3> SUFFICES ASSUME NEW c \in Conns
                 PROVE  Cardinality({r \in apps : app[r].conn = c}) \in Nat
      OBVIOUS
    <3> DEFINE S == {r \in apps : app[r].conn = c}
    <3>1. S \in SUBSET (1..MaxRegs)
      BY DEF TypeOK, Regs
    <3>2. IsFiniteSet(1..MaxRegs)
      BY ProtocolAssumption, FS_Interval
    <3> HIDE DEF S
    <3>3. IsFiniteSet(S)
      BY <3>1, <3>2, FS_Subset
    <3>4. Cardinality(S) \in Nat
      BY <3>3, FS_CardinalityType
    <3> QED
      BY <3>4 DEF S
  <2>2. Msg("joystickData", 0) \in Message
    BY MsgTypes, NumberTypes DEF ServerTypes
  <2>3. sent' \in [Conns -> Seq(Message)]
    <3> SUFFICES ASSUME NEW c \in Conns
                 PROVE  [i \in 1..Cardinality({r \in apps : app[r].conn = c}) |->
                           Msg("joystickData", 0)] \in Seq(Message)
      BY <1>4 DEF WebInput
    <3> QED
      BY <2>1, <2>2
  <2> QED
    BY <1>4, <2>3 DEF WebInput, TypeOK
<1> QED
  BY <1>2, <1>3, <1>4 DEF Web

LEMMA TickTypes ==
  ASSUME TypeOK, Tick
  PROVE  TypeOK'
<1> USE DEF connVars, rendererVars, defaultAppVars, stackVars
<1>1. ASSUME NEW pressed \in BOOLEAN, TickButton(pressed)
      PROVE  TypeOK'
  <2>1. sent' \in [Conns -> Seq(Message)]
    <3>1. CASE sent' = Quiet
      BY <3>1, QuietTypes
    <3>2. CASE \E r \in apps : sent' = To(app[r].conn, Msg("appKill", 0))
      <4>1. \A c : To(c, Msg("appKill", 0)) \in [Conns -> Seq(Message)]
        BY NumberTypes, SentTypes DEF ServerTypes
      <4> QED
        BY <3>2, <4>1
    <3> QED
      BY <1>1, <3>1, <3>2 DEF TickButton
  <2> QED
    BY <1>1, <2>1 DEF TickButton, TypeOK
<1>2. CASE TickManage
  <2>1. /\ defaultAppStarted' \in BOOLEAN
        /\ defaultAppPid' \in BOOLEAN
        /\ proc' \in {"none", "alive", "zombie"}
    BY <1>2 DEF TickManage, ManageDefaultApp, StartDefaultApp, ReapDefaultApp, TypeOK
  <2> QED
    BY <1>2, <2>1, EraseAppsTypes DEF TickManage, TypeOK
<1>3. CASE TickSweep
  BY <1>3, QuietTypes DEF TickSweep, TypeOK
<1> QED
  BY <1>1, <1>2, <1>3 DEF Tick

LEMMA NextTypes == TypeOK /\ [Next]_vars => TypeOK'
<1> USE DEF connVars, rendererVars, defaultAppVars, stackVars
<1> SUFFICES ASSUME TypeOK, [Next]_vars PROVE TypeOK'
  OBVIOUS
<1>1. ASSUME NEW c \in Conns, Receive(c) PROVE TypeOK'
  BY <1>1, HandlerTypes DEF Receive, ClientMessages
<1>2. ASSUME NEW t \in Threads, FinishJob(t) PROVE TypeOK'
  BY <1>2, JobTypes
<1>3. CASE Web
  BY <1>3, WebTypes
<1>4. CASE Tick
  BY <1>4, TickTypes
<1>5. CASE Shutdown
  BY <1>5, QuietTypes DEF Shutdown, TypeOK
<1>6. CASE StopDefaultApp
  BY <1>6, QuietTypes DEF StopDefaultApp, TypeOK
<1>7. ASSUME NEW c \in Conns, newConnectionCallback(c) PROVE TypeOK'
  BY <1>7, QuietTypes DEF newConnectionCallback, TypeOK
<1>8. ASSUME NEW c \in Conns, ConnectionDies(c) PROVE TypeOK'
  BY <1>8, QuietTypes DEF ConnectionDies, TypeOK
<1>9. CASE DefaultAppExits
  BY <1>9, QuietTypes DEF DefaultAppExits, TypeOK
<1>10. CASE UNCHANGED vars
  BY <1>10 DEF vars, TypeOK
<1> QED
  BY <1>1, <1>2, <1>3, <1>4, <1>5, <1>6, <1>7, <1>8, <1>9, <1>10
  DEF Next, Terminated

\* Every variable of the server keeps its type (Server.h, App.h): every
\* message it sends is one of the protocol, and no index leaves its range.
THEOREM TypeCorrect == Spec => []TypeOK
BY InitTypes, NextTypes, PTL DEF Spec

-----------------------------------------------------------------------------
(***************************************************************************)
(* How the steps move the stack.                                           *)
(***************************************************************************)
StackSteps ==
  \/ \E c \in Conns, m \in ClientMessages :
       /\ Ready(c)
       /\ \/ RegisterApp(c, m)
          \/ CheckFrame(c, m)
          \/ RecordState(c, m)
          \/ AppKilled(c, m)
          \/ StoreSchema(c, m)
  \/ \E t \in Threads : \/ ReplyRegistered(t)
                         \/ RenderFrame(t)
                         \/ RefuseFrame(t)
                         \/ ForwardSchema(t)
  \/ TickManage

StackAtRest == UNCHANGED <<stackVars, job, told, shown, brightness>>

\* Every step is one of those above or leaves all they are about as it is.
LEMMA StepsOfNext ==
  ASSUME [Next]_vars
  PROVE  StackSteps \/ StackAtRest
<1> USE DEF connVars, rendererVars, defaultAppVars, stackVars, StackAtRest
<1>1. ASSUME NEW c \in Conns, Receive(c) PROVE StackSteps \/ StackAtRest
  <2>1. PICK m \in ClientMessages : handleRequest(c, m)
    BY <1>1 DEF Receive
  <2> QED
    BY <2>1 DEF handleRequest, GetServerInfo, Inert, StackSteps
<1>2. ASSUME NEW t \in Threads, FinishJob(t) PROVE StackSteps
  BY <1>2 DEF FinishJob, StackSteps
<1>3. CASE Web
  BY <1>3 DEF Web, WebHello, WebParam, WebInput
<1>4. CASE Tick
  BY <1>4 DEF Tick, TickButton, TickSweep, StackSteps
<1>5. CASE Shutdown \/ StopDefaultApp \/ DefaultAppExits
  BY <1>5 DEF Shutdown, StopDefaultApp, DefaultAppExits
<1>6. ASSUME NEW c \in Conns, newConnectionCallback(c) \/ ConnectionDies(c)
      PROVE  StackAtRest
  BY <1>6 DEF newConnectionCallback, ConnectionDies
<1>7. CASE UNCHANGED vars
  BY <1>7 DEF vars
<1> QED
  BY <1>1, <1>2, <1>3, <1>4, <1>5, <1>6, <1>7 DEF Next, Terminated

\* The stack holds registrations that have been made.
Numbered == apps \subseteq 1..registered

\* Pushing covers the app that was on top, and only it, and tells it.
LEMMA PushCoversTop ==
  ASSUME TypeOK, Numbered, NEW c \in Conns, NEW m, RegisterApp(c, m)
  PROVE  /\ Numbered'
         /\ registered' = registered + 1
         /\ registered + 1 \in Regs
         /\ apps' = apps \cup {registered + 1}
         /\ \A r \in apps : r < registered + 1
         /\ \A r \in apps' : Covered(r)' <=> r \in apps
         /\ \A r \in apps : app'[r] = app[r]
         /\ \A r \in apps : told'[r] = IF IsTop(r) THEN "pause" ELSE told[r]
<1> DEFINE new == registered + 1
<1>1. /\ registered' = new /\ apps' = apps \cup {new}
      /\ registered \in Nat /\ new \in Regs
  BY ProtocolAssumption DEF RegisterApp, TypeOK, Regs
<1>2. \A r \in apps : r \in Nat /\ r < new
  BY <1>1 DEF Numbered
<1>3. Numbered'
  BY <1>1, <1>2 DEF Numbered
<1>4. \A r \in apps' : Covered(r)' <=> r \in apps
  <2> SUFFICES ASSUME NEW r \in apps' PROVE Covered(r)' <=> r \in apps
    OBVIOUS
  <2>1. CASE r \in apps
    BY <1>1, <1>2, <2>1 DEF Covered, IsTop, IsLast
  <2>2. CASE r = new
    BY <1>1, <1>2, <2>2 DEF Covered, IsTop, IsLast
  <2> QED
    BY <1>1, <2>1, <2>2
<1>5. \A r \in apps : app'[r] = app[r]
  BY <1>2 DEF RegisterApp, TypeOK
<1>6. \A r \in apps : told'[r] = IF IsTop(r) THEN "pause" ELSE told[r]
  <2>1. \A q, r \in apps : IsTop(q) /\ IsTop(r) => q = r
    BY <1>2 DEF IsTop, IsLast
  <2> QED
    BY <2>1 DEF RegisterApp, PauseTopApp, TypeOK
<1> QED
  BY <1>1, <1>2, <1>3, <1>4, <1>5, <1>6

\* Erasing covers nobody, and the covered apps that stay are told nothing.
LEMMA EraseCoversNobody ==
  ASSUME TypeOK, Numbered, NEW gone, NEW resume, EraseApps(gone, resume)
  PROVE  /\ Numbered'
         /\ registered' = registered
         /\ apps' = apps \ gone
         /\ \A r \in apps' : r \in apps /\ app'[r] = app[r]
         /\ \A r \in apps' : Covered(r)' => Covered(r) /\ told'[r] = told[r]
<1>1. apps' = apps \ gone /\ registered' = registered
  BY DEF EraseApps
<1>2. Numbered'
  BY <1>1 DEF Numbered
<1>3. \A r \in apps' : r \in apps /\ app'[r] = app[r]
  BY <1>1 DEF EraseApps, TypeOK
<1>4. \A r \in apps' : Covered(r)' => Covered(r)
  BY <1>1 DEF Covered, IsTop, IsLast
<1>5. ASSUME NEW r \in apps', Covered(r)' PROVE told'[r] = told[r]
  <2>1. r \in Regs /\ r \notin gone
    BY <1>1 DEF TypeOK
  <2>2. \A q \in apps' : IsLast(q, apps') => q # r
    BY <1>5 DEF Covered, IsTop
  <2> QED
    BY <1>1, <2>1, <2>2 DEF EraseApps
<1> QED
  BY <1>1, <1>2, <1>3, <1>4, <1>5

-----------------------------------------------------------------------------
(***************************************************************************)
(* Whatever the threads are and whatever rand() yields.                    *)
(***************************************************************************)

\* How the stack moves: a registration is pushed, some are erased, or those
\* present keep their order, their ids and their connections.
LEMMA StackMoves ==
  ASSUME TypeOK, Numbered, [Next]_vars
  PROVE  /\ Numbered'
         /\ \/ \E c \in Conns, m \in ClientMessages :
                 Ready(c) /\ RegisterApp(c, m)
            \/ /\ registered' = registered
               /\ \A r \in apps' : /\ r \in apps
                                    /\ app'[r].id = app[r].id
                                    /\ app'[r].conn = app[r].conn
<1> DEFINE Shrinks == /\ registered' = registered
                      /\ \A r \in apps' : /\ r \in apps
                                           /\ app'[r].id = app[r].id
                                           /\ app'[r].conn = app[r].conn
<1>1. ASSUME Shrinks PROVE Numbered'
  BY <1>1 DEF Numbered
<1>2. ASSUME NEW c \in Conns, NEW m, RegisterApp(c, m) PROVE Numbered'
  BY <1>2, PushCoversTop
<1>3. ASSUME NEW gone, NEW resume, EraseApps(gone, resume) PROVE Shrinks
  BY <1>3, EraseCoversNobody
<1>4. ASSUME UNCHANGED stackVars PROVE Shrinks
  BY <1>4 DEF stackVars
<1>5. ASSUME NEW c \in Conns, NEW m, RecordState(c, m) \/ StoreSchema(c, m)
      PROVE  Shrinks
  <2>1. \A r \in apps : r \in Regs /\ app[r] \in App
    BY DEF TypeOK
  <2>2. \A r \in apps : app'[r].id = app[r].id /\ app'[r].conn = app[r].conn
    BY <1>5, <2>1 DEF RecordState, StoreSchema, App
  <2> QED
    BY <1>5, <2>2 DEF RecordState, StoreSchema
<1> HIDE DEF Shrinks
<1>6. CASE StackAtRest
  BY <1>1, <1>4, <1>6 DEF StackAtRest, Shrinks
<1>7. ASSUME NEW t \in Threads,
             \/ ReplyRegistered(t) \/ RenderFrame(t)
             \/ RefuseFrame(t) \/ ForwardSchema(t)
      PROVE  Shrinks
  BY <1>4, <1>7 DEF ReplyRegistered, RenderFrame, RefuseFrame, ForwardSchema
<1>8. ASSUME NEW c \in Conns, NEW m, CheckFrame(c, m) PROVE Shrinks
  BY <1>4, <1>8 DEF CheckFrame
<1>9. ASSUME NEW c \in Conns, NEW m, AppKilled(c, m) PROVE Shrinks
  BY <1>3, <1>9 DEF AppKilled
<1>10. CASE TickManage
  BY <1>1, <1>3, <1>10 DEF TickManage, Shrinks
<1> QED
  BY <1>1, <1>2, <1>5, <1>6, <1>7, <1>8, <1>9, <1>10, StepsOfNext
  DEF StackSteps, Shrinks

\* How the threads' jobs move: one is begun by the handler, or none is.
LEMMA JobMoves ==
  ASSUME TypeOK, [Next]_vars
  PROVE  \/ \E c \in Conns, m \in ClientMessages :
              Ready(c) /\ (RegisterApp(c, m) \/ CheckFrame(c, m) \/ StoreSchema(c, m))
         \/ \A t \in Threads : job'[t].step = "render" =>
              /\ job[t].step = "render"
              /\ job'[t].id = job[t].id
              /\ job'[t].top = job[t].top
<1> DEFINE Keeps == \A t \in Threads : job'[t].step = "render" =>
                      /\ job[t].step = "render"
                      /\ job'[t].id = job[t].id
                      /\ job'[t].top = job[t].top
<1>1. ASSUME UNCHANGED job PROVE Keeps
  BY <1>1
<1>2. ASSUME NEW t \in Threads, EndJob(t) PROVE Keeps
  BY <1>2 DEF EndJob, NoJob, TypeOK
<1>3. ASSUME NEW t \in Threads, NEW k, job' = [job EXCEPT ![t].todo = k] PROVE Keeps
  BY <1>3 DEF TypeOK, Job
<1> HIDE DEF Keeps
<1>4. ASSUME NEW t \in Threads,
             \/ ReplyRegistered(t) \/ RenderFrame(t)
             \/ RefuseFrame(t) \/ ForwardSchema(t)
      PROVE  Keeps
  BY <1>2, <1>3, <1>4 DEF ReplyRegistered, RenderFrame, RefuseFrame, ForwardSchema
<1>5. ASSUME NEW c \in Conns, NEW m, RecordState(c, m) \/ AppKilled(c, m)
      PROVE  Keeps
  BY <1>1, <1>5 DEF RecordState, AppKilled
<1>6. CASE TickManage \/ StackAtRest
  BY <1>1, <1>6 DEF TickManage, StackAtRest
<1> QED
  BY <1>4, <1>5, <1>6, StepsOfNext DEF StackSteps, Keeps

(***************************************************************************)
(* OnlyOthersCoverApproved is not inductive: a registration made later     *)
(* must not be the one the frame was approved for.                         *)
(***************************************************************************)
ApprovedInv ==
  /\ TypeOK
  /\ Numbered
  /\ OnlyOthersCoverApproved
  /\ \A t \in Threads : job[t].step = "render" => job[t].top <= registered

LEMMA HandlerIsThread ==
  ASSUME NEW c
  PROVE  HandlerOf(c) \in Threads
BY DEF HandlerOf, Threads

LEMMA JobOfHandler ==
  ASSUME TypeOK, NEW c \in Conns, NEW step, NEW id, NEW level,
         StartJob(c, step, id, level)
  PROVE  /\ job'[HandlerOf(c)].step = step
         /\ job'[HandlerOf(c)].id = id
         /\ job'[HandlerOf(c)].todo = 1
         /\ step = "render" => job'[HandlerOf(c)].top = TopReg
         /\ \A t \in Threads \ {HandlerOf(c)} : job'[t] = job[t]
BY HandlerIsThread DEF StartJob, TypeOK

LEMMA ApprovedStep == ApprovedInv /\ [Next]_vars => ApprovedInv'
<1> SUFFICES ASSUME ApprovedInv, [Next]_vars PROVE ApprovedInv'
  OBVIOUS
<1> DEFINE Approved(j, t) ==
             /\ j.top # 0
             /\ j.top \in apps => app[j.top].id = j.id
             /\ \A q \in apps : q > j.top => HandlerOf(app[q].conn) # t
             /\ j.top <= registered
           Shrinks == /\ registered' = registered
                      /\ \A r \in apps' : /\ r \in apps
                                           /\ app'[r].id = app[r].id
                                           /\ app'[r].conn = app[r].conn
<1>1. TypeOK /\ TypeOK' /\ Numbered /\ Numbered'
  BY NextTypes, StackMoves DEF ApprovedInv
<1>2. \A t \in Threads : job[t].step = "render" => Approved(job[t], t)
  BY DEF ApprovedInv, OnlyOthersCoverApproved
<1>3. SUFFICES ASSUME NEW t \in Threads, job'[t].step = "render"
               PROVE  Approved(job[t], t)'
  BY <1>1 DEF ApprovedInv, OnlyOthersCoverApproved
<1>4. \A j : Shrinks /\ Approved(j, t) =>
             /\ j.top # 0
             /\ j.top \in apps' => app'[j.top].id = j.id
             /\ \A q \in apps' : q > j.top => HandlerOf(app'[q].conn) # t
             /\ j.top <= registered'
  OBVIOUS
<1> HIDE DEF Shrinks
<1>5. ASSUME NEW c \in Conns, NEW m, RegisterApp(c, m)
      PROVE  Approved(job[t], t)'
  <2> DEFINE new == registered + 1
  <2>1. /\ registered' = new /\ new \in Regs /\ apps' = apps \cup {new}
        /\ \A q \in apps : app'[q] = app[q]
    BY <1>1, <1>5, PushCoversTop
  <2>2. PICK id \in DrawableIds(new) :
          /\ app' = [app EXCEPT ![new] = [NoApp EXCEPT !.id = id, !.conn = c]]
          /\ StartJob(c, "reply", id, 0)
    BY <1>5 DEF RegisterApp
  <2>3. t # HandlerOf(c) /\ job'[t] = job[t]
    BY <1>1, <1>3, <2>2, JobOfHandler
  <2>4. app'[new].conn = c
    BY <1>1, <2>1, <2>2 DEF TypeOK, NoApp
  <2>5. Approved(job[t], t) /\ job[t].top \in Nat /\ registered \in Nat
    <3>1. job[t].top \in Nat /\ registered \in Nat
      BY <1>1, ProtocolAssumption DEF TypeOK, Job, Ids
    <3> QED
      BY <1>2, <1>3, <2>3, <3>1
  <2> QED
    BY <2>1, <2>3, <2>4, <2>5
<1>6. ASSUME NEW c \in Conns, NEW m, CheckFrame(c, m)
      PROVE  Approved(job[t], t)'
  <2>1. UNCHANGED <<apps, app, registered>>
    BY <1>6 DEF CheckFrame, stackVars
  <2>2. CASE t # HandlerOf(c)
    <3>1. job'[t] = job[t]
      BY <1>1, <1>6, <2>2, JobOfHandler DEF CheckFrame
    <3> QED
      BY <1>2, <1>3, <2>1, <3>1
  <2>3. CASE t = HandlerOf(c)
    <3>1. IsTopId(m.id) /\ job'[t].top = TopReg /\ job'[t].id = m.id
      BY <1>1, <1>3, <1>6, <2>3, JobOfHandler DEF CheckFrame
    <3>2. PICK r \in apps : IsTop(r) /\ app[r].id = m.id
      BY <3>1 DEF IsTopId
    <3>3. TopReg = r
      BY <1>1, <3>2, TopRegIsTop
    <3>4. r # 0 /\ r <= registered
      BY <1>1, <3>2, ProtocolAssumption DEF TypeOK, Regs, Numbered
    <3>5. \A q \in apps : ~(q > r)
      <4>1. apps \subseteq Nat
        BY <1>1 DEF TypeOK, Regs
      <4> QED
        BY <3>2, <4>1 DEF IsTop, IsLast
    <3> QED
      BY <2>1, <3>1, <3>2, <3>3, <3>4, <3>5
  <2> QED
    BY <2>2, <2>3
<1>7. ASSUME NEW c \in Conns, NEW m, StoreSchema(c, m)
      PROVE  Approved(job[t], t)'
  <2>1. t # HandlerOf(c) /\ job'[t] = job[t]
    BY <1>1, <1>3, <1>7, JobOfHandler DEF StoreSchema
  <2>2. Shrinks
    <3>1. \A r \in apps : r \in Regs /\ app[r] \in App
      BY <1>1 DEF TypeOK
    <3>2. \A r \in apps : app'[r].id = app[r].id /\ app'[r].conn = app[r].conn
      BY <1>7, <3>1 DEF StoreSchema, App
    <3> QED
      BY <1>7, <3>2 DEF StoreSchema, Shrinks
  <2> QED
    BY <1>2, <1>3, <1>4, <2>1, <2>2
<1>8. ASSUME \A u \in Threads : job'[u].step = "render" =>
               /\ job[u].step = "render"
               /\ job'[u].id = job[u].id
               /\ job'[u].top = job[u].top,
             Shrinks
      PROVE  Approved(job[t], t)'
  <2>1. /\ Approved(job[t], t)
        /\ job'[t].id = job[t].id /\ job'[t].top = job[t].top
    BY <1>2, <1>3, <1>8
  <2> QED
    BY <1>4, <1>8, <2>1
<1> QED
  BY <1>1, <1>5, <1>6, <1>7, <1>8, StackMoves, JobMoves DEF Shrinks

\* Whichever threads there are and even when ids collide: what a thread renders
\* is a frame of the app that was on top at the check, and only apps that other
\* threads registered can have come above it since (Server.cpp:199-235).
THEOREM OnlyOthersCover == Spec => []OnlyOthersCoverApproved
<1>1. Init => ApprovedInv
  BY InitTypes DEF Init, ApprovedInv, Numbered, OnlyOthersCoverApproved, NoJob
<1>2. ApprovedInv => OnlyOthersCoverApproved
  BY DEF ApprovedInv
<1> QED
  BY <1>1, <1>2, ApprovedStep, PTL DEF Spec

NeverResumedInv == TypeOK /\ Numbered /\ CoveredNeverResumed

LEMMA NeverResumedStep == NeverResumedInv /\ [Next]_vars => NeverResumedInv'
<1> SUFFICES ASSUME NeverResumedInv, [Next]_vars PROVE NeverResumedInv'
  OBVIOUS
<1> USE DEF NeverResumedInv
<1>1. TypeOK'
  BY NextTypes
<1>2. ASSUME NEW c \in Conns, NEW m, RegisterApp(c, m)
      PROVE  NeverResumedInv'
  BY <1>1, <1>2, PushCoversTop DEF CoveredNeverResumed, Covered
<1>3. ASSUME NEW gone, NEW resume, EraseApps(gone, resume)
      PROVE  NeverResumedInv'
  BY <1>1, <1>3, EraseCoversNobody DEF CoveredNeverResumed
<1>4. ASSUME UNCHANGED <<apps, registered>>,
             \A r \in apps : told'[r] # "resume" \/ told'[r] = told[r]
      PROVE  NeverResumedInv'
  BY <1>1, <1>4 DEF CoveredNeverResumed, Numbered, Covered, IsTop, IsLast
<1>5. ASSUME NEW c \in Conns, NEW m,
             CheckFrame(c, m) \/ RecordState(c, m) \/ StoreSchema(c, m)
      PROVE  NeverResumedInv'
  BY <1>4, <1>5 DEF CheckFrame, RecordState, StoreSchema, stackVars
<1>6. ASSUME NEW t \in Threads,
             \/ ReplyRegistered(t) \/ RenderFrame(t)
             \/ RefuseFrame(t) \/ ForwardSchema(t)
      PROVE  NeverResumedInv'
  <2>1. \A r \in apps : r \in Regs
    BY DEF TypeOK
  <2> QED
    BY <1>4, <1>6, <2>1
    DEF ReplyRegistered, RenderFrame, RefuseFrame, ForwardSchema, stackVars, Tell
<1>7. CASE StackAtRest
  BY <1>4, <1>7 DEF StackAtRest, stackVars
<1> QED
  BY <1>2, <1>3, <1>5, <1>6, <1>7, StepsOfNext
  DEF StackSteps, AppKilled, TickManage

\* An app that is not on top never has appResume as its last word, whichever
\* threads handle the messages and even when ids collide: registerApp's pause
\* and resumeTopApp share appsMutex (Server.cpp:40-49, 162-175, 382-396).
THEOREM NeverResumed == Spec => []CoveredNeverResumed
<1>1. Init => NeverResumedInv
  BY InitTypes DEF Init, NeverResumedInv, Numbered, CoveredNeverResumed
<1>2. NeverResumedInv => CoveredNeverResumed
  BY DEF NeverResumedInv
<1> QED
  BY <1>1, <1>2, NeverResumedStep, PTL DEF Spec

-----------------------------------------------------------------------------
(***************************************************************************)
(* The default application.                                                *)
(***************************************************************************)
TrackedInv == TypeOK /\ DefaultAppTracked

LEMMA TrackedStep == TrackedInv /\ [Next]_vars => TrackedInv'
<1> SUFFICES ASSUME TrackedInv, [Next]_vars PROVE DefaultAppTracked'
  BY NextTypes DEF TrackedInv
<1> USE DEF TrackedInv, DefaultAppTracked, defaultAppVars
<1>1. ASSUME UNCHANGED <<tickAt, defaultAppVars>> PROVE DefaultAppTracked'
  BY <1>1
<1>2. ASSUME NEW c \in Conns, Receive(c) PROVE DefaultAppTracked'
  BY <1>1, <1>2 DEF Receive, handleRequest, RegisterApp, GetServerInfo,
    CheckFrame, RecordState, AppKilled, StoreSchema, Inert
<1>3. ASSUME NEW t \in Threads, FinishJob(t) PROVE DefaultAppTracked'
  BY <1>1, <1>3 DEF FinishJob, ReplyRegistered, RenderFrame, RefuseFrame,
    ForwardSchema
<1>4. CASE Web
  BY <1>1, <1>4 DEF Web, WebHello, WebParam, WebInput
<1>5. ASSUME NEW pressed \in BOOLEAN, TickButton(pressed) PROVE DefaultAppTracked'
  BY <1>5 DEF TickButton
<1>6. CASE TickManage
  BY <1>6 DEF TickManage, ManageDefaultApp, StartDefaultApp, ReapDefaultApp,
    DefaultAppStillAlive, TypeOK
<1>7. CASE TickSweep \/ Shutdown
  BY <1>7 DEF TickSweep, Shutdown
<1>8. CASE StopDefaultApp
  BY <1>8 DEF StopDefaultApp, TypeOK
<1>9. ASSUME NEW c \in Conns, newConnectionCallback(c) \/ ConnectionDies(c)
      PROVE  DefaultAppTracked'
  BY <1>1, <1>9 DEF newConnectionCallback, ConnectionDies
<1>10. CASE DefaultAppExits
  BY <1>10 DEF DefaultAppExits
<1>11. CASE UNCHANGED vars
  BY <1>1, <1>11 DEF vars
<1> QED
  BY <1>2, <1>3, <1>4, <1>5, <1>6, <1>7, <1>8, <1>9, <1>10, <1>11
  DEF Next, Tick, Terminated

\* No child of the server is lost: the pid is kept from fork to waitpid, and a
\* server that has stopped leaves none behind (Server.cpp:340-380, 413-430).
THEOREM NoChildLost == Spec => []DefaultAppTracked
<1>1. Init => TrackedInv
  BY InitTypes DEF Init, TrackedInv, DefaultAppTracked
<1>2. TrackedInv => DefaultAppTracked
  BY DEF TrackedInv
<1> QED
  BY <1>1, <1>2, TrackedStep, PTL DEF Spec

-----------------------------------------------------------------------------
(***************************************************************************)
(* What holds as long as the ids drawn are distinct, whatever the threads. *)
(***************************************************************************)

\* Ids are the registrations' own.
OwnIds == \A r \in apps : app[r].id = r

OwnInv == TypeOK /\ Numbered /\ OwnIds

LEMMA OwnInit == Init => OwnInv
BY InitTypes DEF Init, OwnInv, Numbered, OwnIds

LEMMA OwnStep ==
  ASSUME DistinctIds = TRUE
  PROVE  OwnInv /\ [Next]_vars => OwnInv'
<1> SUFFICES ASSUME OwnInv, [Next]_vars PROVE OwnInv'
  OBVIOUS
<1>1. TypeOK' /\ Numbered'
  BY NextTypes, StackMoves DEF OwnInv
<1>2. ASSUME NEW c \in Conns, NEW m, RegisterApp(c, m) PROVE OwnIds'
  <2> DEFINE new == registered + 1
  <2>1. /\ new \in Regs /\ apps' = apps \cup {new}
        /\ \A r \in apps : app'[r] = app[r]
    BY <1>2, PushCoversTop DEF OwnInv
  <2>2. PICK id \in DrawableIds(new) :
          app' = [app EXCEPT ![new] = [NoApp EXCEPT !.id = id, !.conn = c]]
    BY <1>2 DEF RegisterApp
  <2>3. id = new
    BY DEF DrawableIds
  <2> HIDE DEF new
  <2>4. app'[new].id = new
    BY <2>1, <2>2, <2>3 DEF OwnInv, TypeOK, NoApp
  <2> QED
    BY <2>1, <2>4 DEF OwnInv, OwnIds
<1>3. (\A r \in apps' : r \in apps /\ app'[r].id = app[r].id) => OwnIds'
  BY DEF OwnInv, OwnIds
<1> QED
  BY <1>1, <1>2, <1>3, StackMoves DEF OwnInv

LEMMA EraseResumes ==
  ASSUME TypeOK, Numbered, NEW gone, NEW resume, EraseApps(gone, resume), resume,
         NEW r \in apps, IsTop(r)'
  PROVE  sent' = To(app[r].conn, Msg("appResume", app[r].id))
<1>1. apps' = apps \ gone /\ apps \subseteq Nat
  BY DEF EraseApps, TypeOK, Regs
<1>2. IsLast(r, apps \ gone)
  BY <1>1 DEF IsTop
<1>3. \A q : IsLast(q, apps \ gone) => q = r
  BY <1>1, <1>2 DEF IsLast
<1> QED
  BY <1>2, <1>3 DEF EraseApps, IsLast

Resumed == \A r \in apps : (Covered(r) /\ IsTop(r)') =>
             sent' = To(app[r].conn, Msg("appResume", app[r].id))

LEMMA ResumedStep ==
  ASSUME DistinctIds = TRUE
  PROVE  OwnInv /\ [Next]_vars => [Resumed]_vars
<1> SUFFICES ASSUME OwnInv, [Next]_vars,
                    NEW r \in apps, Covered(r), IsTop(r)'
             PROVE  sent' = To(app[r].conn, Msg("appResume", app[r].id))
  BY DEF Resumed
<1>1. /\ TypeOK /\ Numbered
      /\ \A q \in apps : q \in Nat /\ app[q].id = q
  BY DEF OwnInv, OwnIds, TypeOK, Regs
<1>2. apps' # apps
  BY DEF Covered, IsTop, IsLast
<1>3. ASSUME NEW c \in Conns, NEW m, RegisterApp(c, m) PROVE FALSE
  BY <1>1, <1>3, PushCoversTop DEF Covered
<1>4. PICK q \in apps : r < q
  BY <1>1 DEF Covered, IsTop, IsLast
<1>5. ASSUME NEW gone, apps' = apps \ gone PROVE q \in gone
  BY <1>1, <1>4, <1>5 DEF IsTop, IsLast
<1>6. ASSUME NEW c \in Conns, NEW m, AppKilled(c, m)
      PROVE  sent' = To(app[r].conn, Msg("appResume", app[r].id))
  <2> DEFINE gone == {p \in apps : app[p].id = m.id}
  <2>1. EraseApps(gone, \E p \in gone : IsTop(p)) /\ apps' = apps \ gone
    BY <1>6 DEF AppKilled, EraseApps
  <2>2. q \in gone /\ \A p \in gone : p = q
    BY <1>1, <1>5, <2>1
  <2>3. \A p \in apps : p <= q
    <3>1. \A p \in apps \ gone : p <= r
      BY <2>1 DEF IsTop, IsLast
    <3> QED
      BY <1>1, <1>4, <2>2, <3>1
  <2>4. \E p \in gone : IsTop(p)
    BY <2>2, <2>3 DEF IsTop, IsLast
  <2> HIDE DEF gone
  <2> QED
    BY <1>1, <2>1, <2>4, EraseResumes
<1>7. CASE TickManage
  <2>1. EraseApps(DeadApps, TopIdChanges(DeadApps)) /\ apps' = apps \ DeadApps
    BY <1>7 DEF TickManage, EraseApps
  <2>2. PICK top \in apps : IsTop(top)
    <3>1. apps \in SUBSET (1..MaxRegs) /\ apps # {} /\ MaxRegs \in Nat
      BY <1>1, ProtocolAssumption DEF TypeOK, Regs
    <3> QED
      BY <3>1, LastExists DEF IsTop
  <2>3. IsLast(r, apps \ DeadApps)
    BY <2>1 DEF IsTop
  <2>4. app[top].id # app[r].id
    BY <1>1, <1>4, <2>2 DEF IsTop, IsLast
  <2>5. TopIdChanges(DeadApps)
    BY <2>2, <2>3, <2>4 DEF TopIdChanges, IsLast
  <2> QED
    BY <1>1, <2>1, <2>5, EraseResumes
<1>8. ASSUME NEW c \in Conns, NEW m,
             CheckFrame(c, m) \/ RecordState(c, m) \/ StoreSchema(c, m)
      PROVE  FALSE
  BY <1>2, <1>8 DEF CheckFrame, RecordState, StoreSchema, stackVars
<1>9. ASSUME NEW t \in Threads,
             \/ ReplyRegistered(t) \/ RenderFrame(t)
             \/ RefuseFrame(t) \/ ForwardSchema(t)
      PROVE  FALSE
  BY <1>2, <1>9
  DEF ReplyRegistered, RenderFrame, RefuseFrame, ForwardSchema, stackVars
<1>10. ~StackAtRest
  BY <1>2 DEF StackAtRest, stackVars
<1> QED
  BY <1>3, <1>6, <1>7, <1>8, <1>9, <1>10, StepsOfNext DEF StackSteps

\* However the apps above it leave, by appKill or with a dead connection, the
\* app that comes up is sent appResume in the same locked section
\* (Server.cpp:275-296, 382-396), whichever threads handle the messages.
THEOREM WhoComesUpIsResumed ==
  ASSUME DistinctIds = TRUE
  PROVE  Spec => UncoveredTopIsResumed
<1>1. OwnInv /\ [Next]_vars => [Resumed]_vars
  BY ResumedStep
<1>2. Spec => []OwnInv
  BY OwnInit, OwnStep, PTL DEF Spec
<1>3. Spec => [][Resumed]_vars
  BY <1>1, <1>2, PTL DEF Spec
<1> QED
  BY <1>3 DEF UncoveredTopIsResumed, Resumed

-----------------------------------------------------------------------------
(***************************************************************************)
(* What holds of the server when, besides, its applications are connected  *)
(* by sockets (TCP or Unix) only.  All handlers then run on the io thread, *)
(* so that nothing is registered between the two halves of a handler.      *)
(* With IPC connections, which have a thread each, the invariants of this  *)
(* section and the next do not hold.                                       *)
(***************************************************************************)

Sockets == IpcConns = {} /\ DistinctIds = TRUE

\* A reply under way is about the last registration.
JobsCurrent == job[IoThread].step = "reply" => job[IoThread].id = registered

\* CoveredToldToPause is not inductive: a reply to registerApp would undo it if
\* its app could be covered.
SocketInv ==
  /\ TypeOK
  /\ Numbered
  /\ OwnIds
  /\ JobsCurrent
  /\ CoveredToldToPause

LEMMA SocketInit == Init => SocketInv
BY InitTypes
DEF Init, SocketInv, Numbered, OwnIds, JobsCurrent, CoveredToldToPause,
    Threads, NoJob

LEMMA OnlyIoThread ==
  ASSUME Sockets
  PROVE  Threads = {IoThread} /\ \A c \in Conns : HandlerOf(c) = IoThread
BY DEF Sockets, Threads, HandlerOf

LEMMA ReadyIsIdle ==
  ASSUME Sockets, NEW c \in Conns, Ready(c)
  PROVE  job[IoThread].step = "idle"
BY OnlyIoThread DEF Ready, NoJob

LEMMA JobStarted ==
  ASSUME Sockets, TypeOK, NEW c \in Conns, NEW step, NEW id, NEW level,
         StartJob(c, step, id, level)
  PROVE  /\ job'[IoThread].step = step
         /\ job'[IoThread].id = id
         /\ job'[IoThread].level = level
         /\ job'[IoThread].todo = 1
BY OnlyIoThread DEF TypeOK, StartJob

LEMMA JobEnded ==
  ASSUME Sockets, TypeOK, EndJob(IoThread)
  PROVE  job'[IoThread].step = "idle"
BY OnlyIoThread DEF TypeOK, EndJob, NoJob

\* With distinct ids an id names at most one app.
LEMMA SameStack ==
  ASSUME SocketInv, Sockets, TypeOK', UNCHANGED <<apps, registered>>,
         \A r \in apps : app'[r].id = app[r].id,
         JobsCurrent',
         \A r \in apps : Covered(r) => told'[r] = "pause"
  PROVE  SocketInv'
<1>1. \A r \in apps : Covered(r)' <=> Covered(r)
  BY DEF Covered, IsTop, IsLast
<1>2. OwnIds'
  BY DEF SocketInv, OwnIds
<1> QED
  BY <1>1, <1>2 DEF SocketInv, Numbered, CoveredToldToPause, Covered

LEMMA SocketPush ==
  ASSUME SocketInv, Sockets, TypeOK', NEW c \in Conns, NEW m,
         RegisterApp(c, m)
  PROVE  SocketInv'
<1> DEFINE new == registered + 1
<1>1. /\ Numbered'
      /\ registered' = new /\ new \in Regs
      /\ apps' = apps \cup {new}
      /\ \A r \in apps' : Covered(r)' <=> r \in apps
      /\ \A r \in apps : app'[r] = app[r]
      /\ \A r \in apps : told'[r] = IF IsTop(r) THEN "pause" ELSE told[r]
  BY PushCoversTop DEF SocketInv
<1>2. app'[new].id = new /\ job'[IoThread].step = "reply" /\ job'[IoThread].id = new
  <2>1. PICK id \in DrawableIds(new) :
          /\ app' = [app EXCEPT ![new] = [NoApp EXCEPT !.id = id, !.conn = c]]
          /\ StartJob(c, "reply", id, 0)
    BY DEF RegisterApp
  <2>2. id = new
    BY DEF Sockets, DrawableIds
  <2>3. app'[new].id = id
    BY <1>1, <2>1 DEF SocketInv, TypeOK, NoApp
  <2> QED
    BY <2>1, <2>2, <2>3, JobStarted DEF SocketInv
<1>3. OwnIds'
  BY <1>1, <1>2 DEF SocketInv, OwnIds
<1>4. JobsCurrent'
  BY <1>1, <1>2 DEF JobsCurrent
<1>5. CoveredToldToPause'
  BY <1>1 DEF SocketInv, CoveredToldToPause, Covered
<1> QED
  BY <1>1, <1>3, <1>4, <1>5 DEF SocketInv

LEMMA SocketErase ==
  ASSUME SocketInv, Sockets, TypeOK', UNCHANGED job, NEW gone, NEW resume,
         EraseApps(gone, resume)
  PROVE  SocketInv'
<1>1. /\ Numbered'
      /\ registered' = registered
      /\ \A r \in apps' : r \in apps /\ app'[r] = app[r]
      /\ \A r \in apps' : Covered(r)' => Covered(r) /\ told'[r] = told[r]
  BY EraseCoversNobody DEF SocketInv
<1>2. OwnIds'
  BY <1>1 DEF SocketInv, OwnIds
<1>3. JobsCurrent'
  BY <1>1 DEF SocketInv, JobsCurrent
<1>4. CoveredToldToPause'
  BY <1>1 DEF SocketInv, CoveredToldToPause
<1> QED
  BY <1>1, <1>2, <1>3, <1>4 DEF SocketInv

LEMMA SocketJobs ==
  ASSUME SocketInv, Sockets, TypeOK', NEW t \in Threads,
         \/ ReplyRegistered(t) \/ RenderFrame(t)
         \/ RefuseFrame(t) \/ ForwardSchema(t)
  PROVE  SocketInv'
<1> USE DEF stackVars
<1>1. t = IoThread
  BY OnlyIoThread
<1>2. \A r \in apps : r \in Regs /\ app[r].id = r /\ (Covered(r) => told[r] = "pause")
  BY DEF SocketInv, TypeOK, OwnIds, CoveredToldToPause
<1>3. ASSUME UNCHANGED <<stackVars>>, EndJob(t),
             \A r \in apps : Covered(r) => told'[r] = "pause"
      PROVE  SocketInv'
  <2>1. job'[IoThread].step = "idle"
    BY <1>1, <1>3, JobEnded DEF SocketInv
  <2>2. JobsCurrent'
    BY <2>1 DEF JobsCurrent
  <2> QED
    BY <1>3, <2>1, <2>2, SameStack
<1>4. CASE ReplyRegistered(t)
  <2>1. \A r \in apps : Covered(r) => r # registered
    BY <1>2, ProtocolAssumption
    DEF SocketInv, TypeOK, Regs, Numbered, Covered, IsTop, IsLast
  <2>2. \A r \in apps : Covered(r) => told'[r] = told[r]
    BY <1>1, <1>2, <1>4, <2>1 DEF ReplyRegistered, Tell, SocketInv, JobsCurrent
  <2> QED
    BY <1>2, <1>3, <1>4, <2>2 DEF ReplyRegistered
<1>5. CASE RenderFrame(t)
  <2>1. CASE EndJob(t)
    BY <1>2, <1>3, <1>5, <2>1 DEF RenderFrame
  <2>2. CASE job' = [job EXCEPT ![t].todo = job[t].todo + 1]
    <3>1. /\ job'[IoThread].step = job[IoThread].step
          /\ job'[IoThread].id = job[IoThread].id
      BY <1>1, <2>2 DEF SocketInv, TypeOK, Job
    <3>2. JobsCurrent'
      BY <1>5, <3>1 DEF SocketInv, JobsCurrent, RenderFrame
    <3> QED
      BY <1>2, <1>5, <3>1, <3>2, SameStack DEF RenderFrame
  <2> QED
    BY <1>5, <2>1, <2>2 DEF RenderFrame
<1>6. CASE RefuseFrame(t)
  BY <1>2, <1>3, <1>6 DEF RefuseFrame, Tell
<1>7. CASE ForwardSchema(t)
  BY <1>2, <1>3, <1>7 DEF ForwardSchema
<1> QED
  BY <1>4, <1>5, <1>6, <1>7

LEMMA SocketHandlers ==
  ASSUME SocketInv, Sockets, TypeOK', NEW c \in Conns, NEW m, Ready(c),
         CheckFrame(c, m) \/ RecordState(c, m) \/ StoreSchema(c, m)
  PROVE  SocketInv'
<1> USE DEF stackVars
<1>1. \A r \in apps : r \in Regs /\ app[r].id = r /\ (Covered(r) => told[r] = "pause")
  BY DEF SocketInv, TypeOK, OwnIds, CoveredToldToPause
<1>2. job[IoThread].step = "idle"
  BY ReadyIsIdle
<1>3. CASE CheckFrame(c, m)
  <2>1. job'[IoThread].step \in {"render", "refuse"}
    BY <1>3, JobStarted DEF SocketInv, CheckFrame
  <2>2. JobsCurrent'
    BY <2>1 DEF JobsCurrent
  <2> QED
    BY <1>1, <1>3, <2>2, SameStack DEF CheckFrame
<1>4. CASE RecordState(c, m)
  <2>1. \A r \in apps : app'[r].id = app[r].id
    BY <1>1, <1>4 DEF RecordState, SocketInv, TypeOK, App
  <2>2. JobsCurrent'
    BY <1>2, <1>4 DEF RecordState, JobsCurrent
  <2> QED
    BY <1>1, <1>2, <1>4, <2>1, <2>2, SameStack DEF RecordState
<1>5. CASE StoreSchema(c, m)
  <2>1. \A r \in apps : app'[r].id = app[r].id
    BY <1>1, <1>5 DEF StoreSchema, SocketInv, TypeOK, App
  <2>2. job'[IoThread].step = "forward"
    BY <1>5, JobStarted DEF StoreSchema, SocketInv
  <2>3. JobsCurrent'
    BY <2>2 DEF JobsCurrent
  <2> QED
    BY <1>1, <1>5, <2>1, <2>2, <2>3, SameStack DEF StoreSchema
<1> QED
  BY <1>3, <1>4, <1>5

LEMMA SocketStep ==
  ASSUME Sockets
  PROVE  SocketInv /\ [Next]_vars => SocketInv'
<1> SUFFICES ASSUME SocketInv, [Next]_vars PROVE SocketInv'
  OBVIOUS
<1>1. TypeOK'
  BY NextTypes DEF SocketInv
<1>2. CASE StackSteps
  BY <1>1, <1>2, SocketPush, SocketErase, SocketJobs, SocketHandlers
  DEF StackSteps, AppKilled, TickManage
<1>3. CASE StackAtRest
  <2>1. JobsCurrent'
    BY <1>3 DEF StackAtRest, stackVars, SocketInv, JobsCurrent
  <2> QED
    BY <1>1, <1>3, <2>1, SameStack
    DEF StackAtRest, stackVars, SocketInv, CoveredToldToPause, OwnIds
<1> QED
  BY <1>2, <1>3, StepsOfNext

LEMMA SocketInvariant ==
  ASSUME Sockets
  PROVE  Spec => []SocketInv
BY SocketInit, SocketStep, PTL DEF Spec

\* An app that is not on top was told to pause, and nothing it was told later
\* lets it draw (Server.cpp:164-180, 236-244).
THEOREM CoveredIsTold ==
  ASSUME Sockets
  PROVE  Spec => []CoveredToldToPause
<1>1. SocketInv => CoveredToldToPause
  BY DEF SocketInv
<1> QED
  BY <1>1, SocketInvariant, PTL

-----------------------------------------------------------------------------
(***************************************************************************)
(* What the renderers show: they agree between frames, and the server      *)
(* implements ScreenArbiter.                                               *)
(*                                                                         *)
(* RenderersAgree is not inductive: while a frame is rendered, those       *)
(* already served show it and the others agree with the last one.          *)
(***************************************************************************)
RenderProgress ==
  job[IoThread].step = "render" =>
    \A k \in Renderers :
      /\ shown[k] = IF k < job[IoThread].todo THEN job[IoThread].id
                    ELSE shown[NRenderers]
      /\ brightness[k] =
           IF k < job[IoThread].todo /\ job[IoThread].level # 0
           THEN job[IoThread].level ELSE brightness[NRenderers]

FramesInv == TypeOK /\ RenderersAgree /\ RenderProgress

LEMMA FramesInit == Init => FramesInv
BY InitTypes
DEF Init, FramesInv, RenderersAgree, RenderProgress, NoJob, Threads

LEMMA LastIsRenderer == NRenderers \in Renderers
BY RenderersAssumption DEF Renderers

LEMMA FramesStep ==
  ASSUME Sockets
  PROVE  FramesInv /\ [Next]_vars => FramesInv'
<1> SUFFICES ASSUME FramesInv, [Next]_vars PROVE FramesInv'
  OBVIOUS
<1> USE DEF rendererVars, stackVars
<1>1. TypeOK' /\ TypeOK
  BY NextTypes DEF FramesInv
<1>2. ASSUME UNCHANGED <<shown, brightness>>,
             \/ UNCHANGED job
             \/ /\ job[IoThread].step # "render"
                /\ job'[IoThread].step # "render"
      PROVE  FramesInv'
  BY <1>1, <1>2 DEF FramesInv, RenderersAgree, RenderProgress
<1>3. ASSUME NEW c \in Conns, NEW m, Ready(c),
             RegisterApp(c, m) \/ StoreSchema(c, m)
      PROVE  FramesInv'
  <2>1. job[IoThread].step # "render"
    BY <1>3, ReadyIsIdle
  <2>2. job'[IoThread].step # "render"
    BY <1>1, <1>3, JobStarted DEF RegisterApp, StoreSchema
  <2> QED
    BY <1>2, <1>3, <2>1, <2>2 DEF RegisterApp, StoreSchema
<1>4. ASSUME NEW c \in Conns, NEW m, RecordState(c, m) \/ AppKilled(c, m)
      PROVE  FramesInv'
  BY <1>2, <1>4 DEF RecordState, AppKilled
<1>5. ASSUME NEW c \in Conns, NEW m, Ready(c), CheckFrame(c, m)
      PROVE  FramesInv'
  <2>1. job[IoThread].step # "render"
    BY <1>5, ReadyIsIdle
  <2>2. \A j, k \in Renderers : shown[j] = shown[k] /\ brightness[j] = brightness[k]
    BY <2>1 DEF FramesInv, RenderersAgree
  <2>3. CASE job'[IoThread].step = "refuse"
    BY <1>2, <1>5, <2>1, <2>3 DEF CheckFrame
  <2>4. CASE job'[IoThread].step = "render" /\ job'[IoThread].todo = 1
    <3>1. \A k \in Renderers : ~(k < 1)
      BY RenderersAssumption DEF Renderers
    <3>2. RenderProgress'
      BY <1>5, <2>2, <2>4, <3>1, LastIsRenderer DEF RenderProgress, CheckFrame
    <3> QED
      BY <1>1, <2>4, <3>2 DEF FramesInv, RenderersAgree
  <2> QED
    BY <1>1, <1>5, <2>3, <2>4, JobStarted DEF CheckFrame
<1>6. ASSUME NEW t \in Threads,
             ReplyRegistered(t) \/ RefuseFrame(t) \/ ForwardSchema(t)
      PROVE  FramesInv'
  <2>1. t = IoThread
    BY OnlyIoThread
  <2>2. job[IoThread].step # "render" /\ job'[IoThread].step # "render"
    BY <1>1, <1>6, <2>1, JobEnded DEF ReplyRegistered, RefuseFrame, ForwardSchema
  <2> QED
    BY <1>2, <1>6, <2>2 DEF ReplyRegistered, RefuseFrame, ForwardSchema
<1>7. ASSUME NEW t \in Threads, RenderFrame(t)
      PROVE  FramesInv'
  <2> DEFINE k == job[IoThread].todo
             id == job[IoThread].id
             level == job[IoThread].level
  <2>1. t = IoThread /\ IoThread \in Threads
    BY OnlyIoThread
  <2>2. k \in Renderers /\ id \in Ids /\ level \in Levels
    BY <1>1, <2>1 DEF TypeOK, Job
  <2>3. /\ shown' = [shown EXCEPT ![k] = id]
        /\ brightness' = [brightness EXCEPT ![k] =
                            IF level = 0 THEN brightness[k] ELSE level]
        /\ shown \in [Renderers -> Ids] /\ brightness \in [Renderers -> Levels]
    <3>1. Outcomes(IoThread, k) = {id}
      BY OnlyIoThread DEF Outcomes, Rivals
    <3> QED
      BY <1>1, <1>7, <2>1, <3>1 DEF RenderFrame, TypeOK
  <2>4. \A j \in Renderers :
          /\ shown[j] = IF j < k THEN id ELSE shown[NRenderers]
          /\ brightness[j] = IF j < k /\ level # 0 THEN level
                             ELSE brightness[NRenderers]
    BY <1>7, <2>1 DEF RenderFrame, FramesInv, RenderProgress
  <2>5. \A j \in Renderers : j \in Nat /\ j <= NRenderers
    BY RenderersAssumption DEF Renderers
  <2>6. CASE LastRenderer(k)
    <3>1. job'[IoThread].step = "idle"
      BY <1>1, <1>7, <2>1, <2>6, JobEnded DEF RenderFrame
    <3>2. k = NRenderers
      BY <2>6 DEF LastRenderer
    <3> HIDE DEF k, id, level
    <3>3. \A j \in Renderers :
            /\ shown'[j] = id
            /\ brightness'[j] = IF level # 0 THEN level ELSE brightness[NRenderers]
      BY <2>2, <2>3, <2>4, <2>5, <3>2
    <3> QED
      BY <1>1, <3>1, <3>3 DEF FramesInv, RenderersAgree, RenderProgress
  <2>7. CASE ~LastRenderer(k)
    <3>1. job'[IoThread] = [job[IoThread] EXCEPT !.todo = k + 1]
      BY <1>1, <1>7, <2>1, <2>7 DEF RenderFrame, TypeOK
    <3>2. /\ job'[IoThread].step = "render"
          /\ job'[IoThread].todo = k + 1
          /\ job'[IoThread].id = id
          /\ job'[IoThread].level = level
      BY <1>1, <1>7, <2>1, <3>1 DEF RenderFrame, TypeOK, Job
    <3>3. k < NRenderers
      BY <2>2, <2>5, <2>7, RenderersAssumption DEF LastRenderer
    <3> HIDE DEF k, id, level
    <3>4. \A j \in Renderers :
            /\ shown'[j] = IF j < k + 1 THEN id ELSE shown'[NRenderers]
            /\ brightness'[j] = IF j < k + 1 /\ level # 0 THEN level
                                ELSE brightness'[NRenderers]
      BY <2>2, <2>3, <2>4, <2>5, <3>3, LastIsRenderer, RenderersAssumption
    <3>5. RenderProgress'
      BY <3>2, <3>4 DEF RenderProgress
    <3> QED
      BY <1>1, <3>2, <3>5 DEF FramesInv, RenderersAgree
  <2> QED
    BY <2>6, <2>7
<1>8. CASE TickManage
  BY <1>2, <1>8 DEF TickManage
<1>9. CASE StackAtRest
  BY <1>2, <1>9 DEF StackAtRest
<1> QED
  BY <1>3, <1>4, <1>5, <1>6, <1>7, <1>8, <1>9, StepsOfNext DEF StackSteps

\* Between frames all renderers show the same app at the same brightness: each
\* frame is given to every renderer (Server.cpp:207-235).
THEOREM AgreeBetweenFrames ==
  ASSUME Sockets
  PROVE  Spec => []RenderersAgree
<1>1. FramesInv => RenderersAgree
  BY DEF FramesInv
<1> QED
  BY <1>1, FramesInit, FramesStep, PTL DEF Spec

-----------------------------------------------------------------------------
(***************************************************************************)
(* The server implements ScreenArbiter, whatever the threads and the ids.  *)
(***************************************************************************)
Names == [r \in Regs |-> IF r \in apps THEN app[r].id ELSE 0]
Openers == [r \in Regs |-> IF r \in apps THEN HandlerOf(app[r].conn) ELSE NoConn]
Grants == [t \in Threads |-> IF job[t].step = "render" THEN job[t].id ELSE 0]
Lefts == [t \in Threads |-> IF job[t].step = "render"
                            THEN job[t].todo..NRenderers ELSE {}]

arbiterVars == <<apps, Names, Openers, Grants, Lefts, shown>>

LEMMA ArbiterInit == Init => Arbiter!Init
BY DEF Init, Arbiter!Init, NoJob

\* A thread whose job is not to render holds no grant before and after.
LEMMA NoGrant ==
  ASSUME TypeOK, TypeOK', NEW t \in Threads,
         job[t].step # "render", job'[t].step # "render",
         \A u \in Threads \ {t} : job'[u] = job[u]
  PROVE  Lefts[t] = {} /\ UNCHANGED <<Grants, Lefts>>
BY DEF Grants, Lefts

LEMMA ReadyHoldsNothing ==
  ASSUME NEW c, Ready(c)
  PROVE  HandlerOf(c) \in Threads /\ job[HandlerOf(c)].step = "idle"
BY HandlerIsThread DEF Ready, NoJob

LEMMA ArbiterPush ==
  ASSUME TypeOK, TypeOK', Numbered, NEW c \in Conns, NEW m, Ready(c), RegisterApp(c, m)
  PROVE  Arbiter!Next
<1> DEFINE new == registered + 1
           t == HandlerOf(c)
<1>1. /\ new \in Regs /\ new \notin apps /\ apps' = apps \cup {new}
      /\ \A q \in apps : q < new
  BY PushCoversTop, ProtocolAssumption DEF TypeOK, Numbered
<1>2. PICK id \in DrawableIds(new) :
        /\ app' = [app EXCEPT ![new] = [NoApp EXCEPT !.id = id, !.conn = c]]
        /\ StartJob(c, "reply", id, 0)
  BY DEF RegisterApp
<1>3. id \in Ids /\ t \in Threads
  BY <1>1, <1>2, DrawableTypes, HandlerIsThread
<1>4. Lefts[t] = {} /\ UNCHANGED <<Grants, Lefts>>
  BY <1>2, <1>3, JobOfHandler, ReadyHoldsNothing, NoGrant
<1> HIDE DEF new
<1>5. /\ app'[new].id = id /\ app'[new].conn = c
      /\ \A r \in Regs \ {new} : app'[r] = app[r]
  BY <1>1, <1>2 DEF TypeOK, NoApp
<1>6. /\ Names' = [Names EXCEPT ![new] = id]
      /\ Openers' = [Openers EXCEPT ![new] = t]
  BY <1>1, <1>5 DEF Names, Openers, TypeOK
<1>7. Arbiter!Open(t, new, id)
  BY <1>1, <1>4, <1>6
  DEF Arbiter!Open, RegisterApp, rendererVars, Names, Openers, Grants, Lefts
<1> QED
  BY <1>1, <1>3, <1>7 DEF Arbiter!Next

LEMMA ArbiterErase ==
  ASSUME TypeOK, NEW gone, NEW resume, EraseApps(gone, resume), UNCHANGED <<job, shown>>
  PROVE  Arbiter!Next
<1>0. PICK S \in SUBSET Regs : S = apps \cap gone
  BY DEF TypeOK
<1>1. S \in SUBSET Regs /\ apps' = apps \ S
  BY <1>0 DEF EraseApps
<1>2. \A r \in apps' : r \in Regs /\ app'[r] = app[r]
  BY DEF TypeOK, EraseApps
<1>3. /\ Names' = [r \in Regs |-> IF r \in S THEN 0 ELSE Names[r]]
      /\ Openers' = [r \in Regs |-> IF r \in S THEN NoConn ELSE Openers[r]]
  BY <1>1, <1>2 DEF Names, Openers
<1>4. UNCHANGED <<Grants, Lefts>>
  BY DEF Grants, Lefts
<1>5. Arbiter!Close(S)
  BY <1>1, <1>3, <1>4 DEF Arbiter!Close, Names, Openers, Grants, Lefts
<1> QED
  BY <1>1, <1>5 DEF Arbiter!Next

LEMMA ArbiterCheck ==
  ASSUME TypeOK, TypeOK', NEW c \in Conns, NEW m, Ready(c), CheckFrame(c, m)
  PROVE  Arbiter!Next \/ UNCHANGED arbiterVars
<1> DEFINE t == HandlerOf(c)
<1>1. t \in Threads /\ job[t].step = "idle"
  BY ReadyHoldsNothing
<1>2. UNCHANGED <<apps, Names, Openers, shown>>
  BY DEF CheckFrame, stackVars, rendererVars, Names, Openers
<1>3. CASE IsTopId(m.id)
  <2>1. /\ job'[t].step = "render" /\ job'[t].id = m.id /\ job'[t].todo = 1
        /\ \A u \in Threads \ {t} : job'[u] = job[u]
    BY <1>3, JobOfHandler DEF CheckFrame
  <2>2. PICK r \in apps : IsTop(r) /\ app[r].id = m.id
    BY <1>3 DEF IsTopId
  <2>3. r \in Regs /\ Names[r] = m.id
    BY <2>2 DEF TypeOK, Names
  <2>4. Lefts[t] = {} /\ Lefts' = [Lefts EXCEPT ![t] = Renderers]
    BY <1>1, <2>1 DEF Lefts, Renderers
  <2>5. Grants' = [Grants EXCEPT ![t] = Names[r]]
    BY <1>1, <2>1, <2>3 DEF Grants
  <2>6. Arbiter!Grant(t, r)
    BY <1>2, <2>2, <2>4, <2>5
    DEF Arbiter!Grant, Arbiter!OnTop, IsTop, IsLast, Names, Openers, Grants, Lefts
  <2> QED
    BY <1>1, <2>3, <2>6 DEF Arbiter!Next
<1>4. CASE ~IsTopId(m.id)
  <2>1. /\ job'[t].step = "refuse"
        /\ \A u \in Threads \ {t} : job'[u] = job[u]
    BY <1>4, JobOfHandler DEF CheckFrame
  <2>2. UNCHANGED <<Grants, Lefts>>
    BY <1>1, <2>1, NoGrant
  <2> QED
    BY <1>2, <2>2 DEF arbiterVars
<1> QED
  BY <1>3, <1>4

LEMMA ArbiterRender ==
  ASSUME TypeOK, TypeOK', NEW t \in Threads, RenderFrame(t)
  PROVE  Arbiter!Next
<1>0. PICK k \in Renderers : k = job[t].todo
  BY DEF TypeOK, Job
<1> DEFINE others == {u \in Threads \ {t} : k \in Lefts[u]}
<1>1. /\ k \in Renderers /\ k \in Nat /\ k <= NRenderers /\ NRenderers \in Nat
      /\ job[t].step = "render"
  BY <1>0, RenderersAssumption DEF TypeOK, Job, Renderers, RenderFrame
<1>2. UNCHANGED <<apps, Names, Openers>>
  BY DEF RenderFrame, stackVars, Names, Openers
<1>3. k \in Lefts[t] /\ Grants[t] = job[t].id
  BY <1>0, <1>1 DEF Lefts, Grants
<1>4. \A u \in Rivals(t, k) : u \in others /\ Grants[u] = job[u].id
  BY <1>1 DEF Rivals, Lefts, Grants
<1>5. \/ shown' = [shown EXCEPT ![k] = Grants[t]]
      \/ \E u \in others : shown' = [shown EXCEPT ![k] = Grants[u]]
      \/ others # {} /\ UNCHANGED shown
  <2>1. PICK id \in Outcomes(t, k) : shown' = [shown EXCEPT ![k] = id]
    BY <1>0 DEF RenderFrame
  <2>2. CASE id = job[t].id
    BY <1>3, <2>1, <2>2
  <2>3. ASSUME NEW u \in Rivals(t, k), id = job[u].id
        PROVE  \E v \in others : shown' = [shown EXCEPT ![k] = Grants[v]]
    BY <1>4, <2>1, <2>3
  <2>4. CASE id = shown[k] /\ Rivals(t, k) # {}
    <3>1. UNCHANGED shown
      BY <1>1, <2>1, <2>4 DEF TypeOK
    <3> QED
      BY <1>4, <2>4, <3>1
  <2> QED
    BY <2>1, <2>2, <2>3, <2>4 DEF Outcomes
<1> HIDE DEF others
<1>6. /\ Lefts' = [Lefts EXCEPT ![t] = Lefts[t] \ {k}]
      /\ Grants' = [Grants EXCEPT ![t] = IF Lefts[t] = {k} THEN 0 ELSE Grants[t]]
  <2>1. Lefts[t] = k..NRenderers
    BY <1>0, <1>1 DEF Lefts
  <2>2. CASE k = NRenderers
    <3>1. job' = [job EXCEPT ![t] = NoJob]
      BY <1>0, <2>2 DEF RenderFrame, LastRenderer, EndJob
    <3>2. job'[t].step = "idle" /\ \A u \in Threads \ {t} : job'[u] = job[u]
      BY <3>1 DEF TypeOK, NoJob
    <3>3. Lefts[t] = {k}
      BY <1>1, <2>1, <2>2
    <3> QED
      BY <3>2, <3>3 DEF Lefts, Grants
  <2>3. CASE k # NRenderers
    <3>1. job' = [job EXCEPT ![t].todo = k + 1]
      BY <1>0, <2>3 DEF RenderFrame, LastRenderer
    <3>2. /\ job'[t].step = "render" /\ job'[t].todo = k + 1 /\ job'[t].id = job[t].id
          /\ \A u \in Threads \ {t} : job'[u] = job[u]
      BY <1>1, <3>1 DEF TypeOK, Job
    <3>3. Lefts[t] # {k} /\ (k + 1)..NRenderers = Lefts[t] \ {k}
      BY <1>1, <2>1, <2>3
    <3> QED
      BY <1>1, <3>2, <3>3 DEF Lefts, Grants
  <2> QED
    BY <2>2, <2>3
<1>7. Arbiter!Show(t, k)
  BY <1>2, <1>3, <1>5, <1>6
  DEF Arbiter!Show, Names, Openers, Grants, Lefts, others
<1> QED
  BY <1>1, <1>7 DEF Arbiter!Next

LEMMA ArbiterStep ==
  TypeOK /\ Numbered /\ [Next]_vars => [Arbiter!Next]_(Arbiter!vars)
<1> SUFFICES ASSUME TypeOK, Numbered, [Next]_vars
             PROVE  Arbiter!Next \/ UNCHANGED arbiterVars
  BY DEF Arbiter!vars, arbiterVars, Names, Openers, Grants, Lefts
<1>1. TypeOK'
  BY NextTypes
<1>2. ASSUME NEW c \in Conns, NEW m, AppKilled(c, m) PROVE Arbiter!Next
  BY <1>2, ArbiterErase DEF AppKilled, rendererVars
<1>3. CASE TickManage
  BY <1>3, ArbiterErase DEF TickManage, rendererVars
<1>4. ASSUME NEW c \in Conns, NEW m, RecordState(c, m) \/ StoreSchema(c, m)
      PROVE  UNCHANGED <<apps, Names, Openers, shown>>
  <2>1. \A r \in apps : r \in Regs /\ app[r] \in App
    BY DEF TypeOK
  <2>2. \A r \in apps : app'[r].id = app[r].id /\ app'[r].conn = app[r].conn
    BY <1>4, <2>1 DEF RecordState, StoreSchema, App
  <2> QED
    BY <1>4, <2>2 DEF RecordState, StoreSchema, rendererVars, Names, Openers
<1>5. ASSUME NEW c \in Conns, NEW m, RecordState(c, m)
      PROVE  UNCHANGED arbiterVars
  BY <1>4, <1>5 DEF RecordState, arbiterVars, Grants, Lefts
<1>6. ASSUME NEW c \in Conns, NEW m, Ready(c), StoreSchema(c, m)
      PROVE  UNCHANGED arbiterVars
  <2>1. UNCHANGED <<Grants, Lefts>>
    BY <1>1, <1>6, JobOfHandler, ReadyHoldsNothing, NoGrant DEF StoreSchema
  <2> QED
    BY <1>4, <1>6, <2>1 DEF arbiterVars
<1>7. ASSUME NEW t \in Threads,
             ReplyRegistered(t) \/ RefuseFrame(t) \/ ForwardSchema(t)
      PROVE  UNCHANGED arbiterVars
  <2>1. /\ job[t].step # "render" /\ job'[t].step # "render"
        /\ \A u \in Threads \ {t} : job'[u] = job[u]
    BY <1>7 DEF ReplyRegistered, RefuseFrame, ForwardSchema, EndJob, NoJob, TypeOK
  <2>2. UNCHANGED <<Grants, Lefts>>
    BY <1>1, <2>1, NoGrant
  <2> QED
    BY <1>7, <2>2 DEF ReplyRegistered, RefuseFrame, ForwardSchema, stackVars,
      rendererVars, arbiterVars, Names, Openers
<1>8. CASE StackAtRest
  BY <1>8 DEF StackAtRest, stackVars, arbiterVars, Names, Openers, Grants, Lefts
<1> QED
  BY <1>1, <1>2, <1>3, <1>5, <1>6, <1>7, <1>8, ArbiterPush, ArbiterCheck,
    ArbiterRender, StepsOfNext DEF StackSteps

\* The server implements ScreenArbiter: only the app on top is granted the
\* screen, what a renderer shows is of someone who holds a grant, and a thread
\* that holds one opens no app (Server.cpp:157-246).
THEOREM ServerImplementsArbiter == Spec => ImplementsArbiter
<1>1. Init => TypeOK /\ Numbered
  BY InitTypes DEF Init, Numbered
<1>2. TypeOK /\ Numbered /\ [Next]_vars => (TypeOK /\ Numbered)'
  BY NextTypes, StackMoves
<1> QED
  BY <1>1, <1>2, ArbiterInit, ArbiterStep, PTL DEF Spec, ImplementsArbiter, Arbiter!Spec

=============================================================================
