------------------------------- MODULE IpcProofs -------------------------------
(***************************************************************************)
(* What holds of the server and applications on message queues, for any    *)
(* number of both and queues of any size: see IpcSystem.                   *)
(***************************************************************************)
EXTENDS IpcSystem, SequenceTheorems, TLAPS

\* The facts proved of the two sides alone.  Parameters are not looked at.
S == INSTANCE ServerProofs WITH
  Conns <- Clients \cup Others, IpcConns <- Clients, DistinctIds <- TRUE,
  Alphabet <- ClientTypes
A == INSTANCE ApplicationProofs WITH
  Keys <- {}, ParamTypes <- {}, MaxValue <- 0,
  params <- <<>>, schema <- <<>>, wanted <- <<>>

Conns == Clients \cup Others

\* What these facts assume of the constants holds here.
LEMMA SidesAssumptions ==
  /\ S!ProtocolAssumption /\ S!ConnsAssumption /\ S!RenderersAssumption
  /\ S!AlphabetAssumption /\ S!IdsAssumption
  /\ A!ProtocolAssumption /\ A!ClientAssumption /\ A!ParamsAssumption
BY IpcAssumption, ProtocolAssumption
DEF S!ProtocolAssumption, S!ConnsAssumption, S!RenderersAssumption,
  S!AlphabetAssumption, S!IdsAssumption, S!ClientTypes, ClientTypes,
  A!ProtocolAssumption, A!ClientAssumption, A!ParamsAssumption

-----------------------------------------------------------------------------
(***************************************************************************)
(* S and A define nothing but what Server and Client define.               *)
(***************************************************************************)
LEMMA SameMessages == S!Message = Message /\ A!Message = Message
BY DEF S!Message, S!ClientTypes, S!ServerTypes, S!Ids, S!Levels,
       A!Message, A!ClientTypes, A!ServerTypes, A!Ids, A!Levels,
       Message, ClientTypes, ServerTypes, Ids, Levels

LEMMA SameTypes ==
  /\ Server!TypeOK <=> S!TypeOK
  /\ Client!TypeOK <=> A!TypeOK
<1>1. Server!TypeOK <=> S!TypeOK
  BY DEF Server!TypeOK, Server!Regs, Server!Ids, Server!Levels, Server!Message,
    Server!ClientTypes, Server!ServerTypes, Server!Renderers, Server!Threads,
    Server!JobSteps, Server!Job, Server!AppStates, Server!App,
    S!TypeOK, S!Regs, S!Ids, S!Levels, S!Message, S!ClientTypes, S!ServerTypes,
    S!Renderers, S!Threads, S!JobSteps, S!Job, S!AppStates, S!App
<1>2. Client!TypeOK <=> A!TypeOK
  BY DEF Client!TypeOK, Client!Ids, Client!Levels, Client!Message,
    Client!ClientTypes, Client!ServerTypes, Client!AppStates, Client!MainSteps,
    A!TypeOK, A!Ids, A!Levels, A!Message, A!ClientTypes, A!ServerTypes,
    A!AppStates, A!MainSteps
<1> QED
  BY <1>1, <1>2

LEMMA SameHandler ==
  ASSUME NEW c, NEW m
  PROVE  Server!handleRequest(c, m) <=> S!handleRequest(c, m)
BY DEF
    Server!Regs, Server!Ids, Server!Levels, Server!Msg, Server!stackVars,
    Server!connVars, Server!rendererVars, Server!defaultAppVars,
    Server!Threads, Server!Quiet, Server!To, Server!Tell, Server!HandlerOf,
    Server!IsLast, Server!IsTop, Server!TopReg, Server!StartJob, Server!EndJob,
    Server!NoJob, Server!NoApp, Server!InertTypes, Server!Renderers,
    Server!DrawableIds, Server!IsFirstWith, Server!Ready, Server!EraseApps,
    Server!PauseTopApp, Server!IsTopId, Server!RegisterApp,
    Server!GetServerInfo, Server!CheckFrame, Server!RecordState,
    Server!AppKilled, Server!StoreSchema, Server!Inert, Server!handleRequest,
    S!Regs, S!Ids, S!Levels, S!Msg, S!stackVars, S!connVars, S!rendererVars,
    S!defaultAppVars, S!Threads, S!Quiet, S!To, S!Tell, S!HandlerOf,
    S!IsLast, S!IsTop, S!TopReg, S!StartJob, S!EndJob, S!NoJob, S!NoApp, S!InertTypes,
    S!Renderers, S!DrawableIds, S!IsFirstWith, S!Ready, S!EraseApps,
    S!PauseTopApp, S!IsTopId, S!RegisterApp, S!GetServerInfo, S!CheckFrame,
    S!RecordState, S!AppKilled, S!StoreSchema, S!Inert, S!handleRequest

LEMMA SameJob ==
  ASSUME NEW t
  PROVE  Server!FinishJob(t) <=> S!FinishJob(t)
BY DEF
    Server!Regs, Server!Ids, Server!Levels, Server!Msg, Server!stackVars,
    Server!connVars, Server!rendererVars, Server!defaultAppVars,
    Server!Quiet, Server!To, Server!Tell, Server!EndJob, Server!NoJob,
    Server!Threads, Server!Rivals, Server!Outcomes,
    Server!LastRenderer, Server!ReplyRegistered, Server!RenderFrame,
    Server!RefuseFrame, Server!ForwardSchema, Server!FinishJob, S!Regs,
    S!Ids, S!Levels, S!Msg, S!stackVars, S!connVars, S!rendererVars,
    S!defaultAppVars, S!Quiet, S!To, S!Tell, S!EndJob, S!NoJob,
    S!Threads, S!Rivals, S!Outcomes, S!LastRenderer, S!ReplyRegistered, S!RenderFrame, S!RefuseFrame,
    S!ForwardSchema, S!FinishJob

LEMMA SameTick ==
  /\ \A pressed : Server!TickButton(pressed) <=> S!TickButton(pressed)
  /\ Server!TickManage <=> S!TickManage
  /\ Server!TickSweep <=> S!TickSweep
BY DEF
    Server!Regs, Server!Ids, Server!Levels, Server!Msg, Server!stackVars,
    Server!connVars, Server!rendererVars, Server!defaultAppVars,
    Server!Quiet, Server!To, Server!IsLast, Server!IsTop, Server!NoApp,
    Server!EraseApps, Server!DeadApps, Server!TopIdChanges,
    Server!DefaultAppStillAlive, Server!StartDefaultApp,
    Server!ReapDefaultApp, Server!ManageDefaultApp, Server!TickButton,
    Server!TickManage, Server!TickSweep, S!Regs, S!Ids, S!Levels, S!Msg,
    S!stackVars, S!connVars, S!rendererVars, S!defaultAppVars, S!Quiet, S!To,
    S!IsLast, S!IsTop, S!NoApp, S!EraseApps, S!DeadApps, S!TopIdChanges,
    S!DefaultAppStillAlive, S!StartDefaultApp, S!ReapDefaultApp,
    S!ManageDefaultApp, S!TickButton, S!TickManage, S!TickSweep

LEMMA SameRest ==
  /\ Server!WebInput <=> S!WebInput
  /\ \A c : /\ Server!newConnectionCallback(c) <=> S!newConnectionCallback(c)
            /\ Server!ConnectionDies(c) <=> S!ConnectionDies(c)
BY DEF
    Server!Msg, Server!stackVars, Server!connVars, Server!rendererVars,
    Server!defaultAppVars, Server!Quiet, Server!Threads, Server!WebInput,
    Server!newConnectionCallback, Server!ConnectionDies, S!Msg, S!stackVars,
    S!connVars, S!rendererVars, S!defaultAppVars, S!Quiet, S!Threads,
    S!WebInput, S!newConnectionCallback, S!ConnectionDies, Server!Cardinality,
    S!Cardinality

LEMMA SameMain ==
  ASSUME NEW a
  PROVE  (Client!Start(a) \/ Client!MainStep(a) \/ Client!LoopThrows(a)) <=>
         (A!Start(a) \/ A!MainStep(a) \/ A!LoopThrows(a))
BY DEF
    Client!Levels, Client!Msg, Client!Post, Client!Goto, Client!NextRound,
    Client!MainStep, Client!Start, Client!CreateMainThread, Client!LoopHead,
    Client!TakeAck, Client!Draw, Client!LoopThrows, Client!TestKilled,
    Client!CheckAlive, Client!CheckFails, Client!Reconnect, A!Levels, A!Msg,
    A!Post, A!Goto, A!NextRound, A!MainStep, A!Start, A!CreateMainThread,
    A!LoopHead, A!TakeAck, A!Draw, A!LoopThrows, A!TestKilled, A!CheckAlive,
    A!CheckFails, A!Reconnect

LEMMA SameReceive ==
  ASSUME NEW a, NEW m
  PROVE  Client!handleRequest(a, m) <=> A!handleRequest(a, m)
BY DEF
    Client!threadVars, Client!Msg, Client!Post, Client!SetState,
    Client!Registered, Client!ServerInfo, Client!Pause, Client!Resume,
    Client!Kill, Client!FrameAck, Client!Answer, Client!TakeInput,
    Client!handleRequest, A!threadVars, A!Msg, A!Post, A!SetState,
    A!Registered, A!ServerInfo, A!Pause, A!Resume, A!Kill, A!FrameAck,
    A!Answer, A!TakeInput, A!handleRequest

LEMMA SameIo ==
  ASSUME NEW a
  PROVE  (Client!IoStep(a) \/ Client!ConnectionFails(a)) <=>
         (A!IoStep(a) \/ A!ConnectionFails(a))
BY DEF
    Client!threadVars, Client!JoinMainThread, Client!Write,
    Client!IoRunReturns, Client!IoStep, Client!ConnectionFails, A!threadVars,
    A!JoinMainThread, A!Write, A!IoRunReturns, A!IoStep, A!ConnectionFails

LEMMA SameWeb ==
  /\ Server!WebHello <=> S!WebHello
  /\ \A type, id : Server!WebParam(type, id) <=> S!WebParam(type, id)
  /\ Server!Shutdown <=> S!Shutdown
  /\ Server!StopDefaultApp <=> S!StopDefaultApp
  /\ Server!DefaultAppExits <=> S!DefaultAppExits
  /\ Server!Terminated <=> S!Terminated
BY DEF
    Server!Msg, Server!stackVars, Server!connVars, Server!rendererVars,
    Server!defaultAppVars, Server!vars, Server!Quiet, Server!To, Server!IsLast,
    Server!IsTop, Server!IsFirstWith, Server!WebHello, Server!WebParam,
    Server!Shutdown, Server!StopDefaultApp, Server!DefaultAppExits,
    Server!Terminated, S!Msg, S!stackVars, S!connVars, S!rendererVars,
    S!defaultAppVars, S!vars, S!Quiet, S!To, S!IsLast, S!IsTop, S!IsFirstWith,
    S!WebHello, S!WebParam, S!Shutdown, S!StopDefaultApp, S!DefaultAppExits,
    S!Terminated

LEMMA SameClientMessages == Server!ClientMessages = S!ClientMessages
BY DEF Server!ClientMessages, Server!Message, Server!ClientTypes, Server!ServerTypes,
  Server!Ids, Server!Levels, S!ClientMessages, S!Message, S!ClientTypes,
  S!ServerTypes, S!Ids, S!Levels

LEMMA SameNext == [Server!Next]_(Server!vars) <=> [S!Next]_(S!vars)
<1>1. \A c : Server!Receive(c) <=> S!Receive(c)
  BY SameClientMessages, SameHandler DEF Server!Receive, S!Receive
<1>2. Server!Web <=> S!Web
  BY SameRest, SameWeb DEF Server!Web, S!Web, Server!Ids, S!Ids
<1>3. Server!Tick <=> S!Tick
  BY SameTick DEF Server!Tick, S!Tick
<1>4. Server!Threads = S!Threads
  BY DEF Server!Threads, S!Threads
<1>5. Server!Next <=> S!Next
  BY <1>1, <1>2, <1>3, <1>4, SameJob, SameRest, SameWeb DEF Server!Next, S!Next
<1>6. UNCHANGED Server!vars <=> UNCHANGED S!vars
  BY DEF Server!vars, S!vars
<1> QED
  BY <1>5, <1>6

LEMMA SameInit == Server!Init <=> S!Init
BY DEF Server!Init, Server!Regs, Server!NoApp, Server!Threads, Server!NoJob,
  Server!Renderers, S!Init, S!Regs, S!NoApp, S!Threads, S!NoJob, S!Renderers

-----------------------------------------------------------------------------
(***************************************************************************)
(* Helpers.                                                                *)
(***************************************************************************)
Requests == Server!ClientMessages

PostsRequests == posted \in [Clients -> Seq(Requests)]

LEMMA SameRequests ==
  /\ A!Requests = Requests
  /\ A!OnlyRequests <=> PostsRequests
  /\ Requests \subseteq Message
BY DEF A!Requests, A!OnlyRequests, A!Message, A!ClientTypes, A!ServerTypes, A!Ids,
  A!Levels, Requests, Server!ClientMessages, Server!Message, Server!ClientTypes,
  Server!ServerTypes, Server!Ids, Server!Levels, Message, ClientTypes, ServerTypes,
  Ids, Levels, PostsRequests

\* A queue is a sequence of at most QueueSize messages of a set.
Queue(T) == {q \in Seq(T) : Len(q) <= QueueSize}

LEMMA QueueAppend ==
  ASSUME NEW T, NEW q \in Queue(T), HasRoom(q), NEW m \in T
  PROVE  Append(q, m) \in Queue(T) /\ q \o <<m>> = Append(q, m)
<1>1. /\ q \in Seq(T) /\ Len(q) \in Nat /\ Append(q, m) \in Seq(T)
      /\ Len(Append(q, m)) = Len(q) + 1
  BY AppendProperties DEF Queue
<1>2. q \o <<m>> = Append(q, m)
  BY <1>1, AppendIsConcat
<1> QED
  BY <1>1, <1>2, IpcAssumption DEF Queue, HasRoom

LEMMA QueueTail ==
  ASSUME NEW T, NEW q \in Queue(T), q # <<>>
  PROVE  Head(q) \in T /\ Tail(q) \in Queue(T)
<1>1. /\ q \in Seq(T) /\ Len(q) \in Nat /\ Head(q) \in T /\ Tail(q) \in Seq(T)
      /\ Len(Tail(q)) = Len(q) - 1
  BY HeadTailProperties DEF Queue
<1> QED
  BY <1>1, IpcAssumption DEF Queue

LEMMA OneTaken ==
  ASSUME NEW T, NEW qs \in [Clients -> Queue(T)], NEW qs1,
         \/ qs1 = qs
         \/ \E c \in Clients : qs[c] # <<>> /\ qs1 = [qs EXCEPT ![c] = Tail(@)]
  PROVE  qs1 \in [Clients -> Queue(T)]
<1>1. ASSUME NEW c \in Clients, qs[c] # <<>>, qs1 = [qs EXCEPT ![c] = Tail(@)]
      PROVE  qs1 \in [Clients -> Queue(T)]
  <2>1. Tail(qs[c]) \in Queue(T)
    BY <1>1, QueueTail
  <2> QED
    BY <1>1, <2>1
<1> QED
  BY <1>1

\* One message taken out of the middle.
LEMMA Removed ==
  ASSUME NEW T, NEW q \in Seq(T), NEW i \in 1..Len(q)
  PROVE  SubSeq(q, 1, i - 1) \o SubSeq(q, i + 1, Len(q)) \in Seq(T)
<1>1. SubSeq(q, 1, i - 1) \in Seq(T)
  BY SubSeqProperties
<1>2. SubSeq(q, i + 1, Len(q)) \in Seq(T)
  BY SubSeqProperties
<1> QED
  BY <1>1, <1>2

\* TypeOK is not inductive: that what the server takes from a queue is a
\* message it knows takes the invariant below.
IpcInv ==
  /\ Server!TypeOK /\ Client!TypeOK
  /\ PostsRequests
  /\ c2s \in [Clients -> Queue(Requests)]
  /\ s2c \in [Clients -> Queue(Message)]
  /\ hand \in [Threads -> Seq(Pending)]
  /\ holder \in Threads \cup {NoThread}
  /\ holder # NoThread => hand[holder] # <<>>
  /\ gone \subseteq Clients

LEMMA InvTypes == IpcInv => TypeOK
<1> SUFFICES ASSUME IpcInv PROVE TypeOK
  OBVIOUS
<1>1. \A c \in Clients : c2s[c] \in Seq(Message) /\ Len(c2s[c]) <= QueueSize
  <2> SUFFICES ASSUME NEW c \in Clients
               PROVE  c2s[c] \in Seq(Message) /\ Len(c2s[c]) <= QueueSize
    OBVIOUS
  <2>1. c2s[c] \in Seq(Requests) /\ Len(c2s[c]) <= QueueSize
    BY DEF IpcInv, Queue
  <2>2. \A i \in 1..Len(c2s[c]) : c2s[c][i] \in Message
    BY <2>1, SameRequests
  <2> QED
    BY <2>1, <2>2
<1> QED
  BY <1>1 DEF IpcInv, TypeOK, Queue

-----------------------------------------------------------------------------
(***************************************************************************)
(* What the steps do, by sides.                                            *)
(***************************************************************************)

\* What a step passes to sendMessage is one message at most: this is why
\* Send has to look at one connection only.
OneMessage == sent' = Server!Quiet \/ \E d, m : sent' = Server!To(d, m)

LEMMA HandlerSendsOne ==
  ASSUME NEW c, NEW m, Server!handleRequest(c, m)
  PROVE  OneMessage
BY DEF OneMessage, Server!handleRequest, Server!RegisterApp, Server!PauseTopApp,
  Server!GetServerInfo, Server!CheckFrame, Server!RecordState, Server!AppKilled,
  Server!EraseApps, Server!StoreSchema, Server!Inert

LEMMA JobSendsOne ==
  ASSUME NEW t, Server!FinishJob(t)
  PROVE  OneMessage
BY DEF OneMessage, Server!FinishJob, Server!ReplyRegistered, Server!RenderFrame,
  Server!RefuseFrame, Server!ForwardSchema

LEMMA RestSendsOne ==
  ASSUME \/ \E pressed \in BOOLEAN : Server!TickButton(pressed)
         \/ Server!TickManage \/ Server!TickSweep
         \/ \E c : Server!newConnectionCallback(c)
         \/ \E type, id : Server!WebParam(type, id)
  PROVE  OneMessage
BY DEF OneMessage, Server!TickButton, Server!TickManage, Server!EraseApps,
  Server!TickSweep, Server!newConnectionCallback, Server!WebParam

\* A step of the server that a thread of it makes and sends from.
ServerSide ==
  /\ Server!Next
  /\ OneMessage
  /\ \E t \in Threads, locked \in BOOLEAN : Send(t, locked)
  /\ UNCHANGED <<clientVars, gone>>
  /\ \/ UNCHANGED c2s
     \/ \E c \in Clients : c2s[c] # <<>> /\ c2s' = [c2s EXCEPT ![c] = Tail(@)]

ClientMoves(a) ==
  \/ Client!Start(a) \/ Client!MainStep(a) \/ Client!LoopThrows(a)
  \/ \E m \in Message : Client!handleRequest(a, m)
  \/ Client!IoStep(a) \/ Client!ConnectionFails(a)

\* A step of process a that leaves the queue to the server alone.
ClientSide(a) ==
  /\ ClientMoves(a)
  /\ UNCHANGED <<serverVars, c2s, hand, holder, gone>>
  /\ \/ UNCHANGED s2c
     \/ \E c \in Clients : s2c[c] # <<>> /\ s2c' = [s2c EXCEPT ![c] = Tail(@)]

LEMMA ThreadsOfServer ==
  /\ Server!Threads \subseteq Threads
  /\ Clients \subseteq Threads
  /\ {IoThread, "main", "web"} \subseteq Threads
BY DEF Server!Threads, Threads

LEMMA ServerWorksIsSide ==
  ASSUME NEW t \in Threads, NEW locked \in BOOLEAN, Server!Next, OneMessage,
         Send(t, locked), UNCHANGED <<clientVars, c2s, gone>>
  PROVE  ServerSide
BY DEF ServerSide

LEMMA SidesOfNext ==
  ASSUME IpcInv, Next
  PROVE  \/ ServerSide
         \/ \E a \in Clients : ClientSide(a) \/ ClientPuts(a) \/ Crash(a)
         \/ \E t \in Threads : Put(t)
<1>1. ASSUME NEW c \in Clients, ServerReceives(c) PROVE ServerSide
  <2> DEFINE m == Head(c2s[c])
             locked == m.type \notin UnlockedTypes
  <2>1. Server!handleRequest(c, m) /\ Send(c, locked) /\ c2s[c] # <<>>
        /\ c2s' = [c2s EXCEPT ![c] = Tail(@)] /\ UNCHANGED <<clientVars, gone>>
    BY <1>1 DEF ServerReceives
  <2>2. m \in Requests
    BY <2>1, QueueTail DEF IpcInv
  <2>3. Server!Next
    BY <2>1, <2>2 DEF Server!Next, Server!Receive, Requests
  <2>4. OneMessage
    BY <2>1, HandlerSendsOne
  <2>5. c \in Threads /\ locked \in BOOLEAN
    BY ThreadsOfServer
  <2> HIDE DEF m, locked
  <2> QED
    BY <2>1, <2>3, <2>4, <2>5 DEF ServerSide
<1>2. ASSUME NEW c \in Clients, ServerAccepts(c) PROVE ServerSide
  <2>1. Server!newConnectionCallback(c) /\ UNCHANGED <<clientVars, c2s, s2c, hand, holder, gone>>
    BY <1>2 DEF ServerAccepts
  <2>2. Server!Next /\ OneMessage
    BY <2>1, RestSendsOne DEF Server!Next
  <2>3. Send("main", FALSE)
    BY <2>1 DEF Send, Server!newConnectionCallback, Server!Quiet
  <2> QED
    BY <2>1, <2>2, <2>3, ThreadsOfServer, ServerWorksIsSide
<1>3. ASSUME NEW t \in Server!Threads, ServerFinishes(t) PROVE ServerSide
  <2>1. Server!Next /\ OneMessage
    BY <1>3, JobSendsOne DEF ServerFinishes, ServerWorks, Server!Next
  <2> QED
    BY <1>3, <2>1, ThreadsOfServer, ServerWorksIsSide DEF ServerFinishes, ServerWorks
<1>4. ASSUME NEW o \in Others, OtherConnects(o) PROVE ServerSide
  <2>1. Server!Next /\ OneMessage
    BY <1>4, RestSendsOne DEF OtherConnects, ServerWorks, Server!Next
  <2> QED
    BY <1>4, <2>1, ThreadsOfServer, ServerWorksIsSide DEF OtherConnects, ServerWorks
<1>5. ASSUME NEW o \in Others, OtherSends(o) PROVE ServerSide
  <2>1. ASSUME NEW m \in Requests, OtherRequests(o, m) PROVE ServerSide
    <3>1. Server!handleRequest(o, m) /\ Send(IoThread, TRUE)
          /\ UNCHANGED <<clientVars, c2s, gone>>
      BY <2>1 DEF OtherRequests, ServerWorks
    <3>2. Server!Next /\ OneMessage
      BY <2>1, <3>1, HandlerSendsOne DEF Server!Next, Server!Receive, Requests
    <3> QED
      BY <3>1, <3>2, ThreadsOfServer, ServerWorksIsSide
  <2>2. ASSUME NEW type \in {"registerApp", "setScreenFrame", "appKill"}, NEW id \in Ids
        PROVE  Msg(type, id) \in Requests
    BY ProtocolAssumption DEF Requests, Server!ClientMessages, Server!Message,
      Server!Ids, Server!Levels, Server!ClientTypes, Server!ServerTypes, Ids, Msg,
      ClientTypes
  <2>3. CASE OtherRequests(o, Msg("registerApp", 0))
    BY <2>1, <2>2, <2>3, ProtocolAssumption DEF Ids
  <2>4. ASSUME NEW r \in apps, NEW type \in {"setScreenFrame", "appKill"},
               OtherRequests(o, Msg(type, app[r].id))
        PROVE  ServerSide
    <3>1. app[r].id \in Ids
      BY DEF IpcInv, Server!TypeOK, Server!App, Server!Ids, Ids
    <3> QED
      BY <2>1, <2>2, <2>4, <3>1
  <2> QED
    BY <1>5, <2>3, <2>4 DEF OtherSends
<1>6. CASE TickKills \/ ServerTicks
  <2>1. Server!Tick /\ OneMessage
    BY <1>6, RestSendsOne DEF TickKills, ServerTicks, ServerWorks, Server!Tick
  <2>2. Server!Next
    BY <2>1 DEF Server!Next
  <2>3. /\ \E locked \in BOOLEAN : Send("main", locked)
        /\ UNCHANGED <<clientVars, c2s, gone>>
    BY <1>6 DEF TickKills, ServerTicks, ServerWorks
  <2> QED
    BY <2>1, <2>2, <2>3, ThreadsOfServer, ServerWorksIsSide
<1>7. CASE WebAsks
  <2>1. Server!WebParam("getAppParams", 0) /\ Send("web", TRUE)
        /\ UNCHANGED <<clientVars, c2s, gone>>
    BY <1>7 DEF WebAsks, ServerWorks
  <2>2. 0 \in Server!Ids
    BY ProtocolAssumption DEF Server!Ids
  <2>3. Server!Next /\ OneMessage
    BY <2>1, <2>2, RestSendsOne DEF Server!Next, Server!Web
  <2> QED
    BY <2>1, <2>3, ThreadsOfServer, ServerWorksIsSide
<1>8. ASSUME NEW a \in Clients, ClientStarts(a) \/ ClientLoops(a) \/ ClientJoins(a)
      PROVE  ClientSide(a)
  <2>1. ClientMoves(a)
    BY <1>8 DEF ClientStarts, ClientLoops, ClientJoins, ClientWorks, ClientMoves,
      Client!MainStep, Client!IoStep
  <2> QED
    BY <1>8, <2>1 DEF ClientStarts, ClientLoops, ClientJoins, ClientWorks, ClientSide
<1>9. ASSUME NEW a \in Clients, ClientReceives(a) PROVE ClientSide(a)
  <2>1. Head(s2c[a]) \in Message
    BY <1>9, QueueTail DEF ClientReceives, IpcInv
  <2>2. ClientMoves(a)
    BY <1>9, <2>1 DEF ClientReceives, ClientMoves
  <2> QED
    BY <1>9, <2>2 DEF ClientReceives, ClientSide
<1> QED
  BY <1>1, <1>2, <1>3, <1>4, <1>5, <1>6, <1>7, <1>8, <1>9 DEF Next, Event

-----------------------------------------------------------------------------
(***************************************************************************)
(* The invariant.                                                          *)
(***************************************************************************)
LEMMA IpcInit == Init => IpcInv
<1> SUFFICES ASSUME Init PROVE IpcInv
  OBVIOUS
<1>1. Server!TypeOK
  BY SameInit, S!InitTypes, SidesAssumptions, SameTypes DEF Init
<1>2. Client!TypeOK
  <2>1. A!Init
    BY DEF Init, Client!Init, A!Init
  <2> QED
    BY <2>1, A!InitTypes, SidesAssumptions, SameTypes
<1>3. \A T : <<>> \in Queue(T)
  BY IpcAssumption DEF Queue
<1>4. PostsRequests
  BY DEF Init, Client!Init, PostsRequests
<1> QED
  BY <1>1, <1>2, <1>3, <1>4 DEF Init, IpcInv

\* Whoever sends what a step of the server passed to sendMessage keeps the
\* queues within their size.
LEMMA SendKeeps ==
  ASSUME IpcInv, Server!TypeOK', OneMessage, NEW t \in Threads,
         NEW locked \in BOOLEAN, Send(t, locked)
  PROVE  /\ s2c' \in [Clients -> Queue(Message)]
         /\ hand' \in [Threads -> Seq(Pending)]
         /\ holder' \in Threads \cup {NoThread}
         /\ holder' # NoThread => hand'[holder'] # <<>>
<1>1. /\ s2c \in [Clients -> Queue(Message)] /\ hand \in [Threads -> Seq(Pending)]
      /\ holder \in Threads \cup {NoThread}
      /\ holder # NoThread => hand[holder] # <<>>
  BY DEF IpcInv
<1>2. CASE UNCHANGED <<s2c, hand, holder>>
  BY <1>1, <1>2
<1>3. ASSUME NEW c \in Clients, sent'[c] # <<>>,
             \/ /\ HasRoom(s2c[c])
                /\ s2c' = [s2c EXCEPT ![c] = @ \o sent'[c]]
                /\ UNCHANGED <<hand, holder>>
             \/ /\ ~HasRoom(s2c[c])
                /\ hand' = [hand EXCEPT ![t] = <<[to |-> c, msg |-> Head(sent'[c])]>>]
                /\ holder' = IF locked THEN t ELSE holder
                /\ UNCHANGED s2c
      PROVE  /\ s2c' \in [Clients -> Queue(Message)]
             /\ hand' \in [Threads -> Seq(Pending)]
             /\ holder' \in Threads \cup {NoThread}
             /\ holder' # NoThread => hand'[holder'] # <<>>
  <2>1. PICK m : sent'[c] = <<m>>
    BY <1>3 DEF OneMessage, Server!To, Server!Quiet
  <2>2. sent'[c] \in Seq(Message)
    BY SameMessages DEF Server!TypeOK, Server!Message, Message, Server!ClientTypes,
      Server!ServerTypes, Server!Ids, Server!Levels, ClientTypes, ServerTypes, Ids, Levels
  <2>3. m \in Message /\ Head(sent'[c]) = m
    BY <2>1, <2>2
  <2>4. CASE HasRoom(s2c[c])
    <3>1. s2c[c] \o <<m>> \in Queue(Message)
      BY <1>1, <2>3, <2>4, QueueAppend
    <3>2. s2c' = [s2c EXCEPT ![c] = s2c[c] \o <<m>>] /\ UNCHANGED <<hand, holder>>
      BY <1>3, <2>1, <2>4
    <3> QED
      BY <1>1, <3>1, <3>2
  <2>5. CASE ~HasRoom(s2c[c])
    <3> DEFINE wait == <<[to |-> c, msg |-> m]>>
    <3>1. wait \in Seq(Pending) /\ wait # <<>>
      BY <2>3 DEF Pending
    <3>2. hand' = [hand EXCEPT ![t] = wait] /\ holder' \in {t, holder} /\ UNCHANGED s2c
      BY <1>3, <2>3, <2>5
    <3> HIDE DEF wait
    <3> QED
      BY <1>1, <3>1, <3>2
  <2> QED
    BY <2>4, <2>5
<1> QED
  BY <1>2, <1>3 DEF Send

LEMMA ServerSideKeeps ==
  ASSUME IpcInv, ServerSide
  PROVE  IpcInv'
<1>1. Server!TypeOK'
  <2>1. S!TypeOK /\ [S!Next]_(S!vars)
    BY SameTypes, SameNext DEF IpcInv, ServerSide
  <2>2. S!TypeOK'
    BY <2>1, S!NextTypes, SidesAssumptions
  <2> QED
    BY <2>2, SameTypes, PTL
<1>2. Client!TypeOK' /\ PostsRequests' /\ gone' \subseteq Clients
  BY DEF IpcInv, ServerSide, Client!TypeOK, PostsRequests, clientVars
<1>3. c2s' \in [Clients -> Queue(Requests)]
  BY OneTaken DEF ServerSide, IpcInv
<1>4. PICK t \in Threads, locked \in BOOLEAN : Send(t, locked)
  BY DEF ServerSide
<1>5. OneMessage
  BY DEF ServerSide
<1> QED
  BY <1>1, <1>2, <1>3, <1>4, <1>5, SendKeeps DEF IpcInv

LEMMA PutKeeps ==
  ASSUME IpcInv, NEW t \in Threads, Put(t)
  PROVE  IpcInv'
<1>1. /\ s2c \in [Clients -> Queue(Message)] /\ hand \in [Threads -> Seq(Pending)]
      /\ holder \in Threads \cup {NoThread}
      /\ holder # NoThread => hand[holder] # <<>>
  BY DEF IpcInv
<1> DEFINE p == Head(hand[t])
<1>2. p \in Pending /\ p.to \in Clients /\ p.msg \in Message
  <2>1. hand[t] \in Seq(Pending) /\ hand[t] # <<>>
    BY <1>1 DEF Put
  <2>2. p \in Pending
    BY <2>1
  <2> HIDE DEF p
  <2> QED
    BY <2>2 DEF Pending
<1>3. HasRoom(s2c[p.to]) /\ s2c' = [s2c EXCEPT ![p.to] = Append(s2c[p.to], p.msg)]
  BY DEF Put
<1> HIDE DEF p
<1>4. s2c' \in [Clients -> Queue(Message)]
  BY <1>1, <1>2, <1>3, QueueAppend
<1>5. /\ hand' \in [Threads -> Seq(Pending)]
      /\ holder' \in Threads \cup {NoThread}
      /\ holder' # NoThread => hand'[holder'] # <<>>
  BY <1>1 DEF Put
<1>6. UNCHANGED <<serverVars, clientVars, c2s, gone>>
  BY DEF Put
<1>7. Server!TypeOK'
  BY <1>6 DEF IpcInv, Server!TypeOK, serverVars
<1>8. Client!TypeOK' /\ PostsRequests'
  BY <1>6 DEF IpcInv, Client!TypeOK, PostsRequests, clientVars
<1> QED
  BY <1>4, <1>5, <1>6, <1>7, <1>8 DEF IpcInv

LEMMA ClientSideKeeps ==
  ASSUME IpcInv, NEW a \in Clients, ClientSide(a)
  PROVE  IpcInv'
<1>1. A!TypeOK /\ A!OnlyRequests
  BY SameTypes, SameRequests DEF IpcInv
<1>2. A!TypeOK' /\ A!OnlyRequests'
  <2>1. CASE Client!Start(a) \/ Client!MainStep(a) \/ Client!LoopThrows(a)
    BY <1>1, <2>1, SameMain, A!MainTypes, A!MainRequests, SidesAssumptions
  <2>2. ASSUME NEW m \in Message, Client!handleRequest(a, m)
        PROVE  A!TypeOK' /\ A!OnlyRequests'
    BY <1>1, <2>2, SameReceive, SameMessages, A!HandlerTypes, A!HandlerRequests,
       SidesAssumptions
  <2>3. CASE Client!IoStep(a) \/ Client!ConnectionFails(a)
    BY <1>1, <2>3, SameIo, A!IoTypes, A!IoRequests, SidesAssumptions
  <2> QED
    BY <2>1, <2>2, <2>3 DEF ClientSide, ClientMoves
<1>3. Client!TypeOK' /\ PostsRequests'
  BY <1>2, SameTypes, SameRequests, PTL
<1>4. s2c' \in [Clients -> Queue(Message)]
  BY OneTaken DEF ClientSide, IpcInv
<1>5. UNCHANGED <<serverVars, c2s, hand, holder, gone>>
  BY DEF ClientSide
<1>6. Server!TypeOK'
  BY <1>5 DEF IpcInv, Server!TypeOK, serverVars
<1> QED
  BY <1>3, <1>4, <1>5, <1>6 DEF IpcInv

LEMMA ClientPutsKeeps ==
  ASSUME IpcInv, NEW a \in Clients, ClientPuts(a)
  PROVE  IpcInv'
<1>1. c2s \in [Clients -> Queue(Requests)] /\ posted \in [Clients -> Seq(Requests)]
  BY DEF IpcInv, PostsRequests
<1>2. PICK i \in 1..Len(posted[a]) :
        /\ c2s' = [c2s EXCEPT ![a] = Append(@, posted[a][i])]
        /\ posted' = [posted EXCEPT ![a] = SubSeq(@, 1, i - 1) \o SubSeq(@, i + 1, Len(@))]
  BY DEF ClientPuts
<1>3. posted[a][i] \in Requests /\ HasRoom(c2s[a])
  BY <1>1 DEF ClientPuts
<1>4. c2s' \in [Clients -> Queue(Requests)]
  BY <1>1, <1>2, <1>3, QueueAppend
<1> DEFINE left == SubSeq(posted[a], 1, i - 1) \o SubSeq(posted[a], i + 1, Len(posted[a]))
<1>5. left \in Seq(Requests)
  BY <1>1, Removed
<1>6. posted[a] \in Seq(Message) /\ posted \in [Clients -> Seq(Message)]
  BY SameTypes, SameMessages DEF IpcInv, A!TypeOK
<1>7. left \in Seq(Message)
  BY <1>6, Removed
<1>8. posted' = [posted EXCEPT ![a] = left]
  BY <1>2
<1> HIDE DEF left
<1>9. PostsRequests' /\ posted' \in [Clients -> Seq(Message)]
  BY <1>1, <1>5, <1>6, <1>7, <1>8 DEF PostsRequests
<1>10. UNCHANGED <<serverVars, appState, appId, frameAcked, screens, mainAt,
                   looping, ioAt, connDead, s2c, hand, holder, gone>>
  BY DEF ClientPuts
<1>11. Server!TypeOK'
  BY <1>10 DEF IpcInv, Server!TypeOK, serverVars
<1>12. Client!TypeOK'
  <2>1. A!TypeOK
    BY SameTypes DEF IpcInv
  <2>2. A!TypeOK'
    BY <2>1, <1>9, <1>10, SameMessages DEF A!TypeOK
  <2> QED
    BY <2>2, SameTypes, PTL
<1> QED
  BY <1>4, <1>9, <1>10, <1>11, <1>12 DEF IpcInv

LEMMA IpcNext == IpcInv /\ [Next]_vars => IpcInv'
<1> SUFFICES ASSUME IpcInv, [Next]_vars PROVE IpcInv'
  OBVIOUS
<1>1. CASE UNCHANGED vars \/ \E a \in Clients : Crash(a)
  <2>1. UNCHANGED <<serverVars, clientVars, c2s, s2c, hand, holder>>
        /\ gone' \subseteq Clients
    BY <1>1 DEF vars, Crash, IpcInv
  <2>2. Server!TypeOK'
    BY <2>1 DEF IpcInv, Server!TypeOK, serverVars
  <2>3. Client!TypeOK' /\ PostsRequests'
    BY <2>1 DEF IpcInv, Client!TypeOK, PostsRequests, clientVars
  <2> QED
    BY <2>1, <2>2, <2>3 DEF IpcInv
<1> QED
  BY <1>1, SidesOfNext, ServerSideKeeps, PutKeeps, ClientSideKeeps, ClientPutsKeeps

\* Server, processes, what waits in the queues and in the threads' hands keep
\* their types, and no queue holds more than its places
\* (common/IpcConnection.cpp).
THEOREM TypeCorrect == Spec => []TypeOK
BY IpcInit, IpcNext, InvTypes, PTL DEF Spec

LEMMA ServerStepOrNone ==
  IpcInv /\ [Next]_vars => [Server!Next]_(Server!vars)
<1> SUFFICES ASSUME IpcInv, [Next]_vars PROVE [Server!Next]_(Server!vars)
  OBVIOUS
<1>1. CASE \/ \E a \in Clients : ClientSide(a) \/ ClientPuts(a) \/ Crash(a)
           \/ \E t \in Threads : Put(t)
           \/ UNCHANGED vars
  <2>1. UNCHANGED serverVars
    BY <1>1 DEF ClientSide, ClientPuts, Crash, Put, vars
  <2> QED
    BY <2>1 DEF serverVars, Server!vars
<1> QED
  BY <1>1, SidesOfNext DEF ServerSide

\* Seen from its stack of applications, the server whose threads wait for
\* places in queues, with the mutex or without, is the server as specified
\* alone, whose threads never wait.
THEOREM ServerIsAsAlone == Spec => Server!Spec
BY IpcInit, IpcNext, ServerStepOrNone, PTL DEF Spec, Server!Spec, Init

LEMMA AloneByQueues == Spec => S!Spec
BY ServerIsAsAlone, SameInit, SameNext, PTL DEF Server!Spec, S!Spec

\* Hence, however many processes, threads and messages wait, resume is never
\* the last word to a covered app (Server.cpp:94-113, 164-172).
THEOREM NeverResumed == Spec => []CoveredNeverResumed
<1>1. S!Spec => []S!CoveredNeverResumed
  BY S!NeverResumed, SidesAssumptions
<1>2. S!CoveredNeverResumed => CoveredNeverResumed
  BY DEF S!CoveredNeverResumed, S!Covered, S!IsTop, S!IsLast, CoveredNeverResumed,
    Server!CoveredNeverResumed, Server!Covered, Server!IsTop, Server!IsLast
<1> QED
  BY <1>1, <1>2, AloneByQueues, PTL

\* Nor does it come to more than a frame of another thread over a new app: an
\* approved frame is of the app then on top, and only apps that other threads
\* registered can be above that (Server.cpp:199-235).
THEOREM OnlyOthersCover == Spec => []OnlyOthersCoverApproved
<1>1. S!Spec => []S!OnlyOthersCoverApproved
  BY S!OnlyOthersCover, SidesAssumptions
<1>2. S!OnlyOthersCoverApproved => OnlyOthersCoverApproved
  BY DEF S!OnlyOthersCoverApproved, S!Threads, S!HandlerOf, OnlyOthersCoverApproved,
    Server!OnlyOthersCoverApproved, Server!Threads, Server!HandlerOf
<1> QED
  BY <1>1, <1>2, AloneByQueues, PTL

\* Whoever comes up is resumed by the very step that removes the app above it,
\* though other threads wait with messages in their hands (Server.cpp:275-296,
\* 382-396).
THEOREM WhoComesUpIsResumed == Spec => Server!UncoveredTopIsResumed
<1>1. S!Spec => S!UncoveredTopIsResumed
  BY S!WhoComesUpIsResumed, SidesAssumptions
<1>2. [\A r \in apps : (S!Covered(r) /\ S!IsTop(r)') =>
          sent' = S!To(app[r].conn, S!Msg("appResume", app[r].id))]_(S!vars)
      => [\A r \in apps : (Server!Covered(r) /\ Server!IsTop(r)') =>
            sent' = Server!To(app[r].conn, Server!Msg("appResume", app[r].id))]_(Server!vars)
  BY DEF S!Covered, S!IsTop, S!IsLast, S!To, S!Quiet, S!Msg, S!vars,
    Server!Covered, Server!IsTop, Server!IsLast, Server!To, Server!Quiet, Server!Msg,
    Server!vars
<1> QED
  BY <1>1, <1>2, AloneByQueues, PTL
  DEF S!UncoveredTopIsResumed, Server!UncoveredTopIsResumed

\* The server with a thread for each connection implements the abstract screen:
\* only the app on top is granted it, and what a renderer shows is of someone
\* who holds a grant (Server.cpp:157-246).
THEOREM IpcImplementsArbiter == Spec => ImplementsArbiter
<1>1. S!Spec => S!Arbiter!Spec
  BY S!ServerImplementsArbiter, SidesAssumptions DEF S!ImplementsArbiter
<1>2. S!Arbiter!Init => Server!Arbiter!Init
  BY DEF S!Arbiter!Init, Server!Arbiter!Init, S!Renderers, Server!Renderers,
    S!Regs, Server!Regs, S!Threads, Server!Threads, S!HandlerOf, Server!HandlerOf
<1>3. [S!Arbiter!Next]_(S!Arbiter!vars) => [Server!Arbiter!Next]_(Server!Arbiter!vars)
  BY DEF S!Arbiter!Next, S!Arbiter!vars, S!Arbiter!Open, S!Arbiter!Close,
    S!Arbiter!Grant, S!Arbiter!Show, S!Arbiter!OnTop,
    Server!Arbiter!Next, Server!Arbiter!vars, Server!Arbiter!Open,
    Server!Arbiter!Close, Server!Arbiter!Grant, Server!Arbiter!Show,
    Server!Arbiter!OnTop, S!Regs, Server!Regs, S!Renderers, Server!Renderers,
    S!Threads, Server!Threads, S!HandlerOf, Server!HandlerOf, S!Ids, Server!Ids
<1> QED
  BY <1>1, <1>2, <1>3, AloneByQueues, PTL
  DEF ImplementsArbiter, Server!ImplementsArbiter, S!Arbiter!Spec, Server!Arbiter!Spec

==============================================================================
