------------------------- MODULE ApplicationProofs -------------------------
(***************************************************************************)
(* What holds of the application library, for any number of processes and  *)
(* parameters and whatever the server sends.                               *)
(***************************************************************************)
EXTENDS AnimationParams, TLAPS

LEMMA MsgTypes ==
  ASSUME NEW type \in ClientTypes \cup ServerTypes, NEW id \in Ids
  PROVE  Msg(type, id) \in Message /\ <<Msg(type, id)>> \in Seq(Message)
BY ProtocolAssumption DEF Msg, Message, Levels

LEMMA PostTypes ==
  ASSUME TypeOK, NEW a \in Clients, NEW ms \in Seq(Message), Post(a, ms)
  PROVE  posted' \in [Clients -> Seq(Message)]
<1>1. posted[a] \o ms \in Seq(Message)
  BY DEF TypeOK
<1> QED
  BY <1>1 DEF Post, TypeOK

LEMMA PostOneTypes ==
  ASSUME TypeOK, NEW a \in Clients, NEW type \in ClientTypes \cup ServerTypes,
         NEW id \in Ids, Post(a, <<Msg(type, id)>>)
  PROVE  posted' \in [Clients -> Seq(Message)]
BY MsgTypes, PostTypes

-----------------------------------------------------------------------------
(***************************************************************************)
(* Type correctness.                                                       *)
(***************************************************************************)
LEMMA InitTypes == Init => TypeOK
BY ProtocolAssumption DEF Init, TypeOK, Ids, AppStates, MainSteps

LEMMA MainTypes ==
  ASSUME TypeOK, NEW a \in Clients, Start(a) \/ MainStep(a) \/ LoopThrows(a)
  PROVE  TypeOK'
<1> USE DEF threadVars, Goto, MainSteps, AppStates
<1>1. 0 \in Ids /\ appId[a] \in Ids
  BY ProtocolAssumption DEF TypeOK, Ids
<1>2. CASE Start(a)
  BY <1>1, <1>2, PostOneTypes DEF Start, TypeOK, ClientTypes
<1>3. CASE CreateMainThread(a) \/ LoopHead(a) \/ LoopThrows(a) \/ CheckAlive(a)
  BY <1>3 DEF CreateMainThread, LoopHead, LoopThrows, CheckAlive, NextRound, TypeOK
<1>4. CASE TakeAck(a)
  BY <1>4 DEF TakeAck, TypeOK
<1>5. CASE Draw(a)
  <2>1. PICK level \in Levels :
          Post(a, <<[Msg("setScreenFrame", appId[a]) EXCEPT !.level = level]>>)
    BY <1>5 DEF Draw
  <2>2. [Msg("setScreenFrame", appId[a]) EXCEPT !.level = level] \in Message
    BY <1>1, MsgTypes DEF Message, ClientTypes
  <2>3. <<[Msg("setScreenFrame", appId[a]) EXCEPT !.level = level]>> \in Seq(Message)
    BY <2>2
  <2>4. posted' \in [Clients -> Seq(Message)]
    BY <2>1, <2>3, PostTypes
  <2> QED
    BY <1>5, <2>4 DEF Draw, TypeOK
<1>6. CASE TestKilled(a)
  <2>1. (looping[a] /\ appState[a] # "killed") \in BOOLEAN
    OBVIOUS
  <2> QED
    BY <1>6, <2>1 DEF TestKilled, TypeOK
<1>7. CASE CheckFails(a)
  BY <1>7 DEF CheckFails, NextRound, TypeOK
<1>8. CASE Reconnect(a)
  <2>1. <<Msg("registerApp", 0)>> \in Seq(Message)
    BY <1>1, MsgTypes DEF ClientTypes
  <2> QED
    BY <1>8, <2>1 DEF Reconnect, NextRound, TypeOK
<1> QED
  BY <1>2, <1>3, <1>4, <1>5, <1>6, <1>7, <1>8 DEF MainStep

LEMMA HandlerTypes ==
  ASSUME TypeOK, NEW a \in Clients, NEW m \in Message, handleRequest(a, m)
  PROVE  TypeOK'
<1> USE DEF threadVars, SetState, AppStates
<1>1. m.id \in Ids /\ appId[a] \in Ids
  BY DEF Message, TypeOK
<1>2. UNCHANGED connDead
  BY DEF handleRequest
<1>3. CASE Registered(a, m)
  <2>1. <<Msg("appParamSchema", m.id), Msg("getServerInfo", m.id)>> \in Seq(Message)
    BY <1>1, MsgTypes DEF ClientTypes
  <2> QED
    BY <1>1, <1>2, <1>3, <2>1, PostTypes DEF Registered, TypeOK
<1>4. CASE ServerInfo(a, m)
  BY <1>2, <1>4 DEF ServerInfo, TypeOK
<1>5. CASE Pause(a, m)
  BY <1>1, <1>2, <1>5, PostOneTypes DEF Pause, TypeOK, ClientTypes
<1>6. CASE Resume(a, m)
  BY <1>1, <1>2, <1>6, PostOneTypes DEF Resume, TypeOK, ClientTypes
<1>7. CASE Kill(a, m)
  BY <1>1, <1>2, <1>7, PostOneTypes DEF Kill, TypeOK, ClientTypes
<1>8. CASE FrameAck(a, m)
  BY <1>2, <1>8 DEF FrameAck, TypeOK
<1>9. CASE Answer(a, m)
  BY <1>1, <1>2, <1>9, PostOneTypes DEF Answer, TypeOK, ClientTypes
<1>10. CASE TakeInput(a, m)
  BY <1>2, <1>10 DEF TakeInput, TypeOK
<1> QED
  BY <1>3, <1>4, <1>5, <1>6, <1>7, <1>8, <1>9, <1>10 DEF handleRequest

LEMMA IoTypes ==
  ASSUME TypeOK, NEW a \in Clients, IoStep(a) \/ ConnectionFails(a)
  PROVE  TypeOK'
<1> USE DEF threadVars
<1>1. CASE JoinMainThread(a) \/ IoRunReturns(a) \/ ConnectionFails(a)
  BY <1>1 DEF JoinMainThread, IoRunReturns, ConnectionFails, TypeOK
<1>2. CASE Write(a)
  <2>1. Tail(posted[a]) \in Seq(Message)
    BY <1>2 DEF Write, TypeOK
  <2> QED
    BY <1>2, <2>1 DEF Write, TypeOK
<1> QED
  BY <1>1, <1>2 DEF IoStep

LEMMA NextTypes == TypeOK /\ [Next]_vars => TypeOK'
<1> SUFFICES ASSUME TypeOK, [Next]_vars PROVE TypeOK'
  OBVIOUS
<1>1. CASE UNCHANGED vars
  BY <1>1 DEF vars, TypeOK
<1> QED
  BY <1>1, MainTypes, HandlerTypes, IoTypes DEF Next, AnyMessage

\* Every variable of the library keeps its type, whatever the server sends
\* (MatrixApplication.h, MatrixApplication.cpp:164-294).
THEOREM TypeCorrect == Spec => []TypeOK
BY InitTypes, NextTypes, PTL DEF Spec

-----------------------------------------------------------------------------
(***************************************************************************)
(* What a process posts.                                                   *)
(***************************************************************************)

\* What the server handles of a client: of these only a frame has a level.
Requests == {m \in Message : /\ m.type \in ClientTypes
                             /\ m.level # 0 => m.type = "setScreenFrame"}

OnlyRequests == posted \in [Clients -> Seq(Requests)]

LEMMA MsgIsRequest ==
  ASSUME NEW type \in ClientTypes, NEW id \in Ids
  PROVE  Msg(type, id) \in Requests /\ <<Msg(type, id)>> \in Seq(Requests)
BY ProtocolAssumption DEF Msg, Message, Levels, Requests

LEMMA FrameIsRequest ==
  ASSUME NEW id \in Ids, NEW level \in Levels
  PROVE  [Msg("setScreenFrame", id) EXCEPT !.level = level] \in Requests
BY DEF Msg, Message, Requests, ClientTypes

LEMMA PostRequests ==
  ASSUME OnlyRequests, NEW a \in Clients, NEW ms \in Seq(Requests), Post(a, ms)
  PROVE  OnlyRequests'
<1>1. posted[a] \o ms \in Seq(Requests)
  BY DEF OnlyRequests
<1> QED
  BY <1>1 DEF Post, OnlyRequests

LEMMA PostRequest ==
  ASSUME OnlyRequests, NEW a \in Clients, NEW type \in ClientTypes, NEW id \in Ids,
         Post(a, <<Msg(type, id)>>)
  PROVE  OnlyRequests'
BY MsgIsRequest, PostRequests

LEMMA MainRequests ==
  ASSUME TypeOK, OnlyRequests, NEW a \in Clients,
         Start(a) \/ MainStep(a) \/ LoopThrows(a)
  PROVE  OnlyRequests'
<1>1. 0 \in Ids /\ appId[a] \in Ids
  BY ProtocolAssumption DEF TypeOK, Ids
<1>2. CASE Start(a)
  BY <1>1, <1>2, PostRequest DEF Start, ClientTypes
<1>3. CASE Draw(a)
  <2>1. PICK level \in Levels :
          Post(a, <<[Msg("setScreenFrame", appId[a]) EXCEPT !.level = level]>>)
    BY <1>3 DEF Draw
  <2>2. [Msg("setScreenFrame", appId[a]) EXCEPT !.level = level] \in Requests
    BY <1>1, FrameIsRequest
  <2>3. <<[Msg("setScreenFrame", appId[a]) EXCEPT !.level = level]>> \in Seq(Requests)
    BY <2>2
  <2> QED
    BY <2>1, <2>3, PostRequests
<1>4. CASE Reconnect(a)
  <2>1. <<Msg("registerApp", 0)>> \in Seq(Requests)
    BY <1>1, MsgIsRequest DEF ClientTypes
  <2> QED
    BY <1>4, <2>1 DEF Reconnect, OnlyRequests
<1>5. CASE UNCHANGED posted
  BY <1>5 DEF OnlyRequests
<1> QED
  BY <1>2, <1>3, <1>4, <1>5 DEF MainStep, CreateMainThread, LoopHead, TakeAck,
    TestKilled, CheckAlive, CheckFails, LoopThrows

LEMMA HandlerRequests ==
  ASSUME TypeOK, OnlyRequests, NEW a \in Clients, NEW m \in Message,
         handleRequest(a, m)
  PROVE  OnlyRequests'
<1>1. m.id \in Ids /\ appId[a] \in Ids
  BY DEF Message, TypeOK
<1>2. CASE Registered(a, m)
  <2>1. <<Msg("appParamSchema", m.id), Msg("getServerInfo", m.id)>> \in Seq(Requests)
    BY <1>1, MsgIsRequest DEF ClientTypes
  <2> QED
    BY <1>2, <2>1, PostRequests DEF Registered
<1>3. CASE Pause(a, m)
  BY <1>1, <1>3, PostRequest DEF Pause, ClientTypes
<1>4. CASE Resume(a, m)
  BY <1>1, <1>4, PostRequest DEF Resume, ClientTypes
<1>5. CASE Kill(a, m)
  BY <1>1, <1>5, PostRequest DEF Kill, ClientTypes
<1>6. CASE Answer(a, m)
  BY <1>1, <1>6, PostRequest DEF Answer, ClientTypes
<1>7. CASE UNCHANGED posted
  BY <1>7 DEF OnlyRequests
<1> QED
  BY <1>2, <1>3, <1>4, <1>5, <1>6, <1>7 DEF handleRequest, ServerInfo, FrameAck, TakeInput

LEMMA IoRequests ==
  ASSUME OnlyRequests, NEW a \in Clients, IoStep(a) \/ ConnectionFails(a)
  PROVE  OnlyRequests'
<1>1. CASE Write(a)
  <2>1. Tail(posted[a]) \in Seq(Requests)
    BY <1>1 DEF Write, OnlyRequests
  <2> QED
    BY <1>1, <2>1 DEF Write, OnlyRequests
<1>2. CASE UNCHANGED posted
  BY <1>2 DEF OnlyRequests
<1> QED
  BY <1>1, <1>2 DEF IoStep, JoinMainThread, IoRunReturns, ConnectionFails

\* Whatever the server sends, the library posts nothing but what the server's
\* handlers know (MatrixApplication.cpp:164-294, Server.cpp:153-321).
THEOREM PostsRequests == Spec => []OnlyRequests
<1>1. Init => OnlyRequests
  BY DEF Init, OnlyRequests
<1>2. TypeOK /\ OnlyRequests /\ [Next]_vars => OnlyRequests'
  <2> SUFFICES ASSUME TypeOK, OnlyRequests, [Next]_vars PROVE OnlyRequests'
    OBVIOUS
  <2>1. CASE UNCHANGED vars
    BY <2>1 DEF vars, OnlyRequests
  <2> QED
    BY <2>1, MainRequests, HandlerRequests, IoRequests DEF Next, AnyMessage
<1> QED
  BY <1>1, <1>2, TypeCorrect, PTL DEF Spec

-----------------------------------------------------------------------------
(***************************************************************************)
(* DrawsOnlyWithScreens is not inductive: the main thread enters the wait  *)
(* because of appState, so that the states from which pause and resume     *)
(* lead to running must have screens too.                                  *)
(***************************************************************************)
ScreensInv ==
  /\ TypeOK
  /\ DrawsOnlyWithScreens
  /\ \A a \in Clients : appState[a] \in {"running", "paused"} => screens[a] # 0

LEMMA ScreensStep == ScreensInv /\ [Next]_vars => ScreensInv'
<1> SUFFICES ASSUME ScreensInv, [Next]_vars PROVE ScreensInv'
  OBVIOUS
<1> USE DEF threadVars, Goto, SetState, ScreensInv, DrawsOnlyWithScreens
<1>1. TypeOK'
  BY NextTypes
<1>2. CASE UNCHANGED vars
  BY <1>1, <1>2 DEF vars
<1>3. ASSUME NEW a \in Clients, Start(a) \/ MainStep(a) \/ LoopThrows(a)
      PROVE  ScreensInv'
  <2>1. CASE Start(a) \/ CreateMainThread(a) \/ TestKilled(a) \/ LoopThrows(a)
    BY <1>1, <2>1 DEF Start, CreateMainThread, TestKilled, LoopThrows, TypeOK
  <2>2. CASE LoopHead(a)
    BY <1>1, <2>2 DEF LoopHead, TypeOK
  <2>3. CASE TakeAck(a)
    BY <1>1, <2>3 DEF TakeAck, TypeOK
  <2>4. CASE Draw(a)
    BY <1>1, <2>4 DEF Draw, TypeOK
  <2>5. CASE CheckAlive(a)
    BY <1>1, <2>5 DEF CheckAlive, NextRound, TypeOK
  <2>6. CASE CheckFails(a) \/ Reconnect(a)
    BY <1>1, <2>6 DEF CheckFails, Reconnect, NextRound, TypeOK
  <2> QED
    BY <1>3, <2>1, <2>2, <2>3, <2>4, <2>5, <2>6 DEF MainStep
<1>4. ASSUME NEW a \in Clients, NEW m, handleRequest(a, m)
      PROVE  ScreensInv'
  <2>1. CASE Registered(a, m) \/ FrameAck(a, m) \/ Answer(a, m) \/ TakeInput(a, m)
    BY <1>1, <2>1 DEF Registered, FrameAck, Answer, TakeInput
  <2>2. CASE ServerInfo(a, m)
    BY <1>1, <2>2 DEF ServerInfo, TypeOK
  <2>3. CASE Pause(a, m)
    BY <1>1, <2>3 DEF Pause, TypeOK
  <2>4. CASE Resume(a, m)
    BY <1>1, <2>4 DEF Resume, TypeOK
  <2>5. CASE Kill(a, m)
    BY <1>1, <2>5 DEF Kill, TypeOK
  <2> QED
    BY <1>4, <2>1, <2>2, <2>3, <2>4, <2>5 DEF handleRequest
<1>5. ASSUME NEW a \in Clients, IoStep(a) \/ ConnectionFails(a)
      PROVE  ScreensInv'
  BY <1>1, <1>5 DEF IoStep, JoinMainThread, Write, IoRunReturns, ConnectionFails
<1> QED
  BY <1>2, <1>3, <1>4, <1>5 DEF Next, AnyMessage

\* The main thread draws only on screens it has received: no order of pauses,
\* resumes, kills and reconnects makes an application run before the server's
\* answer (MatrixApplication.cpp:132-137, 189-230, 318-332).
THEOREM DrawsWithScreens == Spec => []DrawsOnlyWithScreens
<1>1. Init => ScreensInv
  BY InitTypes DEF Init, ScreensInv, DrawsOnlyWithScreens
<1>2. ScreensInv => DrawsOnlyWithScreens
  BY DEF ScreensInv
<1> QED
  BY <1>1, <1>2, ScreensStep, PTL DEF Spec

-----------------------------------------------------------------------------
(***************************************************************************)
(* The parameters of an application.                                       *)
(***************************************************************************)
Kinds == ParamTypes \cup {"none"}

Record == [type : Kinds, val : [ParamTypes -> Values]]

ParamsTypeOK ==
  /\ params \in [Clients -> [Keys -> Record]]
  /\ schema \in [Clients -> [Keys -> Kinds]]
  /\ wanted \in [Clients -> [Keys -> Values]]

\* That a schema was sent means that start() was called, so that nothing is
\* registered any more.
SchemaIsFinal(a, k) ==
  schema[a][k] # "none" => mainAt[a] # "off" /\ schema[a][k] = params[a][k].type

ValueIsWanted(record, w) ==
  record.type # "none" => record.val[record.type] = w

ParamsInv ==
  /\ TypeOK
  /\ ParamsTypeOK
  /\ \A a \in Clients, k \in Keys :
       SchemaIsFinal(a, k) /\ ValueIsWanted(params[a][k], wanted[a][k])

\* start() is called once.
LEMMA StartedStays ==
  ASSUME TypeOK, [Next]_vars
  PROVE  \A a \in Clients : mainAt[a] # "off" => mainAt'[a] # "off"
<1> SUFFICES ASSUME NEW a \in Clients, mainAt[a] # "off" PROVE mainAt'[a] # "off"
  OBVIOUS
<1>1. CASE UNCHANGED mainAt
  BY <1>1
<1>2. ASSUME NEW b \in Clients, NEW step \in MainSteps \ {"off"}, Goto(b, step)
      PROVE  mainAt'[a] # "off"
  BY <1>2 DEF Goto, TypeOK
<1>3. ASSUME NEW b \in Clients, Start(b) \/ MainStep(b) \/ LoopThrows(b)
      PROVE  mainAt'[a] # "off"
  <2>1. \E step \in MainSteps \ {"off"} : Goto(b, step)
    BY <1>3 DEF Start, MainStep, LoopThrows, CreateMainThread, LoopHead, TakeAck, Draw,
      TestKilled, CheckAlive, CheckFails, Reconnect, NextRound, MainSteps
  <2> QED
    BY <1>2, <2>1
<1>4. ASSUME NEW b \in Clients, IoStep(b) \/ ConnectionFails(b) \/ AnyMessage(b)
      PROVE  mainAt'[a] # "off"
  <2>1. UNCHANGED mainAt
    BY <1>4 DEF IoStep, JoinMainThread, Write, IoRunReturns, ConnectionFails, AnyMessage,
      handleRequest, Registered, ServerInfo, Pause, Resume, Kill, FrameAck, Answer,
      TakeInput, threadVars
  <2> QED
    BY <1>1, <2>1
<1>5. CASE UNCHANGED vars
  BY <1>1, <1>5 DEF vars
<1> QED
  BY <1>3, <1>4, <1>5 DEF Next

\* A step is one of the library, whatever it does to the parameters.
LEMMA ParamsStep == [ParamsNext]_<<vars, paramVars>> => [Next]_vars
<1> SUFFICES ASSUME [ParamsNext]_<<vars, paramVars>> PROVE [Next]_vars
  OBVIOUS
<1>1. ASSUME NEW a \in Clients, ParamsMessage(a) PROVE AnyMessage(a)
  BY <1>1 DEF ParamsMessage, AnyMessage
<1>2. ASSUME NEW a \in Clients, RegisterParam(a) \/ SetParam(a) PROVE UNCHANGED vars
  BY <1>2 DEF RegisterParam, SetParam
<1> QED
  BY <1>1, <1>2 DEF ParamsNext, Next

\* One parameter of one application changes.
LEMMA OneParamKeeps ==
  ASSUME ParamsInv, TypeOK', \A a \in Clients : mainAt[a] # "off" => mainAt'[a] # "off",
         NEW a \in Clients, NEW k \in Keys,
         NEW record \in Record, params' = [params EXCEPT ![a][k] = record],
         NEW w \in Values, wanted' = [wanted EXCEPT ![a][k] = w],
         UNCHANGED schema,
         ValueIsWanted(record, w),
         mainAt[a] # "off" => record.type = params[a][k].type
  PROVE  ParamsInv'
<1>1. /\ ParamsTypeOK'
      /\ params'[a][k] = record /\ wanted'[a][k] = w
      /\ \A b \in Clients, h \in Keys : b # a \/ h # k =>
           params'[b][h] = params[b][h] /\ wanted'[b][h] = wanted[b][h]
  <2>1. [params[a] EXCEPT ![k] = record] \in [Keys -> Record]
    BY DEF ParamsInv, ParamsTypeOK
  <2>2. [wanted[a] EXCEPT ![k] = w] \in [Keys -> Values]
    BY DEF ParamsInv, ParamsTypeOK
  <2> QED
    BY <2>1, <2>2 DEF ParamsInv, ParamsTypeOK
<1>2. ASSUME NEW b \in Clients, NEW h \in Keys
      PROVE  SchemaIsFinal(b, h)' /\ ValueIsWanted(params[b][h], wanted[b][h])'
  <2>0. SchemaIsFinal(b, h) /\ ValueIsWanted(params[b][h], wanted[b][h])
    BY DEF ParamsInv
  <2>1. CASE b # a \/ h # k
    BY <1>1, <2>0, <2>1 DEF SchemaIsFinal, ValueIsWanted
  <2>2. CASE b = a /\ h = k
    BY <1>1, <2>0, <2>2 DEF SchemaIsFinal, ValueIsWanted
  <2> QED
    BY <2>1, <2>2
<1> QED
  BY <1>1, <1>2 DEF ParamsInv

\* Setting one field of a record.
LEMMA OneField ==
  ASSUME NEW record \in Record, NEW t \in ParamTypes, NEW value \in Values
  PROVE  LET new == [record EXCEPT !.val[t] = value]
         IN /\ new \in Record /\ new.type = record.type
            /\ new.val[t] = value
            /\ \A u \in ParamTypes \ {t} : new.val[u] = record.val[u]
<1>1. record.val \in [ParamTypes -> Values]
  BY DEF Record
<1>2. [record.val EXCEPT ![t] = value] \in [ParamTypes -> Values]
  BY <1>1
<1> QED
  BY <1>1, <1>2 DEF Record

LEMMA RegisterKeeps ==
  ASSUME ParamsInv, TypeOK', NEW a \in Clients, RegisterParam(a)
  PROVE  ParamsInv'
<1>1. PICK k \in Keys, type \in ParamTypes, def \in Values : register(a, k, type, def)
  BY DEF RegisterParam
<1>2. PICK val \in [ParamTypes -> Values] :
        /\ val[type] = def
        /\ params' = [params EXCEPT ![a][k] = [type |-> type, val |-> val]]
        /\ wanted' = [wanted EXCEPT ![a][k] = def]
  BY <1>1 DEF register
<1> DEFINE record == [type |-> type, val |-> val]
<1>3. record \in Record /\ record.type = type /\ record.val = val
  BY DEF Record, Kinds
<1>4. ValueIsWanted(record, def)
  BY <1>2, <1>3 DEF ValueIsWanted
<1>5. mainAt[a] = "off" /\ UNCHANGED mainAt /\ UNCHANGED schema
  BY DEF RegisterParam, vars
<1> HIDE DEF record
<1> QED
  BY <1>2, <1>3, <1>4, <1>5, OneParamKeeps DEF record

LEMMA SetKeeps ==
  ASSUME ParamsInv, TypeOK', NEW a \in Clients, SetParam(a)
  PROVE  ParamsInv'
<1>1. PICK k \in Keys, type \in ParamTypes, value \in Values : set(a, k, type, value)
  BY DEF SetParam
<1>2. UNCHANGED mainAt /\ UNCHANGED schema /\ mainAt[a] # "off"
  BY DEF SetParam, vars
<1>3. params[a][k] \in Record /\ wanted[a][k] \in Values
  BY DEF ParamsInv, ParamsTypeOK
<1> DEFINE record == IF k \in Known(a) THEN [params[a][k] EXCEPT !.val[type] = value]
                     ELSE params[a][k]
           w == IF type = params[a][k].type THEN value ELSE wanted[a][k]
<1>4. params' = [params EXCEPT ![a][k] = record]
  BY <1>1 DEF set, ParamsInv, ParamsTypeOK
<1>5. wanted' = [wanted EXCEPT ![a][k] = w]
  BY <1>1 DEF set, ParamsInv, ParamsTypeOK
<1>6. w \in Values
  BY <1>3
<1>7. record \in Record /\ record.type = params[a][k].type
  BY <1>3, OneField
<1>8. ValueIsWanted(record, w)
  <2>1. ValueIsWanted(params[a][k], wanted[a][k])
    BY DEF ParamsInv
  <2>2. CASE k \in Known(a)
    <3>1. params[a][k].type \in ParamTypes
      BY <1>3, <2>2 DEF Known, Record, Kinds
    <3>2. /\ record.val[type] = value
          /\ \A u \in ParamTypes \ {type} : record.val[u] = params[a][k].val[u]
      <4> DEFINE old == params[a][k]
                 new == [old EXCEPT !.val[type] = value]
      <4>1. /\ new.val[type] = value
            /\ \A u \in ParamTypes \ {type} : new.val[u] = old.val[u]
        <5>1. old \in Record
          BY <1>3
        <5> HIDE DEF old
        <5> QED
          BY <5>1, OneField
      <4>2. record = new
        BY <2>2
      <4> HIDE DEF new
      <4> QED
        BY <4>1, <4>2
    <3> HIDE DEF record
    <3> QED
      BY <1>7, <2>1, <3>1, <3>2 DEF ValueIsWanted
  <2>3. CASE k \notin Known(a)
    <3>1. params[a][k].type = "none"
      BY <2>3 DEF Known
    <3> HIDE DEF record
    <3> QED
      BY <1>7, <3>1 DEF ValueIsWanted
  <2> QED
    BY <2>2, <2>3
<1> HIDE DEF record, w
<1> QED
  BY <1>2, <1>4, <1>5, <1>6, <1>7, <1>8, OneParamKeeps

LEMMA UpdateKeeps ==
  ASSUME ParamsInv, TypeOK', \A a \in Clients : mainAt[a] # "off" => mainAt'[a] # "off",
         NEW a \in Clients, NEW u \in Updates, applyUpdate(a, u), UNCHANGED schema
  PROVE  ParamsInv'
<1> DEFINE k == u.key
           old == params[a][k]
           w == IF u.field = old.type THEN u.value ELSE 0
           record == [old EXCEPT !.val[old.type] = w]
<1>1. k \in Keys /\ u.value \in Values /\ 0 \in Values
  BY ParamsAssumption DEF Updates, Values
<1>2. old \in Record /\ old.type \in ParamTypes
  BY <1>1 DEF ParamsInv, ParamsTypeOK, applyUpdate, Known, Record, Kinds
<1>3. params' = [params EXCEPT ![a][k] = record] /\ wanted' = [wanted EXCEPT ![a][k] = w]
  BY DEF applyUpdate, Updated
<1>4. w \in Values
  BY <1>1
<1>5. record \in Record /\ record.type = old.type /\ record.val[old.type] = w
  <2> HIDE DEF w, old
  <2> QED
    BY <1>2, <1>4, OneField
<1>6. ValueIsWanted(record, w)
  <2> HIDE DEF record
  <2> QED
    BY <1>5 DEF ValueIsWanted
<1> HIDE DEF record, w
<1> QED
  BY <1>1, <1>3, <1>4, <1>5, <1>6, OneParamKeeps

LEMMA ParamsNextKeeps == ParamsInv /\ [ParamsNext]_<<vars, paramVars>> => ParamsInv'
<1> SUFFICES ASSUME ParamsInv, [ParamsNext]_<<vars, paramVars>> PROVE ParamsInv'
  OBVIOUS
<1>1. /\ TypeOK'
      /\ \A a \in Clients : mainAt[a] # "off" => mainAt'[a] # "off"
  BY ParamsStep, NextTypes, StartedStays DEF ParamsInv
<1>2. ASSUME UNCHANGED paramVars PROVE ParamsInv'
  BY <1>1, <1>2 DEF ParamsInv, ParamsTypeOK, SchemaIsFinal, ValueIsWanted, paramVars
<1>3. ASSUME NEW a \in Clients, ParamsMessage(a) PROVE ParamsInv'
  <2>1. PICK m \in Message : HandleParams(a, m)
    BY <1>3 DEF ParamsMessage
  <2>2. CASE mainAt[a] # "off" /\ schema' = [schema EXCEPT ![a] = toSchema(a)]
             /\ UNCHANGED <<params, wanted>>
    <3>1. toSchema(a) \in [Keys -> Kinds]
      BY DEF toSchema, ParamsInv, ParamsTypeOK, Record
    <3>2. ParamsTypeOK'
      BY <2>2, <3>1 DEF ParamsInv, ParamsTypeOK
    <3>3. ASSUME NEW b \in Clients, NEW k \in Keys
          PROVE  SchemaIsFinal(b, k)' /\ ValueIsWanted(params[b][k], wanted[b][k])'
      <4>0. SchemaIsFinal(b, k) /\ ValueIsWanted(params[b][k], wanted[b][k])
        BY DEF ParamsInv
      <4>1. schema'[b][k] = IF b = a THEN params[a][k].type ELSE schema[b][k]
        BY <2>2 DEF toSchema, ParamsInv, ParamsTypeOK
      <4> QED
        BY <1>1, <2>2, <4>0, <4>1 DEF SchemaIsFinal, ValueIsWanted
    <3> QED
      BY <1>1, <3>2, <3>3 DEF ParamsInv
  <2>3. CASE (\E u \in Updates : applyUpdate(a, u)) /\ UNCHANGED schema
    BY <1>1, <2>3, UpdateKeeps
  <2> QED
    BY <1>2, <2>1, <2>2, <2>3 DEF HandleParams
<1>4. CASE ParamsNext
  BY <1>1, <1>2, <1>3, <1>4, RegisterKeeps, SetKeeps DEF ParamsNext
<1> QED
  BY <1>2, <1>4

\* For any number of applications, parameters and values: the types in the
\* schema the web client was sent stay those of the parameters, and whoever
\* reads one gets what was last set through its type, by loop() or by the web
\* client (MatrixApplication.cpp:311-313, AnimationParams.cpp:92-139).
THEOREM AnswersAreWanted == ParamsSpec => []AnswersFollowSchema
<1>1. ParamsInit => ParamsInv
  <2> SUFFICES ASSUME ParamsInit PROVE ParamsInv
    OBVIOUS
  <2>1. Absent \in Record /\ Absent.type = "none"
    BY ParamsAssumption DEF Absent, Record, Kinds, Values
  <2>2. 0 \in Values
    BY ParamsAssumption DEF Values
  <2>3. ParamsTypeOK
    BY <2>1, <2>2 DEF ParamsInit, ParamsTypeOK, Kinds
  <2> HIDE DEF Absent
  <2> QED
    BY <2>1, <2>3, InitTypes DEF ParamsInit, ParamsInv, SchemaIsFinal, ValueIsWanted
<1>2. ParamsInv => AnswersFollowSchema
  BY DEF ParamsInv, SchemaIsFinal, ValueIsWanted, AnswersFollowSchema, Known, toValues, get
<1> QED
  BY <1>1, <1>2, ParamsNextKeeps, PTL DEF ParamsSpec

=============================================================================
